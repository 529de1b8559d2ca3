-------------------------- MODULE GearboxRootVault --------------------------
(***************************************************************************)
(* GearboxRootVault: deposits go into a GearboxVault, withdrawals are      *)
(* requests that an execution settles once per epoch and that users claim  *)
(* later from the ERC20Vault.  The per-user records are settled lazily:    *)
(* a request of an executed epoch "hangs" until its owner's next call.     *)
(*                                                                         *)
(* One action is one external call.  The GearboxVault is reduced to the    *)
(* tokens it holds, whether its credit account is open, and the net value  *)
(* of that account, which the market and the cost of closing it change.    *)
(* LP shares sent to the treasuries are kept in one account, FeeReceiver.  *)
(* The gates that only reject deposits (disableDeposit, the allowlist) and *)
(* the slippage argument minLpTokens are left out; they are in module      *)
(* ERC20RootVault.  ERC20_TRANSFER is taken as granted to the token.       *)
(*                                                                         *)
(* An operator that stands before its namesake and is used nowhere is a    *)
(* wrong version of it, kept to show that the properties would notice.     *)
(***************************************************************************)
EXTENDS Integers, FiniteSets, FiniteSetsExt

CONSTANTS
    User, Locked, FeeReceiver,   \* LP holders; Locked is address(0)
    PullExistential, D18, DENOMINATOR, YEAR,
    ManagementFee, ProtocolFee, PerformanceFee, ManagementFeeChargeDelay,
    TokenLimit, TokenLimitPerAddress, WithdrawDelay,
    Amounts,       \* token amounts used as arguments of deposit and strategy calls
    LpAmounts,     \* LP amounts used as arguments
    Slippages,     \* what closing a credit account may cost
    AccountValues, \* values the market may give an open credit account
    MaxTime, MaxEpoch, MaxCalls   \* bounds: clock, executions, calls

Account == User \cup {Locked, FeeReceiver}
Epoch == 1..MaxEpoch

ASSUME AccountAssumption ==
    /\ IsFiniteSet(User)
    /\ Locked \notin User /\ FeeReceiver \notin User /\ Locked # FeeReceiver
ASSUME ScaleAssumption ==
    {PullExistential, D18, DENOMINATOR, YEAR} \subseteq Nat \ {0}
ASSUME ParamAssumption ==
    /\ {ManagementFee, ProtocolFee, PerformanceFee, ManagementFeeChargeDelay} \subseteq Nat
    /\ {TokenLimit, TokenLimitPerAddress, WithdrawDelay} \subseteq Nat
    /\ {MaxTime, MaxEpoch, MaxCalls} \subseteq Nat
    /\ Amounts \cup LpAmounts \cup Slippages \cup AccountValues \subseteq Nat

VARIABLES
    (* the LP token and the fee state *)
    balanceOf, totalSupply, lastFeeCharge, lpPriceHighWaterMark,
    (* withdrawal epochs *)
    isClosed, currentEpoch, lastEpochChange, epochToPrice,
    withdrawalRequests, latestRequestEpoch,
    lpTokensWaitingForClaim, primaryTokensToClaim,
    totalCurrentEpochRequests, totalLpTokensWaiting,
    (* tokens on the root vault, the ERC20Vault and the GearboxVault *)
    rootIdle, erc20, gearboxIdle, accountOpen, accountValue,
    (* the clock; history: tokens the strategy took from the ERC20Vault *)
    now, lent, calls

lpVars == <<balanceOf, totalSupply>>
feeVars == <<lastFeeCharge, lpPriceHighWaterMark>>
epochVars == <<currentEpoch, lastEpochChange, epochToPrice>>
requestVars == <<withdrawalRequests, latestRequestEpoch, totalCurrentEpochRequests>>
claimVars == <<lpTokensWaitingForClaim, primaryTokensToClaim, totalLpTokensWaiting>>
gearboxVars == <<gearboxIdle, accountOpen, accountValue>>
vars == <<lpVars, feeVars, isClosed, epochVars, requestVars, claimVars,
          rootIdle, erc20, gearboxVars, now, lent, calls>>

mulDiv(a, b, c) == (a * b) \div c
Least(a, b) == IF a < b THEN a ELSE b

(* ERC20Token._mint, and the credit side of a transfer.                    *)
Credit(balances, a, n) == [balances EXCEPT ![a] = @ + n]

Call == calls < MaxCalls /\ calls' = calls + 1

-----------------------------------------------------------------------------
(* LP shares and fees.                                                     *)

(* GearboxVault.tvl: the account counts for nothing when its debt exceeds  *)
(* its assets.                                                             *)
Tvl == gearboxIdle + accountValue

(* Shares whose requests were executed no longer take part in the tvl.     *)
Supply == totalSupply - totalLpTokensWaiting

Elapsed == now - lastFeeCharge
Charged(supply) == Elapsed >= ManagementFeeChargeDelay /\ supply > 0
PeriodFee(rate, supply) == mulDiv(rate * Elapsed, supply, YEAR * DENOMINATOR)
LpPrice(supply) == mulDiv(Tvl, D18, supply)
NewHigh(supply) ==
    Charged(supply) /\ PerformanceFee > 0 /\ LpPrice(supply) > lpPriceHighWaterMark

(* LP tokens that _chargeFees mints.                                       *)
PeriodFees(supply) ==
    IF Charged(supply) THEN PeriodFee(ManagementFee, supply) + PeriodFee(ProtocolFee, supply)
    ELSE 0
ProfitFee(supply) ==
    IF NewHigh(supply) /\ lpPriceHighWaterMark > 0
    THEN mulDiv(mulDiv(supply, LpPrice(supply) - lpPriceHighWaterMark, lpPriceHighWaterMark),
                PerformanceFee, DENOMINATOR)
    ELSE 0
FeesMinted(supply) == PeriodFees(supply) + ProfitFee(supply)
BalancesWithoutFees == balanceOf
BalancesWithFees == Credit(balanceOf, FeeReceiver, FeesMinted(Supply))

(* What _chargeFees leaves in its own state.                               *)
ChargeFees(supply) ==
    /\ lastFeeCharge' = IF Charged(supply) THEN now ELSE lastFeeCharge
    /\ lpPriceHighWaterMark' = IF NewHigh(supply) THEN LpPrice(supply)
                               ELSE lpPriceHighWaterMark

-----------------------------------------------------------------------------
(* GearboxVault: push and pull.                                            *)

(* _push: with an open credit account everything the vault holds becomes   *)
(* collateral.                                                             *)
PushGearbox(amount) ==
    /\ accountOpen' = accountOpen
    /\ gearboxIdle' = IF accountOpen THEN 0 ELSE gearboxIdle + amount
    /\ accountValue' = IF accountOpen THEN accountValue + gearboxIdle + amount ELSE 0

(* _pull: an open account is closed for whatever it costs; the amount that *)
(* leaves the vault is capped by what it holds then.                       *)
Redeemable(slippage) ==
    gearboxIdle + (IF accountOpen THEN accountValue - slippage ELSE 0)
Pulled(want, slippage) == Least(want, Redeemable(slippage))
PullGearbox(want, slippage) ==
    /\ accountOpen => slippage <= accountValue
    /\ accountOpen' = FALSE
    /\ accountValue' = 0
    /\ gearboxIdle' = Redeemable(slippage) - Pulled(want, slippage)

-----------------------------------------------------------------------------
(* deposit: the shares are rounded down, and only what they are worth,     *)
(* again rounded down, is taken from the depositor.                        *)
WorthOfAllShares(lpAmount, supply) == mulDiv(Tvl, lpAmount, supply + totalLpTokensWaiting)
Worth(lpAmount, supply) == mulDiv(Tvl, lpAmount, supply)

Deposit(u, amount) ==
    LET supply == Supply + FeesMinted(Supply)
        lpAmount == IF supply = 0 THEN amount ELSE mulDiv(supply, amount, Tvl)
        sent == IF supply = 0 THEN amount ELSE Worth(lpAmount, supply)
        to == IF supply = 0 THEN Locked ELSE u
    IN  /\ Call
        /\ ~isClosed
        /\ totalSupply = 0 =>
               amount \in 10 * PullExistential .. PullExistential * PullExistential
        /\ totalLpTokensWaiting <= totalSupply
        /\ supply > 0 => Tvl > 0
        /\ lpAmount # 0
        /\ lpAmount + balanceOf[u] <= TokenLimitPerAddress
        /\ lpAmount + supply <= TokenLimit
        /\ balanceOf' = Credit(BalancesWithFees, to, lpAmount)
        /\ totalSupply' = totalSupply + FeesMinted(Supply) + lpAmount
        /\ ChargeFees(Supply)
        /\ PushGearbox(sent)
        /\ UNCHANGED <<isClosed, epochVars, requestVars, claimVars, rootIdle, erc20,
                       now, lent>>

-----------------------------------------------------------------------------
(* Withdrawal requests.                                                    *)

(* The request of an executed epoch that its owner has not touched since.  *)
Hangs(u) == latestRequestEpoch[u] \notin {0, currentEpoch}
HangingLp(u) == IF Hangs(u) THEN withdrawalRequests[u] ELSE 0
LatestPrice(u) == epochToPrice[currentEpoch - 1]
RequestPrice(u) == epochToPrice[latestRequestEpoch[u]]
HangingPrimary(u) ==
    IF Hangs(u) THEN mulDiv(withdrawalRequests[u], RequestPrice(u), D18) ELSE 0

(* What the user has asked for since the last execution.                   *)
AskedEver(u) == withdrawalRequests[u]
Asked(u) == IF Hangs(u) THEN 0 ELSE withdrawalRequests[u]

(* _processHangingWithdrawal(u, false)                                     *)
ProcessHanging(u) ==
    /\ lpTokensWaitingForClaim' = [lpTokensWaitingForClaim EXCEPT ![u] = @ + HangingLp(u)]
    /\ primaryTokensToClaim' = [primaryTokensToClaim EXCEPT ![u] = @ + HangingPrimary(u)]

(* registerWithdrawal: adds to the request of this epoch, or replaces the  *)
(* one of an earlier epoch after settling it.  Checked subtraction reverts *)
(* when the user's balance no longer covers what was asked for before.     *)
RegisterWithdrawal(u, lpTokenAmount) ==
    LET free == balanceOf[u] - lpTokensWaitingForClaim[u] - HangingLp(u) - Asked(u)
        registered == Least(lpTokenAmount, free)
    IN  /\ Call
        /\ free >= 0
        /\ withdrawalRequests' = [withdrawalRequests EXCEPT ![u] = Asked(u) + registered]
        /\ latestRequestEpoch' = [latestRequestEpoch EXCEPT ![u] = currentEpoch]
        /\ totalCurrentEpochRequests' = totalCurrentEpochRequests + registered
        /\ ProcessHanging(u)
        /\ UNCHANGED <<lpVars, feeVars, isClosed, epochVars, totalLpTokensWaiting,
                       rootIdle, erc20, gearboxVars, now, lent>>

(* cancelWithdrawal *)
CancelWithdrawal(u, lpTokenAmount) ==
    LET cancelled == Least(lpTokenAmount, withdrawalRequests[u])
    IN  /\ Call
        /\ latestRequestEpoch[u] = currentEpoch
        /\ cancelled <= totalCurrentEpochRequests
        /\ withdrawalRequests' = [withdrawalRequests EXCEPT ![u] = @ - cancelled]
        /\ totalCurrentEpochRequests' = totalCurrentEpochRequests - cancelled
        /\ UNCHANGED <<lpVars, feeVars, isClosed, epochVars, latestRequestEpoch, claimVars,
                       rootIdle, erc20, gearboxVars, now, lent>>

-----------------------------------------------------------------------------
(* Execution: the requests of the epoch are priced by what the GearboxVault *)
(* paid for them, and the paid tokens wait on the ERC20Vault.              *)
RequestsWorthBeforeFees(supply) == mulDiv(totalCurrentEpochRequests, Tvl, Supply)
RequestsWorth(supply) == mulDiv(totalCurrentEpochRequests, Tvl, supply)

EpochPriceOfSupply(paid) == LpPrice(Supply)
EpochPrice(paid) == mulDiv(paid, D18, totalCurrentEpochRequests)

Execute(slippage) ==
    LET requests == totalCurrentEpochRequests
        supply == Supply + FeesMinted(Supply)
        want == RequestsWorth(supply)
    IN  /\ currentEpoch \in Epoch
        /\ totalLpTokensWaiting <= totalSupply
        /\ supply > 0
        /\ lastEpochChange' = now
        /\ ChargeFees(Supply)
        /\ balanceOf' = BalancesWithFees
        /\ totalSupply' = totalSupply + FeesMinted(Supply)
        /\ PullGearbox(want, slippage)
        /\ erc20' = erc20 + Pulled(want, slippage)
        /\ totalLpTokensWaiting' = totalLpTokensWaiting + requests
        /\ epochToPrice' = [epochToPrice EXCEPT ![currentEpoch] =
               IF requests > 0 THEN EpochPrice(Pulled(want, slippage)) ELSE @]
        /\ totalCurrentEpochRequests' = 0
        /\ currentEpoch' = currentEpoch + 1
        /\ UNCHANGED <<withdrawalRequests, latestRequestEpoch, lpTokensWaitingForClaim,
                       primaryTokensToClaim, rootIdle, now, lent>>

(* invokeExecution *)
InvokeExecution(slippage) ==
    /\ Call
    /\ lastEpochChange + WithdrawDelay <= now \/ isClosed
    /\ Execute(slippage)
    /\ UNCHANGED isClosed

(* shutdown: executes at once, isClosed having been set before.            *)
Shutdown(slippage) ==
    /\ Call
    /\ ~isClosed
    /\ isClosed' = TRUE
    /\ Execute(slippage)

(* reopen *)
Reopen ==
    /\ Call
    /\ isClosed' = FALSE
    /\ UNCHANGED <<lpVars, feeVars, epochVars, requestVars, claimVars, rootIdle, erc20,
                   gearboxVars, now, lent>>

(* withdraw: settles a hanging request, burns the LP tokens that wait for  *)
(* the claim and pays out of the ERC20Vault, then, for more than a dust    *)
(* remainder, out of the GearboxVault (AggregateVault._pull).              *)
LpClaimedWithoutHanging(u) == lpTokensWaitingForClaim[u]
LpClaimed(u) == lpTokensWaitingForClaim[u] + HangingLp(u)

Withdraw(u, slippage) ==
    LET lpTokensToBurn == LpClaimed(u)
        want == primaryTokensToClaim[u] + HangingPrimary(u)
        fromErc20 == Least(want, erc20)
        reachesGearbox == want > fromErc20 + PullExistential
        fromGearbox == IF reachesGearbox THEN Pulled(want - fromErc20, slippage) ELSE 0
        balance == rootIdle + fromErc20 + fromGearbox
    IN  /\ Call
        /\ lpTokensToBurn <= balanceOf[u]
        /\ lpTokensToBurn <= totalLpTokensWaiting
        /\ balanceOf' = [balanceOf EXCEPT ![u] = @ - lpTokensToBurn]
        /\ totalSupply' = totalSupply - lpTokensToBurn
        /\ totalLpTokensWaiting' = totalLpTokensWaiting - lpTokensToBurn
        /\ lpTokensWaitingForClaim' = [lpTokensWaitingForClaim EXCEPT ![u] = 0]
        /\ primaryTokensToClaim' = [primaryTokensToClaim EXCEPT ![u] = 0]
        /\ withdrawalRequests' =
               [withdrawalRequests EXCEPT ![u] = IF Hangs(u) THEN 0 ELSE @]
        /\ latestRequestEpoch' =
               [latestRequestEpoch EXCEPT ![u] = IF Hangs(u) THEN 0 ELSE @]
        /\ erc20' = erc20 - fromErc20 + (balance - Least(want, balance))
        /\ rootIdle' = 0
        /\ IF reachesGearbox THEN PullGearbox(want - fromErc20, slippage)
           ELSE UNCHANGED gearboxVars
        /\ UNCHANGED <<feeVars, isClosed, epochVars, totalCurrentEpochRequests, now, lent>>

(* ERC20Token.transfer: requests do not freeze the balance they were made  *)
(* against.                                                                *)
TransferLp(u, to, amount) ==
    /\ Call
    /\ amount <= balanceOf[u]
    /\ balanceOf' = Credit([balanceOf EXCEPT ![u] = @ - amount], to, amount)
    /\ UNCHANGED <<totalSupply, feeVars, isClosed, epochVars, requestVars, claimVars,
                   rootIdle, erc20, gearboxVars, now, lent>>

-----------------------------------------------------------------------------
(* The strategy and the GearboxVault.                                      *)

(* openCreditAccount: all tokens of the vault become the account's.        *)
OpenCreditAccount ==
    /\ Call
    /\ ~accountOpen
    /\ gearboxIdle > 0
    /\ accountOpen' = TRUE
    /\ accountValue' = gearboxIdle
    /\ gearboxIdle' = 0
    /\ UNCHANGED <<lpVars, feeVars, isClosed, epochVars, requestVars, claimVars, rootIdle,
                   erc20, now, lent>>

(* erc20Vault.pull(gearboxVault) by the strategy: pushed into the account  *)
(* when it is open; otherwise the reclaimTokens that ends the pull brings  *)
(* everything the GearboxVault holds to the ERC20Vault.                    *)
PullFromErc20(amount) ==
    LET moved == Least(amount, erc20)
    IN  /\ Call
        /\ IF accountOpen
           THEN /\ PushGearbox(moved)
                /\ erc20' = erc20 - moved
                /\ lent' = lent + moved
           ELSE /\ gearboxIdle' = 0
                /\ erc20' = erc20 + gearboxIdle
                /\ UNCHANGED <<accountOpen, accountValue, lent>>
        /\ UNCHANGED <<lpVars, feeVars, isClosed, epochVars, requestVars, claimVars,
                       rootIdle, now>>

(* gearboxVault.pull(erc20Vault) by the strategy.                          *)
PullFromGearbox(amount, slippage) ==
    /\ Call
    /\ PullGearbox(amount, slippage)
    /\ erc20' = erc20 + Pulled(amount, slippage)
    /\ UNCHANGED <<lpVars, feeVars, isClosed, epochVars, requestVars, claimVars, rootIdle,
                   now, lent>>

(* gearboxVault.reclaimTokens, open to anyone; no token is forbidden.      *)
ReclaimTokens ==
    /\ Call
    /\ erc20' = erc20 + gearboxIdle
    /\ gearboxIdle' = 0
    /\ UNCHANGED <<lpVars, feeVars, isClosed, epochVars, requestVars, claimVars, rootIdle,
                   accountOpen, accountValue, now, lent>>

-----------------------------------------------------------------------------
(* The environment: tokens sent to the root vault, the market, and time.   *)

Donate(amount) ==
    /\ Call
    /\ rootIdle' = rootIdle + amount
    /\ UNCHANGED <<lpVars, feeVars, isClosed, epochVars, requestVars, claimVars, erc20,
                   gearboxVars, now, lent>>

MarketMove(value) ==
    /\ Call
    /\ accountOpen
    /\ accountValue' = value
    /\ UNCHANGED <<lpVars, feeVars, isClosed, epochVars, requestVars, claimVars, rootIdle,
                   erc20, gearboxIdle, accountOpen, now, lent>>

Tick ==
    /\ now < MaxTime
    /\ now' = now + 1
    /\ UNCHANGED <<lpVars, feeVars, isClosed, epochVars, requestVars, claimVars, rootIdle,
                   erc20, gearboxVars, lent, calls>>

Init ==
    /\ balanceOf = [a \in Account |-> 0]
    /\ totalSupply = 0
    /\ now = 1 /\ lastFeeCharge = 1 /\ lpPriceHighWaterMark = 0
    /\ isClosed = FALSE
    /\ currentEpoch = 1 /\ lastEpochChange = 0
    /\ epochToPrice = [e \in Epoch |-> 0]
    /\ withdrawalRequests = [u \in User |-> 0]
    /\ latestRequestEpoch = [u \in User |-> 0]
    /\ lpTokensWaitingForClaim = [u \in User |-> 0]
    /\ primaryTokensToClaim = [u \in User |-> 0]
    /\ totalCurrentEpochRequests = 0 /\ totalLpTokensWaiting = 0
    /\ rootIdle = 0 /\ erc20 = 0
    /\ gearboxIdle = 0 /\ accountOpen = FALSE /\ accountValue = 0
    /\ lent = 0 /\ calls = 0

UserNext(u) ==
    \/ \E n \in Amounts : Deposit(u, n)
    \/ \E n \in LpAmounts : RegisterWithdrawal(u, n)
    \/ \E n \in LpAmounts : CancelWithdrawal(u, n)
    \/ \E s \in Slippages : Withdraw(u, s)
    \/ \E to \in Account, n \in LpAmounts : TransferLp(u, to, n)

StrategyNext ==
    \/ \E s \in Slippages : InvokeExecution(s)
    \/ \E s \in Slippages : Shutdown(s)
    \/ Reopen
    \/ OpenCreditAccount
    \/ \E n \in Amounts : PullFromErc20(n)
    \/ \E n \in Amounts, s \in Slippages : PullFromGearbox(n, s)

EnvironmentNext ==
    \/ ReclaimTokens
    \/ \E n \in Amounts : Donate(n)
    \/ \E v \in AccountValues : MarketMove(v)
    \/ Tick

Next == (\E u \in User : UserNext(u)) \/ StrategyNext \/ EnvironmentNext

Spec == Init /\ [][Next]_vars

-----------------------------------------------------------------------------
(* Properties.                                                             *)

LedgerTypeOK ==
    /\ balanceOf \in [Account -> Nat] /\ totalSupply \in Int
    /\ lastFeeCharge \in 0..now /\ lpPriceHighWaterMark \in Nat
    /\ now \in Nat /\ calls \in Nat
EpochTypeOK ==
    /\ isClosed \in BOOLEAN /\ currentEpoch \in 1..MaxEpoch + 1
    /\ lastEpochChange \in 0..now /\ epochToPrice \in [Epoch -> Nat]
RequestTypeOK ==
    /\ withdrawalRequests \in [User -> Nat]
    /\ latestRequestEpoch \in [User -> Nat]
    /\ lpTokensWaitingForClaim \in [User -> Nat]
    /\ primaryTokensToClaim \in [User -> Nat]
    /\ totalCurrentEpochRequests \in Nat /\ totalLpTokensWaiting \in Nat
TokenTypeOK ==
    /\ rootIdle \in Nat /\ erc20 \in Nat /\ lent \in Nat
    /\ gearboxIdle \in Nat /\ accountOpen \in BOOLEAN /\ accountValue \in Nat
RecordsTypeOK == LedgerTypeOK /\ EpochTypeOK /\ RequestTypeOK /\ TokenTypeOK

(* Shares, requests and tokens are natural numbers, clocks in storage are  *)
(* not ahead of the block timestamp, and epochs stay within the bound.     *)
(* totalSupply stays natural although _burn subtracts from it unchecked,   *)
(* and a request that hangs, whose price HangingPrimary looks up, was made *)
(* in an epoch that has been executed.                                     *)
TypeOK ==
    /\ RecordsTypeOK
    /\ totalSupply \in Nat
    /\ \A u \in User : /\ latestRequestEpoch[u] \in 0..currentEpoch
                       /\ Hangs(u) => latestRequestEpoch[u] \in 1..currentEpoch - 1

(* The LP ledger of ERC20Token adds up, so that no unchecked subtraction   *)
(* or addition in it can overflow.                                         *)
SupplyIsSumOfBalances ==
    totalSupply = MapThenSumSet(LAMBDA a : balanceOf[a], Account)

(* What each user has asked for in this epoch, and what earlier epochs     *)
(* have settled for the user, processed or still hanging.                  *)
Pending == [u \in User |-> IF latestRequestEpoch[u] = currentEpoch
                           THEN withdrawalRequests[u] ELSE 0]
SettledLp == [u \in User |-> lpTokensWaitingForClaim[u] + HangingLp(u)]
SettledPrimary == [u \in User |-> primaryTokensToClaim[u] + HangingPrimary(u)]

(* The total that the next execution will price is the sum of the users'   *)
(* requests of this epoch, and the LP tokens taken out of the effective    *)
(* supply are exactly those of settled, unclaimed requests, although       *)
(* requests of executed epochs stay in withdrawalRequests until their      *)
(* owners come back.                                                       *)
RequestTotalsAreSums ==
    /\ totalCurrentEpochRequests = MapThenSumSet(LAMBDA u : Pending[u], User)
    /\ totalLpTokensWaiting = MapThenSumSet(LAMBDA u : SettledLp[u], User)

(* Settled requests are backed by tokens on the ERC20Vault, whatever the   *)
(* rounding of the epoch price; only the strategy can have taken some away.*)
ClaimsAreBacked ==
    MapThenSumSet(LAMBDA u : SettledPrimary[u], User) <= erc20 + lent

(* Shares minted as fees in a step; a step that charges fees moves one of  *)
(* the fee variables, so a transfer to the receiver is not taken for fees. *)
FeesInStep ==
    IF feeVars' # feeVars THEN balanceOf'[FeeReceiver] - balanceOf[FeeReceiver] ELSE 0
SupplyWithFees == Supply + FeesInStep

(* A deposit dilutes the holders by less than one token unit: the amount   *)
(* taken is rounded down, the shares are not rounded up.                   *)
DepositDilutesByLessThanOneUnit ==
    [][(Supply > 0 /\ Supply' > SupplyWithFees) =>
          (Tvl' + 1) * SupplyWithFees > Tvl * Supply']_vars

(* gained is, but for two units and what a price of D18 parts cannot show, *)
(* the part of worth that p is of whole.                                   *)
IsPart(gained, p, worth, whole) ==
    (gained + 2) * D18 * whole + p * whole > p * worth * D18

(* An execution settles each request of the epoch with the share of the    *)
(* tvl that its LP tokens are, fees of the same call included: never more, *)
(* and less only by rounding, unless the GearboxVault is left with nothing; *)
(* then each gets the same part of what it still paid.  What closing the   *)
(* credit account costs is not taken from those who leave but falls on     *)
(* those who stay, until nothing of theirs is left.                        *)
ExecutionSettlesEveryShare ==
    [][currentEpoch' # currentEpoch =>
          \A u \in User :
              LET gained == SettledPrimary'[u] - SettledPrimary[u]
              IN  /\ gained * SupplyWithFees <= Pending[u] * Tvl
                  /\ \/ IsPart(gained, Pending[u], Tvl, SupplyWithFees)
                     \/ /\ Tvl' = 0
                        /\ IsPart(gained, Pending[u], erc20' - erc20,
                                  totalCurrentEpochRequests)]_vars

(* The lazy bookkeeping implements the withdrawal queue in which an epoch  *)
(* settles all its requests at once.                                       *)
Queue == INSTANCE WithdrawalQueue WITH
    epoch <- currentEpoch, pending <- Pending, settledLp <- SettledLp,
    settledPrimary <- SettledPrimary, price <- epochToPrice
ImplementsQueue == Queue!Spec

(* The books of the epochs balance: LP tokens, requests and claims.        *)
RequestsBalance ==
    /\ SupplyIsSumOfBalances
    /\ RequestTotalsAreSums
    /\ ClaimsAreBacked
=============================================================================
