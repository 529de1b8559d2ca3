--------------------------- MODULE ERC20RootVault ---------------------------
(***************************************************************************)
(* The LP-share accounting of a root vault: ERC20RootVault on top of       *)
(* AggregateVault, owning two subvaults, the ERC20Vault ("zero vault") and *)
(* an AaveVault whose reported tvl is a cached copy of its aToken balance. *)
(*                                                                         *)
(* One action is one external call: the contracts are nonReentrant and a   *)
(* transaction is atomic.  What the model leaves out: events, names, and   *)
(* the slippage arguments minLpTokens / minTokenAmounts, which only reject *)
(* calls (the model takes 0, the value that rejects none).                 *)
(*                                                                         *)
(* An operator that stands before its namesake and is used nowhere is a    *)
(* wrong version of it, kept to show that the properties would notice.     *)
(***************************************************************************)
EXTENDS Integers, FiniteSets, FiniteSetsExt

CONSTANTS
    Token,                \* the vault tokens
    BaseToken,            \* _vaultTokens[0], the token LP prices are quoted in
    User,                 \* accounts that deposit, withdraw and transfer LP
    Locked,               \* address(0), which receives the first mint
    StrategyTreasury, ProtocolTreasury, PerformanceTreasury,
    PullExistential,      \* [Token -> Nat], 10 ** (decimals / 2)
    DENOMINATOR, YEAR,    \* CommonLibrary's fee denominator and year
    D18, Q96,             \* fixed-point scales of the LP and oracle prices
    AaveAPY,              \* estimatedAaveAPY of AaveVaultGovernance
    GovParams,            \* parameter records governance may put in force
    OraclePrices,         \* [Token -> Nat] averages the oracle may answer
    Amounts,              \* [Token -> Nat] amounts users deposit
    StrategyAmounts,      \* [Token -> Nat] amounts the strategy moves
    Donations,            \* [Token -> Nat] amounts sent straight to a vault
    LpAmounts,            \* LP amounts used as call arguments
    Interest,             \* amounts by which an aToken balance may grow
    Wealth,               \* tokens each user starts with
    MaxTime, MaxCalls, MaxYield   \* bounds: clock, calls, aToken interest

Treasury == {StrategyTreasury, ProtocolTreasury, PerformanceTreasury}
Account == User \cup Treasury \cup {Locked}
TokenAmounts == [Token -> Nat]

GovType == [disableDeposit : BOOLEAN, privateVault : BOOLEAN,
            managementFee : Nat, protocolFee : Nat, performanceFee : Nat,
            managementFeeChargeDelay : Nat, tokenLimit : Nat,
            tokenLimitPerAddress : Nat, withdrawLimit : TokenAmounts]

ASSUME TokenAssumption == IsFiniteSet(Token) /\ BaseToken \in Token
ASSUME AccountAssumption ==
    /\ IsFiniteSet(User)
    /\ User \cap (Treasury \cup {Locked}) = {}
    /\ Locked \notin Treasury
ASSUME ScaleAssumption ==
    /\ {DENOMINATOR, YEAR, D18, Q96} \subseteq Nat \ {0}
    /\ PullExistential \in [Token -> Nat \ {0}]
    /\ AaveAPY \in Nat /\ Wealth \in Nat
    /\ {MaxTime, MaxCalls, MaxYield} \subseteq Nat
ASSUME InputAssumption ==
    /\ GovParams \subseteq GovType
    /\ OraclePrices \subseteq [Token -> Nat \ {0}]
    /\ Amounts \cup StrategyAmounts \cup Donations \subseteq TokenAmounts
    /\ LpAmounts \cup Interest \subseteq Nat

VARIABLES
    (* ERC20RootVault *)
    balanceOf, totalSupply, lastFeeCharge, lpPriceHighWaterMark,
    withdrawnAt, totalWithdrawn, allowlist,
    (* token balances: root vault, zero vault, AaveVault, aTokens, wallets *)
    rootIdle, zero, aaveIdle, aToken, wallet,
    (* AaveVault's cached tvls and the time of the last refresh *)
    tvls, tvlsAt,
    (* governance parameters in force, and the block timestamp *)
    gov, now,
    (* history: interest earned, tokens paid out at this timestamp, calls *)
    yielded, paidOut, calls

rootVars == <<balanceOf, totalSupply, lastFeeCharge, lpPriceHighWaterMark,
              withdrawnAt, totalWithdrawn>>
aaveVars == <<aToken, tvls, tvlsAt>>
vars == <<rootVars, allowlist, rootIdle, zero, aaveIdle, aaveVars, wallet,
          gov, now, yielded, paidOut, calls>>

NoTokens == [t \in Token |-> 0]
mulDiv(a, b, c) == (a * b) \div c

(* The amount moved is the amount asked for, capped by the balance.        *)
LeastUncapped(a, b) == a
Least(a, b) == IF a < b THEN a ELSE b

Plus(f, g) == [t \in Token |-> f[t] + g[t]]
Minus(f, g) == [t \in Token |-> f[t] - g[t]]

-----------------------------------------------------------------------------
(* Tvl of the root vault: AggregateVault.tvl sums its subvaults.           *)

AaveFactor == DENOMINATOR + mulDiv(AaveAPY, now - tvlsAt, YEAR)
MinTvl == Plus(zero, tvls)
MaxTvl == [t \in Token |-> zero[t] + mulDiv(AaveFactor, tvls[t], DENOMINATOR)]

Significant(tvl) == {t \in Token : tvl[t] >= PullExistential[t]}

LpAmountByMax(tvl, amounts, supply) ==
    IF supply = 0 \/ Significant(tvl) = {}
    THEN Max({amounts[t] : t \in Token})
    ELSE Max({mulDiv(amounts[t], supply, tvl[t]) : t \in Significant(tvl)})

(* LP tokens for amounts: the least pro-rata share over the tokens whose   *)
(* tvl is not dust; the greatest amount when there is none.                *)
LpAmount(tvl, amounts, supply) ==
    IF supply = 0 \/ Significant(tvl) = {}
    THEN Max({amounts[t] : t \in Token})
    ELSE Min({mulDiv(amounts[t], supply, tvl[t]) : t \in Significant(tvl)})

NormalizedAmounts(tvl, amounts, lpAmount, supply) ==
    IF supply = 0 \/ Significant(tvl) = {} THEN amounts
    ELSE [t \in Token |-> IF t \notin Significant(tvl) THEN 0
                          ELSE Least(mulDiv(tvl[t], lpAmount, supply), amounts[t])]

-----------------------------------------------------------------------------
(* Fees.                                                                   *)

TvlToken0(tvl, px) ==
    tvl[BaseToken] + MapThenSumSet(LAMBDA t : mulDiv(tvl[t], Q96, px[t]),
                                   Token \ {BaseToken})

Elapsed == now - lastFeeCharge
FeesDue == Elapsed >= gov.managementFeeChargeDelay

PeriodFee(rate, supply) == mulDiv(rate * Elapsed, supply, YEAR * DENOMINATOR)

NewHighAlways(lpPrice) == TRUE
NewHigh(lpPrice) == lpPrice > lpPriceHighWaterMark

PerformanceFee(lpPrice, supply) ==
    mulDiv(mulDiv(supply, lpPrice - lpPriceHighWaterMark, lpPriceHighWaterMark),
           gov.performanceFee, DENOMINATOR)

(* The outcome of _chargeFees: the LP amounts minted to the treasuries and *)
(* the high-water mark and charge time that it leaves.                     *)
ChargeFees(tvl, supply, px) ==
    LET charged == FeesDue /\ supply > 0 /\ Significant(tvl) # {}
        lpPrice == mulDiv(TvlToken0(tvl, px), D18, supply)
        newHigh == charged /\ gov.performanceFee > 0 /\ NewHigh(lpPrice)
    IN  [management  |-> IF charged THEN PeriodFee(gov.managementFee, supply) ELSE 0,
         protocol    |-> IF charged THEN PeriodFee(gov.protocolFee, supply) ELSE 0,
         performance |-> IF newHigh /\ lpPriceHighWaterMark > 0
                         THEN PerformanceFee(lpPrice, supply) ELSE 0,
         highWaterMark |-> IF newHigh THEN lpPrice ELSE lpPriceHighWaterMark,
         chargedAt     |-> IF FeesDue THEN now ELSE lastFeeCharge]

FeesMinted(fees) == fees.management + fees.protocol + fees.performance

BalancesWithoutProtocolFee(fees) ==
    [a \in Account |-> balanceOf[a]
        + (IF a = StrategyTreasury THEN fees.management ELSE 0)
        + (IF a = PerformanceTreasury THEN fees.performance ELSE 0)]

BalancesWithFees(fees) ==
    [a \in Account |-> balanceOf[a]
        + (IF a = StrategyTreasury THEN fees.management ELSE 0)
        + (IF a = ProtocolTreasury THEN fees.protocol ELSE 0)
        + (IF a = PerformanceTreasury THEN fees.performance ELSE 0)]

-----------------------------------------------------------------------------
Call == calls < MaxCalls /\ calls' = calls + 1

(* The first deposit's LP tokens are locked at address(0).                 *)
MintToDepositor(u, supply) == u
MintTo(u, supply) == IF supply = 0 THEN Locked ELSE u

(* ERC20RootVault.deposit: fees, normalisation against maxTvl, transfer to *)
(* the zero vault (its push is a no-op, so what was sent is what counts),  *)
(* limits, and the mint, which goes to address(0) the first time.          *)
Deposit(u, amounts, px) ==
    LET fees == ChargeFees(MinTvl, totalSupply, px)
        supply == totalSupply + FeesMinted(fees)
        balances == BalancesWithFees(fees)
        sent == NormalizedAmounts(MaxTvl, amounts,
                                  LpAmount(MaxTvl, amounts, supply), supply)
        lpAmount == LpAmount(MaxTvl, sent, supply)
    IN  /\ Call
        /\ ~gov.disableDeposit
        /\ totalSupply = 0 => \A t \in Token :
               amounts[t] \in 10 * PullExistential[t] .. PullExistential[t] * PullExistential[t]
        /\ gov.privateVault => u \in allowlist
        /\ \A t \in Token : sent[t] <= wallet[u][t]
        /\ lpAmount # 0
        /\ lpAmount + balances[u] <= gov.tokenLimitPerAddress
        /\ lpAmount + supply <= gov.tokenLimit
        /\ balanceOf' = [balances EXCEPT ![MintTo(u, supply)] = @ + lpAmount]
        /\ totalSupply' = supply + lpAmount
        /\ lastFeeCharge' = fees.chargedAt
        /\ lpPriceHighWaterMark' = fees.highWaterMark
        /\ zero' = Plus(zero, sent)
        /\ wallet' = [wallet EXCEPT ![u] = Minus(@, sent)]
        /\ UNCHANGED <<withdrawnAt, totalWithdrawn, allowlist, rootIdle, aaveIdle,
                       aaveVars, gov, now, yielded, paidOut>>

(* `want` at most leaves the root vault after a pull, the rest of its      *)
(* balance goes back to the zero vault.                                    *)
ActualIsBalance(want, balance) == balance
Actual(want, balance) == [t \in Token |-> Least(want[t], balance[t])]
RestIsBalance(want, balance) == balance
RestToZero(want, balance) == Minus(balance, Actual(want, balance))

(* AggregateVault._pull(address(this), want): the zero vault first, then,  *)
(* if more than the pull existential of some token is still missing, the   *)
(* AaveVault, whose pull skips tokens it believes it has none of and then  *)
(* refreshes its cache.                                                    *)
PullAll(want) ==
    LET fromZero == [t \in Token |-> Least(want[t], zero[t])]
        left == [t \in Token |-> IF want[t] > fromZero[t] + PullExistential[t]
                                 THEN want[t] - fromZero[t] ELSE 0]
        reachesAave == \E t \in Token : left[t] > 0
        fromAave == [t \in Token |-> IF reachesAave /\ tvls[t] # 0
                                     THEN Least(left[t], aToken[t]) ELSE 0]
        balance == Plus(rootIdle, Plus(fromZero, fromAave))
    IN  [actual |-> Actual(want, balance),
         zero   |-> Plus(Minus(zero, fromZero), RestToZero(want, balance)),
         aToken |-> Minus(aToken, fromAave),
         tvls   |-> IF reachesAave THEN Minus(aToken, fromAave) ELSE tvls,
         tvlsAt |-> IF reachesAave THEN now ELSE tvlsAt]

(* _updateWithdrawnAmounts: what was withdrawn so far at this timestamp.   *)
WithdrawnNothing == NoTokens
WithdrawnSoFar == IF withdrawnAt = now THEN totalWithdrawn ELSE NoTokens

(* Some token would be left to the caller in more than a dust amount.      *)
EveryTokenRests(balance, supply, actual) ==
    \A t \in Token : mulDiv(balance, MinTvl[t], supply) >= PullExistential[t] + actual[t]
SufficientAmountRest(balance, supply, actual) ==
    \E t \in Token : mulDiv(balance, MinTvl[t], supply) >= PullExistential[t] + actual[t]

(* ERC20RootVault.withdraw *)
Withdraw(u, to, lpTokenAmount, px) ==
    LET fees == ChargeFees(MinTvl, totalSupply, px)
        supply == totalSupply + FeesMinted(fees)
        balances == BalancesWithFees(fees)
        lpAmount == Least(lpTokenAmount, balances[u])
        pull == PullAll([t \in Token |-> mulDiv(lpAmount, MinTvl[t], supply)])
        toBurn == IF SufficientAmountRest(balances[u], supply, pull.actual)
                  THEN lpAmount ELSE balances[u]
    IN  /\ Call
        /\ totalSupply > 0
        /\ \A t \in Token : WithdrawnSoFar[t] + pull.actual[t] <= gov.withdrawLimit[t]
        /\ balanceOf' = [balances EXCEPT ![u] = @ - toBurn]
        /\ totalSupply' = supply - toBurn
        /\ lastFeeCharge' = fees.chargedAt
        /\ lpPriceHighWaterMark' = fees.highWaterMark
        /\ withdrawnAt' = now
        /\ totalWithdrawn' = Plus(WithdrawnSoFar, pull.actual)
        /\ zero' = pull.zero
        /\ rootIdle' = NoTokens
        /\ aToken' = pull.aToken
        /\ tvls' = pull.tvls
        /\ tvlsAt' = pull.tvlsAt
        /\ wallet' = [wallet EXCEPT ![to] = Plus(@, pull.actual)]
        /\ paidOut' = Plus(paidOut, pull.actual)
        /\ UNCHANGED <<allowlist, aaveIdle, gov, now, yielded>>

(* ERC20Token.transfer of LP tokens; address(0) is a legal destination.    *)
TransferLp(u, to, amount) ==
    /\ Call
    /\ amount <= balanceOf[u]
    /\ balanceOf' = LET debited == [balanceOf EXCEPT ![u] = @ - amount]
                    IN  [debited EXCEPT ![to] = @ + amount]
    /\ UNCHANGED <<totalSupply, lastFeeCharge, lpPriceHighWaterMark, withdrawnAt,
                   totalWithdrawn, allowlist, rootIdle, zero, aaveIdle, aaveVars,
                   wallet, gov, now, yielded, paidOut>>

(* addDepositorsToAllowlist / removeDepositorsFromAllowlist                *)
AddDepositor(u) ==
    /\ Call
    /\ allowlist' = allowlist \cup {u}
    /\ UNCHANGED <<rootVars, rootIdle, zero, aaveIdle, aaveVars, wallet, gov, now,
                   yielded, paidOut>>

RemoveDepositor(u) ==
    /\ Call
    /\ allowlist' = allowlist \ {u}
    /\ UNCHANGED <<rootVars, rootIdle, zero, aaveIdle, aaveVars, wallet, gov, now,
                   yielded, paidOut>>

-----------------------------------------------------------------------------
(* AaveVault._updateTvls: the cache takes the aToken balances.             *)
RefreshBeforeMove == tvls' = aToken /\ tvlsAt' = now
RefreshTvls == tvls' = aToken' /\ tvlsAt' = now

(* The strategy moves liquidity between the subvaults.                     *)

(* zeroVault.pull(aaveVault): ERC20Vault._pull transfers, pushes all that  *)
(* the AaveVault holds (earlier donations too) into Aave, which refreshes  *)
(* the cache, and reclaims what is left: nothing.                          *)
PullFromZero(amounts) ==
    LET moved == [t \in Token |-> Least(amounts[t], zero[t])]
    IN  /\ Call
        /\ zero' = Minus(zero, moved)
        /\ aaveIdle' = NoTokens
        /\ aToken' = Plus(aToken, Plus(moved, aaveIdle))
        /\ RefreshTvls
        /\ UNCHANGED <<rootVars, allowlist, rootIdle, wallet, gov, now, yielded, paidOut>>

(* aaveVault.pull(zeroVault), the only target its strategy may name.       *)
PullFromAave(amounts) ==
    LET moved == [t \in Token |-> IF tvls[t] = 0 THEN 0 ELSE Least(amounts[t], aToken[t])]
    IN  /\ Call
        /\ zero' = Plus(zero, moved)
        /\ aToken' = Minus(aToken, moved)
        /\ RefreshTvls
        /\ UNCHANGED <<rootVars, allowlist, rootIdle, aaveIdle, wallet, gov, now,
                       yielded, paidOut>>

(* aaveVault.push, open to anyone: deposits tokens the vault already has.  *)
PushAave(amounts) ==
    /\ Call
    /\ \A t \in Token : amounts[t] <= aaveIdle[t]
    /\ aaveIdle' = Minus(aaveIdle, amounts)
    /\ aToken' = Plus(aToken, amounts)
    /\ RefreshTvls
    /\ UNCHANGED <<rootVars, allowlist, rootIdle, zero, wallet, gov, now, yielded, paidOut>>

(* aaveVault.updateTvls, open to anyone.                                   *)
UpdateTvls ==
    /\ Call
    /\ UNCHANGED <<rootVars, allowlist, rootIdle, zero, aaveIdle, aToken, wallet, gov,
                   now, yielded, paidOut>>
    /\ RefreshTvls

(* aaveVault.reclaimTokens, open to anyone.  `tokens` are those of the     *)
(* call that hold the ERC20_TRANSFER permission; the others are skipped.   *)
ReclaimTokens(tokens) ==
    LET moved == [t \in Token |-> IF t \in tokens THEN aaveIdle[t] ELSE 0]
    IN  /\ Call
        /\ aaveIdle' = Minus(aaveIdle, moved)
        /\ zero' = Plus(zero, moved)
        /\ UNCHANGED <<rootVars, allowlist, rootIdle, aaveVars, wallet, gov, now,
                       yielded, paidOut>>

-----------------------------------------------------------------------------
(* The environment: tokens sent straight to a vault, Aave interest, new    *)
(* governance parameters, and time.                                        *)

Donate(u, amounts) ==
    /\ Call
    /\ \A t \in Token : amounts[t] <= wallet[u][t]
    /\ wallet' = [wallet EXCEPT ![u] = Minus(@, amounts)]
    /\ \/ rootIdle' = Plus(rootIdle, amounts) /\ UNCHANGED <<zero, aaveIdle>>
       \/ zero' = Plus(zero, amounts) /\ UNCHANGED <<rootIdle, aaveIdle>>
       \/ aaveIdle' = Plus(aaveIdle, amounts) /\ UNCHANGED <<rootIdle, zero>>
    /\ UNCHANGED <<rootVars, allowlist, aaveVars, gov, now, yielded, paidOut>>

AaveInterest(t, amount) ==
    /\ Call
    /\ aToken[t] > 0
    /\ yielded[t] + amount <= MaxYield
    /\ aToken' = [aToken EXCEPT ![t] = @ + amount]
    /\ yielded' = [yielded EXCEPT ![t] = @ + amount]
    /\ UNCHANGED <<rootVars, allowlist, rootIdle, zero, aaveIdle, tvls, tvlsAt, wallet,
                   gov, now, paidOut>>

SetParams(p) ==
    /\ Call
    /\ p # gov
    /\ gov' = p
    /\ UNCHANGED <<rootVars, allowlist, rootIdle, zero, aaveIdle, aaveVars, wallet, now,
                   yielded, paidOut>>

Tick ==
    /\ now < MaxTime
    /\ now' = now + 1
    /\ paidOut' = NoTokens
    /\ UNCHANGED <<rootVars, allowlist, rootIdle, zero, aaveIdle, aaveVars, wallet, gov,
                   yielded, calls>>

Init ==
    /\ balanceOf = [a \in Account |-> 0]
    /\ totalSupply = 0
    /\ lastFeeCharge = 1 /\ now = 1 /\ tvlsAt = 1
    /\ lpPriceHighWaterMark = 0
    /\ withdrawnAt = 0
    /\ totalWithdrawn = NoTokens
    /\ allowlist = {}
    /\ rootIdle = NoTokens /\ zero = NoTokens /\ aaveIdle = NoTokens
    /\ aToken = NoTokens /\ tvls = NoTokens
    /\ wallet = [u \in User |-> [t \in Token |-> Wealth]]
    /\ gov \in GovParams
    /\ yielded = NoTokens /\ paidOut = NoTokens
    /\ calls = 0

Next ==
    \/ \E u \in User, amounts \in Amounts, px \in OraclePrices : Deposit(u, amounts, px)
    \/ \E u, to \in User, n \in LpAmounts, px \in OraclePrices : Withdraw(u, to, n, px)
    \/ \E u \in User, to \in Account, n \in LpAmounts : TransferLp(u, to, n)
    \/ \E u \in User : AddDepositor(u)
    \/ \E u \in User : RemoveDepositor(u)
    \/ \E amounts \in StrategyAmounts : PullFromZero(amounts)
    \/ \E amounts \in StrategyAmounts : PullFromAave(amounts)
    \/ \E amounts \in Donations : PushAave(amounts)
    \/ UpdateTvls
    \/ \E tokens \in SUBSET Token : ReclaimTokens(tokens)
    \/ \E u \in User, amounts \in Donations : Donate(u, amounts)
    \/ \E t \in Token, n \in Interest : AaveInterest(t, n)
    \/ \E p \in GovParams : SetParams(p)
    \/ Tick

Spec == Init /\ [][Next]_vars

-----------------------------------------------------------------------------
(* Properties.                                                             *)

(* Every account holds a natural number of everything, and the clocks kept *)
(* in storage are never ahead of the block timestamp.                      *)
TypeOK ==
    /\ balanceOf \in [Account -> Nat] /\ totalSupply \in Nat
    /\ lastFeeCharge \in 0..now /\ withdrawnAt \in 0..now /\ tvlsAt \in 0..now
    /\ lpPriceHighWaterMark \in Nat /\ now \in Nat /\ calls \in Nat
    /\ {rootIdle, zero, aaveIdle, aToken, tvls, totalWithdrawn, yielded, paidOut}
            \subseteq TokenAmounts
    /\ wallet \in [User -> TokenAmounts]
    /\ allowlist \subseteq User /\ gov \in GovType

(* What the vaults hold in truth, whatever tvl() says.                     *)
Holdings == [t \in Token |-> rootIdle[t] + zero[t] + aaveIdle[t] + aToken[t]]

(* The LP ledger of ERC20Token adds up: fee mints, the locked first mint,  *)
(* draining burns and transfers leave totalSupply equal to all balances.   *)
SupplyIsSumOfBalances ==
    totalSupply = MapThenSumSet(LAMBDA a : balanceOf[a], Account)

(* No call creates or loses tokens: wallets and vaults together always     *)
(* hold what there was at first plus the interest Aave paid.               *)
TokensConserved ==
    \A t \in Token : MapThenSumSet(LAMBDA u : wallet[u][t], User) + Holdings[t]
                        = Wealth * Cardinality(User) + yielded[t]

(* The lower tvl bound, which withdrawals are paid by, is backed by tokens *)
(* although AaveVault answers from a cache: the cache is never above the   *)
(* aToken balance, whoever moved tokens since the last refresh.            *)
MinTvlIsBacked == \A t \in Token : MinTvl[t] <= zero[t] + aToken[t]

(* The first mint is locked at address(0): once LP tokens exist, an amount *)
(* worth the minimal first deposit can never be redeemed, so the supply    *)
(* never returns to 0 or to dust, whatever is withdrawn.                   *)
FirstDepositStaysLocked ==
    totalSupply > 0 => \A t \in Token : balanceOf[Locked] >= 10 * PullExistential[t]

(* LP tokens minted as fees in a step and the supply that users' shares    *)
(* are measured against in that step.  A step that charges fees moves      *)
(* lastFeeCharge or the high-water mark, so transfers to a treasury are    *)
(* not taken for fees.                                                     *)
ChargesFees ==
    \/ lastFeeCharge' # lastFeeCharge
    \/ lpPriceHighWaterMark' # lpPriceHighWaterMark
FeesInStep ==
    IF ChargesFees
    THEN MapThenSumSet(LAMBDA a : balanceOf'[a] - balanceOf[a], Treasury) ELSE 0
SupplyWithFees == totalSupply + FeesInStep
Burnt == SupplyWithFees - totalSupply'
PaidOut(t) == Holdings[t] - Holdings'[t]

(* A deposit does not dilute the holders: for every token whose tvl is not *)
(* dust, tvl per LP token does not fall (after the fees of the step).      *)
DepositDoesNotDilute ==
    [][(totalSupply > 0 /\ totalSupply' > SupplyWithFees) =>
          \A t \in Significant(MaxTvl) :
              MaxTvl'[t] * SupplyWithFees >= MaxTvl[t] * totalSupply']_vars

(* Tokens leave the vaults only against burnt LP tokens, and no more of    *)
(* them than the burnt tokens' share of the lower tvl bound.               *)
PayoutWithinShare ==
    [][\A t \in Token : PaidOut(t) > 0 =>
           PaidOut(t) * SupplyWithFees <= Burnt * MinTvl[t]]_vars

(* A withdrawal costs its caller at most a pull existential of each token, *)
(* although _pull gives up on such remainders vault by vault and drains    *)
(* the whole balance when little of it is left.                            *)
WithdrawLosesOnlyDust ==
    [][Burnt > 0 =>
          \A t \in Token :
              mulDiv(Burnt, MinTvl[t], SupplyWithFees) <= PaidOut(t) + PullExistential[t]]_vars

(* Performance fees are only minted when the LP price passes an earlier    *)
(* high-water mark, which never goes down: the same gain is not charged    *)
(* twice, in whatever order deposits, withdrawals and losses come.         *)
PerformanceFeeOnlyOnNewHigh ==
    [][/\ lpPriceHighWaterMark' >= lpPriceHighWaterMark
       /\ (totalSupply' # totalSupply
             /\ PerformanceTreasury \notin {StrategyTreasury, ProtocolTreasury}
             /\ balanceOf'[PerformanceTreasury] > balanceOf[PerformanceTreasury])
             => lpPriceHighWaterMark' > lpPriceHighWaterMark /\ lpPriceHighWaterMark > 0]_vars

(* All withdrawals of one block timestamp together stay within the         *)
(* protocol's withdraw limit, however they are split into calls.           *)
WithdrawLimitPerTimestamp ==
    [][\A t \in Token : paidOut'[t] > paidOut[t] => paidOut'[t] <= gov.withdrawLimit[t]]_vars

(* The books of a root vault balance: what LP tokens and tokens there are, *)
(* what the cache claims, and what no redemption can reach.                *)
AccountsBalance ==
    /\ TypeOK
    /\ SupplyIsSumOfBalances
    /\ TokensConserved
    /\ MinTvlIsBacked
    /\ FirstDepositStaysLocked

(* What is paid out keeps to the LP tokens burnt and to the limit.         *)
PayoutsKeepToBounds == PayoutWithinShare /\ WithdrawLimitPerTimestamp
=============================================================================
