----------------------- MODULE GearboxRootVault_proofs -----------------------
(***************************************************************************)
(* For every number of users and epochs and every fee, limit and amount:   *)
(* the state of GearboxRootVault stays well typed, its lazily settled      *)
(* requests implement the withdrawal queue, its books balance, a deposit   *)
(* costs the holders less than a token unit, and an execution settles each *)
(* request with its share.                                                 *)
(***************************************************************************)
EXTENDS GearboxRootVault, Sums, TLAPS

(* Requests are dated: never with a later epoch, and with none (epoch 0)   *)
(* only when nothing is asked for.  It is what makes the price of a        *)
(* hanging request the price of an epoch that was executed.                *)
RequestsAreDated ==
    \A u \in User : /\ latestRequestEpoch[u] <= currentEpoch
                    /\ latestRequestEpoch[u] = 0 => withdrawalRequests[u] = 0

IInv == RecordsTypeOK /\ RequestsAreDated

(* A leaf names the part of RecordsTypeOK that it needs.                   *)
USE DEF RecordsTypeOK

-----------------------------------------------------------------------------
(* Arithmetic.                                                             *)

(* Rounded-down division of natural numbers stays in the natural numbers.  *)
LEMMA DivNat == ASSUME NEW n \in Nat, NEW c \in Nat \ {0} PROVE n \div c \in Nat
  BY SMT

(* FullMath.mulDiv of natural numbers is a natural number.                 *)
LEMMA MulDivNat ==
  ASSUME NEW a \in Nat, NEW b \in Nat, NEW c \in Nat \ {0} PROVE mulDiv(a, b, c) \in Nat
<1>1. a * b \in Nat BY SMT
<1> QED BY <1>1, DivNat DEF mulDiv

(* mulDiv of nothing is nothing.                                           *)
LEMMA MulDivZero == ASSUME NEW b \in Nat, NEW c \in Nat \ {0} PROVE mulDiv(0, b, c) = 0
<1>1. 0 * b = 0 BY SMT
<1>2. 0 \div c = 0 BY SMT
<1> QED BY <1>1, <1>2 DEF mulDiv

(* The lesser of two natural numbers is one and exceeds neither.           *)
LEMMA LeastNat ==
  ASSUME NEW a \in Nat, NEW b \in Nat
  PROVE  Least(a, b) \in Nat /\ Least(a, b) <= a /\ Least(a, b) <= b
BY DEF Least

-----------------------------------------------------------------------------
(* The values that the actions compute, in a well-typed state.             *)

(* The value of the GearboxVault is a natural number.                      *)
LEMMA TvlNat == RecordsTypeOK => Tvl \in Nat
  BY DEF TokenTypeOK, Tvl

(* So are the effective supply, whose subtraction is checked, and with it  *)
(* the LP tokens minted as fees and the new high-water mark.               *)
LEMMA FeesNat ==
  ASSUME RecordsTypeOK, totalLpTokensWaiting <= totalSupply
  PROVE  /\ Supply \in Nat
         /\ FeesMinted(Supply) \in Nat
         /\ Charged(Supply) => LpPrice(Supply) \in Nat
<1>1. Supply \in Nat
  BY DEF LedgerTypeOK, RequestTypeOK, Supply
<1>2. Elapsed \in Nat
  BY DEF LedgerTypeOK, Elapsed
<1>3. ASSUME NEW rate \in Nat PROVE PeriodFee(rate, Supply) \in Nat
  <2>1. rate * Elapsed \in Nat /\ YEAR * DENOMINATOR \in Nat \ {0}
    BY <1>2, ScaleAssumption
  <2> QED BY <2>1, <1>1, MulDivNat DEF PeriodFee
<1>4. PeriodFees(Supply) \in Nat
  BY <1>3, ParamAssumption DEF PeriodFees
<1>5. Charged(Supply) => LpPrice(Supply) \in Nat
  BY <1>1, TvlNat, MulDivNat, ScaleAssumption DEF Charged, LpPrice
<1>6. ProfitFee(Supply) \in Nat
  <2>1. CASE NewHigh(Supply) /\ lpPriceHighWaterMark > 0
    <3>1. /\ LpPrice(Supply) - lpPriceHighWaterMark \in Nat
          /\ lpPriceHighWaterMark \in Nat \ {0}
      BY <2>1, <1>5 DEF NewHigh, LedgerTypeOK
    <3>2. mulDiv(Supply, LpPrice(Supply) - lpPriceHighWaterMark, lpPriceHighWaterMark) \in Nat
      BY <3>1, <1>1, MulDivNat
    <3> QED BY <2>1, <3>2, MulDivNat, ParamAssumption, ScaleAssumption DEF ProfitFee
  <2>2. CASE ~(NewHigh(Supply) /\ lpPriceHighWaterMark > 0)
    BY <2>2 DEF ProfitFee
  <2> QED BY <2>1, <2>2
<1> QED BY <1>1, <1>4, <1>5, <1>6 DEF FeesMinted

(* Charging fees keeps the fee state typed.                                *)
LEMMA ChargeFeesType ==
  ASSUME RecordsTypeOK, totalLpTokensWaiting <= totalSupply, ChargeFees(Supply)
  PROVE  lastFeeCharge' \in 0..now /\ lpPriceHighWaterMark' \in Nat
BY FeesNat DEF LedgerTypeOK, ChargeFees, NewHigh

(* Crediting an account, with fees or a deposit, keeps the ledger typed.   *)
LEMMA CreditType ==
  ASSUME NEW f \in [Account -> Nat], NEW a \in Account, NEW n \in Nat
  PROVE  Credit(f, a, n) \in [Account -> Nat]
BY DEF Credit

LEMMA FeeBalancesType ==
  ASSUME RecordsTypeOK, totalLpTokensWaiting <= totalSupply
  PROVE  BalancesWithFees \in [Account -> Nat]
BY FeesNat, CreditType DEF LedgerTypeOK, BalancesWithFees, Account

(* A push keeps the GearboxVault typed.                                    *)
LEMMA PushType ==
  ASSUME RecordsTypeOK, NEW n \in Nat, PushGearbox(n)
  PROVE  gearboxIdle' \in Nat /\ accountOpen' \in BOOLEAN /\ accountValue' \in Nat
BY DEF TokenTypeOK, PushGearbox

(* A pull keeps it typed too, and pays a natural number of tokens.         *)
LEMMA PullType ==
  ASSUME RecordsTypeOK, NEW n \in Nat, NEW s \in Nat, PullGearbox(n, s)
  PROVE  /\ Pulled(n, s) \in Nat
         /\ gearboxIdle' \in Nat /\ accountOpen' \in BOOLEAN /\ accountValue' \in Nat
<1>1. Redeemable(s) \in Nat
  BY DEF TokenTypeOK, PullGearbox, Redeemable
<1>2. Pulled(n, s) \in Nat /\ Pulled(n, s) <= Redeemable(s)
  BY <1>1, LeastNat DEF Pulled
<1>3. gearboxIdle' = Redeemable(s) - Pulled(n, s) /\ accountOpen' = FALSE /\ accountValue' = 0
  BY DEF PullGearbox
<1>4. gearboxIdle' \in Nat
  BY <1>1, <1>2, <1>3
<1> QED BY <1>2, <1>3, <1>4

(* A hanging request belongs to an executed epoch, and is worth a natural  *)
(* number of primary tokens.                                               *)
LEMMA HangingNat ==
  ASSUME IInv, NEW u \in User
  PROVE  /\ Hangs(u) => latestRequestEpoch[u] \in Epoch /\ latestRequestEpoch[u] < currentEpoch
         /\ HangingLp(u) \in Nat /\ HangingPrimary(u) \in Nat
<1>1. Hangs(u) => latestRequestEpoch[u] \in Epoch /\ latestRequestEpoch[u] < currentEpoch
  BY ParamAssumption DEF IInv, EpochTypeOK, RequestTypeOK, RequestsAreDated, Hangs, Epoch
<1>2. HangingLp(u) \in Nat
  BY DEF IInv, RequestTypeOK, HangingLp
<1>3. HangingPrimary(u) \in Nat
  <2>1. CASE Hangs(u)
    <3>1. withdrawalRequests[u] \in Nat /\ RequestPrice(u) \in Nat
      BY <1>1, <2>1 DEF IInv, EpochTypeOK, RequestTypeOK, RequestPrice
    <3> QED BY <2>1, <3>1, MulDivNat, ScaleAssumption DEF HangingPrimary
  <2>2. CASE ~Hangs(u)
    BY <2>2 DEF HangingPrimary
  <2> QED BY <2>1, <2>2
<1> QED BY <1>1, <1>2, <1>3

-----------------------------------------------------------------------------
(* Every call keeps the invariant.                                         *)

LEMMA DepositInv ==
  ASSUME IInv, NEW u \in User, NEW amount \in Nat, Deposit(u, amount)
  PROVE  IInv'
<1> DEFINE supply == Supply + FeesMinted(Supply)
           lpAmount == IF supply = 0 THEN amount ELSE mulDiv(supply, amount, Tvl)
           sent == IF supply = 0 THEN amount ELSE Worth(lpAmount, supply)
           to == IF supply = 0 THEN Locked ELSE u
<1>1. RecordsTypeOK /\ totalLpTokensWaiting <= totalSupply /\ (supply > 0 => Tvl > 0)
  BY DEF IInv, Deposit
<1>2. supply \in Nat /\ FeesMinted(Supply) \in Nat
  BY <1>1, FeesNat
<1>3. Tvl \in Nat /\ (supply > 0 => Tvl \in Nat \ {0})
  BY <1>1, TvlNat
<1>4. /\ balanceOf' = Credit(BalancesWithFees, to, lpAmount)
      /\ totalSupply' = totalSupply + FeesMinted(Supply) + lpAmount
      /\ PushGearbox(sent)
      /\ UNCHANGED <<isClosed, epochVars, requestVars, claimVars, rootIdle, erc20, now, lent>>
  BY DEF Deposit
<1> HIDE DEF supply
<1>5. lpAmount \in Nat
  <2>1. CASE supply = 0
    BY <2>1
  <2>2. CASE supply # 0
    <3>1. Tvl \in Nat \ {0}
      BY <2>2, <1>2, <1>3
    <3>2. mulDiv(supply, amount, Tvl) \in Nat
      BY <3>1, <1>2, MulDivNat
    <3> QED BY <2>2, <3>2
  <2> QED BY <2>1, <2>2
<1>6. sent \in Nat
  <2>1. CASE supply = 0
    BY <2>1
  <2>2. CASE supply # 0
    <3>1. mulDiv(Tvl, lpAmount, supply) \in Nat
      <4> HIDE DEF lpAmount
      <4> QED BY <2>2, <1>2, <1>3, <1>5, MulDivNat
    <3> QED BY <2>2, <3>1 DEF Worth
  <2> QED BY <2>1, <2>2
<1>7. LedgerTypeOK'
  <2>1. to \in Account /\ BalancesWithFees \in [Account -> Nat]
    BY <1>1, FeeBalancesType DEF Account
  <2>2. lastFeeCharge' \in 0..now /\ lpPriceHighWaterMark' \in Nat
    BY <1>1, ChargeFeesType DEF Deposit
  <2>3. calls' = calls + 1
    BY DEF Deposit, Call
  <2> HIDE DEF to, lpAmount, sent
  <2>4. balanceOf' \in [Account -> Nat]
    BY <1>4, <1>5, <2>1, CreditType
  <2> QED BY <1>1, <1>2, <1>4, <1>5, <2>2, <2>3, <2>4 DEF LedgerTypeOK
<1>8. EpochTypeOK'
  BY <1>1, <1>4 DEF EpochTypeOK, epochVars
<1>9. RequestTypeOK'
  BY <1>1, <1>4 DEF RequestTypeOK, requestVars, claimVars
<1>10. TokenTypeOK'
  <2> HIDE DEF sent
  <2> QED BY <1>1, <1>4, <1>6, PushType DEF TokenTypeOK
<1>11. RequestsAreDated'
  BY <1>4 DEF IInv, RequestsAreDated, requestVars, epochVars
<1> QED BY <1>7, <1>8, <1>9, <1>10, <1>11 DEF IInv

LEMMA RegisterInv ==
  ASSUME IInv, NEW u \in User, NEW n \in Nat, RegisterWithdrawal(u, n)
  PROVE  IInv'
<1> DEFINE free == balanceOf[u] - lpTokensWaitingForClaim[u] - HangingLp(u) - Asked(u)
           registered == Least(n, free)
<1>1. RecordsTypeOK
  BY DEF IInv
<1>2. HangingLp(u) \in Nat /\ HangingPrimary(u) \in Nat /\ Asked(u) \in Nat
  BY HangingNat DEF IInv, RequestTypeOK, Asked
<1>3. registered \in Nat
  <2>1. free \in Nat
    BY <1>1, <1>2 DEF LedgerTypeOK, RequestTypeOK, RegisterWithdrawal, Account
  <2> HIDE DEF free
  <2> QED BY <2>1, LeastNat
<1>4. /\ withdrawalRequests' = [withdrawalRequests EXCEPT ![u] = Asked(u) + registered]
      /\ latestRequestEpoch' = [latestRequestEpoch EXCEPT ![u] = currentEpoch]
      /\ totalCurrentEpochRequests' = totalCurrentEpochRequests + registered
      /\ lpTokensWaitingForClaim' = [lpTokensWaitingForClaim EXCEPT ![u] = @ + HangingLp(u)]
      /\ primaryTokensToClaim' = [primaryTokensToClaim EXCEPT ![u] = @ + HangingPrimary(u)]
      /\ calls' = calls + 1
      /\ UNCHANGED <<lpVars, feeVars, isClosed, epochVars, totalLpTokensWaiting, rootIdle,
                     erc20, gearboxVars, now, lent>>
  BY DEF RegisterWithdrawal, ProcessHanging, Call
<1> HIDE DEF registered
<1>5. LedgerTypeOK'
  BY <1>1, <1>4 DEF LedgerTypeOK, lpVars, feeVars
<1>6. EpochTypeOK'
  BY <1>1, <1>4 DEF EpochTypeOK, epochVars
<1>7. RequestTypeOK'
  BY <1>1, <1>2, <1>3, <1>4 DEF RequestTypeOK, EpochTypeOK
<1>8. TokenTypeOK'
  BY <1>1, <1>4 DEF TokenTypeOK, gearboxVars
<1>9. RequestsAreDated'
  BY <1>1, <1>4 DEF IInv, RequestTypeOK, EpochTypeOK, RequestsAreDated, epochVars
<1> QED BY <1>5, <1>6, <1>7, <1>8, <1>9 DEF IInv

LEMMA CancelInv ==
  ASSUME IInv, NEW u \in User, NEW n \in Nat, CancelWithdrawal(u, n)
  PROVE  IInv'
<1> DEFINE cancelled == Least(n, withdrawalRequests[u])
<1>1. RecordsTypeOK
  BY DEF IInv
<1>2. cancelled \in Nat /\ cancelled <= withdrawalRequests[u]
  BY <1>1, LeastNat DEF RequestTypeOK
<1>3. /\ cancelled <= totalCurrentEpochRequests
      /\ withdrawalRequests' = [withdrawalRequests EXCEPT ![u] = @ - cancelled]
      /\ totalCurrentEpochRequests' = totalCurrentEpochRequests - cancelled
      /\ calls' = calls + 1
      /\ UNCHANGED <<lpVars, feeVars, isClosed, epochVars, latestRequestEpoch, claimVars,
                     rootIdle, erc20, gearboxVars, now, lent>>
  BY DEF CancelWithdrawal, Call
<1> HIDE DEF cancelled
<1>4. LedgerTypeOK'
  BY <1>1, <1>3 DEF LedgerTypeOK, lpVars, feeVars
<1>5. EpochTypeOK'
  BY <1>1, <1>3 DEF EpochTypeOK, epochVars
<1>6. RequestTypeOK'
  BY <1>1, <1>2, <1>3 DEF RequestTypeOK, claimVars
<1>7. TokenTypeOK'
  BY <1>1, <1>3 DEF TokenTypeOK, gearboxVars
<1>8. RequestsAreDated'
  BY <1>1, <1>2, <1>3 DEF IInv, RequestTypeOK, RequestsAreDated, epochVars
<1> QED BY <1>4, <1>5, <1>6, <1>7, <1>8 DEF IInv

LEMMA ExecuteInv ==
  ASSUME IInv, NEW s \in Nat, Execute(s), isClosed' \in BOOLEAN, calls' \in Nat
  PROVE  IInv'
<1> DEFINE requests == totalCurrentEpochRequests
           supply == Supply + FeesMinted(Supply)
           want == RequestsWorth(supply)
           paid == Pulled(want, s)
<1>1. RecordsTypeOK /\ totalLpTokensWaiting <= totalSupply
  BY DEF IInv, Execute
<1>2. FeesMinted(Supply) \in Nat /\ Tvl \in Nat /\ supply \in Nat \ {0}
  BY <1>1, FeesNat, TvlNat DEF Execute
<1>3. want \in Nat
  <2> HIDE DEF supply
  <2> QED BY <1>1, <1>2, MulDivNat DEF RequestTypeOK, RequestsWorth
<1>4. /\ PullGearbox(want, s)
      /\ erc20' = erc20 + paid
      /\ balanceOf' = BalancesWithFees
      /\ totalSupply' = totalSupply + FeesMinted(Supply)
      /\ epochToPrice' = [epochToPrice EXCEPT ![currentEpoch] =
                            IF requests > 0 THEN EpochPrice(paid) ELSE @]
      /\ currentEpoch' = currentEpoch + 1 /\ currentEpoch \in Epoch
      /\ totalLpTokensWaiting' = totalLpTokensWaiting + requests
      /\ totalCurrentEpochRequests' = 0
      /\ lastEpochChange' = now
      /\ UNCHANGED <<withdrawalRequests, latestRequestEpoch, lpTokensWaitingForClaim,
                     primaryTokensToClaim, rootIdle, now, lent>>
  BY DEF Execute
<1>5. /\ paid \in Nat
      /\ gearboxIdle' \in Nat /\ accountOpen' \in BOOLEAN /\ accountValue' \in Nat
  <2> HIDE DEF want
  <2> QED BY <1>1, <1>3, <1>4, PullType
<1> HIDE DEF supply, want, paid
<1>6. LedgerTypeOK'
  <2>1. lastFeeCharge' \in 0..now /\ lpPriceHighWaterMark' \in Nat
    BY <1>1, ChargeFeesType DEF Execute
  <2> QED BY <1>1, <1>2, <1>4, <2>1, FeeBalancesType DEF LedgerTypeOK
<1>7. EpochTypeOK'
  <2>1. requests > 0 => EpochPrice(paid) \in Nat
    BY <1>1, <1>5, MulDivNat, ScaleAssumption DEF RequestTypeOK, EpochPrice
  <2>2. epochToPrice' \in [Epoch -> Nat]
    BY <1>1, <1>4, <2>1 DEF EpochTypeOK
  <2>3. currentEpoch' \in 1..MaxEpoch + 1
    BY <1>4, ParamAssumption DEF Epoch
  <2>4. lastEpochChange' \in 0..now'
    BY <1>1, <1>4 DEF LedgerTypeOK
  <2> QED BY <2>2, <2>3, <2>4 DEF EpochTypeOK
<1>8. RequestTypeOK'
  BY <1>1, <1>4 DEF RequestTypeOK
<1>9. TokenTypeOK'
  BY <1>1, <1>4, <1>5 DEF TokenTypeOK
<1>10. RequestsAreDated'
  BY <1>1, <1>4 DEF IInv, RequestTypeOK, EpochTypeOK, RequestsAreDated
<1> QED BY <1>6, <1>7, <1>8, <1>9, <1>10 DEF IInv

LEMMA WithdrawInv ==
  ASSUME IInv, NEW u \in User, NEW s \in Nat, Withdraw(u, s)
  PROVE  IInv'
<1> DEFINE toBurn == LpClaimed(u)
           want == primaryTokensToClaim[u] + HangingPrimary(u)
           fromErc20 == Least(want, erc20)
           reachesGearbox == want > fromErc20 + PullExistential
           left == want - fromErc20
           fromGearbox == IF reachesGearbox THEN Pulled(left, s) ELSE 0
           balance == rootIdle + fromErc20 + fromGearbox
           rest == balance - Least(want, balance)
<1>1. RecordsTypeOK
  BY DEF IInv
<1>2. toBurn \in Nat /\ want \in Nat
  BY <1>1, HangingNat DEF RequestTypeOK, LpClaimed
<1>3. /\ toBurn <= balanceOf[u] /\ toBurn <= totalLpTokensWaiting
      /\ balanceOf' = [balanceOf EXCEPT ![u] = @ - toBurn]
      /\ totalSupply' = totalSupply - toBurn
      /\ totalLpTokensWaiting' = totalLpTokensWaiting - toBurn
      /\ lpTokensWaitingForClaim' = [lpTokensWaitingForClaim EXCEPT ![u] = 0]
      /\ primaryTokensToClaim' = [primaryTokensToClaim EXCEPT ![u] = 0]
      /\ withdrawalRequests' = [withdrawalRequests EXCEPT ![u] = IF Hangs(u) THEN 0 ELSE @]
      /\ latestRequestEpoch' = [latestRequestEpoch EXCEPT ![u] = IF Hangs(u) THEN 0 ELSE @]
      /\ rootIdle' = 0
      /\ erc20' = erc20 - fromErc20 + rest
      /\ IF reachesGearbox THEN PullGearbox(left, s) ELSE UNCHANGED gearboxVars
      /\ calls' = calls + 1
      /\ UNCHANGED <<feeVars, isClosed, epochVars, totalCurrentEpochRequests, now, lent>>
  BY DEF Withdraw, Call
<1>4. fromErc20 \in Nat /\ left \in Nat /\ fromErc20 <= erc20
  <2> HIDE DEF want
  <2>1. fromErc20 \in Nat /\ fromErc20 <= want /\ fromErc20 <= erc20
    BY <1>1, <1>2, LeastNat DEF TokenTypeOK
  <2> HIDE DEF fromErc20
  <2> QED BY <1>2, <2>1
<1>5. /\ fromGearbox \in Nat
      /\ gearboxIdle' \in Nat /\ accountOpen' \in BOOLEAN /\ accountValue' \in Nat
  <2> HIDE DEF left, reachesGearbox
  <2>1. CASE reachesGearbox
    BY <1>1, <1>3, <1>4, <2>1, PullType
  <2>2. CASE ~reachesGearbox
    BY <1>1, <1>3, <2>2 DEF TokenTypeOK, gearboxVars
  <2> QED BY <2>1, <2>2
<1>6. balance \in Nat /\ rest \in Nat
  <2>1. balance \in Nat
    <3> HIDE DEF fromErc20, fromGearbox
    <3> QED BY <1>1, <1>4, <1>5 DEF TokenTypeOK
  <2> HIDE DEF balance, want
  <2>2. Least(want, balance) \in Nat /\ Least(want, balance) <= balance
    BY <1>2, <2>1, LeastNat
  <2> QED BY <2>1, <2>2
<1> HIDE DEF toBurn, want, fromErc20, left, reachesGearbox, fromGearbox, balance, rest
<1>7. LedgerTypeOK'
  BY <1>1, <1>2, <1>3 DEF LedgerTypeOK, feeVars, Account
<1>8. EpochTypeOK'
  BY <1>1, <1>3 DEF EpochTypeOK, epochVars
<1>9. RequestTypeOK'
  BY <1>1, <1>2, <1>3 DEF RequestTypeOK
<1>10. TokenTypeOK'
  BY <1>1, <1>3, <1>4, <1>5, <1>6 DEF TokenTypeOK
<1>11. RequestsAreDated'
  BY <1>1, <1>3 DEF IInv, RequestTypeOK, EpochTypeOK, RequestsAreDated, epochVars
<1> QED BY <1>7, <1>8, <1>9, <1>10, <1>11 DEF IInv

LEMMA TransferInv ==
  ASSUME IInv, NEW u \in User, NEW to \in Account, NEW n \in Nat, TransferLp(u, to, n)
  PROVE  IInv'
<1> DEFINE debited == [balanceOf EXCEPT ![u] = @ - n]
<1>1. /\ n <= balanceOf[u]
      /\ balanceOf' = Credit(debited, to, n)
      /\ calls' = calls + 1
      /\ UNCHANGED <<totalSupply, feeVars, isClosed, epochVars, requestVars, claimVars,
                     rootIdle, erc20, gearboxVars, now, lent>>
  BY DEF TransferLp, Call
<1>2. RecordsTypeOK
  BY DEF IInv
<1>3. LedgerTypeOK'
  <2>1. debited \in [Account -> Nat]
    BY <1>1, <1>2 DEF LedgerTypeOK, Account
  <2> HIDE DEF debited
  <2>2. balanceOf' \in [Account -> Nat]
    BY <1>1, <2>1, CreditType
  <2> QED BY <1>1, <1>2, <2>2 DEF LedgerTypeOK, feeVars
<1>4. EpochTypeOK' /\ RequestTypeOK' /\ TokenTypeOK'
  BY <1>1, <1>2
     DEF EpochTypeOK, RequestTypeOK, TokenTypeOK, epochVars, requestVars, claimVars, gearboxVars
<1>5. RequestsAreDated'
  BY <1>1 DEF IInv, RequestsAreDated, requestVars, epochVars
<1> QED BY <1>3, <1>4, <1>5 DEF IInv

(* Steps that leave the ledger, the epochs and the requests alone only     *)
(* move tokens, time or the calls.                                         *)
LEMMA TokenStepInv ==
  ASSUME IInv, TokenTypeOK',
         UNCHANGED <<lpVars, feeVars, epochVars, requestVars, claimVars>>,
         isClosed' \in BOOLEAN, now' \in Nat, now' >= now, calls' \in Nat
  PROVE  IInv'
<1>1. LedgerTypeOK'
  BY DEF IInv, LedgerTypeOK, lpVars, feeVars
<1>2. EpochTypeOK'
  BY DEF IInv, LedgerTypeOK, EpochTypeOK, epochVars
<1>3. RequestTypeOK'
  BY DEF IInv, RequestTypeOK, requestVars, claimVars
<1>4. RequestsAreDated'
  BY DEF IInv, RequestsAreDated, requestVars, epochVars
<1> QED BY <1>1, <1>2, <1>3, <1>4 DEF IInv

LEMMA StrategyInv ==
  ASSUME IInv, StrategyNext
  PROVE  IInv'
<1>1. /\ calls \in Nat /\ now \in Nat /\ isClosed \in BOOLEAN
      /\ Slippages \subseteq Nat /\ Amounts \subseteq Nat
  BY ParamAssumption DEF IInv, LedgerTypeOK, EpochTypeOK
<1>2. ASSUME NEW s \in Slippages, InvokeExecution(s) PROVE IInv'
  BY <1>1, <1>2, ExecuteInv DEF InvokeExecution, Call
<1>3. ASSUME NEW s \in Slippages, Shutdown(s) PROVE IInv'
  BY <1>1, <1>3, ExecuteInv DEF Shutdown, Call
<1>4. CASE Reopen
  <2>1. TokenTypeOK'
    BY <1>4 DEF IInv, Reopen, TokenTypeOK, gearboxVars
  <2>2. isClosed' \in BOOLEAN
    BY <1>4 DEF Reopen
  <2>3. /\ UNCHANGED <<lpVars, feeVars, epochVars, requestVars, claimVars>>
        /\ now' = now /\ calls' = calls + 1
    BY <1>4 DEF Reopen, Call
  <2> QED BY <1>1, <2>1, <2>2, <2>3, TokenStepInv
<1>5. CASE OpenCreditAccount
  <2>1. TokenTypeOK'
    BY <1>5 DEF IInv, OpenCreditAccount, TokenTypeOK
  <2> QED BY <1>1, <1>5, <2>1, TokenStepInv DEF OpenCreditAccount, Call
<1>6. ASSUME NEW n \in Amounts, PullFromErc20(n) PROVE IInv'
  <2> DEFINE moved == Least(n, erc20)
  <2>1. moved \in Nat /\ moved <= erc20
    BY <1>1, LeastNat DEF IInv, TokenTypeOK
  <2>2. TokenTypeOK'
    <3>1. CASE accountOpen
      <4>1. PushGearbox(moved) /\ erc20' = erc20 - moved /\ lent' = lent + moved
            /\ UNCHANGED rootIdle
        BY <1>6, <3>1 DEF PullFromErc20
      <4> HIDE DEF moved
      <4> QED BY <2>1, <4>1, PushType DEF IInv, TokenTypeOK
    <3>2. CASE ~accountOpen
      BY <1>6, <3>2 DEF IInv, PullFromErc20, TokenTypeOK
    <3> QED BY <3>1, <3>2
  <2> QED BY <1>1, <1>6, <2>2, TokenStepInv DEF PullFromErc20, Call
<1>7. ASSUME NEW n \in Amounts, NEW s \in Slippages, PullFromGearbox(n, s) PROVE IInv'
  <2>1. PullGearbox(n, s) /\ erc20' = erc20 + Pulled(n, s) /\ UNCHANGED <<rootIdle, lent>>
    BY <1>7 DEF PullFromGearbox
  <2>2. TokenTypeOK'
    BY <1>1, <2>1, PullType DEF IInv, TokenTypeOK
  <2> QED BY <1>1, <1>7, <2>2, TokenStepInv DEF PullFromGearbox, Call
<1> QED BY <1>2, <1>3, <1>4, <1>5, <1>6, <1>7 DEF StrategyNext

LEMMA EnvironmentInv ==
  ASSUME IInv, EnvironmentNext
  PROVE  IInv'
<1>1. /\ calls \in Nat /\ now \in Nat /\ isClosed \in BOOLEAN
      /\ Amounts \subseteq Nat /\ AccountValues \subseteq Nat
  BY ParamAssumption DEF IInv, LedgerTypeOK, EpochTypeOK
<1>2. CASE ReclaimTokens
  <2>1. TokenTypeOK'
    BY <1>2 DEF IInv, ReclaimTokens, TokenTypeOK
  <2> QED BY <1>1, <1>2, <2>1, TokenStepInv DEF ReclaimTokens, Call
<1>3. ASSUME NEW n \in Amounts, Donate(n) PROVE IInv'
  <2>1. TokenTypeOK'
    BY <1>1, <1>3 DEF IInv, Donate, TokenTypeOK, gearboxVars
  <2> QED BY <1>1, <1>3, <2>1, TokenStepInv DEF Donate, Call
<1>4. ASSUME NEW v \in AccountValues, MarketMove(v) PROVE IInv'
  <2>1. TokenTypeOK'
    BY <1>1, <1>4 DEF IInv, MarketMove, TokenTypeOK
  <2> QED BY <1>1, <1>4, <2>1, TokenStepInv DEF MarketMove, Call
<1>5. CASE Tick
  <2>1. TokenTypeOK'
    BY <1>5 DEF IInv, Tick, TokenTypeOK, gearboxVars
  <2> QED BY <1>1, <1>5, <2>1, TokenStepInv DEF Tick
<1> QED BY <1>2, <1>3, <1>4, <1>5 DEF EnvironmentNext

LEMMA UserInv ==
  ASSUME IInv, NEW u \in User, UserNext(u)
  PROVE  IInv'
<1>1. Amounts \subseteq Nat /\ LpAmounts \subseteq Nat /\ Slippages \subseteq Nat
  BY ParamAssumption
<1> QED BY <1>1, DepositInv, RegisterInv, CancelInv, WithdrawInv, TransferInv DEF UserNext

-----------------------------------------------------------------------------
(* The invariant, and type correctness.                                    *)

LEMMA InitInv == Init => IInv
<1> SUFFICES ASSUME Init PROVE IInv
  OBVIOUS
<1>1. LedgerTypeOK
  BY DEF Init, LedgerTypeOK
<1>2. EpochTypeOK
  <2>1. MaxEpoch \in Nat
    BY ParamAssumption
  <2>2. isClosed \in BOOLEAN
    BY DEF Init
  <2>3. epochToPrice \in [Epoch -> Nat]
    BY DEF Init
  <2>4. currentEpoch \in 1..MaxEpoch + 1 /\ lastEpochChange \in 0..now
    BY <2>1 DEF Init
  <2> QED BY <2>2, <2>3, <2>4 DEF EpochTypeOK
<1>3. RequestTypeOK
  BY DEF Init, RequestTypeOK
<1>4. TokenTypeOK
  BY DEF Init, TokenTypeOK
<1>5. RequestsAreDated
  BY DEF Init, RequestsAreDated
<1> QED BY <1>1, <1>2, <1>3, <1>4, <1>5 DEF IInv

LEMMA StepInv == IInv /\ [Next]_vars => IInv'
<1> SUFFICES ASSUME IInv, [Next]_vars PROVE IInv'
  OBVIOUS
<1>1. CASE Next
  BY <1>1, UserInv, StrategyInv, EnvironmentInv DEF Next
<1>2. CASE UNCHANGED vars
  <2>1. /\ UNCHANGED <<lpVars, feeVars, epochVars, requestVars, claimVars>>
        /\ UNCHANGED <<isClosed, now, calls, rootIdle, erc20, gearboxVars, lent>>
    BY <1>2 DEF vars
  <2>2. TokenTypeOK'
    BY <2>1 DEF IInv, TokenTypeOK, gearboxVars
  <2> QED BY <2>1, <2>2, TokenStepInv DEF IInv, LedgerTypeOK, EpochTypeOK
<1> QED BY <1>1, <1>2

LEMMA Invariance == Spec => []IInv
<1> QED BY InitInv, StepInv, PTL DEF Spec

-----------------------------------------------------------------------------
(* Refinement: the withdrawal queue.                                       *)

(* A step that touches neither epochs nor requests nor claims is none of   *)
(* the queue's.                                                            *)
LEMMA QueueStutter ==
  ASSUME UNCHANGED <<epochVars, requestVars, claimVars>>
  PROVE  UNCHANGED Queue!vars
BY DEF epochVars, requestVars, claimVars, Queue!vars, Pending, SettledLp, SettledPrimary,
       HangingLp, HangingPrimary, RequestPrice, Hangs

LEMMA RegisterRefines ==
  ASSUME IInv, NEW u \in User, NEW n \in Nat, RegisterWithdrawal(u, n)
  PROVE  Queue!ChangeRequest(u)
<1> DEFINE registered == Least(n, balanceOf[u] - lpTokensWaitingForClaim[u] - HangingLp(u)
                                  - Asked(u))
<1>1. RequestTypeOK /\ RequestTypeOK' /\ EpochTypeOK
  BY RegisterInv DEF IInv
<1>2. /\ withdrawalRequests' = [withdrawalRequests EXCEPT ![u] = Asked(u) + registered]
      /\ latestRequestEpoch' = [latestRequestEpoch EXCEPT ![u] = currentEpoch]
      /\ lpTokensWaitingForClaim' = [lpTokensWaitingForClaim EXCEPT ![u] = @ + HangingLp(u)]
      /\ primaryTokensToClaim' = [primaryTokensToClaim EXCEPT ![u] = @ + HangingPrimary(u)]
      /\ UNCHANGED epochVars
  BY DEF RegisterWithdrawal, ProcessHanging
<1>3. ASSUME NEW w \in User
      PROVE  /\ w # u => Pending'[w] = Pending[w]
             /\ SettledLp'[w] = SettledLp[w]
             /\ SettledPrimary'[w] = SettledPrimary[w]
  <2> HIDE DEF registered
  <2>1. CASE w = u
    <3>1. ~Hangs(u)'
      BY <1>1, <1>2 DEF Hangs, RequestTypeOK, epochVars
    <3>2. HangingLp(u)' = 0 /\ HangingPrimary(u)' = 0
      BY <3>1 DEF HangingLp, HangingPrimary
    <3>3. HangingLp(u) \in Nat /\ HangingPrimary(u) \in Nat
      BY HangingNat
    <3> QED BY <1>1, <1>2, <2>1, <3>2, <3>3 DEF SettledLp, SettledPrimary, RequestTypeOK
  <2>2. CASE w # u
    <3>1. /\ withdrawalRequests'[w] = withdrawalRequests[w]
          /\ latestRequestEpoch'[w] = latestRequestEpoch[w]
          /\ lpTokensWaitingForClaim'[w] = lpTokensWaitingForClaim[w]
          /\ primaryTokensToClaim'[w] = primaryTokensToClaim[w]
      BY <1>1, <1>2, <2>2 DEF RequestTypeOK
    <3> QED BY <1>2, <3>1 DEF epochVars, Pending, SettledLp, SettledPrimary, HangingLp,
                              HangingPrimary, RequestPrice, Hangs
  <2> QED BY <2>1, <2>2
<1>4. Pending'[u] \in Nat
  BY <1>1 DEF Pending, RequestTypeOK
<1>5. Pending' = [Pending EXCEPT ![u] = Pending'[u]]
  BY <1>3 DEF Pending
<1>6. UNCHANGED <<SettledLp, SettledPrimary>>
  BY <1>3 DEF SettledLp, SettledPrimary
<1> QED BY <1>2, <1>4, <1>5, <1>6 DEF Queue!ChangeRequest, epochVars

LEMMA CancelRefines ==
  ASSUME IInv, NEW u \in User, NEW n \in Nat, CancelWithdrawal(u, n)
  PROVE  Queue!ChangeRequest(u)
<1>1. RequestTypeOK /\ RequestTypeOK' /\ EpochTypeOK
  BY CancelInv DEF IInv
<1>2. /\ latestRequestEpoch[u] = currentEpoch
      /\ \A w \in User \ {u} : withdrawalRequests'[w] = withdrawalRequests[w]
      /\ UNCHANGED <<epochVars, latestRequestEpoch, claimVars>>
  BY <1>1 DEF CancelWithdrawal, RequestTypeOK
<1>3. ASSUME NEW w \in User
      PROVE  /\ w # u => Pending'[w] = Pending[w]
             /\ SettledLp'[w] = SettledLp[w]
             /\ SettledPrimary'[w] = SettledPrimary[w]
  BY <1>2 DEF epochVars, claimVars, Pending, SettledLp, SettledPrimary, HangingLp,
              HangingPrimary, RequestPrice, Hangs
<1>4. Pending'[u] \in Nat
  BY <1>1 DEF Pending, RequestTypeOK
<1>5. Pending' = [Pending EXCEPT ![u] = Pending'[u]]
  BY <1>3 DEF Pending
<1>6. UNCHANGED <<SettledLp, SettledPrimary>>
  BY <1>3 DEF SettledLp, SettledPrimary
<1> QED BY <1>2, <1>4, <1>5, <1>6 DEF Queue!ChangeRequest, epochVars

LEMMA ExecuteRefines ==
  ASSUME IInv, IInv', NEW s \in Nat, Execute(s)
  PROVE  Queue!Execute
<1> DEFINE e == currentEpoch
<1>1. /\ e \in Epoch /\ currentEpoch' = e + 1
      /\ epochToPrice' = [epochToPrice EXCEPT ![e] = epochToPrice'[e]]
      /\ UNCHANGED <<withdrawalRequests, latestRequestEpoch, lpTokensWaitingForClaim,
                     primaryTokensToClaim>>
  <2>1. epochToPrice \in [Epoch -> Nat]
    BY DEF IInv, EpochTypeOK
  <2> QED BY <2>1 DEF Execute
<1>2. epochToPrice'[e] \in Nat
  BY <1>1 DEF IInv, EpochTypeOK
<1>3. ASSUME NEW w \in User
      PROVE  /\ Pending'[w] = 0
             /\ SettledLp'[w] = SettledLp[w] + Pending[w]
             /\ SettledPrimary'[w] =
                    SettledPrimary[w] + (Pending[w] * epochToPrice'[e]) \div D18
  <2>1. /\ withdrawalRequests[w] \in Nat /\ latestRequestEpoch[w] \in Nat
        /\ lpTokensWaitingForClaim[w] \in Nat /\ primaryTokensToClaim[w] \in Nat
        /\ latestRequestEpoch[w] <= e /\ e \in Nat
        /\ latestRequestEpoch[w] = 0 => withdrawalRequests[w] = 0
    BY DEF IInv, RequestTypeOK, EpochTypeOK, RequestsAreDated
  <2>2. Pending'[w] = 0
    BY <1>1, <2>1 DEF Pending
  <2>3. CASE latestRequestEpoch[w] = e
    <3>1. ~Hangs(w) /\ Hangs(w)'
      BY <1>1, <2>1, <2>3 DEF Hangs, Epoch
    <3>2. /\ HangingLp(w) = 0 /\ HangingLp(w)' = withdrawalRequests[w]
          /\ HangingPrimary(w) = 0
          /\ HangingPrimary(w)' = mulDiv(withdrawalRequests[w], epochToPrice'[e], D18)
      BY <1>1, <2>3, <3>1 DEF HangingLp, HangingPrimary, RequestPrice
    <3>3. Pending[w] = withdrawalRequests[w]
      BY <2>3 DEF Pending
    <3>4. mulDiv(withdrawalRequests[w], epochToPrice'[e], D18) \in Nat
      BY <1>2, <2>1, MulDivNat, ScaleAssumption
    <3>5. SettledPrimary'[w] = SettledPrimary[w] + mulDiv(Pending[w], epochToPrice'[e], D18)
      BY <1>1, <2>1, <3>2, <3>3, <3>4 DEF SettledPrimary
    <3>6. SettledLp'[w] = SettledLp[w] + Pending[w]
      BY <1>1, <2>1, <3>2, <3>3 DEF SettledLp
    <3> QED BY <2>2, <3>5, <3>6 DEF mulDiv
  <2>4. CASE latestRequestEpoch[w] # e
    <3>1. Pending[w] = 0
      BY <2>4 DEF Pending
    <3>2. (Pending[w] * epochToPrice'[e]) \div D18 = 0
      BY <1>2, <3>1, MulDivZero, ScaleAssumption DEF mulDiv
    <3>3. Hangs(w)' <=> Hangs(w)
      BY <1>1, <2>1, <2>4 DEF Hangs
    <3>4. HangingLp(w)' = HangingLp(w)
      BY <1>1, <3>3 DEF HangingLp
    <3>5. HangingPrimary(w)' = HangingPrimary(w)
      <4>1. CASE Hangs(w)
        <5>1. latestRequestEpoch[w] \in Epoch /\ latestRequestEpoch[w] # e
          BY <2>4, <4>1, HangingNat
        <5>2. epochToPrice'[latestRequestEpoch[w]] = epochToPrice[latestRequestEpoch[w]]
          BY <1>1, <5>1 DEF IInv, EpochTypeOK
        <5> QED BY <1>1, <3>3, <5>2 DEF HangingPrimary, RequestPrice
      <4>2. CASE ~Hangs(w)
        BY <3>3, <4>2 DEF HangingPrimary
      <4> QED BY <4>1, <4>2
    <3>6. HangingLp(w) \in Nat /\ HangingPrimary(w) \in Nat
      BY HangingNat
    <3> QED BY <1>1, <2>1, <2>2, <3>1, <3>2, <3>4, <3>5, <3>6 DEF SettledLp, SettledPrimary
  <2> QED BY <2>3, <2>4
<1>4. Pending' = [w \in User |-> 0]
  BY <1>3 DEF Pending
<1>5. SettledLp' = [w \in User |-> SettledLp[w] + Pending[w]]
  BY <1>3 DEF SettledLp
<1>6. SettledPrimary' =
          [w \in User |-> SettledPrimary[w] + (Pending[w] * epochToPrice'[e]) \div D18]
  BY <1>3 DEF SettledPrimary
<1> QED BY <1>1, <1>2, <1>4, <1>5, <1>6 DEF Queue!Execute

LEMMA WithdrawRefines ==
  ASSUME IInv, NEW u \in User, NEW s \in Nat, Withdraw(u, s)
  PROVE  Queue!Claim(u)
<1>1. RequestTypeOK /\ EpochTypeOK
  BY DEF IInv
<1>2. /\ lpTokensWaitingForClaim' = [lpTokensWaitingForClaim EXCEPT ![u] = 0]
      /\ primaryTokensToClaim' = [primaryTokensToClaim EXCEPT ![u] = 0]
      /\ withdrawalRequests' = [withdrawalRequests EXCEPT ![u] = IF Hangs(u) THEN 0 ELSE @]
      /\ latestRequestEpoch' = [latestRequestEpoch EXCEPT ![u] = IF Hangs(u) THEN 0 ELSE @]
      /\ UNCHANGED epochVars
  BY DEF Withdraw
<1>3. ASSUME NEW w \in User
      PROVE  /\ Pending'[w] = Pending[w]
             /\ SettledLp'[w] = IF w = u THEN 0 ELSE SettledLp[w]
             /\ SettledPrimary'[w] = IF w = u THEN 0 ELSE SettledPrimary[w]
  <2>1. CASE w = u
    <3>1. ~Hangs(u)'
      BY <1>1, <1>2 DEF Hangs, RequestTypeOK, epochVars
    <3>2. HangingLp(u)' = 0 /\ HangingPrimary(u)' = 0
      BY <3>1 DEF HangingLp, HangingPrimary
    <3>3. Pending'[u] = Pending[u]
      BY <1>1, <1>2 DEF Pending, Hangs, RequestTypeOK, EpochTypeOK, epochVars
    <3> QED BY <1>1, <1>2, <2>1, <3>2, <3>3 DEF SettledLp, SettledPrimary, RequestTypeOK
  <2>2. CASE w # u
    <3>1. /\ withdrawalRequests'[w] = withdrawalRequests[w]
          /\ latestRequestEpoch'[w] = latestRequestEpoch[w]
          /\ lpTokensWaitingForClaim'[w] = lpTokensWaitingForClaim[w]
          /\ primaryTokensToClaim'[w] = primaryTokensToClaim[w]
      BY <1>1, <1>2, <2>2 DEF RequestTypeOK
    <3> QED BY <1>2, <2>2, <3>1 DEF epochVars, Pending, SettledLp, SettledPrimary, HangingLp,
                                    HangingPrimary, RequestPrice, Hangs
  <2> QED BY <2>1, <2>2
<1>4. UNCHANGED Pending
  BY <1>3 DEF Pending
<1>5. SettledLp' = [SettledLp EXCEPT ![u] = 0]
  BY <1>3 DEF SettledLp
<1>6. SettledPrimary' = [SettledPrimary EXCEPT ![u] = 0]
  BY <1>3 DEF SettledPrimary
<1> QED BY <1>2, <1>4, <1>5, <1>6 DEF Queue!Claim, epochVars

LEMMA QueueInit == Init => Queue!Init
  BY DEF Init, Queue!Init, Pending, SettledLp, SettledPrimary, HangingLp, HangingPrimary, Hangs

LEMMA QueueStep == IInv /\ IInv' /\ [Next]_vars => [Queue!Next]_(Queue!vars)
<1> SUFFICES ASSUME IInv, IInv', [Next]_vars PROVE [Queue!Next]_(Queue!vars)
  OBVIOUS
<1>1. Amounts \subseteq Nat /\ LpAmounts \subseteq Nat /\ Slippages \subseteq Nat
  BY ParamAssumption
<1>2. ASSUME NEW u \in User, UserNext(u) PROVE [Queue!Next]_(Queue!vars)
  <2>1. ASSUME NEW n \in Amounts, Deposit(u, n) PROVE UNCHANGED Queue!vars
    BY <2>1, QueueStutter DEF Deposit
  <2>2. ASSUME NEW n \in LpAmounts, RegisterWithdrawal(u, n) PROVE Queue!ChangeRequest(u)
    BY <1>1, <2>2, RegisterRefines
  <2>3. ASSUME NEW n \in LpAmounts, CancelWithdrawal(u, n) PROVE Queue!ChangeRequest(u)
    BY <1>1, <2>3, CancelRefines
  <2>4. ASSUME NEW s \in Slippages, Withdraw(u, s) PROVE Queue!Claim(u)
    BY <1>1, <2>4, WithdrawRefines
  <2>5. ASSUME NEW to \in Account, NEW n \in LpAmounts, TransferLp(u, to, n)
        PROVE  UNCHANGED Queue!vars
    BY <2>5, QueueStutter DEF TransferLp
  <2> QED BY <1>2, <2>1, <2>2, <2>3, <2>4, <2>5 DEF UserNext, Queue!Next
<1>3. ASSUME StrategyNext PROVE [Queue!Next]_(Queue!vars)
  <2>1. ASSUME NEW s \in Slippages, InvokeExecution(s) \/ Shutdown(s) PROVE Queue!Execute
    BY <1>1, <2>1, ExecuteRefines DEF InvokeExecution, Shutdown
  <2>2. CASE Reopen
    BY <2>2, QueueStutter DEF Reopen
  <2>3. CASE OpenCreditAccount
    BY <2>3, QueueStutter DEF OpenCreditAccount
  <2>4. ASSUME NEW n \in Amounts, PullFromErc20(n) PROVE UNCHANGED Queue!vars
    BY <2>4, QueueStutter DEF PullFromErc20
  <2>5. ASSUME NEW n \in Amounts, NEW s \in Slippages, PullFromGearbox(n, s)
        PROVE  UNCHANGED Queue!vars
    BY <2>5, QueueStutter DEF PullFromGearbox
  <2> QED BY <1>3, <2>1, <2>2, <2>3, <2>4, <2>5 DEF StrategyNext, Queue!Next
<1>4. ASSUME EnvironmentNext PROVE UNCHANGED Queue!vars
  BY <1>4, QueueStutter DEF EnvironmentNext, ReclaimTokens, Donate, MarketMove, Tick
<1>5. ASSUME UNCHANGED vars PROVE UNCHANGED Queue!vars
  BY <1>5, QueueStutter DEF vars
<1> QED BY <1>2, <1>3, <1>4, <1>5 DEF Next

(* The lazily settled requests of GearboxRootVault implement the queue:    *)
(* every request of an epoch is settled at its one price when it is        *)
(* executed, however late its owner comes back for it, and only the owner  *)
(* can take back a request or claim what is settled.                       *)
THEOREM RequestsImplementQueue == Spec => ImplementsQueue
<1>1. Spec => Queue!Init /\ [][Queue!Next]_(Queue!vars)
  BY QueueInit, QueueStep, Invariance, PTL DEF Spec
<1> QED BY <1>1 DEF ImplementsQueue, Queue!Spec

-----------------------------------------------------------------------------
(* The books of the epochs: LP tokens, requests and claims.                *)

(* The properties speak of MapThenSumSet, the lemmas of Total.             *)
Books ==
    /\ totalSupply = Total(balanceOf, Account)
    /\ totalCurrentEpochRequests = Total(Pending, User)
    /\ totalLpTokensWaiting = Total(SettledLp, User)
    /\ Total(SettledPrimary, User) <= erc20 + lent

LEMMA BooksAreTotals == (RequestsBalance <=> Books) /\ (RequestsBalance' <=> Books')
<1>1. RequestsBalance <=> Books
  BY DEF Books, RequestsBalance, SupplyIsSumOfBalances, RequestTotalsAreSums, ClaimsAreBacked,
         Total
<1> QED BY <1>1, PTL

LEMMA AccountFinite == IsFiniteSet(User) /\ IsFiniteSet(Account)
<1>1. IsFiniteSet(User \cup {Locked})
  BY AccountAssumption, FS_AddElement
<1>2. IsFiniteSet((User \cup {Locked}) \cup {FeeReceiver})
  BY <1>1, FS_AddElement
<1>3. (User \cup {Locked}) \cup {FeeReceiver} = Account
  BY DEF Account
<1> QED BY <1>2, <1>3, AccountAssumption

(* A credit raises the total of the balances by its amount.                *)
LEMMA CreditTotal ==
  ASSUME NEW f \in [Account -> Nat], NEW a \in Account, NEW n \in Nat
  PROVE  Total(Credit(f, a, n), Account) = Total(f, Account) + n
<1>1. /\ Credit(f, a, n)[a] - f[a] = n
      /\ \A x \in Account : f[x] \in Int /\ Credit(f, a, n)[x] \in Int
      /\ \A x \in Account \ {a} : Credit(f, a, n)[x] = f[x]
  BY DEF Credit
<1>2. Total(Credit(f, a, n), Account) = Total(f, Account) + (Credit(f, a, n)[a] - f[a])
  BY <1>1, AccountFinite, TotalChange
<1> QED BY <1>1, <1>2

(* A user's part of the three books is a natural number each.              *)
LEMMA PartsNat ==
  ASSUME IInv, NEW w \in User
  PROVE  Pending[w] \in Nat /\ SettledLp[w] \in Nat /\ SettledPrimary[w] \in Nat
BY HangingNat DEF IInv, RequestTypeOK, Pending, SettledLp, SettledPrimary

(* Calls that change no epoch and no request leave the books of the        *)
(* requests alone; what is left to show is the LP ledger and the tokens.   *)
LEMMA BooksKept ==
  ASSUME IInv, IInv', Books, UNCHANGED <<epochVars, requestVars, claimVars>>,
         totalSupply' = Total(balanceOf', Account), erc20 + lent <= erc20' + lent'
  PROVE  Books'
<1>1. UNCHANGED <<Pending, SettledLp, SettledPrimary>>
  BY QueueStutter DEF Queue!vars
<1>2. Total(SettledPrimary, User) \in Int
  BY AccountFinite, PartsNat, TotalInt
<1>3. /\ erc20 \in Int /\ lent \in Int /\ erc20' \in Int /\ lent' \in Int
      /\ Total(SettledPrimary, User) <= erc20 + lent
  BY DEF Books, IInv, TokenTypeOK
<1>4. Total(SettledPrimary', User) = Total(SettledPrimary, User)
  BY <1>1, Zenon
<1>5. Total(SettledPrimary', User) <= erc20' + lent'
  <2>1. PICK e \in Int, l \in Int : e = erc20' /\ l = lent'
    BY <1>3
  <2>2. erc20 + lent <= e + l
    BY <2>1, Zenon
  <2>3. Total(SettledPrimary, User) <= e + l
    BY <1>2, <1>3, <2>2
  <2> QED BY <1>4, <2>1, <2>3, Zenon
<1> QED BY <1>1, <1>5 DEF Books, requestVars, claimVars

LEMMA DepositBooks ==
  ASSUME IInv, IInv', Books, NEW u \in User, NEW amount \in Nat, Deposit(u, amount)
  PROVE  Books'
<1> DEFINE supply == Supply + FeesMinted(Supply)
           lpAmount == IF supply = 0 THEN amount ELSE mulDiv(supply, amount, Tvl)
           to == IF supply = 0 THEN Locked ELSE u
<1>1. /\ totalLpTokensWaiting <= totalSupply /\ (supply > 0 => Tvl > 0)
      /\ balanceOf' = Credit(BalancesWithFees, to, lpAmount)
      /\ totalSupply' = totalSupply + FeesMinted(Supply) + lpAmount
      /\ UNCHANGED <<epochVars, requestVars, claimVars, erc20, lent>>
  BY DEF Deposit
<1>2. /\ supply \in Nat /\ FeesMinted(Supply) \in Nat /\ Tvl \in Nat
      /\ balanceOf \in [Account -> Nat] /\ BalancesWithFees \in [Account -> Nat]
  BY <1>1, FeesNat, TvlNat, FeeBalancesType DEF IInv, LedgerTypeOK
<1>3. to \in Account
  BY DEF Account
<1> HIDE DEF supply, to
<1>4. lpAmount \in Nat
  BY <1>1, <1>2, MulDivNat
<1> HIDE DEF lpAmount
<1>5. Total(BalancesWithFees, Account) = Total(balanceOf, Account) + FeesMinted(Supply)
  BY <1>2, CreditTotal DEF BalancesWithFees, Account
<1>6. Total(balanceOf', Account) = Total(BalancesWithFees, Account) + lpAmount
  BY <1>1, <1>2, <1>3, <1>4, CreditTotal
<1>7. totalSupply' = Total(balanceOf', Account)
  BY <1>1, <1>5, <1>6 DEF Books
<1>8. erc20 + lent <= erc20' + lent'
  BY <1>1 DEF IInv, TokenTypeOK
<1> QED BY <1>1, <1>7, <1>8, BooksKept

LEMMA TransferBooks ==
  ASSUME IInv, IInv', Books, NEW u \in User, NEW to \in Account, NEW n \in Nat,
         TransferLp(u, to, n)
  PROVE  Books'
<1> DEFINE debited == [balanceOf EXCEPT ![u] = @ - n]
<1>1. /\ n <= balanceOf[u] /\ balanceOf' = Credit(debited, to, n)
      /\ UNCHANGED <<totalSupply, epochVars, requestVars, claimVars, erc20, lent>>
  BY DEF TransferLp
<1>2. u \in Account /\ balanceOf \in [Account -> Nat] /\ totalSupply \in Int
  BY DEF IInv, LedgerTypeOK, Account
<1>3. /\ debited \in [Account -> Nat] /\ debited[u] - balanceOf[u] = -n
      /\ \A x \in Account \ {u} : debited[x] = balanceOf[x]
  BY <1>1, <1>2
<1> HIDE DEF debited
<1>4. Total(debited, Account) = Total(balanceOf, Account) + (debited[u] - balanceOf[u])
  BY <1>2, <1>3, AccountFinite, TotalChange
<1>5. Total(balanceOf', Account) = Total(debited, Account) + n
  BY <1>1, <1>3, CreditTotal
<1>6. totalSupply' = Total(balanceOf', Account)
  BY <1>1, <1>2, <1>3, <1>4, <1>5 DEF Books
<1>7. erc20 + lent <= erc20' + lent'
  BY <1>1 DEF IInv, TokenTypeOK
<1> QED BY <1>1, <1>6, <1>7, BooksKept

(* Registering and cancelling change the caller's request and the total by *)
(* the same amount; the queue's ChangeRequest says what they leave alone.  *)
LEMMA RequestBooks ==
  ASSUME IInv, IInv', Books, NEW u \in User, Queue!ChangeRequest(u),
         totalCurrentEpochRequests' = totalCurrentEpochRequests + (Pending'[u] - Pending[u]),
         UNCHANGED <<balanceOf, totalSupply, totalLpTokensWaiting, erc20, lent>>
  PROVE  Books'
<1>1. /\ \A w \in User : Pending[w] \in Int /\ Pending'[w] \in Int
      /\ \A w \in User \ {u} : Pending'[w] = Pending[w]
      /\ UNCHANGED <<SettledLp, SettledPrimary>>
  <2>1. \A w \in User : Pending[w] \in Nat /\ Pending'[w] \in Nat
    BY DEF IInv, RequestTypeOK, Pending
  <2>2. Pending' = [Pending EXCEPT ![u] = Pending'[u]] /\ UNCHANGED <<SettledLp, SettledPrimary>>
    BY DEF Queue!ChangeRequest
  <2>3. ASSUME NEW w \in User, w # u PROVE Pending'[w] = Pending[w]
    <3>1. [Pending EXCEPT ![u] = Pending'[u]][w] = Pending[w]
      BY <2>3 DEF Pending
    <3> QED BY <2>2, <3>1, Zenon
  <2> QED BY <2>1, <2>2, <2>3
<1>2. Total(Pending', User) = Total(Pending, User) + (Pending'[u] - Pending[u])
  BY <1>1, AccountFinite, TotalChange
<1> QED BY <1>1, <1>2 DEF Books

LEMMA RegisterBooks ==
  ASSUME IInv, IInv', Books, NEW u \in User, NEW n \in Nat, RegisterWithdrawal(u, n)
  PROVE  Books'
<1> DEFINE registered == Least(n, balanceOf[u] - lpTokensWaitingForClaim[u] - HangingLp(u)
                                  - Asked(u))
<1>1. /\ withdrawalRequests' = [withdrawalRequests EXCEPT ![u] = Asked(u) + registered]
      /\ latestRequestEpoch' = [latestRequestEpoch EXCEPT ![u] = currentEpoch]
      /\ totalCurrentEpochRequests' = totalCurrentEpochRequests + registered
      /\ UNCHANGED <<lpVars, epochVars, totalLpTokensWaiting, erc20, lent>>
  BY DEF RegisterWithdrawal
<1> HIDE DEF registered
<1>2. Pending[u] = Asked(u)
  BY DEF IInv, RequestTypeOK, EpochTypeOK, RequestsAreDated, Pending, Asked, Hangs
<1>3. Pending'[u] = Asked(u) + registered
  BY <1>1 DEF IInv, RequestTypeOK, Pending, epochVars
<1>4. totalCurrentEpochRequests \in Nat /\ totalCurrentEpochRequests' \in Nat
      /\ Asked(u) \in Nat
  BY DEF IInv, RequestTypeOK, Asked
<1>5. registered \in Int
  <2>1. balanceOf[u] \in Int /\ lpTokensWaitingForClaim[u] \in Int /\ HangingLp(u) \in Int
    BY HangingNat DEF IInv, LedgerTypeOK, RequestTypeOK, Account
  <2> QED BY <1>4, <2>1 DEF registered, Least
<1>6. totalCurrentEpochRequests' = totalCurrentEpochRequests + (Pending'[u] - Pending[u])
  BY <1>1, <1>2, <1>3, <1>4, <1>5
<1> QED BY <1>1, <1>6, RegisterRefines, RequestBooks DEF lpVars

LEMMA CancelBooks ==
  ASSUME IInv, IInv', Books, NEW u \in User, NEW n \in Nat, CancelWithdrawal(u, n)
  PROVE  Books'
<1> DEFINE cancelled == Least(n, withdrawalRequests[u])
<1>1. /\ latestRequestEpoch[u] = currentEpoch
      /\ withdrawalRequests' = [withdrawalRequests EXCEPT ![u] = @ - cancelled]
      /\ totalCurrentEpochRequests' = totalCurrentEpochRequests - cancelled
      /\ UNCHANGED <<lpVars, epochVars, latestRequestEpoch, claimVars, erc20, lent>>
  BY DEF CancelWithdrawal
<1>2. cancelled \in Nat /\ withdrawalRequests[u] \in Nat /\ totalCurrentEpochRequests \in Nat
  BY LeastNat DEF IInv, RequestTypeOK
<1> HIDE DEF cancelled
<1>3. Pending[u] = withdrawalRequests[u] /\ Pending'[u] = withdrawalRequests[u] - cancelled
  BY <1>1 DEF IInv, RequestTypeOK, Pending, epochVars
<1>4. totalCurrentEpochRequests' = totalCurrentEpochRequests + (Pending'[u] - Pending[u])
  BY <1>1, <1>2, <1>3
<1> QED BY <1>1, <1>4, CancelRefines, RequestBooks DEF lpVars, claimVars

(* What rounding costs: if every user of an epoch is paid the rounded-down *)
(* worth of the request, all of them together are paid no more than the    *)
(* worth of the total.                                                     *)
LEMMA RoundingKeepsTotal ==
  ASSUME NEW f \in [User -> Nat], NEW price \in Nat, NEW paid \in Nat,
         price * Total(f, User) <= paid * D18
  PROVE  Total([w \in User |-> mulDiv(f[w], price, D18)], User) <= paid
<1> DEFINE parts == [w \in User |-> mulDiv(f[w], price, D18)]
<1>1. D18 \in Nat \ {0}
  BY ScaleAssumption
<1>2. ASSUME NEW w \in User
      PROVE  f[w] \in Int /\ parts[w] \in Int /\ D18 * parts[w] <= price * f[w]
  <2>1. f[w] \in Nat /\ f[w] * price \in Nat /\ price * f[w] = f[w] * price
    OBVIOUS
  <2>2. ASSUME NEW n \in Nat PROVE n \div D18 \in Nat /\ D18 * (n \div D18) <= n
    BY <1>1, SMT
  <2>3. parts[w] = (f[w] * price) \div D18
    BY DEF mulDiv
  <2> HIDE DEF parts
  <2> QED BY <2>1, <2>2, <2>3
<1> HIDE DEF parts
<1>3. Total(parts, User) \in Int
  BY <1>2, AccountFinite, TotalInt
<1>4. D18 * Total(parts, User) <= price * Total(f, User)
  BY <1>1, <1>2, AccountFinite, TotalScales
<1>5. Total(f, User) \in Int
  BY AccountFinite, TotalInt
<1>6. price * Total(f, User) \in Int
  BY <1>5
<1>7. ASSUME NEW x \in Int, NEW y \in Int, D18 * x <= y, y <= paid * D18 PROVE x <= paid
  BY <1>1, <1>7
<1>8. Total(parts, User) <= paid
  BY <1>3, <1>4, <1>6, <1>7
<1> QED BY <1>8 DEF parts

LEMMA ExecuteBooks ==
  ASSUME IInv, IInv', Books, NEW s \in Nat, Execute(s)
  PROVE  Books'
<1> DEFINE requests == totalCurrentEpochRequests
           want == RequestsWorth(Supply + FeesMinted(Supply))
           paid == Pulled(want, s)
           price == epochToPrice'[currentEpoch]
           parts == [w \in User |-> mulDiv(Pending[w], price, D18)]
<1>1. /\ totalLpTokensWaiting <= totalSupply /\ Supply + FeesMinted(Supply) > 0
      /\ PullGearbox(want, s)
      /\ erc20' = erc20 + paid /\ lent' = lent
      /\ balanceOf' = BalancesWithFees
      /\ totalSupply' = totalSupply + FeesMinted(Supply)
      /\ totalLpTokensWaiting' = totalLpTokensWaiting + requests
      /\ totalCurrentEpochRequests' = 0
      /\ currentEpoch \in Epoch
      /\ epochToPrice' = [epochToPrice EXCEPT ![currentEpoch] =
                            IF requests > 0 THEN EpochPrice(paid) ELSE @]
  BY DEF Execute
<1>2. /\ FeesMinted(Supply) \in Nat /\ Tvl \in Nat /\ Supply + FeesMinted(Supply) \in Nat \ {0}
      /\ requests \in Nat /\ balanceOf \in [Account -> Nat]
      /\ erc20 \in Nat /\ lent \in Nat /\ totalLpTokensWaiting \in Nat
  BY <1>1, FeesNat, TvlNat DEF IInv, RequestTypeOK, LedgerTypeOK, TokenTypeOK
<1>3. want \in Nat
  BY <1>2, MulDivNat DEF RequestsWorth
<1> HIDE DEF want
<1>4. paid \in Nat
  BY <1>1, <1>3, PullType DEF IInv
<1> HIDE DEF paid
<1>5. totalSupply' = Total(balanceOf', Account)
  <2>1. Total(BalancesWithFees, Account) = Total(balanceOf, Account) + FeesMinted(Supply)
    BY <1>2, CreditTotal DEF BalancesWithFees, Account
  <2> QED BY <1>1, <2>1 DEF Books
<1>6. /\ \A w \in User : /\ Pending[w] \in Nat /\ Pending'[w] = 0
                         /\ SettledLp[w] \in Nat
                         /\ SettledLp'[w] = SettledLp[w] + Pending[w]
                         /\ SettledPrimary[w] \in Nat /\ SettledPrimary'[w] \in Nat
                         /\ SettledPrimary'[w] = SettledPrimary[w] + parts[w]
      /\ price \in Nat
  <2>1. ASSUME NEW w \in User
        PROVE  /\ Pending[w] \in Nat /\ SettledLp[w] \in Nat /\ SettledPrimary[w] \in Nat
               /\ Pending'[w] \in Nat /\ SettledPrimary'[w] \in Nat
    <3>1. Pending[w] \in Nat /\ SettledLp[w] \in Nat /\ SettledPrimary[w] \in Nat
      BY PartsNat
    <3>2. Queue!Execute
      BY ExecuteRefines
    <3>3. price \in Nat
      BY <3>2 DEF Queue!Execute
    <3>4. mulDiv(Pending[w], price, D18) \in Nat
      BY <3>1, <3>3, MulDivNat, ScaleAssumption
    <3>5. SettledPrimary'[w] = SettledPrimary[w] + mulDiv(Pending[w], price, D18)
      BY <3>2 DEF Queue!Execute, mulDiv
    <3>6. Pending'[w] = 0
      BY <3>2 DEF Queue!Execute
    <3> QED BY <3>1, <3>4, <3>5, <3>6
  <2>2. /\ price \in Nat
        /\ Pending' = [w \in User |-> 0]
        /\ SettledLp' = [w \in User |-> SettledLp[w] + Pending[w]]
        /\ SettledPrimary' = [w \in User |-> SettledPrimary[w] + (Pending[w] * price) \div D18]
    BY ExecuteRefines DEF Queue!Execute
  <2>3. \A w \in User : SettledPrimary'[w] = SettledPrimary[w] + parts[w]
    BY <2>2 DEF mulDiv
  <2>4. \A w \in User : Pending'[w] = 0 /\ SettledLp'[w] = SettledLp[w] + Pending[w]
    BY <2>2
  <2> QED BY <2>1, <2>2, <2>3, <2>4
<1>7. totalCurrentEpochRequests' = Total(Pending', User)
  <2>1. Total(Pending', User) = 0
    BY <1>6, AccountFinite, TotalZero
  <2> QED BY <1>1, <2>1
<1>8. totalLpTokensWaiting' = Total(SettledLp', User)
  <2>1. Total(SettledLp', User) = Total(SettledLp, User) + Total(Pending, User)
    BY <1>6, AccountFinite, TotalAdds
  <2> QED BY <1>1, <2>1 DEF Books
<1>9. Total(SettledPrimary', User) <= erc20' + lent'
  <2>1. price * requests <= paid * D18
    <3>1. CASE requests > 0
      <4>1. price = (paid * D18) \div requests
        BY <1>1, <3>1 DEF IInv, EpochTypeOK, EpochPrice, mulDiv
      <4>2. paid * D18 \in Nat /\ requests \in Nat \ {0}
        BY <1>2, <1>4, <3>1, ScaleAssumption
      <4>3. ASSUME NEW n \in Nat, NEW k \in Nat \ {0} PROVE (n \div k) * k <= n
        BY SMT
      <4> QED BY <4>1, <4>2, <4>3
    <3>2. CASE requests = 0
      <4>1. price * 0 = 0 /\ paid * D18 \in Nat
        BY <1>4, <1>6, ScaleAssumption
      <4> QED BY <3>2, <4>1
    <3> QED BY <1>2, <3>1, <3>2
  <2>2. Pending \in [User -> Nat]
    BY <1>6 DEF Pending
  <2>3. requests = Total(Pending, User)
    BY DEF Books
  <2>4. Total(parts, User) <= paid
    <3> HIDE DEF price
    <3> QED BY <1>4, <1>6, <2>1, <2>2, <2>3, RoundingKeepsTotal
  <2>5. \A w \in User : parts[w] \in Int
    <3>1. ASSUME NEW w \in User PROVE mulDiv(Pending[w], price, D18) \in Nat
      <4> HIDE DEF price
      <4> QED BY <1>6, MulDivNat, ScaleAssumption
    <3> QED BY <3>1
  <2> HIDE DEF parts
  <2>6. /\ Total(SettledPrimary', User) = Total(SettledPrimary, User) + Total(parts, User)
        /\ Total(SettledPrimary, User) \in Int /\ Total(parts, User) \in Int
    BY <1>6, <2>5, AccountFinite, TotalAdds, TotalInt
  <2>7. Total(SettledPrimary, User) <= erc20 + lent
    BY DEF Books
  <2>8. Total(SettledPrimary, User) + Total(parts, User) <= (erc20 + paid) + lent
    BY <1>2, <1>4, <2>4, <2>6, <2>7
  <2> QED BY <1>1, <2>6, <2>8, Zenon
<1> QED BY <1>5, <1>7, <1>8, <1>9 DEF Books

LEMMA WithdrawBooks ==
  ASSUME IInv, IInv', Books, NEW u \in User, NEW s \in Nat, Withdraw(u, s)
  PROVE  Books'
<1> DEFINE toBurn == LpClaimed(u)
           want == primaryTokensToClaim[u] + HangingPrimary(u)
           fromErc20 == Least(want, erc20)
           reachesGearbox == want > fromErc20 + PullExistential
           left == want - fromErc20
           fromGearbox == IF reachesGearbox THEN Pulled(left, s) ELSE 0
           balance == rootIdle + fromErc20 + fromGearbox
           rest == balance - Least(want, balance)
<1>1. /\ toBurn <= balanceOf[u]
      /\ balanceOf' = [balanceOf EXCEPT ![u] = @ - toBurn]
      /\ totalSupply' = totalSupply - toBurn
      /\ totalLpTokensWaiting' = totalLpTokensWaiting - toBurn
      /\ erc20' = erc20 - fromErc20 + rest /\ lent' = lent
      /\ totalCurrentEpochRequests' = totalCurrentEpochRequests
      /\ IF reachesGearbox THEN PullGearbox(left, s) ELSE UNCHANGED gearboxVars
  BY DEF Withdraw
<1>2. /\ \A w \in User : /\ SettledLp[w] \in Int /\ SettledPrimary[w] \in Int
                         /\ SettledLp'[w] \in Int /\ SettledPrimary'[w] \in Int
      /\ SettledLp'[u] = 0 /\ SettledPrimary'[u] = 0
      /\ \A w \in User \ {u} : /\ SettledLp'[w] = SettledLp[w]
                               /\ SettledPrimary'[w] = SettledPrimary[w]
      /\ Pending' = Pending
  <2>1. /\ SettledLp' = [SettledLp EXCEPT ![u] = 0]
        /\ SettledPrimary' = [SettledPrimary EXCEPT ![u] = 0]
        /\ Pending' = Pending
    BY WithdrawRefines DEF Queue!Claim
  <2>2. \A w \in User : SettledLp[w] \in Int /\ SettledPrimary[w] \in Int
    BY PartsNat
  <2>3. \A w \in User : /\ SettledLp'[w] = IF w = u THEN 0 ELSE SettledLp[w]
                        /\ SettledPrimary'[w] = IF w = u THEN 0 ELSE SettledPrimary[w]
    BY <2>1 DEF SettledLp, SettledPrimary
  <2> QED BY <2>1, <2>2, <2>3
<1>3. /\ SettledLp[u] = toBurn /\ SettledPrimary[u] = want
      /\ toBurn \in Nat /\ want \in Nat
  BY HangingNat DEF IInv, RequestTypeOK, SettledLp, SettledPrimary, LpClaimed
<1>4. /\ balanceOf \in [Account -> Nat] /\ u \in Account /\ totalSupply \in Int
      /\ totalLpTokensWaiting \in Int
      /\ erc20 \in Nat /\ lent \in Nat /\ rootIdle \in Nat
  BY DEF IInv, LedgerTypeOK, RequestTypeOK, TokenTypeOK, Account
<1> HIDE DEF toBurn, want
<1>5. totalSupply' = Total(balanceOf', Account)
  <2>1. /\ \A a \in Account : balanceOf[a] \in Int /\ balanceOf'[a] \in Int
        /\ \A a \in Account \ {u} : balanceOf'[a] = balanceOf[a]
        /\ balanceOf'[u] - balanceOf[u] = -toBurn
    BY <1>1, <1>3, <1>4
  <2>2. Total(balanceOf', Account) = Total(balanceOf, Account) + (balanceOf'[u] - balanceOf[u])
    BY <1>4, <2>1, AccountFinite, TotalChange
  <2> QED BY <1>1, <1>3, <1>4, <2>1, <2>2 DEF Books
<1>6. totalLpTokensWaiting' = Total(SettledLp', User)
  <2>1. Total(SettledLp', User) = Total(SettledLp, User) + (SettledLp'[u] - SettledLp[u])
    <3>1. /\ \A w \in User : SettledLp[w] \in Int /\ SettledLp'[w] \in Int
          /\ \A w \in User \ {u} : SettledLp'[w] = SettledLp[w]
      BY <1>2
    <3> QED BY <3>1, AccountFinite, TotalChange
  <2> QED BY <1>1, <1>2, <1>3, <1>4, <2>1 DEF Books
<1>7. Total(SettledPrimary', User) <= erc20' + lent'
  <2>1. /\ Total(SettledPrimary', User) =
               Total(SettledPrimary, User) + (SettledPrimary'[u] - SettledPrimary[u])
        /\ Total(SettledPrimary, User) \in Int
    <3>1. /\ \A w \in User : SettledPrimary[w] \in Int /\ SettledPrimary'[w] \in Int
          /\ \A w \in User \ {u} : SettledPrimary'[w] = SettledPrimary[w]
      BY <1>2
    <3> QED BY <3>1, AccountFinite, TotalChange, TotalInt
  <2>2. fromErc20 \in Nat /\ fromErc20 <= want /\ fromErc20 <= erc20
    BY <1>3, <1>4, LeastNat
  <2> HIDE DEF fromErc20
  <2>3. fromGearbox \in Nat
    BY <1>1, <1>3, <2>2, PullType DEF IInv
  <2> HIDE DEF fromGearbox
  <2>4. rest \in Nat
    <3>1. balance \in Nat
      BY <1>4, <2>2, <2>3
    <3> HIDE DEF balance
    <3>2. Least(want, balance) \in Nat /\ Least(want, balance) <= balance
      BY <1>3, <3>1, LeastNat
    <3> QED BY <3>1, <3>2
  <2> HIDE DEF rest
  <2>5. Total(SettledPrimary, User) <= erc20 + lent
    BY DEF Books
  <2>6. Total(SettledPrimary, User) + (0 - want) <= (erc20 - fromErc20 + rest) + lent
    BY <1>3, <1>4, <2>1, <2>2, <2>4, <2>5
  <2> QED BY <1>1, <1>2, <1>3, <2>1, <2>6, Zenon
<1> QED BY <1>1, <1>2, <1>5, <1>6, <1>7 DEF Books

LEMMA InitBooks == Init => Books
<1> SUFFICES ASSUME Init PROVE Books
  OBVIOUS
<1>1. /\ \A a \in Account : balanceOf[a] = 0
      /\ \A u \in User : Pending[u] = 0 /\ SettledLp[u] = 0 /\ SettledPrimary[u] = 0
      /\ totalSupply = 0 /\ totalCurrentEpochRequests = 0 /\ totalLpTokensWaiting = 0
      /\ erc20 = 0 /\ lent = 0
  BY DEF Init, Pending, SettledLp, SettledPrimary, HangingLp, HangingPrimary, Hangs
<1>2. /\ Total(balanceOf, Account) = 0 /\ Total(Pending, User) = 0
      /\ Total(SettledLp, User) = 0 /\ Total(SettledPrimary, User) = 0
  BY <1>1, AccountFinite, TotalZero
<1> QED BY <1>1, <1>2 DEF Books

(* The strategy moves tokens out of the ERC20Vault only on the account of  *)
(* what it has lent; everything else adds to the ERC20Vault.               *)
LEMMA TokensKept ==
  ASSUME IInv, \/ Reopen \/ OpenCreditAccount \/ ReclaimTokens \/ Tick
               \/ \E n \in Amounts : PullFromErc20(n) \/ Donate(n)
               \/ \E n \in Amounts, s \in Slippages : PullFromGearbox(n, s)
               \/ \E v \in AccountValues : MarketMove(v)
  PROVE  /\ UNCHANGED <<lpVars, feeVars, epochVars, requestVars, claimVars>>
         /\ erc20 + lent <= erc20' + lent'
<1>1. /\ erc20 \in Nat /\ lent \in Nat /\ gearboxIdle \in Nat
      /\ Amounts \subseteq Nat /\ Slippages \subseteq Nat
  BY ParamAssumption DEF IInv, TokenTypeOK
<1>2. CASE \/ Reopen \/ OpenCreditAccount \/ Tick
           \/ \E n \in Amounts : Donate(n)
           \/ \E v \in AccountValues : MarketMove(v)
  <2>1. /\ UNCHANGED <<lpVars, feeVars, epochVars, requestVars, claimVars>>
        /\ erc20' = erc20 /\ lent' = lent
    BY <1>2 DEF Reopen, OpenCreditAccount, Tick, Donate, MarketMove
  <2> QED BY <1>1, <2>1
<1>3. CASE ReclaimTokens
  <2>1. /\ UNCHANGED <<lpVars, feeVars, epochVars, requestVars, claimVars>>
        /\ erc20' = erc20 + gearboxIdle /\ lent' = lent
    BY <1>3 DEF ReclaimTokens
  <2> QED BY <1>1, <2>1
<1>4. ASSUME NEW n \in Amounts, PullFromErc20(n)
      PROVE  /\ UNCHANGED <<lpVars, feeVars, epochVars, requestVars, claimVars>>
             /\ erc20 + lent <= erc20' + lent'
  <2>1. UNCHANGED <<lpVars, feeVars, epochVars, requestVars, claimVars>>
    BY <1>4 DEF PullFromErc20
  <2>2. CASE accountOpen
    <3> DEFINE moved == Least(n, erc20)
    <3>1. erc20' = erc20 - moved /\ lent' = lent + moved
      BY <1>4, <2>2 DEF PullFromErc20
    <3>2. moved \in Nat
      BY <1>1, LeastNat
    <3> HIDE DEF moved
    <3>3. erc20 + lent <= (erc20 - moved) + (lent + moved)
      BY <1>1, <3>2
    <3> QED BY <2>1, <3>1, <3>3, Zenon
  <2>3. CASE ~accountOpen
    <3>1. erc20' = erc20 + gearboxIdle /\ lent' = lent
      BY <1>4, <2>3 DEF PullFromErc20
    <3> QED BY <1>1, <2>1, <3>1
  <2> QED BY <2>2, <2>3
<1>5. ASSUME NEW n \in Amounts, NEW s \in Slippages, PullFromGearbox(n, s)
      PROVE  /\ UNCHANGED <<lpVars, feeVars, epochVars, requestVars, claimVars>>
             /\ erc20 + lent <= erc20' + lent'
  <2>1. /\ UNCHANGED <<lpVars, feeVars, epochVars, requestVars, claimVars>>
        /\ PullGearbox(n, s) /\ erc20' = erc20 + Pulled(n, s) /\ lent' = lent
    BY <1>5 DEF PullFromGearbox
  <2>2. Pulled(n, s) \in Nat
    BY <1>1, <2>1, PullType DEF IInv
  <2> QED BY <1>1, <2>1, <2>2
<1> QED BY <1>2, <1>3, <1>4, <1>5

LEMMA StepBooks == IInv /\ IInv' /\ Books /\ [Next]_vars => Books'
<1> SUFFICES ASSUME IInv, IInv', Books, [Next]_vars PROVE Books'
  OBVIOUS
<1>1. Amounts \subseteq Nat /\ LpAmounts \subseteq Nat /\ Slippages \subseteq Nat
  BY ParamAssumption
<1>2. ASSUME NEW u \in User, UserNext(u) PROVE Books'
  BY <1>1, <1>2, DepositBooks, RegisterBooks, CancelBooks, WithdrawBooks, TransferBooks
     DEF UserNext
<1>3. ASSUME NEW s \in Slippages, InvokeExecution(s) \/ Shutdown(s) PROVE Books'
  BY <1>1, <1>3, ExecuteBooks DEF InvokeExecution, Shutdown
<1>4. ASSUME \/ Reopen \/ OpenCreditAccount \/ ReclaimTokens \/ Tick
             \/ \E n \in Amounts : PullFromErc20(n) \/ Donate(n)
             \/ \E n \in Amounts, s \in Slippages : PullFromGearbox(n, s)
             \/ \E v \in AccountValues : MarketMove(v)
      PROVE  Books'
  <2>1. /\ UNCHANGED <<lpVars, epochVars, requestVars, claimVars>>
        /\ erc20 + lent <= erc20' + lent'
    BY <1>4, TokensKept
  <2>2. totalSupply' = Total(balanceOf', Account)
    BY <2>1 DEF Books, lpVars
  <2> QED BY <2>1, <2>2, BooksKept
<1>5. CASE UNCHANGED vars
  <2>1. UNCHANGED <<lpVars, epochVars, requestVars, claimVars>> /\ erc20' = erc20 /\ lent' = lent
    BY <1>5 DEF vars
  <2>2. totalSupply' = Total(balanceOf', Account) /\ erc20 + lent <= erc20' + lent'
    BY <2>1 DEF Books, lpVars, IInv, TokenTypeOK
  <2> QED BY <2>1, <2>2, BooksKept
<1> QED BY <1>2, <1>3, <1>4, <1>5 DEF Next, StrategyNext, EnvironmentNext

(* Whatever happens in whatever order, for any number of users and epochs: *)
(* the LP ledger adds up, the totals the executions work with are the sums *)
(* of the users' requests although those are settled lazily, and what is   *)
(* settled is backed by tokens on the ERC20Vault, rounding included.       *)
THEOREM BooksBalance == Spec => []RequestsBalance
<1>1. Spec => []Books
  BY InitBooks, StepBooks, Invariance, PTL DEF Spec
<1> QED BY <1>1, BooksAreTotals, PTL

(* Type correctness: whatever is called in whatever order, the amounts of  *)
(* the fee, epoch, claim and token records are natural numbers, also the   *)
(* supply, from which _burn subtracts unchecked, and a request that hangs  *)
(* was made in an epoch that has been executed and priced.                 *)
THEOREM TypeCorrect == Spec => []TypeOK
<1>1. ASSUME IInv, Books PROVE TypeOK
  <2>1. RecordsTypeOK /\ balanceOf \in [Account -> Nat] /\ currentEpoch \in Nat
    BY <1>1 DEF IInv, LedgerTypeOK, EpochTypeOK
  <2>2. totalSupply \in Nat
    BY <1>1, <2>1, AccountFinite, TotalNat DEF Books
  <2>3. ASSUME NEW u \in User
        PROVE  /\ latestRequestEpoch[u] \in 0..currentEpoch
               /\ Hangs(u) => latestRequestEpoch[u] \in 1..currentEpoch - 1
    BY <1>1, <2>1 DEF IInv, RequestsAreDated, RequestTypeOK, Hangs
  <2> QED BY <2>1, <2>2, <2>3 DEF TypeOK
<1>2. Spec => []Books
  BY InitBooks, StepBooks, Invariance, PTL DEF Spec
<1> QED BY <1>1, <1>2, Invariance, PTL

-----------------------------------------------------------------------------
(* What a step may do to those who hold shares: deposits and executions.   *)

(* A closed credit account is worth nothing.                               *)
ClosedIsWorthless == ~accountOpen => accountValue = 0

LEMMA ClosedInv == Spec => []ClosedIsWorthless
<1>1. Init => ClosedIsWorthless
  BY DEF Init, ClosedIsWorthless
<1>2. ClosedIsWorthless /\ [Next]_vars => ClosedIsWorthless'
  <2> SUFFICES ASSUME ClosedIsWorthless, [Next]_vars PROVE ClosedIsWorthless'
    OBVIOUS
  <2>1. CASE UNCHANGED vars
    BY <2>1 DEF vars, gearboxVars, ClosedIsWorthless
  <2>2. ASSUME NEW u \in User, UserNext(u) PROVE ClosedIsWorthless'
    <3>1. ASSUME NEW n \in Amounts, Deposit(u, n) PROVE ClosedIsWorthless'
      BY <3>1 DEF Deposit, PushGearbox, ClosedIsWorthless
    <3>2. ASSUME NEW n \in LpAmounts, RegisterWithdrawal(u, n) \/ CancelWithdrawal(u, n)
          PROVE  ClosedIsWorthless'
      BY <3>2 DEF RegisterWithdrawal, CancelWithdrawal, gearboxVars, ClosedIsWorthless
    <3>3. ASSUME NEW s \in Slippages, Withdraw(u, s) PROVE ClosedIsWorthless'
      BY <3>3 DEF Withdraw, PullGearbox, gearboxVars, ClosedIsWorthless
    <3>4. ASSUME NEW to \in Account, NEW n \in LpAmounts, TransferLp(u, to, n)
          PROVE  ClosedIsWorthless'
      BY <3>4 DEF TransferLp, gearboxVars, ClosedIsWorthless
    <3> QED BY <2>2, <3>1, <3>2, <3>3, <3>4 DEF UserNext
  <2>3. CASE StrategyNext
    BY <2>3 DEF StrategyNext, InvokeExecution, Shutdown, Execute, Reopen, OpenCreditAccount,
                PullFromErc20, PullFromGearbox, PushGearbox, PullGearbox, gearboxVars,
                ClosedIsWorthless
  <2>4. CASE EnvironmentNext
    BY <2>4 DEF EnvironmentNext, ReclaimTokens, Donate, MarketMove, Tick, gearboxVars,
                ClosedIsWorthless
  <2> QED BY <2>1, <2>2, <2>3, <2>4 DEF Next
<1> QED BY <1>1, <1>2, PTL DEF Spec

(* The fees of a call are what the fee receiver gets in it, and there are  *)
(* none when the call leaves the fee state as it was.                      *)
LEMMA FeesOfStep ==
  ASSUME IInv, totalLpTokensWaiting <= totalSupply, ChargeFees(Supply),
         balanceOf'[FeeReceiver] = BalancesWithFees[FeeReceiver]
  PROVE  FeesInStep = FeesMinted(Supply)
<1>1. /\ Supply \in Nat /\ FeesMinted(Supply) \in Nat
      /\ Charged(Supply) => LpPrice(Supply) \in Nat
      /\ lpPriceHighWaterMark \in Nat /\ now \in Nat /\ lastFeeCharge \in Nat
      /\ balanceOf \in [Account -> Nat] /\ FeeReceiver \in Account
  BY FeesNat DEF IInv, LedgerTypeOK, Account
<1>2. CASE feeVars' # feeVars
  <2>1. BalancesWithFees[FeeReceiver] = balanceOf[FeeReceiver] + FeesMinted(Supply)
    BY <1>1 DEF BalancesWithFees, Credit
  <2>2. balanceOf[FeeReceiver] \in Nat
    BY <1>1
  <2> QED BY <1>1, <1>2, <2>1, <2>2 DEF FeesInStep
<1>3. CASE feeVars' = feeVars
  <2>1. lastFeeCharge' = lastFeeCharge /\ lpPriceHighWaterMark' = lpPriceHighWaterMark
    BY <1>3 DEF feeVars
  <2>2. ~NewHigh(Supply)
    BY <1>1, <2>1 DEF ChargeFees, NewHigh
  <2>3. ProfitFee(Supply) = 0
    BY <2>2 DEF ProfitFee
  <2>4. Charged(Supply) => Elapsed = 0
    BY <1>1, <2>1 DEF ChargeFees, Elapsed
  <2>5. ASSUME NEW rate \in Nat, Elapsed = 0 PROVE PeriodFee(rate, Supply) = 0
    <3>1. rate * Elapsed = 0 /\ YEAR * DENOMINATOR \in Nat \ {0}
      BY <2>5, ScaleAssumption
    <3> QED BY <1>1, <3>1, MulDivZero DEF PeriodFee
  <2>6. PeriodFees(Supply) = 0
    BY <2>4, <2>5, ParamAssumption DEF PeriodFees
  <2> QED BY <1>3, <2>3, <2>6 DEF FeesMinted, FeesInStep
<1> QED BY <1>2, <1>3

(* Every other call leaves the fee state alone and does not add to the     *)
(* effective supply.                                                       *)
LEMMA NoFeesElsewhere ==
  ASSUME IInv, IInv', Supply' <= Supply, UNCHANGED feeVars
  PROVE  ~(Supply' > SupplyWithFees)
<1>1. Supply \in Int /\ Supply' \in Int
  BY DEF IInv, LedgerTypeOK, RequestTypeOK, Supply
<1>2. FeesInStep = 0
  BY DEF FeesInStep
<1> QED BY <1>1, <1>2 DEF SupplyWithFees

(* The amount taken for lpAmount shares is rounded down by less than one   *)
(* unit.                                                                   *)
LEMMA DepositStep ==
  ASSUME IInv, IInv', ClosedIsWorthless, NEW u \in User, NEW amount \in Nat,
         Deposit(u, amount), Supply > 0
  PROVE  (Tvl' + 1) * SupplyWithFees > Tvl * Supply'
<1> DEFINE supply == Supply + FeesMinted(Supply)
           lpAmount == IF supply = 0 THEN amount ELSE mulDiv(supply, amount, Tvl)
           sent == IF supply = 0 THEN amount ELSE Worth(lpAmount, supply)
           to == IF supply = 0 THEN Locked ELSE u
<1>1. /\ totalLpTokensWaiting <= totalSupply /\ (supply > 0 => Tvl > 0)
      /\ balanceOf' = Credit(BalancesWithFees, to, lpAmount)
      /\ totalSupply' = totalSupply + FeesMinted(Supply) + lpAmount
      /\ ChargeFees(Supply) /\ PushGearbox(sent)
      /\ totalLpTokensWaiting' = totalLpTokensWaiting
  BY DEF Deposit, claimVars
<1>2. /\ FeesMinted(Supply) \in Nat /\ supply \in Nat /\ supply > 0 /\ Tvl \in Nat \ {0}
      /\ totalSupply \in Int /\ totalLpTokensWaiting \in Nat
  BY <1>1, FeesNat, TvlNat DEF IInv, LedgerTypeOK, RequestTypeOK
<1>3. /\ lpAmount = mulDiv(supply, amount, Tvl)
      /\ sent = mulDiv(Tvl, lpAmount, supply)
      /\ to = u
  BY <1>2 DEF Worth
<1>4. lpAmount \in Nat /\ sent \in Nat
  <2> HIDE DEF supply, lpAmount, sent
  <2> QED BY <1>2, <1>3, MulDivNat
<1>5. FeesInStep = FeesMinted(Supply)
  <2>1. to # FeeReceiver
    BY <1>3, AccountAssumption
  <2>2. BalancesWithFees \in [Account -> Nat] /\ FeeReceiver \in Account
    BY <1>1, FeeBalancesType DEF IInv, Account
  <2> HIDE DEF to, lpAmount
  <2>3. balanceOf'[FeeReceiver] = BalancesWithFees[FeeReceiver]
    BY <1>1, <2>1, <2>2 DEF Credit
  <2> QED BY <1>1, <2>3, FeesOfStep
<1> HIDE DEF lpAmount, sent
<1>6. SupplyWithFees = supply /\ Supply' = supply + lpAmount
  <2>1. Supply' = totalSupply' - totalLpTokensWaiting' /\ Supply = totalSupply - totalLpTokensWaiting
    BY DEF Supply
  <2> QED BY <1>1, <1>2, <1>4, <1>5, <2>1 DEF SupplyWithFees
<1>7. Tvl' = Tvl + sent
  <2>1. gearboxIdle \in Nat /\ accountValue \in Nat
    BY DEF IInv, TokenTypeOK
  <2>2. CASE accountOpen
    <3>1. gearboxIdle' = 0 /\ accountValue' = accountValue + gearboxIdle + sent
      BY <1>1, <2>2 DEF PushGearbox
    <3>2. Tvl' = 0 + (accountValue + gearboxIdle + sent)
      BY <3>1, Zenon DEF Tvl
    <3> QED BY <1>4, <2>1, <3>2 DEF Tvl
  <2>3. CASE ~accountOpen
    <3>1. gearboxIdle' = gearboxIdle + sent /\ accountValue' = 0 /\ accountValue = 0
      BY <1>1, <2>3 DEF PushGearbox, ClosedIsWorthless
    <3>2. Tvl' = (gearboxIdle + sent) + 0
      BY <3>1, Zenon DEF Tvl
    <3> QED BY <1>4, <2>1, <3>1, <3>2 DEF Tvl
  <2> QED BY <2>2, <2>3
<1> HIDE DEF supply
<1>8. (sent + 1) * supply > Tvl * lpAmount
  <2>1. ASSUME NEW n \in Nat, NEW k \in Nat \ {0} PROVE (n \div k + 1) * k > n
    BY SMT
  <2>2. Tvl * lpAmount \in Nat
    BY <1>2, <1>4
  <2>3. sent = (Tvl * lpAmount) \div supply
    BY <1>3 DEF mulDiv
  <2>4. supply \in Nat \ {0}
    BY <1>2
  <2> QED BY <2>1, <2>2, <2>3, <2>4
<1>9. (Tvl + sent + 1) * supply > Tvl * (supply + lpAmount)
  <2>1. ASSUME NEW t \in Nat, NEW x \in Nat, NEW n \in Nat, NEW p \in Nat,
               (x + 1) * n > t * p
        PROVE  (t + x + 1) * n > t * (n + p)
    <3>1. (t + x + 1) * n = t * n + (x + 1) * n /\ t * (n + p) = t * n + t * p
      BY SMT
    <3>2. t * n \in Int /\ (x + 1) * n \in Int /\ t * p \in Int
      BY SMT
    <3> QED BY <2>1, <3>1, <3>2
  <2> QED BY <1>2, <1>4, <1>8, <2>1
<1> QED BY <1>6, <1>7, <1>9

(* An execution does not raise the effective supply but for fees.          *)
LEMMA ExecuteStep ==
  ASSUME IInv, IInv', NEW s \in Nat, Execute(s)
  PROVE  ~(Supply' > SupplyWithFees)
<1> DEFINE requests == totalCurrentEpochRequests
<1>1. /\ totalLpTokensWaiting <= totalSupply /\ ChargeFees(Supply)
      /\ balanceOf' = BalancesWithFees
      /\ totalSupply' = totalSupply + FeesMinted(Supply)
      /\ totalLpTokensWaiting' = totalLpTokensWaiting + requests
  BY DEF Execute
<1>2. /\ FeesMinted(Supply) \in Nat /\ requests \in Nat
      /\ totalSupply \in Int /\ totalLpTokensWaiting \in Nat
  BY <1>1, FeesNat DEF IInv, LedgerTypeOK, RequestTypeOK
<1>3. Supply' = (totalSupply + FeesMinted(Supply)) - (totalLpTokensWaiting + requests)
  BY <1>1, Zenon DEF Supply
<1>4. SupplyWithFees = (totalSupply - totalLpTokensWaiting) + FeesMinted(Supply)
  BY <1>1, FeesOfStep DEF SupplyWithFees, Supply
<1> QED BY <1>2, <1>3, <1>4

(* Rounded-down division, by its two bounds.                               *)
LEMMA DivBounds ==
  ASSUME NEW n \in Nat, NEW k \in Nat \ {0}
  PROVE  n \div k \in Nat /\ (n \div k) * k <= n /\ (n \div k + 1) * k > n
BY SMT

(* Products of natural numbers: order, and the laws the solvers are not    *)
(* asked to find.                                                          *)
LEMMA TimesNat ==
  ASSUME NEW a \in Nat, NEW b \in Nat, NEW c \in Nat
  PROVE  /\ a * b \in Nat
         /\ a <= b => a * c <= b * c
         /\ (a < b /\ c > 0) => a * c < b * c
         /\ a * c < b * c => a < b
         /\ (a * c <= b * c /\ c > 0) => a <= b
         /\ (a + b) * c = a * c + b * c
         /\ a * b = b * a /\ (a * b) * c = a * (b * c)
<1>1. a * b \in Nat /\ (a + b) * c = a * c + b * c
  BY SMT
<1>2. a * b = b * a /\ (a * b) * c = a * (b * c)
  BY SMT
<1>3. a <= b => a * c <= b * c
  BY SMT
<1>4. (a < b /\ c > 0) => a * c < b * c
  <2> HAVE a < b /\ c > 0
  <2>1. a + 1 <= b
    OBVIOUS
  <2>2. (a + 1) * c <= b * c
    BY <2>1, SMT
  <2> QED BY <2>2, SMT
<1>5. a * c \in Nat /\ b * c \in Nat
  BY SMT
<1>6. b <= a => b * c <= a * c
  BY SMT
<1>7. (b < a /\ c > 0) => b * c < a * c
  <2> HAVE b < a /\ c > 0
  <2>1. b + 1 <= a
    OBVIOUS
  <2>2. (b + 1) * c <= a * c
    BY <2>1, SMT
  <2> QED BY <2>2, SMT
<1>8. a * c < b * c => a < b
  BY <1>5, <1>6
<1>9. (a * c <= b * c /\ c > 0) => a <= b
  BY <1>5, <1>7
<1> QED BY <1>1, <1>2, <1>3, <1>4, <1>8, <1>9

(* A request of p out of R priced at what paid for R comes to: no more     *)
(* than the part p of R of what was paid, and less by rounding only.       *)
LEMMA PriceRounding ==
  ASSUME NEW p \in Nat, NEW R \in Nat \ {0}, NEW paid \in Nat, NEW D \in Nat \ {0},
         NEW price, price = (paid * D) \div R, NEW g, g = (p * price) \div D
  PROVE  /\ price \in Nat /\ g \in Nat
         /\ g * R <= p * paid
         /\ ((g + 1) * D + p) * R > (p * paid) * D
<1>1. /\ price \in Nat /\ price * R <= paid * D /\ (price + 1) * R > paid * D
      /\ paid * D \in Nat
  <2>1. paid * D \in Nat
    BY TimesNat
  <2> QED BY <2>1, DivBounds
<1>2. /\ g \in Nat /\ g * D <= p * price /\ (g + 1) * D > p * price
      /\ p * price \in Nat
  <2>1. p * price \in Nat
    BY <1>1, TimesNat
  <2> QED BY <2>1, DivBounds
<1>3. g * R <= p * paid
  <2>1. (g * D) * R <= (p * price) * R
    BY <1>2, TimesNat
  <2>2. p * (price * R) <= p * (paid * D)
    <3>1. price * R \in Nat
      BY <1>1, TimesNat
    <3>2. (price * R) * p <= (paid * D) * p
      BY <1>1, <3>1, TimesNat
    <3> QED BY <1>1, <3>1, <3>2, TimesNat
  <2>3. /\ (p * price) * R = p * (price * R)
        /\ (g * D) * R = (g * R) * D
        /\ p * (paid * D) = (p * paid) * D
    BY <1>1, <1>2, SMT
  <2>4. (g * R) * D <= (p * paid) * D
    BY <2>1, <2>2, <2>3
  <2>5. g * R \in Nat /\ p * paid \in Nat
    BY <1>2, TimesNat
  <2> QED BY <2>4, <2>5, TimesNat
<1>4. ((g + 1) * D + p) * R > (p * paid) * D
  <2>1. ((g + 1) * D) * R > (p * price) * R
    <3>1. (g + 1) * D \in Nat
      BY <1>2, TimesNat
    <3> QED BY <1>2, <3>1, TimesNat
  <2>2. p * ((price + 1) * R) >= p * (paid * D)
    <3>1. (price + 1) * R \in Nat
      BY <1>1, TimesNat
    <3>2. (paid * D) * p <= ((price + 1) * R) * p
      BY <1>1, <3>1, TimesNat
    <3> QED BY <1>1, <3>1, <3>2, TimesNat
  <2>3. /\ ((g + 1) * D + p) * R = ((g + 1) * D) * R + p * R
        /\ p * ((price + 1) * R) = (p * price) * R + p * R
        /\ p * (paid * D) = (p * paid) * D
    BY <1>1, <1>2, SMT
  <2>4. /\ p * R \in Int /\ (p * price) * R \in Int /\ ((g + 1) * D) * R \in Int
        /\ p * (paid * D) \in Int
    BY <1>1, <1>2, SMT
  <2> QED BY <2>1, <2>2, <2>3, <2>4
<1> QED BY <1>1, <1>2, <1>3, <1>4

(* What is paid for the requests is their part, R of S, of the tvl T, less *)
(* rounding; so is what a request gets of it.                              *)
LEMMA ShareOfWorth ==
  ASSUME NEW g \in Nat, NEW p \in Nat, NEW R \in Nat \ {0}, NEW paid \in Nat,
         NEW T \in Nat, NEW S \in Nat \ {0}, NEW D \in Nat \ {0},
         p <= R, paid * S <= R * T, g * R <= p * paid,
         ((g + 1) * D + p) * R > (p * paid) * D
  PROVE  /\ g * S <= p * T
         /\ (paid + 1) * S > R * T => ((g + 2) * D + p) * S > (p * T) * D
<1>1. g * S <= p * T
  <2>1. (g * R) * S <= (p * paid) * S
    BY TimesNat
  <2>2. (paid * S) * p <= (R * T) * p
    BY TimesNat
  <2>3. /\ (g * R) * S = (g * S) * R /\ (p * paid) * S = (paid * S) * p
        /\ (R * T) * p = (p * T) * R
    BY SMT
  <2>4. (g * S) * R <= (p * T) * R
    BY <2>1, <2>2, <2>3
  <2>5. g * S \in Nat /\ p * T \in Nat
    BY TimesNat
  <2> QED BY <2>4, <2>5, TimesNat
<1>2. ASSUME (paid + 1) * S > R * T PROVE ((g + 2) * D + p) * S > (p * T) * D
  <2> DEFINE A == (g + 1) * D + p
             B == (g + 2) * D + p
  <2>1. A \in Nat /\ B \in Nat /\ B = A + D
    BY SMT
  <2>2. A * R > (p * paid) * D
    OBVIOUS
  <2> HIDE DEF A, B
  <2>3. B * R > (p * (paid + 1)) * D
    <3>1. B * R = A * R + D * R /\ (p * (paid + 1)) * D = (p * paid) * D + p * D
      BY <2>1, SMT
    <3>2. p * D <= D * R
      BY SMT
    <3>3. A * R \in Int /\ D * R \in Int /\ p * D \in Int /\ (p * paid) * D \in Int
      BY <2>1, SMT
    <3> QED BY <2>2, <3>1, <3>2, <3>3
  <2>4. (B * R) * S > ((p * (paid + 1)) * D) * S
    <3>1. B * R \in Nat /\ (p * (paid + 1)) * D \in Nat
      BY <2>1, SMT
    <3> QED BY <2>3, <3>1, TimesNat
  <2>5. (R * T) * (p * D) <= ((paid + 1) * S) * (p * D)
    <3>1. R * T \in Nat /\ (paid + 1) * S \in Nat /\ p * D \in Nat
      BY SMT
    <3> QED BY <1>2, <3>1, TimesNat
  <2>6. /\ (B * R) * S = (B * S) * R
        /\ ((p * (paid + 1)) * D) * S = ((paid + 1) * S) * (p * D)
        /\ (R * T) * (p * D) = ((p * T) * D) * R
    BY <2>1, SMT
  <2>7. B * S \in Nat /\ (p * T) * D \in Nat /\ ((paid + 1) * S) * (p * D) \in Int
    BY <2>1, SMT
  <2>8. (B * S) * R > ((p * T) * D) * R
    <3>1. (B * S) * R \in Int /\ ((p * T) * D) * R \in Int
      BY <2>7, SMT
    <3> QED BY <2>4, <2>5, <2>6, <2>7, <3>1
  <2>9. B * S > (p * T) * D
    BY <2>7, <2>8, TimesNat
  <2> QED BY <2>9 DEF B
<1> QED BY <1>1, <1>2

(* What an execution brings each request of its epoch.                     *)
Settles(u) ==
    LET gained == SettledPrimary'[u] - SettledPrimary[u]
    IN  /\ gained * SupplyWithFees <= Pending[u] * Tvl
        /\ \/ IsPart(gained, Pending[u], Tvl, SupplyWithFees)
           \/ /\ Tvl' = 0
              /\ IsPart(gained, Pending[u], erc20' - erc20, totalCurrentEpochRequests)

LEMMA ExecuteSettles ==
  ASSUME IInv, IInv', Books, NEW s \in Nat, Execute(s), NEW u \in User
  PROVE  Settles(u)
<1> DEFINE R == totalCurrentEpochRequests
           S == Supply + FeesMinted(Supply)
           want == RequestsWorth(S)
           paid == Pulled(want, s)
           p == Pending[u]
           price == epochToPrice'[currentEpoch]
           g == SettledPrimary'[u] - SettledPrimary[u]
<1>1. /\ totalLpTokensWaiting <= totalSupply /\ S > 0
      /\ ChargeFees(Supply) /\ PullGearbox(want, s)
      /\ balanceOf' = BalancesWithFees
      /\ erc20' = erc20 + paid
      /\ currentEpoch \in Epoch
      /\ epochToPrice' = [epochToPrice EXCEPT ![currentEpoch] =
                            IF R > 0 THEN EpochPrice(paid) ELSE @]
  BY DEF Execute
<1>2. /\ S \in Nat \ {0} /\ Tvl \in Nat /\ R \in Nat /\ erc20 \in Nat
      /\ D18 \in Nat \ {0} /\ p \in Nat
  BY <1>1, FeesNat, TvlNat, PartsNat, ScaleAssumption DEF IInv, RequestTypeOK, TokenTypeOK
<1>3. SupplyWithFees = S
  BY <1>1, FeesOfStep DEF SupplyWithFees
<1> HIDE DEF S
<1>4. want = (R * Tvl) \div S /\ want \in Nat /\ want * S <= R * Tvl /\ (want + 1) * S > R * Tvl
  <2>1. want = (R * Tvl) \div S
    BY DEF RequestsWorth, mulDiv
  <2>2. R * Tvl \in Nat
    BY <1>2, TimesNat
  <2> QED BY <1>2, <2>1, <2>2, DivBounds
<1> HIDE DEF want
<1>5. /\ paid \in Nat /\ paid <= want
      /\ Tvl' # 0 => paid = want
  <2>1. Redeemable(s) \in Nat
    BY <1>1 DEF IInv, TokenTypeOK, PullGearbox, Redeemable
  <2>2. gearboxIdle' = Redeemable(s) - paid /\ accountValue' = 0
    BY <1>1 DEF PullGearbox
  <2>3. Tvl' = (Redeemable(s) - paid) + 0
    BY <2>2, Zenon DEF Tvl
  <2> QED BY <1>4, <2>1, <2>3 DEF Pulled, Least
<1> HIDE DEF paid
<1>6. erc20' - erc20 = paid
  BY <1>1, <1>2, <1>5
<1>7. g = (p * price) \div D18
  <2>1. /\ SettledPrimary' = [w \in User |-> SettledPrimary[w] + (Pending[w] * price) \div D18]
        /\ price \in Nat
    BY ExecuteRefines DEF Queue!Execute
  <2>2. SettledPrimary[u] \in Nat
    BY PartsNat
  <2>3. (p * price) \div D18 \in Nat
    BY <1>2, <2>1, MulDivNat DEF mulDiv
  <2>4. SettledPrimary'[u] = SettledPrimary[u] + (p * price) \div D18
    BY <2>1
  <2> HIDE DEF p, price
  <2> QED BY <2>2, <2>3, <2>4
<1>8. p <= R
  BY PartsNat, AccountFinite, TotalNat DEF Books
<1>9. CASE R = 0
  <2>1. p = 0
    BY <1>2, <1>8, <1>9
  <2>2. price \in Nat
    BY ExecuteRefines DEF Queue!Execute
  <2> HIDE DEF price, p
  <2>3. g = 0
    BY <1>2, <1>7, <2>1, <2>2, MulDivZero DEF mulDiv
  <2> HIDE DEF g
  <2>4. IsPart(g, p, Tvl, S)
    <3>1. (0 + 2) * D18 * S + 0 * S > 0 * Tvl * D18
      <4>1. D18 * S \in Nat /\ D18 * S > 0
        BY <1>2, SMT
      <4>2. (0 + 2) * D18 * S = 2 * (D18 * S) /\ 0 * S = 0 /\ 0 * Tvl * D18 = 0
        BY <1>2, SMT
      <4> QED BY <4>1, <4>2
    <3> QED BY <2>1, <2>3, <3>1 DEF IsPart
  <2>5. g * S <= p * Tvl
    BY <1>2, <2>1, <2>3
  <2> QED BY <1>3, <2>4, <2>5 DEF Settles, g, p
<1>10. CASE R # 0
  <2>1. price = (paid * D18) \div R
    BY <1>1, <1>2, <1>10 DEF IInv, EpochTypeOK, EpochPrice, mulDiv
  <2>2. R \in Nat \ {0}
    BY <1>2, <1>10
  <2> HIDE DEF price, p, g, R
  <2>3. /\ g \in Nat /\ g * R <= p * paid
        /\ ((g + 1) * D18 + p) * R > (p * paid) * D18
    BY <1>2, <1>5, <1>7, <2>1, <2>2, PriceRounding
  <2>4. paid * S <= R * Tvl
    <3>1. paid * S <= want * S
      BY <1>2, <1>4, <1>5, TimesNat
    <3>2. paid * S \in Int /\ want * S \in Int /\ R * Tvl \in Int
      BY <1>2, <1>4, <1>5, <2>2, SMT
    <3> QED BY <1>4, <3>1, <3>2
  <2>5. /\ g * S <= p * Tvl
        /\ (paid + 1) * S > R * Tvl => ((g + 2) * D18 + p) * S > (p * Tvl) * D18
    BY <1>2, <1>5, <1>8, <2>2, <2>3, <2>4, ShareOfWorth
  <2>6. CASE Tvl' # 0
    <3>1. ((g + 2) * D18 + p) * S > (p * Tvl) * D18
      BY <1>4, <1>5, <2>5, <2>6
    <3>2. ((g + 2) * D18 + p) * S = (g + 2) * D18 * S + p * S
      BY <1>2, <2>3, SMT
    <3> QED BY <1>3, <2>5, <3>1, <3>2 DEF Settles, IsPart, g, p
  <2>7. CASE Tvl' = 0
    <3>1. ((g + 2) * D18 + p) * R > (p * paid) * D18
      <4>1. ((g + 2) * D18 + p) * R = ((g + 1) * D18 + p) * R + D18 * R
        BY <1>2, <2>2, <2>3, SMT
      <4>2. D18 * R \in Nat /\ ((g + 1) * D18 + p) * R \in Int /\ (p * paid) * D18 \in Int
        BY <1>2, <1>5, <2>2, <2>3, SMT
      <4> QED BY <2>3, <4>1, <4>2
    <3>2. ((g + 2) * D18 + p) * R = (g + 2) * D18 * R + p * R
      BY <1>2, <2>2, <2>3, SMT
    <3> QED BY <1>3, <1>6, <2>5, <2>7, <3>1, <3>2 DEF Settles, IsPart, g, p, R
  <2> QED BY <2>6, <2>7
<1> QED BY <1>9, <1>10

(* No step dilutes: deposits by rounding, other steps not at all.          *)
LEMMA StepIsFair ==
  ASSUME IInv, IInv', ClosedIsWorthless, [Next]_vars
  PROVE  (Supply > 0 /\ Supply' > SupplyWithFees) =>
             (Tvl' + 1) * SupplyWithFees > Tvl * Supply'
<1> DEFINE Fair == (Supply > 0 /\ Supply' > SupplyWithFees) =>
                       (Tvl' + 1) * SupplyWithFees > Tvl * Supply'
<1>1. /\ Amounts \subseteq Nat /\ LpAmounts \subseteq Nat /\ Slippages \subseteq Nat
      /\ totalSupply \in Int /\ totalLpTokensWaiting \in Nat /\ Supply \in Int
  BY ParamAssumption DEF IInv, LedgerTypeOK, RequestTypeOK, Supply
<1>2. ASSUME Supply' = Supply, UNCHANGED feeVars PROVE Fair
  BY <1>1, <1>2, NoFeesElsewhere
<1>3. ASSUME UNCHANGED <<lpVars, feeVars, totalLpTokensWaiting>> PROVE Fair
  <2>1. Supply' = Supply
    BY <1>3 DEF lpVars, Supply
  <2> QED BY <1>2, <1>3, <2>1
<1>4. ASSUME NEW u \in User, UserNext(u) PROVE Fair
  <2>1. ASSUME NEW n \in Amounts, Deposit(u, n) PROVE Fair
    BY <1>1, <2>1, DepositStep
  <2>2. ASSUME NEW n \in LpAmounts, RegisterWithdrawal(u, n) \/ CancelWithdrawal(u, n)
        PROVE  Fair
    BY <1>3, <2>2 DEF RegisterWithdrawal, CancelWithdrawal, claimVars
  <2>3. ASSUME NEW s \in Slippages, Withdraw(u, s) PROVE Fair
    <3>1. /\ totalSupply' = totalSupply - LpClaimed(u)
          /\ totalLpTokensWaiting' = totalLpTokensWaiting - LpClaimed(u)
          /\ UNCHANGED feeVars
      BY <2>3 DEF Withdraw
    <3>2. LpClaimed(u) \in Nat
      BY HangingNat DEF IInv, RequestTypeOK, LpClaimed
    <3>3. Supply' = (totalSupply - LpClaimed(u)) - (totalLpTokensWaiting - LpClaimed(u))
      BY <3>1, Zenon DEF Supply
    <3>4. Supply' = Supply
      BY <1>1, <3>2, <3>3 DEF Supply
    <3> QED BY <1>2, <3>1, <3>4
  <2>4. ASSUME NEW to \in Account, NEW n \in LpAmounts, TransferLp(u, to, n) PROVE Fair
    <3>1. /\ totalSupply' = totalSupply /\ totalLpTokensWaiting' = totalLpTokensWaiting
          /\ UNCHANGED feeVars
      BY <2>4 DEF TransferLp, claimVars
    <3>2. Supply' = Supply
      BY <3>1, Zenon DEF Supply
    <3> QED BY <1>2, <3>1, <3>2
  <2> QED BY <1>4, <2>1, <2>2, <2>3, <2>4 DEF UserNext
<1>5. ASSUME NEW s \in Slippages, InvokeExecution(s) \/ Shutdown(s) PROVE Fair
  BY <1>1, <1>5, ExecuteStep DEF InvokeExecution, Shutdown
<1>6. ASSUME \/ Reopen \/ OpenCreditAccount \/ ReclaimTokens \/ Tick
             \/ \E n \in Amounts : PullFromErc20(n) \/ Donate(n)
             \/ \E n \in Amounts, s \in Slippages : PullFromGearbox(n, s)
             \/ \E v \in AccountValues : MarketMove(v)
      PROVE  Fair
  BY <1>3, <1>6, TokensKept DEF claimVars
<1>7. CASE UNCHANGED vars
  BY <1>3, <1>7 DEF vars, claimVars
<1>8. Fair
  BY <1>4, <1>5, <1>6, <1>7 DEF Next, StrategyNext, EnvironmentNext
<1> QED BY <1>8

(* For every fee, limit, price and history: a deposit costs those who hold *)
(* shares less than one unit of the token between them, fees of the same   *)
(* call aside.                                                             *)
THEOREM DepositsDoNotDilute == Spec => DepositDilutesByLessThanOneUnit
<1>1. IInv /\ IInv' /\ ClosedIsWorthless /\ [Next]_vars =>
          [(Supply > 0 /\ Supply' > SupplyWithFees) =>
              (Tvl' + 1) * SupplyWithFees > Tvl * Supply']_vars
  BY StepIsFair
<1> QED BY <1>1, Invariance, ClosedInv, PTL DEF Spec, DepositDilutesByLessThanOneUnit

(* Epochs end by executions only.                                          *)
LEMMA EpochsEndByExecution ==
  ASSUME [Next]_vars, currentEpoch' # currentEpoch
  PROVE  \E s \in Slippages : Execute(s)
<1>1. ~UNCHANGED epochVars
  BY DEF epochVars
<1>2. Next
  BY <1>1 DEF vars
<1>3. ASSUME NEW u \in User PROVE ~UserNext(u)
  BY <1>1 DEF UserNext, Deposit, RegisterWithdrawal, CancelWithdrawal, Withdraw, TransferLp
<1>4. ~EnvironmentNext
  BY <1>1 DEF EnvironmentNext, ReclaimTokens, Donate, MarketMove, Tick
<1>5. StrategyNext
  BY <1>2, <1>3, <1>4 DEF Next
<1> QED BY <1>1, <1>5 DEF StrategyNext, InvokeExecution, Shutdown, Reopen, OpenCreditAccount,
                          PullFromErc20, PullFromGearbox

(* An execution settles every request of its epoch with its share of the   *)
(* tvl, however much is rounded and whatever fees, prices and requests     *)
(* there were before: never more, which those who stay would pay for, and  *)
(* never less by more than rounding while anything is left to those who    *)
(* stay.                                                                   *)
THEOREM ExecutionsSettleShares == Spec => ExecutionSettlesEveryShare
<1>1. ASSUME IInv, IInv', Books, [Next]_vars, currentEpoch' # currentEpoch, NEW u \in User
      PROVE  Settles(u)
  <2>1. PICK s \in Slippages : Execute(s)
    BY <1>1, EpochsEndByExecution
  <2>2. s \in Nat
    BY ParamAssumption
  <2> QED BY <1>1, <2>1, <2>2, ExecuteSettles
<1>2. IInv /\ IInv' /\ Books /\ [Next]_vars =>
          [currentEpoch' # currentEpoch => \A u \in User : Settles(u)]_vars
  BY <1>1
<1>3. Spec => [][currentEpoch' # currentEpoch => \A u \in User : Settles(u)]_vars
  <2>1. Spec => []Books
    BY InitBooks, StepBooks, Invariance, PTL DEF Spec
  <2> QED BY <1>2, <2>1, Invariance, PTL DEF Spec
<1> QED BY <1>3 DEF ExecutionSettlesEveryShare, Settles

=============================================================================
