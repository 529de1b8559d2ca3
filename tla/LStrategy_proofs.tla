-------------------------- MODULE LStrategy_proofs --------------------------
(***************************************************************************)
(* LStrategy's parts, each under a specification of its own.               *)
(*                                                                         *)
(* Orders (LStrategyOrders, Spec): one at most can be filled at a time,    *)
(* the relayer's allowance covers no more than that order, the strategy is *)
(* never locked out for longer than the longest orderDeadline, and a trade *)
(* goes towards the target at no worse a price than was posted.            *)
(*                                                                         *)
(* Positions (LStrategyPositions, PositionsSpec): the two intervals always *)
(* overlap by half, and both kinds of rebalance move liquidity and capital *)
(* towards their targets, and not past them by more than they must.        *)
(*                                                                         *)
(* The price search of its tasks (PriceSearch, SearchSpec): the amounts it *)
(* swaps stay useful.                                                      *)
(***************************************************************************)
EXTENDS LStrategyOrders, LStrategyPositions, PriceSearch, TLAPS

-----------------------------------------------------------------------------
(* Arithmetic.                                                             *)
LEMMA DivBounds ==
    ASSUME NEW n \in Nat, NEW k \in Nat \ {0}
    PROVE  n \div k \in Nat /\ (n \div k) * k <= n /\ n < (n \div k) * k + k
OBVIOUS

LEMMA TimesKeepsOrder ==
    ASSUME NEW a \in Int, NEW b \in Int, NEW c \in Nat, a <= b
    PROVE  a * c <= b * c
OBVIOUS

LEMMA TimesReflectsOrder ==
    ASSUME NEW a \in Int, NEW b \in Int, NEW c \in Nat \ {0}, a * c <= b * c
    PROVE  a <= b
OBVIOUS

LEMMA QuotientAbove ==
    ASSUME NEW n \in Nat, NEW k \in Nat \ {0}, NEW q \in Int, q * k <= n
    PROVE  q <= n \div k
<1> DEFINE m == n \div k
<1>1. m \in Nat /\ n < m * k + k
  BY DivBounds
<1> HIDE DEF m
<1>2. q * k < (m + 1) * k
  BY <1>1
<1>3. ~(m + 1 <= q)
  BY <1>1, <1>2, TimesKeepsOrder
<1>4. q <= m
  BY <1>1, <1>3
<1> QED
  BY <1>4 DEF m

LEMMA QuotientBelow ==
    ASSUME NEW n \in Nat, NEW k \in Nat \ {0}, NEW q \in Int, n <= q * k
    PROVE  n \div k <= q
<1> DEFINE m == n \div k
<1>1. m \in Nat /\ m * k <= n
  BY DivBounds
<1> HIDE DEF m
<1>2. m * k <= q * k
  BY <1>1
<1>3. m <= q
  BY <1>1, <1>2, TimesReflectsOrder
<1> QED
  BY <1>3 DEF m

-----------------------------------------------------------------------------
(***************************************************************************)
(* Orders.                                                                 *)
(***************************************************************************)

(* Orders that have not expired, presigned or filled, are known to         *)
(* orderDeadline; there is one of them at most, and none while a pre-order *)
(* waits.  An order that expired may outlast orderDeadline, for the next   *)
(* order may lower it.                                                     *)
OrdersInv ==
    /\ now > 0
    /\ \A o \in presigned \cup DOMAIN filled : now <= o.validTo => o.validTo <= orderDeadline
    /\ \A o1, o2 \in presigned : now <= o1.validTo /\ now <= o2.validTo => o1 = o2
    /\ preOrder # NoPreOrder => now > orderDeadline

AllowanceInv ==
    \A o \in presigned : now <= o.validTo =>
        allowance[o.sellToken] + Filled(o) <= o.sellAmount + o.feeAmount

LockInv ==
    /\ orderDeadline <= now + MaxOrderDeadline
    /\ preOrder.deadline <= now + MaxOrderDeadline

OrdersIInv == TypeOK /\ OrdersInv /\ AllowanceInv /\ LockInv

-----------------------------------------------------------------------------
LEMMA QuotientIsNat ==
    ASSUME NEW a \in Nat, NEW b \in Nat \ {0}
    PROVE  a \div b \in Nat
OBVIOUS

LEMMA ProductIsNat ==
    ASSUME NEW a \in Nat, NEW b \in Nat
    PROVE  a * b \in Nat
OBVIOUS

LEMMA DeltaIsNat ==
    ASSUME NEW lower \in Nat, NEW upper \in Nat, NEW targetD \in Nat, NEW dev \in Nat
    PROVE  /\ LiquidityDelta(lower, upper, targetD, dev).delta \in Nat
           /\ LiquidityDelta(lower, upper, targetD, dev).isNegative \in BOOLEAN
<1> DEFINE goal == (targetD * (lower + upper)) \div D
<1>1. goal \in Nat
  <2>1. targetD * (lower + upper) \in Nat
    BY ProductIsNat
  <2> QED
    BY <2>1, QuotientIsNat, ScaleAssumption, DenominatorAssumption
<1> HIDE DEF goal
<1>2. CASE goal > lower
  BY <1>1, <1>2 DEF LiquidityDelta, goal
<1>3. CASE ~(goal > lower)
  BY <1>1, <1>3 DEF LiquidityDelta, goal
<1> QED
  BY <1>2, <1>3

LEMMA FilledIsNat ==
    ASSUME TypeOK, NEW o \in Order
    PROVE  Filled(o) \in 0..o.sellAmount
BY DEF TypeOK, Filled, Order

-----------------------------------------------------------------------------
LEMMA OrdersIInvInit == Init => OrdersIInv
<1> SUFFICES ASSUME Init PROVE OrdersIInv
  OBVIOUS
<1>1. TypeOK
  BY ParamsAssumption, InputAssumption DEF Init, TypeOK, NoPreOrder, Token
<1>2. OrdersInv /\ AllowanceInv
  BY DEF Init, OrdersInv, AllowanceInv, NoPreOrder
<1>3. LockInv
  BY ParamsAssumption DEF Init, LockInv, NoPreOrder
<1> QED
  BY <1>1, <1>2, <1>3 DEF OrdersIInv

LEMMA PostPreOrderKeeps ==
    ASSUME OrdersIInv, NEW m \in MinAmounts, PostPreOrder(m)
    PROVE  OrdersIInv'
<1> USE DEF OrdersIInv
<1> DEFINE value0 == (balance[0] * price) \div Q
           change == LiquidityDelta(value0, balance[1], ratioParams.erc20TokenRatioD,
                                    ratioParams.minErc20TokenRatioDeviationD)
           amount == [t \in Token |-> IF t = 0 THEN (change.delta * Q) \div price
                                      ELSE change.delta]
           tokenIn == IF change.isNegative THEN 1 ELSE 0
           amountOut == AmountOut(amount[1 - tokenIn])
<1>0. /\ balance[0] \in Nat /\ balance[1] \in Nat /\ price \in Nat \ {0}
      /\ ratioParams.erc20TokenRatioD \in Nat
      /\ ratioParams.minErc20TokenRatioDeviationD \in Nat
      /\ tradingParams.maxSlippageD \in 0..D
      /\ tradingParams.orderDeadline \in 0..MaxOrderDeadline
      /\ m \in Nat
  BY ScaleAssumption, DenominatorAssumption, ParamsAssumption, InputAssumption
     DEF TypeOK, Token, RatioParamsType, TradingParamsType
<1>1. value0 \in Nat
  BY <1>0, ProductIsNat, QuotientIsNat, ScaleAssumption, DenominatorAssumption
<1>2. change.delta \in Nat /\ change.isNegative \in BOOLEAN
  <2> HIDE DEF value0
  <2> QED
    BY <1>0, <1>1, DeltaIsNat
<1> HIDE DEF change
<1>3. amount \in [Token -> Nat]
  <2>1. change.delta * Q \in Nat
    BY <1>2, ProductIsNat, ScaleAssumption, DenominatorAssumption
  <2>2. (change.delta * Q) \div price \in Nat
    BY <2>1, <1>0, QuotientIsNat
  <2> QED
    BY <2>2, <1>2
<1>4. tokenIn \in Token /\ 1 - tokenIn \in Token
  BY DEF Token
<1> HIDE DEF amount, tokenIn
<1>5. amountOut \in Nat
  <2>1. amount[1 - tokenIn] \in Nat /\ D - tradingParams.maxSlippageD \in Nat
    BY <1>0, <1>3, <1>4, ScaleAssumption, DenominatorAssumption
  <2>2. amount[1 - tokenIn] * (D - tradingParams.maxSlippageD) \in Nat
    BY <2>1, ProductIsNat
  <2> QED
    BY <2>2, QuotientIsNat, ScaleAssumption, DenominatorAssumption DEF AmountOut
<1> HIDE DEF amountOut
<1>6. /\ now > orderDeadline
      /\ preOrder' = [tokenIn |-> tokenIn, tokenOut |-> 1 - tokenIn,
                      deadline |-> now + tradingParams.orderDeadline,
                      amountIn |-> amount[tokenIn],
                      minAmountOut |-> IF amountOut > m THEN amountOut ELSE m]
      /\ UNCHANGED <<orderDeadline, paramVars, vaultVars, cowVars, price, now>>
  BY DEF PostPreOrder, OrderExpired, value0, change, amount, tokenIn, amountOut
<1>7. TypeOK'
  <2>1. preOrder' \in [tokenIn : Token, tokenOut : Token, deadline : Nat,
                       amountIn : Nat, minAmountOut : Nat]
    BY <1>0, <1>3, <1>4, <1>5, <1>6 DEF TypeOK
  <2> QED
    BY <1>6, <2>1 DEF TypeOK, paramVars, vaultVars, cowVars
<1>8. OrdersInv' /\ AllowanceInv'
  BY <1>6 DEF OrdersInv, AllowanceInv, Filled, vaultVars, cowVars
<1>9. LockInv'
  BY <1>0, <1>6, ParamsAssumption DEF LockInv, TypeOK
<1> QED
  BY <1>7, <1>8, <1>9

LEMMA SignOrderKeeps ==
    ASSUME OrdersIInv, NEW o \in Candidate, SignOrder(o)
    PROVE  OrdersIInv'
<1> USE DEF OrdersIInv
<1>0. o \in Order
  <2>1. \A t \in Time : t \in Nat
    BY BoundAssumption, ParamsAssumption DEF Time
  <2> QED
    BY <2>1, InputAssumption DEF Candidate, Order, TypeOK
<1>1. preOrder.deadline >= now /\ o.validTo <= preOrder.deadline
  BY DEF SignOrder, CheckOrder
<1>2. now > orderDeadline
  BY <1>1 DEF OrdersInv, NoPreOrder, TypeOK
<1>3. \A p \in presigned \cup DOMAIN filled : ~(now <= p.validTo)
  BY <1>2, <1>0 DEF OrdersInv, TypeOK, Order
<1>4. TypeOK'
  <2>1. OrderAllowance(o) \in Nat
    BY <1>0 DEF OrderAllowance, Order
  <2> QED
    BY <1>0, <2>1 DEF SignOrder, TypeOK, NoPreOrder, Token, Order, paramVars
<1>5. OrdersInv'
  <2>1. \A p \in presigned' \cup DOMAIN filled' : now <= p.validTo => p = o
    BY <1>3 DEF SignOrder
  <2>2. orderDeadline' = o.validTo /\ now' = now /\ preOrder' = NoPreOrder
    BY DEF SignOrder
  <2> QED
    BY <1>0, <2>1, <2>2 DEF OrdersInv, Order
<1>6. AllowanceInv'
  <2>1. \A p \in presigned' : now' <= p.validTo => p = o /\ Filled(o)' = 0
    BY <1>3 DEF SignOrder, Filled
  <2>2. allowance'[o.sellToken] = o.sellAmount + o.feeAmount
    BY <1>0 DEF SignOrder, OrderAllowance, TypeOK, Order
  <2> QED
    BY <2>1, <2>2, <1>0 DEF AllowanceInv, Order
<1>7. LockInv'
  BY <1>0, <1>1, ParamsAssumption DEF SignOrder, LockInv, NoPreOrder, TypeOK, Order
<1> QED
  BY <1>4, <1>5, <1>6, <1>7

LEMMA SettleKeeps ==
    ASSUME OrdersIInv, NEW o \in presigned, NEW sold \in Int, NEW surplus \in MinAmounts,
           Settle(o, sold, surplus)
    PROVE  OrdersIInv'
<1> USE DEF OrdersIInv
<1> DEFINE fee == (o.feeAmount * sold) \div o.sellAmount
           taken == sold + fee
           bought == CeilDiv(sold * o.buyAmount, o.sellAmount) + surplus
<1>0. o \in Order /\ now <= o.validTo /\ surplus \in Nat /\ now \in Nat
  BY InputAssumption DEF Settle, Live, TypeOK
<1>1. Filled(o) \in 0..o.sellAmount
  BY <1>0, FilledIsNat
<1>2. sold \in Nat /\ sold >= 1 /\ sold + Filled(o) <= o.sellAmount /\ o.sellAmount \in Nat \ {0}
  BY <1>0, <1>1 DEF Settle, Order
<1>3. fee \in Nat
  <2>1. o.feeAmount * sold \in Nat
    BY <1>0, <1>2, ProductIsNat DEF Order
  <2> QED
    BY <2>1, <1>2, QuotientIsNat
<1>4. bought \in Nat
  <2>1. sold * o.buyAmount \in Nat
    BY <1>0, <1>2, ProductIsNat DEF Order
  <2>2. sold * o.buyAmount + o.sellAmount - 1 \in Nat
    BY <2>1, <1>2
  <2>3. CeilDiv(sold * o.buyAmount, o.sellAmount) \in Nat
    BY <2>2, <1>2, QuotientIsNat DEF CeilDiv
  <2> QED
    BY <2>3, <1>0
<1> HIDE DEF fee, bought
<1>5. /\ taken <= allowance[o.sellToken] /\ taken <= balance[o.sellToken]
      /\ filled' = [p \in DOMAIN filled \cup {o} |->
                       IF p = o THEN Filled(o) + sold ELSE filled[p]]
      /\ allowance' = [allowance EXCEPT ![o.sellToken] = @ - taken]
      /\ balance' = [t \in Token |->
                        IF t = o.sellToken THEN balance[t] - taken
                        ELSE IF o.receiver = ERC20Vault THEN balance[t] + bought
                        ELSE balance[t]]
      /\ UNCHANGED <<strategyVars, paramVars, presigned, price, now>>
  BY DEF Settle, fee, bought
<1> HIDE DEF Settle
<1>6. allowance'[o.sellToken] = allowance[o.sellToken] - taken /\ taken \in Nat
      /\ allowance[o.sellToken] \in Nat /\ o.sellToken \in Token
  BY <1>0, <1>2, <1>3, <1>5 DEF TypeOK, Order
<1>7. TypeOK'
  <2>1. balance' \in [Token -> Nat]
    BY <1>4, <1>5, <1>6 DEF TypeOK
  <2>2. allowance' \in [Token -> Nat]
    BY <1>5, <1>6 DEF TypeOK
  <2>3. \A p \in DOMAIN filled' : p \in Order /\ filled'[p] \in 0..p.sellAmount
    BY <1>0, <1>1, <1>2, <1>5 DEF TypeOK
  <2> QED
    BY <2>1, <2>2, <2>3, <1>5 DEF TypeOK, strategyVars, paramVars
<1>8. OrdersInv'
  BY <1>0, <1>5 DEF OrdersInv, strategyVars
<1>9. AllowanceInv'
  <2>1. \A p \in presigned' : now' <= p.validTo => p = o
    BY <1>0, <1>5 DEF OrdersInv
  <2>2. Filled(o)' = Filled(o) + sold
    BY <1>5 DEF Filled
  <2>3. allowance[o.sellToken] + Filled(o) <= o.sellAmount + o.feeAmount
    BY <1>0 DEF AllowanceInv
  <2>4. taken >= sold
    BY <1>2, <1>3
  <2> HIDE DEF taken
  <2>5. allowance'[o.sellToken] + Filled(o)' <= o.sellAmount + o.feeAmount
    BY <1>0, <1>1, <1>2, <1>6, <2>2, <2>3, <2>4 DEF Order
  <2> QED
    BY <2>1, <2>5 DEF AllowanceInv
<1>10. LockInv'
  BY <1>5 DEF LockInv, strategyVars
<1> QED
  BY <1>7, <1>8, <1>9, <1>10

(* Everything else leaves orders alone, takes back what they may use, or   *)
(* lets time pass.                                                         *)
LEMMA NextKeeps == OrdersIInv /\ [Next]_vars => OrdersIInv'
<1> SUFFICES ASSUME OrdersIInv, [Next]_vars PROVE OrdersIInv'
  OBVIOUS
<1> USE DEF OrdersIInv
<1>1. CASE \E m \in MinAmounts : PostPreOrder(m)
  BY <1>1, PostPreOrderKeeps
<1>2. CASE \E o \in Candidate : SignOrder(o)
  BY <1>2, SignOrderKeeps
<1>3. ASSUME NEW o \in presigned, UnsignOrder(o) PROVE OrdersIInv'
  BY <1>3 DEF UnsignOrder, TypeOK, OrdersInv, AllowanceInv, LockInv, Filled,
     strategyVars, paramVars, vaultVars
<1>4. ASSUME NEW t \in Token, ResetCowswapAllowance(t) PROVE OrdersIInv'
  <2> USE <1>4 DEF ResetCowswapAllowance, strategyVars, paramVars, cowVars
  <2>1. allowance' \in [Token -> Nat]
        /\ \A u \in Token : allowance'[u] <= allowance[u] /\ allowance[u] \in Nat
    BY DEF TypeOK
  <2>2. TypeOK' /\ OrdersInv' /\ LockInv'
    BY <2>1 DEF TypeOK, OrdersInv, LockInv
  <2>3. AllowanceInv'
    <3> SUFFICES ASSUME NEW o \in presigned, now <= o.validTo
                 PROVE  allowance'[o.sellToken] + Filled(o) <= o.sellAmount + o.feeAmount
      BY DEF AllowanceInv, Filled
    <3>1. o \in Order /\ Filled(o) \in Nat
      BY FilledIsNat DEF TypeOK, Order
    <3> QED
      BY <2>1, <3>1 DEF AllowanceInv, Order
  <2> QED
    BY <2>2, <2>3
<1>5. ASSUME NEW p \in TradingParams, UpdateTradingParams(p) PROVE OrdersIInv'
  BY <1>5 DEF UpdateTradingParams, TypeOK, OrdersInv, AllowanceInv, LockInv, Filled,
     strategyVars, vaultVars, cowVars
<1>6. ASSUME NEW p \in RatioParams, UpdateRatioParams(p) PROVE OrdersIInv'
  BY <1>6 DEF UpdateRatioParams, TypeOK, OrdersInv, AllowanceInv, LockInv, Filled,
     strategyVars, vaultVars, cowVars
<1>7. ASSUME NEW o \in presigned, NEW sold \in Amounts \cup {o.sellAmount - Filled(o)},
             NEW surplus \in MinAmounts, Settle(o, sold, surplus)
      PROVE  OrdersIInv'
  <2>1. o \in Order /\ Filled(o) \in Nat
    BY FilledIsNat DEF TypeOK, Order
  <2>2. sold \in Int
    BY <2>1, InputAssumption DEF Order
  <2> QED
    BY <1>7, <2>2, SettleKeeps
<1>8. ASSUME NEW t \in Token, NEW b \in Balances, MoveTokens(t, b) PROVE OrdersIInv'
  BY <1>8, InputAssumption DEF MoveTokens, TypeOK, OrdersInv, AllowanceInv, LockInv,
     Filled, strategyVars, paramVars, cowVars
<1>9. ASSUME NEW p \in Prices, OracleMove(p) PROVE OrdersIInv'
  BY <1>9 DEF OracleMove, TypeOK, OrdersInv, AllowanceInv, LockInv, Filled,
     strategyVars, paramVars, vaultVars, cowVars
<1>10. CASE Tick
  <2> USE <1>10 DEF Tick, strategyVars, paramVars, vaultVars, cowVars
  <2>1. TypeOK'
    BY DEF TypeOK
  <2>2. \A o \in presigned \cup DOMAIN filled : o.validTo \in Nat /\ now \in Nat
    BY DEF TypeOK, Order
  <2>3. OrdersInv' /\ AllowanceInv'
    BY <2>2 DEF OrdersInv, AllowanceInv, Filled, TypeOK
  <2>4. LockInv'
    BY ParamsAssumption DEF LockInv, TypeOK
  <2> QED
    BY <2>1, <2>3, <2>4
<1>11. CASE UNCHANGED vars
  BY <1>11 DEF vars, TypeOK, OrdersInv, AllowanceInv, LockInv, Filled,
     strategyVars, paramVars, vaultVars, cowVars
<1> QED
  BY <1>1, <1>2, <1>3, <1>4, <1>5, <1>6, <1>7, <1>8, <1>9, <1>10, <1>11 DEF Next

(* Orders, deadlines and allowances stay in step under every schedule of   *)
(* operators, solvers and other uses of the vault.                         *)
THEOREM OrdersIInvAlways == Spec => []OrdersIInv
BY OrdersIInvInit, NextKeeps, PTL DEF Spec

(* At most one order can be filled at any time, none while a pre-order     *)
(* waits.                                                                  *)
THEOREM OnlyOneOrder == Spec => []OneLiveOrder
<1>1. OrdersIInv => OneLiveOrder
  BY DEF OrdersIInv, OrdersInv, OneLiveOrder, Live, TypeOK, Order
<1> QED
  BY <1>1, OrdersIInvAlways, PTL

(* The relayer can take no more for an order than its amount and fee.      *)
THEOREM RelayerTakesOneOrder == Spec => []RelayerWithinOrder
<1>1. OrdersIInv => RelayerWithinOrder
  BY DEF OrdersIInv, AllowanceInv, RelayerWithinOrder, Live
<1> QED
  BY <1>1, OrdersIInvAlways, PTL

(* The strategy can post again after the longest orderDeadline.            *)
THEOREM LockEnds == Spec => []LockIsBounded
<1>1. OrdersIInv => LockIsBounded
  BY DEF OrdersIInv, LockInv, LockIsBounded
<1> QED
  BY <1>1, OrdersIInvAlways, PTL

-----------------------------------------------------------------------------
(* Pre-orders.                                                             *)

(* Rounding down the target leaves it less than one unit away.             *)
LEMMA TargetIsShare ==
    ASSUME NEW total \in Nat, NEW ratioD \in 0..D
    PROVE  LET goal == (ratioD * total) \div D
           IN  /\ goal \in Nat /\ goal <= total
               /\ goal * D <= ratioD * total /\ ratioD * total < goal * D + D
<1>1. ratioD * total \in Nat
  BY DenominatorAssumption, ProductIsNat
<1>2. ratioD * total <= D * total
  BY DenominatorAssumption, TimesKeepsOrder
<1>3. ratioD * total <= total * D
  BY <1>2, DenominatorAssumption
<1> QED BY <1>1, <1>3, DivBounds, QuotientBelow, DenominatorAssumption

(* Of token 0 what is worth `delta` is sold, up to the price of a unit and *)
(* one, and never more than there is.                                      *)
LEMMA SoldOfToken0 ==
    ASSUME NEW b \in Nat, NEW p \in Nat \ {0}, NEW delta \in Nat, delta <= (b * p) \div Q
    PROVE  LET x == (delta * Q) \div p
               sold == (x * p) \div Q
           IN  /\ x \in Nat /\ x <= b /\ x * p <= delta * Q
               /\ sold \in Nat /\ sold <= delta /\ delta <= sold + p \div Q + 1
<1> DEFINE x == (delta * Q) \div p
           sold == (x * p) \div Q
           v == (b * p) \div Q
           u == p \div Q
<1>0. Q \in Nat \ {0} /\ delta * Q \in Nat /\ b * p \in Nat
  BY ScaleAssumption, ProductIsNat
<1>1. x \in Nat /\ x * p <= delta * Q /\ delta * Q < x * p + p
  BY <1>0, DivBounds
<1>2. v \in Nat /\ v * Q <= b * p /\ delta <= v
  BY <1>0, DivBounds
<1>3. u \in Nat /\ p < u * Q + Q
  BY <1>0, DivBounds
<1> HIDE DEF x, v, u
<1>4. x * p \in Nat
  BY <1>1, ProductIsNat
<1>5. sold \in Nat /\ sold * Q <= x * p /\ x * p < sold * Q + Q
  BY <1>0, <1>4, DivBounds
<1> HIDE DEF sold
<1>6. x <= b
  <2>1. delta * Q <= v * Q
    BY <1>0, <1>2, TimesKeepsOrder
  <2>2. x * p <= b * p
    BY <1>0, <1>1, <1>2, <1>4, <2>1
  <2> QED BY <1>1, <2>2, TimesReflectsOrder
<1>7. sold <= delta
  <2>1. sold * Q <= delta * Q
    BY <1>0, <1>1, <1>4, <1>5
  <2> QED BY <1>0, <1>5, <2>1, TimesReflectsOrder
<1>8. delta <= sold + u + 1
  <2>1. delta * Q < (sold + u + 2) * Q
    <3>1. (sold + u + 2) * Q = sold * Q + Q + (u * Q + Q)
      BY <1>0, <1>3, <1>5
    <3>2. sold * Q \in Nat /\ u * Q \in Nat
      BY <1>0, <1>3, <1>5, ProductIsNat
    <3> QED BY <1>0, <1>1, <1>3, <1>4, <1>5, <3>1, <3>2
  <2>2. ~(sold + u + 2 <= delta)
    <3>1. sold + u + 2 <= delta => (sold + u + 2) * Q <= delta * Q
      BY <1>0, <1>3, <1>5, TimesKeepsOrder
    <3>2. (sold + u + 2) * Q \in Nat
      BY <1>0, <1>3, <1>5, ProductIsNat
    <3> QED BY <1>0, <2>1, <3>1, <3>2
  <2> QED BY <1>3, <1>5, <2>2
<1> QED BY <1>1, <1>5, <1>6, <1>7, <1>8 DEF x, v, u, sold

(* What PostPreOrder computes, case by case: nothing; token 0 sold, as     *)
(* there is more of it than its target; or token 1.                        *)
LEMMA PreOrderCases ==
    ASSUME OrdersIInv, NEW m \in MinAmounts, PostPreOrder(m)
    PROVE  \E value0, goal, delta, out \in Nat :
             LET p == preOrder'
                 total == value0 + balance[1]
                 keepD == D - tradingParams.maxSlippageD
             IN  /\ value0 = (balance[0] * price) \div Q
                 /\ goal = (ratioParams.erc20TokenRatioD * total) \div D
                 /\ out <= p.minAmountOut /\ p.minAmountOut \in Nat
                 /\ \/ /\ delta = 0 \/ (goal <= value0 /\ delta = value0 - goal)
                       /\ p.tokenIn = 0 /\ p.tokenOut = 1
                       /\ p.amountIn = (delta * Q) \div price
                       /\ out = (delta * keepD) \div D
                    \/ /\ goal > value0 /\ delta = goal - value0
                       /\ p.tokenIn = 1 /\ p.tokenOut = 0
                       /\ p.amountIn = delta
                       /\ out = (((delta * Q) \div price) * keepD) \div D
<1> USE DEF OrdersIInv
<1> DEFINE value0 == (balance[0] * price) \div Q
           goal == (ratioParams.erc20TokenRatioD * (value0 + balance[1])) \div D
           change == LiquidityDelta(value0, balance[1], ratioParams.erc20TokenRatioD,
                                    ratioParams.minErc20TokenRatioDeviationD)
           amount == [t \in Token |-> IF t = 0 THEN (change.delta * Q) \div price
                                      ELSE change.delta]
           tokenIn == IF change.isNegative THEN 1 ELSE 0
           amountOut == AmountOut(amount[1 - tokenIn])
<1>0. /\ balance[0] \in Nat /\ balance[1] \in Nat /\ price \in Nat \ {0}
      /\ ratioParams.erc20TokenRatioD \in 0..D
      /\ ratioParams.minErc20TokenRatioDeviationD \in Nat
      /\ tradingParams.maxSlippageD \in 0..D /\ D \in Nat \ {0} /\ Q \in Nat \ {0}
      /\ m \in Nat
  BY ScaleAssumption, DenominatorAssumption, ParamsAssumption, InputAssumption
     DEF TypeOK, Token, RatioParamsType, TradingParamsType
<1>1. value0 \in Nat
  BY <1>0, ProductIsNat, QuotientIsNat
<1>2. goal \in Nat
  <2> HIDE DEF value0
  <2>1. value0 + balance[1] \in Nat
    BY <1>0, <1>1
  <2> QED BY <1>0, <2>1, TargetIsShare
<1>3. \/ change = [delta |-> 0, isNegative |-> FALSE]
      \/ goal > value0 /\ change = [delta |-> goal - value0, isNegative |-> TRUE]
      \/ ~(goal > value0) /\ change = [delta |-> value0 - goal, isNegative |-> FALSE]
  <2> HIDE DEF value0
  <2> QED BY DEF LiquidityDelta
<1> HIDE DEF change
<1>4. preOrder' = [tokenIn |-> tokenIn, tokenOut |-> 1 - tokenIn,
                      deadline |-> now + tradingParams.orderDeadline,
                      amountIn |-> amount[tokenIn],
                      minAmountOut |-> IF amountOut > m THEN amountOut ELSE m]
  BY DEF PostPreOrder, value0, change, amount, tokenIn, amountOut
<1> HIDE DEF value0, goal
<1> DEFINE delta == change.delta
           keepD == D - tradingParams.maxSlippageD
<1>5. delta \in Nat /\ keepD \in Nat
  BY <1>0, <1>1, <1>2, <1>3
<1>6. delta * keepD \in Nat /\ (delta * keepD) \div D \in Nat /\ delta * Q \in Nat
      /\ (delta * Q) \div price \in Nat
  <2> HIDE DEF delta, keepD
  <2> QED BY <1>0, <1>5, ProductIsNat, QuotientIsNat
<1>7. (((delta * Q) \div price) * keepD) \div D \in Nat
  <2> DEFINE a == (delta * Q) \div price
  <2> HIDE DEF delta, keepD
  <2>1. a \in Nat
    BY <1>6
  <2> HIDE DEF a
  <2>2. (a * keepD) \div D \in Nat
    BY <1>0, <1>5, <2>1, ProductIsNat, QuotientIsNat
  <2> QED BY <2>2 DEF a
<1>8. CASE change.isNegative
  <2>1. goal > value0 /\ delta = goal - value0
    BY <1>3, <1>8
  <2>2. tokenIn = 1 /\ amount[0] = (delta * Q) \div price /\ amount[1] = delta
    BY <1>8 DEF Token
  <2> DEFINE out == (((delta * Q) \div price) * keepD) \div D
  <2>3. amountOut = out
    BY <2>2 DEF AmountOut
  <2> HIDE DEF tokenIn, amount, amountOut, delta, keepD, out
  <2>4. /\ preOrder'.tokenIn = 1 /\ preOrder'.tokenOut = 0 /\ preOrder'.amountIn = delta
        /\ preOrder'.minAmountOut \in Nat /\ out <= preOrder'.minAmountOut /\ out \in Nat
    BY <1>0, <1>4, <1>7, <2>2, <2>3 DEF out
  <2> QED BY <1>1, <1>2, <1>5, <2>1, <2>4 DEF out, value0, goal, keepD
<1>9. CASE ~change.isNegative
  <2>1. delta = 0 \/ (goal <= value0 /\ delta = value0 - goal)
    <3>1. CASE change = [delta |-> 0, isNegative |-> FALSE]
      BY <3>1
    <3>2. CASE ~(goal > value0) /\ change = [delta |-> value0 - goal, isNegative |-> FALSE]
      BY <1>1, <1>2, <3>2
    <3> QED BY <1>3, <1>9, <3>1, <3>2
  <2>2. tokenIn = 0 /\ amount[0] = (delta * Q) \div price /\ amount[1] = delta
    BY <1>9 DEF Token
  <2> DEFINE out == (delta * keepD) \div D
  <2>3. amountOut = out
    BY <2>2 DEF AmountOut
  <2> HIDE DEF tokenIn, amount, amountOut, delta, keepD, out
  <2>4. /\ preOrder'.tokenIn = 0 /\ preOrder'.tokenOut = 1
        /\ preOrder'.amountIn = (delta * Q) \div price
        /\ preOrder'.minAmountOut \in Nat /\ out <= preOrder'.minAmountOut /\ out \in Nat
    BY <1>0, <1>4, <1>6, <2>2, <2>3 DEF out
  <2> QED BY <1>1, <1>2, <1>5, <2>1, <2>4 DEF out, value0, goal, keepD
<1> QED BY <1>8, <1>9

(* A pre-order is within the vault's means and meets the target.           *)
LEMMA PreOrderFits ==
    ASSUME OrdersIInv, NEW m \in MinAmounts, PostPreOrder(m)
    PROVE  LET p == preOrder'
               value0 == (balance[0] * price) \div Q
               sold0 == IF p.tokenIn = 0 THEN (p.amountIn * price) \div Q ELSE -p.amountIn
               excess == (value0 - sold0) * D
                            - ratioParams.erc20TokenRatioD * (value0 + balance[1])
               rounding == D * (2 + price \div Q)
           IN  p.amountIn > 0 =>
                   /\ p.amountIn <= balance[p.tokenIn]
                   /\ excess \in -rounding..rounding
<1>0. /\ balance[0] \in Nat /\ balance[1] \in Nat /\ price \in Nat \ {0}
      /\ ratioParams.erc20TokenRatioD \in 0..D /\ D \in Nat \ {0} /\ Q \in Nat \ {0}
  BY ScaleAssumption, DenominatorAssumption, ParamsAssumption, InputAssumption
     DEF OrdersIInv, TypeOK, Token, RatioParamsType
<1> PICK value0, goal, delta, out \in Nat :
             LET p == preOrder'
                 total == value0 + balance[1]
                 keepD == D - tradingParams.maxSlippageD
             IN  /\ value0 = (balance[0] * price) \div Q
                 /\ goal = (ratioParams.erc20TokenRatioD * total) \div D
                 /\ out <= p.minAmountOut /\ p.minAmountOut \in Nat
                 /\ \/ /\ delta = 0 \/ (goal <= value0 /\ delta = value0 - goal)
                       /\ p.tokenIn = 0 /\ p.tokenOut = 1
                       /\ p.amountIn = (delta * Q) \div price
                       /\ out = (delta * keepD) \div D
                    \/ /\ goal > value0 /\ delta = goal - value0
                       /\ p.tokenIn = 1 /\ p.tokenOut = 0
                       /\ p.amountIn = delta
                       /\ out = (((delta * Q) \div price) * keepD) \div D
  BY PreOrderCases
<1> DEFINE r == ratioParams.erc20TokenRatioD
           total == value0 + balance[1]
           u == price \div Q
           x == preOrder'.amountIn
           rounding == D * (2 + u)
           excess(sold0) == (value0 - sold0) * D - r * total
<1>1. total \in Nat /\ u \in Nat /\ rounding = 2 * D + u * D /\ u * D \in Nat
  <2>1. u \in Nat
    BY <1>0, QuotientIsNat
  <2> HIDE DEF u
  <2> QED BY <1>0, <2>1, ProductIsNat
<1>2. goal * D <= r * total /\ r * total < goal * D + D /\ goal <= total
      /\ r * total \in Nat
  <2>1. goal = (r * total) \div D /\ r \in 0..D /\ r \in Nat
    BY <1>0
  <2> HIDE DEF total, r
  <2>2. r * total \in Nat
    BY <1>1, <2>1, ProductIsNat
  <2> QED BY <1>0, <1>1, <2>1, <2>2, TargetIsShare
<1> SUFFICES ASSUME x > 0
             PROVE  /\ x <= balance[preOrder'.tokenIn]
                    /\ excess(IF preOrder'.tokenIn = 0 THEN (x * price) \div Q ELSE -x)
                         \in -rounding..rounding
  OBVIOUS
<1>3. CASE preOrder'.tokenIn = 0
  <2>1. x = (delta * Q) \div price
    BY <1>3
  <2>2. delta # 0
    BY <1>0, <2>1
  <2>3. goal <= value0 /\ delta = value0 - goal
    BY <1>3, <2>2
  <2> DEFINE sold0 == (x * price) \div Q
  <2>4. x <= balance[0] /\ sold0 \in Nat /\ sold0 <= delta /\ delta <= sold0 + u + 1
    <3>1. delta <= (balance[0] * price) \div Q
      BY <2>3
    <3>2. sold0 = (x * price) \div Q
      OBVIOUS
    <3> HIDE DEF x, sold0
    <3> QED BY <1>0, <2>1, <3>1, <3>2, SoldOfToken0
  <2> HIDE DEF x, u, sold0, total, rounding
  <2>5. goal <= value0 - sold0 /\ value0 - sold0 <= goal + u + 1
    BY <1>1, <2>3, <2>4
  <2>6. goal * D <= (value0 - sold0) * D
    BY <1>0, <2>4, <2>5, TimesKeepsOrder
  <2>7. (value0 - sold0) * D <= goal * D + u * D + D
    <3>1. (value0 - sold0) * D <= (goal + u + 1) * D
      BY <1>0, <1>1, <2>4, <2>5, TimesKeepsOrder
    <3>2. (goal + u + 1) * D = goal * D + u * D + D
      BY <1>0, <1>1
    <3> QED BY <3>1, <3>2
  <2>8. (value0 - sold0) * D \in Int /\ goal * D \in Int /\ r * total \in Int
    BY <1>0, <1>1, <2>4
  <2>9. excess(sold0) \in -rounding..rounding
    <3> DEFINE e == (value0 - sold0) * D
               td == goal * D
               rt == r * total
               ud == u * D
    <3>1. /\ e \in Int /\ td \in Int /\ rt \in Int /\ ud \in Nat /\ D \in Nat
          /\ td <= e /\ e <= td + ud + D /\ td <= rt /\ rt < td + D /\ rounding = 2 * D + ud
      BY <1>0, <1>1, <1>2, <2>6, <2>7, <2>8
    <3> HIDE DEF e, td, rt, ud
    <3>2. e - rt \in -rounding..rounding
      BY <3>1
    <3> QED BY <3>2 DEF e, rt
  <2> QED BY <1>3, <2>4, <2>9 DEF sold0, x
<1>4. CASE preOrder'.tokenIn # 0
  <2>1. x = delta /\ preOrder'.tokenIn = 1 /\ delta = goal - value0
    BY <1>4
  <2>2. x <= balance[1]
    BY <1>0, <1>2, <2>1
  <2>3. value0 - (-x) = goal
    BY <2>1
  <2>4. excess(-x) \in -rounding..rounding
    <3> DEFINE td == goal * D
               rt == r * total
               ud == u * D
    <3>1. /\ td \in Int /\ rt \in Int /\ ud \in Nat /\ D \in Nat
          /\ td <= rt /\ rt < td + D /\ rounding = 2 * D + ud
      BY <1>0, <1>1, <1>2
    <3>2. excess(-x) = td - rt
      BY <2>3
    <3> HIDE DEF td, rt, ud, excess, rounding
    <3> QED BY <3>1, <3>2
  <2> QED BY <1>4, <2>1, <2>2, <2>4
<1> QED BY <1>3, <1>4

-----------------------------------------------------------------------------
(* The price of trades.                                                    *)

(* A unit of token t is worth Num / Den of the other one at the price of   *)
(* `tm`; an order that sells x of it for m is priced if m and two units    *)
(* are worth x, less the slippage.                                         *)
Num(t, tm) == IF t = 0 THEN tm.price ELSE Q
Den(t, tm) == IF t = 0 THEN Q ELSE tm.price
Priced(t, x, m, tm) == x * Num(t, tm) * (D - tm.maxSlippageD) <= (m + 2) * D * Den(t, tm)
TermsOK(tm) == tm.price \in Nat \ {0} /\ tm.maxSlippageD \in 0..D

(* preTerms are those of the pre-order, terms those of the one order that  *)
(* may still be filled.                                                    *)
PricesInv ==
    /\ TermsOK(preTerms) /\ TermsOK(terms)
    /\ preOrder # NoPreOrder =>
           /\ preOrder.tokenOut = 1 - preOrder.tokenIn
           /\ Priced(preOrder.tokenIn, preOrder.amountIn, preOrder.minAmountOut, preTerms)
    /\ \A o \in presigned : now <= o.validTo =>
           /\ o.buyToken = 1 - o.sellToken /\ o.receiver = ERC20Vault
           /\ Priced(o.sellToken, o.sellAmount, o.buyAmount, terms)

LEMMA TermsAreNumbers ==
    ASSUME NEW tm, TermsOK(tm), NEW t
    PROVE  Num(t, tm) \in Nat \ {0} /\ Den(t, tm) \in Nat \ {0} /\ D - tm.maxSlippageD \in 0..D
BY ScaleAssumption, DenominatorAssumption DEF TermsOK, Num, Den

(* An order that asks for more stays priced.                               *)
LEMMA MoreIsPriced ==
    ASSUME NEW tm, TermsOK(tm), NEW t, NEW x \in Nat, NEW m \in Nat, NEW n \in Nat, m <= n,
           Priced(t, x, m, tm)
    PROVE  Priced(t, x, n, tm)
<1> DEFINE den == Den(t, tm)
           k == D * den
<1>1. den \in Nat /\ D \in Nat /\ k \in Nat
  BY TermsAreNumbers, DenominatorAssumption, ProductIsNat
<1>2. (m + 2) * k <= (n + 2) * k
  <2> HIDE DEF k
  <2> QED BY <1>1, TimesKeepsOrder
<1> HIDE DEF den
<1>3. (m + 2) * D * den = (m + 2) * k /\ (n + 2) * D * den = (n + 2) * k
  BY <1>1
<1> DEFINE e == D - tm.maxSlippageD
           w == x * Num(t, tm) * e
<1>4. w \in Nat
  <2>1. Num(t, tm) \in Nat /\ e \in Nat
    BY TermsAreNumbers
  <2> HIDE DEF e
  <2> QED BY <2>1, ProductIsNat
<1>5. w <= (m + 2) * k
  BY <1>3 DEF Priced, den
<1> HIDE DEF w
<1>6. (m + 2) * k \in Nat /\ (n + 2) * k \in Nat
  <2> HIDE DEF k
  <2> QED BY <1>1, ProductIsNat
<1>7. w <= (n + 2) * k
  <2> HIDE DEF k
  <2> QED BY <1>2, <1>4, <1>5, <1>6
<1> QED BY <1>3, <1>7 DEF Priced, den, w

(* The least amount is priced when token 0 is sold for what `delta` of     *)
(* token 1 is after slippage ...                                           *)
LEMMA SellingToken0 ==
    ASSUME NEW p \in Nat \ {0}, NEW e \in 0..D, NEW delta \in Nat,
           NEW x \in Nat, x * p <= delta * Q,
           NEW m \in Nat, (delta * e) \div D <= m
    PROVE  x * p * e <= (m + 2) * D * Q
<1>0. D \in Nat \ {0} /\ Q \in Nat \ {0} /\ e \in Nat /\ delta * e \in Nat
      /\ delta * Q \in Nat /\ x * p \in Nat
  BY ScaleAssumption, DenominatorAssumption, ProductIsNat
<1> DEFINE a == (delta * e) \div D
<1>1. a \in Nat /\ delta * e < a * D + D
  BY <1>0, DivBounds
<1> HIDE DEF a
<1>2. a <= m
  BY DEF a
<1>3. delta * e <= (m + 2) * D
  <2>1. a * D <= m * D
    BY <1>0, <1>1, <1>2, TimesKeepsOrder
  <2>2. (m + 2) * D = m * D + D + D
    BY <1>0
  <2>3. m * D \in Nat /\ a * D \in Nat
    BY <1>0, <1>1, ProductIsNat
  <2> QED BY <1>0, <1>1, <2>1, <2>2, <2>3
<1>4. (delta * e) * Q <= ((m + 2) * D) * Q
  <2>1. (m + 2) * D \in Int
    BY <1>0
  <2> QED BY <1>0, <1>3, <2>1, TimesKeepsOrder
<1>5. (x * p) * e <= (delta * Q) * e
  BY <1>0, TimesKeepsOrder
<1>6. (delta * Q) * e = (delta * e) * Q
  BY <1>0
<1>7. (x * p) * e \in Int /\ (delta * e) * Q \in Int /\ ((m + 2) * D) * Q \in Int
  BY <1>0
<1> QED BY <1>4, <1>5, <1>6, <1>7

(* ... and when `delta` of token 1 is sold for what it buys of token 0.    *)
LEMMA SellingToken1 ==
    ASSUME NEW p \in Nat \ {0}, NEW e \in 0..D, NEW delta \in Nat,
           NEW m \in Nat, (((delta * Q) \div p) * e) \div D <= m
    PROVE  delta * Q * e <= (m + 2) * D * p
<1>0. D \in Nat \ {0} /\ Q \in Nat \ {0} /\ e \in Nat /\ e <= D /\ delta * Q \in Nat
  BY ScaleAssumption, DenominatorAssumption, ProductIsNat
<1> DEFINE b == (delta * Q) \div p
           a == (b * e) \div D
<1>1. b \in Nat /\ delta * Q < b * p + p
  BY <1>0, DivBounds
<1> HIDE DEF b
<1>2. a \in Nat /\ b * e < a * D + D /\ b * e \in Nat
  BY <1>0, <1>1, DivBounds, ProductIsNat
<1> HIDE DEF a
<1>3. a <= m
  BY DEF a, b
<1>4. (b + 1) * e <= (m + 2) * D
  <2>1. a * D <= m * D
    BY <1>0, <1>2, <1>3, TimesKeepsOrder
  <2>2. (m + 2) * D = m * D + D + D /\ (b + 1) * e = b * e + e
    BY <1>0, <1>1
  <2>3. m * D \in Nat /\ a * D \in Nat
    BY <1>0, <1>2, ProductIsNat
  <2> QED BY <1>0, <1>2, <2>1, <2>2, <2>3
<1>5. ((b + 1) * e) * p <= ((m + 2) * D) * p
  <2>1. (b + 1) * e \in Int /\ (m + 2) * D \in Int
    BY <1>0, <1>1
  <2> QED BY <1>4, <2>1, TimesKeepsOrder
<1>6. (delta * Q) * e <= (b * p + p) * e
  <2>1. b * p \in Nat
    BY <1>1, ProductIsNat
  <2> QED BY <1>0, <1>1, <2>1, TimesKeepsOrder
<1>7. (b * p + p) * e = ((b + 1) * e) * p
  BY <1>0, <1>1
<1>8. (delta * Q) * e \in Int /\ ((b + 1) * e) * p \in Int /\ ((m + 2) * D) * p \in Int
  BY <1>0, <1>1
<1> QED BY <1>5, <1>6, <1>7, <1>8

(* Each part of a priced order is paid its worth, less two units: what is  *)
(* sold costs its part of the price, rounded up.                           *)
LEMMA PartIsPaid ==
    ASSUME NEW x \in Nat \ {0}, NEW sold \in 1..x, NEW m \in Nat, NEW num \in Nat \ {0},
           NEW den \in Nat \ {0}, NEW e \in 0..D, x * num * e <= (m + 2) * D * den
    PROVE  ((sold * num) \div den) * e <= (CeilDiv(sold * m, x) + 2) * D
           /\ CeilDiv(sold * m, x) \in Nat
<1>0. D \in Nat \ {0} /\ e \in Nat /\ sold \in Nat /\ sold * m \in Nat /\ sold * num \in Nat
  BY DenominatorAssumption, ProductIsNat
<1> DEFINE c == CeilDiv(sold * m, x)
           w == (sold * num) \div den
<1>1. c \in Nat /\ sold * m <= c * x
  <2>1. sold * m + x - 1 \in Nat
    BY <1>0
  <2>2. c \in Nat /\ sold * m + x - 1 < c * x + x
    BY <2>1, DivBounds DEF CeilDiv
  <2> HIDE DEF c
  <2>3. c * x \in Nat
    BY <2>2, ProductIsNat
  <2> QED BY <1>0, <2>2, <2>3
<1>2. w \in Nat /\ w * den <= sold * num
  BY <1>0, DivBounds
<1> HIDE DEF c, w
<1>3. sold * (m + 2) <= (c + 2) * x
  <2>1. sold * (m + 2) = sold * m + 2 * sold /\ (c + 2) * x = c * x + 2 * x
    BY <1>0, <1>1
  <2>2. c * x \in Nat
    BY <1>1, ProductIsNat
  <2> QED BY <1>0, <1>1, <2>1, <2>2
<1> DEFINE k == D * den
<1>4. k \in Nat \ {0} /\ x * num * e \in Nat /\ (m + 2) * D * den = (m + 2) * k
  BY <1>0, ProductIsNat
<1> HIDE DEF k
<1>5. sold * (x * num * e) <= sold * ((m + 2) * k)
  <2>1. (m + 2) * k \in Int
    BY <1>4
  <2>2. (x * num * e) * sold <= ((m + 2) * k) * sold
    BY <1>0, <1>4, <2>1, TimesKeepsOrder
  <2> QED BY <1>0, <1>4, <2>1, <2>2
<1>6. (sold * (m + 2)) * k <= ((c + 2) * x) * k
  <2>1. sold * (m + 2) \in Int /\ (c + 2) * x \in Int
    BY <1>0, <1>1
  <2> QED BY <1>3, <1>4, <2>1, TimesKeepsOrder
<1>7. (sold * num * e) * x <= ((c + 2) * k) * x
  <2>1. (sold * num * e) * x = sold * (x * num * e)
    BY <1>0
  <2>2. ((c + 2) * k) * x = ((c + 2) * x) * k
    BY <1>1, <1>4
  <2>3. sold * ((m + 2) * k) = (sold * (m + 2)) * k
    BY <1>0, <1>4
  <2>4. sold * (x * num * e) \in Int /\ (sold * (m + 2)) * k \in Int /\ ((c + 2) * x) * k \in Int
    BY <1>0, <1>1, <1>4
  <2> QED BY <1>5, <1>6, <2>1, <2>2, <2>3, <2>4
<1>8. sold * num * e <= (c + 2) * k
  <2>1. sold * num * e \in Int /\ (c + 2) * k \in Int
    BY <1>0, <1>1, <1>4
  <2> QED BY <1>7, <2>1, TimesReflectsOrder
<1>9. (w * e) * den <= ((c + 2) * D) * den
  <2>1. (w * den) * e <= (sold * num) * e
    BY <1>0, <1>2, TimesKeepsOrder
  <2>2. (w * den) * e = (w * e) * den /\ (w * e) * den \in Int
    BY <1>0, <1>2
  <2>3. (c + 2) * k = ((c + 2) * D) * den /\ (c + 2) * k \in Int
    BY <1>0, <1>1, <1>4 DEF k
  <2>4. (sold * num) * e = sold * num * e /\ sold * num * e \in Int
    BY <1>0
  <2> QED BY <1>8, <2>1, <2>2, <2>3, <2>4
<1>10. w * e <= (c + 2) * D
  <2>1. w * e \in Int /\ (c + 2) * D \in Int
    BY <1>0, <1>1, <1>2
  <2> QED BY <1>9, <2>1, TimesReflectsOrder
<1> QED BY <1>1, <1>10 DEF c, w

LEMMA InitPrices == Init => PricesInv
BY InputAssumption, DenominatorAssumption DEF Init, PricesInv, TermsOK

(* A new pre-order is priced at the terms that are noted with it.          *)
LEMMA PostPreOrderIsPriced ==
    ASSUME OrdersIInv, PricesInv, NEW m \in MinAmounts, PostPreOrder(m)
    PROVE  PricesInv'
<1>0. /\ balance[0] \in Nat /\ balance[1] \in Nat /\ price \in Nat \ {0}
      /\ tradingParams.maxSlippageD \in 0..D /\ D \in Nat \ {0} /\ Q \in Nat \ {0}
  BY ScaleAssumption, DenominatorAssumption, ParamsAssumption, InputAssumption
     DEF OrdersIInv, TypeOK, Token, RatioParamsType, TradingParamsType
<1>1. /\ preTerms' = [price |-> price, maxSlippageD |-> tradingParams.maxSlippageD]
      /\ terms' = terms /\ presigned' = presigned /\ now' = now
  BY DEF PostPreOrder, cowVars
<1>2. TermsOK(preTerms)' /\ preTerms'.price = price
      /\ preTerms'.maxSlippageD = tradingParams.maxSlippageD
  BY <1>0, <1>1 DEF TermsOK
<1> DEFINE e == D - tradingParams.maxSlippageD
<1>3. e \in 0..D
  BY <1>0
<1> PICK value0, goal, delta, out \in Nat :
             LET p == preOrder'
                 total == value0 + balance[1]
                 keepD == D - tradingParams.maxSlippageD
             IN  /\ value0 = (balance[0] * price) \div Q
                 /\ goal = (ratioParams.erc20TokenRatioD * total) \div D
                 /\ out <= p.minAmountOut /\ p.minAmountOut \in Nat
                 /\ \/ /\ delta = 0 \/ (goal <= value0 /\ delta = value0 - goal)
                       /\ p.tokenIn = 0 /\ p.tokenOut = 1
                       /\ p.amountIn = (delta * Q) \div price
                       /\ out = (delta * keepD) \div D
                    \/ /\ goal > value0 /\ delta = goal - value0
                       /\ p.tokenIn = 1 /\ p.tokenOut = 0
                       /\ p.amountIn = delta
                       /\ out = (((delta * Q) \div price) * keepD) \div D
  BY PreOrderCases
<1> PICK x \in {preOrder'.amountIn}, least \in Nat :
        least = preOrder'.minAmountOut
  OBVIOUS
<1>4. out <= least
  OBVIOUS
<1>5. preOrder'.tokenOut = 1 - preOrder'.tokenIn
      /\ Priced(preOrder.tokenIn, preOrder.amountIn, preOrder.minAmountOut, preTerms)'
  <2>1. CASE preOrder'.tokenIn = 0
    <3>1. x = (delta * Q) \div price /\ out = (delta * e) \div D /\ preOrder'.tokenOut = 1
      BY <2>1
    <3>2. x \in Nat /\ x * price <= delta * Q
      BY <1>0, <3>1, ProductIsNat, DivBounds
    <3> HIDE DEF e
    <3>3. x * price * e <= (least + 2) * D * Q
      BY <1>0, <1>3, <1>4, <3>1, <3>2, SellingToken0
    <3> QED BY <1>2, <2>1, <3>1, <3>3 DEF Priced, Num, Den, e
  <2>2. CASE preOrder'.tokenIn # 0
    <3>1. x = delta /\ out = (((delta * Q) \div price) * e) \div D
          /\ preOrder'.tokenIn = 1 /\ preOrder'.tokenOut = 0
      BY <2>2
    <3> HIDE DEF e
    <3>2. delta * Q * e <= (least + 2) * D * price
      BY <1>0, <1>3, <1>4, <3>1, SellingToken1
    <3> QED BY <1>2, <3>1, <3>2 DEF Priced, Num, Den, e
  <2> QED BY <2>1, <2>2
<1> QED BY <1>1, <1>2, <1>5 DEF PricesInv

(* A signed order is at least as good as its pre-order, and the only one   *)
(* that has not expired.                                                   *)
LEMMA SignOrderIsPriced ==
    ASSUME OrdersIInv, PricesInv, NEW o \in Candidate, SignOrder(o)
    PROVE  PricesInv'
<1>0. /\ preOrder.deadline >= now /\ preOrder.deadline \in Nat /\ now \in Nat /\ now > 0
      /\ preOrder.minAmountOut \in Nat /\ preOrder.amountIn \in Nat
      /\ preOrder.tokenIn \in Token /\ preOrder.tokenOut \in Token
      /\ o.sellToken = preOrder.tokenIn /\ o.buyToken = preOrder.tokenOut
      /\ o.sellAmount = preOrder.amountIn /\ preOrder.minAmountOut <= o.buyAmount
      /\ o.receiver = ERC20Vault /\ o.buyAmount \in Nat
      /\ presigned' = presigned \cup {o} /\ terms' = preTerms /\ preTerms' = preTerms
      /\ preOrder' = NoPreOrder /\ now' = now
  BY InputAssumption DEF OrdersIInv, TypeOK, OrdersInv, SignOrder, CheckOrder, Candidate
<1>1. preOrder # NoPreOrder
  BY <1>0 DEF NoPreOrder
<1>2. \A p \in presigned : ~(now <= p.validTo)
  <2>1. now > orderDeadline /\ presigned \subseteq Order /\ orderDeadline \in Nat /\ now \in Nat
    BY <1>1 DEF OrdersIInv, OrdersInv, TypeOK
  <2> QED BY <2>1 DEF OrdersIInv, OrdersInv, Order
<1>3. /\ TermsOK(preTerms) /\ o.buyToken = 1 - o.sellToken
      /\ Priced(o.sellToken, o.sellAmount, preOrder.minAmountOut, preTerms)
  BY <1>0, <1>1 DEF PricesInv
<1>4. Priced(o.sellToken, o.sellAmount, o.buyAmount, preTerms)
  BY <1>0, <1>3, MoreIsPriced
<1>5. \A p \in presigned' : now' <= p.validTo => p = o
  BY <1>0, <1>2
<1>6. Priced(o.sellToken, o.sellAmount, o.buyAmount, terms')
  BY <1>0, <1>4
<1>7. TermsOK(terms)' /\ TermsOK(preTerms)'
  BY <1>0, <1>3 DEF TermsOK
<1> QED BY <1>0, <1>3, <1>5, <1>6, <1>7 DEF PricesInv, Priced, Num, Den

(* No other step touches a pre-order or terms, signs an order, or takes    *)
(* time back.                                                              *)
LEMMA NextPrices == OrdersIInv /\ PricesInv /\ [Next]_vars => PricesInv'
<1> SUFFICES ASSUME OrdersIInv, PricesInv, [Next]_vars PROVE PricesInv'
  OBVIOUS
<1>1. CASE \E m \in MinAmounts : PostPreOrder(m)
  BY <1>1, PostPreOrderIsPriced
<1>2. CASE \E o \in Candidate : SignOrder(o)
  BY <1>2, SignOrderIsPriced
<1>3. ASSUME preOrder' = preOrder, preTerms' = preTerms, terms' = terms,
             presigned' \subseteq presigned, now' = now \/ now' = now + 1
      PROVE  PricesInv'
  <2>1. \A o \in presigned : o.validTo \in Nat /\ now \in Nat
    BY DEF OrdersIInv, TypeOK, Order
  <2>2. \A o \in presigned' : o \in presigned /\ (now' <= o.validTo => now <= o.validTo)
    BY <1>3, <2>1
  <2> QED BY <1>3, <2>2 DEF PricesInv, Priced, Num, Den, TermsOK
<1>4. CASE \/ \E o \in presigned : UnsignOrder(o)
           \/ \E t \in Token : ResetCowswapAllowance(t)
           \/ \E p \in TradingParams : UpdateTradingParams(p)
           \/ \E p \in RatioParams : UpdateRatioParams(p)
           \/ \E t \in Token, b \in Balances : MoveTokens(t, b)
           \/ \E p \in Prices : OracleMove(p)
           \/ Tick \/ UNCHANGED vars
  BY <1>3, <1>4 DEF UnsignOrder, ResetCowswapAllowance, UpdateTradingParams,
     UpdateRatioParams, MoveTokens, OracleMove, Tick, vars, strategyVars, cowVars, termVars
<1>5. CASE \E o \in presigned : \E sold \in Amounts \cup {o.sellAmount - Filled(o)},
                                  surplus \in MinAmounts : Settle(o, sold, surplus)
  BY <1>3, <1>5 DEF Settle, strategyVars, termVars
<1> QED BY <1>1, <1>2, <1>4, <1>5 DEF Next

-----------------------------------------------------------------------------
(* Trades.                                                                 *)

PaidFor(o) ==
    LET sold == (IF o \in DOMAIN filled' THEN filled'[o] ELSE 0) - Filled(o)
    IN  sold > 0 =>
          (balance'[o.buyToken] - balance[o.buyToken] + 2) * D
              >= Worth(o.sellToken, sold) * (D - terms.maxSlippageD)

LEMMA SettlePays ==
    ASSUME OrdersIInv, PricesInv, NEW q \in presigned, NEW sold \in Int, NEW surplus \in MinAmounts,
           Settle(q, sold, surplus), NEW o \in presigned
    PROVE  PaidFor(o)
<1>0. /\ presigned \subseteq Order /\ now <= q.validTo /\ surplus \in Nat
      /\ \A p \in DOMAIN filled : filled[p] \in Int
      /\ \A t \in Token : balance[t] \in Nat
  BY InputAssumption DEF Settle, Live, OrdersIInv, TypeOK, Order
<1>1. Filled(q) \in 0..q.sellAmount /\ q.sellAmount \in Nat
  BY <1>0, FilledIsNat DEF OrdersIInv, Order
<1>2. sold \in 1..q.sellAmount
  BY <1>1 DEF Settle
<1>3. filled' = [p \in DOMAIN filled \cup {q} |->
                       IF p = q THEN Filled(q) + sold ELSE filled[p]]
  BY DEF Settle
<1>4. CASE o # q
  <2>1. (IF o \in DOMAIN filled' THEN filled'[o] ELSE 0) = Filled(o) /\ Filled(o) \in Int
    BY <1>0, <1>3, <1>4 DEF Filled
  <2> QED BY <2>1 DEF PaidFor
<1>5. CASE o = q
  <2>1. /\ q.buyToken = 1 - q.sellToken /\ q.receiver = ERC20Vault
        /\ Priced(q.sellToken, q.sellAmount, q.buyAmount, terms) /\ TermsOK(terms)
    BY <1>0 DEF PricesInv
  <2>2. /\ q.sellToken \in Token /\ q.buyToken \in Token /\ q.buyToken # q.sellToken
        /\ q.buyAmount \in Nat /\ q.sellAmount \in Nat \ {0}
    BY <1>0, <1>1, <1>2, <2>1 DEF Order, Token
  <2> DEFINE bought == CeilDiv(sold * q.buyAmount, q.sellAmount)
             e == D - terms.maxSlippageD
             worth == (sold * Num(q.sellToken, terms)) \div Den(q.sellToken, terms)
  <2>3. balance'[q.buyToken] = balance[q.buyToken] + (bought + surplus)
    BY <2>1, <2>2 DEF Settle
  <2>4. worth * e <= (bought + 2) * D /\ bought \in Nat
    <3>1. /\ Num(q.sellToken, terms) \in Nat \ {0} /\ Den(q.sellToken, terms) \in Nat \ {0}
          /\ e \in 0..D
      BY <2>1, TermsAreNumbers
    <3>2. q.sellAmount * Num(q.sellToken, terms) * e
            <= (q.buyAmount + 2) * D * Den(q.sellToken, terms)
      BY <2>1 DEF Priced
    <3> HIDE DEF e
    <3> QED BY <1>2, <2>2, <3>1, <3>2, PartIsPaid
  <2>5. Worth(q.sellToken, sold) = worth
    BY <2>2 DEF Worth, Num, Den, Token
  <2>6. (IF q \in DOMAIN filled' THEN filled'[q] ELSE 0) - Filled(q) = sold
    BY <1>1, <1>2, <1>3
  <2>7. worth * e \in Int
    <3>1. Num(q.sellToken, terms) \in Nat /\ Den(q.sellToken, terms) \in Nat \ {0} /\ e \in Int
      BY <2>1, TermsAreNumbers
    <3>2. sold * Num(q.sellToken, terms) \in Nat
      BY <1>2, <3>1, ProductIsNat
    <3>3. worth \in Nat
      BY <3>1, <3>2, QuotientIsNat
    <3> HIDE DEF worth, e
    <3> QED BY <3>1, <3>3
  <2> HIDE DEF bought, worth
  <2>8. worth * e <= (bought + surplus + 2) * D
    <3>1. (bought + 2) * D <= (bought + surplus + 2) * D
      BY <1>0, <2>4, DenominatorAssumption, TimesKeepsOrder
    <3>2. (bought + 2) * D \in Int /\ (bought + surplus + 2) * D \in Int
      BY <1>0, <2>4, DenominatorAssumption
    <3> HIDE DEF e
    <3> QED BY <2>4, <2>7, <3>1, <3>2
  <2>9. balance'[q.buyToken] - balance[q.buyToken] + 2 = bought + surplus + 2
    BY <1>0, <2>2, <2>3, <2>4
  <2>10. (balance'[q.buyToken] - balance[q.buyToken] + 2) * D
            >= Worth(q.sellToken, sold) * (D - terms.maxSlippageD)
    BY <2>5, <2>8, <2>9
  <2> QED BY <1>5, <2>6, <2>10 DEF PaidFor
<1> QED BY <1>4, <1>5

(* A pre-order is set by posting or deleted by signing, and only a fill    *)
(* sells anything.                                                         *)
LEMMA StepMeetsTarget ==
    OrdersIInv /\ PricesInv /\ [Next]_vars =>
        /\ [LET p == preOrder'
                value0 == (balance[0] * price) \div Q
                sold0 == IF p.tokenIn = 0 THEN (p.amountIn * price) \div Q ELSE -p.amountIn
                excess == (value0 - sold0) * D
                             - ratioParams.erc20TokenRatioD * (value0 + balance[1])
                rounding == D * (2 + price \div Q)
            IN  p # preOrder /\ p.amountIn > 0 =>
                    /\ p.amountIn <= balance[p.tokenIn]
                    /\ excess \in -rounding..rounding]_vars
        /\ [\A o \in presigned : PaidFor(o)]_vars
<1> SUFFICES ASSUME OrdersIInv, PricesInv, Next
             PROVE  /\ LET p == preOrder'
                           value0 == (balance[0] * price) \div Q
                           sold0 == IF p.tokenIn = 0 THEN (p.amountIn * price) \div Q
                                    ELSE -p.amountIn
                           excess == (value0 - sold0) * D
                                        - ratioParams.erc20TokenRatioD * (value0 + balance[1])
                           rounding == D * (2 + price \div Q)
                       IN  p # preOrder /\ p.amountIn > 0 =>
                               /\ p.amountIn <= balance[p.tokenIn]
                               /\ excess \in -rounding..rounding
                    /\ \A o \in presigned : PaidFor(o)
  OBVIOUS
<1>0. \A o \in presigned : Filled(o) \in Int
  BY FilledIsNat DEF OrdersIInv, TypeOK, Order
<1>1. ASSUME filled' = filled, NEW o \in presigned PROVE PaidFor(o)
  <2>1. (IF o \in DOMAIN filled' THEN filled'[o] ELSE 0) - Filled(o) = 0
    BY <1>0, <1>1 DEF Filled
  <2> QED BY <2>1 DEF PaidFor
<1>2. CASE \E m \in MinAmounts : PostPreOrder(m)
  BY <1>1, <1>2, PreOrderFits DEF PostPreOrder, cowVars
<1>3. CASE \E o \in Candidate : SignOrder(o)
  BY <1>1, <1>3 DEF SignOrder, NoPreOrder
<1>4. CASE \E o \in presigned : \E sold \in Amounts \cup {o.sellAmount - Filled(o)},
                                  surplus \in MinAmounts : Settle(o, sold, surplus)
  <2>0. PICK q \in presigned : \E sold \in Amounts \cup {q.sellAmount - Filled(q)},
                                 surplus \in MinAmounts : Settle(q, sold, surplus)
    BY <1>4
  <2>1. PICK sold \in Amounts \cup {q.sellAmount - Filled(q)}, surplus \in MinAmounts :
             Settle(q, sold, surplus)
    BY <2>0
  <2>2. sold \in Int
    BY <1>0, InputAssumption DEF OrdersIInv, TypeOK, Order
  <2>3. preOrder' = preOrder
    BY <2>1 DEF Settle, strategyVars
  <2> QED BY <2>1, <2>2, <2>3, SettlePays
<1>5. CASE \/ \E o \in presigned : UnsignOrder(o)
           \/ \E t \in Token : ResetCowswapAllowance(t)
           \/ \E p \in TradingParams : UpdateTradingParams(p)
           \/ \E p \in RatioParams : UpdateRatioParams(p)
           \/ \E t \in Token, b \in Balances : MoveTokens(t, b)
           \/ \E p \in Prices : OracleMove(p)
           \/ Tick
  <2>1. preOrder' = preOrder /\ filled' = filled
    BY <1>5 DEF UnsignOrder, ResetCowswapAllowance, UpdateTradingParams, UpdateRatioParams,
       MoveTokens, OracleMove, Tick, strategyVars, cowVars
  <2> QED BY <1>1, <2>1
<1> QED BY <1>2, <1>3, <1>4, <1>5 DEF Next

(* A pre-order asks for what brings the tokens back to their ratio, up to  *)
(* rounding, and every part of its order that is filled pays the price     *)
(* then in force less slippage and two units.                              *)
THEOREM TradesAreFair == Spec => TradesMeetTarget
<1>1. Spec => []PricesInv
  BY InitPrices, NextPrices, OrdersIInvAlways, PTL DEF Spec
<1> QED BY <1>1, OrdersIInvAlways, StepMeetsTarget, PTL
        DEF Spec, TradesMeetTarget, PreOrderMeetsTarget, SaleAboveSlippage, PaidFor

-----------------------------------------------------------------------------
(***************************************************************************)
(* Positions.                                                              *)
(***************************************************************************)

(* Uniswap's positions.  Each tick of a position is above the pool's tick  *)
(* or below it.                                                            *)
Wide(p) == p \in Position /\ p.tickUpper = p.tickLower + W

LEMMA TicksOfPosition ==
    ASSUME NEW p, Wide(p), tick \in Int
    PROVE  /\ PerLiquidity(p)[1] \in Nat /\ PerLiquidity(p)[2] \in Nat
           /\ PerLiquidity(p)[1] + PerLiquidity(p)[2] = W
           /\ W \in Nat \ {0}
<1>1. p.tickLower \in Int /\ p.tickUpper = p.tickLower + W /\ W \in Nat \ {0}
  BY TickAssumption DEF Wide, Position
<1>2. Within(tick, p) \in p.tickLower..p.tickUpper
  BY <1>1 DEF Within
<1> QED
  BY <1>1, <1>2 DEF PerLiquidity

LEMMA AmountsOfLiquidity ==
    ASSUME NEW p, Wide(p), tick \in Int, NEW l \in Nat
    PROVE  /\ TokenAmounts(p, l) \in Nat \X Nat
           /\ \A t \in 1..2 : TokenAmounts(p, l)[t] = PerLiquidity(p)[t] * l
           /\ ERC20Capital(TokenAmounts(p, l)) = W * l
<1> DEFINE a == PerLiquidity(p)[1]
           b == PerLiquidity(p)[2]
<1>1. a \in Nat /\ b \in Nat /\ a + b = W
  BY TicksOfPosition
<1>2. TokenAmounts(p, l) = <<a * l, b * l>>
  BY DEF TokenAmounts
<1> HIDE DEF a, b
<1>3. a * l \in Nat /\ b * l \in Nat /\ a * l + b * l = W * l
  BY <1>1
<1> QED
  BY <1>1, <1>2, <1>3 DEF ERC20Capital, a, b

(* The liquidity that tokens amount to is the greatest they can pay.       *)
LEMMA LeastOfTwo ==
    ASSUME NEW a \in Nat, NEW b \in Nat
    PROVE  /\ Min({a, b}) = Least(a, b) /\ Min({a}) = a
           /\ Least(a, b) \in Nat /\ Least(a, b) <= a /\ Least(a, b) <= b
           /\ Least(a, b) \in {a, b}
BY DEF Min, Least

LEMMA LiquidityOfAmounts ==
    ASSUME NEW p, Wide(p), tick \in Int, NEW amounts, amounts[1] \in Nat, amounts[2] \in Nat
    PROVE  /\ Liquidity(p, amounts) \in Nat
           /\ \A t \in 1..2 : PerLiquidity(p)[t] * Liquidity(p, amounts) <= amounts[t]
           /\ \A l \in Nat : (\A t \in 1..2 : amounts[t] <= PerLiquidity(p)[t] * l)
                 => Liquidity(p, amounts) <= l
           /\ \A l \in Nat : (\A t \in 1..2 : PerLiquidity(p)[t] * l <= amounts[t])
                 => l <= Liquidity(p, amounts)
<1> DEFINE a == PerLiquidity(p)[1]
           b == PerLiquidity(p)[2]
           x == amounts[1]
           y == amounts[2]
           m == Liquidity(p, amounts)
<1>1. a \in Nat /\ b \in Nat /\ a + b # 0 /\ x \in Nat /\ y \in Nat
  BY TicksOfPosition
<1>2. /\ a # 0 /\ b # 0 => Liquidities(p, amounts) = {x \div a, y \div b}
      /\ a # 0 /\ b = 0 => Liquidities(p, amounts) = {x \div a}
      /\ a = 0 /\ b # 0 => Liquidities(p, amounts) = {y \div b}
  BY <1>1 DEF Liquidities, TokenIndex
<1> HIDE DEF a, b, x, y
<1>3. /\ a # 0 => x \div a \in Nat /\ (x \div a) * a <= x /\ x < (x \div a) * a + a
      /\ b # 0 => y \div b \in Nat /\ (y \div b) * b <= y /\ y < (y \div b) * b + b
  BY <1>1, DivBounds
<1>4. /\ m \in Nat
      /\ a # 0 => m <= x \div a
      /\ b # 0 => m <= y \div b
      /\ (a # 0 /\ m = x \div a) \/ (b # 0 /\ m = y \div b)
  <2> DEFINE u == x \div a
             v == y \div b
  <2>1. m = Min(Liquidities(p, amounts))
    BY DEF Liquidity
  <2> HIDE DEF u, v, m
  <2>2. /\ a # 0 => u \in Nat
        /\ b # 0 => v \in Nat
        /\ a # 0 /\ b # 0 => m = Min({u, v})
        /\ a # 0 /\ b = 0 => m = Min({u})
        /\ a = 0 /\ b # 0 => m = Min({v})
    BY <1>2, <1>3, <2>1 DEF u, v
  <2>3. ASSUME a # 0, b # 0
        PROVE  m \in Nat /\ m <= u /\ m <= v /\ (m = u \/ m = v)
    <3>1. u \in Nat /\ v \in Nat /\ m = Least(u, v)
      BY <2>2, <2>3, LeastOfTwo
    <3> QED
      BY <3>1 DEF Least
  <2>4. ASSUME a # 0, b = 0
        PROVE  m \in Nat /\ m = u /\ m <= u
    BY <2>2, <2>4, LeastOfTwo
  <2>5. ASSUME a = 0, b # 0
        PROVE  m \in Nat /\ m = v /\ m <= v
    BY <2>2, <2>5, LeastOfTwo
  <2>6. a # 0 \/ b # 0
    BY <1>1
  <2>7. /\ m \in Nat
        /\ a # 0 => m <= u
        /\ b # 0 => m <= v
        /\ (a # 0 /\ m = u) \/ (b # 0 /\ m = v)
    BY <2>3, <2>4, <2>5, <2>6
  <2> QED
    BY <2>7 DEF u, v
<1> HIDE DEF m
<1>5. a * m <= x /\ b * m <= y
  <2>1. a # 0 => m * a <= (x \div a) * a
    BY <1>1, <1>3, <1>4, TimesKeepsOrder
  <2>2. b # 0 => m * b <= (y \div b) * b
    BY <1>1, <1>3, <1>4, TimesKeepsOrder
  <2>3. a = 0 => m * a = 0
    BY <1>4
  <2>4. b = 0 => m * b = 0
    BY <1>4
  <2>5. a * m = m * a /\ b * m = m * b
    BY <1>1, <1>4
  <2> QED
    BY <1>1, <1>3, <1>4, <2>1, <2>2, <2>3, <2>4, <2>5
<1>6. ASSUME NEW l \in Nat, x <= a * l, y <= b * l
      PROVE  m <= l
  <2>1. a * l = l * a /\ b * l = l * b
    BY <1>1
  <2>2. a # 0 => x \div a <= l
    BY <1>1, <1>6, <2>1, QuotientBelow
  <2>3. b # 0 => y \div b <= l
    BY <1>1, <1>6, <2>1, QuotientBelow
  <2> QED
    BY <1>4, <2>2, <2>3
<1>7. ASSUME NEW l \in Nat, a * l <= x, b * l <= y
      PROVE  l <= m
  <2>1. a * l = l * a /\ b * l = l * b
    BY <1>1
  <2>2. a # 0 => l <= x \div a
    BY <1>1, <1>7, <2>1, QuotientAbove
  <2>3. b # 0 => l <= y \div b
    BY <1>1, <1>7, <2>1, QuotientAbove
  <2> QED
    BY <1>4, <2>2, <2>3
<1>8. \A t \in 1..2 : t = 1 \/ t = 2
  OBVIOUS
<1> QED
  BY <1>4, <1>5, <1>6, <1>7, <1>8 DEF a, b, x, y, m

-----------------------------------------------------------------------------
(* The vaults.                                                             *)
LEMMA SumsOfPairs ==
    ASSUME NEW a \in Nat \X Nat, NEW b \in Nat \X Nat
    PROVE  /\ Plus(a, b) \in Nat \X Nat
           /\ \A t \in 1..2 : Plus(a, b)[t] = a[t] + b[t]
           /\ ERC20Capital(Plus(a, b)) = ERC20Capital(a) + ERC20Capital(b)
           /\ (\A t \in 1..2 : b[t] <= a[t]) =>
                 /\ Minus(a, b) \in Nat \X Nat
                 /\ ERC20Capital(Minus(a, b)) = ERC20Capital(a) - ERC20Capital(b)
<1>1. a[1] \in Nat /\ a[2] \in Nat /\ b[1] \in Nat /\ b[2] \in Nat
  OBVIOUS
<1>2. \A t \in 1..2 : t = 1 \/ t = 2
  OBVIOUS
<1>3. Plus(a, b) = <<a[1] + b[1], a[2] + b[2]>> /\ Minus(a, b) = <<a[1] - b[1], a[2] - b[2]>>
  BY DEF Plus, Minus
<1> QED
  BY <1>1, <1>2, <1>3 DEF ERC20Capital

LEMMA PairElements ==
    ASSUME NEW a \in Nat \X Nat
    PROVE  /\ a[1] \in Nat /\ a[2] \in Nat /\ (\A t \in 1..2 : a[t] \in Nat)
           /\ ERC20Capital(a) \in Nat
<1>1. a[1] \in Nat /\ a[2] \in Nat
  OBVIOUS
<1>2. \A t \in 1..2 : t = 1 \/ t = 2
  OBVIOUS
<1> QED
  BY <1>1, <1>2 DEF ERC20Capital

LEMMA PairEntry ==
    ASSUME NEW a \in Nat \X Nat, NEW t \in 1..2, NEW n \in Nat
    PROVE  [a EXCEPT ![t] = n] \in Nat \X Nat
<1>1. t = 1 \/ t = 2
  OBVIOUS
<1>2. a = <<a[1], a[2]>> /\ a[1] \in Nat /\ a[2] \in Nat
  OBVIOUS
<1>3. [a EXCEPT ![1] = n] = <<n, a[2]>> /\ [a EXCEPT ![2] = n] = <<a[1], n>>
  BY <1>2
<1> QED
  BY <1>1, <1>2, <1>3

(* A pull takes the position's fees and no more liquidity than it has.     *)
LEMMA PullKeepsWide ==
    ASSUME NEW p, Wide(p), NEW l \in Nat, l <= p.liquidity
    PROVE  /\ Wide(Pulled(p, l)) /\ Wide(Emptied(p))
           /\ Pulled(p, l).tickLower = p.tickLower /\ Emptied(p).tickLower = p.tickLower
           /\ Pulled(p, l).liquidity = p.liquidity - l
           /\ p.liquidity \in Nat /\ p.owed \in Nat \X Nat
<1>1. NoTokens \in Nat \X Nat
  BY DEF NoTokens
<1>2. /\ p \in [tickLower : Int, tickUpper : Int, liquidity : Nat, owed : Nat \X Nat]
      /\ p.tickUpper = p.tickLower + W
  BY DEF Wide, Position
<1>3. /\ Emptied(p) \in [tickLower : Int, tickUpper : Int, liquidity : Nat, owed : Nat \X Nat]
      /\ Emptied(p).tickLower = p.tickLower /\ Emptied(p).tickUpper = p.tickUpper
      /\ Emptied(p).liquidity = p.liquidity
  BY <1>1, <1>2 DEF Emptied
<1>4. /\ Pulled(p, l) \in [tickLower : Int, tickUpper : Int, liquidity : Nat, owed : Nat \X Nat]
      /\ Pulled(p, l).tickLower = p.tickLower /\ Pulled(p, l).tickUpper = p.tickUpper
      /\ Pulled(p, l).liquidity = p.liquidity - l
  <2> DEFINE e == Emptied(p)
  <2>1. p.liquidity \in Nat /\ p.liquidity - l \in Nat
    BY <1>2
  <2>2. Pulled(p, l) = [e EXCEPT !.liquidity = @ - l]
    BY DEF Pulled
  <2> HIDE DEF e
  <2>3. /\ e \in [tickLower : Int, tickUpper : Int, liquidity : Nat, owed : Nat \X Nat]
        /\ e.tickLower = p.tickLower /\ e.tickUpper = p.tickUpper /\ e.liquidity = p.liquidity
    BY <1>3 DEF e
  <2> QED
    BY <2>1, <2>2, <2>3
<1> QED
  BY <1>2, <1>3, <1>4 DEF Wide, Position

LEMMA FundsPulled ==
    ASSUME NEW p, Wide(p), tick \in Int, NEW l \in Nat
    PROVE  /\ PullFunds(p, l) \in Nat \X Nat
           /\ \A t \in 1..2 : PullFunds(p, l)[t] = p.owed[t] + PerLiquidity(p)[t] * l
           /\ ERC20Capital(PullFunds(p, l)) = ERC20Capital(p.owed) + W * l
<1>1. p.owed \in Nat \X Nat
  BY DEF Wide, Position
<1> QED
  BY <1>1, SumsOfPairs, AmountsOfLiquidity DEF PullFunds

(* A push spends what there is and no more than it is asked to.            *)
Pays(funds, p, l) == \A t \in 1..2 : PerLiquidity(p)[t] * l <= funds[t]

LEMMA PushKeepsWide ==
    ASSUME NEW p, Wide(p), NEW l \in Nat
    PROVE  /\ Wide(Pushed(p, l)) /\ Pushed(p, l).tickLower = p.tickLower
           /\ Pushed(p, l).liquidity = p.liquidity + l /\ Pushed(p, l).owed = p.owed
BY DEF Wide, Pushed, Position

LEMMA PushFits ==
    ASSUME NEW p, Wide(p), tick \in Int, NEW wanted \in Nat \X Nat, NEW funds \in Nat \X Nat,
           NEW l, l = PushedLiquidity(p, wanted, funds)
    PROVE  /\ l \in Nat
           /\ Minus(funds, TokenAmounts(p, l)) \in Nat \X Nat
           /\ ERC20Capital(Minus(funds, TokenAmounts(p, l))) = ERC20Capital(funds) - W * l
           /\ \A m \in Nat : wanted = TokenAmounts(p, m) =>
                 /\ l <= m
                 /\ (Pays(funds, p, m) => l = m)
<1> DEFINE a == AtMost(wanted, funds)
<1>1. \A t \in 1..2 : wanted[t] \in Nat /\ funds[t] \in Nat
  BY PairElements
<1>2. \A t \in 1..2 : a[t] \in Nat /\ a[t] <= wanted[t] /\ a[t] <= funds[t]
                        /\ a[t] \in {wanted[t], funds[t]}
  <2>1. a[1] = Least(wanted[1], funds[1]) /\ a[2] = Least(wanted[2], funds[2])
    BY DEF AtMost
  <2>2. \A t \in 1..2 : t = 1 \/ t = 2
    OBVIOUS
  <2> HIDE DEF a
  <2> QED
    BY <1>1, <2>1, <2>2 DEF Least
<1>3. l = Liquidity(p, a)
  BY DEF PushedLiquidity
<1> HIDE DEF a
<1>4. /\ l \in Nat
      /\ \A t \in 1..2 : PerLiquidity(p)[t] * l <= a[t]
      /\ \A m \in Nat : (\A t \in 1..2 : a[t] <= PerLiquidity(p)[t] * m) => l <= m
      /\ \A m \in Nat : (\A t \in 1..2 : PerLiquidity(p)[t] * m <= a[t]) => m <= l
  BY <1>2, <1>3, LiquidityOfAmounts
<1>5. /\ TokenAmounts(p, l) \in Nat \X Nat
      /\ \A t \in 1..2 : TokenAmounts(p, l)[t] = PerLiquidity(p)[t] * l
      /\ ERC20Capital(TokenAmounts(p, l)) = W * l
  BY <1>4, AmountsOfLiquidity
<1>6. \A t \in 1..2 : PerLiquidity(p)[t] \in Nat
  <2>1. \A t \in 1..2 : t = 1 \/ t = 2
    OBVIOUS
  <2> QED
    BY <2>1, TicksOfPosition
<1>7. \A t \in 1..2 : TokenAmounts(p, l)[t] <= funds[t]
  <2> SUFFICES ASSUME NEW t \in 1..2 PROVE TokenAmounts(p, l)[t] <= funds[t]
    OBVIOUS
  <2>1. a[t] \in Nat /\ a[t] <= funds[t] /\ funds[t] \in Nat
    BY <1>1, <1>2
  <2>2. TokenAmounts(p, l)[t] \in Nat /\ TokenAmounts(p, l)[t] <= a[t]
    BY <1>4, <1>5, PairElements
  <2> QED
    BY <2>1, <2>2
<1>8. /\ Minus(funds, TokenAmounts(p, l)) \in Nat \X Nat
      /\ ERC20Capital(Minus(funds, TokenAmounts(p, l))) = ERC20Capital(funds) - W * l
  BY <1>5, <1>7, SumsOfPairs
<1>9. ASSUME NEW m \in Nat, wanted = TokenAmounts(p, m)
      PROVE  l <= m /\ (Pays(funds, p, m) => l = m)
  <2>1. \A t \in 1..2 : wanted[t] = PerLiquidity(p)[t] * m
    BY <1>9, AmountsOfLiquidity
  <2>2. l <= m
    BY <1>2, <1>4, <2>1
  <2>3. ASSUME Pays(funds, p, m)
        PROVE  m <= l
    <3>1. \A t \in 1..2 : PerLiquidity(p)[t] * m <= a[t]
      <4> SUFFICES ASSUME NEW t \in 1..2 PROVE PerLiquidity(p)[t] * m <= a[t]
        OBVIOUS
      <4>1. a[t] = PerLiquidity(p)[t] * m \/ a[t] = funds[t]
        BY <1>2, <2>1
      <4>2. PerLiquidity(p)[t] * m \in Nat
        BY <1>1, <2>1
      <4> QED
        BY <2>3, <4>1, <4>2 DEF Pays
    <3> QED
      BY <1>4, <3>1
  <2> QED
    BY <1>4, <2>2, <2>3
<1> QED
  BY <1>4, <1>8, <1>9

LEMMA PushUpTo ==
    ASSUME NEW p, Wide(p), tick \in Int, NEW m \in Nat, NEW funds \in Nat \X Nat,
           NEW l, l = PushedLiquidity(p, TokenAmounts(p, m), funds)
    PROVE  /\ l \in Nat /\ l <= m
           /\ Minus(funds, TokenAmounts(p, l)) \in Nat \X Nat
           /\ ERC20Capital(Minus(funds, TokenAmounts(p, l))) = ERC20Capital(funds) - W * l
           /\ (Pays(funds, p, m) => l = m)
<1> DEFINE wanted == TokenAmounts(p, m)
<1>1. wanted \in Nat \X Nat /\ wanted = TokenAmounts(p, m)
  BY AmountsOfLiquidity
<1>2. l = PushedLiquidity(p, wanted, funds)
  OBVIOUS
<1> HIDE DEF wanted
<1>3. /\ l \in Nat
      /\ Minus(funds, TokenAmounts(p, l)) \in Nat \X Nat
      /\ ERC20Capital(Minus(funds, TokenAmounts(p, l))) = ERC20Capital(funds) - W * l
  BY <1>1, <1>2, PushFits
<1>4. l <= m
  BY <1>1, <1>2, PushFits
<1>5. ASSUME Pays(funds, p, m)
      PROVE  l = m
  BY <1>1, <1>2, <1>5, PushFits
<1> QED
  BY <1>3, <1>4, <1>5

-----------------------------------------------------------------------------
(* The difference to the target.                                           *)
ShareOf(total, targetD) == (targetD * total) \div D

DeltaFits(lower, sum, targetD, goal, c) ==
    /\ goal \in Nat /\ goal <= sum
    /\ goal * D <= targetD * sum /\ targetD * sum < goal * D + D
    /\ c.delta \in Nat /\ c.isNegative \in BOOLEAN
    /\ c.delta > 0 /\ c.isNegative => goal > lower /\ c.delta = goal - lower
    /\ c.delta > 0 /\ ~c.isNegative => goal <= lower /\ c.delta = lower - goal

LEMMA DeltaToTarget ==
    ASSUME NEW lower \in Nat, NEW upper \in Nat, NEW targetD \in 0..D, NEW dev \in Nat
    PROVE  DeltaFits(lower, lower + upper, targetD, ShareOf(lower + upper, targetD),
                     LiquidityDelta(lower, upper, targetD, dev))
<1> DEFINE sum == lower + upper
           goal == ShareOf(sum, targetD)
           c == LiquidityDelta(lower, upper, targetD, dev)
<1>1. sum \in Nat /\ targetD * sum \in Nat /\ D \in Nat \ {0} /\ targetD <= D /\ targetD \in Nat
  BY DenominatorAssumption
<1>2. goal = (targetD * sum) \div D
  BY DEF ShareOf
<1>3. \/ c = [delta |-> 0, isNegative |-> FALSE]
      \/ goal > lower /\ c = [delta |-> goal - lower, isNegative |-> TRUE]
      \/ ~(goal > lower) /\ c = [delta |-> lower - goal, isNegative |-> FALSE]
  BY DEF LiquidityDelta, ShareOf
<1> HIDE DEF sum, goal, c
<1>5. goal \in Nat /\ goal * D <= targetD * sum /\ targetD * sum < goal * D + D
  BY <1>1, <1>2, DivBounds
<1>6. goal <= sum
  <2>1. targetD * sum <= D * sum
    BY <1>1, TimesKeepsOrder
  <2>2. D * sum = sum * D
    BY <1>1
  <2>3. goal * D <= sum * D
    BY <1>1, <1>5, <2>1, <2>2
  <2> QED
    BY <1>1, <1>5, <2>3, TimesReflectsOrder
<1>7. /\ c.delta \in Nat /\ c.isNegative \in BOOLEAN
      /\ c.delta > 0 => /\ c.isNegative => goal > lower /\ c.delta = goal - lower
                        /\ ~c.isNegative => goal <= lower /\ c.delta = lower - goal
  <2>1. CASE c = [delta |-> 0, isNegative |-> FALSE]
    BY <2>1
  <2>2. CASE goal > lower /\ c = [delta |-> goal - lower, isNegative |-> TRUE]
    <3>1. c.delta = goal - lower /\ c.isNegative = TRUE
      BY <2>2
    <3>2. c.delta \in Nat
      BY <1>5, <2>2, <3>1
    <3> QED
      BY <2>2, <3>1, <3>2
  <2>3. CASE ~(goal > lower) /\ c = [delta |-> lower - goal, isNegative |-> FALSE]
    <3>1. c.delta = lower - goal /\ c.isNegative = FALSE
      BY <2>3
    <3>2. c.delta \in Nat /\ goal <= lower
      BY <1>5, <2>3, <3>1
    <3> QED
      BY <3>1, <3>2
  <2> QED
    BY <1>3, <2>1, <2>2, <2>3
<1> QED
  BY <1>5, <1>6, <1>7 DEF DeltaFits, sum, goal, c

(* The invariant.                                                          *)
PositionsInv == PositionsFit /\ tick \in Int /\ target \in Int

LEMMA Positions ==
    ASSUME PositionsInv
    PROVE  /\ lowerVault \in Vault /\ upperVault \in Vault /\ lowerVault # upperVault
           /\ \A v \in Vault : v = lowerVault \/ v = upperVault
           /\ position \in [Vault -> Position] /\ \A v \in Vault : Wide(position[v])
           /\ idle \in Nat \X Nat /\ tick \in Int
           /\ position[lowerVault].liquidity \in Nat /\ position[upperVault].liquidity \in Nat
           /\ position[lowerVault].owed \in Nat \X Nat /\ position[upperVault].owed \in Nat \X Nat
<1>1. /\ {lowerVault, upperVault} = Vault /\ position \in [Vault -> Position]
      /\ idle \in Nat \X Nat /\ tick \in Int
  BY DEF PositionsInv, PositionsFit, PositionsTypeOK
<1>2. lowerVault \in Vault /\ upperVault \in Vault /\ lowerVault # upperVault
      /\ \A v \in Vault : v = lowerVault \/ v = upperVault
  BY <1>1, VaultAssumption DEF Vault
<1>3. Wide(position[lowerVault]) /\ Wide(position[upperVault])
  BY <1>1, <1>2 DEF PositionsInv, PositionsFit, IntervalsOverlapByHalf, Wide
<1>4. \A v \in Vault : Wide(position[v])
  BY <1>2, <1>3
<1> QED
  BY <1>1, <1>2, <1>3, <1>4 DEF Wide, Position

(* Steps that leave the intervals where they are.                          *)
SameIntervals(positions) ==
    /\ positions \in [Vault -> Position]
    /\ \A v \in Vault : Wide(positions[v]) /\ positions[v].tickLower = position[v].tickLower

LEMMA SameIntervalsKeep ==
    ASSUME PositionsInv, SameIntervals(position'), idle' \in Nat \X Nat,
           UNCHANGED <<lowerVault, upperVault>>, tick' \in Int, target' \in Int,
           sinceERC20UniV3' \in Nat, sinceUniV3' \in Nat
    PROVE  PositionsInv'
<1>1. PositionsTypeOK'
  BY DEF PositionsInv, PositionsFit, PositionsTypeOK, SameIntervals
<1>2. lowerVault \in Vault /\ upperVault \in Vault
  BY Positions
<1>3. IntervalsOverlapByHalf'
  BY <1>2 DEF PositionsInv, PositionsFit, IntervalsOverlapByHalf, SameIntervals, Wide
<1> QED
  BY <1>1, <1>3 DEF PositionsInv, PositionsFit

LEMMA NothingMoved == ASSUME PositionsInv PROVE SameIntervals(position)
BY Positions DEF SameIntervals

LEMMA OneReplaced ==
    ASSUME PositionsInv, NEW v \in Vault, NEW p, Wide(p), p.tickLower = position[v].tickLower
    PROVE  SameIntervals([position EXCEPT ![v] = p])
BY Positions DEF SameIntervals, Wide

LEMMA TwoReplaced ==
    ASSUME PositionsInv, NEW v \in Vault, NEW w \in Vault, NEW p, NEW q, Wide(p), Wide(q),
           p.tickLower = position[v].tickLower, q.tickLower = position[w].tickLower
    PROVE  SameIntervals([position EXCEPT ![v] = p, ![w] = q])
<1>1. position \in [Vault -> Position] /\ \A u \in Vault : Wide(position[u])
  BY Positions
<1>2. p \in Position /\ q \in Position
  BY DEF Wide
<1> DEFINE f == [position EXCEPT ![v] = p, ![w] = q]
<1>3. f \in [Vault -> Position]
  BY <1>1, <1>2
<1>4. \A u \in Vault : f[u] = IF u = w THEN q ELSE IF u = v THEN p ELSE position[u]
  BY <1>1
<1> QED
  BY <1>1, <1>3, <1>4 DEF SameIntervals

-----------------------------------------------------------------------------
(* Capital between the ERC20Vault and the positions.                       *)

(* Rounded down shares of two amounts, together.                           *)
LEMMA SharesTogether ==
    ASSUME NEW k \in Nat \ {0}, NEW L \in Nat, NEW U \in Nat, NEW fees \in Nat,
           NEW delta \in Nat, NEW w \in Nat, NEW pct \in Nat, NEW l \in Nat, NEW u \in Nat,
           l * k <= pct * L, u * k <= pct * U, pct * (w * (L + U) + fees) <= k * delta
    PROVE  w * (l + u) <= delta
<1>1. (l + u) * k <= pct * (L + U)
  <2>1. (l + u) * k = l * k + u * k /\ pct * (L + U) = pct * L + pct * U
    OBVIOUS
  <2>2. l * k \in Nat /\ u * k \in Nat /\ pct * L \in Nat /\ pct * U \in Nat
    OBVIOUS
  <2> QED
    BY <2>1, <2>2
<1>2. ((l + u) * k) * w <= (pct * (L + U)) * w
  <2>1. (l + u) * k \in Nat /\ pct * (L + U) \in Nat
    OBVIOUS
  <2> QED
    BY <1>1, <2>1, TimesKeepsOrder
<1>3. ((l + u) * k) * w = (w * (l + u)) * k /\ (pct * (L + U)) * w = pct * (w * (L + U))
  OBVIOUS
<1>4. pct * (w * (L + U) + fees) = pct * (w * (L + U)) + pct * fees
  OBVIOUS
<1>5. w * (l + u) \in Nat /\ pct * fees \in Nat /\ pct * (w * (L + U)) \in Nat
      /\ k * delta = delta * k /\ delta * k \in Nat /\ (w * (l + u)) * k \in Nat
  OBVIOUS
<1>6. (w * (l + u)) * k <= delta * k
  BY <1>2, <1>3, <1>4, <1>5
<1> QED
  BY <1>5, <1>6, TimesReflectsOrder

(* The same percentage of both liquidities is worth no more than that      *)
(* percentage of the capital, and at most all of it is taken.              *)
LEMMA PercentageOfLiquidity ==
    ASSUME NEW L \in Nat, NEW U \in Nat, NEW fees \in Nat, NEW delta \in Nat,
           NEW sum \in Nat \ {0}, sum = W * (L + U) + fees,
           NEW pct, pct = (D * delta) \div sum,
           NEW l, l = (pct * L) \div D, NEW u, u = (pct * U) \div D
    PROVE  /\ pct \in Nat /\ l \in Nat /\ u \in Nat /\ W * (l + u) <= delta
           /\ delta <= sum => pct <= D /\ l <= L /\ u <= U
<1>1. D \in Nat \ {0} /\ W \in Nat \ {0} /\ D * delta \in Nat
  BY DenominatorAssumption, TickAssumption
<1>2. pct \in Nat /\ pct * sum <= D * delta
  BY <1>1, DivBounds
<1>3. pct * L \in Nat /\ pct * U \in Nat
  BY <1>2
<1>4. l \in Nat /\ u \in Nat /\ l * D <= pct * L /\ u * D <= pct * U
  BY <1>1, <1>3, DivBounds
<1>5. W * (l + u) <= delta
  BY <1>1, <1>2, <1>4, SharesTogether
<1>6. ASSUME delta <= sum
      PROVE  pct <= D /\ l <= L /\ u <= U
  <2>1. delta * D <= sum * D
    BY <1>1, <1>6, TimesKeepsOrder
  <2>2. pct * sum <= D * sum
    BY <1>1, <1>2, <2>1
  <2>3. pct <= D
    BY <1>1, <1>2, <2>2, TimesReflectsOrder
  <2>4. pct * L <= D * L /\ pct * U <= D * U
    BY <1>1, <1>2, <2>3, TimesKeepsOrder
  <2>5. D * L = L * D /\ D * U = U * D
    BY <1>1
  <2>6. l * D <= L * D /\ u * D <= U * D
    <3>1. l * D \in Nat /\ u * D \in Nat /\ L * D \in Nat /\ U * D \in Nat
      BY <1>1, <1>4
    <3> QED
      BY <1>3, <1>4, <2>4, <2>5, <3>1
  <2> QED
    BY <1>1, <1>4, <2>3, <2>6, TimesReflectsOrder
<1> QED
  BY <1>2, <1>4, <1>5, <1>6

LEMMA CapitalOfPosition ==
    ASSUME NEW p, Wide(p)
    PROVE  /\ UniV3Capital(p) = W * p.liquidity + ERC20Capital(p.owed)
           /\ UniV3Capital(p) \in Nat /\ p.liquidity \in Nat /\ p.owed \in Nat \X Nat
           /\ ERC20Capital(p.owed) \in Nat
<1>1. p.liquidity \in Nat /\ p.owed \in Nat \X Nat /\ W \in Nat
  BY TickAssumption DEF Wide, Position
<1>2. p.owed[1] \in Nat /\ p.owed[2] \in Nat /\ p.liquidity * W = W * p.liquidity
      /\ W * p.liquidity \in Nat
  BY <1>1
<1> QED
  BY <1>1, <1>2 DEF UniV3Capital, ERC20Capital

LEMMA PartOfPosition ==
    ASSUME NEW p, Wide(p), NEW pct \in Nat
    PROVE  /\ Part(p, pct) = (pct * p.liquidity) \div D /\ Part(p, pct) \in Nat
           /\ pct <= D => Part(p, pct) <= p.liquidity
<1>1. p.liquidity \in Nat /\ pct * p.liquidity \in Nat /\ D \in Nat \ {0}
  BY DenominatorAssumption DEF Wide, Position
<1>2. Part(p, pct) = (pct * p.liquidity) \div D
  BY DEF Part
<1>3. Part(p, pct) \in Nat
  BY <1>1, <1>2, DivBounds
<1>4. pct <= D => pct * p.liquidity <= p.liquidity * D
  <2>1. pct <= D => pct * p.liquidity <= D * p.liquidity
    BY <1>1, TimesKeepsOrder
  <2> QED
    BY <1>1, <2>1
<1>5. pct <= D => Part(p, pct) <= p.liquidity
  BY <1>1, <1>2, <1>4, QuotientBelow
<1> QED
  BY <1>2, <1>3, <1>5

(* The two positions, as the one or the other kind of rebalance finds them. *)
Pair(lower, upper) ==
    /\ Wide(lower) /\ Wide(upper)
    /\ lower.tickLower = position[lowerVault].tickLower
    /\ upper.tickLower = position[upperVault].tickLower

LEMMA PairReplaced ==
    ASSUME PositionsInv, NEW p, NEW q, Pair(p, q)
    PROVE  SameIntervals([position EXCEPT ![lowerVault] = p, ![upperVault] = q])
BY Positions, TwoReplaced DEF Pair

LEMMA GatherMoves ==
    ASSUME PositionsInv, NEW lower, NEW upper, Pair(lower, upper), NEW funds \in Nat \X Nat,
           NEW pct \in Nat, pct <= D, GatherCapital(lower, upper, funds, pct)
    PROVE  /\ SameIntervals(position') /\ idle' \in Nat \X Nat
           /\ ERC20Capital(idle') = ERC20Capital(funds) + ERC20Capital(lower.owed)
                + ERC20Capital(upper.owed) + W * (Part(lower, pct) + Part(upper, pct))
<1> DEFINE l == Part(lower, pct)
           u == Part(upper, pct)
<1>1. tick \in Int /\ Wide(lower) /\ Wide(upper)
  BY Positions DEF Pair
<1>2. l \in Nat /\ u \in Nat /\ l <= lower.liquidity /\ u <= upper.liquidity
  BY <1>1, PartOfPosition
<1>3. /\ position' = [position EXCEPT ![lowerVault] = Pulled(lower, l),
                                      ![upperVault] = Pulled(upper, u)]
      /\ idle' = Plus(Plus(funds, PullFunds(lower, l)), PullFunds(upper, u))
  BY DEF GatherCapital
<1> HIDE DEF l, u
<1>4. Pair(Pulled(lower, l), Pulled(upper, u))
  BY <1>1, <1>2, PullKeepsWide DEF Pair
<1>5. SameIntervals(position')
  BY <1>3, <1>4, PairReplaced
<1>6. /\ PullFunds(lower, l) \in Nat \X Nat /\ PullFunds(upper, u) \in Nat \X Nat
      /\ ERC20Capital(PullFunds(lower, l)) = ERC20Capital(lower.owed) + W * l
      /\ ERC20Capital(PullFunds(upper, u)) = ERC20Capital(upper.owed) + W * u
  BY <1>1, <1>2, FundsPulled
<1>7. /\ idle' \in Nat \X Nat
      /\ ERC20Capital(idle') = ERC20Capital(funds) + ERC20Capital(PullFunds(lower, l))
                                 + ERC20Capital(PullFunds(upper, u))
  BY <1>3, <1>6, SumsOfPairs
<1>8. ERC20Capital(idle') = ERC20Capital(funds) + ERC20Capital(lower.owed)
                              + ERC20Capital(upper.owed) + W * (l + u)
  <2>1. W * (l + u) = W * l + W * u /\ W * l \in Nat /\ W * u \in Nat
    BY <1>2, TickAssumption
  <2>2. ERC20Capital(funds) \in Nat /\ ERC20Capital(lower.owed) \in Nat
        /\ ERC20Capital(upper.owed) \in Nat
    BY <1>1, PairElements, CapitalOfPosition
  <2> QED
    BY <1>6, <1>7, <2>1, <2>2
<1> QED
  BY <1>5, <1>7, <1>8 DEF l, u

LEMMA SpreadMoves ==
    ASSUME PositionsInv, NEW lower, NEW upper, Pair(lower, upper), NEW funds \in Nat \X Nat,
           NEW pct \in Nat, SpreadCapital(lower, upper, funds, pct)
    PROVE  /\ SameIntervals(position') /\ idle' \in Nat \X Nat
           /\ \E l \in 0..Part(lower, pct), u \in 0..Part(upper, pct) :
                 ERC20Capital(idle') = ERC20Capital(funds) - W * (l + u)
<1> DEFINE wantedLower == TokenAmounts(lower, Part(lower, pct))
           wantedUpper == TokenAmounts(upper, Part(upper, pct))
           l == IF lower.liquidity = 0 THEN 0 ELSE PushedLiquidity(lower, wantedLower, funds)
           left == Minus(funds, TokenAmounts(lower, l))
           u == IF upper.liquidity = 0 THEN 0 ELSE PushedLiquidity(upper, wantedUpper, left)
<1>1. tick \in Int /\ Wide(lower) /\ Wide(upper) /\ W \in Nat
  BY Positions, TickAssumption DEF Pair
<1>2. /\ Part(lower, pct) \in Nat /\ Part(upper, pct) \in Nat
      /\ wantedLower \in Nat \X Nat /\ wantedUpper \in Nat \X Nat
  BY <1>1, PartOfPosition, AmountsOfLiquidity
<1>3. /\ position' = [position EXCEPT ![lowerVault] = Pushed(lower, l),
                                      ![upperVault] = Pushed(upper, u)]
      /\ idle' = Minus(left, TokenAmounts(upper, u))
  BY DEF SpreadCapital
<1>4. ASSUME NEW p, Wide(p), NEW f \in Nat \X Nat
      PROVE  /\ Minus(f, TokenAmounts(p, 0)) \in Nat \X Nat
             /\ ERC20Capital(Minus(f, TokenAmounts(p, 0))) = ERC20Capital(f)
  <2>1. /\ TokenAmounts(p, 0) \in Nat \X Nat
        /\ \A t \in 1..2 : TokenAmounts(p, 0)[t] = PerLiquidity(p)[t] * 0
        /\ ERC20Capital(TokenAmounts(p, 0)) = W * 0
    BY <1>1, <1>4, AmountsOfLiquidity
  <2>2. \A t \in 1..2 : TokenAmounts(p, 0)[t] <= f[t]
    <3>1. \A t \in 1..2 : PerLiquidity(p)[t] \in Nat
      <4>1. \A t \in 1..2 : t = 1 \/ t = 2
        OBVIOUS
      <4> QED
        BY <1>1, <1>4, <4>1, TicksOfPosition
    <3>2. \A t \in 1..2 : f[t] \in Nat
      BY PairElements
    <3> QED
      BY <2>1, <3>1, <3>2
  <2>3. W * 0 = 0 /\ ERC20Capital(f) \in Nat
    BY <1>1, PairElements
  <2>4. /\ Minus(f, TokenAmounts(p, 0)) \in Nat \X Nat
        /\ ERC20Capital(Minus(f, TokenAmounts(p, 0)))
             = ERC20Capital(f) - ERC20Capital(TokenAmounts(p, 0))
    BY <2>1, <2>2, SumsOfPairs
  <2> QED
    BY <2>1, <2>3, <2>4
<1>5. /\ l \in 0..Part(lower, pct) /\ left \in Nat \X Nat
      /\ ERC20Capital(left) = ERC20Capital(funds) - W * l
  <2>1. CASE lower.liquidity = 0
    <3>1. l = 0
      BY <2>1
    <3>2. W * 0 = 0 /\ ERC20Capital(funds) \in Nat
      BY <1>1, PairElements
    <3> HIDE DEF l
    <3> QED
      BY <1>1, <1>2, <1>4, <3>1, <3>2
  <2>2. CASE lower.liquidity # 0
    <3>1. l = PushedLiquidity(lower, TokenAmounts(lower, Part(lower, pct)), funds)
      BY <2>2
    <3>3. left = Minus(funds, TokenAmounts(lower, l))
      OBVIOUS
    <3> HIDE DEF l, left
    <3>2. /\ l \in Nat /\ left \in Nat \X Nat
          /\ ERC20Capital(left) = ERC20Capital(funds) - W * l /\ l <= Part(lower, pct)
      <4> DEFINE m == Part(lower, pct)
      <4>1. m \in Nat /\ l = PushedLiquidity(lower, TokenAmounts(lower, m), funds)
        BY <1>2, <3>1
      <4> HIDE DEF m
      <4>2. /\ l \in Nat /\ Minus(funds, TokenAmounts(lower, l)) \in Nat \X Nat
            /\ ERC20Capital(Minus(funds, TokenAmounts(lower, l))) = ERC20Capital(funds) - W * l
            /\ l <= m
        BY <1>1, <4>1, PushUpTo
      <4> QED
        BY <3>3, <4>2 DEF m
    <3> QED
      BY <1>2, <3>2
  <2> QED
    BY <2>1, <2>2
<1>6. /\ u \in 0..Part(upper, pct) /\ Minus(left, TokenAmounts(upper, u)) \in Nat \X Nat
      /\ ERC20Capital(Minus(left, TokenAmounts(upper, u))) = ERC20Capital(left) - W * u
  <2>0. left \in Nat \X Nat
    BY <1>5
  <2> HIDE DEF left
  <2>1. CASE upper.liquidity = 0
    <3>1. u = 0
      BY <2>1
    <3>2. W * 0 = 0 /\ ERC20Capital(left) \in Nat
      BY <1>1, <2>0, PairElements
    <3> HIDE DEF u
    <3> QED
      BY <1>1, <1>2, <1>4, <2>0, <3>1, <3>2
  <2>2. CASE upper.liquidity # 0
    <3>1. u = PushedLiquidity(upper, TokenAmounts(upper, Part(upper, pct)), left)
      BY <2>2
    <3> HIDE DEF u
    <3>2. /\ u \in Nat /\ Minus(left, TokenAmounts(upper, u)) \in Nat \X Nat
          /\ ERC20Capital(Minus(left, TokenAmounts(upper, u))) = ERC20Capital(left) - W * u
          /\ u <= Part(upper, pct)
      <4> DEFINE m == Part(upper, pct)
      <4>1. m \in Nat /\ u = PushedLiquidity(upper, TokenAmounts(upper, m), left)
        BY <1>2, <3>1
      <4> HIDE DEF m
      <4>2. /\ u \in Nat /\ Minus(left, TokenAmounts(upper, u)) \in Nat \X Nat
            /\ ERC20Capital(Minus(left, TokenAmounts(upper, u))) = ERC20Capital(left) - W * u
            /\ u <= m
        BY <1>1, <2>0, <4>1, PushUpTo
      <4> QED
        BY <4>2 DEF m
    <3> QED
      BY <1>2, <3>2
  <2> QED
    BY <2>1, <2>2
<1> HIDE DEF l, u, left
<1>7. SameIntervals(position')
  <2>1. Pair(Pushed(lower, l), Pushed(upper, u))
    BY <1>1, <1>5, <1>6, PushKeepsWide DEF Pair
  <2> QED
    BY <1>3, <2>1, PairReplaced
<1>8. ERC20Capital(idle') = ERC20Capital(funds) - W * (l + u)
  <2>1. l \in Nat /\ u \in Nat /\ ERC20Capital(funds) \in Nat
    BY <1>2, <1>5, <1>6, PairElements
  <2>2. W * (l + u) = W * l + W * u /\ W * l \in Nat /\ W * u \in Nat
    BY <1>1, <2>1
  <2> QED
    BY <1>3, <1>5, <1>6, <2>1, <2>2
<1> QED
  BY <1>3, <1>5, <1>6, <1>7, <1>8

(* Capital ends between where it was and the target, and past the target   *)
(* by no more than the fees that a rebalance collects.                     *)
CapitalBounds(lower, upper, funds, goal) ==
    LET e == ERC20Capital(funds)
        fees == ERC20Capital(lower.owed) + ERC20Capital(upper.owed)
    IN  \/ ERC20Capital(idle') = e
        \/ (goal > e /\ e <= ERC20Capital(idle') /\ ERC20Capital(idle') <= goal + fees)
        \/ (goal < e /\ goal <= ERC20Capital(idle') /\ ERC20Capital(idle') <= e)

Goal(total) == ShareOf(total, erc20UniV3CapitalRatioD)

LEMMA MoveCapitalBounds ==
    ASSUME PositionsInv, NEW lower, NEW upper, Pair(lower, upper), NEW funds \in Nat \X Nat,
           MoveCapital(lower, upper, funds)
    PROVE  /\ SameIntervals(position') /\ idle' \in Nat \X Nat
           /\ CapitalBounds(lower, upper, funds,
                            Goal(ERC20Capital(funds) + SumUniV3Capital(lower, upper)))
<1> DEFINE sum == SumUniV3Capital(lower, upper)
           e == ERC20Capital(funds)
           fees == ERC20Capital(lower.owed) + ERC20Capital(upper.owed)
           change == LiquidityDelta(e, sum, erc20UniV3CapitalRatioD,
                                    minErc20UniV3CapitalRatioDeviationD)
           delta == change.delta
           pct == (D * delta) \div sum
           goal == Goal(e + sum)
           L == lower.liquidity
           U == upper.liquidity
           l == Part(lower, pct)
           u == Part(upper, pct)
           then == ERC20Capital(idle')
<1>1. Wide(lower) /\ Wide(upper)
  BY DEF Pair
<1>2. /\ sum = W * (L + U) + fees /\ sum \in Nat /\ L \in Nat /\ U \in Nat /\ fees \in Nat
      /\ W \in Nat
  <2> DEFINE a == ERC20Capital(lower.owed)
             b == ERC20Capital(upper.owed)
  <2>1. /\ UniV3Capital(lower) = W * L + a /\ L \in Nat /\ a \in Nat
        /\ UniV3Capital(upper) = W * U + b /\ U \in Nat /\ b \in Nat /\ W \in Nat
    BY <1>1, CapitalOfPosition, TickAssumption
  <2>2. sum = UniV3Capital(lower) + UniV3Capital(upper) /\ fees = a + b
    BY DEF SumUniV3Capital
  <2> HIDE DEF a, b, L, U, sum, fees
  <2>3. W * (L + U) = W * L + W * U /\ W * L \in Nat /\ W * U \in Nat
    BY <2>1
  <2> QED
    BY <2>1, <2>2, <2>3
<1>3. e \in Nat
  BY PairElements
<1>4. /\ goal \in Nat /\ goal <= e + sum /\ delta \in Nat /\ change.isNegative \in BOOLEAN
      /\ delta > 0 => /\ change.isNegative => goal > e /\ delta = goal - e
                      /\ ~change.isNegative => goal <= e /\ delta = e - goal
  <2>1. erc20UniV3CapitalRatioD \in 0..D /\ minErc20UniV3CapitalRatioDeviationD \in Nat
    BY PositionParamsAssumption
  <2>2. DeltaFits(e, e + sum, erc20UniV3CapitalRatioD, goal, change)
    <3> HIDE DEF e, sum
    <3> QED
      BY <1>2, <1>3, <2>1, DeltaToTarget DEF Goal
  <2> HIDE DEF e, sum, goal, change
  <2> QED
    BY <2>2 DEF DeltaFits
<1>5. \/ /\ delta = 0
         /\ position' = [position EXCEPT ![lowerVault] = lower, ![upperVault] = upper]
         /\ idle' = funds
      \/ /\ delta > 0 /\ sum > 0 /\ change.isNegative
         /\ GatherCapital(lower, upper, funds, pct)
      \/ /\ delta > 0 /\ sum > 0 /\ ~change.isNegative
         /\ SpreadCapital(lower, upper, funds, pct)
  BY DEF MoveCapital
<1>6. sum > 0 => /\ pct \in Nat /\ l \in Nat /\ u \in Nat /\ W * (l + u) <= delta
                 /\ delta <= sum => pct <= D
  <2> HIDE DEF sum, delta, fees
  <2> SUFFICES ASSUME sum > 0
               PROVE  /\ pct \in Nat /\ l \in Nat /\ u \in Nat /\ W * (l + u) <= delta
                      /\ delta <= sum => pct <= D
    OBVIOUS
  <2>1. sum \in Nat \ {0} /\ D * delta \in Nat
    BY <1>2, <1>4, DenominatorAssumption
  <2>2. pct \in Nat
    BY <2>1, DivBounds
  <2>3. pct = (D * delta) \div sum
    OBVIOUS
  <2>4. l = (pct * L) \div D /\ u = (pct * U) \div D
    BY DEF Part
  <2> HIDE DEF pct, l, u, L, U
  <2> QED
    BY <1>2, <1>4, <2>1, <2>2, <2>3, <2>4, PercentageOfLiquidity
<1>7. CASE delta = 0
  <2>1. /\ position' = [position EXCEPT ![lowerVault] = lower, ![upperVault] = upper]
        /\ idle' = funds
    BY <1>5, <1>7
  <2>2. SameIntervals(position')
    BY <2>1, PairReplaced
  <2> QED
    BY <2>1, <2>2 DEF CapitalBounds
<1>8. CASE delta > 0 /\ sum > 0 /\ change.isNegative /\ GatherCapital(lower, upper, funds, pct)
  <2>1. goal > e /\ delta = goal - e /\ delta <= sum
    <3> HIDE DEF goal, e, delta, sum
    <3> QED
      BY <1>2, <1>3, <1>4, <1>8
  <2>2. pct \in Nat /\ pct <= D /\ W * (l + u) <= delta /\ l \in Nat /\ u \in Nat
    BY <1>6, <1>8, <2>1
  <2>3. /\ SameIntervals(position') /\ idle' \in Nat \X Nat
        /\ then = e + ERC20Capital(lower.owed) + ERC20Capital(upper.owed) + W * (l + u)
    <3> HIDE DEF pct
    <3> QED
      BY <1>8, <2>2, GatherMoves
  <2>4. e <= then /\ then <= goal + fees
    <3> DEFINE a == ERC20Capital(lower.owed)
               b == ERC20Capital(upper.owed)
               moved == W * (l + u)
    <3>1. fees = a + b /\ then = e + a + b + moved /\ moved <= delta
      BY <2>2, <2>3
    <3>2. a \in Nat /\ b \in Nat /\ moved \in Nat
      <4>1. a \in Nat /\ b \in Nat
        BY <1>1, CapitalOfPosition
      <4> HIDE DEF l, u, a, b
      <4> QED
        BY <1>2, <2>2, <4>1
    <3> HIDE DEF a, b, moved, then, goal, e, delta, fees
    <3> QED
      BY <1>3, <1>4, <2>1, <3>1, <3>2
  <2> QED
    BY <2>1, <2>3, <2>4 DEF CapitalBounds
<1>9. CASE delta > 0 /\ sum > 0 /\ ~change.isNegative /\ SpreadCapital(lower, upper, funds, pct)
  <2>1. goal < e /\ delta = e - goal
    <3> HIDE DEF goal, e, delta, sum
    <3> QED
      BY <1>2, <1>3, <1>4, <1>9
  <2>2. pct \in Nat /\ W * (l + u) <= delta /\ l \in Nat /\ u \in Nat
    BY <1>6, <1>9
  <2>3. /\ SameIntervals(position') /\ idle' \in Nat \X Nat
        /\ \E m \in 0..l, n \in 0..u : then = e - W * (m + n)
    <3> HIDE DEF pct
    <3> QED
      BY <1>9, <2>2, SpreadMoves
  <2>4. goal <= then /\ then <= e
    <3>1. PICK m \in 0..l, n \in 0..u : then = e - W * (m + n)
      BY <2>3
    <3> HIDE DEF l, u, then, goal, e, delta
    <3>2. m \in Nat /\ n \in Nat /\ m + n <= l + u
      BY <2>2
    <3>3. W * (m + n) = (m + n) * W /\ W * (l + u) = (l + u) * W /\ W * (m + n) \in Nat
      BY <1>2, <2>2, <3>2
    <3>4. W * (m + n) <= delta
      <4>1. (m + n) * W <= (l + u) * W
        BY <1>2, <2>2, <3>2, TimesKeepsOrder
      <4>2. W * (l + u) \in Nat /\ delta \in Nat
        BY <1>2, <1>4, <2>2
      <4> QED
        BY <2>2, <3>3, <4>1, <4>2
    <3> QED
      BY <1>3, <1>4, <2>1, <3>1, <3>3, <3>4
  <2> QED
    BY <2>1, <2>3, <2>4 DEF CapitalBounds
<1> QED
  BY <1>5, <1>7, <1>8, <1>9

LEMMA OpenAndMoveCapitalKeeps ==
    ASSUME PositionsInv, NEW lower, NEW upper, Pair(lower, upper),
           OpenAndMoveCapital(lower, upper)
    PROVE  SameIntervals(position') /\ idle' \in Nat \X Nat
<1> DEFINE l == PushedLiquidity(lower, Both(Existential), idle)
           left == Minus(idle, TokenAmounts(lower, l))
           u == PushedLiquidity(upper, Both(Existential), left)
           rest == Minus(left, TokenAmounts(upper, u))
<1>1. Wide(lower) /\ Wide(upper) /\ idle \in Nat \X Nat /\ tick \in Int
  BY Positions DEF Pair
<1>2. Both(Existential) \in Nat \X Nat
  BY PositionParamsAssumption DEF Both
<1>3. l = PushedLiquidity(lower, Both(Existential), idle)
  OBVIOUS
<1>4. left = Minus(idle, TokenAmounts(lower, l))
  OBVIOUS
<1>5. u = PushedLiquidity(upper, Both(Existential), left)
  OBVIOUS
<1>6. rest = Minus(left, TokenAmounts(upper, u))
  OBVIOUS
<1>7. MoveCapital(Pushed(lower, l), Pushed(upper, u), rest)
  BY DEF OpenAndMoveCapital
<1> HIDE DEF l, left, u, rest
<1>8. l \in Nat /\ left \in Nat \X Nat
  BY <1>1, <1>2, <1>3, <1>4, PushFits
<1>9. u \in Nat /\ rest \in Nat \X Nat
  BY <1>1, <1>2, <1>5, <1>6, <1>8, PushFits
<1>10. Pair(Pushed(lower, l), Pushed(upper, u))
  BY <1>1, <1>8, <1>9, PushKeepsWide DEF Pair
<1> QED
  BY <1>7, <1>9, <1>10, MoveCapitalBounds

LEMMA CapitalRebalanced ==
    ASSUME PositionsInv, RebalanceERC20UniV3Vaults
    PROVE  LET lower == position[lowerVault]  upper == position[upperVault]
               sum == SumUniV3Capital(lower, upper)
           IN  /\ SameIntervals(position') /\ idle' \in Nat \X Nat
               /\ sum # 0 => CapitalBounds(lower, upper, idle, Goal(ERC20Capital(idle) + sum))
<1> DEFINE lower == position[lowerVault]
           upper == position[upperVault]
           sum == SumUniV3Capital(lower, upper)
<1>1. Pair(lower, upper) /\ idle \in Nat \X Nat
  BY Positions DEF Pair
<1>2. CASE sum = 0
  <2>1. OpenAndMoveCapital(lower, upper)
    BY <1>2 DEF RebalanceERC20UniV3Vaults
  <2> HIDE DEF lower, upper
  <2>2. SameIntervals(position') /\ idle' \in Nat \X Nat
    BY <1>1, <2>1, OpenAndMoveCapitalKeeps
  <2> QED
    BY <1>2, <2>2 DEF lower, upper
<1>3. CASE sum # 0
  <2>1. MoveCapital(lower, upper, idle)
    BY <1>3 DEF RebalanceERC20UniV3Vaults
  <2> HIDE DEF lower, upper
  <2>2. /\ SameIntervals(position') /\ idle' \in Nat \X Nat
        /\ CapitalBounds(lower, upper, idle, Goal(ERC20Capital(idle) + sum))
    BY <1>1, <2>1, MoveCapitalBounds
  <2> QED
    BY <2>2 DEF lower, upper
<1> QED
  BY <1>2, <1>3

(* Capital between where it was and the target is nearer to the target.    *)
LEMMA BoundsMeetTarget ==
    ASSUME NEW k \in Nat \ {0}, NEW e \in Nat, NEW then \in Nat, NEW fees \in Nat,
           NEW goal \in Nat, NEW share \in Nat, goal * k <= share, share < goal * k + k,
           \/ then = e
           \/ (goal > e /\ e <= then /\ then <= goal + fees)
           \/ (goal < e /\ goal <= then /\ then <= e)
    PROVE  /\ e * k - share >= 0 => -k < then * k - share /\ then * k - share <= e * k - share
           /\ ~(e * k - share >= 0) =>
                 e * k - share <= then * k - share /\ then * k - share <= k * fees
<1>1. /\ e * k \in Nat /\ then * k \in Nat /\ goal * k \in Nat /\ fees * k \in Nat
      /\ k * fees = fees * k
  OBVIOUS
<1>2. CASE then = e
  BY <1>1, <1>2
<1>3. CASE goal > e /\ e <= then /\ then <= goal + fees
  <2>1. (e + 1) * k <= goal * k /\ (e + 1) * k = e * k + k
    BY <1>3, TimesKeepsOrder
  <2>2. e * k <= then * k
    BY <1>3, TimesKeepsOrder
  <2>3. then * k <= (goal + fees) * k /\ (goal + fees) * k = goal * k + fees * k
    BY <1>3, TimesKeepsOrder
  <2>4. e * k < share
    BY <1>1, <2>1
  <2> QED
    BY <1>1, <2>2, <2>3, <2>4
<1>4. CASE goal < e /\ goal <= then /\ then <= e
  <2>1. (goal + 1) * k <= e * k /\ (goal + 1) * k = goal * k + k
    BY <1>4, TimesKeepsOrder
  <2>2. goal * k <= then * k /\ then * k <= e * k
    BY <1>4, TimesKeepsOrder
  <2> QED
    BY <1>1, <2>1, <2>2
<1> QED
  BY <1>2, <1>3, <1>4

LEMMA CapitalMeetsTarget ==
    ASSUME PositionsInv, RebalanceERC20UniV3Vaults,
           SumUniV3Capital(position[lowerVault], position[upperVault]) > 0
    PROVE  LET sum == SumUniV3Capital(position[lowerVault], position[upperVault])
               total == ERC20Capital(idle) + sum
               excess == ERC20Capital(idle) * D - erc20UniV3CapitalRatioD * total
               excessThen == ERC20Capital(idle') * D - erc20UniV3CapitalRatioD * total
               fees == ERC20Capital(Plus(position[lowerVault].owed, position[upperVault].owed))
           IN  IF excess >= 0 THEN -D < excessThen /\ excessThen <= excess
               ELSE excess <= excessThen /\ excessThen <= D * fees
<1> DEFINE lower == position[lowerVault]
           upper == position[upperVault]
           sum == SumUniV3Capital(lower, upper)
           e == ERC20Capital(idle)
           total == e + sum
           goal == Goal(total)
           share == erc20UniV3CapitalRatioD * total
           then == ERC20Capital(idle')
           fees == ERC20Capital(Plus(lower.owed, upper.owed))
<1>1. Wide(lower) /\ Wide(upper) /\ idle \in Nat \X Nat
  BY Positions
<1>2. /\ fees = ERC20Capital(lower.owed) + ERC20Capital(upper.owed)
      /\ fees \in Nat /\ sum \in Nat
  <2>1. /\ UniV3Capital(lower) \in Nat /\ ERC20Capital(lower.owed) \in Nat
        /\ UniV3Capital(upper) \in Nat /\ ERC20Capital(upper.owed) \in Nat
        /\ lower.owed \in Nat \X Nat /\ upper.owed \in Nat \X Nat
    BY <1>1, CapitalOfPosition
  <2>2. fees = ERC20Capital(lower.owed) + ERC20Capital(upper.owed)
    BY <2>1, SumsOfPairs
  <2>3. sum = UniV3Capital(lower) + UniV3Capital(upper)
    BY DEF SumUniV3Capital
  <2> HIDE DEF lower, upper, fees, sum
  <2> QED
    BY <2>1, <2>2, <2>3
<1>3. SameIntervals(position') /\ idle' \in Nat \X Nat
      /\ CapitalBounds(lower, upper, idle, goal)
  <2>1. sum # 0
    BY <1>2
  <2> QED
    BY <2>1, CapitalRebalanced
<1>4. e \in Nat /\ then \in Nat
  BY <1>1, <1>3, PairElements
<1>5. /\ \/ then = e
         \/ (goal > e /\ e <= then /\ then <= goal + fees)
         \/ (goal < e /\ goal <= then /\ then <= e)
  BY <1>2, <1>3 DEF CapitalBounds
<1>6. goal \in Nat /\ goal * D <= share /\ share < goal * D + D
  <2>1. erc20UniV3CapitalRatioD \in 0..D /\ minErc20UniV3CapitalRatioDeviationD \in Nat
    BY PositionParamsAssumption
  <2> HIDE DEF e, sum
  <2>2. DeltaFits(e, total, erc20UniV3CapitalRatioD, goal,
            LiquidityDelta(e, sum, erc20UniV3CapitalRatioD, minErc20UniV3CapitalRatioDeviationD))
    BY <1>2, <1>4, <2>1, DeltaToTarget DEF Goal
  <2> HIDE DEF total, goal
  <2> QED
    BY <2>2 DEF DeltaFits
<1>7. share \in Nat /\ D \in Nat \ {0}
  <2>1. erc20UniV3CapitalRatioD \in Nat /\ D \in Nat \ {0}
    BY PositionParamsAssumption, DenominatorAssumption
  <2> HIDE DEF e, sum
  <2> QED
    BY <1>2, <1>4, <2>1
<1> HIDE DEF lower, upper, sum, e, total, goal, share, then, fees
<1>8. /\ e * D - share >= 0 => -D < then * D - share /\ then * D - share <= e * D - share
      /\ ~(e * D - share >= 0) =>
            e * D - share <= then * D - share /\ then * D - share <= D * fees
  BY <1>2, <1>4, <1>5, <1>6, <1>7, BoundsMeetTarget
<1> QED
  BY <1>8 DEF lower, upper, sum, e, total, share, then, fees

-----------------------------------------------------------------------------
(* Liquidity from one position to the other.                               *)

(* What a cut leaves can be paid, and so can less of it.                   *)
LEMMA ScaledQuotient ==
    ASSUME NEW k \in Nat \ {0}, NEW x \in Nat, NEW l \in Nat
    PROVE  ((x * k) * l) \div k = x * l
<1>1. x * l \in Nat /\ (x * k) * l = (x * l) * k /\ (x * k) * l \in Nat
  OBVIOUS
<1> DEFINE n == (x * k) * l
<1>2. n \in Nat /\ n = (x * l) * k
  BY <1>1
<1> HIDE DEF n
<1>3. n \div k \in Nat
  BY <1>2, DivBounds
<1>4. x * l <= n \div k /\ n \div k <= x * l
  BY <1>1, <1>2, QuotientAbove, QuotientBelow
<1> QED
  BY <1>1, <1>3, <1>4 DEF n

LEMMA LessIsPaid ==
    ASSUME NEW i \in Nat, NEW give \in Nat, NEW need \in Nat, NEW l \in Nat, NEW r \in 0..l,
           need * l <= i + give * l
    PROVE  need * r <= i + give * r
<1>1. CASE need <= give
  <2>1. need * r <= give * r /\ need * r \in Nat /\ give * r \in Nat
    BY <1>1, TimesKeepsOrder
  <2> QED
    BY <2>1
<1>2. CASE give < need
  <2> DEFINE m == need - give
  <2>1. m \in Nat /\ need = give + m
    BY <1>2
  <2> HIDE DEF m
  <2>2. need * l = give * l + m * l /\ need * r = give * r + m * r
    BY <2>1
  <2>3. r * m <= l * m /\ r * m = m * r /\ l * m = m * l
    BY <2>1, TimesKeepsOrder
  <2>4. give * l \in Nat /\ give * r \in Nat /\ m * l \in Nat /\ m * r \in Nat
    BY <2>1
  <2> QED
    BY <2>2, <2>3, <2>4
<1> QED
  BY <1>1, <1>2

LEMMA CutIsPaid ==
    ASSUME NEW k \in Nat \ {0}, NEW i \in Nat, NEW give \in Nat, NEW need \in Nat,
           NEW l \in Nat, NEW r,
           r = IF i + ((give * k) * l) \div k < ((need * k) * l) \div k
               THEN Least(l, (i * k) \div (need * k - give * k)) ELSE l
    PROVE  r \in 0..l /\ need * r <= i + give * r
<1>1. ((give * k) * l) \div k = give * l /\ ((need * k) * l) \div k = need * l
  BY ScaledQuotient
<1>2. give * l \in Nat /\ need * l \in Nat
  OBVIOUS
<1>3. CASE ~(i + give * l < need * l)
  <2>1. r = l
    BY <1>1, <1>3
  <2> QED
    BY <1>2, <1>3, <2>1
<1>4. CASE i + give * l < need * l
  <2> DEFINE m == need - give
             q == (i * k) \div (need * k - give * k)
  <2>1. give < need
    <3>1. need <= give => need * l <= give * l
      BY TimesKeepsOrder
    <3> QED
      BY <1>2, <1>4, <3>1
  <2>2. m \in Nat \ {0} /\ need = give + m
    BY <2>1
  <2>3. r = Least(l, q)
    BY <1>1, <1>4
  <2>4. q = (i * k) \div (m * k)
    <3>1. need * k - give * k = m * k
      OBVIOUS
    <3> QED
      BY <3>1
  <2> HIDE DEF m, q
  <2>5. m * k \in Nat \ {0} /\ i * k \in Nat
    <3>1. 1 * k <= m * k
      BY <2>2, TimesKeepsOrder
    <3> QED
      BY <2>2, <3>1
  <2>6. q \in Nat /\ q * (m * k) <= i * k
    BY <2>4, <2>5, DivBounds
  <2>7. q * m <= i
    <3>1. q * (m * k) = (q * m) * k /\ q * m \in Nat
      BY <2>2, <2>6
    <3> QED
      BY <2>6, <3>1, TimesReflectsOrder
  <2>8. r \in Nat /\ r <= l /\ r <= q
    BY <2>3, <2>6 DEF Least
  <2>9. need * r <= i + give * r
    <3>1. r * m <= q * m
      BY <2>2, <2>6, <2>8, TimesKeepsOrder
    <3>2. need * r = give * r + r * m
      BY <2>2, <2>8
    <3>3. r * m \in Nat /\ q * m \in Nat /\ give * r \in Nat
      BY <2>2, <2>6, <2>8
    <3> QED
      BY <2>7, <3>1, <3>2, <3>3
  <2> QED
    BY <2>8, <2>9
<1> QED
  BY <1>3, <1>4

LEMMA AffordableIsPaid ==
    ASSUME NEW from, Wide(from), NEW to, Wide(to), tick \in Int, idle \in Nat \X Nat,
           NEW l \in Nat, NEW r, r = AffordableLiquidity(from, to, l)
    PROVE  /\ r \in 0..l
           /\ \A t \in 1..2 : PerLiquidity(to)[t] * r <= idle[t] + PerLiquidity(from)[t] * r
<1> DEFINE Cut(m, t) ==
              IF idle[t] + ((PerLiquidity(from)[t] * D) * m) \div D
                   < ((PerLiquidity(to)[t] * D) * m) \div D
              THEN Least(m, (idle[t] * D) \div (PerLiquidity(to)[t] * D - PerLiquidity(from)[t] * D))
              ELSE m
           first == Cut(l, 1)
           second == Cut(first, 2)
<1>1. D \in Nat \ {0} /\ \A t \in 1..2 : t = 1 \/ t = 2
  BY DenominatorAssumption
<1>2. \A t \in 1..2 : PerLiquidity(from)[t] \in Nat /\ PerLiquidity(to)[t] \in Nat /\ idle[t] \in Nat
  BY <1>1, TicksOfPosition, PairElements
<1>3. r = second
  <2>1. D \in Nat
    BY <1>1
  <2>2. \A t \in 1..2 : /\ TokenAmounts(to, D)[t] = PerLiquidity(to)[t] * D
                        /\ TokenAmounts(from, D)[t] = PerLiquidity(from)[t] * D
    BY <2>1, AmountsOfLiquidity
  <2>3. /\ TokenAmounts(to, D)[1] = PerLiquidity(to)[1] * D
        /\ TokenAmounts(from, D)[1] = PerLiquidity(from)[1] * D
        /\ TokenAmounts(to, D)[2] = PerLiquidity(to)[2] * D
        /\ TokenAmounts(from, D)[2] = PerLiquidity(from)[2] * D
    BY <2>2
  <2> QED
    BY <2>3 DEF AffordableLiquidity
<1>4. first \in 0..l /\ PerLiquidity(to)[1] * first <= idle[1] + PerLiquidity(from)[1] * first
  <2>1. PerLiquidity(from)[1] \in Nat /\ PerLiquidity(to)[1] \in Nat /\ idle[1] \in Nat
    BY <1>2
  <2> QED
    BY <1>1, <2>1, CutIsPaid
<1>5. /\ second \in 0..first
      /\ PerLiquidity(to)[2] * second <= idle[2] + PerLiquidity(from)[2] * second
  <2> HIDE DEF first
  <2>1. PerLiquidity(from)[2] \in Nat /\ PerLiquidity(to)[2] \in Nat /\ idle[2] \in Nat
        /\ first \in Nat
    BY <1>2, <1>4
  <2> QED
    BY <1>1, <2>1, CutIsPaid
<1> HIDE DEF first, second
<1>6. PerLiquidity(to)[1] * second <= idle[1] + PerLiquidity(from)[1] * second
  <2>1. PerLiquidity(from)[1] \in Nat /\ PerLiquidity(to)[1] \in Nat /\ idle[1] \in Nat
        /\ first \in Nat
    BY <1>2, <1>4
  <2> QED
    BY <1>4, <1>5, <2>1, LessIsPaid
<1>7. second \in 0..l
  BY <1>4, <1>5
<1> QED
  BY <1>1, <1>3, <1>5, <1>6, <1>7

LEMMA MoveLiquidityKeeps ==
    ASSUME PositionsInv, NEW from \in Vault, NEW to \in Vault, from # to,
           NEW withdrawn \in Nat, withdrawn <= position[from].liquidity, NEW deposited \in Nat,
           MoveLiquidity(from, to, withdrawn, deposited)
    PROVE  /\ SameIntervals(position') /\ idle' \in Nat \X Nat
           /\ position'[from].liquidity = position[from].liquidity - withdrawn
           /\ (\A t \in 1..2 : PerLiquidity(position[to])[t] * deposited
                  <= idle[t] + PerLiquidity(position[from])[t] * withdrawn)
                => position'[to].liquidity = position[to].liquidity + deposited
<1> DEFINE given == PullFunds(position[from], withdrawn)
           funds == Plus(idle, given)
           pushed == PushedLiquidity(position[to], TokenAmounts(position[to], deposited), funds)
<1>1. /\ Wide(position[from]) /\ Wide(position[to]) /\ tick \in Int /\ idle \in Nat \X Nat
      /\ position \in [Vault -> Position]
  BY Positions
<1>2. /\ given \in Nat \X Nat
      /\ \A t \in 1..2 : given[t] = position[from].owed[t]
                                      + PerLiquidity(position[from])[t] * withdrawn
  BY <1>1, FundsPulled
<1>3. funds \in Nat \X Nat /\ \A t \in 1..2 : funds[t] = idle[t] + given[t]
  <2> HIDE DEF given
  <2> QED
    BY <1>1, <1>2, SumsOfPairs
<1>4. pushed = PushedLiquidity(position[to], TokenAmounts(position[to], deposited), funds)
  OBVIOUS
<1>5. /\ position' = [position EXCEPT ![from] = Pulled(@, withdrawn), ![to] = Pushed(@, pushed)]
      /\ idle' = Minus(funds, TokenAmounts(position[to], pushed))
  BY DEF MoveLiquidity
<1> HIDE DEF given, funds, pushed
<1>6. /\ pushed \in Nat /\ idle' \in Nat \X Nat
      /\ Pays(funds, position[to], deposited) => pushed = deposited
  BY <1>1, <1>3, <1>4, <1>5, PushUpTo
<1> DEFINE p == Pulled(position[from], withdrawn)
           q == Pushed(position[to], pushed)
<1>7. /\ Wide(p) /\ p.tickLower = position[from].tickLower
      /\ p.liquidity = position[from].liquidity - withdrawn
  BY <1>1, PullKeepsWide
<1>8. /\ Wide(q) /\ q.tickLower = position[to].tickLower
      /\ q.liquidity = position[to].liquidity + pushed
  BY <1>1, <1>6, PushKeepsWide
<1>9. position' = [position EXCEPT ![from] = p, ![to] = q]
  BY <1>1, <1>5
<1> HIDE DEF p, q
<1>10. SameIntervals(position')
  BY <1>7, <1>8, <1>9, TwoReplaced
<1>11. position'[from] = p /\ position'[to] = q
  BY <1>1, <1>9
<1>12. ASSUME \A t \in 1..2 : PerLiquidity(position[to])[t] * deposited
                 <= idle[t] + PerLiquidity(position[from])[t] * withdrawn
       PROVE  Pays(funds, position[to], deposited)
  <2> SUFFICES ASSUME NEW t \in 1..2
               PROVE  PerLiquidity(position[to])[t] * deposited <= funds[t]
    BY DEF Pays
  <2> DEFINE a == PerLiquidity(position[to])[t] * deposited
             b == PerLiquidity(position[from])[t] * withdrawn
             o == position[from].owed[t]
             i == idle[t]
  <2>1. a <= i + b /\ funds[t] = i + (o + b)
    BY <1>2, <1>3, <1>12
  <2>2. a \in Nat /\ b \in Nat
    <3>1. /\ TokenAmounts(position[to], deposited) \in Nat \X Nat
          /\ TokenAmounts(position[to], deposited)[t] = a
          /\ TokenAmounts(position[from], withdrawn) \in Nat \X Nat
          /\ TokenAmounts(position[from], withdrawn)[t] = b
      BY <1>1, AmountsOfLiquidity
    <3> QED
      BY <3>1, PairElements
  <2>3. o \in Nat /\ i \in Nat
    <3>1. position[from].owed \in Nat \X Nat
      BY <1>1 DEF Position
    <3> QED
      BY <1>1, <3>1, PairElements
  <2> HIDE DEF a, b, o, i
  <2>4. a <= funds[t]
    BY <2>1, <2>2, <2>3
  <2> QED
    BY <2>4 DEF a
<1> QED
  BY <1>6, <1>7, <1>8, <1>10, <1>11, <1>12

(* An interval and its middle.                                             *)
LEMMA MidOfWide ==
    ASSUME NEW p, Wide(p)
    PROVE  /\ Mid(p) = p.tickLower + W \div 2 /\ p.tickLower \in Int
           /\ p.tickUpper = p.tickLower + W
           /\ W \div 2 \in Nat \ {0} /\ W = W \div 2 + W \div 2 /\ Mid(p) \in Int
<1>1. /\ W \in Nat \ {0} /\ W % 2 = 0
      /\ p.tickLower \in Int /\ p.tickUpper = p.tickLower + W
  BY TickAssumption DEF Wide, Position
<1> QED
  BY <1>1 DEF Mid

LEMMA LeaveVaultKeeps ==
    ASSUME PositionsInv, NEW from \in Vault, NEW to \in Vault, from # to, LeaveVault(from, to)
    PROVE  PositionsInv'
<1> DEFINE all == position[from].liquidity
           r == AffordableLiquidity(position[from], position[to], all)
<1>1. /\ Wide(position[from]) /\ Wide(position[to]) /\ tick \in Int /\ idle \in Nat \X Nat
      /\ all \in Nat
  BY Positions DEF Wide, Position
<1>2. r \in Nat
  <2>1. r = AffordableLiquidity(position[from], position[to], all)
    OBVIOUS
  <2> HIDE DEF r, all
  <2>2. r \in 0..all
    BY <1>1, <2>1, AffordableIsPaid
  <2> QED
    BY <1>1, <2>2
<1>3. MoveLiquidity(from, to, all, r) /\ UniV3Rebalanced /\ UNCHANGED <<lowerVault, upperVault>>
  BY DEF LeaveVault
<1>4. all <= position[from].liquidity
  BY <1>1
<1> HIDE DEF r, all
<1>5. SameIntervals(position') /\ idle' \in Nat \X Nat
  BY <1>1, <1>2, <1>3, <1>4, MoveLiquidityKeeps
<1>6. tick' \in Int /\ target' \in Int /\ sinceERC20UniV3' \in Nat /\ sinceUniV3' \in Nat
  BY <1>3 DEF UniV3Rebalanced, marketVars, PositionsInv, PositionsFit, PositionsTypeOK
<1> QED
  BY <1>3, <1>5, <1>6, SameIntervalsKeep

(* The interval that is opened again overlaps by half with the other one.  *)
LEMMA SwapVaultsKeeps ==
    ASSUME PositionsInv, NEW from \in Vault, NEW to \in Vault, NEW up \in BOOLEAN,
           SwapVaults(from, to, up),
           \/ up = FALSE /\ from = upperVault /\ to = lowerVault
           \/ up = TRUE /\ from = lowerVault /\ to = upperVault
    PROVE  PositionsInv'
<1> DEFINE other == position[to]
           mid == Mid(other)
           interval == NextInterval(other, up)
           new == [tickLower |-> interval[1], tickUpper |-> interval[2],
                   liquidity |-> OpeningLiquidity, owed |-> NoTokens]
<1>1. /\ Wide(other) /\ idle \in Nat \X Nat /\ position \in [Vault -> Position]
      /\ position[from].owed \in Nat \X Nat /\ from # to
      /\ lowerVault \in Vault /\ upperVault \in Vault
  BY Positions DEF Position
<1>2. /\ mid = other.tickLower + W \div 2 /\ other.tickLower \in Int
      /\ other.tickUpper = other.tickLower + W
      /\ W \div 2 \in Nat /\ W = W \div 2 + W \div 2 /\ mid \in Int /\ W \in Nat
  BY <1>1, MidOfWide, TickAssumption
<1>3. /\ position' = [position EXCEPT ![from] = new]
      /\ idle' = Plus(idle, position[from].owed)
      /\ lowerVault' = upperVault /\ upperVault' = lowerVault
      /\ UniV3Rebalanced
  BY DEF SwapVaults
<1>4. /\ up => interval[1] = mid /\ interval[2] = mid + W
      /\ ~up => interval[1] = mid - W /\ interval[2] = mid
  BY DEF NextInterval
<1>5. /\ new \in Position
      /\ up => new.tickLower = mid /\ new.tickUpper = mid + W
      /\ ~up => new.tickLower = mid - W /\ new.tickUpper = mid
  <2>1. interval[1] \in Int /\ interval[2] \in Int
    BY <1>2, <1>4
  <2>2. OpeningLiquidity \in Nat /\ NoTokens \in Nat \X Nat
    BY PositionParamsAssumption DEF NoTokens
  <2> HIDE DEF interval, mid
  <2> QED
    BY <1>4, <2>1, <2>2 DEF Position
<1> HIDE DEF new, mid, interval
<1>6. position' \in [Vault -> Position] /\ position'[from] = new /\ position'[to] = other
  BY <1>1, <1>3, <1>5
<1>7. idle' \in Nat \X Nat
  BY <1>1, <1>3, SumsOfPairs
<1>8. PositionsTypeOK'
  BY <1>3, <1>6, <1>7 DEF PositionsInv, PositionsFit, PositionsTypeOK, UniV3Rebalanced
<1>9. IntervalsOverlapByHalf'
  <2>1. CASE up = FALSE /\ from = upperVault /\ to = lowerVault
    <3>1. lowerVault' = from /\ upperVault' = to
      BY <1>3, <2>1
    <3>2. position'[lowerVault'] = new /\ position'[upperVault'] = other
      BY <1>6, <3>1
    <3>3. new.tickLower = mid - W /\ new.tickUpper = mid
      BY <1>5, <2>1
    <3>4. /\ other.tickLower = new.tickLower + W \div 2
          /\ new.tickUpper = new.tickLower + W
          /\ other.tickUpper = other.tickLower + W
      BY <1>2, <3>3
    <3> HIDE DEF other
    <3> QED
      BY <3>2, <3>4 DEF IntervalsOverlapByHalf
  <2>2. CASE up = TRUE /\ from = lowerVault /\ to = upperVault
    <3>1. upperVault' = from /\ lowerVault' = to
      BY <1>3, <2>2
    <3>2. position'[upperVault'] = new /\ position'[lowerVault'] = other
      BY <1>6, <3>1
    <3>3. new.tickLower = mid /\ new.tickUpper = mid + W
      BY <1>5, <2>2
    <3>4. /\ new.tickLower = other.tickLower + W \div 2
          /\ other.tickUpper = other.tickLower + W
          /\ new.tickUpper = new.tickLower + W
      BY <1>2, <3>3
    <3> HIDE DEF other
    <3> QED
      BY <3>2, <3>4 DEF IntervalsOverlapByHalf
  <2> QED
    BY <2>1, <2>2
<1>10. tick' \in Int /\ target' \in Int
  BY <1>3 DEF UniV3Rebalanced, marketVars, PositionsInv
<1> QED
  BY <1>8, <1>9, <1>10 DEF PositionsInv, PositionsFit

(* Inside the overlap.                                                     *)
LEMMA TargetRatioInOverlap ==
    ASSUME PositionsInv, ~TargetIsBelow, ~TargetIsAbove
    PROVE  D - TargetUniV3LiquidityRatioD \in 0..D
<1> DEFINE p == position[lowerVault]
           mid == Mid(p)
           half == (p.tickUpper - p.tickLower) \div 2
           n == (target - mid) * D
           ratio == TargetUniV3LiquidityRatioD
<1>1. Wide(p) /\ target \in Int /\ D \in Nat \ {0}
  BY Positions, DenominatorAssumption DEF PositionsInv
<1>2. mid \in Int /\ half \in Nat \ {0}
  <2>1. /\ p.tickLower \in Int /\ p.tickUpper = p.tickLower + W /\ W \div 2 \in Nat \ {0}
        /\ mid \in Int /\ W \in Nat
    BY <1>1, MidOfWide, TickAssumption
  <2>2. p.tickUpper - p.tickLower = W
    BY <2>1
  <2> QED
    BY <2>1, <2>2
<1>3. ~(mid > target)
  BY DEF TargetIsBelow
<1>4. ratio = n \div half
  BY DEF TargetUniV3LiquidityRatioD
<1>5. ~(ratio > D)
  BY DEF TargetIsAbove
<1>6. n \in Nat
  <2> DEFINE d == target - mid
  <2>1. d \in Nat
    BY <1>1, <1>2, <1>3
  <2> HIDE DEF d, mid
  <2> QED
    BY <1>1, <2>1 DEF d
<1> HIDE DEF n, half, ratio
<1>7. ratio \in Nat
  BY <1>2, <1>4, <1>6, DivBounds
<1>8. D - ratio \in 0..D
  BY <1>1, <1>5, <1>7
<1> QED
  BY <1>8 DEF ratio

(* What is affordable goes over whole.                                     *)
LEMMA AffordableMovesWhole ==
    ASSUME PositionsInv, NEW from \in Vault, NEW to \in Vault, from # to,
           NEW l \in Nat, l <= position[from].liquidity,
           NEW r, r = AffordableLiquidity(position[from], position[to], l),
           MoveLiquidity(from, to, r, r)
    PROVE  /\ SameIntervals(position') /\ idle' \in Nat \X Nat
           /\ r \in 0..l
           /\ position'[from].liquidity = position[from].liquidity - r
           /\ position'[to].liquidity = position[to].liquidity + r
<1>1. /\ Wide(position[from]) /\ Wide(position[to]) /\ tick \in Int /\ idle \in Nat \X Nat
      /\ position[from].liquidity \in Nat
  BY Positions DEF Wide, Position
<1>2. /\ r \in 0..l
      /\ \A t \in 1..2 : PerLiquidity(position[to])[t] * r
                           <= idle[t] + PerLiquidity(position[from])[t] * r
  BY <1>1, AffordableIsPaid
<1>3. r \in Nat /\ r <= position[from].liquidity
  BY <1>1, <1>2
<1> QED
  BY <1>1, <1>2, <1>3, MoveLiquidityKeeps

LEMMA ShiftLiquidityMeetsTarget ==
    ASSUME PositionsInv, ~TargetIsBelow, ~TargetIsAbove, ShiftLiquidity
    PROVE  /\ SameIntervals(position') /\ idle' \in Nat \X Nat
           /\ UNCHANGED <<lowerVault, upperVault>> /\ UniV3Rebalanced
           /\ LET share == (D - TargetUniV3LiquidityRatioD) * (Lower + Upper)
              IN  /\ Lower' + Upper' = Lower + Upper
                  /\ Lower' > Lower => Lower' * D <= share
                  /\ Lower' < Lower => Lower' * D > share - D
<1> DEFINE ratio == D - TargetUniV3LiquidityRatioD
           change == LiquidityDelta(Lower, Upper, ratio, minUniV3LiquidityRatioDeviationD)
           delta == change.delta
           goal == ShareOf(Lower + Upper, ratio)
           share == ratio * (Lower + Upper)
           fromLower == Least(delta, Lower)
           fromUpper == Least(delta, Upper)
           up == AffordableLiquidity(position[lowerVault], position[upperVault], fromLower)
           down == AffordableLiquidity(position[upperVault], position[lowerVault], fromUpper)
<1>1. /\ lowerVault \in Vault /\ upperVault \in Vault /\ lowerVault # upperVault
      /\ Lower \in Nat /\ Upper \in Nat /\ D \in Nat \ {0} /\ idle \in Nat \X Nat
  BY Positions, DenominatorAssumption DEF Lower, Upper
<1>2. ratio \in 0..D
  BY TargetRatioInOverlap
<1>3. DeltaFits(Lower, Lower + Upper, ratio, goal, change)
  <2>1. minUniV3LiquidityRatioDeviationD \in Nat
    BY PositionParamsAssumption
  <2> HIDE DEF ratio
  <2> QED
    BY <1>1, <1>2, <2>1, DeltaToTarget
<1>4. /\ \/ /\ delta = 0
            /\ UNCHANGED <<position, idle>>
         \/ /\ delta > 0 /\ change.isNegative
            /\ MoveLiquidity(upperVault, lowerVault, down, down)
         \/ /\ delta > 0 /\ ~change.isNegative
            /\ MoveLiquidity(lowerVault, upperVault, up, up)
      /\ UniV3Rebalanced /\ UNCHANGED <<lowerVault, upperVault>>
  BY DEF ShiftLiquidity, Lower, Upper
<1>5. down = AffordableLiquidity(position[upperVault], position[lowerVault], fromUpper)
  OBVIOUS
<1>6. up = AffordableLiquidity(position[lowerVault], position[upperVault], fromLower)
  OBVIOUS
<1>7. /\ Lower = position[lowerVault].liquidity /\ Upper = position[upperVault].liquidity
      /\ Lower' = position'[lowerVault].liquidity /\ Upper' = position'[upperVault].liquidity
  BY <1>4 DEF Lower, Upper
<1>8. /\ fromLower = Least(delta, Lower) /\ fromUpper = Least(delta, Upper)
      /\ share = ratio * (Lower + Upper)
  OBVIOUS
<1> HIDE DEF up, down, change, goal, share, ratio, fromLower, fromUpper
<1>9. /\ delta \in Nat /\ goal \in Nat /\ goal * D <= share /\ share < goal * D + D
      /\ delta > 0 /\ change.isNegative => goal > Lower /\ delta = goal - Lower
      /\ delta > 0 /\ ~change.isNegative => goal <= Lower /\ delta = Lower - goal
  BY <1>3, <1>8 DEF DeltaFits
<1>10. share \in Nat
  BY <1>1, <1>2, <1>8
<1> HIDE DEF delta
<1>11. /\ fromLower \in Nat /\ fromLower <= delta /\ fromLower <= Lower
       /\ fromUpper \in Nat /\ fromUpper <= delta /\ fromUpper <= Upper
  BY <1>1, <1>8, <1>9 DEF Least
<1> DEFINE Meets(then, thenUpper) ==
              /\ then + thenUpper = Lower + Upper
              /\ then > Lower => then * D <= share
              /\ then < Lower => then * D > share - D
<1>12. CASE delta = 0 /\ UNCHANGED <<position, idle>>
  <2>1. Lower' = Lower /\ Upper' = Upper
    BY <1>7, <1>12
  <2>2. SameIntervals(position') /\ idle' \in Nat \X Nat
    BY <1>1, <1>12, NothingMoved
  <2>3. Meets(Lower', Upper')
    BY <1>1, <2>1
  <2> QED
    BY <1>4, <2>2, <2>3 DEF share, ratio
<1>13. CASE delta > 0 /\ change.isNegative /\ MoveLiquidity(upperVault, lowerVault, down, down)
  <2>1. /\ SameIntervals(position') /\ idle' \in Nat \X Nat /\ down \in 0..fromUpper
        /\ Upper' = Upper - down /\ Lower' = Lower + down
    <3>1. fromUpper <= position[upperVault].liquidity
      BY <1>7, <1>11
    <3>2. /\ SameIntervals(position') /\ idle' \in Nat \X Nat /\ down \in 0..fromUpper
          /\ position'[upperVault].liquidity = position[upperVault].liquidity - down
          /\ position'[lowerVault].liquidity = position[lowerVault].liquidity + down
      BY <1>1, <1>5, <1>11, <1>13, <3>1, AffordableMovesWhole
    <3> QED
      BY <1>7, <3>2
  <2>2. down \in Nat /\ Lower + down <= goal
    BY <1>1, <1>9, <1>11, <1>13, <2>1
  <2>3. (Lower + down) * D <= goal * D /\ (Lower + down) * D \in Nat /\ goal * D \in Nat
    BY <1>1, <1>9, <2>2, TimesKeepsOrder
  <2>4. Meets(Lower + down, Upper - down)
    BY <1>1, <1>9, <1>10, <2>2, <2>3
  <2>5. Meets(Lower', Upper')
    BY <2>1, <2>4
  <2> QED
    BY <1>4, <2>1, <2>5 DEF share, ratio
<1>14. CASE delta > 0 /\ ~change.isNegative /\ MoveLiquidity(lowerVault, upperVault, up, up)
  <2>1. /\ SameIntervals(position') /\ idle' \in Nat \X Nat /\ up \in 0..fromLower
        /\ Lower' = Lower - up /\ Upper' = Upper + up
    <3>1. fromLower <= position[lowerVault].liquidity
      BY <1>7, <1>11
    <3>2. /\ SameIntervals(position') /\ idle' \in Nat \X Nat /\ up \in 0..fromLower
          /\ position'[lowerVault].liquidity = position[lowerVault].liquidity - up
          /\ position'[upperVault].liquidity = position[upperVault].liquidity + up
      BY <1>1, <1>6, <1>11, <1>14, <3>1, AffordableMovesWhole
    <3> QED
      BY <1>7, <3>2
  <2>2. up \in Nat /\ Lower - up \in Nat /\ goal <= Lower - up
    BY <1>1, <1>9, <1>11, <1>14, <2>1
  <2>3. goal * D <= (Lower - up) * D /\ (Lower - up) * D \in Nat /\ goal * D \in Nat
    BY <1>1, <1>9, <2>2, TimesKeepsOrder
  <2>4. Meets(Lower - up, Upper + up)
    BY <1>1, <1>9, <1>10, <2>2, <2>3
  <2>5. Meets(Lower', Upper')
    BY <2>1, <2>4
  <2> QED
    BY <1>4, <2>1, <2>5 DEF share, ratio
<1> QED
  BY <1>4, <1>12, <1>13, <1>14

-----------------------------------------------------------------------------
(* The invariant, under every step.                                        *)
LEMMA PositionsInvInit == PositionsInit => PositionsInv
<1> SUFFICES ASSUME PositionsInit PROVE PositionsInv
  OBVIOUS
<1>1. /\ W \in Nat \ {0} /\ W % 2 = 0 /\ Vault1 # Vault2
      /\ SecondsBetweenRebalances \in Nat /\ OpeningLiquidity \in Nat
      /\ IdleBalances \subseteq Nat
  BY TickAssumption, VaultAssumption, PositionParamsAssumption
<1>2. W \div 2 \in Int /\ W = W \div 2 + W \div 2
  BY <1>1
<1> DEFINE half == W \div 2
           opened(v) == [tickLower |-> IF v = Vault1 THEN 0 ELSE half,
                         tickUpper |-> IF v = Vault1 THEN W ELSE W + half,
                         liquidity |-> OpeningLiquidity, owed |-> NoTokens]
<1>3. lowerVault = Vault1 /\ upperVault = Vault2 /\ {lowerVault, upperVault} = Vault
  BY DEF PositionsInit, Vault
<1>4. position = [v \in Vault |-> opened(v)]
  BY DEF PositionsInit
<1> HIDE DEF half
<1>5. half \in Int /\ half = W \div 2
  BY <1>2 DEF half
<1>6. NoTokens \in Nat \X Nat
  BY DEF NoTokens
<1>7. \A v \in Vault : opened(v) \in Position
  BY <1>1, <1>5, <1>6 DEF Position
<1>8. position \in [Vault -> Position]
  BY <1>4, <1>7
<1>9. position[lowerVault] = opened(Vault1) /\ position[upperVault] = opened(Vault2)
  BY <1>3, <1>4
<1>10. IntervalsOverlapByHalf
  BY <1>1, <1>5, <1>9 DEF IntervalsOverlapByHalf
<1>11. idle \in Nat \X Nat
  BY <1>1 DEF PositionsInit, Both
<1>12. tick \in Int /\ target \in Int /\ sinceERC20UniV3 \in Nat /\ sinceUniV3 \in Nat
  BY <1>1, <1>2 DEF PositionsInit
<1> QED
  BY <1>3, <1>8, <1>10, <1>11, <1>12 DEF PositionsInv, PositionsFit, PositionsTypeOK

LEMMA RebalanceUniV3VaultsKeeps ==
    ASSUME PositionsInv, RebalanceUniV3Vaults
    PROVE  PositionsInv'
<1>1. lowerVault \in Vault /\ upperVault \in Vault /\ lowerVault # upperVault
  BY Positions
<1>2. CASE LeaveVault(upperVault, lowerVault)
  BY <1>1, <1>2, LeaveVaultKeeps
<1>3. CASE SwapVaults(upperVault, lowerVault, FALSE)
  BY <1>1, <1>3, SwapVaultsKeeps
<1>4. CASE LeaveVault(lowerVault, upperVault)
  BY <1>1, <1>4, LeaveVaultKeeps
<1>5. CASE SwapVaults(lowerVault, upperVault, TRUE)
  BY <1>1, <1>5, SwapVaultsKeeps
<1>6. CASE ~TargetIsBelow /\ ~TargetIsAbove /\ ShiftLiquidity
  <2>1. /\ SameIntervals(position') /\ idle' \in Nat \X Nat
        /\ UNCHANGED <<lowerVault, upperVault>> /\ UniV3Rebalanced
    BY <1>6, ShiftLiquidityMeetsTarget
  <2>2. tick' \in Int /\ target' \in Int /\ sinceERC20UniV3' \in Nat /\ sinceUniV3' \in Nat
    BY <2>1 DEF UniV3Rebalanced, marketVars, PositionsInv, PositionsFit, PositionsTypeOK
  <2> QED
    BY <2>1, <2>2, SameIntervalsKeep
<1> QED
  BY <1>2, <1>3, <1>4, <1>5, <1>6 DEF RebalanceUniV3Vaults

LEMMA PositionsInvStep ==
    ASSUME PositionsInv, [PositionsNext]_positionsVars
    PROVE  PositionsInv'
<1>1. /\ tick \in Int /\ target \in Int /\ sinceERC20UniV3 \in Nat /\ sinceUniV3 \in Nat
      /\ SecondsBetweenRebalances \in Nat /\ Ticks \subseteq Int /\ IdleBalances \subseteq Nat
  BY TickAssumption, PositionParamsAssumption
     DEF PositionsInv, PositionsFit, PositionsTypeOK
<1>2. /\ \A v \in Vault : Wide(position[v])
      /\ position \in [Vault -> Position] /\ idle \in Nat \X Nat
      /\ position[lowerVault].owed \in Nat \X Nat /\ position[upperVault].owed \in Nat \X Nat
  BY Positions
<1>3. CASE RebalanceERC20UniV3Vaults
  <2>1. SameIntervals(position') /\ idle' \in Nat \X Nat
    BY <1>3, CapitalRebalanced
  <2>2. /\ sinceERC20UniV3' = 0
        /\ UNCHANGED <<lowerVault, upperVault, tick, target, sinceUniV3>>
    BY <1>3 DEF RebalanceERC20UniV3Vaults, marketVars
  <2>3. tick' \in Int /\ target' \in Int /\ sinceERC20UniV3' \in Nat /\ sinceUniV3' \in Nat
    BY <1>1, <2>2
  <2> QED
    BY <2>1, <2>2, <2>3, SameIntervalsKeep
<1>4. CASE RebalanceUniV3Vaults
  BY <1>4, RebalanceUniV3VaultsKeeps
<1>5. ASSUME NEW v \in Vault, CollectEarnings(v)
      PROVE  PositionsInv'
  <2> DEFINE p == Emptied(position[v])
  <2>1. /\ position' = [position EXCEPT ![v] = p]
        /\ idle' = Plus(idle, position[v].owed)
        /\ UNCHANGED <<lowerVault, upperVault, tick, target, sinceERC20UniV3, sinceUniV3>>
    BY <1>2, <1>5 DEF CollectEarnings, marketVars, timeVars
  <2>2. /\ Wide(p) /\ p.tickLower = position[v].tickLower /\ position[v].owed \in Nat \X Nat
    <3>1. 0 <= position[v].liquidity /\ Wide(position[v])
      BY <1>2 DEF Wide, Position
    <3> QED
      BY <3>1, PullKeepsWide
  <2> HIDE DEF p
  <2>3. SameIntervals(position')
    BY <2>1, <2>2, OneReplaced
  <2>4. idle' \in Nat \X Nat
    BY <1>2, <2>1, <2>2, SumsOfPairs
  <2>5. tick' \in Int /\ target' \in Int /\ sinceERC20UniV3' \in Nat /\ sinceUniV3' \in Nat
    BY <1>1, <2>1
  <2> QED
    BY <2>1, <2>3, <2>4, <2>5, SameIntervalsKeep
<1>6. CASE CollectUniFees
  <2>1. /\ position' = [v \in Vault |-> Emptied(position[v])]
        /\ idle' = Plus(Plus(idle, position[lowerVault].owed), position[upperVault].owed)
        /\ UNCHANGED <<lowerVault, upperVault, tick, target, sinceERC20UniV3, sinceUniV3>>
    BY <1>6 DEF CollectUniFees, marketVars, timeVars
  <2>2. \A v \in Vault : /\ Wide(Emptied(position[v]))
                         /\ Emptied(position[v]).tickLower = position[v].tickLower
    <3> SUFFICES ASSUME NEW v \in Vault
                 PROVE  /\ Wide(Emptied(position[v]))
                        /\ Emptied(position[v]).tickLower = position[v].tickLower
      OBVIOUS
    <3>1. 0 <= position[v].liquidity /\ Wide(position[v])
      BY <1>2 DEF Wide, Position
    <3> QED
      BY <3>1, PullKeepsWide
  <2>3. SameIntervals(position')
    BY <2>1, <2>2 DEF SameIntervals, Wide
  <2>4. idle' \in Nat \X Nat
    <3>1. Plus(idle, position[lowerVault].owed) \in Nat \X Nat
      BY <1>2, SumsOfPairs
    <3> QED
      BY <1>2, <2>1, <3>1, SumsOfPairs
  <2>5. tick' \in Int /\ target' \in Int /\ sinceERC20UniV3' \in Nat /\ sinceUniV3' \in Nat
    BY <1>1, <2>1
  <2> QED
    BY <2>1, <2>3, <2>4, <2>5, SameIntervalsKeep
<1>7. ASSUME NEW v \in Vault, ManualPull(v)
      PROVE  PositionsInv'
  <2> DEFINE all == position[v].liquidity
             pushed == PushedLiquidity(position[v], Both(Existential), idle)
             p == Pulled(position[v], all)
             q == Pushed(position[v], pushed)
  <2>1. /\ \/ /\ position' = [position EXCEPT ![v] = p]
              /\ idle' = Plus(idle, PullFunds(position[v], all))
           \/ /\ position' = [position EXCEPT ![v] = q]
              /\ idle' = Minus(idle, TokenAmounts(position[v], pushed))
        /\ UNCHANGED <<lowerVault, upperVault, tick, target, sinceERC20UniV3, sinceUniV3>>
    BY <1>2, <1>7 DEF ManualPull, marketVars, timeVars
  <2>2. all \in Nat /\ all <= position[v].liquidity /\ Wide(position[v])
    BY <1>2 DEF Wide, Position
  <2>3. Wide(p) /\ p.tickLower = position[v].tickLower
    BY <2>2, PullKeepsWide
  <2>4. PullFunds(position[v], all) \in Nat \X Nat
    BY <1>1, <2>2, FundsPulled
  <2>5. pushed = PushedLiquidity(position[v], Both(Existential), idle)
    OBVIOUS
  <2>6. Both(Existential) \in Nat \X Nat
    BY PositionParamsAssumption DEF Both
  <2> HIDE DEF p, all, pushed
  <2>7. pushed \in Nat /\ Minus(idle, TokenAmounts(position[v], pushed)) \in Nat \X Nat
    BY <1>1, <1>2, <2>2, <2>5, <2>6, PushFits
  <2>8. Wide(q) /\ q.tickLower = position[v].tickLower
    BY <2>2, <2>7, PushKeepsWide
  <2> HIDE DEF q
  <2>9. SameIntervals(position')
    BY <2>1, <2>3, <2>8, OneReplaced
  <2>10. idle' \in Nat \X Nat
    BY <1>2, <2>1, <2>4, <2>7, SumsOfPairs
  <2>11. tick' \in Int /\ target' \in Int /\ sinceERC20UniV3' \in Nat /\ sinceUniV3' \in Nat
    BY <1>1, <2>1
  <2> QED
    BY <2>1, <2>9, <2>10, <2>11, SameIntervalsKeep
<1>8. ASSUME NEW t \in TokenIndex, NEW b \in IdleBalances, LeaveTokens(t, b)
      PROVE  PositionsInv'
  <2>1. /\ idle' = [idle EXCEPT ![t] = b]
        /\ UNCHANGED <<lowerVault, upperVault, position, tick, target,
                       sinceERC20UniV3, sinceUniV3>>
    BY <1>8 DEF LeaveTokens, marketVars, timeVars
  <2>2. SameIntervals(position')
    BY <2>1, NothingMoved
  <2>3. idle' \in Nat \X Nat
    BY <1>1, <1>2, <2>1, PairEntry DEF TokenIndex
  <2>4. tick' \in Int /\ target' \in Int /\ sinceERC20UniV3' \in Nat /\ sinceUniV3' \in Nat
    BY <1>1, <2>1
  <2> QED
    BY <2>1, <2>2, <2>3, <2>4, SameIntervalsKeep
<1>9. ASSUME NEW v \in Vault, NEW t \in TokenIndex, EarnFees(v, t)
      PROVE  PositionsInv'
  <2> DEFINE owed == [position[v].owed EXCEPT ![t] = @ + 1]
             p == [position[v] EXCEPT !.owed = owed]
  <2>1. /\ position' = [position EXCEPT ![v] = p]
        /\ UNCHANGED <<lowerVault, upperVault, idle, tick, target,
                       sinceERC20UniV3, sinceUniV3>>
    BY <1>2, <1>9 DEF EarnFees, marketVars, timeVars
  <2>2. Wide(position[v]) /\ position[v].owed \in Nat \X Nat
    BY <1>2 DEF Wide, Position
  <2>3. owed \in Nat \X Nat
    <3>1. position[v].owed[t] \in Nat
      BY <2>2, PairElements DEF TokenIndex
    <3>2. position[v].owed[t] + 1 \in Nat
      BY <3>1
    <3> QED
      BY <2>2, <3>2, PairEntry DEF TokenIndex
  <2> HIDE DEF owed
  <2>4. Wide(p) /\ p.tickLower = position[v].tickLower
    BY <2>2, <2>3 DEF Wide, Position
  <2> HIDE DEF p
  <2>5. SameIntervals(position')
    BY <2>1, <2>4, OneReplaced
  <2>6. idle' \in Nat \X Nat
    BY <1>2, <2>1
  <2>7. tick' \in Int /\ target' \in Int /\ sinceERC20UniV3' \in Nat /\ sinceUniV3' \in Nat
    BY <1>1, <2>1
  <2> QED
    BY <2>1, <2>5, <2>6, <2>7, SameIntervalsKeep
<1>10. ASSUME NEW pool \in Ticks, NEW oracle \in Ticks, MoveMarket(pool, oracle)
       PROVE  PositionsInv'
  <2>1. /\ tick' = pool /\ target' = oracle
        /\ UNCHANGED <<lowerVault, upperVault, position, idle, sinceERC20UniV3, sinceUniV3>>
    BY <1>10 DEF MoveMarket, timeVars
  <2>2. SameIntervals(position')
    BY <2>1, NothingMoved
  <2>3. idle' \in Nat \X Nat
    BY <1>2, <2>1
  <2>4. tick' \in Int /\ target' \in Int /\ sinceERC20UniV3' \in Nat /\ sinceUniV3' \in Nat
    BY <1>1, <2>1
  <2> QED
    BY <2>1, <2>2, <2>3, <2>4, SameIntervalsKeep
<1>11. CASE PassTime
  <2>1. /\ sinceERC20UniV3' = Least(sinceERC20UniV3 + 1, SecondsBetweenRebalances)
        /\ sinceUniV3' = Least(sinceUniV3 + 1, SecondsBetweenRebalances)
        /\ UNCHANGED <<lowerVault, upperVault, position, idle, tick, target>>
    BY <1>11 DEF PassTime, marketVars
  <2>2. SameIntervals(position')
    BY <2>1, NothingMoved
  <2>3. idle' \in Nat \X Nat
    BY <1>2, <2>1
  <2>4. tick' \in Int /\ target' \in Int /\ sinceERC20UniV3' \in Nat /\ sinceUniV3' \in Nat
    BY <1>1, <2>1 DEF Least
  <2> QED
    BY <2>1, <2>2, <2>3, <2>4, SameIntervalsKeep
<1>12. CASE UNCHANGED positionsVars
  <2>1. UNCHANGED <<lowerVault, upperVault, position, idle, tick, target,
                    sinceERC20UniV3, sinceUniV3>>
    BY <1>12 DEF positionsVars, marketVars, timeVars
  <2>2. SameIntervals(position')
    BY <2>1, NothingMoved
  <2>3. idle' \in Nat \X Nat
    BY <1>2, <2>1
  <2>4. tick' \in Int /\ target' \in Int /\ sinceERC20UniV3' \in Nat /\ sinceUniV3' \in Nat
    BY <1>1, <2>1
  <2> QED
    BY <2>1, <2>2, <2>3, <2>4, SameIntervalsKeep
<1> QED
  BY <1>3, <1>4, <1>5, <1>6, <1>7, <1>8, <1>9, <1>10, <1>11, <1>12 DEF PositionsNext

LEMMA PositionsAlwaysInv == PositionsSpec => []PositionsInv
<1>1. PositionsInv /\ [PositionsNext]_positionsVars => PositionsInv'
  BY PositionsInvStep
<1> QED
  BY <1>1, PositionsInvInit, PTL DEF PositionsSpec

(* However often LStrategy rebalances, closes and opens its positions, and *)
(* whatever users, the admin and the market do in between: its vaults are  *)
(* the two, hold sane positions and balances, and their intervals are W    *)
(* wide and overlap by half.                                               *)
THEOREM PositionsAlwaysFit == PositionsSpec => []PositionsFit
<1>1. PositionsInv => PositionsFit
  BY DEF PositionsInv
<1> QED
  BY <1>1, PositionsAlwaysInv, PTL

(* A rebalance of the two positions inside their overlap takes from the    *)
(* one the liquidity it gives to the other and does not go beyond the      *)
(* target ratio; one between the ERC20Vault and the positions moves the    *)
(* ERC20Vault's share towards its target, and past it by less than a token *)
(* or the fees it collects.                                                *)
THEOREM RebalancesAlwaysMeetTarget == PositionsSpec => RebalancesMeetTarget
<1> DEFINE share == (D - TargetUniV3LiquidityRatioD) * (Lower + Upper)
           Shifts == RebalanceUniV3Vaults /\ ~TargetIsBelow /\ ~TargetIsAbove =>
                         /\ Lower' + Upper' = Lower + Upper
                         /\ Lower' > Lower => Lower' * D <= share
                         /\ Lower' < Lower => Lower' * D > share - D
<1>1. PositionsInv /\ [PositionsNext]_positionsVars => [Shifts]_positionsVars
  <2> SUFFICES ASSUME PositionsInv, RebalanceUniV3Vaults, ~TargetIsBelow, ~TargetIsAbove
               PROVE  /\ Lower' + Upper' = Lower + Upper
                      /\ Lower' > Lower => Lower' * D <= share
                      /\ Lower' < Lower => Lower' * D > share - D
    OBVIOUS
  <2>1. ShiftLiquidity
    BY DEF RebalanceUniV3Vaults
  <2> QED
    BY <2>1, ShiftLiquidityMeetsTarget
<1> DEFINE sum == SumUniV3Capital(position[lowerVault], position[upperVault])
           total == ERC20Capital(idle) + sum
           excess == ERC20Capital(idle) * D - erc20UniV3CapitalRatioD * total
           excessThen == ERC20Capital(idle') * D - erc20UniV3CapitalRatioD * total
           fees == ERC20Capital(Plus(position[lowerVault].owed, position[upperVault].owed))
           Moves == RebalanceERC20UniV3Vaults /\ sum > 0 =>
                        IF excess >= 0 THEN -D < excessThen /\ excessThen <= excess
                        ELSE excess <= excessThen /\ excessThen <= D * fees
<1>2. PositionsInv /\ [PositionsNext]_positionsVars => [Moves]_positionsVars
  BY CapitalMeetsTarget
<1>3. PositionsSpec => [][Shifts]_positionsVars
  BY <1>1, PositionsAlwaysInv, PTL DEF PositionsSpec
<1>4. PositionsSpec => [][Moves]_positionsVars
  BY <1>2, PositionsAlwaysInv, PTL DEF PositionsSpec
<1> QED
  BY <1>3, <1>4 DEF RebalancesMeetTarget, LiquidityMovesWhole, CapitalMovesTowardsTarget

-----------------------------------------------------------------------------
(***************************************************************************)
(* The price search.                                                       *)
(***************************************************************************)

(* A half is at least half of what was halved, rounded down.                *)
LEMMA Half == ASSUME NEW n \in Nat
              PROVE  n \div 2 \in Nat /\ 2 * (n \div 2) + 1 >= n /\ n \div 2 <= n
  OBVIOUS

(* Halving is preceded by a jump over the tick, or by no swap at all.       *)
LEMMA HalvedStaysUseful ==
    ASSUME SearchInv, NEW direction \in {0, 1}, searching,
           direction = 1 => Below, direction = 0 => Above
    PROVE  /\ Halved(direction) \in 1..startTry
           /\ 2 * Halved(direction) >= TickSize \/ 2 * Halved(direction) + 1 >= startTry
  <1>1. CASE needIncrease = direction
    BY <1>1, PoolAssumption DEF SearchInv, SearchTypeOK, SwapsStayUseful, Halved
  <1>2. CASE needIncrease # direction
    <2>1. try \in Nat /\ startTry > 1 /\ TickSize \in Nat \ {0} /\ startTry \in Nat
      BY PoolAssumption DEF SearchInv, SearchTypeOK
    <2>2. try > TickSize \/ try = startTry
      BY <1>2, <2>1 DEF SearchInv, SearchTypeOK, JumpedBefore
    <2>3. Halved(direction) = try \div 2
      BY <1>2 DEF Halved
    <2>4. try \div 2 \in Nat /\ 2 * (try \div 2) + 1 >= try /\ try \div 2 <= try
      BY <2>1, Half
    <2>5. try <= startTry
      BY DEF SearchInv, SearchTypeOK
    <2> QED BY <2>1, <2>2, <2>3, <2>4, <2>5
  <1> QED BY <1>1, <1>2

(* The initial states satisfy the invariant.                                *)
LEMMA SearchInvInit == SearchInit => SearchInv
  <1> SUFFICES ASSUME SearchInit PROVE SearchInv
    OBVIOUS
  <1>1. startTry \in Nat /\ startTry > 1 /\ Targets \subseteq Int /\ TickSize \in Nat
    BY PoolAssumption
  <1>2. SearchTypeOK
    <2>1. poolPrice \in Int /\ tickAsked \in Targets
      BY <1>1 DEF SearchInit
    <2>2. try \in 0..startTry
      BY <1>1 DEF SearchInit
    <2>3. needIncrease \in {0, 1} /\ searching \in BOOLEAN
      BY DEF SearchInit
    <2> QED BY <2>1, <2>2, <2>3 DEF SearchTypeOK
  <1>3. SwapsStayUseful
    BY <1>1 DEF SearchInit, SwapsStayUseful
  <1>4. JumpedBefore
    BY DEF SearchInit, JumpedBefore
  <1> QED BY <1>2, <1>3, <1>4 DEF SearchInv

(* A swap satisfies it: what jumps from below the tick to above it, or back, *)
(* moves the price by more than the tick is wide.                            *)
LEMMA SearchInvSwap ==
    ASSUME SearchInv, NEW direction \in {0, 1}, Swap(direction),
           direction = 1 => Below, direction = 0 => Above
    PROVE  SearchInv'
  <1>1. /\ searching /\ searching' = searching /\ tickAsked' = tickAsked
        /\ needIncrease' = direction /\ try' = Halved(direction)
    BY DEF Swap
  <1>2. /\ try' \in 1..startTry
        /\ 2 * try' >= TickSize \/ 2 * try' + 1 >= startTry
    BY <1>1, HalvedStaysUseful
  <1>3. PICK d \in LeastMove(try')..try' :
            poolPrice' = IF direction = 1 THEN poolPrice + d ELSE poolPrice - d
    BY DEF Swap
  <1>4. LeastMove(try') \in 1..try'
    <2> DEFINE swapped == try'
    <2>1. swapped \in 1..startTry
      BY <1>2
    <2> HIDE DEF swapped
    <2>2. LeastMove(swapped) \in 1..swapped
      BY <2>1, PoolAssumption
    <2> QED BY <2>2 DEF swapped
  <1>5. d \in Nat /\ d <= try' /\ try' \in Nat
    BY <1>2, <1>3, <1>4
  <1>6. poolPrice \in Int /\ tickAsked \in Int /\ TickSize \in Nat \ {0}
    BY PoolAssumption DEF SearchInv, SearchTypeOK
  <1>7. SearchTypeOK'
    BY <1>1, <1>2, <1>3, <1>5, <1>6 DEF SearchInv, SearchTypeOK
  <1>8. SwapsStayUseful'
    <2>1. try' \in Nat /\ try' > 0
      BY <1>2, <1>5
    <2> QED BY <1>2, <2>1 DEF SwapsStayUseful
  <1>9. JumpedBefore'
    <2>1. CASE direction = 1
      <3>1. poolPrice < tickAsked /\ poolPrice' = poolPrice + d
        BY <2>1, <1>3 DEF Below
      <3>2. Above' => try' > TickSize
        BY <3>1, <1>1, <1>5, <1>6 DEF Above
      <3> QED BY <3>2, <2>1, <1>1 DEF JumpedBefore
    <2>2. CASE direction = 0
      <3>1. poolPrice >= tickAsked + TickSize /\ poolPrice' = poolPrice - d
        BY <2>2, <1>3 DEF Above
      <3>2. Below' => try' > TickSize
        BY <3>1, <1>1, <1>5, <1>6 DEF Below
      <3> QED BY <3>2, <2>2, <1>1 DEF JumpedBefore
    <2> QED BY <2>1, <2>2
  <1> QED BY <1>7, <1>8, <1>9 DEF SearchInv

(* Every step preserves it.                                                 *)
LEMMA SearchInvNext == SearchInv /\ [SearchNext]_searchVars => SearchInv'
  <1> SUFFICES ASSUME SearchInv, [SearchNext]_searchVars PROVE SearchInv'
    OBVIOUS
  <1>1. CASE StartSearch
    BY <1>1, PoolAssumption DEF StartSearch, SearchInv, SearchTypeOK, SwapsStayUseful, JumpedBefore, Above,
       Below
  <1>2. CASE EndSearch
    BY <1>2 DEF EndSearch, SearchInv, SearchTypeOK, SwapsStayUseful, JumpedBefore
  <1>3. CASE SwapWethForWsteth
    BY <1>3, SearchInvSwap DEF SwapWethForWsteth
  <1>4. CASE SwapWstethForWeth
    BY <1>4, SearchInvSwap DEF SwapWstethForWeth
  <1>5. CASE UNCHANGED searchVars
    BY <1>5 DEF searchVars, SearchInv, SearchTypeOK, SwapsStayUseful, JumpedBefore, Above, Below
  <1> QED BY <1>1, <1>2, <1>3, <1>4, <1>5 DEF SearchNext, Step

(* The searches of makeDesiredPoolPrice are made with swaps of at least half *)
(* of what moves the pool by a tick, or half of the first amount; none is of *)
(* nothing, which the router would refuse.                                   *)
THEOREM AmountsStayUseful == SearchSpec => []SwapsStayUseful
  <1>1. SearchSpec => []SearchInv
    BY SearchInvInit, SearchInvNext, PTL DEF SearchSpec
  <1>2. SearchInv => SwapsStayUseful
    BY DEF SearchInv
  <1> QED BY <1>1, <1>2, PTL
=============================================================================
