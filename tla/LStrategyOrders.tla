-------------------------- MODULE LStrategyOrders --------------------------
(***************************************************************************)
(* LStrategy's trades on CoW Protocol.  To bring the two tokens of the     *)
(* ERC20Vault back to their target ratio the strategy posts a pre-order    *)
(* on chain; an operator finds an order off chain and has it signed, which *)
(* gives CoW's relayer an allowance and CoW a pre-signature; solvers fill  *)
(* signed orders, at once or in parts, until they expire.                  *)
(*                                                                         *)
(* Three contracts remember an order, each in its own way: the strategy by *)
(* preOrder and orderDeadline, the vault by its allowance, CoW by the      *)
(* pre-signature and the filled amount.  CoW, the oracle and what else     *)
(* moves the vault's tokens are external.                                  *)
(*                                                                         *)
(* An operator that stands before its namesake and is used nowhere is a    *)
(* wrong version of it, kept to show that the properties would notice.     *)
(***************************************************************************)
EXTENDS LStrategyMath, FiniteSets

CONSTANTS
    Q,               \* scale of prices, Q96
    TradingParams,   \* records the admin may set, as updateTradingParams admits them
    RatioParams,     \* likewise for updateRatioParams
    Prices,          \* prices of token 0 in token 1 the oracle may answer
    Balances,        \* balances rebalances and users may leave in the vault
    MinAmounts,      \* minAmountOut an operator may ask for
    Amounts,         \* amounts in orders operators and solvers try
    Receivers,       \* receivers in orders operators try
    ERC20Vault,      \* one of them
    MaxOrderDeadline,  \* 30 days
    MaxTime, MaxCalls  \* bounds: clock, calls of LStrategy

Token == 0..1
Time == 0..MaxTime + MaxOrderDeadline

TradingParamsType == [maxSlippageD : 0..D, orderDeadline : 0..MaxOrderDeadline,
                      maxFee : [Token -> Nat]]
RatioParamsType == [erc20TokenRatioD : 0..D, minErc20TokenRatioDeviationD : 0..D]

ASSUME ScaleAssumption == Q \in Nat \ {0}
ASSUME ParamsAssumption ==
    /\ MaxOrderDeadline \in Nat
    /\ TradingParams \subseteq TradingParamsType
    /\ RatioParams \subseteq RatioParamsType
ASSUME InputAssumption ==
    /\ Prices \subseteq Nat \ {0}
    /\ Balances \cup MinAmounts \cup Amounts \subseteq Nat
    /\ ERC20Vault \in Receivers
ASSUME BoundAssumption == MaxTime \in Nat /\ MaxCalls \in Nat

Order == [sellToken : Token, buyToken : Token, sellAmount : Nat, buyAmount : Nat,
          feeAmount : Nat, validTo : Nat, receiver : Receivers]

(* A deleted pre-order is all zeroes.                                      *)
NoPreOrder == [tokenIn |-> 0, tokenOut |-> 0, deadline |-> 0,
               amountIn |-> 0, minAmountOut |-> 0]

VARIABLES
    (* LStrategy *)
    preOrder, orderDeadline, tradingParams, ratioParams,
    (* ERC20Vault: its tokens and what the relayer may take of them         *)
    balance, allowance,
    (* CoW Protocol: pre-signed orders, and how much of an order is sold    *)
    presigned, filled,
    price, now,
    (* History: the price and the slippage with which preOrder and the      *)
    (* order signed last were posted                                        *)
    preTerms, terms,
    calls  \* calls made, to bound them

strategyVars == <<preOrder, orderDeadline>>
paramVars == <<tradingParams, ratioParams>>
vaultVars == <<balance, allowance>>
cowVars == <<presigned, filled>>
termVars == <<preTerms, terms>>
vars == <<strategyVars, paramVars, vaultVars, cowVars, price, now, termVars, calls>>

Call == calls < MaxCalls /\ calls' = calls + 1

-----------------------------------------------------------------------------
(* LStrategy.                                                              *)

(* The least amount to accept for tokens worth `amount`.                   *)
AmountOutOfSlippage(amount) == (amount * tradingParams.maxSlippageD) \div D
AmountOut(amount) == (amount * (D - tradingParams.maxSlippageD)) \div D

(* A pre-order may be replaced while it is not signed; after it is signed  *)
(* the next one waits for the order to expire.                             *)
Replaceable == TRUE
OrderExpired == now > orderDeadline

PostPreOrder(minAmountOut) ==
    LET value0 == (balance[0] * price) \div Q
        change == LiquidityDelta(value0, balance[1], ratioParams.erc20TokenRatioD,
                                 ratioParams.minErc20TokenRatioDeviationD)
        amount == [t \in Token |-> IF t = 0 THEN (change.delta * Q) \div price
                                   ELSE change.delta]
        tokenIn == IF change.isNegative THEN 1 ELSE 0
        amountOut == AmountOut(amount[1 - tokenIn])
    IN  /\ Call
        /\ OrderExpired
        /\ DeltaDefined(value0 + balance[1], ratioParams.minErc20TokenRatioDeviationD)
        /\ preOrder' = [tokenIn |-> tokenIn, tokenOut |-> 1 - tokenIn,
                        deadline |-> now + tradingParams.orderDeadline,
                        amountIn |-> amount[tokenIn],
                        minAmountOut |-> IF amountOut > minAmountOut THEN amountOut
                                         ELSE minAmountOut]
        /\ preTerms' = [price |-> price, maxSlippageD |-> tradingParams.maxSlippageD]
        /\ UNCHANGED <<orderDeadline, paramVars, vaultVars, cowVars, price, now, terms>>

(* LStrategyHelper.checkOrder                                              *)
CheckOrderForever(o) ==
    /\ preOrder.deadline >= now
    /\ o.sellToken = preOrder.tokenIn /\ o.buyToken = preOrder.tokenOut
    /\ o.sellAmount = preOrder.amountIn
    /\ o.buyAmount >= preOrder.minAmountOut
    /\ o.receiver = ERC20Vault
    /\ o.feeAmount <= tradingParams.maxFee[o.sellToken]
CheckOrder(o) ==
    /\ preOrder.deadline >= now
    /\ o.sellToken = preOrder.tokenIn /\ o.buyToken = preOrder.tokenOut
    /\ o.sellAmount = preOrder.amountIn
    /\ o.buyAmount >= preOrder.minAmountOut
    /\ o.validTo <= preOrder.deadline
    /\ o.receiver = ERC20Vault
    /\ o.feeAmount <= tradingParams.maxFee[o.sellToken]

AddAllowance(o) == allowance[o.sellToken] + o.sellAmount + o.feeAmount
OrderAllowance(o) == o.sellAmount + o.feeAmount

(* signOrder with `signed`: the pre-order is used up.                      *)
SignOrder(o) ==
    /\ Call
    /\ CheckOrder(o)
    /\ allowance' = [allowance EXCEPT ![o.sellToken] = OrderAllowance(o)]
    /\ presigned' = presigned \cup {o}
    /\ orderDeadline' = o.validTo
    /\ preOrder' = NoPreOrder
    /\ terms' = preTerms
    /\ UNCHANGED <<paramVars, balance, filled, price, now, preTerms>>

(* signOrder without: the allowance and orderDeadline stay.                *)
UnsignOrder(o) ==
    /\ Call
    /\ presigned' = presigned \ {o}
    /\ UNCHANGED <<strategyVars, paramVars, vaultVars, filled, price, now, termVars>>

ResetCowswapAllowance(t) ==
    /\ Call
    /\ allowance' = [allowance EXCEPT ![t] = 0]
    /\ UNCHANGED <<strategyVars, paramVars, balance, cowVars, price, now, termVars>>

UpdateTradingParams(p) ==
    /\ Call
    /\ tradingParams' = p
    /\ UNCHANGED <<strategyVars, ratioParams, vaultVars, cowVars, price, now, termVars>>

UpdateRatioParams(p) ==
    /\ Call
    /\ ratioParams' = p
    /\ UNCHANGED <<strategyVars, tradingParams, vaultVars, cowVars, price, now, termVars>>

-----------------------------------------------------------------------------
(* CoW Protocol fills a pre-signed order that has not expired, as far as   *)
(* allowance and balance go, at its limit price or better; the fee is due  *)
(* in proportion.                                                          *)
Filled(o) == IF o \in DOMAIN filled THEN filled[o] ELSE 0
Live(o) == o \in presigned /\ now <= o.validTo /\ Filled(o) < o.sellAmount
CeilDiv(a, b) == (a + b - 1) \div b

Settle(o, sold, surplus) ==
    LET taken == sold + (o.feeAmount * sold) \div o.sellAmount
        bought == CeilDiv(sold * o.buyAmount, o.sellAmount) + surplus
    IN  /\ Live(o)
        /\ sold \in 1..o.sellAmount - Filled(o)
        /\ taken <= allowance[o.sellToken] /\ taken <= balance[o.sellToken]
        /\ filled' = [p \in DOMAIN filled \cup {o} |->
                         IF p = o THEN Filled(o) + sold ELSE filled[p]]
        /\ allowance' = [allowance EXCEPT ![o.sellToken] = @ - taken]
        /\ balance' = [t \in Token |->
                          IF t = o.sellToken THEN balance[t] - taken
                          ELSE IF o.receiver = ERC20Vault THEN balance[t] + bought
                          ELSE balance[t]]
        /\ UNCHANGED <<strategyVars, paramVars, presigned, price, now, termVars, calls>>

(* Rebalances, deposits, withdrawals and fees move the vault's tokens.     *)
MoveTokens(t, b) ==
    /\ Call
    /\ balance' = [balance EXCEPT ![t] = b]
    /\ UNCHANGED <<strategyVars, paramVars, allowance, cowVars, price, now, termVars>>

OracleMove(p) ==
    /\ Call
    /\ price' = p
    /\ UNCHANGED <<strategyVars, paramVars, vaultVars, cowVars, now, termVars>>

Tick ==
    /\ now < MaxTime
    /\ now' = now + 1
    /\ UNCHANGED <<strategyVars, paramVars, vaultVars, cowVars, price, termVars, calls>>

Init ==
    /\ preOrder = NoPreOrder /\ orderDeadline = 0
    /\ tradingParams \in TradingParams /\ ratioParams \in RatioParams
    /\ balance \in [Token -> Balances] /\ allowance = [t \in Token |-> 0]
    /\ presigned = {} /\ filled = [o \in {} |-> 0]
    /\ price \in Prices /\ now = 1
    /\ preTerms = [price |-> price, maxSlippageD |-> 0] /\ terms = preTerms
    /\ calls = 0

(* Orders an operator tries: made to fit preOrder, but for amounts that    *)
(* may be better or worse, the time and the receiver.                      *)
Candidate ==
    [sellToken : {preOrder.tokenIn}, buyToken : {preOrder.tokenOut},
     sellAmount : {preOrder.amountIn},
     buyAmount : {preOrder.minAmountOut} \cup Amounts, feeAmount : Amounts,
     validTo : Time, receiver : Receivers]

Next ==
    \/ \E m \in MinAmounts : PostPreOrder(m)
    \/ \E o \in Candidate : SignOrder(o)
    \/ \E o \in presigned : UnsignOrder(o)
    \/ \E t \in Token : ResetCowswapAllowance(t)
    \/ \E p \in TradingParams : UpdateTradingParams(p)
    \/ \E p \in RatioParams : UpdateRatioParams(p)
    \/ \E o \in presigned : \E sold \in Amounts \cup {o.sellAmount - Filled(o)},
                                surplus \in MinAmounts : Settle(o, sold, surplus)
    \/ \E t \in Token, b \in Balances : MoveTokens(t, b)
    \/ \E p \in Prices : OracleMove(p)
    \/ Tick

Spec == Init /\ [][Next]_vars

-----------------------------------------------------------------------------
(* Properties.                                                             *)

TypeOK ==
    /\ preOrder \in [tokenIn : Token, tokenOut : Token, deadline : Nat,
                     amountIn : Nat, minAmountOut : Nat]
    /\ orderDeadline \in Nat
    /\ tradingParams \in TradingParams /\ ratioParams \in RatioParams
    /\ balance \in [Token -> Nat] /\ allowance \in [Token -> Nat]
    /\ presigned \subseteq Order
    /\ \A o \in DOMAIN filled : o \in Order /\ filled[o] \in 0..o.sellAmount
    /\ price \in Prices /\ now \in Nat

(* At any time solvers can fill one order at most, and none while a        *)
(* pre-order waits to be signed, so that no trade is based on balances     *)
(* another trade is about to change.  The strategy has only orderDeadline  *)
(* to tell, which the next order may even lower.                           *)
OneLiveOrder ==
    /\ \A o1, o2 \in presigned : Live(o1) /\ Live(o2) => o1 = o2
    /\ preOrder # NoPreOrder => \A o \in presigned : ~Live(o)

(* What the relayer may still take for a live order, and has taken, is no  *)
(* more than the order's amount and fee, although allowances of earlier    *)
(* orders are left behind when they expire or are unsigned.                *)
RelayerWithinOrder ==
    \A o \in presigned :
        Live(o) => allowance[o.sellToken] + Filled(o) <= o.sellAmount + o.feeAmount

(* A pre-order asks for a trade the vault can pay, and one that at the     *)
(* oracle's price would leave the tokens in their target ratio, up to      *)
(* rounding: it sells the token there is too much of, and does not swing   *)
(* the ratio to the other side.                                            *)
PreOrderMeetsTarget ==
    [][LET p == preOrder'
           value0 == (balance[0] * price) \div Q
           sold0 == IF p.tokenIn = 0 THEN (p.amountIn * price) \div Q ELSE -p.amountIn
           excess == (value0 - sold0) * D
                        - ratioParams.erc20TokenRatioD * (value0 + balance[1])
           rounding == D * (2 + price \div Q)
       IN  p # preOrder /\ p.amountIn > 0 =>
               /\ p.amountIn <= balance[p.tokenIn]
               /\ excess \in -rounding..rounding]_vars

(* However orders are posted and signed, the strategy can post the next    *)
(* pre-order after the longest orderDeadline the admin may set.            *)
LockIsBounded == orderDeadline <= now + MaxOrderDeadline

(* A trade pays the vault the oracle's price at the time of the pre-order, *)
(* less the slippage then in force and two units for rounding, however     *)
(* many parts it is filled in and whatever was changed since; the fee      *)
(* comes on top.                                                           *)
Worth(t, amount) ==
    IF t = 0 THEN (amount * terms.price) \div Q ELSE (amount * Q) \div terms.price
SaleAboveSlippage ==
    [][\A o \in presigned :
          LET sold == (IF o \in DOMAIN filled' THEN filled'[o] ELSE 0) - Filled(o)
          IN  sold > 0 =>
                (balance'[o.buyToken] - balance[o.buyToken] + 2) * D
                    >= Worth(o.sellToken, sold) * (D - terms.maxSlippageD)]_vars

(* A trade is what its pre-order had to be, at the price it had to be.     *)
TradesMeetTarget == PreOrderMeetsTarget /\ SaleAboveSlippage
=============================================================================
