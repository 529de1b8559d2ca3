------------------------- MODULE MC_LStrategyOrders -------------------------
(* Two settings of the parameters: one with slippage, fees and a lasting    *)
(* order, one without fees whose orders expire at once.                     *)
EXTENDS LStrategyOrders

MCTradingParams ==
    {[maxSlippageD |-> 1, orderDeadline |-> 2, maxFee |-> [t \in Token |-> 10]],
     [maxSlippageD |-> 0, orderDeadline |-> 0, maxFee |-> [t \in Token |-> 0]]}
MCRatioParams ==
    {[erc20TokenRatioD |-> 5, minErc20TokenRatioDeviationD |-> 0],
     [erc20TokenRatioD |-> 2, minErc20TokenRatioDeviationD |-> 3]}
=============================================================================
