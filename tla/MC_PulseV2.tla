------------------------------- MODULE MC_PulseV2 -------------------------------
(* Params that extend the interval, that start anew each time and swap     *)
(* small amounts only at the pool's price, those of deploy/0188 which      *)
(* accept no tick, and one set that is refused.  At tick -7 the interval   *)
(* the strategy starts with, [-8, 0], does not accept the tick.            *)
EXTENDS PulseV2

MCKinds == {"UniV3", "Camelot", "QuickSwap", "Kyber", "PancakeSwap"}
MCTicks == {-7, -2, 7}

Extending ==
    [defaultIntervalWidth |-> 8, maxPositionLengthInTicks |-> 24,
     maxDeviationForVaultPool |-> 2, neighborhoodFactorD |-> 1, extensionFactorD |-> 1,
     swapSlippageD |-> 2, swappingAmountsCoefficientD |-> 0, minSwapAmount |-> 1]
Anew == [Extending EXCEPT !.maxPositionLengthInTicks = 0, !.swapSlippageD = 0]
NeverAcceptable == [Anew EXCEPT !.neighborhoodFactorD = 4, !.maxPositionLengthInTicks = 24]
Refused == [Extending EXCEPT !.defaultIntervalWidth = 12]
MCMutableParams == {Extending, Anew, NeverAcceptable, Refused}

MCDeposits == {<<3, 1>>}
MCAsks == {<<1, 2>>, <<9, 9>>}
=============================================================================
