----------------------- MODULE MC_LStrategyPositions -----------------------
(* A target that leaves the overlap by one interval to either side.        *)
EXTENDS LStrategyPositions

MCTicks == {-1, 6}
=============================================================================
