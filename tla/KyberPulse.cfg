\* What the documentation of rebalance says of the position's replacement.
SPECIFICATION Spec
CONSTANTS
  Kinds = {"Kyber"}
  Farms = {f1, f2}
  NoFarm = none
  FirstFarm = f1
  Ticks <- MCTicks
  D = 4
  TickSpacing = 4
  MutableParams <- MCMutableParams
  Openings = {0, 1}
  Deposits <- MCDeposits
  Asks <- MCAsks
  MaxMoves = 3
  MaxValue = 10
INVARIANT KyberPositionIsReplaced
CHECK_DEADLOCK FALSE
