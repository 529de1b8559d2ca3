\* The bound on moves may leave nothing to do, so deadlock is not checked.
SPECIFICATION Spec
CONSTANTS
  Kinds <- MCKinds
  Farms = {f1, f2}
  NoFarm = none
  FirstFarm = f1
  Ticks <- MCTicks
  D = 4
  TickSpacing = 4
  MutableParams <- MCMutableParams
  Openings = {0, 1}
  Deposits <- MCDeposits
  Asks <- MCAsks
  MaxMoves = 3
  MaxValue = 10
INVARIANTS OnePosition WithdrawalTakesAll
PROPERTIES IntervalHoldsTheTick ValueKept RebalancesSettle
CHECK_DEADLOCK FALSE
