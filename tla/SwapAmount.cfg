\* The task ends.
SPECIFICATION Spec
CONSTANTS
  Arguments <- MCArguments
  D = 1000
  tickSpacing = 10
  PerTick = 40
  Ether = 150000
  ForkTick = 3
  ForkOffset = 25
  midLiquidity = 300
  denom = 1000
  yRatioD = 1000
  fee = 1
  feeDenominator = 2000
  ratioDeviationD = 20
INVARIANTS AmountsShiftThePrice PositionsAreAtRest
CHECK_DEADLOCK FALSE
