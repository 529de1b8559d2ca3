\* The bound on moves may leave nothing to do, so deadlock is not checked.
SPECIFICATION PositionsSpec
CONSTANTS
  Vault1 = v1
  Vault2 = v2
  W = 4
  D = 8
  Ticks <- MCTicks
  Existential = 4
  OpeningLiquidity = 1
  erc20UniV3CapitalRatioD = 2
  minErc20UniV3CapitalRatioDeviationD = 1
  minUniV3LiquidityRatioDeviationD = 1
  SecondsBetweenRebalances = 1
  IdleBalances = {0, 20}
  MaxMoves = 3
INVARIANT PositionsFit
PROPERTIES RebalancesMeetTarget RebalancesSettle
CHECK_DEADLOCK FALSE
