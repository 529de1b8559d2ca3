\* One user, time enough for two fee periods, six calls.  The bounds on calls
\* and time stop the model, so deadlock is not checked.
SPECIFICATION Spec
CONSTANTS
  t1 = t1
  t2 = t2
  Token <- MCToken
  BaseToken = t1
  User = {u1}
  Locked = zeroAddress
  StrategyTreasury = treasury
  ProtocolTreasury = protocolTreasury
  PerformanceTreasury = perfTreasury
  PullExistential <- MCPullExistential
  DENOMINATOR = 20
  YEAR = 2
  D18 = 100
  Q96 = 4
  AaveAPY = 2
  GovParams <- MCGov
  OraclePrices <- MCPrices
  Amounts <- MCAmounts
  StrategyAmounts <- MCStrategyAmounts
  Donations <- MCDonations
  LpAmounts = {30, 100}
  Interest = {30}
  Wealth = 300
  MaxTime = 2
  MaxCalls = 6
  MaxYield = 30
INVARIANT AccountsBalance
PROPERTIES DepositDoesNotDilute PayoutsKeepToBounds WithdrawLosesOnlyDust PerformanceFeeOnlyOnNewHigh
CHECK_DEADLOCK FALSE
