\* Two users, two executions.  The bounds on calls and time stop the model,
\* so deadlock is not checked.
SPECIFICATION Spec
CONSTANTS
  User = {u1, u2}
  Locked = zeroAddress
  FeeReceiver = treasury
  PullExistential = 10
  D18 = 100
  DENOMINATOR = 10
  YEAR = 2
  ManagementFee = 1
  ProtocolFee = 1
  PerformanceFee = 3
  ManagementFeeChargeDelay = 1
  TokenLimit = 500
  TokenLimitPerAddress = 200
  WithdrawDelay = 1
  Amounts = {100}
  LpAmounts = {30, 100}
  Slippages = {7, 150}
  AccountValues = {250}
  MaxTime = 2
  MaxEpoch = 2
  MaxCalls = 7
INVARIANT RequestsBalance
PROPERTIES DepositDilutesByLessThanOneUnit ExecutionSettlesEveryShare ImplementsQueue
CHECK_DEADLOCK FALSE
