\* The bounds on time and calls stop the model, so deadlock is not checked.
SPECIFICATION Spec
CONSTANTS
  D = 10
  Q = 2
  TradingParams <- MCTradingParams
  RatioParams <- MCRatioParams
  Prices = {1, 3}
  Balances = {0, 100}
  MinAmounts = {0, 20}
  Amounts = {0, 10}
  Receivers = {vault, stranger}
  ERC20Vault = vault
  MaxOrderDeadline = 2
  MaxTime = 4
  MaxCalls = 4
INVARIANTS OneLiveOrder RelayerWithinOrder LockIsBounded
PROPERTY TradesMeetTarget
CHECK_DEADLOCK FALSE
