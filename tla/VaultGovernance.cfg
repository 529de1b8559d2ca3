\* The bounds on calls and time stop the model, so deadlock is not checked.
SPECIFICATION VGSpec
CONSTANTS
  Target = {}
  Permission = {}
  Validator = {}
  NoValidator = none
  GovernanceDelays = {1, 3}
  MAX_GOVERNANCE_DELAY = 3
  Slot = {s1, s2}
  ConstructorSlot = {s2}
  Fees = {0, 1, 3}
  MAX_FEE = 1
  OtherDelay = 1
  MaxTime = 5
  MaxCalls = 6
INVARIANT NoUnannouncedParams
CHECK_DEADLOCK FALSE
