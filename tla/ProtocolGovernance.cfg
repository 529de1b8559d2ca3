\* The bounds on calls and time stop the model, so deadlock is not checked.
SPECIFICATION Spec
CONSTANTS
  Target = {t1}
  Permission = {p}
  Validator = {v1, v2}
  NoValidator = none
  GovernanceDelays = {1, 3, 4}
  MAX_GOVERNANCE_DELAY = 3
  MaxTime = 5
  MaxCalls = 6
INVARIANTS NoUnannouncedPermission NoUnannouncedValidator
CHECK_DEADLOCK FALSE
