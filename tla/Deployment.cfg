SPECIFICATION DeploySpec
CONSTANTS
  Token <- MCToken
  Networks <- MCNetworks
  Selections <- MCSelections
  Repriced <- MCRepriced
  Prices = {1, 2}
  DELAY = 1
  MaxTime = 2
  MaxSelections = 1
  MaxCrashes = 1
INVARIANTS HandedOverWhole StrategiesCanBeBuilt NothingMissing NoUnannouncedPrice
PROPERTY DeploymentCompletes
