\* The bounds on runs and vaults stop the system in the end.
SPECIFICATION BuildSpec
CONSTANTS
  dep = dep
  adm = adm
  msa = msa
  app = app
  s1 = s1
  s2 = s2
  s3 = s3
  s4 = s4
  reb = reb
  gov = gov
  p = p
  User <- MCUser
  Strategy <- MCStrategy
  Governance = gov
  Foreign = {f}
  NoOne = zeroAddress
  Creators <- MCCreators
  Protocol = {p}
  Registrars <- MCRegistrars
  Delay <- MCDelay
  Destinations = {adm}
  Approvees = {gov}
  Operators = {gov}
  MaxNft = 8
  MaxTime = 1
  MaxCalls = 60
  Plans = {"MStrategy", "HStrategy", "LStrategy", "MultiPoolHStrategy", "SinglePositionStrategy"}
  deployer = dep
  mStrategyAdmin = msa
  approver = app
  StrategyAddress <- MCStrategyAddress
  Rebalancer = reb
  MaxRuns = 2
  MaxCrashes = 1
  MaxOthers = 2
INVARIANTS IndicesAreInverse SubvaultsStay RootHoldsStrategysVaults OnlyDisturbedRunsFail StrategyHasAdmin
PROPERTIES FinishedBuildIsHandedOver BuildsEnd
CHECK_DEADLOCK FALSE
