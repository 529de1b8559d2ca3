SPECIFICATION SearchSpec
CONSTANTS
  Targets <- MCTargets
  TickSize = 3
  startTry = 48
  LeastMove <- MCLeast
INVARIANT SwapsStayUseful
PROPERTY SearchEnds
