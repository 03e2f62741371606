CONSTANTS
  Goroutines = {g1, g2}
  Members = {1, 2, 3}
  None = None
  MaxCalls = 4
  HashSize = 4
  Hash <- MCHash
SPECIFICATION FairRouteSpec
INVARIANTS
  TypeOK
  SequentialIsExact
  AppendingDisturbsNobody
  RouteIsBest
PROPERTIES
  EveryCallReturns
  RoutesAlike
  OnlyChangedNodesMoveWork
CHECK_DEADLOCK FALSE
