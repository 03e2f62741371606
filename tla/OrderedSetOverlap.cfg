CONSTANTS
  Goroutines = {g1, g2}
  Members = {1, 2}
  None = None
  MaxCalls = 4
  HashSize = 4
  Hash <- MCHash
SPECIFICATION RouteSpec
INVARIANTS AnswersAreAtomic
CHECK_DEADLOCK FALSE
