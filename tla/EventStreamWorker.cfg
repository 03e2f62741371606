CONSTANTS
  Workers = {w1, w2}
  Batches = {b1, b2}
  b2 = b2
  Size <- MCSize
  None = None
  MaxInflight = 2
SPECIFICATION FairSpec
INVARIANTS
  TypeOK
  AppendedOnce
  Contiguous
  KnowsPrefix
  ResponsesAreTrue
PROPERTIES
  EventStreamSpec
  RetriedIsAppended
CHECK_DEADLOCK FALSE
