CONSTANTS
  Supervisors = {s1, s2}
  Commands = {c1, c2}
  EventIDs = {e1, e2, e3}
  Streams = {k1, k2}
  None = None
  MaxForeign = 0
SPECIFICATION Spec
SYMMETRY Symmetry
INVARIANTS
  TypeOK
  RecordedOnce
  AppendedIsPublished
  TruncatedIsDone
  AckedIsDurable
  OffsetHintIsLowerBound
  PublishedOnce
PROPERTIES LifecycleSpec
CHECK_DEADLOCK FALSE
