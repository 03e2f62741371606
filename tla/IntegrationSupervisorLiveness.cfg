CONSTANTS
  Supervisors = {s1}
  Commands = {c1, c2}
  EventIDs = {e1}
  Streams = {k1}
  None = None
  MaxForeign = 1
SPECIFICATION FairSpec
PROPERTIES AckedIsEventuallyDone
CHECK_DEADLOCK FALSE
