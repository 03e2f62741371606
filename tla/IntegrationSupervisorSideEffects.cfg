CONSTANTS
  Supervisors = {s1}
  Commands = {c1}
  EventIDs = {e1, e2}
  Streams = {k1}
  None = None
  MaxForeign = 0
SPECIFICATION Spec
PROPERTIES HandlerSucceedsOnce
CHECK_DEADLOCK FALSE
