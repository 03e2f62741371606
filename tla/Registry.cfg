CONSTANTS
  Nodes = {n1}
  Observers = {o1, o2}
  None = None
  RenewInterval = 3
  MaxDelay = 1
  MaxRuns = 3
SPECIFICATION FairCarefulSpec
INVARIANTS
  TypeOK
  StaysRegistered
PROPERTIES
  NoFalseDeregistration
  Discovered
