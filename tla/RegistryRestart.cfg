CONSTANTS
  Nodes = {n1}
  Observers = {o1}
  None = None
  RenewInterval = 3
  MaxDelay = 1
  MaxRuns = 2
SPECIFICATION Spec
INVARIANTS
  StaysRegistered
