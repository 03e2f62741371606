CONSTANTS
  Nodes = {n1}
  Observers = {o1}
  None = None
  RenewInterval = 2
  MaxDelay = 5
  MaxRuns = 2
SPECIFICATION FairSpec
PROPERTIES
  Forgotten
  ObserverStops
