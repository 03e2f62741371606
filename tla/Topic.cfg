CONSTANTS
  Channels = {c1, c2, c3}
  MaxMessages = 2
  MaxSubscriptions = 3
SPECIFICATION FairSpec
INVARIANTS
  TypeOK
  MissesNothing
  InOrder
  LateMessagesAreKnown
PROPERTIES
  Delivers
CHECK_DEADLOCK FALSE
