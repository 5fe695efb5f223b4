SPECIFICATION FairSpec
CONSTANTS
  c1 = c1
  c2 = c2
  NoChannel = NoChannel
  Channels = {c1}
  MaxDispatch = 2
  MaxPending = 1
INVARIANTS
  TypeOK
  NoLostWakeup
  InterestCoherent
PROPERTIES
  PendingApplied
CHECK_DEADLOCK FALSE
