SPECIFICATION Spec
CONSTANTS
  c1 = c1
  c2 = c2
  NoChannel = NoChannel
  Channels = {c1}
  MaxDispatch = 1
  MaxPending = 2
INVARIANTS
  ModifiesLiveChannel
CHECK_DEADLOCK FALSE
