SPECIFICATION Spec
CONSTANTS
  c1 = c1
  c2 = c2
  NoChannel = NoChannel
  Channels = {c1}
  MaxDispatch = 2
  MaxPending = 2
INVARIANTS
  ReadHandlerAssertion
CHECK_DEADLOCK FALSE
