SPECIFICATION Spec
CONSTANTS
  c1 = c1
  c2 = c2
  NoChannel = NoChannel
  Channels = {c1, c2}
  MaxDispatch = 1
  MaxPending = 1
SYMMETRY ChannelSymmetry
INVARIANTS
  StaticCallsSerial
  StaticCoherent
  StaticRunsSafe
CHECK_DEADLOCK FALSE
