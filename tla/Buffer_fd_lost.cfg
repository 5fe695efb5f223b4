SPECIFICATION Spec
CONSTANTS
  Feeds = {"fd"}
  InitSize = 3
  ExtraSize = 4
  Growth = 2
  MaxBytes = 12
INVARIANTS
  StreamStored
CHECK_DEADLOCK FALSE
