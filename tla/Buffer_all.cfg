SPECIFICATION Spec
CONSTANTS
  Feeds = {"append", "fd", "ssl"}
  InitSize = 3
  ExtraSize = 4
  Growth = 2
  MaxBytes = 12
INVARIANTS
  TypeOK
  Fifo
  NoAbort
PROPERTIES
  ImplementsQueue
CHECK_DEADLOCK FALSE
