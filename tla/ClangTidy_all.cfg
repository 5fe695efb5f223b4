SPECIFICATION FairSpec
CONSTANTS
  w1 = w1
  w2 = w2
  Workers = {w1, w2}
  NumFiles = 3
INVARIANTS
  TypeOK
  TasksCounted
  JoinComplete
  ExitTells
PROPERTIES
  Ends
CHECK_DEADLOCK FALSE
