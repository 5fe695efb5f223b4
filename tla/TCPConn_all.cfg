SPECIFICATION FairSpec
CONSTANTS
  ResponseSize = 2
  MaxInput = 5
INVARIANTS
  TypeOK
  OutputKept
  AnswersMatch
PROPERTIES
  CloseCarriedOut
CHECK_DEADLOCK FALSE
