SPECIFICATION FairSpec
CONSTANTS
  Requests <- MCRequests
  MaxRequests = 3
INVARIANTS
  TypeOK
  StreamAligned
  OwnAnswers
  Answered
  OwnEnvironment
  UseFollowsDeath
PROPERTIES
  AllServed
CHECK_DEADLOCK FALSE
