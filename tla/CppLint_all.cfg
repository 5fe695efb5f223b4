SPECIFICATION Spec
CONSTANTS
  Headers <- MCHeaders
  Uses <- MCUses
  Jobs <- MCJobs
  NormalTrigger = 1
INVARIANTS
  CodeFound
  BracketsPair
  StackFollowsBranches
  BlocksMatchBraces
  AsmExempt
  TopLevelRemembered
  OrderFollowsGuide
  PrintedExactly
CHECK_DEADLOCK FALSE
