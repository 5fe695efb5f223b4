SPECIFICATION Spec
CONSTANTS
  Headers <- MCHeaders
  Uses <- MCUses
  Jobs <- MCJobs
  NormalTrigger = 1
INVARIANTS
  ConfigHasItsScope
CHECK_DEADLOCK FALSE
