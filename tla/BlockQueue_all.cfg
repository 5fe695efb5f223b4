SPECIFICATION FairSpec
CONSTANTS
  p1 = p1
  p2 = p2
  c = c
  Nobody = Nobody
  Producers = {p1, p2}
  Consumer = c
  ConsumerPushes = TRUE
  MaxItems = 5
INVARIANTS
  TypeOK
  NoLostSignal
  InOrder
PROPERTIES
  ImplementsFifo
  AllDelivered
CHECK_DEADLOCK FALSE
