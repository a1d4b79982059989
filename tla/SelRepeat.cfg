SPECIFICATION FairSpec
CONSTANTS
  DamageKinds = {"acknum"}
  NsimMax = 5
  CapA = 2
  CapB = 2
  Window = 2
  BufferLen = 5
INVARIANTS
  TypeOK
  InOrderDelivery
  RingsHoldBacklog
  TimerIffOutstanding
  AckedIsDelivered
PROPERTIES
  ImplementsService
CHECK_DEADLOCK FALSE
