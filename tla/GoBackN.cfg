SPECIFICATION FairSpec
CONSTANTS
  DamageKinds = {"payload", "seqnum", "acknum"}
  NsimMax = 4
  CapA = 2
  CapB = 2
  WinSize = 2
INVARIANTS
  TypeOK
  InOrderDelivery
  AckedIsDelivered
  TimerCoversOutstanding
  WindowRespected
PROPERTIES
  ImplementsService
  WindowDelivered
CHECK_DEADLOCK FALSE
