SPECIFICATION Spec
CONSTANTS
  DamageKinds = {"payload", "acknum"}
  NsimMax = 6
  BUFFER_LEN = 6
  MaxInterval = 7
  MinDelay = 1
  MaxDelay = 3
  Timeout = 6
INVARIANTS
  TypeOK
  InOrderDelivery
  NoPrematureTimeout
  RingHoldsBacklog
  BitsAgree
PROPERTIES
  ImplementsService
CHECK_DEADLOCK FALSE
