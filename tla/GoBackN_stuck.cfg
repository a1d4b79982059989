SPECIFICATION FairSpec
CONSTANTS
  DamageKinds = {"payload"}
  NsimMax = 4
  CapA = 1
  CapB = 2
  WinSize = 2
PROPERTIES
  AllDelivered
CHECK_DEADLOCK FALSE
