SPECIFICATION FairSpec
CONSTANTS
  Usages <- ThreeUses
  MessageSize = 2
  highWaterMark_ = 2
INVARIANTS AssertsHold StreamInOrder OutputAttended
PROPERTIES ConnectionProgress
CHECK_DEADLOCK FALSE
