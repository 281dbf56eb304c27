SPECIFICATION Spec
CONSTANTS
  Usages <- ForceUse
  MessageSize = 1
  highWaterMark_ = 2
INVARIANT ConnectDestroyedOnce
CHECK_DEADLOCK FALSE
