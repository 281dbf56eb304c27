CONSTANTS
  Callers = {owner}
  Owner = owner
  LoopThread = loop
  MaxFunctors = 2
SPECIFICATION ThreadFairSpec
PROPERTY DestructorReturns
CHECK_DEADLOCK FALSE
