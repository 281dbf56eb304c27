CONSTANTS
  Callers = {owner, other}
  Owner = owner
  LoopThread = loop
  MaxFunctors = 3
SPECIFICATION ThreadFairSpec
INVARIANTS FifoExactlyOnce NoLostWakeup QuitNotMissed DestroyedAfterThread
PROPERTIES ImplementsFunctorQueue LoopProgress OwnerProgress
CHECK_DEADLOCK FALSE
