SPECIFICATION FairSpec
CONSTANTS
  ThreadNums = {0, 2}
  Callers = {0, 1}
  MaxConns = 4
  ServerDies = TRUE
  MaxFds = 5
  MaxBacklog = 2
  OtherThreads = FALSE
INVARIANTS BalancedLoops  IdleFdKept
PROPERTIES ServerProgress
CHECK_DEADLOCK FALSE
