CONSTANTS
  Callers = {c1}
  Addrs = {1, 2}
  MaxTimers = 2
  Whens = {0, 3}
  MaxTime = 3
  Intervals = {0, 1}
SPECIFICATION FairSpec
INVARIANTS TimersConsistent TimerfdArmed CancelEffective
PROPERTIES TimersRun
CHECK_DEADLOCK FALSE
