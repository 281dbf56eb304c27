SPECIFICATION FairSpec
CONSTANTS
  Capacity = 1
  DropAbove = 2
  MaxLines = 4
  MaxFailures = 1
  rollSize_ = 2
  flushInterval_ = 1
  checkEveryN_ = 2
  kRollPerSeconds_ = 2
  MaxTime = 3
INVARIANTS LinesInOrder RoundComplete FilesRolled
PROPERTIES DropsNewest LoggerProgress
CHECK_DEADLOCK FALSE
