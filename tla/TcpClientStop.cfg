SPECIFICATION FairSpec
CONSTANTS
  MaxSockets = 2
  MaxCalls = 2
  Liberties = {"stopElsewhere"}
PROPERTY StopIsFinal
CHECK_DEADLOCK FALSE
