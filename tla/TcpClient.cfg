SPECIFICATION FairSpec
CONSTANTS
  MaxSockets = 4
  MaxCalls = 3
  Liberties = {}
INVARIANTS ClientAsserts SocketsOwned
PROPERTIES StopIsFinal ClientProgress
CHECK_DEADLOCK FALSE
