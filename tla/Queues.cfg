SPECIFICATION QueuesSpec
CONSTANTS
  Producers = {p1, p2, p3}
  Consumers = {c1, c2}
  Bounded = TRUE
  maxSize = 2
  MaxItems = 4
  Sizes = {1, 2, 3}
  max_memory_size_ = 2
  SizeMax = 16
  MovedSize <- Kept
  Workers = {w1, w2}
  Callers = {a, b}
  maxQueueSize_ = 1
  MaxTasks = 4
  Owner = owner
  Configs <- MCConfigs
  Kinds = {"hlib", "utils", "wzq", "zfish"}
  MaxPooled = 2
  MaxWorkers = 3
INVARIANTS InOrder WakeupsKept ThreadsAccounted
PROPERTIES Progress
CHECK_DEADLOCK FALSE
