\* Two starts of the process, a message, two workers, an API with no thread or one.
CONSTANTS
  HttpThreads = {t1}
  Workers = {w1, w2}
  WorkerChannel <- LastChannel
  RetryRungs = 1
  MaxBoots = 2
  MaxPosts = 1
SPECIFICATION FairSpec
INVARIANTS
  TypeOK
  NothingUnroutable
  LadderBeforeMessages
PROPERTIES
  RestartIsStaffed
  StopEndsWorkers
CHECK_DEADLOCK FALSE
