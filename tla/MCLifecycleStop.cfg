\* One start of the process with an http thread.
CONSTANTS
  HttpThreads = {t1}
  Workers = {w1}
  WorkerChannel <- LastChannel
  RetryRungs = 1
  MaxBoots = 1
  MaxPosts = 1
SPECIFICATION FairApiSpec
PROPERTY
  StopEndsAcceptors
CHECK_DEADLOCK FALSE
