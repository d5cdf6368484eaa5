\* One notification whose copies come from a crash or a lost connection; two
\* failures open the breaker of the two workers.
CONSTANTS
  email = email
  NoMessage = NoMessage
  Workers = {w1, w2}
  WorkerChannel <- AllEmail
  Channels = {email}
  Notifications = {n1}
  MaxRetries = 1
  RetryRungs = 1
  Prefetch = 1
  MaxPosts = 1
  MaxFaults = 1
  FailureThreshold = 2
  OpenDuration = 1
SPECIFICATION FairServiceSpec
PROPERTIES
  EventuallySettled
  StatusComesToRest
  ImplementsDelivery
  ImplementsBreaker
CHECK_DEADLOCK FALSE
