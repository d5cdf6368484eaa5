\* Two POSTs of one key, no fault.
CONSTANTS
  email = email
  sms = sms
  NoMessage = NoMessage
  Workers = {w1, w2}
  WorkerChannel <- AllEmail
  Channels = {email}
  Notifications = {n1}
  MaxRetries = 1
  RetryRungs = 1
  Prefetch = 2
  MaxPosts = 2
  MaxFaults = 0
SPECIFICATION Spec
INVARIANT
  NoDuplicateSend
CHECK_DEADLOCK FALSE
