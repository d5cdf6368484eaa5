\* Two POSTs of one key, for any channels, two workers; a crash or a lost connection
\* at any point.
CONSTANTS
  email = email
  sms = sms
  NoMessage = NoMessage
  Workers = {w1, w2}
  WorkerChannel <- AllEmail
  Channels = {email, sms}
  Notifications = {n1}
  MaxRetries = 1
  RetryRungs = 1
  Prefetch = 1
  MaxPosts = 2
  MaxFaults = 1
SPECIFICATION Spec
SYMMETRY Symmetry
INVARIANTS
  TypeOK
  UnsentIsInBroker
  DeadLetteredIsParked
  SendsArePaidFor
  RoutedToOwnChannel
CHECK_DEADLOCK FALSE
