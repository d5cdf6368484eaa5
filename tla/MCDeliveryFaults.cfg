\* One POST, a ladder of two rungs; a crash or a lost connection at any point;
\* a client that reads at any time.
CONSTANTS
  email = email
  NoMessage = NoMessage
  NoRow = NoRow
  Workers = {w1, w2}
  WorkerChannel <- AllEmail
  Channels = {email}
  Notifications = {n1}
  MaxRetries = 2
  RetryRungs = 2
  Prefetch = 1
  MaxPosts = 1
  MaxFaults = 1
SPECIFICATION QueriesSpec
SYMMETRY Symmetry
INVARIANTS
  NoLoss
  SuccessIsReal
  LadderInOrder
  CountMatchesHistory
PROPERTIES
  TerminalIsFinal
  DetailExplainsOutcome
CHECK_DEADLOCK FALSE
