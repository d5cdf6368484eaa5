\* Three POSTs of one key and one of another on three threads; a crash and a
\* lost connection at any point.
CONSTANTS
  a = a
  b = b
  r1 = r1
  r2 = r2
  r3 = r3
  r4 = r4
  NoRow = NoRow
  Requests = {r1, r2, r3, r4}
  Keys = {a, b}
  KeyOf <- KeyOfRequest
  HttpThreads = 3
  MaxCrashes = 1
  MaxLosses = 1
SPECIFICATION Spec
INVARIANTS
  TypeOK
  AnswersAgree
  StrandedByFaultOnly
PROPERTY
  ImplementsDelivery
SYMMETRY SameKey
CHECK_DEADLOCK FALSE
