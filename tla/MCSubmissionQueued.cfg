\* Two POSTs of one key on two threads, no fault from outside.
CONSTANTS
  a = a
  b = b
  r1 = r1
  r2 = r2
  r3 = r3
  r4 = r4
  NoRow = NoRow
  Requests = {r1, r2}
  Keys = {a}
  KeyOf <- KeyOfRequest
  HttpThreads = 2
  MaxCrashes = 0
  MaxLosses = 0
SPECIFICATION Spec
INVARIANT
  AcceptedIsQueued
CHECK_DEADLOCK FALSE
