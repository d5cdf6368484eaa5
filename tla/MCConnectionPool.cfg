\* Two HTTP threads, two workers, one session more than HTTP threads.
CONSTANTS
  Sessions = {s1, s2, s3}
  HttpThreads = {h1, h2}
  WorkerThreads = {w1, w2}
SPECIFICATION FairSpec
INVARIANTS
  TypeOK
  SessionsPartitioned
  WakeupsCover
  NotAllWait
PROPERTY
  AcquireReturns
