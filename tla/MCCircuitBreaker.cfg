\* Three threads: one probe by clock, one flagged probe, one late caller.
CONSTANTS
  Threads = {t1, t2, t3}
  FailureThreshold = 3
  OpenDuration = 2
  Outcomes = {"success", "transient", "permanent"}
SPECIFICATION FairSpec
INVARIANTS
  TypeOK
  AtMostTwoHalfOpenCalls
  HalfOpenHasCaller
PROPERTY
  KeepsTestingReported
