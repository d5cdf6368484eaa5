\* Two threads, every outcome.
CONSTANTS
  Threads = {t1, t2}
  FailureThreshold = 2
  OpenDuration = 2
  Outcomes = {"success", "transient", "permanent"}
SPECIFICATION FairSpec
PROPERTY
  KeepsTestingProvider
