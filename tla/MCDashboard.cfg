\* A request of the page for the list and two runs of submit() at once, two
\* records asked for before the first answer.
CONSTANTS
  PageLoads = {l1}
  Submits = {s1, s2}
  MaxDetails = 2
  MaxVersion = 1
  MaxFailures = 1
SPECIFICATION FairSpec
INVARIANTS
  TypeOK
  ConfirmedWasAccepted
  ConfirmationIsTimed
PROPERTY
  EventuallyFresh
CHECK_DEADLOCK FALSE
