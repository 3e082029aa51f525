SPECIFICATION FairSpec
CONSTANTS
  MaxGeneration = 2
  Overlap = FALSE
  MaxPending = 1
  MaxMishaps = 1
INVARIANTS
  OneLink
  AckedIsDurable
  FenceIsApplied
PROPERTIES
  HealthNotOlder
  EventuallyAcked
CHECK_DEADLOCK FALSE
