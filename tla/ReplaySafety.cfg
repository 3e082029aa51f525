SPECIFICATION FairSpec
CHECK_DEADLOCK FALSE
CONSTANTS
  MaxRows = 3
  MaxEpisodes = 2
  MaxCrashes = 1
  MaxAttempts = 2
INVARIANTS
  OneReleasing
  NothingDropped
  RepeatedOnlyByCrash
PROPERTIES
  ImplementsLedger
  EventuallyReplayed
