SPECIFICATION FairSpec
CONSTANTS
  Entries = {e1}
  Ticks = {t1, t2}
  Boot = boot
  MaxRetries = 2
  MaxSends = 3
  MaxCrashes = 1
  MaxFaults = 1
INVARIANTS
  NothingLost
  FirstAttemptAlone
  SentOncePerCrash
  AckedStaysGone
PROPERTIES
  EventuallySettled
CHECK_DEADLOCK FALSE
