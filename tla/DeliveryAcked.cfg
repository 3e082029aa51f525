SPECIFICATION Spec
CONSTANTS
  Entries = {e1}
  Ticks = {t1, t2}
  Boot = boot
  MaxRetries = 2
  MaxSends = 3
  MaxCrashes = 0
  MaxFaults = 0
INVARIANTS
  AckedIsGone
CHECK_DEADLOCK FALSE
