SPECIFICATION FairSpec
CONSTANTS
  Direct = {d1}
  Notices = {}
  Probes = {}
  Silent = {}
  NoMessage = none
  ReplayCap = 1
  Window = 2
  MaxLosses = 1
  MaxCrashes = 0
PROPERTIES
  EventuallyAcked
CHECK_DEADLOCK FALSE
