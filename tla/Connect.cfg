SPECIFICATION FairSpec
CONSTANTS
  Direct = {d1}
  Notices = {n1}
  Probes = {p1}
  Silent = {}
  NoMessage = none
  ReplayCap = 1
  Window = 2
  MaxLosses = 1
  MaxCrashes = 1
INVARIANTS
  AckMeansCompleted
  DirectNotLost
  DeferredIsQueued
  NeverRunAgain
PROPERTIES
  EventuallyCompleted
  ImplementsReliable
CHECK_DEADLOCK FALSE
