SPECIFICATION FairSpec
CONSTANTS
  Keys = {k1}
  NoKey = NoKey
  PushKinds = {"direct", "heartbeat", "task", "alert", "hint"}
  FrontKinds = {"cron", "task"}
  MaxRows = 3
INVARIANTS
  NoLostWakeup
  ArrivalSequencesDistinct
PROPERTIES
  ContinuationKept
  NoticesHeld
  OrderKept
  EventuallyTaken
CHECK_DEADLOCK FALSE
