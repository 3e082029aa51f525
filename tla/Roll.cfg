SPECIFICATION FairSpec
CONSTANTS
  Rows = {r1, r2}
  Requests = {q1, q2}
  NoRow = none
  NoRequest = nobody
  Fenceable = TRUE
  MaxProbes = 3
INVARIANTS
  ReadyMeansIdle
  NobodyStranded
  AcceptedKept
  QuietReplacement
PROPERTIES
  EventuallyServed
  ImplementsBoundary
CHECK_DEADLOCK FALSE
