SPECIFICATION FairSpec
CONSTANTS
  Jobs = {a, b}
  Once = {a}
  Ticks = {t1}
  MaxFirings = 1
  MaxMishaps = 1
INVARIANTS
  DuplicatesCostCollisions
  JobsKept
PROPERTIES
  ImplementsTable
  EventuallyRun
