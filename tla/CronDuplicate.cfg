SPECIFICATION Spec
CONSTANTS
  Jobs = {a}
  Once = {a}
  Ticks = {t1}
  MaxFirings = 1
  MaxMishaps = 1
INVARIANTS
  NoDuplicateEnqueue
CHECK_DEADLOCK FALSE
