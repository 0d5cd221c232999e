SPECIFICATION Spec
CONSTANTS
  Processes = {p1, p2}
  Requests = {r1, r2}
  Nobody = Nobody
  MaxCrashes = 2
  MaxSignals = 1
CHECK_DEADLOCK FALSE
INVARIANTS
  ServesCompleteSchema
  StopsCleanly
PROPERTIES
  ComesUp
