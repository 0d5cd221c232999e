SPECIFICATION Spec
CONSTANTS
  Null = Null
  Ids = {1, 2, 3}
  People = {cA}
  Outlets = {oA, oB}
  Limits <- SomeLimits
  MaxClock = 2
CHECK_DEADLOCK FALSE
INVARIANTS
  NoRowTwice
  SteadyRowsListed
PROPERTIES
  WalkEnds
