SPECIFICATION Spec
CONSTANTS
  Slots = {1, 2, 3}
  Null = Null
  MaxPresses = 3
  MaxSessions = 1
  MaxOthers = 1
  MaxFaults = 1
CHECK_DEADLOCK FALSE
INVARIANTS
  ShowsWhatItDid
  LoadingIsTrue
PROPERTIES
  NoBlindWrite
