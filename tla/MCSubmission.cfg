SPECIFICATION Spec
CONSTANTS
  Slots = {1, 2}
  MaxIntents = 2
  MaxEdits = 1
  MaxDoubles = 2
  MaxReloads = 1
  MaxRefusals = 1
  MaxFaults = 2
CHECK_DEADLOCK FALSE
INVARIANTS
  PerformedOnce
  SuccessIsTrue
  RefusedOnlyAfterEdit
