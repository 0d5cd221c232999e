SPECIFICATION Spec
CONSTANTS
  i1 = i1  i2 = i2
  Importers = {i1, i2}
  WebOrigins <- BothOrigins
  ConsoleEdits <- OnConsole
  Ages <- SomeAges
  MaxFaults = 1
  MaxEdits = 1
CHECK_DEADLOCK FALSE
INVARIANTS
  EnsuredStays
PROPERTIES
  AdditiveUnlessOverlapped
  RepairConverges
