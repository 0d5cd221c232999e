SPECIFICATION Spec
CONSTANTS
  Tabs = {t1, t2}
  NoTab = NoTab
  LocksAvailable = TRUE
  MaxLogins = 1
  MaxExpiries = 1
  MaxSignOuts = 1
  MaxFaults = 0
  MaxReloads = 0
SYMMETRY TabSymmetry
PROPERTIES
  OnlyLoginSignsIn
