SPECIFICATION Spec
CONSTANTS
  Tabs = {t1, t2}
  NoTab = NoTab
  LocksAvailable = TRUE
  MaxLogins = 2
  MaxExpiries = 1
  MaxSignOuts = 1
  MaxFaults = 1
  MaxReloads = 1
SYMMETRY TabSymmetry
INVARIANTS
  CoordinatedRefresh
  IInv
  StoredStaysRefreshable
  OnlyWriterOutdated
