SPECIFICATION FairSpec
CONSTANTS
  Tabs = {t1, t2}
  NoTab = NoTab
  LocksAvailable = TRUE
  MaxLogins = 2
  MaxExpiries = 1
  MaxSignOuts = 0
  MaxFaults = 0
  MaxReloads = 1
INVARIANTS
  AttemptRedeemedOnce
PROPERTIES
  CallsEnd
