SPECIFICATION Spec
CONSTANTS
  Null = Null
  c1 = c1  c2 = c2  sA = sA  sB = sB  d1 = d1
  DomainIds = {c1, c2, sA, sB, d1}
  Principals <- CustomerAndStaff
  Drivers = {d1}
  Bodies <- OutletBodies
  OrderIds = {o1}
  PickupIds = {p1}
  Keys = {k1, k2}
  Windows = {}
  Retention = 1
  MaxClock = 0
  MaxFaults = 0
SYMMETRY IdSymmetry
PROPERTIES
  CancelledIsFinal
