SPECIFICATION Spec
CONSTANTS
  Null = Null
  c1 = c1  c2 = c2  sA = sA  sB = sB  d1 = d1
  DomainIds = {c1, c2, sA, sB, d1}
  Principals <- TwoOutlets
  Drivers = {d1}
  Bodies <- OutletBodies
  OrderIds = {o1}
  PickupIds = {p1}
  Keys = {k1, k2}
  Windows = {w1, w2}
  Retention = 1
  MaxClock = 1
  MaxFaults = 1
SYMMETRY IdSymmetry
INVARIANTS
  NoLostUpdate
  ListDetailAgree
  IInv
PROPERTIES
  WritesAuthorised
  ImplementsLifecycle
  OrdersMoveForward
