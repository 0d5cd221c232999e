SPECIFICATION Spec
CONSTANTS
  Null = Null
  c1 = c1  c2 = c2  sA = sA  sB = sB  d1 = d1
  DomainIds = {c1, c2, sA, sB, d1}
  Principals <- OneOfEach
  Drivers = {d1}
  Bodies <- KeyedBodies
  OrderIds = {o1, o2}
  PickupIds = {p1}
  Keys = {k1, k2}
  Windows = {}
  Retention = 1
  MaxClock = 2
  MaxFaults = 2
SYMMETRY IdSymmetry
INVARIANTS
  AtMostOncePerKey
  CompletedMeansDone
  AnswersAreTrue
  CancellationLedger
  ClaimNeverLost
  CancelledHasRecord
  DispatchedOrderIsBound
  BusyOnlyWhileRunning
  AnswersFitBody
PROPERTIES
  ImplementsKeys
