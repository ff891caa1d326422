SPECIFICATION Spec
CONSTANTS
  o1 = o1
  o2 = o2
  d1 = d1
  d2 = d2
  Orders = {o1, o2}
  Drivers = {d1, d2}
  NoDriver = NoDriver
  NoList = NoList
  MaxRetries = 0
  Capacity <- OneEach
  Requests = {r1}
  CandidateLists <- Ranked
  MaxInFlight = 2
SYMMETRY OrderSymmetry
INVARIANTS
  ReservationsWithinCapacity
CHECK_DEADLOCK FALSE
