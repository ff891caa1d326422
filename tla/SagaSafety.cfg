SPECIFICATION Spec
CONSTANTS
  o1 = o1
  d1 = d1
  Orders = {o1}
  Drivers = {d1}
  NoDriver = NoDriver
  NoList = NoList
  MaxRetries = 0
  Capacity <- OneEach
  Requests = {}
  CandidateLists <- OneOrNone
  MaxCancels = 1
  Workers = {w1, w2}
  Cancellable = {o1}
SYMMETRY WorkerSymmetry
CONSTRAINT NothingOverwritten
INVARIANTS
  SagaTypeOK
  DispatchMatchesReservation
  OrderFollowsDispatch
PROPERTIES
  DispatchOnlyMovesForward
  OnlyStaleSavesReopen
CHECK_DEADLOCK FALSE
