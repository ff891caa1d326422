SPECIFICATION FairSpec
CONSTANTS
  o1 = o1
  d1 = d1
  Orders = {o1}
  Drivers = {d1}
  NoDriver = NoDriver
  NoList = NoList
  MaxRetries = 1
  Capacity <- OneEach
  Requests = {}
  CandidateLists <- OneOrNone
  MaxCancels = 1
  Workers = {}
  Cancellable = {}
PROPERTIES
  LateReservationIsReleased
  CompensationCompletes
  SearchEnds
CHECK_DEADLOCK FALSE
