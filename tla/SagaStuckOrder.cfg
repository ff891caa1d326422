SPECIFICATION FairOrderSpec
CONSTANTS
  o1 = o1
  d1 = d1
  Orders = {o1}
  Drivers = {d1}
  NoDriver = NoDriver
  NoList = NoList
  MaxRetries = 0
  Capacity <- OneEach
  Requests = {}
  CandidateLists <- OneOrNone
  MaxCancels = 0
  Workers = {w1}
  Cancellable = {}
PROPERTIES
  FailureReachesOrder
CHECK_DEADLOCK FALSE
