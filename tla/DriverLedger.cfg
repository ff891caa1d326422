SPECIFICATION FairSpec
CONSTANTS
  o1 = o1
  o2 = o2
  d1 = d1
  d2 = d2
  Orders = {o1, o2}
  Drivers = {d1}
  NoDriver = NoDriver
  NoList = NoList
  MaxRetries = 0
  Capacity <- OneEach
  Requests = {}
  CandidateLists <- OneOrNoList
  MaxInFlight = 2
PROPERTIES
  ImplementsLedger
  ReleaseCompletes
CHECK_DEADLOCK FALSE
