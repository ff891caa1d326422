SPECIFICATION PlacesSpec
CONSTANTS
  Pool = {1, 2, 3}
  Capacity <- Capacities
  Limit = 2
  Overfetch = 1
  Radius = 1
  MaxAge = 1
  Weights <- EvenWeights
  MaxReports = 1
  MaxTicks = 1
  Points = {0, 1, 2}
  Distance <- OnLine
  Inputs <- PlanCalls
  MaxOrders = 3
  Drivers = {d1}
  Times = {1, 2}
  Calls = {c1, c2}
  Clients = {w1}
  Http = Http
  Gone = Gone
  Waypoints = {s1, s2, s3}
  NoRoute = NoRoute
  Fetches = {x1, x2, x3}
  ConsoleCalls = {g1, g2}
INVARIANTS
  PlacesTypeOK
  RankedAreLive
  NobodyIsMissed
  NearerIsTriedFirst
  RouteServesAccepted
  VehicleNeverOverloaded
  OnlyImpossibleRejected
  HistoryIsComplete
  LatestIsNewest
  RoadIsCurrent
  AnswersAreTrue
PROPERTIES
  WatchersFollowLive
  LiveMovesForward
  InsertionIsShortest
CHECK_DEADLOCK FALSE
