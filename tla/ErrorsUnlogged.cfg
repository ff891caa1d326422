SPECIFICATION RequestsSpec
CONSTANTS
  BreakerCalls = {b1, b2, b3}
  FailureThreshold = 2
  HalfOpenMaxCalls = 2
  ResetTimeout = 4
  CallTimeout = 2
  Requests = {p1, p2}
  Keys = {k1, k2}
  Unkeyed = Unkeyed
  Locks = {l1}
  LockOf <- OneLock
  NoOrder = NoOrder
  Fleet = {f1, f2}
  Deliveries = {o1}
  Nobody = Nobody
  Refreshes = {r1, r2}
  Builds = {u1, u2}
  MaxReassignments = 1
  MaxClicks = 2
  MaxDemoPolls = 2
INVARIANTS
  ErrorsAreLogged
CHECK_DEADLOCK FALSE
