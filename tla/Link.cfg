SPECIFICATION FairSpec
CONSTANTS
  Ids = {e1}
  Publishers = {p1, p2}
  Consumers = {c1, c2}
  MaxRetries = 1
INVARIANTS
  DeadWasRetried
PROPERTIES
  EveryEventSettles
  ImplementsLink
CHECK_DEADLOCK FALSE
