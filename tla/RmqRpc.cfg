CONSTANTS
  r1 = r1
  e1 = e1
  p1 = p1
  p2 = p2
  Requests = {r1}
  Events = {e1}
  Poison = {p1, p2}
  Prefetch = 2
  MaxDials = 2
  Scenarios <- MCScenarios
SPECIFICATION FairSpec
INVARIANTS
  AskedIsPending
PROPERTIES
  ImplementsRpc
  ImplementsDelivery
  SendSettles
\* Nobody has to call again: the system may stop.
CHECK_DEADLOCK FALSE
