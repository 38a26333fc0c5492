CONSTANTS
  c1 = c1
  c2 = c2
  x = x
  Calls = {c1, c2}
  Explorer = x
  Scenarios <- MCScenarios
  MaxConns = 2
  MaxChannels = 3
SPECIFICATION FairSpec
INVARIANTS
  AskedCanSettle
PROPERTIES
  ImplementsDelivery
  MessageSettles
\* Nobody has to call again: the system may stop.
CHECK_DEADLOCK FALSE
