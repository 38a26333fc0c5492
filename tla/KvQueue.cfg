CONSTANTS
  m1 = m1
  m2 = m2
  m3 = m3
  Names <- MCNames
  Queues = {"jobs"}
  Handlers <- MCHandlers
  Messages = {m1, m2, m3}
  To <- MCTo
  Event <- MCEvent
  Foreign = {m3}
  MaxHandles = 3
  MaxConnects = 2
  MaxCloses = 1
  MaxFaults = 1
SPECIFICATION FairSpec
INVARIANTS
  HandlesOwned
PROPERTIES
  ImplementsDelivery
  MessageSettles
\* Nobody has to call again: the system may stop.
CHECK_DEADLOCK FALSE
