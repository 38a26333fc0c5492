CONSTANTS
  m1 = m1
  m2 = m2
  m3 = m3
  Names <- MCNames
  Queues = {"jobs"}
  Handlers <- MCHandlers
  Messages = {m1}
  To <- MCTo
  Event <- MCEvent
  Foreign = {}
  MaxHandles = 3
  MaxConnects = 2
  MaxCloses = 1
  MaxFaults = 0
SPECIFICATION Spec
PROPERTIES
  CloseClosesAll
\* Nobody has to call again: the system may stop.
CHECK_DEADLOCK FALSE
