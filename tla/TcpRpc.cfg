CONSTANTS
  r1 = r1
  r2 = r2
  e1 = e1
  n1 = n1
  n2 = n2
  None = None
  Requests = {r1, r2}
  Events = {e1}
  Conns = {n1, n2}
  Unencodable = {}
  Unreadable = {r2, e1}
  Answers <- MixedAnswers
  Attempts = 1
  Budgets <- MCBudgets
SPECIFICATION FairSpec
\* Nobody has to call again: the system may stop.
CHECK_DEADLOCK FALSE
INVARIANTS
  SentIsAwaited
  ConnIsRead
PROPERTIES
  ImplementsRpc
  SendSettles
  CloseSettles
