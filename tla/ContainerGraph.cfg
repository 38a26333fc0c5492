\* Every mode of provider, a pool that may fail, a request and an unscoped caller.
CONSTANTS
  k1 = k1
  k2 = k2
  k3 = k3
  k4 = k4
  id1 = id1
  c1 = c1
  c2 = c2
  c3 = c3
  c4 = c4
  c5 = c5
  None = None
  NoContext = NoContext
  Root = "app"
  Containers <- MCContainers
  Clients = {k1, k2}
  ContextIds = {id1}
  Calls <- MCCalls
  MaxAsks = 2
  Tokens <- GraphTokens
  Registered <- GraphRegistered
  Home <- GraphHome
  Mode <- GraphMode
  Kind <- GraphKind
  Deps <- GraphDeps
  Optional <- GraphOptional
  Faulty = {"pool"}
  Expressions <- GraphExpressions
  CtxOf <- OneRequest
SPECIFICATION Spec
INVARIANTS
  ResolvingIsInFlight
  SingletonBuiltOnce
\* Clients need not ask again: the system may stop.
CHECK_DEADLOCK FALSE
