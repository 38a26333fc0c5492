CONSTANTS
  k1 = k1
  k2 = k2
  k3 = k3
  k4 = k4
  id1 = id1
  c1 = c1
  c2 = c2
  c3 = c3
  c4 = c4
  c5 = c5
  None = None
  NoContext = NoContext
  Root = "app"
  Containers <- MCContainers
  Clients = {k1, k2, k3, k4}
  ContextIds = {id1}
  Calls <- MCCalls
  MaxAsks = 2
  Tokens <- ThreeTokens
  Registered <- ThreeRegistered
  Home <- ThreeHome
  Mode <- ThreeMode
  Kind <- ThreeKind
  Deps <- ThreeDeps
  Optional <- ThreeOptional
  Faulty = {}
  Expressions = {}
  CtxOf <- SharedId
SPECIFICATION RaceSpec
INVARIANTS
  CycleNeverGiven
  RequestInstancesPrivate
PROPERTIES
  ContextInstanceStable
  ResolveSettles
\* Clients need not ask again: the system may stop.
CHECK_DEADLOCK FALSE
