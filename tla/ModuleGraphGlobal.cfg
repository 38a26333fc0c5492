CONSTANTS
  Declarations = {1, 2, 3, 4}
  Graphs <- MCGraphs
  Complete <- Packages
  Tokens <- MCTokens
  Optional <- OptionalNeeds
  Builtin = {"ExceptionHandler", "InjectorContext"}
  RequestScoped = {"req"}
  Transient = {"id"}
  Controllers = {"page", "db"}
  Broken <- MCBroken
SPECIFICATION Spec
INVARIANT GlobalIsEverywhere
\* create() comes to an end.
CHECK_DEADLOCK FALSE
