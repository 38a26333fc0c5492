CONSTANTS
  Declarations = {1, 2, 3, 4}
  Graphs <- MCGraphs
  Complete <- Packages
  Tokens <- MCTokens
  Optional <- OptionalNeeds
  Builtin = {"ExceptionHandler", "InjectorContext"}
  RequestScoped = {"req"}
  Transient = {"id"}
  Controllers = {"page", "db"}
  Broken <- MCBroken
  Definitions = {1, 2, 3}
  Parent <- MCParent
  Members = {"m", "s"}
  Static = {"s"}
  MaxMarks = 3
SPECIFICATION ModulesSpec
INVARIANTS
  InitOnceInOrder
  VisibleAsDeclared
  MarksAreRead
\* create() comes to an end, and so does the evaluation of the classes.
CHECK_DEADLOCK FALSE
