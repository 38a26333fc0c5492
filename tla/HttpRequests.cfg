CONSTANTS
  Classes <- MCClasses
  Filters <- MCFilters
  MaxRegisters = 2
  BasePath <- MCBasePath
  Controllers <- MCControllers
  Imported = {2}
  GlobalGuards <- MCGlobalGuards
  Requests <- MCRequests
  Status <- MCStatus
  PipeSet <- MCPipeSet
  Queries <- MCQueries
  Text <- MCText
SPECIFICATION HttpSpec
INVARIANTS
  FiltersOrdered
  SuccessIsEarned
  ScopesReleased
  PipesAreSound
PROPERTIES
  EveryRequestAnswered
\* Requests come to an end.
CHECK_DEADLOCK FALSE
