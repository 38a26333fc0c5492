CONSTANTS
  Order <- TwoProviders
  Imported <- OneImported
  Scenarios <- MCScenarios
SPECIFICATION Spec
\* Every call has been answered: the system may stop.
CHECK_DEADLOCK FALSE
INVARIANTS
  ReadyBeforeServing
  DisposedOncePerInit
  BootstrapOnce
  ClosedIsDisposed
PROPERTY
  CallSettles
