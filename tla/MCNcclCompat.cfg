SPECIFICATION Spec
CONSTANTS
  Scenarios <- MCScenarios
  QueueDepth = 2
CHECK_DEADLOCK FALSE
INVARIANTS
  WorkPaired
  DriverNeverWaits
PROPERTIES
  EveryCallReturns
