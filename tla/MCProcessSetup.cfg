CONSTANTS
  Scenarios <- MCScenarios
  Leftovers = {FALSE}
SPECIFICATION Spec
CHECK_DEADLOCK FALSE
INVARIANTS
  SetUpTogether
  BindsRegistered
PROPERTIES
  EveryCallReturns
