CONSTANTS
  Scenarios <- MCScenarios
  MaySkew = FALSE
  MinMsgSize = 2
  ManyRanks = 3
  ManyRanksMin = 6
  SizeMax = 8
SPECIFICATION Spec
CHECK_DEADLOCK FALSE
INVARIANTS
  CommsIdentified
  RoutesAgree
PROPERTIES
  EveryCallReturns
