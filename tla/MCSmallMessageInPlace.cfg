SPECIFICATION Spec
CONSTANTS
  NumRanks = 2
  Setups <- InPlaceSetups
  QueueDepth = 2
INVARIANTS
  ResultCorrect
CHECK_DEADLOCK FALSE
