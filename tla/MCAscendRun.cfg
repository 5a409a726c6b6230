CONSTANTS
  Ranks <- TwoRanks
  Comms <- ThreeComms
  Numas <- TwoNumas
  Scenarios <- AllScenarios
  NumPlaces = 2
  Alignment = 2
  LeadWindow = 2
  LaneDepth = 2
  QueueDepth = 2
  Workers = 2
SPECIFICATION Spec
CHECK_DEADLOCK FALSE
INVARIANTS
  ResultCorrect
  ResourcesHeld
  NobodyStuck
PROPERTIES
  NoResetUnderway
