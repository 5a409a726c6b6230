SPECIFICATION FairSpec
CONSTANTS
  NumRanks = 2
  Setups <- SameBufferSetups
  QueueDepth = 2
CHECK_DEADLOCK FALSE
INVARIANTS
  ResultCorrect
  PathAgreed
PROPERTIES
  EveryWaitEnds
