SPECIFICATION FairSpec
CONSTANTS
  Ranks <- TwoRanks
  Scenarios <- Workloads
  Slots = 2
  LeadWindow = 1
  LaneDepth = 2
  QueueDepth = 1
  Numas <- TwoNumas
  Workers = 2
  Threads = 2
INVARIANTS
  TypeOK
  ResultCorrect
PROPERTIES
  NoResetUnderway
  CollectiveIsBarrier
  AllCollectivesComplete
CHECK_DEADLOCK FALSE
