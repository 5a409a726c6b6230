SPECIFICATION FairSpec
CONSTANTS
  MinMsgSize = 512
  MinChunkSize = 128
  SizeBits = 16
  SizeBucketBase = 512
  WarmupSteps = 1
  MinBandwidthSample = 384
  MinPenalty = 512
  RingSize = 2
  Programs <- Split
CHECK_DEADLOCK FALSE
INVARIANTS
  PlanExact
  StreamsOrdered
  ResourcesOwned
PROPERTIES
  EveryCollectiveEnds
