SPECIFICATION FairSpec
CONSTANTS
  u1 = u1
  u2 = u2
  Users <- TwoUsers
  NoUser = NoUser
  QueueDepth = 2
  MaxWork = 3
  MayFail = TRUE
CHECK_DEADLOCK FALSE
INVARIANTS
  PassedOnlyEnded
  SlotsKept
  DrainedMeansEnded
PROPERTIES
  EveryWaitEnds
