SPECIFICATION FairSpec
CONSTANTS
  NRanks = 3
  Keys <- KeySet
  SplitKeys <- BigKeys
  Programs <- OrderlyPrograms
  Leftovers = {"absent", "clean"}
  FastOnlyLog = FALSE
CHECK_DEADLOCK FALSE
INVARIANTS
  SamePlan
  HandOver
PROPERTIES
  ImplementsPromise
  EveryLaunchReturns
