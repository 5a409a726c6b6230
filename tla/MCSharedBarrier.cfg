SPECIFICATION FairSpec
CONSTANTS
  r0 = r0
  r1 = r1
  r2 = r2
  r3 = r3
  Parties <- FourRanks
  MaxRounds = 3
  MayTimeOut = TRUE
CHECK_DEADLOCK FALSE
INVARIANTS
  NobodyEarly
PROPERTIES
  ImplementsPromise
  EveryRoundCompletes
