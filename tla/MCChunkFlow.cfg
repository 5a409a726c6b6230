SPECIFICATION FairSpec
CONSTANTS
  NumReaders = 2
  NumSubchunks = 3
  Slots = 2
  Kinds <- RingAndLate
CHECK_DEADLOCK FALSE
INVARIANTS
  SliceIntact
  ConsumeCatchesUp
PROPERTIES
  ImplementsChannel
  AllSlicesConsumed
