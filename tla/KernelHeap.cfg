SPECIFICATION Spec
CONSTANTS
  Header <- MCHeader
  Base <- MCBase
  Limit <- MCLimit
  Sizes <- MCSizes
  Counts <- MCCounts
INVARIANTS
  TypeOK
  LiveAreUsed
  NoFreeNeighbours
  OverrunIsBounded
PROPERTY HeapPromise
