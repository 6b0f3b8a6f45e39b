SPECIFICATION Spec
CONSTANTS
  p1 = p1
  p2 = p2
  Header <- MCHeader
  Procs <- MCProcs
  HeapStart <- Spread
  HeapSize <- MCHeapSize
  Sizes <- MCSizes
  Counts <- MCCounts
  AmountRange <- MCAmountRange
INVARIANTS
  LiveAreUsed
  Isolated
PROPERTY
  HeapPromises
