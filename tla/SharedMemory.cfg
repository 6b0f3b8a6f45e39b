SPECIFICATION ShmSpec
CONSTANTS
  n1 = n1
  n2 = n2
  n3 = n3
  b1 = b1
  b2 = b2
  b3 = b3
  b4 = b4
  NULL = NULL
  Names <- MCNames
  Blocks <- MCBlocks
  MAX_SHBLOCKS = 4
  MaxAttached = 2
SYMMETRY MCSymmetry
INVARIANTS
  ShmTypeOK
  OneRegionEach
  AttachedIsAllocated
  CountsItsMemory
  RoomBelowCurrent
