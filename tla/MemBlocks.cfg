SPECIFICATION Spec
CONSTANTS
  Pool = 40
  Last = 15
  MemStart = 80
  Page = 4
  Header = 2
  Sizes <- MCSizes
INVARIANTS
  TypeOK
  LiveAreAllocated
  RefusedOnlyIfFull
PROPERTY BlockPromise
