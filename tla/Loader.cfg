SPECIFICATION LoaderSpec
CONSTANTS
  Kernel <- MCKernel
  Packed <- MCPacked
  Junk = 5
  MemorySize = 38
  bss = 3
  endOfKernel = 6
  codeModuleAddress = 20
  dataModuleAddress = 26
  CodeBss <- MCBss
  Sizes <- MCSizes
INVARIANTS
  LoadedAsPacked
  LinesArePacked
PROPERTY EndIsReached
