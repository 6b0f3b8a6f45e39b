SPECIFICATION Spec
CONSTANTS
  BufferSize = 3
  Letters <- OneKey
  Others <- NoKey
  Dead <- NoKey
  CapsKeys <- NoKey
  Shifts <- NoKey
  Lengths <- MCLengths
  MaxKeys = 4
INVARIANT KeysKept
