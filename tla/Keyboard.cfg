SPECIFICATION Spec
CONSTANTS
  BufferSize = 3
  Letters <- OneKey
  Others <- NoKey
  Dead <- Control
  CapsKeys <- Caps
  Shifts <- BothShifts
  Lengths <- MCLengths
  MaxKeys = 4
INVARIANTS
  TypeOK
  ShiftNotStuck
  DeliveredOnce
PROPERTY Delivery
