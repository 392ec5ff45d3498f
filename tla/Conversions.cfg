SPECIFICATION NumbersSpec
CONSTANTS
  IntMod = 16
  LongMod = 256
  Exact = 64
  FloatExact = 8
  Unit = {1, 2, 4, 8}
  FloatUnit = {1, 2, 4, 8, 16, 32, 64}
  NoNumber = NoNumber
INVARIANTS
  NumbersTypeOK
  ExactIsKept
  LongIsNear
