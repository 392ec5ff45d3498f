SPECIFICATION Spec
CONSTANTS
  Refs = {r1, r2, r3}
  Hosts = {g1, g2}
  LuaStates = {L1, L2}
  Slots = {s1, s2, s3, s4}
  Values = {v1, v2}
  LuaNil = LuaNil
  Free = Free
  NullLua = NullLua
  Moved = Moved
  NOREF = NOREF
  REFNIL = REFNIL
SYMMETRY Symmetry
INVARIANTS
  OneSlotEach
  OwnersKeepOpen
PROPERTIES
  OnlyBorrowersCrash
  ThrowLosesTargetOnly
  ImplementsRootedValues
