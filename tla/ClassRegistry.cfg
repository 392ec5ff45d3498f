SPECIFICATION Spec
CONSTANTS
  A = A
  B = B
  Class = {A, B}
  NamesOf <- MCNamesOf
  FeaturesOf <- MCFeaturesOf
  Buffer = {b1, b2, b3}
  LuaState = {L1}
  Userdatum = {u1}
  Tables = {"methods"}
  Overloads = {"__add"}
  Null = Null
  Unallocated = Unallocated
SYMMETRY Symmetry
CHECK_DEADLOCK FALSE
INVARIANTS
  DerivedNamesOwned
  OperatorsStayUsable
  CarefulReadsNames
  InspectSound
