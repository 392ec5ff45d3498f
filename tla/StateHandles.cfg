SPECIFICATION Spec
CONSTANTS
  Handles = {h1, h2, h3, s1, s2}
  Stacks = {s1, s2}
  Holders = {c1, c2, c3}
  LuaStates = {L1, L2, F}
  Foreign = {F}
  Nil = Nil
SYMMETRY Symmetry
INVARIANTS
  CountIsExact
  OpenIffOwned
PROPERTIES
  OnlySelfAssignFaults
  ImplementsSharedOwnership
