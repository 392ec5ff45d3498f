SPECIFICATION Spec
CONSTANTS
  Cell = {c1, c2}
  Userdatum = {u1, u2, u3}
  Value = {v1, v2}
  Garbage = Garbage
  Freed = Freed
  Nowhere = Nowhere
  Nothing = Nothing
  MaxClosures = 1
SYMMETRY Symmetry
CHECK_DEADLOCK FALSE
INVARIANTS
  ValuesOwnTheirCells
  DanglingHasCause
  CarefulIsSafe
PROPERTIES
  ConstObjectsUntouched
