SPECIFICATION Spec
CONSTANTS
  s1 = s1
  s2 = s2
  s3 = s3
  p1 = p1
  v1 = v1
  v2 = v2
  Str = {s1, s2, s3}
  Number = Number
  Nil = Nil
  Freed = Freed
  Place = {p1}
  View = {v1, v2}
  Fresh = Fresh
  Adrift = Adrift
  None = None
  MaxSlots = 3
SYMMETRY Symmetry
CHECK_DEADLOCK FALSE
INVARIANTS
  DanglingHasCause
  CarefulIsSafe
