SPECIFICATION Spec
CONSTANTS
  g = g
  t1 = t1
  t2 = t2
  r1 = r1
  r2 = r2
  Table <- MCTable
  Globals = g
  NumKeys = 2
  Atom = {}
  Nil = Nil
  Ref = {r1, r2}
  Holder = {h}
  None = None
  MaxVia = 2
  MaxScope = 3
  Entry <- MCEntry
SYMMETRY RefSymmetry
CHECK_DEADLOCK FALSE
INVARIANTS
  TypeOK
  CachedUntilWritten
PROPERTIES
  AssignsWhatIsNamed
