SPECIFICATION MembersSpec
CONSTANTS
  n1 = n1
  n2 = n2
  a1 = a1
  a2 = a2
  a3 = a3
  Member = {n1, n2}
  Address = {a1, a2, a3}
  Junk = Junk
  NoFunction = NoFunction
  None = None
  MaxEntries = 4
  HashFirst = TRUE
SYMMETRY Symmetry
INVARIANTS
  WrongHasCause
  OneEntryPerName
