SPECIFICATION FairSpec
CONSTANTS
  Value = {v1}
  NumKeys = 3
  StringKeys = {1, 3}
  Signature <- MCSignature
  MaxLoops = 2
  MaxOwn = 2
  MaxSlots = 7
CHECK_DEADLOCK FALSE
INVARIANTS
  TypeOK
  OwnValuesStand
  LoopsVisitAll
PROPERTIES
  LoopsEnd
