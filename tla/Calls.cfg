SPECIFICATION CallsSpec
CONSTANTS
  Scalar = {x}
  Key = x
  SmallTable = SmallTable
  LargeTable = LargeTable
  Nil = Nil
  Prototype <- MCPrototype
  Form <- MCForm
  MaxDepth = 4
  MaxValues = 2
  MaxOwn = 1
CHECK_DEADLOCK FALSE
INVARIANTS
  CallsTypeOK
  ArgumentsArrive
  ResultsArrive
  BalancedCallsKeepStack
  FaultHasCause
