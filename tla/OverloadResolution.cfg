SPECIFICATION Spec
CONSTANTS
  Param <- MCParam
  Arg <- MCArg
  Function = {f1, f2}
  None = None
  MaxArgs = 2
  MaxRegistered = 3
SYMMETRY Symmetry
CHECK_DEADLOCK FALSE
INVARIANTS
  RunsOnlyWhatFits
  FailsOnlyWhenUnservable
PROPERTIES
  RegistrationIsMonotone
