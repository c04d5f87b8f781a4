SPECIFICATION Spec
CONSTANTS
  MaxChoices = 3
  FailingCallbacks = FALSE
  Aliasing = FALSE
INVARIANTS
  NothingDeadIsUsed
  NothingRunsUnwinding
  ReferencesBalance
  BodiesMeanTheSame
CHECK_DEADLOCK FALSE
