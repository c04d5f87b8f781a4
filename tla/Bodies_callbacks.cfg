SPECIFICATION Spec
CONSTANTS
  MaxChoices = 3
  FailingCallbacks = TRUE
  Aliasing = FALSE
INVARIANT NothingRunsUnwinding
CHECK_DEADLOCK FALSE
