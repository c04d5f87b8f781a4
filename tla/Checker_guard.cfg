SPECIFICATION Spec
CONSTANTS
  MaxChoices = 3
  ElseIfGuards = TRUE
  Aliases = FALSE
  Escaping = {}
  Actor = {a1, a2}
INVARIANT AcceptedIsSafe
CHECK_DEADLOCK FALSE
