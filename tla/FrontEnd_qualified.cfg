SPECIFICATION FrontEndSpec
CONSTANTS
  Parts = {"names"}
  MaxChoices = 3
  ElseIfGuards = FALSE
  Aliases = FALSE
  Escaping = {}
  Actor = {a1, a2}
  Budget = 120
  MaxDepth = 4
  Differing = {}
  Form = {"qualified"}
  MaxEntries = 4
  Mishaps = {}
  main = main
  lib = lib
  File = {main, lib}
  Absent = Absent
  Text <- MCText
  By <- MCBy
  MaxInbox = 2
  Words = {"x", "(", ")", "not", "-", "and", "nand", "==", "in", "isT", "?:", "..", "band", "shl", "*", "**", "!!", "=", "nl"}
  Costly = {"(", ")", "not", "==", "!!", "=", "nl"}
  MaxTokens = 7
  Signed = FALSE
INVARIANT UsesReachWhatIsMeant
CHECK_DEADLOCK FALSE
