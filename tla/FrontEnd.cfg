\* Every way of writing a program that the code is known to get wrong is left out:
\* ElseIfGuards, Aliases, Escaping, Differing, Form, Mishaps and Signed add them.
SPECIFICATION FrontEndSpec
CONSTANTS
  Parts = {"checker", "fold", "names", "repl", "lsp", "operators"}
  MaxChoices = 3
  ElseIfGuards = FALSE
  Aliases = FALSE
  Escaping = {}
  Actor = {a1, a2}
  Budget = 120
  MaxDepth = 4
  Differing = {}
  Form = {}
  MaxEntries = 4
  Mishaps = {}
  main = main
  lib = lib
  File = {main, lib}
  Absent = Absent
  Text <- MCText
  By <- MCBy
  MaxInbox = 2
  Words = {"x", "(", ")", "not", "-", "and", "nand", "==", "in", "isT", "?:", "..", "band", "shl", "*", "**", "!!", "=", "nl"}
  Costly = {"(", ")", "not", "==", "!!", "=", "nl"}
  MaxTokens = 7
  Signed = FALSE
INVARIANTS
  AcceptedIsSafe
  LentIsUntouched
  HandlersAreApart
  FoldingIsExact
  NamesMeanOneThing
  NothingMisread
  FreshIsShown
  TextsReadOneWay
CHECK_DEADLOCK FALSE
