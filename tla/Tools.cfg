\* The five tools. One call of runCommand at a time, one checkout, and paths that
\* climb one directory above the working one at most.
SPECIFICATION ToolsSpec
CONSTANTS
    Call = {c1, c2}
    AtOnce = 1
    MaxInput = 2
    Capacity = 1
    MaxAhead = 1
    File = {f1, f2, f3}
    MaxImports = 2
    Dir = {d1, d2}
    MaxParts = 5
    MaxClimb = 1
    Checkout = {here}
    Pkg = {a, b}
    Tag = {v1, v2}
    Wants <- MCWants
    a = a
    b = b
    v1 = v1
    v2 = v2
    Version = 2
    None = None
    Missing = Missing
    Commands <- MCCommands
    Texts = {0, 2}
    Programs <- MCPrograms
    PipeSize = 1
INVARIANTS
    CallsAreWhole
    ProgramIsWhole
    NormaliseKeepsTheFile
    LockIsClosed
    VerdictsAreTrue
PROPERTIES
    ToolsEnd
CHECK_DEADLOCK FALSE
