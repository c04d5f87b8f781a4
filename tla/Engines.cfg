\* Compiled programs here leave every try by its end and always find a clause,
\* and no expression is one the engines are known to answer differently.
SPECIFICATION EnginesSpec
CONSTANTS
    Str = Str
    Rec = Rec
    NoType = NoType
    Type = {Str, Rec}
    ClauseLists <- MCClauses
    VmClauses <- MCVmClauses
    MaxNest = 5
    JumpsLeaveTries = FALSE
    TypedOutermost = FALSE
    Width = 4
    PowCap = 3
    FloatGap = 2
    AtEdges = FALSE
    Data = {1, 2}
    Fun = {11, 12}
    Global = {1}
    MaxText = 6
    Turns = 2
    MaxCalls = 3
    FunsInBlocks = FALSE
    OwnNames = FALSE
    Rebinding = FALSE
    KeptCallers = FALSE
    MaxActors = 2
    Workers = {w1, w2}
    Cores = 2
    Msg = {m1, m2}
    NoMsg = NoMsg
    Peers = {p1}
    Main = Main
    Free = Free
    CatchMode = TRUE
    DropMode = TRUE
    MaxSends = 1
    MaxBox = 2
    MaxRuns = 2
SYMMETRY Symmetry
INVARIANTS
    TriesAreCounted
    EnginesAreExact
    NamesOnVm
    NamesInWalker
PROPERTIES
    NativeImplementsInterp
    VmImplementsInterp
    PoolImplementsModel
