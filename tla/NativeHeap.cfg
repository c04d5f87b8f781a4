SPECIFICATION Spec
CONSTANTS
    Obj = {o1, o2, o3}
    Finalized = {o1, o2}
    Null = Null
    x = x
    g = g
    Local <- MCLocal
    Global = {g}
SYMMETRY Symmetry
INVARIANTS
    CountsAreOwners
    NoUseAfterFree
    OnlyCyclesLeak
PROPERTY
    DeinitsAsPromised
