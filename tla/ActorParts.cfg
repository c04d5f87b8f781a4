SPECIFICATION PartsSpec
CONSTANTS
    MaxActors = 3
    Msg = {m1, m2}
    NoMsg = NoMsg
    MaxSends = 1
    MaxBox = 2
    MaxRuns = 2
    Thread = {t1, t2}
    Val = {v1, v2}
    Free = Free
    Object <- Objects5
    Audit = FALSE
    MaxPosts = 2
INVARIANTS
    CopiesOfWhatWasPosted
PROPERTIES
    ImplementsModel
    NoActorStarves
    CallsEnd
