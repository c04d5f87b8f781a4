SPECIFICATION FairSpec
CONSTANTS
    w1 = w1
    w2 = w2
    m1 = m1
    m2 = m2
    p1 = p1
    MaxActors = 3
    Workers = {w1, w2}
    Cores = 2
    Msg = {m1}
    NoMsg = NoMsg
    Peers = {}
    Main = Main
    Free = Free
    CatchMode = TRUE
    DropMode = FALSE
    MaxSends = 1
    MaxBox = 1
    MaxRuns = 1
INVARIANTS
    OneAtATime
    InflightIsExact
    LeftIsQuiescent
    JoinIsQuiescent
PROPERTY
    RunEnds
    NoActorStarves
    PanicReachesCaller
