CONSTANTS
    a = a
    b = b
    ch = ch
    Parties <- Three
    Chairs <- OneChair
    NeedsChairman = TRUE
    HasMoh = TRUE
    MayHangUp <- Two
SPECIFICATION FairSpec
INVARIANTS
    Mesh
    WaitsOnlyIfMissed

    
CHECK_DEADLOCK FALSE
