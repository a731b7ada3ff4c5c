CONSTANTS
    a = a
    s = s
    Channels <- Pair
    Web <- JustA
    MaxGoing = 1
    MaxDeaths = 1
SPECIFICATION FairSpec
INVARIANTS
    Connected
    ListedUnlessCrossed
    NoGhosts
PROPERTIES
    SilentLeaves
CHECK_DEADLOCK FALSE
