CONSTANTS
    h1 = h1
    h2 = h2
    None = None
    Kinds <- SoundKinds
    Handlers <- TwoHandlers
    Udp = TRUE
    MaxCreated = 2
    MaxCrash = 0
    MaxArmed = 1
    Expiry = FALSE
SPECIFICATION FairSpec
INVARIANT EndIsArmed
PROPERTIES
    FollowsDiagram
    EventuallyEnds
CHECK_DEADLOCK FALSE
