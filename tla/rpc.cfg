CONSTANTS
    r1 = r1
    r2 = r2
    Readers <- Two
    Alone <- One
    MaxSent = 3
    Count = 2
    Capacity = 1
    MaxFaults = 1
SPECIFICATION FairSpec
INVARIANTS
    OnceInGroup
    AgainOnlyBeforeBad
PROPERTIES
    DealsOut
    Delivered
CHECK_DEADLOCK FALSE
