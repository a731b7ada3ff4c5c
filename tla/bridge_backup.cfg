SPECIFICATION FairSpec
CONSTANTS
    a = a
    b = b
    None = None
    Legs <- TwoLegs
    First <- OnlyA
    BackupOf <- BBacksA
    Confirm <- BConfirms

PROPERTIES CallerEndsBridge RingingEnds LegsEnd EndIsHeard
CHECK_DEADLOCK FALSE
