SPECIFICATION Spec
CONSTANTS
    a = a
    b = b
    None = None
    Legs <- TwoLegs
    First <- TwoLegs
    BackupOf <- NoBackup
    Confirm <- BConfirms
INVARIANTS OneCalleeUncrossed ResultMatchesAnswer CalleeStays LastLegEndsBridge
CHECK_DEADLOCK FALSE
