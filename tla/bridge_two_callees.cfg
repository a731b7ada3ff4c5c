SPECIFICATION Spec
CONSTANTS
    a = a
    b = b
    None = None
    Legs <- TwoLegs
    First <- TwoLegs
    BackupOf <- NoBackup
    Confirm <- BConfirms
INVARIANT OneCallee
CHECK_DEADLOCK FALSE
