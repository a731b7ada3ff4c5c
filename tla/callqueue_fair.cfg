CONSTANTS
    q1 = q1
    q2 = q2
    a = a
    b = b
    Global = Global
    None = None
    Calls <- TwoCalls
    Queues = {q1}
    Agents = {a}
    QueueOf <- OneQueue
    Members <- Alone
    OwnWait = {a}
    RingAll = {}
    MaxTime = 0
    MaxCrash = 1
    Prompt = TRUE
SPECIFICATION Patient
PROPERTIES
    DeadCallsGo
    LocksHeal
    KeepsRinging
CHECK_DEADLOCK FALSE
