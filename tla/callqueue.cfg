CONSTANTS
    q1 = q1
    q2 = q2
    a = a
    b = b
    Global = Global
    None = None
    Calls <- ThreeCalls
    Queues = {q1, q2}
    Agents = {a, b}
    QueueOf <- TwoQueues
    Members <- Group
    OwnWait = {a, b}
    RingAll = {q1}
    MaxTime = 1
    MaxCrash = 1
    Prompt = TRUE
SPECIFICATION Pairs
INVARIANTS
    InOrder
    DoubledIfOvertaken
    RungOnce
    RestFirst
PROPERTIES
    KeepsPromise
CHECK_DEADLOCK FALSE
