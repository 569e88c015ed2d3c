SPECIFICATION FairAnswerSpec
CONSTANTS
    a1 = a1
    a2 = a2
    o1 = o1
    o2 = o2
    Callers = {a1, a2}
    Orders = {o1, o2}
    BatchSize = 2
    Concurrent = 2
    MaxHeight = 1
    MaxTimers = 1
    None = None
    Failed = Failed
INVARIANTS
    TypeOK
    OneSenderPerCall
    QueuedOnce
    PriorityIsPromoted
    PermitsAccountedFor
    NoLostWakeup
PROPERTIES
    IsFetchService
    PriorityCallsAnswered
    RevalidationsAnswered
