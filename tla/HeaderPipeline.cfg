SPECIFICATION FairSpec
CONSTANTS
    Capacity = 2
    Concurrent = 2
    MaxEvents = 5
    Reorgs = {2}
    Large = {1, 4}
    MaxRetries = 1
    MaxFailures = 2
    None = None
INVARIANTS
    TypeOK
    PointerHasObject
    NoSilentGap
    OnlyTheSlowAreOvertaken
    OnlyInterruptedAreMissed
PROPERTIES
    HeadersArrive
    IsHeaderTopic
CHECK_DEADLOCK FALSE
