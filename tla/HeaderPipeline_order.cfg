SPECIFICATION Spec
CONSTANTS
    Capacity = 2
    Concurrent = 2
    MaxEvents = 3
    Reorgs = {}
    Large = {1}
    MaxRetries = 0
    MaxFailures = 0
    None = None
INVARIANTS
    HeadersKeepOrder
CHECK_DEADLOCK FALSE
