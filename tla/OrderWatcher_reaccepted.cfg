SPECIFICATION HistorySpec
CONSTANTS
    o1 = o1
    o2 = o2
    s1 = s1
    s2 = s2
    c1 = c1
    c2 = c2
    Orders = {o1}
    WellFormed = {o1}
    ContractSigned = {o1}
    LocallySigned = {o1}
    Requests = {c1}
    Slots = {s1}
    MaxReorg = 1
    ChainStates <- TwoStates
    Chains <- AllChains
    FirstBlock = 1
    MaxBlock = 4
    MaxPending = 2
    MaxUncommitted = 2
    MaxCrashes = 0
    Null = Null
PROPERTIES
    AcceptedRowsAreKept
