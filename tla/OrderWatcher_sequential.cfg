SPECIFICATION FairSpec
CONSTANTS
    o1 = o1
    o2 = o2
    s1 = s1
    s2 = s2
    c1 = c1
    c2 = c2
    Orders = {o1}
    WellFormed = {o1}
    ContractSigned = {o1}
    LocallySigned = {o1}
    Requests = {}
    Slots = {s1}
    MaxReorg = 1
    ChainStates <- AllStates
    Chains <- AllChains
    FirstBlock = 1
    MaxBlock = 4
    MaxPending = 3
    MaxUncommitted = 2
    MaxCrashes = 0
    Null = Null
INVARIANTS
    StreamMatchesTable
PROPERTIES
    NoUnfillableAfterUnfillable
    StreamConverges
