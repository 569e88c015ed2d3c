SPECIFICATION FairSpec
CONSTANTS
    o1 = o1
    o2 = o2
    s1 = s1
    s2 = s2
    c1 = c1
    c2 = c2
    Orders = {o1}
    WellFormed = {o1}
    ContractSigned = {o1}
    LocallySigned = {o1}
    Requests = {c1}
    Slots = {s1}
    MaxReorg = 1
    ChainStates <- TwoStates
    Chains <- AllChains
    FirstBlock = 1
    MaxBlock = 2
    MaxPending = 1
    MaxUncommitted = 1
    MaxCrashes = 0
    Null = Null
PROPERTIES
    StreamConverges
