SPECIFICATION Spec
CONSTANTS
    o1 = o1
    o2 = o2
    s1 = s1
    s2 = s2
    c1 = c1
    c2 = c2
    Orders = {o1, o2}
    WellFormed = {o1}
    ContractSigned = {o1, o2}
    LocallySigned = {o1, o2}
    Requests = {c1, c2}
    Slots = {s1, s2}
    MaxReorg = 1
    ChainStates <- TwoStates
    Chains <- BadOrderFillable
    FirstBlock = 0
    MaxBlock = 2
    MaxPending = 2
    MaxUncommitted = 2
    MaxCrashes = 1
    Null = Null
SYMMETRY SlotRequestSymmetry
INVARIANTS
    TypeOK
    RowsPassSanityCheck
    InvalidRowsWereTold
    SilentRowsAreUnacknowledged
PROPERTIES
    DroppedAfterReorgWindow
    IsOrderBook
