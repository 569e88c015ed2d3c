SPECIFICATION FairSpec
CONSTANTS
    MaxReorg = 3
    MaxTries = 0
    MaxBlocks = 7
    MaxHeads = 1
    MaxFailures = 1
    None = None
INVARIANTS
    TypeOK
    SanityChecksHold
    ReaderIsInStep
PROPERTIES
    RewindsExactly
    FollowsTheChain
    CatchesUp
