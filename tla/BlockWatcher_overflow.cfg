SPECIFICATION Spec
CONSTANTS
    MaxReorg = 2
    MaxTries = 1
    MaxBlocks = 6
    MaxHeads = 1
    MaxFailures = 1
    None = None
INVARIANTS
    OverflowOnlyBeyondMaxReorg
