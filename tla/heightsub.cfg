SPECIFICATION FairSpec
CONSTANTS
    Readers = {r1, r2}
    MaxHeight = 4
    Batches <- ChainBatches
    Starts <- MCStarts
    InOrder = TRUE
    MaxPublished = 3
    MaxCalls = 2
INVARIANTS
    TypeOK
    ReleasedMeansPresent
PROPERTIES
    WaiterReturns
CHECK_DEADLOCK FALSE
