SPECIFICATION FairSpec
CONSTANTS
    MaxHeight = 4
    Batches <- MCBatches
    QueueCap = 2
    WriteBatchSize = 2
    Budget <- MCBudget
INVARIANTS
    TypeOK
    ContiguousRange
    DurableRange
    NothingDropped
    HeadIsHighest
    StopIsDurable
    SyncBarrier
    HeightIsHead
    FlushHasPointers
    NoStrayStop
PROPERTIES
    ImplementsChain
    StoreCallsReturn
