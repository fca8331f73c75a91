SPECIFICATION FairSpec
CHECK_DEADLOCK FALSE
CONSTANTS
    Appenders = {m1, m2, a}
    Readers = {r}
    Movers = {m1, m2}
    MaxHeight = 6
    Batches <- MCBatches
    InitialStores <- MCStores
    MaxAppends = 1
    MaxHeads = 1
    MaxErrors = 1
    Scenarios <- MCScenarios
    BlockTime = 2
    Window = 4
    Retained = 3
    RequestSize = 2
    Width = 16
    MaxMoves = 1
INVARIANTS
    SyncTailTypeOK
    NothingSkipped
    WindowMaintained
    TailSettles
PROPERTIES
    HeadNeverRegresses
    TailReturns
