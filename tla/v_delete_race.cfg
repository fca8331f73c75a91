SPECIFICATION DeleteSpec
CHECK_DEADLOCK FALSE
CONSTANTS
    MaxHeight = 5
    Batches <- MCBatches
    Ranges <- MCRanges
    QueueCap = 2
    WriteBatchSize = 3
    Budget <- Calm
    Workers = {w1, w2}
    Modes <- RaceModes
INVARIANTS
    NoGapAfterDelete
