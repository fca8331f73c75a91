SPECIFICATION FairSpec
CHECK_DEADLOCK FALSE
CONSTANTS
    Validators = {v}
    Callers = {c}
    Starter = c
    MaxHeight = 5
    GossipHeads = {5}
    NetworkHeads = {3, 5}
    InitialHeads = {0}
    Retained = 3
    TrustDistance = 1
    RequestSize = 2
    MaxGossips = 1
    MaxCalls = 2
    MaxErrors = 1
INVARIANTS
    SyncerTypeOK
    NothingMissing
PROPERTIES
    SyncReachesTarget
    TargetReached
    CallsReturn
