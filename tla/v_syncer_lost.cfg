SPECIFICATION Spec
CHECK_DEADLOCK FALSE
CONSTANTS
    Validators = {v}
    Callers = {c}
    Starter = c
    MaxHeight = 5
    GossipHeads = {3, 4, 5}
    NetworkHeads = {3, 5}
    InitialHeads = {1}
    Retained = 3
    TrustDistance = 2
    RequestSize = 2
    MaxGossips = 2
    MaxCalls = 2
    MaxErrors = 0
PROPERTIES
    LocalHeadNeverRegresses
