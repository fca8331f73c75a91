SPECIFICATION Spec
CHECK_DEADLOCK FALSE
CONSTANTS
    Readers = {r}
    MaxHeight = 4
    InitialHead = 3
INVARIANTS
    TailIsStored
