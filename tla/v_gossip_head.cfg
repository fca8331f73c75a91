SPECIFICATION Spec
CHECK_DEADLOCK FALSE
CONSTANTS
    Validations = {v1, v2}
    MaxHeight = 3
    TrustDistance = 1
    MaxMessages = 3
    MaxStarts = 2
INVARIANTS
    HonestHeadNotPunished
