SPECIFICATION FairSpec
CHECK_DEADLOCK FALSE
CONSTANTS
    s1 = s1
    s2 = s2
    s3 = s3
    s4 = s4
    Servers <- MCServers
    Fork <- MCFork
    Stores <- MCStores
    MaxHeight = 4
    RangeLimit = 3
    Width = 8
    MaxChanges = 1
    Trusted <- MCTrusted
    Tracked <- MCTracked
    Calls <- MCCalls
    Foreign <- MCForeign
    TrustDistance = 1
    MaxUntrusted = 3
INVARIANTS
    ExchangeTypeOK
    HeadAgreed
    HeadVerified
    GetSucceeds
    HonestAnswers
PROPERTIES
    CallsEnd
