SPECIFICATION FairSpec
CONSTANTS
    c1 = c1
    c2 = c2
    c3 = c3
    Calls = {c1, c2, c3}
INVARIANTS
    TypeOK
    RetryOnFreshSession
    OnDemandLetsGo
PROPERTIES
    ImplementsAtMostOnce
    EveryCallEnds
CHECK_DEADLOCK FALSE
