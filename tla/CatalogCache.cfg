SPECIFICATION Spec
CONSTANTS
    i1 = i1
    t1 = t1
    t2 = t2
    Instances = {i1}
    Requests = {t1, t2}
    Home <- OneInstance
    Changes = {"revise", "late", "select", "deselect", "review"}
    BucketTicks = 2
    MaximumAge = 1
    MaxClock = 2
    MaxVersion = 2
INVARIANTS
    TypeOK
    AnswerWithinBucket
    StoredNotOlderThanToken
    OnlyInFlightBuildersLag
    RevisionsAnswered
PROPERTY ImplementsBoundedStaleness
CHECK_DEADLOCK FALSE
