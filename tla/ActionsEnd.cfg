SPECIFICATION FairSpec
CONSTANTS
    r1 = r1
    r2 = r2
    i1 = i1
    i2 = i2
    o1 = o1
    o2 = o2
    m1 = m1
    rtt = rtt
    rtt2 = rtt2
    upper = upper
    lower = lower
    jiggle = jiggle
    Requests = {r1, r2}
    Kinds = {"accept", "cancel"}
    Instances = {i1}
    Home <- OneInstance
    Origins = {o1}
    Magnitudes = {m1}
    Auxiliaries <- OneRemote
    Subsources <- OneSpelling
    Alias <- Aliases
    Folded <- FoldedSpellings
    Lossy = TRUE
PROPERTY EveryActionEnds
CHECK_DEADLOCK FALSE
