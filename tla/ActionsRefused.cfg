SPECIFICATION Spec
CONSTANTS
    r1 = r1
    r2 = r2
    i1 = i1
    i2 = i2
    o1 = o1
    o2 = o2
    m1 = m1
    rtt = rtt
    rtt2 = rtt2
    upper = upper
    lower = lower
    jiggle = jiggle
    Requests = {r1, r2}
    Kinds = {"cancel"}
    Instances = {i1, i2}
    Home <- TwoInstances
    Origins = {o1, o2}
    Magnitudes = {m1}
    Auxiliaries <- TwoRemotes
    Subsources <- Spellings
    Alias <- Aliases
    Folded <- FoldedSpellings
    Lossy = TRUE
INVARIANT TellsWhatHappened
CHECK_DEADLOCK FALSE
