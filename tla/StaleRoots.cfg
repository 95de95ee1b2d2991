SPECIFICATION WaveformsSpec
CONSTANTS
    t1 = t1
    t2 = t2
    none = none
    Threads = {t1}
    MaxYear = 2
    MaxMisled = 2
    Arrivals <- OneStreamEach
    NoStream = none
    Archive <- MCArchive
INVARIANT StaleRootForOneRequest
