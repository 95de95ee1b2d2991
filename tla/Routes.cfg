SPECIFICATION Spec
CONSTANTS
    t1 = t1
    t2 = t2
    none = none
    Threads = {t1, t2}
    MaxYear = 2
    MaxMisled = 0
    Arrivals <- MCArrivals
    NoStream = none
    Archive <- MCArchive
    Unset = Unset
    NoFile = NoFile
    WithGRPC = FALSE
    Lists = {"stations"}
    Options <- MCOptions
    MaxStarts = 2
    MaxRequests = 2
    AlarmRows <- MCAlarmRows
    LockTables <- MCLockTables
    Moments = {1000, 1002}
    MaxSkew = 2
    Refresh = 23
INVARIANTS
    StaleOnlyIfOpenEnded
    NoRootMeansNone
    EveryPacketInPlace
    EverySampleRebuilt
    DenialsExported
    EachAlarmOnce
    LockedEventsShown
SYMMETRY Symmetry
PROPERTIES
    HeldNeverRegress
CHECK_DEADLOCK FALSE
