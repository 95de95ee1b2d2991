SPECIFICATION Spec
CONSTANTS
    s1 = s1
    s2 = s2
    s3 = s3
    Users = {1, 2, 3}
    Sessions = {s1, s2}
    Operations <- AllOperations
SYMMETRY Symmetry
INVARIANTS
    TypeOK
    CountersGetThrough
PROPERTIES
    CountedRemovalsLeaveOne
    SweepsOnlyExpired
