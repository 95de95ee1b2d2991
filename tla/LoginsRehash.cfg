SPECIFICATION Spec
CONSTANTS
    r1 = r1
    r2 = r2
    p = p
    q = q
    t1 = t1
    t2 = t2
    Requests = {r1, r2}
    CostAt <- OneCost
    Chosen = {p, q}
    Issued = {t1, t2}
    Acceptable = {p, q, t1}
    MustDiffer = TRUE
    OldCosts = {1}
    IssuedCosts = {1, 2}
    Levels = {1, 2}
    Lifetime = 1
    Validity = 1
    MaxClock = 3
    MaxAdministrations = 2
SYMMETRY Symmetry
INVARIANT IssuedPasswordsAreReplaced
CHECK_DEADLOCK FALSE
