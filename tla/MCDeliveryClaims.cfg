SPECIFICATION Spec
CONSTANTS
    None = None
    L = L
    Ids = {1, 2}
    Conns = {c1, c2}
    Qoss <- ClaimsQoss
    Cap = 1
    PidMax = 2
    MaxRetries = 1
    Oversized = {2}
    Expiring = {1}
    Rejects = FALSE
    Aliases = FALSE
    MaxDrops = 0
    MaxErrs = 1
SYMMETRY ConnSymmetry
INVARIANTS TypeOK FreshAtMostOnce SlotsMatchRows
CHECK_DEADLOCK FALSE
