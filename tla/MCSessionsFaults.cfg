SPECIFICATION Spec
CONSTANTS
    None = None
    Brokers = {b1, b2}
    Conns = {c1, c2}
    Wills = {"now", "delayed"}
    Lives = {"expiring"}
    Crashable = {}
    Stoppable = {}
    QuotaKicks = FALSE
    MaxDrops = 1
    MaxErrs = 1
SYMMETRY ConnSymmetry
INVARIANTS TypeOK RowConsistent WillAtMostOnce
PROPERTIES ImplementsOwner
CHECK_DEADLOCK FALSE
