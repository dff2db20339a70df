SPECIFICATION Spec
CONSTANTS
    None = None
    Brokers = {b1, b2}
    Conns = {c1, c2, c3}
    Wills = {"none"}
    Lives = {"clean", "forever"}
    Crashable = {b1}
    Stoppable = {b2}
    QuotaKicks = FALSE
    MaxDrops = 0
    MaxErrs = 0
SYMMETRY ConnSymmetry
INVARIANTS OpenConnsRegistered OwnerAttached
PROPERTIES TakeoverSparesOwner
CHECK_DEADLOCK FALSE
