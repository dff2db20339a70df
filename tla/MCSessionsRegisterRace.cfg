SPECIFICATION Spec
CONSTANTS
    None = None
    Brokers = {b1}
    Conns = {c1, c2}
    Wills = {"none"}
    Lives = {"forever"}
    Crashable = {}
    Stoppable = {}
    QuotaKicks = FALSE
    MaxDrops = 0
    MaxErrs = 0
PROPERTIES RegisterSparesOwner
CHECK_DEADLOCK FALSE
