SPECIFICATION FairSpec
CONSTANTS
    None = None
    Brokers = {b1, b2}
    Conns = {c1, c2}
    Wills = {"none"}
    Lives = {"forever"}
    Crashable = {b1}
    Stoppable = {}
    QuotaKicks = FALSE
    MaxDrops = 1
    MaxErrs = 0
PROPERTIES StaleSocketClosed OwnerReattached DeadBrokerReaped
CHECK_DEADLOCK FALSE
