SPECIFICATION FairSpec
CONSTANTS
    None = None
    Brokers = {b1, b2}
    Conns = {c1, c2}
    Wills = {"now", "delayed"}
    Lives = {"expiring"}
    Crashable = {b1}
    Stoppable = {}
    QuotaKicks = TRUE
    MaxDrops = 0
    MaxErrs = 0
PROPERTIES ScheduledWillSettles ScheduledExpirySettles LiveWillKept
CHECK_DEADLOCK FALSE
