SPECIFICATION FairSpec
CONSTANTS
    None = None
    L = L
    Ids = {1, 2}
    Conns = {c1}
    Qoss <- FlowQoss
    Cap = 1
    PidMax = 6
    MaxRetries = 2
    Oversized = {}
    Expiring = {}
    Rejects = TRUE
    Aliases = FALSE
    MaxDrops = 1
    MaxErrs = 1
INVARIANTS SlotsMatchRows
PROPERTIES AckedWasReceived DeliveryCompletes
CHECK_DEADLOCK FALSE
