CONSTANTS
    c1 = c1
    c2 = c2
    t1 = t1
    t2 = t2
    Conns = {c1, c2}
    Topics = {t1, t2}
    None = None
    Scenarios <- AllScenarios
    MaxValue = 2
    MaxRow = 2
SPECIFICATION Spec
INVARIANTS TypeOK ReplayOnce LatestRetainedReached
PROPERTIES GrantedSubscriptionKept QueueKept
CHECK_DEADLOCK FALSE
