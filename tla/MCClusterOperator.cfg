CONSTANTS
    p1 = p1
    p2 = p2
    Pods = {p1, p2}
    Names = {"alice", "bob"}
    FirstNames = {"alice"}
    None = None
    Ghost = Ghost
    Costs = {1, 2}
    Files <- TwoReleases
    Budgets <- HandoverOrEdits
    Creation <- OneCrash
    MaxFaults <- StartFaults
SPECIFICATION ClusterFairSpec
INVARIANTS TypeOK SchemaExact MigrateAlone ServesMigrated ReadyIsTrue
PROPERTIES PasswordStable CredentialsConverge NoStaleRow EveryPodServes
CHECK_DEADLOCK FALSE
