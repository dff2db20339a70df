CONSTANTS
    p1 = p1
    p2 = p2
    Pods = {p1, p2}
    Names = {"alice", "bob"}
    FirstNames = {"alice"}
    None = None
    Ghost = Ghost
    Costs = {1, 2}
    Files <- TwoReleases
    Budgets <- EarlyRename
    Creation <- OneRename
    MaxFaults <- NoFaults
SPECIFICATION ClusterFairSpec
PROPERTY NoStaleRow
CHECK_DEADLOCK FALSE
