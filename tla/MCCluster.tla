----------------------------- MODULE MCCluster -----------------------------
(* Cluster instantiated for TLC: two pods, the second of a newer release.  *)
EXTENDS Cluster, TLC

CONSTANTS p1, p2

TwoReleases == p1 :> 1 @@ p2 :> 2

Times(f) == [k \in Kinds |-> IF k \in DOMAIN f THEN f[k] ELSE 0]

\* A new cluster finds the User there; a pod is killed while it migrates, or later.
OneCrash == Times([restart |-> 1])

\* Later the Lease changes hands while the User is created, a pod is rolled out with a higher
\* cost, the User is edited or deleted while calls fail.
HandoverOrEdits == {OneCrash,
                    Times([lose |-> 1, fail |-> 1]),
                    Times([restart |-> 1, fail |-> 1]),
                    Times([rotate |-> 2, fail |-> 2]),
                    Times([rotate |-> 1, reuse |-> 1]),
                    Times([delete |-> 1, fail |-> 2]),
                    Times([wait |-> 1, rename |-> 2, fail |-> 1]),
                    Times([wait |-> 1, rename |-> 1, delete |-> 1, fail |-> 1])}

StartFaults == [new |-> 2, old |-> 1]

\* Without faults: the username is changed before the User says Ready.
OneRename   == Times([rename |-> 1])
EarlyRename == {OneRename}
NoFaults == [new |-> 0, old |-> 0]
=============================================================================
