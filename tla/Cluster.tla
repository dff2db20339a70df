------------------------------ MODULE Cluster ------------------------------
(***************************************************************************)
(* The pods of a deployment from their start on: Migrate, then the User    *)
(* operator (Operator).  main starts the operator's manager only when      *)
(* Migrate has returned, and a pod that is restarted starts over with      *)
(* Migrate.                                                                *)
(***************************************************************************)
EXTENDS Operator, Sequences

CONSTANTS
    Ghost, Files,      \* see Migrate
    MaxFaults,         \* bound: faults of a start, of a new cluster and of one that has been up
    Creation           \* the bounds of Operator for a new cluster
VARIABLES boot, lock, ran, version, faults

ASSUME ReleaseAssumption ==
    /\ None \notin Pods /\ Ghost \notin Pods \cup {None}
    /\ Files \in [Pods -> Nat]
    /\ MaxFaults \in [{"new", "old"} -> Nat]
    /\ Creation \in Budgets

INSTANCE Migrate

mvars == <<boot, lock, ran, version, faults>>
cvars == <<vars, mvars>>

ClusterInit ==
    /\ Init
    /\ \/ Empty /\ faults = MaxFaults.new /\ budget = Creation
       \/ Started /\ faults = MaxFaults.old

\* A rollout, a crash, or a panic of the operator, which fatalRecoverOperator turns into
\* an exit.
RestartPod(p, c) == Restart(p, c) /\ Crash(p)

ClusterNext ==
    \/ Edit /\ UNCHANGED mvars
    \/ \E p \in Pods :
         \/ BootStep(p) /\ UNCHANGED vars
         \/ boot[p].at = "serving" /\ Lead(p) /\ UNCHANGED mvars
         \/ (LoseLease(p) \/ ManagerExits(p) \/ SyncUser(p) \/ SyncSecret(p)) /\ UNCHANGED mvars
         \/ ReconcileStep(p) /\ UNCHANGED mvars
         \/ \E c \in Costs : RestartPod(p, c)
    \/ GhostGone /\ UNCHANGED vars

\* Every loop of the program goes on while its process lives: the informers deliver, the
\* queue is worked off, a Lease that is free is taken, and the kubelet starts a pod again.
Fairness ==
    /\ \A p \in Pods :
        /\ WF_cvars((Open(p) \/ Check(p) \/ Serve(p) \/ ApplyConflicts(p) \/ Apply(p, TRUE)) /\ UNCHANGED vars)
        /\ WF_cvars(Fail(p) /\ ~boot[p].session /\ UNCHANGED vars)
        /\ SF_cvars(Enter(p) /\ UNCHANGED vars)
        /\ WF_cvars(boot[p].at = "serving" /\ Lead(p) /\ UNCHANGED mvars)
        /\ WF_cvars(ManagerExits(p) /\ UNCHANGED mvars)
        /\ WF_cvars(SyncUser(p) /\ UNCHANGED mvars)
        /\ WF_cvars(SyncSecret(p) /\ UNCHANGED mvars)
        /\ WF_cvars(ReconcileStep(p) /\ UNCHANGED mvars)
    /\ WF_cvars(GhostGone /\ UNCHANGED vars)

ClusterSpec == ClusterInit /\ [][ClusterNext]_cvars
ClusterFairSpec == ClusterSpec /\ Fairness
=============================================================================
