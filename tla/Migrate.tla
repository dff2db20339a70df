------------------------------ MODULE Migrate ------------------------------
(***************************************************************************)
(* What a pod does before it serves: db.Migrate takes a session-scoped     *)
(* advisory lock and applies the migrations that schema_migrations does    *)
(* not list, each in a transaction of its own.  Any error ends the process *)
(* and Kubernetes starts it again.  Pods of an older release carry fewer   *)
(* migrations.  The lock belongs to a Postgres session, which may go       *)
(* before its process (the server drops it) or outlive it (the process is  *)
(* killed and the server has not noticed).                                 *)
(***************************************************************************)
EXTENDS Naturals, Sequences

CONSTANTS
    Pods,
    None,        \* no holder of the lock
    Ghost,       \* a session whose process is gone
    Files        \* pod -> how many migrations its release carries

VARIABLES
    boot,      \* pod -> where its start stands and the migration it looks at
    lock,      \* the session that has the advisory lock
    ran,       \* the migration bodies that were committed, in order
    version,   \* schema_migrations
    faults     \* bound: lost sessions, crashes and timeouts that may yet happen

migrateVars == <<boot, lock, ran, version, faults>>

Boot == [at : {"down", "lock", "check", "apply", "unlock", "serving"}, next : Nat, session : BOOLEAN]
Down == [at |-> "down", next |-> 1, session |-> FALSE]

\* A new cluster, or one whose pods have started before.
Empty ==
    /\ boot = [p \in Pods |-> Down]
    /\ lock = None
    /\ ran = << >>
    /\ version = {}

Started ==
    /\ boot = [p \in Pods |-> [at |-> "serving", next |-> Files[p] + 1, session |-> FALSE]]
    /\ lock = None
    /\ \E n \in {Files[p] : p \in Pods} : /\ \A p \in Pods : Files[p] <= n
                                          /\ ran = [i \in 1..n |-> i]
                                          /\ version = 1..n

Fault == faults > 0 /\ faults' = faults - 1

\* db.Open and pool.Acquire.
Open(p) ==
    /\ boot[p].at = "down"
    /\ boot' = [boot EXCEPT ![p] = [at |-> "lock", next |-> 1, session |-> TRUE]]
    /\ UNCHANGED <<lock, ran, version, faults>>

\* Mutant: nobody waits for the lock.
EnterUnlocked(p) ==
    /\ boot[p].at = "lock" /\ boot[p].session
    /\ boot' = [boot EXCEPT ![p].at = "check"]
    /\ UNCHANGED <<lock, ran, version, faults>>

\* pg_advisory_lock returns; CREATE TABLE IF NOT EXISTS.
Enter(p) ==
    /\ boot[p].at = "lock" /\ boot[p].session
    /\ lock = None
    /\ lock' = p
    /\ boot' = [boot EXCEPT ![p].at = "check"]
    /\ UNCHANGED <<ran, version, faults>>

\* SELECT EXISTS for the next file, or the end of the list.
Check(p) ==
    /\ boot[p].at = "check" /\ boot[p].session
    /\ boot' = [boot EXCEPT ![p] =
                  IF @.next > Files[p]         THEN [@ EXCEPT !.at = "unlock"]
                  ELSE IF @.next \in version   THEN [@ EXCEPT !.next = boot[p].next + 1]
                  ELSE [@ EXCEPT !.at = "apply"]]
    /\ UNCHANGED <<lock, ran, version, faults>>

\* Mutant: the version is not recorded in the transaction of its body.
ApplyUnrecorded(p, ok) ==
    /\ boot[p].at = "apply" /\ boot[p].session
    /\ ran' = Append(ran, boot[p].next)
    /\ version' = IF ok THEN version \cup {boot[p].next} ELSE version
    /\ boot' = [boot EXCEPT ![p] = IF ok THEN [at |-> "check", next |-> @.next + 1, session |-> TRUE] ELSE Down]
    /\ IF ok THEN UNCHANGED <<lock, faults>> ELSE lock' = None /\ Fault

\* applyMigrationOnConn commits; ok = FALSE: the answer to COMMIT is lost with the session.
Apply(p, ok) ==
    /\ boot[p].at = "apply" /\ boot[p].session
    /\ boot[p].next \notin version
    /\ ran' = Append(ran, boot[p].next)
    /\ version' = version \cup {boot[p].next}
    /\ boot' = [boot EXCEPT ![p] = IF ok THEN [at |-> "check", next |-> @.next + 1, session |-> TRUE] ELSE Down]
    /\ IF ok THEN UNCHANGED <<lock, faults>> ELSE lock' = None /\ Fault

\* The INSERT (or a CREATE in the body) meets what another session has committed.
ApplyConflicts(p) ==
    /\ boot[p].at = "apply" /\ boot[p].session
    /\ boot[p].next \in version
    /\ boot' = [boot EXCEPT ![p] = Down]
    /\ lock' = IF lock = p THEN None ELSE lock
    /\ UNCHANGED <<ran, version, faults>>

\* Mutant: the connection goes back to the pool with the lock.
ServeLocked(p) ==
    /\ boot[p].at = "unlock"
    /\ boot' = [boot EXCEPT ![p].at = "serving", ![p].session = FALSE]
    /\ UNCHANGED <<lock, ran, version, faults>>

\* The deferred unlock and Release; main goes on to serve.
Serve(p) ==
    /\ boot[p].at = "unlock"
    /\ boot' = [boot EXCEPT ![p].at = "serving", ![p].session = FALSE]
    /\ lock' = IF lock = p THEN None ELSE lock
    /\ UNCHANGED <<ran, version, faults>>

\* The server drops the session, and with it the lock and an open transaction.
LoseSession(p) ==
    /\ boot[p].session
    /\ Fault
    /\ boot' = [boot EXCEPT ![p].session = FALSE]
    /\ lock' = IF lock = p THEN None ELSE lock
    /\ UNCHANGED <<ran, version>>

\* Mutant: main logs the error of Migrate and goes on.
FailServes(p) ==
    /\ boot[p].at \in {"lock", "check", "apply"}
    /\ IF boot[p].session THEN Fault ELSE UNCHANGED faults
    /\ boot' = [boot EXCEPT ![p].at = "serving", ![p].session = FALSE]
    /\ lock' = IF lock = p THEN None ELSE lock
    /\ UNCHANGED <<ran, version>>

\* The next statement fails and main exits; so it does when waiting for the lock takes
\* longer than statement_timeout.
Fail(p) ==
    /\ boot[p].at \in {"lock", "check", "apply"}
    /\ IF boot[p].session THEN Fault ELSE UNCHANGED faults
    /\ boot' = [boot EXCEPT ![p] = Down]
    /\ lock' = IF lock = p THEN None ELSE lock
    /\ UNCHANGED <<ran, version>>

\* The process is killed; its session may stay for a while.
Crash(p) ==
    /\ boot[p].at # "down"
    /\ Fault
    /\ boot' = [boot EXCEPT ![p] = Down]
    /\ lock' \in (IF lock = p THEN {None, Ghost} ELSE {lock})
    /\ UNCHANGED <<ran, version>>

\* Keepalives of the server find the socket dead.
GhostGone == lock = Ghost /\ lock' = None /\ UNCHANGED <<boot, ran, version, faults>>

BootStep(p) ==
    \/ Open(p) \/ Enter(p) \/ Check(p) \/ ApplyConflicts(p) \/ Serve(p) \/ LoseSession(p) \/ Fail(p)
    \/ \E ok \in BOOLEAN : Apply(p, ok)

-----------------------------------------------------------------------------
\* The migrations were committed in lexical order, each once, and schema_migrations lists
\* exactly them, whatever crashes, lost COMMIT answers and pods of two releases came together.
SchemaExact ==
    /\ \A i \in 1..Len(ran) : ran[i] = i
    /\ version = 1..Len(ran)

\* Two pods never work on the schema together: at most one live session is past the lock, so
\* no pod fails on what another one has just created.
MigrateAlone ==
    \A p \in Pods : boot[p].session /\ boot[p].at \in {"check", "apply"} => lock = p

\* A pod that serves finds every migration of its release applied, even if its session was
\* dropped between the last check and the unlock.
ServesMigrated ==
    \A p \in Pods : boot[p].at = "serving" => 1..Files[p] \subseteq version

\* Once the faults are over every pod gets to serve: the lock is given back by whoever
\* returns, fails or dies.
EveryPodServes == <>[](\A p \in Pods : boot[p].at = "serving")
=============================================================================
