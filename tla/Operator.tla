------------------------------ MODULE Operator ------------------------------
(***************************************************************************)
(* The User operator of pgmqtt: every pod runs a controller-runtime        *)
(* manager, the one that holds the Lease reconciles the User resource into *)
(* the table users and, unless the User names a Secret of its own (byo),   *)
(* into a generated credentials Secret.  A manager that has lost the Lease *)
(* may go on for a while.  Reads of resources come from the manager's      *)
(* informer cache, which lags; a change that reaches the cache of a        *)
(* running controller puts the User into its work queue, and a reconcile   *)
(* that returns an error puts it back.                                     *)
(*                                                                         *)
(* One User is modelled.  A password, its SHA-256 and what bcrypt makes of *)
(* it are identified; a row of users is a password and its cost.  The API  *)
(* server, the Lease and the work queue are external.                      *)
(***************************************************************************)
EXTENDS Naturals, FiniteSets

CONSTANTS
    Pods,
    Names,       \* usernames
    FirstNames,  \* those a User may be created with
    None,
    Costs,       \* bcrypt costs a pod may be configured with
    Budgets      \* bounds: how often each edit and fault may happen; and whether those who
                 \* edit wait until the User says Ready (wait = 1)

Kinds == {"wait", "rename", "rotate", "reuse", "delete", "fail", "lose", "restart"}

ASSUME OperatorAssumption ==
    /\ None \notin Names /\ FirstNames \subseteq Names /\ IsFiniteSet(Pods)
    /\ None \notin [pw : Nat, cost : Costs]
    /\ Costs \subseteq Nat \ {0} /\ Costs # {}
    /\ Budgets \subseteq [Kinds -> Nat]

VARIABLES
    byo,       \* spec.passwordSecretRef is set
    user,      \* the User resource
    secret,    \* the credentials Secret
    fresh,     \* the next password nobody has used
    rows,      \* the table users
    mgr,       \* the managers
    lease,     \* holder of the Lease
    cost,      \* BcryptCost of a pod
    cache,     \* the informer caches
    queued,    \* pods with the User in the work queue
    rec,       \* the reconcile at hand
    budget

clusterVars == <<byo, user, secret, fresh>>
podVars     == <<mgr, lease, cost>>
workVars    == <<queued, rec>>
vars == <<clusterVars, rows, podVars, cache, workVars, budget>>

\* spec.username, metadata and status; ready.gen is the condition's observedGeneration, news
\* the controllers whose informer has yet to deliver the last change.
User == [exists : BOOLEAN, news : SUBSET Pods, gen : Nat, name : Names, fin : BOOLEAN, deleting : BOOLEAN,
         obsName : Names \cup {None}, obsHash : Nat, ready : [ok : BOOLEAN, gen : Nat]]

\* pw = 0: there is no Secret.
Secret == [name : Names \cup {None}, pw : Nat]
NoSecret == [name |-> None, pw |-> 0]

Row == [pw : Nat \ {0}, cost : Costs] \cup {None}

\* The reconcile: where it stands, the User it has read and the password it has resolved.
Rec == [at : {"none", "finalizer", "rename", "secret", "reget", "decide", "upsert", "status",
              "ready", "delete", "unfinalizer"}, user : User \cup {None}, pw : Nat]
NoCache == [user |-> None, secret |-> NoSecret]
NoRec == [at |-> "none", user |-> None, pw |-> 0]

TypeOK ==
    /\ byo \in BOOLEAN /\ user \in User /\ secret \in Secret /\ fresh \in Nat \ {0}
    /\ rows \in [Names -> Row]
    /\ mgr \in [Pods -> {"follower", "leader", "lost", "over"}]
    /\ lease \in Pods \cup {None}
    /\ cost \in [Pods -> Costs]
    /\ cache \in [Pods -> [user : User \cup {None}, secret : Secret]]
    /\ queued \subseteq Pods
    /\ rec \in [Pods -> Rec]
    /\ budget \in [Kinds -> Nat]

\* A User has just been created; status is empty.
Init ==
    /\ byo \in BOOLEAN
    /\ \E n \in FirstNames : user = [exists |-> TRUE, news |-> {}, gen |-> 1, name |-> n, fin |-> FALSE,
                                deleting |-> FALSE, obsName |-> None, obsHash |-> 0,
                                ready |-> [ok |-> FALSE, gen |-> 0]]
    /\ secret = IF byo THEN [name |-> None, pw |-> 1] ELSE NoSecret
    /\ fresh = IF byo THEN 2 ELSE 1
    /\ rows = [n \in Names |-> None]
    /\ mgr = [p \in Pods |-> "follower"]
    /\ lease = None
    /\ cost \in {[p \in Pods |-> c] : c \in Costs}
    /\ cache = [p \in Pods |-> NoCache]
    /\ queued = {}
    /\ rec = [p \in Pods |-> NoRec]
    /\ budget \in Budgets

Runs(p) == mgr[p] \in {"leader", "lost"}

\* What really changes is an event for every controller.
Put(u) == user' = IF u = user THEN user ELSE [u EXCEPT !.news = {p \in Pods : Runs(p)}]

\* The informer of p delivers it.
Seen(p) == user' = [user EXCEPT !.news = @ \ {p}]
Latest  == [user EXCEPT !.news = {}]

Spend(k) == budget[k] > 0 /\ budget' = [budget EXCEPT ![k] = @ - 1]

-----------------------------------------------------------------------------
(* The people who edit the resources.                                      *)

SaysReady == user.ready = [ok |-> TRUE, gen |-> user.gen]
EditIs(k) == Spend(k) /\ (budget.wait = 1 => SaysReady)

Rename(n) ==
    /\ user.exists /\ ~user.deleting /\ n # user.name
    /\ EditIs("rename")
    /\ Put([user EXCEPT !.name = n, !.gen = @ + 1])
    /\ UNCHANGED <<byo, secret, fresh, rows, podVars, cache, workVars>>

\* A BYO Secret gets a new password; a generated one can only be deleted.
Rotate ==
    /\ secret.pw # 0
    /\ EditIs("rotate")
    /\ IF byo THEN secret' = [secret EXCEPT !.pw = fresh] /\ fresh' = fresh + 1
              ELSE secret' = NoSecret /\ UNCHANGED fresh
    /\ UNCHANGED <<byo, user, rows, podVars, cache, workVars>>

\* A BYO Secret gets an earlier password again.
Reuse(pw) ==
    /\ byo /\ secret.pw # 0 /\ pw \in 1..(fresh - 1) \ {secret.pw}
    /\ EditIs("reuse")
    /\ secret' = [secret EXCEPT !.pw = pw]
    /\ UNCHANGED <<byo, user, fresh, rows, podVars, cache, workVars>>

\* Without a finalizer the resource is gone at once.
Delete ==
    /\ user.exists /\ ~user.deleting
    /\ EditIs("delete")
    /\ Put(IF user.fin THEN [user EXCEPT !.deleting = TRUE] ELSE [user EXCEPT !.exists = FALSE])
    /\ UNCHANGED <<byo, secret, fresh, rows, podVars, cache, workVars>>

-----------------------------------------------------------------------------
(* The managers: operator.Run, the Lease and the informers.                *)

\* The controller starts; its informers, which a follower runs too, have caught up, and it
\* finds the User in the list it begins with.
Lead(p) ==
    /\ mgr[p] = "follower" /\ lease = None
    /\ mgr' = [mgr EXCEPT ![p] = "leader"]
    /\ lease' = p
    /\ cache' = [cache EXCEPT ![p] = [user |-> Latest, secret |-> secret]]
    /\ queued' = queued \cup {p}
    /\ UNCHANGED <<clusterVars, rows, cost, rec, budget>>

\* The Lease runs out unrenewed; the manager has not noticed yet.
LoseLease(p) ==
    /\ lease = p
    /\ Spend("lose")
    /\ lease' = None
    /\ mgr' = [mgr EXCEPT ![p] = "lost"]
    /\ UNCHANGED <<clusterVars, rows, cost, cache, workVars>>

\* mgr.Start returns "leader election lost", Run returns, and main does not call it again.
ManagerExits(p) ==
    /\ mgr[p] = "lost"
    /\ mgr' = [mgr EXCEPT ![p] = "over"]
    /\ queued' = queued \ {p}
    /\ rec' = [rec EXCEPT ![p] = NoRec]
    /\ Seen(p)
    /\ cache' = [cache EXCEPT ![p] = NoCache]
    /\ UNCHANGED <<byo, secret, fresh, rows, lease, cost, budget>>

\* The pod crashes or is rolled out, maybe with a higher operator.bcryptCost.
Restart(p, c) ==
    /\ c >= cost[p]
    /\ Spend("restart")
    /\ mgr' = [mgr EXCEPT ![p] = "follower"]
    /\ lease' = IF lease = p THEN None ELSE lease
    /\ cost' = [cost EXCEPT ![p] = c]
    /\ Seen(p)
    /\ cache' = [cache EXCEPT ![p] = NoCache]
    /\ queued' = queued \ {p}
    /\ rec' = [rec EXCEPT ![p] = NoRec]
    /\ UNCHANGED <<byo, secret, fresh, rows>>

\* For(&User{}): a change of the User is an event.
SyncUser(p) ==
    /\ p \in user.news
    /\ cache' = [cache EXCEPT ![p].user = Latest]
    /\ Seen(p)
    /\ queued' = queued \cup {p}
    /\ UNCHANGED <<byo, secret, fresh, rows, podVars, rec, budget>>

\* Mutant: no Watches() clause for Secrets without an owner reference.
SyncSecretOwned(p) ==
    /\ Runs(p) /\ cache[p].secret # secret
    /\ cache' = [cache EXCEPT ![p].secret = secret]
    /\ queued' = IF ~byo THEN queued \cup {p} ELSE queued
    /\ UNCHANGED <<clusterVars, rows, podVars, rec, budget>>

\* Owns(&Secret{}) and Watches(usersForSecret): so is one of its Secret.
SyncSecret(p) ==
    /\ Runs(p) /\ cache[p].secret # secret
    /\ cache' = [cache EXCEPT ![p].secret = secret]
    /\ queued' = queued \cup {p}
    /\ UNCHANGED <<clusterVars, rows, podVars, rec, budget>>

-----------------------------------------------------------------------------
(* Reconcile.  The call at hand works, fails before it takes effect        *)
(* (CallFails), or takes effect and its answer is lost (ok = FALSE).       *)

Retry(p)      == rec' = [rec EXCEPT ![p] = NoRec] /\ queued' = queued \cup {p}
Return(p)     == rec' = [rec EXCEPT ![p] = NoRec] /\ UNCHANGED queued
GoTo(p, at)   == rec' = [rec EXCEPT ![p].at = at] /\ UNCHANGED queued
Answer(ok)    == IF ok THEN UNCHANGED budget ELSE Spend("fail")

Snapshot(p) == rec[p].user

\* Mutant: the condition carries the generation the API server has now.
ReadyPatchLatest(s, ok) == [ok |-> ok, gen |-> user.gen]

\* setReady on the snapshot, then a merge patch, which carries only what differs from it.
ReadyPatch(s, ok) ==
    LET cond == [ok |-> ok, gen |-> s.gen]
    IN IF cond = s.ready THEN user.ready ELSE cond

\* The status patch of an error path; whether it works is only logged.
ReportError(s) ==
    \/ UNCHANGED user
    \/ user.exists /\ Put([user EXCEPT !.ready = ReadyPatch(s, FALSE)])

Renamed(s) == s.obsName # None /\ s.obsName # s.name

\* Get(user): the branch that Reconcile takes for it.
Branch(s) ==
    CASE ~s.exists              -> "none"
      [] s.exists /\ s.deleting -> IF s.fin THEN "delete" ELSE "none"
      [] OTHER                  -> IF ~s.fin THEN "finalizer" ELSE IF Renamed(s) THEN "rename" ELSE "secret"

Reconcile(p) ==
    /\ Runs(p) /\ rec[p].at = "none" /\ p \in queued
    /\ LET s == cache[p].user
       IN rec' = [rec EXCEPT ![p] =
                    IF Branch(s) = "none" THEN NoRec ELSE [at |-> Branch(s), user |-> s, pw |-> 0]]
    /\ queued' = queued \ {p}
    /\ UNCHANGED <<clusterVars, rows, podVars, cache, budget>>

\* The API server takes no new finalizer on a resource that is being deleted.
AddFinalizer(p) ==
    /\ rec[p].at = "finalizer"
    /\ Put(IF user.exists /\ ~user.deleting THEN [user EXCEPT !.fin = TRUE] ELSE user)
    /\ Retry(p)
    /\ UNCHANGED <<byo, secret, fresh, rows, podVars, cache, budget>>

\* Mutant: the old row is left to whoever cleans up.
KeepOldRow(p, ok) ==
    /\ rec[p].at = "rename"
    /\ UNCHANGED rows
    /\ Answer(ok)
    /\ IF ok THEN GoTo(p, "secret") /\ UNCHANGED user
             ELSE Retry(p) /\ ReportError(Snapshot(p))
    /\ UNCHANGED <<byo, secret, fresh, podVars, cache>>

DeleteOldRow(p, ok) ==
    /\ rec[p].at = "rename"
    /\ rows' = [rows EXCEPT ![Snapshot(p).obsName] = None]
    /\ Answer(ok)
    /\ IF ok THEN GoTo(p, "secret") /\ UNCHANGED user
             ELSE Retry(p) /\ ReportError(Snapshot(p))
    /\ UNCHANGED <<byo, secret, fresh, podVars, cache>>

SecretError(p) == Retry(p) /\ ReportError(Snapshot(p)) /\ UNCHANGED <<secret, fresh>>

\* spec.passwordSecretRef: the password is what the cache has.
ResolveBYO(p) ==
    /\ rec[p].at = "secret" /\ byo
    /\ IF cache[p].secret.pw = 0
       THEN SecretError(p)
       ELSE /\ rec' = [rec EXCEPT ![p].at = "decide", ![p].pw = cache[p].secret.pw]
            /\ UNCHANGED <<queued, user, secret, fresh>>
    /\ UNCHANGED <<byo, rows, podVars, cache, budget>>

\* Mutant: the MutateFn writes its own candidate over an existing password.
MutateFnOverwrites(p, cached) == [name |-> Snapshot(p).name, pw |-> fresh]

\* The Secret the MutateFn makes of the cached one: an existing password stays.
MutateFn(p, cached) == [name |-> Snapshot(p).name, pw |-> IF cached.pw = 0 THEN fresh ELSE cached.pw]

\* controllerutil.CreateOrUpdate: Create needs that there is none, Update that the cached
\* version is the latest; a Secret that the MutateFn leaves as it is costs no call.
CreateOrUpdate(p) ==
    /\ rec[p].at = "secret" /\ ~byo
    /\ LET cached == cache[p].secret
           want   == MutateFn(p, cached)
       IN IF want # cached /\ cached # secret
          THEN SecretError(p)
          ELSE /\ secret' = IF want = cached THEN secret ELSE want
               /\ fresh' = IF want.pw = fresh THEN fresh + 1 ELSE fresh
               /\ GoTo(p, "reget") /\ UNCHANGED user
    /\ UNCHANGED <<byo, rows, podVars, cache, budget>>

\* Mutant: no check that the re-Get found a password.
RegetUnchecked(p) ==
    /\ rec[p].at = "reget"
    /\ rec' = [rec EXCEPT ![p].at = "decide", ![p].pw = cache[p].secret.pw]
    /\ UNCHANGED <<clusterVars, rows, podVars, cache, queued, budget>>

\* The re-Get reads the cache as well.
RegetSecret(p) ==
    /\ rec[p].at = "reget"
    /\ IF cache[p].secret.pw = 0
       THEN SecretError(p)
       ELSE /\ rec' = [rec EXCEPT ![p].at = "decide", ![p].pw = cache[p].secret.pw]
            /\ UNCHANGED <<queued, user, secret, fresh>>
    /\ UNCHANGED <<byo, rows, podVars, cache, budget>>

storedBcryptCost(n) == IF rows[n] = None THEN 0 ELSE rows[n].cost

\* The short-circuit: the password is the observed one and the row's cost is high enough.
Decide(p) ==
    /\ rec[p].at = "decide"
    /\ LET s == Snapshot(p)
           unchanged == s.obsName = s.name /\ s.obsHash = rec[p].pw
       IN GoTo(p, IF unchanged /\ storedBcryptCost(s.name) >= cost[p] THEN "ready" ELSE "upsert")
    /\ UNCHANGED <<clusterVars, rows, podVars, cache, budget>>

Upsert(p, ok) ==
    /\ rec[p].at = "upsert"
    /\ rows' = [rows EXCEPT ![Snapshot(p).name] = [pw |-> rec[p].pw, cost |-> cost[p]]]
    /\ Answer(ok)
    /\ IF ok THEN GoTo(p, "status") /\ UNCHANGED user
             ELSE Retry(p) /\ ReportError(Snapshot(p))
    /\ UNCHANGED <<byo, secret, fresh, podVars, cache>>

\* The last patch, after the short-circuit (Ready alone) or after the upsert.
PatchStatus(p, ok) ==
    /\ rec[p].at \in {"ready", "status"}
    /\ LET s    == Snapshot(p)
           full == rec[p].at = "status"
       IN Put(IF ~user.exists THEN user
              ELSE [user EXCEPT
                      !.obsHash = IF full /\ s.obsHash # rec[p].pw THEN rec[p].pw ELSE @,
                      !.obsName = IF full /\ s.obsName # s.name THEN s.name ELSE @,
                      !.ready   = ReadyPatch(s, TRUE)])
    /\ Answer(ok)
    /\ IF ok /\ user.exists THEN Return(p) ELSE Retry(p)
    /\ UNCHANGED <<byo, secret, fresh, rows, podVars, cache>>

\* reconcileDelete knows the row by spec.username alone.
DeleteRow(p, ok) ==
    /\ rec[p].at = "delete"
    /\ rows' = [rows EXCEPT ![Snapshot(p).name] = None]
    /\ Answer(ok)
    /\ IF ok THEN GoTo(p, "unfinalizer") ELSE Retry(p)
    /\ UNCHANGED <<clusterVars, podVars, cache>>

\* The last finalizer gone, the API server removes the resource.
RemoveFinalizer(p, ok) ==
    /\ rec[p].at = "unfinalizer"
    /\ Put(IF user.exists THEN [user EXCEPT !.fin = FALSE, !.exists = ~user.deleting] ELSE user)
    /\ Answer(ok)
    /\ IF ok /\ user.exists THEN Return(p) ELSE Retry(p)
    /\ UNCHANGED <<byo, secret, fresh, rows, podVars, cache>>

\* The call at hand fails and has no effect.
CallFails(p) ==
    /\ rec[p].at \notin {"none", "reget"}
    /\ Spend("fail")
    /\ Retry(p)
    /\ IF rec[p].at \in {"rename", "secret", "upsert"} THEN ReportError(Snapshot(p)) ELSE UNCHANGED user
    /\ UNCHANGED <<byo, secret, fresh, rows, podVars, cache>>

ReconcileStep(p) ==
    \/ Reconcile(p) \/ AddFinalizer(p) \/ ResolveBYO(p) \/ CreateOrUpdate(p) \/ RegetSecret(p)
    \/ Decide(p) \/ CallFails(p)
    \/ \E ok \in BOOLEAN : \/ DeleteOldRow(p, ok) \/ Upsert(p, ok) \/ PatchStatus(p, ok)
                           \/ DeleteRow(p, ok) \/ RemoveFinalizer(p, ok)

Edit == Rotate \/ Delete \/ (\E n \in Names : Rename(n)) \/ (\E pw \in 1..(fresh - 1) : Reuse(pw))

-----------------------------------------------------------------------------
\* A User that says Ready for its present generation can log in: there is a row for its
\* username (setReady pins the condition to the generation that the reconcile has read).
ReadyIsTrue ==
    user.exists /\ ~user.deleting /\ SaysReady => rows[user.name] # None

\* The operator never replaces a password it has generated: whoever creates the Secret
\* decides, also while two managers reconcile (resolveCredentialSecret's MutateFn).
PasswordStable ==
    [][secret.pw # 0 /\ secret'.pw # secret.pw => Rotate \/ \E pw \in 1..fresh : Reuse(pw)]_vars

Matches ==
    /\ rows[user.name] # None
    /\ rows[user.name].pw = secret.pw
    /\ \E p \in Pods : lease = p /\ rows[user.name].cost >= cost[p]
    /\ ~byo => secret.name = user.name
    /\ SaysReady

\* Once the edits and the faults are over, the row of a live User has the password that the
\* Secret has, at the cost of the pod that leads, and the User says so.
CredentialsConverge ==
    <>[](user.exists /\ ~user.deleting => (byo /\ secret.pw = 0) \/ Matches)

\* And no other row is left: not under an earlier username, not of a deleted User.
NoStaleRow ==
    <>[](/\ ~(user.exists /\ user.deleting)
         /\ \A n \in Names : rows[n] # None => user.exists /\ user.name = n)
=============================================================================
