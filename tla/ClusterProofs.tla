---------------------------- MODULE ClusterProofs ----------------------------
(***************************************************************************)
(* Proofs about Cluster, for any pods, releases, usernames, costs, edits   *)
(* and faults.                                                             *)
(***************************************************************************)
EXTENDS Cluster, SequenceTheorems, TLAPS

-----------------------------------------------------------------------------
(* The start of the pods: Migrate.                                         *)

MigrateTypeOK ==
    /\ boot \in [Pods -> Boot]
    /\ lock \in Pods \cup {None, Ghost}
    /\ ran \in Seq(Nat)
    /\ faults \in Nat

\* A pod that has the lock, or had it until its session was dropped, has gone through the
\* files before the one it looks at and found or put each of them in schema_migrations.
Checked ==
    \A p \in Pods :
        /\ boot[p].next >= 1
        /\ boot[p].at = "lock" => boot[p].next = 1
        /\ boot[p].at \in {"check", "apply", "unlock"} => 1..(boot[p].next - 1) \subseteq version
        /\ boot[p].at = "unlock" => boot[p].next > Files[p]

\* The holder of the lock alone inserts, so what it found missing is still missing.
Missing == \A p \in Pods : boot[p].at = "apply" /\ boot[p].session => boot[p].next \notin version

MigrateInv == MigrateTypeOK /\ SchemaExact /\ MigrateAlone /\ Checked /\ Missing /\ ServesMigrated

LEMMA MigrateInit == ClusterInit => MigrateInv
<1> SUFFICES ASSUME ClusterInit PROVE MigrateInv
  OBVIOUS
<1>1. MaxFaults.new \in Nat /\ MaxFaults.old \in Nat
  BY ReleaseAssumption
<1>2. CASE Empty /\ faults = MaxFaults.new
  BY <1>1, <1>2 DEF Empty, Down, Boot, MigrateInv, MigrateTypeOK, SchemaExact, MigrateAlone, Checked, Missing,
                    ServesMigrated
<1>3. CASE Started /\ faults = MaxFaults.old
  <2>1. PICK n \in {Files[p] : p \in Pods} : /\ \A p \in Pods : Files[p] <= n
                                             /\ ran = [i \in 1..n |-> i]
                                             /\ version = 1..n
    BY <1>3 DEF Started
  <2>2. n \in Nat
    BY <2>1, ReleaseAssumption
  <2>3. ran \in Seq(Nat) /\ Len(ran) = n
    BY <2>1, <2>2
  <2>4. \A p \in Pods : Files[p] \in Nat
    BY ReleaseAssumption
  <2>5. MigrateTypeOK
    BY <1>1, <1>3, <2>3, <2>4 DEF Started, Boot, MigrateTypeOK
  <2> QED
    BY <1>3, <2>1, <2>2, <2>3, <2>4, <2>5
       DEF Started, MigrateInv, SchemaExact, MigrateAlone, Checked, Missing, ServesMigrated
<1> QED
  BY <1>2, <1>3 DEF ClusterInit

\* Giving back the lock that one held, and going down or on to serve, disturbs no other pod.
LEMMA Leave ==
    ASSUME MigrateInv, NEW p \in Pods, UNCHANGED <<ran, version>>,
           NEW b \in Boot, boot' = [boot EXCEPT ![p] = b],
           lock' \in Pods \cup {None, Ghost}, lock' # lock => lock = p,
           faults' \in Nat,
           ~b.session, b.next >= 1,
           \/ b.at = "down"
           \/ b.at = "serving" /\ boot[p].at = "unlock"
           \/ b.at = boot[p].at /\ b.next = boot[p].next
    PROVE  MigrateInv'
<1> USE DEF MigrateInv, MigrateTypeOK, Boot
<1>1. MigrateTypeOK' /\ SchemaExact'
  BY DEF SchemaExact
<1>2. MigrateAlone'
  BY DEF MigrateAlone
<1>3. Checked' /\ Missing'
  BY DEF Checked, Missing
<1>4. ServesMigrated'
  <2>1. ASSUME boot[p].at = "unlock" PROVE 1..Files[p] \subseteq version
    <3>1. Files[p] \in Nat /\ boot[p].next \in Nat
      BY ReleaseAssumption
    <3>2. 1..(boot[p].next - 1) \subseteq version /\ boot[p].next > Files[p]
      BY <2>1 DEF Checked
    <3>3. 1..Files[p] \subseteq 1..(boot[p].next - 1)
      BY <3>1, <3>2
    <3> QED
      BY <3>2, <3>3
  <2> QED
    BY <2>1 DEF ServesMigrated
<1> QED
  BY <1>1, <1>2, <1>3, <1>4

LEMMA MigrateNext == MigrateInv /\ [ClusterNext]_cvars => MigrateInv'
<1> SUFFICES ASSUME MigrateInv, [ClusterNext]_cvars PROVE MigrateInv'
  OBVIOUS
<1> USE DEF MigrateInv
<1>1. \/ UNCHANGED mvars
      \/ GhostGone
      \/ \E p \in Pods : BootStep(p) \/ Crash(p)
  BY DEF ClusterNext, RestartPod, cvars
<1>2. CASE UNCHANGED mvars
  BY <1>2 DEF mvars, MigrateTypeOK, SchemaExact, MigrateAlone, Checked, Missing, ServesMigrated
<1>3. CASE GhostGone
  <2>1. \A p \in Pods : lock # p
    BY <1>3, ReleaseAssumption DEF GhostGone
  <2> QED
    BY <1>3, <2>1 DEF GhostGone, MigrateTypeOK, SchemaExact, MigrateAlone, Checked, Missing, ServesMigrated
<1>4. ASSUME NEW p \in Pods, BootStep(p) \/ Crash(p) PROVE MigrateInv'
  <2>0. /\ boot[p] \in Boot /\ boot \in [Pods -> Boot]
        /\ Down \in Boot /\ ~Down.session /\ Down.at = "down"
    BY DEF MigrateTypeOK, Boot, Down
  <2>0a. Fault => faults' \in Nat
    BY DEF Fault, MigrateTypeOK
  <2>1. CASE Open(p)
    <3>1. [at |-> "lock", next |-> 1, session |-> TRUE] \in Boot
      BY DEF Boot
    <3> QED
      BY <2>1, <3>1, <2>0 DEF Open, MigrateTypeOK, SchemaExact, MigrateAlone, Checked, Missing, ServesMigrated
  <2>2. CASE Enter(p)
    <3>1. \A q \in Pods : ~(boot[q].session /\ boot[q].at \in {"check", "apply"})
      BY <2>2, ReleaseAssumption DEF Enter, MigrateAlone
    <3>2. /\ boot'[p].at = "check" /\ boot'[p].next = 1 /\ boot' \in [Pods -> Boot]
          /\ \A q \in Pods \ {p} : boot'[q] = boot[q]
      BY <2>2, <2>0 DEF Enter, Boot, Checked
    <3>3. 1..(boot'[p].next - 1) = {}
      BY <3>2
    <3> QED
      BY <2>2, <3>1, <3>2, <3>3, <2>0
         DEF Enter, MigrateTypeOK, SchemaExact, MigrateAlone, Checked, Missing, ServesMigrated
  <2>3. CASE Check(p)
    <3>0. boot[p].next \in Nat /\ Files[p] \in Nat /\ boot[p].next >= 1
      BY <2>0, ReleaseAssumption DEF Boot, Checked
    <3> DEFINE b == boot'[p]
    <3>1. /\ b \in Boot /\ boot' = [boot EXCEPT ![p] = b]
          /\ b.session = boot[p].session
          /\ \/ b.at = "unlock" /\ b.next = boot[p].next /\ b.next > Files[p]
             \/ b.at = "check" /\ b.next = boot[p].next + 1 /\ boot[p].next \in version
             \/ b.at = "apply" /\ b.next = boot[p].next /\ b.next \notin version
      <4>1. CASE boot[p].next > Files[p]
        <5>1. boot' = [boot EXCEPT ![p] = [boot[p] EXCEPT !.at = "unlock"]]
          BY <2>3, <4>1 DEF Check
        <5> QED
          BY <5>1, <4>1, <2>0 DEF Boot
      <4>2. CASE ~(boot[p].next > Files[p]) /\ boot[p].next \in version
        <5>1. boot' = [boot EXCEPT ![p] = [boot[p] EXCEPT !.next = boot[p].next + 1]] /\ boot[p].at = "check"
          BY <2>3, <4>2 DEF Check
        <5> QED
          BY <5>1, <4>2, <2>0, <3>0 DEF Boot
      <4>3. CASE ~(boot[p].next > Files[p]) /\ boot[p].next \notin version
        <5>1. boot' = [boot EXCEPT ![p] = [boot[p] EXCEPT !.at = "apply"]]
          BY <2>3, <4>3 DEF Check
        <5> QED
          BY <5>1, <4>3, <2>0 DEF Boot
      <4> QED
        BY <4>1, <4>2, <4>3
    <3>2. 1..(b.next - 1) \subseteq version
      <4>1. 1..(boot[p].next - 1) \subseteq version
        BY <2>3 DEF Check, Checked
      <4>2. 1..boot[p].next = 1..(boot[p].next - 1) \cup {boot[p].next}
        BY <3>0
      <4>3. b.next - 1 = boot[p].next - 1 \/ (b.next - 1 = boot[p].next /\ boot[p].next \in version)
        BY <3>0, <3>1
      <4> QED
        BY <4>1, <4>2, <4>3
    <3>3. b.next >= 1 /\ \A q \in Pods \ {p} : boot'[q] = boot[q]
      BY <2>0, <3>0, <3>1
    <3>4. UNCHANGED <<lock, ran, version, faults>> /\ boot' \in [Pods -> Boot]
      BY <2>3, <3>1, <2>0 DEF Check
    <3>5. MigrateAlone'
      BY <2>3, <3>1, <3>3, <3>4 DEF Check, MigrateAlone
    <3> HIDE DEF b
    <3>6. Checked'
      BY <3>1, <3>2, <3>3, <3>4 DEF Checked, b
    <3> QED
      BY <3>1, <3>3, <3>4, <3>5, <3>6 DEF b, MigrateTypeOK, SchemaExact, Missing, ServesMigrated
  <2>4. ASSUME NEW ok \in BOOLEAN, Apply(p, ok) PROVE MigrateInv'
    <3> DEFINE n == boot[p].next
    <3>1. /\ n \in Nat /\ n \notin version /\ n >= 1 /\ 1..(n - 1) \subseteq version
          /\ ran \in Seq(Nat) /\ Len(ran) \in Nat
      <4>1. boot[p].at = "apply" /\ n \notin version
        BY <2>4 DEF Apply
      <4> QED
        BY <4>1, <2>0, SMTT(30) DEF Checked, Boot, MigrateTypeOK
    <3>2. n = Len(ran) + 1
      BY <3>1 DEF SchemaExact
    <3>3. /\ ran' = Append(ran, n) /\ Len(ran') = n /\ ran' \in Seq(Nat)
          /\ ran'[n] = n /\ \A i \in 1..Len(ran) : ran'[i] = ran[i]
          /\ version' = version \cup {n}
      BY <2>4, <3>1, <3>2 DEF Apply
    <3>4. SchemaExact'
      <4>1. 1..n = 1..Len(ran) \cup {n}
        BY <3>1, <3>2
      <4> QED
        BY <3>2, <3>3, <4>1 DEF SchemaExact
    <3>5. \A q \in Pods \ {p} : ~(boot[q].session /\ boot[q].at \in {"check", "apply"})
      BY <2>4 DEF Apply, MigrateAlone
    <3> DEFINE b == boot'[p]
    <3>6. /\ b \in Boot /\ boot' = [boot EXCEPT ![p] = b]
          /\ \/ b.at = "check" /\ b.next = n + 1 /\ UNCHANGED <<lock, faults>>
             \/ b = Down /\ lock' = None /\ faults' \in Nat
      <4>1. CASE ok
        <5>1. /\ boot' = [boot EXCEPT ![p] = [at |-> "check", next |-> n + 1, session |-> TRUE]]
              /\ UNCHANGED <<lock, faults>>
          BY <2>4, <4>1 DEF Apply
        <5>2. b = [at |-> "check", next |-> n + 1, session |-> TRUE]
          BY <5>1, <2>0
        <5> QED
          <6>1. n + 1 \in Nat
            BY <3>1
          <6>2. b \in Boot /\ b.at = "check" /\ b.next = n + 1
            BY <5>2, <6>1 DEF Boot
          <6> QED
            BY <5>1, <5>2, <6>2
      <4>2. CASE ~ok
        <5>1. boot' = [boot EXCEPT ![p] = Down] /\ lock' = None /\ faults' \in Nat
          BY <2>4, <4>2, <2>0a DEF Apply
        <5> QED
          BY <5>1, <2>0
      <4> QED
        BY <4>1, <4>2
    <3>7. boot'[p] = b /\ \A q \in Pods \ {p} : boot'[q] = boot[q]
      BY <3>6, <2>0
    <3>8. MigrateTypeOK'
      BY <2>4, <3>3, <3>6, <2>0, <2>0a DEF Apply, MigrateTypeOK
    <3>9. MigrateAlone'
      BY <2>4, <3>5, <3>6, <3>7, <2>0 DEF Apply, MigrateAlone
    <3>10. Checked' /\ Missing' /\ ServesMigrated'
      <4>1. b.next >= 1 /\ (b.at = "check" => 1..(b.next - 1) \subseteq version')
        BY <3>1, <3>3, <3>4, <3>6 DEF SchemaExact, Down
      <4> QED
        BY <3>3, <3>5, <3>6, <3>7, <2>0, <4>1 DEF Checked, Missing, ServesMigrated
    <3> QED
      BY <3>4, <3>8, <3>9, <3>10
  <2>5. CASE ApplyConflicts(p) \/ Fail(p) \/ Crash(p)
    <3>1. /\ boot' = [boot EXCEPT ![p] = Down] /\ UNCHANGED <<ran, version>>
          /\ lock' \in Pods \cup {None, Ghost} /\ (lock' # lock => lock = p) /\ faults' \in Nat
      BY <2>5, <2>0a DEF ApplyConflicts, Fail, Crash, MigrateTypeOK
    <3>2. Down.next >= 1
      BY DEF Down
    <3> QED
      BY <3>1, <3>2, <2>0, Leave
  <2>6. CASE Serve(p)
    <3> DEFINE b == boot'[p]
    <3>1. /\ b \in Boot /\ boot' = [boot EXCEPT ![p] = b]
          /\ b.at = "serving" /\ b.next = boot[p].next /\ ~b.session
      BY <2>6, <2>0 DEF Serve, Boot
    <3>2. b.next >= 1 /\ faults' \in Nat /\ lock' \in Pods \cup {None, Ghost} /\ (lock' # lock => lock = p)
      BY <2>6, <3>1 DEF Checked, Serve, MigrateTypeOK
    <3>3. UNCHANGED <<ran, version>> /\ boot[p].at = "unlock"
      BY <2>6 DEF Serve
    <3> QED
      BY <3>1, <3>2, <3>3, Leave
  <2>7. CASE LoseSession(p)
    <3> DEFINE b == boot'[p]
    <3>1. /\ b \in Boot /\ boot' = [boot EXCEPT ![p] = b]
          /\ b.at = boot[p].at /\ b.next = boot[p].next /\ ~b.session
      BY <2>7, <2>0 DEF LoseSession, Boot
    <3>2. b.next >= 1 /\ faults' \in Nat /\ lock' \in Pods \cup {None, Ghost} /\ (lock' # lock => lock = p)
      BY <2>7, <3>1, <2>0a DEF Checked, LoseSession, MigrateTypeOK
    <3>3. UNCHANGED <<ran, version>>
      BY <2>7 DEF LoseSession
    <3> QED
      BY <3>1, <3>2, <3>3, Leave
  <2> QED
    BY <1>4, <2>1, <2>2, <2>3, <2>4, <2>5, <2>6, <2>7 DEF BootStep
<1> QED
  BY <1>1, <1>2, <1>3, <1>4

\* Migrations run in order, each once, and schema_migrations lists exactly those that were
\* committed: for any number of pods and releases, and any lost sessions and crashes.
THEOREM SchemaAlwaysExact == ClusterSpec => []SchemaExact
<1> QED
  BY MigrateInit, MigrateNext, PTL DEF ClusterSpec, MigrateInv

\* At most one live session is past pg_advisory_lock.
THEOREM AlwaysMigratesAlone == ClusterSpec => []MigrateAlone
<1> QED
  BY MigrateInit, MigrateNext, PTL DEF ClusterSpec, MigrateInv

\* A pod that serves finds the migrations of its release applied.
THEOREM AlwaysServesMigrated == ClusterSpec => []ServesMigrated
<1> QED
  BY MigrateInit, MigrateNext, PTL DEF ClusterSpec, MigrateInv

-----------------------------------------------------------------------------
(* The operator.                                                           *)

\* A reconcile is the work of a manager that runs, on a User it has read, and from the
\* moment it decides it has a password.  The holder of the Lease has not lost it.
Working ==
    \A p \in Pods :
        /\ lease = p => mgr[p] = "leader"
        /\ Runs(p) => cache[p].user \in User
        /\ rec[p].at # "none" => Runs(p) /\ rec[p].user \in User
        /\ rec[p].at \in {"decide", "upsert", "status", "ready"} => rec[p].pw # 0

OperatorInv == TypeOK /\ Working

Live == user.exists /\ ~user.deleting

\* What a cache or a reconcile knows of the User is what it was at its generation.
Earlier(s) ==
    /\ s.gen <= user.gen
    /\ s.gen = user.gen => s.name = user.name
    /\ s.deleting => ~Live

\* The Users that the managers work with.
Known == {cache[p].user : p \in {q \in Pods : Runs(q)}} \cup {rec[p].user : p \in {q \in Pods : rec[q].at # "none"}}

\* Where a reconcile stands says what it has read, and what it has done to the table.
Branched ==
    \A p \in Pods : LET s == rec[p].user IN
        /\ rec[p].at \in {"delete", "unfinalizer"} => s.deleting
        /\ rec[p].at = "rename" => Renamed(s)
        /\ rec[p].at \in {"ready", "status"} /\ Live /\ s.gen = user.gen => rows[user.name] # None

\* Either the Lease is never lost: one manager reconciles, and no condition is newer than
\* what it has read.
OneManager ==
    /\ budget.lose = 0
    /\ \A p \in Pods :
         /\ mgr[p] # "lost"
         /\ mgr[p] = "leader" => lease = p
         /\ Runs(p) => cache[p].user.gen >= user.ready.gen
         /\ rec[p].at # "none" => cache[p].user.gen >= rec[p].user.gen /\ rec[p].user.gen >= user.ready.gen

\* Or the User is renamed at most once: a row that a rename leaves behind is never wanted again.
NoWayBack ==
    /\ budget.rename <= 1
    /\ \A s \in Known \cup {user} :
         \/ s.obsName \in {None, s.name} /\ (budget.rename = 1 => s.name = user.name)
         \/ budget.rename = 0 /\ s.name = user.name

ReadyInv ==
    /\ user.ready.gen <= user.gen
    /\ \A s \in Known : Earlier(s)
    /\ Branched
    /\ OneManager \/ NoWayBack
    /\ ReadyIsTrue

\* The resource after an edit, a patch or the delivery of an event.
LEMMA RenameType ==
    ASSUME user \in User, NEW n \in Names, NEW g \in Nat
    PROVE  [user EXCEPT !.name = n, !.gen = g] \in User
  BY DEF User

LEMMA PutType ==
    ASSUME NEW u \in User, user \in User, Put(u)
    PROVE  user' \in User
<1>1. [u EXCEPT !.news = {p \in Pods : Runs(p)}] \in User
  BY DEF User
<1> QED
  BY <1>1 DEF Put

LEMMA SeenType ==
    ASSUME user \in User, NEW p \in Pods
    PROVE  /\ Latest \in User
           /\ Seen(p) => user' \in User
<1>1. user.news \in SUBSET Pods
  BY DEF User
<1>2. [user EXCEPT !.news = user.news \ {p}] \in User /\ [user EXCEPT !.news = {}] \in User
  BY <1>1 DEF User
<1> QED
  BY <1>2 DEF Seen, Latest

LEMMA ReadyPatchType ==
    ASSUME user \in User, NEW s \in User, NEW b \in BOOLEAN
    PROVE  ReadyPatch(s, b) \in [ok : BOOLEAN, gen : Nat]
<1>1. s.gen \in Nat /\ user.ready \in [ok : BOOLEAN, gen : Nat]
  BY DEF User
<1> QED
  BY <1>1 DEF ReadyPatch

LEMMA ReportErrorType ==
    ASSUME TypeOK, NEW s \in User, ReportError(s)
    PROVE  user' \in User
<1>1. user \in User
  BY DEF TypeOK
<1>2. ReadyPatch(s, FALSE) \in [ok : BOOLEAN, gen : Nat]
  BY <1>1, ReadyPatchType
<1>3. [user EXCEPT !.ready = ReadyPatch(s, FALSE)] \in User
  BY <1>1, <1>2 DEF User
<1> QED
  BY <1>1, <1>3, PutType DEF ReportError

\* How a step of a reconcile leaves it.
LEMMA RecTypes ==
    ASSUME TypeOK, NEW p \in Pods, NEW at \in {"finalizer", "rename", "secret", "reget", "decide", "upsert",
                                               "status", "ready", "delete", "unfinalizer"},
           Retry(p) \/ Return(p) \/ GoTo(p, at)
    PROVE  /\ rec' \in [Pods -> Rec] /\ queued' \subseteq Pods
           /\ \A q \in Pods \ {p} : rec'[q] = rec[q]
           /\ \/ rec'[p] = NoRec
              \/ rec'[p].at = at /\ rec'[p].user = rec[p].user /\ rec'[p].pw = rec[p].pw
<1>1. NoRec \in Rec
  BY DEF NoRec, Rec
<1>2. rec \in [Pods -> Rec] /\ rec[p] \in Rec /\ queued \subseteq Pods
  BY DEF TypeOK
<1>3. [rec[p] EXCEPT !.at = at] \in Rec
  BY <1>2 DEF Rec
<1>4. /\ [rec[p] EXCEPT !.at = at].at = at
      /\ [rec[p] EXCEPT !.at = at].user = rec[p].user
      /\ [rec[p] EXCEPT !.at = at].pw = rec[p].pw
  BY <1>2 DEF Rec
<1>5. CASE Retry(p) \/ Return(p)
  BY <1>1, <1>2, <1>5 DEF Retry, Return
<1>6. CASE GoTo(p, at)
  <2>1. rec' = [rec EXCEPT ![p] = [rec[p] EXCEPT !.at = at]] /\ queued' = queued
    BY <1>6 DEF GoTo
  <2> QED
    BY <1>2, <1>3, <1>4, <2>1
<1> QED
  BY <1>5, <1>6

LEMMA SpendType ==
    ASSUME budget \in [Kinds -> Nat], NEW k \in Kinds, Spend(k)
    PROVE  budget' \in [Kinds -> Nat]
<1>1. budget[k] \in Nat /\ budget[k] > 0 /\ budget' = [budget EXCEPT ![k] = budget[k] - 1]
  BY DEF Spend
<1>2. budget[k] - 1 \in Nat
  BY <1>1
<1> QED
  BY <1>1, <1>2

\* A step of the composition is a step of the operator or none of its variables change.
LEMMA OperatorSteps ==
    ASSUME [ClusterNext]_cvars
    PROVE  \/ UNCHANGED vars
           \/ Edit
           \/ \E p \in Pods : \/ Lead(p) \/ LoseLease(p) \/ ManagerExits(p) \/ SyncUser(p) \/ SyncSecret(p)
                              \/ ReconcileStep(p)
                              \/ \E c \in Costs : Restart(p, c)
<1>1. CASE UNCHANGED cvars
  BY <1>1 DEF cvars
<1>2. CASE ClusterNext
  BY <1>2 DEF ClusterNext, RestartPod
<1> QED
  BY <1>1, <1>2

LEMMA OperatorInit == ClusterInit => OperatorInv
<1> SUFFICES ASSUME ClusterInit PROVE OperatorInv
  OBVIOUS
<1>1. Init
  BY DEF ClusterInit
<1>2. user \in User
  BY <1>1, OperatorAssumption DEF Init, User
<1>3. secret \in Secret /\ fresh \in Nat \ {0} /\ NoSecret \in Secret
  BY <1>1 DEF Init, Secret, NoSecret
<1>4. NoCache \in [user : User \cup {None}, secret : Secret] /\ NoRec \in Rec
  BY <1>3 DEF NoCache, NoRec, Rec
<1>5. TypeOK
  BY <1>1, <1>2, <1>3, <1>4, OperatorAssumption DEF Init, TypeOK, Row
<1>6. Working
  BY <1>1, ReleaseAssumption DEF Init, Working, Runs, NoRec
<1> QED
  BY <1>5, <1>6 DEF OperatorInv

LEMMA EditTypes ==
    ASSUME OperatorInv, Edit
    PROVE  OperatorInv'
<1> USE DEF OperatorInv
<1>0. /\ user \in User /\ user.gen \in Nat /\ secret \in Secret /\ fresh \in Nat \ {0} /\ NoSecret \in Secret
      /\ budget \in [Kinds -> Nat]
  BY DEF TypeOK, User, NoSecret, Secret
<1> DEFINE Kept == /\ UNCHANGED <<byo, rows, podVars, cache, workVars>>
                   /\ user' \in User /\ secret' \in Secret /\ fresh' \in Nat \ {0}
                   /\ budget' \in [Kinds -> Nat]
<1>1. Kept
  <2>1. ASSUME NEW n \in Names, Rename(n) PROVE Kept
    <3>0. user.gen + 1 \in Nat
      BY <1>0
    <3>1. [user EXCEPT !.name = n, !.gen = user.gen + 1] \in User
      BY <1>0, <3>0, RenameType
    <3>2. Put([user EXCEPT !.name = n, !.gen = user.gen + 1]) /\ Spend("rename")
      BY <2>1 DEF Rename, EditIs
    <3>3. user' \in User
      BY <1>0, <3>1, <3>2, PutType
    <3> QED
      BY <2>1, <1>0, <3>2, <3>3, SpendType DEF Rename, Kinds
  <2>2. CASE Rotate
    <3>1. Spend("rotate")
      BY <2>2 DEF Rotate, EditIs
    <3>2. [secret EXCEPT !.pw = fresh] \in Secret
      BY <1>0 DEF Secret
    <3> QED
      BY <2>2, <1>0, <3>1, <3>2, SpendType DEF Rotate, Kinds
  <2>3. ASSUME NEW pw \in 1..(fresh - 1), Reuse(pw) PROVE Kept
    <3>1. Spend("reuse")
      BY <2>3 DEF Reuse, EditIs
    <3>2. [secret EXCEPT !.pw = pw] \in Secret
      BY <1>0 DEF Secret
    <3> QED
      BY <2>3, <1>0, <3>1, <3>2, SpendType DEF Reuse, Kinds
  <2>4. CASE Delete
    <3>1. /\ Put(IF user.fin THEN [user EXCEPT !.deleting = TRUE] ELSE [user EXCEPT !.exists = FALSE])
          /\ Spend("delete")
      BY <2>4 DEF Delete, EditIs
    <3>2. [user EXCEPT !.deleting = TRUE] \in User /\ [user EXCEPT !.exists = FALSE] \in User
      BY <1>0 DEF User
    <3>3. user' \in User
      BY <1>0, <3>1, <3>2, PutType
    <3> QED
      BY <2>4, <1>0, <3>1, <3>3, SpendType DEF Delete, Kinds
  <2> QED
    BY <2>1, <2>2, <2>3, <2>4 DEF Edit
<1>2. TypeOK'
  BY <1>1 DEF TypeOK, podVars, workVars
<1>3. Working'
  BY <1>1 DEF Working, Runs, podVars, workVars
<1> QED
  BY <1>2, <1>3

\* The caches.
LEMMA CacheTypes ==
    ASSUME TypeOK, NEW p \in Pods
    PROVE  /\ NoCache \in [user : User \cup {None}, secret : Secret] /\ NoRec \in Rec
           /\ [user |-> Latest, secret |-> secret] \in [user : User \cup {None}, secret : Secret]
           /\ [cache[p] EXCEPT !.user = Latest] \in [user : User \cup {None}, secret : Secret]
           /\ [cache[p] EXCEPT !.user = Latest].user = Latest
           /\ [cache[p] EXCEPT !.secret = secret] \in [user : User \cup {None}, secret : Secret]
           /\ [cache[p] EXCEPT !.secret = secret].user = cache[p].user
           /\ Latest \in User
<1>1. user \in User /\ secret \in Secret /\ cache[p] \in [user : User \cup {None}, secret : Secret]
  BY DEF TypeOK
<1>2. Latest \in User
  BY <1>1, SeenType
<1>3. NoSecret \in Secret
  BY DEF NoSecret, Secret
<1> QED
  BY <1>1, <1>2, <1>3 DEF NoCache, NoRec, Rec

LEMMA ManagerTypes ==
    ASSUME OperatorInv, NEW p \in Pods,
           \/ Lead(p) \/ LoseLease(p) \/ ManagerExits(p) \/ SyncUser(p) \/ SyncSecret(p)
           \/ \E c \in Costs : Restart(p, c)
    PROVE  OperatorInv'
<1> USE DEF OperatorInv
<1>0. /\ user \in User /\ budget \in [Kinds -> Nat] /\ cache \in [Pods -> [user : User \cup {None}, secret : Secret]]
      /\ rec \in [Pods -> Rec] /\ mgr \in [Pods -> {"follower", "leader", "lost", "over"}]
      /\ NoRec.at = "none"
  BY DEF TypeOK, NoRec
<1>1. CASE Lead(p)
  <2>1. TypeOK'
    BY <1>1, CacheTypes DEF Lead, TypeOK, clusterVars
  <2>2. cache'[p].user = Latest /\ \A q \in Pods \ {p} : cache'[q] = cache[q] /\ mgr'[q] = mgr[q]
    BY <1>0, <1>1 DEF Lead
  <2>3. mgr'[p] = "leader" /\ rec' = rec /\ lease' = p
    BY <1>0, <1>1 DEF Lead
  <2> QED
    BY <2>1, <2>2, <2>3, CacheTypes DEF Working, Runs
<1>2. CASE LoseLease(p)
  <2>1. TypeOK'
    BY <1>0, <1>2, SpendType DEF LoseLease, TypeOK, clusterVars, workVars, Kinds
  <2>2. /\ mgr'[p] = "lost" /\ UNCHANGED <<cache, rec>> /\ lease' = None
        /\ \A q \in Pods \ {p} : mgr'[q] = mgr[q]
    BY <1>0, <1>2 DEF LoseLease, workVars
  <2>3. Runs(p)
    BY <1>2 DEF LoseLease, Working, Runs
  <2> QED
    BY <2>1, <2>2, <2>3, ReleaseAssumption DEF Working, Runs
<1>3. CASE ManagerExits(p)
  <2>1. TypeOK'
    BY <1>0, <1>3, SeenType, CacheTypes DEF ManagerExits, TypeOK
  <2>2. /\ mgr[p] = "lost" /\ mgr'[p] = "over" /\ rec'[p] = NoRec /\ lease' = lease
        /\ \A q \in Pods \ {p} : cache'[q] = cache[q] /\ mgr'[q] = mgr[q] /\ rec'[q] = rec[q]
    BY <1>0, <1>3 DEF ManagerExits
  <2> QED
    BY <1>0, <2>1, <2>2 DEF Working, Runs
<1>4. ASSUME NEW c \in Costs, Restart(p, c) PROVE OperatorInv'
  <2>1. TypeOK'
    BY <1>0, <1>4, SeenType, SpendType, CacheTypes DEF Restart, TypeOK, Kinds
  <2>2. /\ mgr'[p] = "follower" /\ rec'[p] = NoRec /\ lease' = IF lease = p THEN None ELSE lease
        /\ \A q \in Pods \ {p} : cache'[q] = cache[q] /\ mgr'[q] = mgr[q] /\ rec'[q] = rec[q]
    BY <1>0, <1>4 DEF Restart
  <2> QED
    BY <1>0, <2>1, <2>2, ReleaseAssumption DEF Working, Runs
<1>5. CASE SyncUser(p)
  <2>1. TypeOK'
    BY <1>0, <1>5, SeenType, CacheTypes DEF SyncUser, TypeOK, podVars
  <2>2. cache'[p].user = Latest /\ UNCHANGED <<mgr, lease, rec>> /\ \A q \in Pods \ {p} : cache'[q] = cache[q]
    BY <1>0, <1>5, CacheTypes DEF SyncUser, podVars
  <2> QED
    BY <2>1, <2>2, CacheTypes DEF Working, Runs
<1>6. CASE SyncSecret(p)
  <2>1. TypeOK'
    BY <1>0, <1>6, CacheTypes DEF SyncSecret, TypeOK, podVars, clusterVars
  <2>2. cache'[p].user = cache[p].user /\ UNCHANGED <<mgr, lease, rec>> /\ \A q \in Pods \ {p} : cache'[q] = cache[q]
    BY <1>0, <1>6, CacheTypes DEF SyncSecret, podVars
  <2> QED
    BY <2>1, <2>2 DEF Working, Runs
<1> QED
  BY <1>1, <1>2, <1>3, <1>4, <1>5, <1>6

\* What every step of a reconcile leaves alone.
LEMMA ReconcileFrame ==
    ASSUME OperatorInv, NEW p \in Pods, UNCHANGED <<byo, podVars, cache>>,
           rec' \in [Pods -> Rec], queued' \subseteq Pods, \A q \in Pods \ {p} : rec'[q] = rec[q],
           rec'[p].at # "none" => Runs(p) /\ rec'[p].user \in User,
           rec'[p].at \in {"decide", "upsert", "status", "ready"} => rec'[p].pw # 0,
           user' \in User, secret' \in Secret, fresh' \in Nat \ {0}, rows' \in [Names -> Row],
           budget' \in [Kinds -> Nat]
    PROVE  OperatorInv'
<1>1. TypeOK'
  BY DEF OperatorInv, TypeOK, podVars
<1>2. Working'
  BY DEF OperatorInv, Working, Runs, podVars
<1> QED
  BY <1>1, <1>2 DEF OperatorInv

LEMMA AnswerType ==
    ASSUME OperatorInv, NEW ok \in BOOLEAN, Answer(ok)
    PROVE  budget' \in [Kinds -> Nat]
  BY SpendType DEF OperatorInv, TypeOK, Answer, Kinds

\* The step ends the reconcile or goes on with the same User and password.
LEMMA GoesOn ==
    ASSUME OperatorInv, NEW p \in Pods, rec[p].at # "none",
           NEW at \in {"secret", "reget", "upsert", "status", "ready", "unfinalizer"},
           at \in {"upsert", "status", "ready"} => rec[p].at \in {"decide", "upsert"},
           Retry(p) \/ Return(p) \/ GoTo(p, at),
           UNCHANGED <<byo, podVars, cache>>,
           user' \in User, secret' \in Secret, fresh' \in Nat \ {0}, rows' \in [Names -> Row],
           budget' \in [Kinds -> Nat]
    PROVE  OperatorInv'
<1>1. /\ rec' \in [Pods -> Rec] /\ queued' \subseteq Pods
      /\ \A q \in Pods \ {p} : rec'[q] = rec[q]
      /\ \/ rec'[p] = NoRec
         \/ rec'[p].at = at /\ rec'[p].user = rec[p].user /\ rec'[p].pw = rec[p].pw
  BY RecTypes DEF OperatorInv
<1>2. rec[p].user \in User /\ Runs(p)
  BY DEF OperatorInv, Working
<1>3. rec'[p].at # "none" => Runs(p) /\ rec'[p].user \in User
  BY <1>1, <1>2 DEF NoRec
<1>4. rec'[p].at \in {"decide", "upsert", "status", "ready"} => rec'[p].pw # 0
  BY <1>1 DEF NoRec, OperatorInv, Working
<1> QED
  BY <1>1, <1>3, <1>4, ReconcileFrame

\* resolveCredentialSecret has read a password.
LEMMA Resolved ==
    ASSUME OperatorInv, NEW p \in Pods, rec[p].at # "none", cache[p].secret.pw # 0,
           rec' = [rec EXCEPT ![p].at = "decide", ![p].pw = cache[p].secret.pw],
           UNCHANGED <<byo, podVars, cache, queued, user, secret, fresh, rows, budget>>
    PROVE  /\ OperatorInv'
           /\ rec'[p].at = "decide" /\ rec'[p].user = rec[p].user
           /\ \A q \in Pods \ {p} : rec'[q] = rec[q]
<1> DEFINE c == cache[p].secret.pw
<1>1. rec \in [Pods -> Rec] /\ rec[p] \in Rec /\ c \in Nat
  BY DEF OperatorInv, TypeOK, Secret
<1>2. rec' = [rec EXCEPT ![p] = [rec[p] EXCEPT !.at = "decide", !.pw = c]]
  BY <1>1
<1> HIDE DEF c
<1>3. /\ [rec[p] EXCEPT !.at = "decide", !.pw = c] \in Rec
      /\ [rec[p] EXCEPT !.at = "decide", !.pw = c].pw = c
      /\ [rec[p] EXCEPT !.at = "decide", !.pw = c].at = "decide"
      /\ [rec[p] EXCEPT !.at = "decide", !.pw = c].user = rec[p].user
  BY <1>1 DEF Rec
<1>4. /\ rec' \in [Pods -> Rec] /\ \A q \in Pods \ {p} : rec'[q] = rec[q]
      /\ rec'[p].pw = c /\ rec'[p].at = "decide" /\ rec'[p].user = rec[p].user
  BY <1>1, <1>2, <1>3
<1>5. rec[p].user \in User /\ Runs(p) /\ queued' \subseteq Pods
  BY DEF OperatorInv, Working, TypeOK
<1>6. user' \in User /\ secret' \in Secret /\ fresh' \in Nat \ {0} /\ rows' \in [Names -> Row] /\ budget' \in [Kinds -> Nat]
  BY DEF OperatorInv, TypeOK
<1>7. OperatorInv'
  BY <1>4, <1>5, <1>6, ReconcileFrame DEF c
<1> QED
  BY <1>4, <1>7

LEMMA ReconcileTypes ==
    ASSUME OperatorInv, NEW p \in Pods, ReconcileStep(p)
    PROVE  OperatorInv'
<1>0. /\ user \in User /\ secret \in Secret /\ fresh \in Nat \ {0} /\ rows \in [Names -> Row]
      /\ budget \in [Kinds -> Nat] /\ queued \subseteq Pods /\ rec \in [Pods -> Rec] /\ NoRec \in Rec
      /\ NoRec.at = "none"
  BY DEF OperatorInv, TypeOK, NoRec, Rec
<1>1. rec[p].at # "none" => Snapshot(p) \in User /\ Runs(p)
  BY DEF OperatorInv, Working, Snapshot
<1>2. ASSUME rec[p].at # "none", ReportError(Snapshot(p)) PROVE user' \in User
  BY <1>1, <1>2, ReportErrorType DEF OperatorInv
<1>3. \A n : [rows EXCEPT ![n] = None] \in [Names -> Row]
  BY <1>0 DEF Row
<1>4. CASE Reconcile(p)
  <2> DEFINE s == cache[p].user
  <2> DEFINE r == [at |-> Branch(s), user |-> s, pw |-> 0]
  <2>1. s \in User
    BY <1>4 DEF Reconcile, OperatorInv, Working
  <2>2. Branch(s) \in {"none", "delete", "finalizer", "rename", "secret"}
    BY <2>1 DEF Branch, User
  <2>3. r \in Rec
    BY <2>1, <2>2 DEF Rec
  <2>4. rec' = [rec EXCEPT ![p] = IF Branch(s) = "none" THEN NoRec ELSE r]
    BY <1>4 DEF Reconcile
  <2>5. /\ rec' \in [Pods -> Rec] /\ \A q \in Pods \ {p} : rec'[q] = rec[q]
        /\ rec'[p] \in {NoRec, r}
    BY <1>0, <2>3, <2>4
  <2>6. /\ rec'[p].at # "none" => rec'[p].user \in User
        /\ rec'[p].at \notin {"decide", "upsert", "status", "ready"}
    BY <1>0, <2>1, <2>2, <2>5
  <2> HIDE DEF s, r
  <2> QED
    BY <1>0, <1>4, <2>5, <2>6, ReconcileFrame DEF Reconcile, clusterVars
<1>5. CASE AddFinalizer(p)
  <2>1. [user EXCEPT !.fin = TRUE] \in User
    BY <1>0 DEF User
  <2>2. user' \in User
    BY <1>0, <1>5, <2>1, PutType DEF AddFinalizer
  <2> QED
    BY <1>0, <1>5, <2>2, GoesOn DEF AddFinalizer
<1>6. CASE ResolveBYO(p)
  <2>1. CASE cache[p].secret.pw = 0
    <3>1. user' \in User
      BY <1>2, <1>6, <2>1 DEF ResolveBYO, SecretError
    <3> QED
      BY <1>0, <1>6, <2>1, <3>1, GoesOn DEF ResolveBYO, SecretError
  <2>2. CASE cache[p].secret.pw # 0
    BY <1>6, <2>2, Resolved DEF ResolveBYO
  <2> QED
    BY <2>1, <2>2
<1>7. CASE CreateOrUpdate(p)
  <2> DEFINE cached == cache[p].secret
             want   == MutateFn(p, cached)
  <2>1. Snapshot(p).name \in Names /\ cached \in Secret
    BY <1>1, <1>7 DEF CreateOrUpdate, User, OperatorInv, TypeOK
  <2>2. want \in Secret
    BY <1>0, <2>1 DEF MutateFn, Secret
  <2>3. CASE want # cached /\ cached # secret
    <3>1. SecretError(p) /\ UNCHANGED <<byo, rows, podVars, cache, budget>>
      BY <1>7, <2>3 DEF CreateOrUpdate
    <3>2. user' \in User
      BY <1>2, <1>7, <3>1 DEF CreateOrUpdate, SecretError
    <3> QED
      BY <1>0, <1>7, <3>1, <3>2, GoesOn DEF CreateOrUpdate, SecretError
  <2>4. CASE ~(want # cached /\ cached # secret)
    <3>1. /\ secret' \in {secret, want} /\ fresh' \in {fresh, fresh + 1}
          /\ GoTo(p, "reget") /\ UNCHANGED user /\ UNCHANGED <<byo, rows, podVars, cache, budget>>
      BY <1>7, <2>4 DEF CreateOrUpdate
    <3>2. secret' \in Secret /\ fresh' \in Nat \ {0}
      BY <1>0, <2>2, <3>1
    <3> QED
      BY <1>0, <1>7, <3>1, <3>2, GoesOn DEF CreateOrUpdate
  <2> QED
    BY <2>3, <2>4
<1>8. CASE RegetSecret(p)
  <2>1. CASE cache[p].secret.pw = 0
    <3>1. user' \in User
      BY <1>2, <1>8, <2>1 DEF RegetSecret, SecretError
    <3> QED
      BY <1>0, <1>8, <2>1, <3>1, GoesOn DEF RegetSecret, SecretError
  <2>2. CASE cache[p].secret.pw # 0
    BY <1>8, <2>2, Resolved DEF RegetSecret
  <2> QED
    BY <2>1, <2>2
<1>9. CASE Decide(p)
  <2>1. GoTo(p, "ready") \/ GoTo(p, "upsert")
    BY <1>9 DEF Decide
  <2> QED
    BY <1>0, <1>9, <2>1, GoesOn DEF Decide, clusterVars
<1>10. CASE CallFails(p)
  <2>1. user' \in User
    BY <1>0, <1>2, <1>10 DEF CallFails
  <2>2. budget' \in [Kinds -> Nat]
    BY <1>0, <1>10, SpendType DEF CallFails, Kinds
  <2> QED
    BY <1>0, <1>10, <2>1, <2>2, GoesOn DEF CallFails
<1>11. ASSUME NEW ok \in BOOLEAN, DeleteOldRow(p, ok) PROVE OperatorInv'
  <2>1. budget' \in [Kinds -> Nat] /\ rows' \in [Names -> Row]
    BY <1>3, <1>11, AnswerType DEF DeleteOldRow
  <2>2. user' \in User
    BY <1>0, <1>2, <1>11 DEF DeleteOldRow
  <2> QED
    BY <1>0, <1>11, <2>1, <2>2, GoesOn DEF DeleteOldRow
<1>12. ASSUME NEW ok \in BOOLEAN, Upsert(p, ok) PROVE OperatorInv'
  <2>1. [pw |-> rec[p].pw, cost |-> cost[p]] \in Row
    BY <1>0, <1>12 DEF Upsert, OperatorInv, Working, TypeOK, Rec, Row
  <2>2. budget' \in [Kinds -> Nat] /\ rows' \in [Names -> Row]
    BY <1>0, <1>12, <2>1, AnswerType DEF Upsert
  <2>3. user' \in User
    BY <1>0, <1>2, <1>12 DEF Upsert
  <2> QED
    BY <1>0, <1>12, <2>2, <2>3, GoesOn DEF Upsert
<1>13. ASSUME NEW ok \in BOOLEAN, PatchStatus(p, ok) PROVE OperatorInv'
  <2> DEFINE s == Snapshot(p)
             h == IF rec[p].at = "status" /\ s.obsHash # rec[p].pw THEN rec[p].pw ELSE user.obsHash
             m == IF rec[p].at = "status" /\ s.obsName # s.name THEN s.name ELSE user.obsName
             d == ReadyPatch(s, TRUE)
  <2>1. Put(IF ~user.exists THEN user ELSE [user EXCEPT !.obsHash = h, !.obsName = m, !.ready = d])
    BY <1>13 DEF PatchStatus
  <2>2. h \in Nat /\ m \in Names \cup {None} /\ d \in [ok : BOOLEAN, gen : Nat]
    <3>1. s \in User
      BY <1>1, <1>13 DEF PatchStatus
    <3>2. rec[p].pw \in Nat /\ user.obsHash \in Nat
      BY <1>0 DEF Rec, User
    <3>3. s.name \in Names /\ user.obsName \in Names \cup {None}
      BY <1>0, <3>1 DEF User
    <3> QED
      BY <1>0, <3>1, <3>2, <3>3, ReadyPatchType
  <2> HIDE DEF h, m, d
  <2>3. [user EXCEPT !.obsHash = h, !.obsName = m, !.ready = d] \in User
    BY <1>0, <2>2 DEF User
  <2>4. user' \in User
    BY <1>0, <2>1, <2>3, PutType
  <2>5. budget' \in [Kinds -> Nat]
    BY <1>13, AnswerType DEF PatchStatus
  <2> QED
    BY <1>0, <1>13, <2>4, <2>5, GoesOn DEF PatchStatus
<1>14. ASSUME NEW ok \in BOOLEAN, DeleteRow(p, ok) PROVE OperatorInv'
  <2>1. budget' \in [Kinds -> Nat] /\ rows' \in [Names -> Row]
    BY <1>3, <1>14, AnswerType DEF DeleteRow
  <2> QED
    BY <1>0, <1>14, <2>1, GoesOn DEF DeleteRow, clusterVars
<1>15. ASSUME NEW ok \in BOOLEAN, RemoveFinalizer(p, ok) PROVE OperatorInv'
  <2> DEFINE e == ~user.deleting
  <2>1. [user EXCEPT !.fin = FALSE, !.exists = e] \in User
    BY <1>0 DEF User
  <2>2. user' \in User
    BY <1>0, <1>15, <2>1, PutType DEF RemoveFinalizer
  <2>3. budget' \in [Kinds -> Nat]
    BY <1>15, AnswerType DEF RemoveFinalizer
  <2> QED
    BY <1>0, <1>15, <2>2, <2>3, GoesOn DEF RemoveFinalizer
<1> QED
  BY <1>4, <1>5, <1>6, <1>7, <1>8, <1>9, <1>10, <1>11, <1>12, <1>13, <1>14, <1>15 DEF ReconcileStep

LEMMA OperatorNext == OperatorInv /\ [ClusterNext]_cvars => OperatorInv'
<1> SUFFICES ASSUME OperatorInv, [ClusterNext]_cvars PROVE OperatorInv'
  OBVIOUS
<1>1. CASE UNCHANGED vars
  <2>1. TypeOK'
    BY <1>1 DEF OperatorInv, vars, clusterVars, podVars, workVars, TypeOK
  <2>2. Working'
    BY <1>1 DEF OperatorInv, vars, podVars, workVars, Working, Runs
  <2> QED
    BY <2>1, <2>2 DEF OperatorInv
<1> QED
  BY <1>1, OperatorSteps, EditTypes, ManagerTypes, ReconcileTypes

\* The state of the operator and of the resources it works on has its type.
THEOREM OperatorTypeCorrect == ClusterSpec => []TypeOK
<1> QED
  BY OperatorInit, OperatorNext, PTL DEF ClusterSpec, OperatorInv

\* Only an edit by a person takes or changes a password that is there.
LEMMA PasswordStep ==
    ASSUME OperatorInv, [ClusterNext]_cvars, secret.pw # 0, secret'.pw # secret.pw
    PROVE  Rotate \/ \E pw \in 1..fresh : Reuse(pw)
<1>1. CASE UNCHANGED vars
  BY <1>1 DEF vars, clusterVars
<1>2. CASE Edit
  <2>1. ASSUME NEW pw \in 1..(fresh - 1), Reuse(pw) PROVE pw \in 1..fresh
    BY DEF OperatorInv, TypeOK
  <2>2. (Delete \/ \E n \in Names : Rename(n)) => secret' = secret
    BY DEF Delete, Rename
  <2> QED
    BY <1>2, <2>1, <2>2 DEF Edit
<1>3. ASSUME NEW p \in Pods,
             \/ Lead(p) \/ LoseLease(p) \/ ManagerExits(p) \/ SyncUser(p) \/ SyncSecret(p)
             \/ \E c \in Costs : Restart(p, c)
      PROVE  secret' = secret
  BY <1>3 DEF Lead, LoseLease, ManagerExits, SyncUser, SyncSecret, Restart, clusterVars
<1>4. ASSUME NEW p \in Pods, ReconcileStep(p) PROVE FALSE
  <2>1. CASE CreateOrUpdate(p)
    <3> DEFINE cached == cache[p].secret
               want   == MutateFn(p, cached)
    <3>1. secret' = want /\ cached = secret
      BY <2>1 DEF CreateOrUpdate, SecretError
    <3> QED
      BY <3>1 DEF MutateFn
  <2>2. ~CreateOrUpdate(p) => secret' = secret
    BY <1>4 DEF ReconcileStep, Reconcile, AddFinalizer, ResolveBYO, SecretError, RegetSecret, Decide, CallFails,
                DeleteOldRow, Upsert, PatchStatus, DeleteRow, RemoveFinalizer, clusterVars
  <2> QED
    BY <2>1, <2>2
<1> QED
  BY <1>1, <1>2, <1>3, <1>4, OperatorSteps

\* The operator never replaces a password: whoever creates the Secret decides, for any
\* number of managers with caches of any age.
THEOREM PasswordAlwaysStable == ClusterSpec => PasswordStable
<1>1. OperatorInv /\ [ClusterNext]_cvars =>
        [secret.pw # 0 /\ secret'.pw # secret.pw => Rotate \/ \E pw \in 1..fresh : Reuse(pw)]_vars
  BY PasswordStep
<1> QED
  BY <1>1, OperatorInit, OperatorNext, PTL DEF ClusterSpec, PasswordStable

-----------------------------------------------------------------------------
(* What a step does to the User: nothing but news, a new generation, the   *)
(* end, or the patch of a reconcile that ends with it.                     *)

SameUser ==
    /\ user'.exists = user.exists /\ user'.deleting = user.deleting /\ user'.gen = user.gen
    /\ user'.name = user.name /\ user'.obsName = user.obsName /\ user'.ready = user.ready

NewName ==
    /\ Live /\ user'.gen = user.gen + 1 /\ user'.obsName = user.obsName /\ user'.ready = user.ready
    /\ budget.rename > 0 /\ budget'.rename = budget.rename - 1 /\ budget'.lose = budget.lose
    /\ UNCHANGED <<mgr, lease, cache, rec, rows>>

Ends ==
    /\ ~Live' /\ user'.gen = user.gen /\ user'.name = user.name
    /\ user'.obsName = user.obsName /\ user'.ready = user.ready

Patches(p) ==
    LET s == rec[p].user IN
    /\ user'.exists = user.exists /\ user'.deleting = user.deleting
    /\ user'.gen = user.gen /\ user'.name = user.name
    /\ user'.obsName \in {user.obsName, s.name}
    /\ \/ user'.ready = user.ready
       \/ user'.ready = [ok |-> FALSE, gen |-> s.gen]
       \/ rec[p].at \in {"ready", "status"} /\ user'.ready = [ok |-> TRUE, gen |-> s.gen] /\ rows' = rows
    /\ rec[p].at # "none" /\ rec'[p].at = "none" /\ mgr' = mgr /\ lease' = lease /\ cache' = cache
    /\ \A q \in Pods \ {p} : rec'[q] = rec[q]

Effect == SameUser \/ NewName \/ Ends \/ \E p \in Pods : Patches(p)

LEMMA PutFields ==
    ASSUME NEW u \in User, user \in User, Put(u)
    PROVE  /\ user'.exists = u.exists /\ user'.deleting = u.deleting /\ user'.gen = u.gen /\ user'.name = u.name
           /\ user'.obsName = u.obsName /\ user'.ready = u.ready
<1>1. user' \in {u, [u EXCEPT !.news = {p \in Pods : Runs(p)}]}
  BY DEF Put
<1> QED
  BY <1>1 DEF User

LEMMA SeenSame ==
    ASSUME user \in User, NEW p \in Pods, Seen(p)
    PROVE  SameUser
  BY DEF Seen, User, SameUser

\* The status patch of an error path ends the reconcile.
LEMMA ReportErrorPatches ==
    ASSUME OperatorInv, NEW p \in Pods, rec[p].at # "none", ReportError(Snapshot(p)), Retry(p),
           UNCHANGED <<mgr, lease, cache>>
    PROVE  Patches(p)
<1> DEFINE s == rec[p].user
           d == ReadyPatch(s, FALSE)
<1>1. user \in User /\ s \in User
  BY DEF OperatorInv, TypeOK, Working
<1>2. /\ rec'[p].at = "none" /\ \A q \in Pods \ {p} : rec'[q] = rec[q]
  BY DEF Retry, NoRec, OperatorInv, TypeOK
<1>3. d \in [ok : BOOLEAN, gen : Nat] /\ d \in {user.ready, [ok |-> FALSE, gen |-> s.gen]}
  <2>1. d \in [ok : BOOLEAN, gen : Nat]
    BY <1>1, ReadyPatchType
  <2> QED
    BY <2>1 DEF ReadyPatch
<1> HIDE DEF d
<1>4. CASE UNCHANGED user
  BY <1>2, <1>4 DEF Patches
<1>5. CASE Put([user EXCEPT !.ready = d])
  <2>1. [user EXCEPT !.ready = d] \in User
    BY <1>1, <1>3 DEF User
  <2>2. /\ user'.exists = user.exists /\ user'.deleting = user.deleting /\ user'.gen = user.gen
        /\ user'.name = user.name /\ user'.obsName = user.obsName /\ user'.ready = d
    BY <1>1, <1>5, <2>1, PutFields DEF User
  <2> QED
    BY <1>2, <1>3, <2>2 DEF Patches
<1> QED
  BY <1>4, <1>5 DEF ReportError, Snapshot, d

LEMMA EditEffect == OperatorInv /\ Edit => Effect
<1> SUFFICES ASSUME OperatorInv, Edit PROVE Effect
  OBVIOUS
<1>0. user \in User /\ user.gen \in Nat /\ budget \in [Kinds -> Nat]
  BY DEF OperatorInv, TypeOK, User
<1>1. CASE Rotate \/ \E pw \in 1..(fresh - 1) : Reuse(pw)
  BY <1>1 DEF Rotate, Reuse, Effect, SameUser
<1>2. CASE Delete
  <2> DEFINE u == IF user.fin THEN [user EXCEPT !.deleting = TRUE] ELSE [user EXCEPT !.exists = FALSE]
  <2>1. Put(u)
    BY <1>2 DEF Delete
  <2>2. /\ u \in User /\ u.gen = user.gen /\ u.name = user.name /\ u.obsName = user.obsName /\ u.ready = user.ready
        /\ ~(u.exists /\ ~u.deleting)
    BY <1>0 DEF User
  <2> HIDE DEF u
  <2> QED
    BY <1>0, <2>1, <2>2, PutFields DEF Effect, Ends, Live
<1>3. ASSUME NEW n \in Names, Rename(n) PROVE Effect
  <2> DEFINE g == user.gen + 1
             u == [user EXCEPT !.name = n, !.gen = g]
  <2>1. Put(u) /\ Spend("rename") /\ Live /\ UNCHANGED <<mgr, lease, cache, rec, rows>>
    BY <1>3 DEF Rename, EditIs, Live, podVars, workVars
  <2>2. g \in Nat
    BY <1>0
  <2>3. /\ u \in User /\ u.gen = g /\ u.obsName = user.obsName /\ u.ready = user.ready
    <3> HIDE DEF g
    <3> QED
      BY <1>0, <2>2 DEF User
  <2>4. budget.rename > 0 /\ budget'.rename = budget.rename - 1 /\ budget'.lose = budget.lose
    BY <1>0, <2>1 DEF Spend, Kinds
  <2> HIDE DEF u
  <2> QED
    BY <1>0, <2>1, <2>3, <2>4, PutFields DEF Effect, NewName
<1> QED
  BY <1>1, <1>2, <1>3 DEF Edit

LEMMA ReconcileEffect ==
    ASSUME OperatorInv, NEW p \in Pods, ReconcileStep(p)
    PROVE  Effect
<1>0. user \in User /\ rec \in [Pods -> Rec]
  BY DEF OperatorInv, TypeOK
<1>1. ASSUME rec[p].at # "none", ReportError(Snapshot(p)), Retry(p), UNCHANGED <<podVars, cache>> PROVE Effect
  BY <1>1, ReportErrorPatches DEF Effect, podVars
<1>2. CASE Reconcile(p) \/ Decide(p) \/ \E ok \in BOOLEAN : DeleteRow(p, ok)
  BY <1>2 DEF Reconcile, Decide, DeleteRow, clusterVars, Effect, SameUser
<1>3. CASE ResolveBYO(p) \/ CreateOrUpdate(p) \/ RegetSecret(p) \/ CallFails(p)
  <2>1. CASE UNCHANGED user
    BY <2>1 DEF Effect, SameUser
  <2>2. CASE ~UNCHANGED user
    BY <1>1, <1>3, <2>2 DEF ResolveBYO, CreateOrUpdate, RegetSecret, CallFails, SecretError
  <2> QED
    BY <2>1, <2>2
<1>4. ASSUME NEW ok \in BOOLEAN, DeleteOldRow(p, ok) \/ Upsert(p, ok) PROVE Effect
  <2>1. CASE UNCHANGED user
    BY <2>1 DEF Effect, SameUser
  <2>2. CASE ~UNCHANGED user
    BY <1>1, <1>4, <2>2 DEF DeleteOldRow, Upsert
  <2> QED
    BY <2>1, <2>2
<1>5. CASE AddFinalizer(p)
  <2> DEFINE u == [user EXCEPT !.fin = TRUE]
  <2>1. Put(u) \/ Put(user)
    BY <1>5 DEF AddFinalizer
  <2>2. /\ u \in User /\ u.gen = user.gen /\ u.name = user.name /\ u.obsName = user.obsName /\ u.ready = user.ready
        /\ u.exists = user.exists /\ u.deleting = user.deleting
    BY <1>0 DEF User
  <2> HIDE DEF u
  <2> QED
    BY <1>0, <2>1, <2>2, PutFields DEF Effect, SameUser
<1>6. ASSUME NEW ok \in BOOLEAN, RemoveFinalizer(p, ok) PROVE Effect
  <2> DEFINE u == [user EXCEPT !.fin = FALSE, !.exists = ~user.deleting]
  <2>1. (user.exists /\ Put(u)) \/ Put(user)
    BY <1>6 DEF RemoveFinalizer
  <2>2. /\ u \in User /\ u.gen = user.gen /\ u.name = user.name /\ u.obsName = user.obsName /\ u.ready = user.ready
        /\ u.exists = ~user.deleting /\ u.deleting = user.deleting
    BY <1>0 DEF User
  <2>3. user.deleting \in BOOLEAN /\ user.exists \in BOOLEAN
    BY <1>0 DEF User
  <2> HIDE DEF u
  <2> QED
    BY <1>0, <2>1, <2>2, <2>3, PutFields DEF Effect, SameUser, Ends, Live
<1>7. ASSUME NEW ok \in BOOLEAN, PatchStatus(p, ok) PROVE Effect
  <2> DEFINE s == rec[p].user
             h == IF rec[p].at = "status" /\ s.obsHash # rec[p].pw THEN rec[p].pw ELSE user.obsHash
             m == IF rec[p].at = "status" /\ s.obsName # s.name THEN s.name ELSE user.obsName
             d == ReadyPatch(s, TRUE)
             u == [user EXCEPT !.obsHash = h, !.obsName = m, !.ready = d]
  <2>1. /\ Put(u) \/ Put(user)
        /\ rec[p].at \in {"ready", "status"} /\ rows' = rows /\ UNCHANGED <<mgr, lease, cache>>
    BY <1>7 DEF PatchStatus, Snapshot, podVars
  <2>2. s \in User
    BY <2>1 DEF OperatorInv, Working
  <2>3. h \in Nat /\ m \in Names \cup {None} /\ d \in [ok : BOOLEAN, gen : Nat]
    <3>1. rec[p].pw \in Nat /\ user.obsHash \in Nat
      BY <1>0 DEF Rec, User
    <3>2. s.name \in Names /\ user.obsName \in Names \cup {None}
      BY <1>0, <2>2 DEF User
    <3> QED
      BY <1>0, <2>2, <3>1, <3>2, ReadyPatchType
  <2>4. m \in {user.obsName, s.name} /\ d \in {user.ready, [ok |-> TRUE, gen |-> s.gen]}
    BY DEF ReadyPatch
  <2> HIDE DEF h, m, d
  <2>5. /\ u \in User /\ u.gen = user.gen /\ u.name = user.name /\ u.obsName = m /\ u.ready = d
        /\ u.exists = user.exists /\ u.deleting = user.deleting
    BY <1>0, <2>3 DEF User
  <2>6. rec'[p].at = "none" /\ \A q \in Pods \ {p} : rec'[q] = rec[q]
    BY <1>0, <1>7 DEF PatchStatus, Retry, Return, NoRec
  <2> HIDE DEF u
  <2>7. /\ user'.exists = user.exists /\ user'.deleting = user.deleting
        /\ user'.gen = user.gen /\ user'.name = user.name
        /\ user'.obsName \in {user.obsName, m} /\ user'.ready \in {user.ready, d}
    BY <1>0, <2>1, <2>5, PutFields
  <2>8. Patches(p)
    BY <2>1, <2>4, <2>6, <2>7 DEF Patches
  <2> QED
    BY <2>8 DEF Effect
<1> QED
  BY <1>2, <1>3, <1>4, <1>5, <1>6, <1>7 DEF ReconcileStep

LEMMA StepEffect == OperatorInv /\ [ClusterNext]_cvars => Effect
<1> SUFFICES ASSUME OperatorInv, [ClusterNext]_cvars PROVE Effect
  OBVIOUS
<1>1. ASSUME NEW p \in Pods,
             \/ Lead(p) \/ LoseLease(p) \/ ManagerExits(p) \/ SyncUser(p) \/ SyncSecret(p)
             \/ \E c \in Costs : Restart(p, c)
      PROVE  Effect
  <2>1. UNCHANGED user \/ Seen(p)
    BY <1>1 DEF Lead, LoseLease, ManagerExits, SyncUser, SyncSecret, Restart, clusterVars
  <2>2. SameUser
    BY <2>1, SeenSame DEF OperatorInv, TypeOK, SameUser
  <2> QED
    BY <2>2 DEF Effect
<1>2. CASE UNCHANGED vars
  BY <1>2 DEF vars, clusterVars, Effect, SameUser
<1> QED
  BY <1>1, <1>2, OperatorSteps, EditEffect, ReconcileEffect

\* What a step does to the reconcile of one pod.
LEMMA RecEffect ==
    ASSUME OperatorInv, [ClusterNext]_cvars, NEW q \in Pods, rec'[q].at # "none"
    PROVE  \/ rec'[q] = rec[q]
           \/ /\ Runs(q) /\ rec'[q].user = cache[q].user /\ rec'[q].at = Branch(cache[q].user)
              /\ UNCHANGED <<user, mgr, lease, cache>>
           \/ /\ rec[q].at # "none" /\ rec'[q].user = rec[q].user
              /\ UNCHANGED <<user, mgr, lease, cache>>
              /\ \/ rec'[q].at \in {"secret", "reget", "decide", "upsert"}
                 \/ rec'[q].at \in {"ready", "status"} /\ rows'[rec[q].user.name] # None
                 \/ rec'[q].at = "unfinalizer" /\ rec[q].at = "delete"
<1> DEFINE Goal == \/ rec'[q] = rec[q]
                   \/ /\ Runs(q) /\ rec'[q].user = cache[q].user /\ rec'[q].at = Branch(cache[q].user)
                      /\ UNCHANGED <<user, mgr, lease, cache>>
                   \/ /\ rec[q].at # "none" /\ rec'[q].user = rec[q].user
                      /\ UNCHANGED <<user, mgr, lease, cache>>
                      /\ \/ rec'[q].at \in {"secret", "reget", "decide", "upsert"}
                         \/ rec'[q].at \in {"ready", "status"} /\ rows'[rec[q].user.name] # None
                         \/ rec'[q].at = "unfinalizer" /\ rec[q].at = "delete"
<1>0. rec \in [Pods -> Rec] /\ NoRec.at = "none" /\ rows \in [Names -> Row] /\ cost \in [Pods -> Costs]
  BY DEF OperatorInv, TypeOK, NoRec
<1>1. rec[q].at # "none" => rec[q].user.name \in Names /\ rec[q].pw \in Nat
  BY <1>0 DEF OperatorInv, Working, User, Rec
<1>2. CASE UNCHANGED vars \/ Edit
  BY <1>2 DEF vars, workVars, Edit, Rotate, Reuse, Delete, Rename
<1>3. ASSUME NEW p \in Pods,
             \/ Lead(p) \/ LoseLease(p) \/ ManagerExits(p) \/ SyncUser(p) \/ SyncSecret(p)
             \/ \E c \in Costs : Restart(p, c)
      PROVE  Goal
  <2>1. rec' = rec \/ rec' = [rec EXCEPT ![p] = NoRec]
    BY <1>3 DEF Lead, LoseLease, ManagerExits, SyncUser, SyncSecret, Restart, workVars
  <2> QED
    BY <1>0, <2>1
<1>4. ASSUME NEW p \in Pods, p # q, ReconcileStep(p) PROVE Goal
  <2>1. rec'[q] = rec[q]
    BY <1>0, <1>4 DEF ReconcileStep, Reconcile, AddFinalizer, ResolveBYO, CreateOrUpdate, RegetSecret, Decide,
          CallFails, DeleteOldRow, Upsert, PatchStatus, DeleteRow, RemoveFinalizer, SecretError, Retry, Return, GoTo
  <2> QED
    BY <2>1
<1>5. CASE ReconcileStep(q)
  <2>0. ~Retry(q) /\ ~Return(q)
    BY <1>0 DEF Retry, Return
  <2>1. ASSUME NEW x, GoTo(q, x) PROVE rec'[q].at = x /\ rec'[q].user = rec[q].user
    BY <1>0, <2>1 DEF GoTo, Rec
  <2>2. CASE Reconcile(q)
    <3> DEFINE s == cache[q].user
    <3>1. rec'[q] = [at |-> Branch(s), user |-> s, pw |-> 0]
      BY <1>0, <2>2 DEF Reconcile
    <3> HIDE DEF s
    <3>2. rec'[q].at = Branch(s) /\ rec'[q].user = s
      BY <3>1
    <3> QED
      BY <2>2, <3>2 DEF Reconcile, clusterVars, podVars, s
  <2>3. CASE ResolveBYO(q) \/ RegetSecret(q)
    <3>1. /\ cache[q].secret.pw # 0 /\ rec[q].at # "none"
          /\ rec' = [rec EXCEPT ![q].at = "decide", ![q].pw = cache[q].secret.pw]
          /\ UNCHANGED <<byo, podVars, cache, queued, user, secret, fresh, rows, budget>>
      BY <2>0, <2>3 DEF ResolveBYO, RegetSecret, SecretError
    <3> QED
      BY <3>1, Resolved DEF podVars
  <2>4. CASE CreateOrUpdate(q)
    <3>1. rec[q].at # "none" /\ GoTo(q, "reget") /\ UNCHANGED user /\ UNCHANGED <<mgr, lease, cache>>
      BY <2>0, <2>4 DEF CreateOrUpdate, SecretError, podVars
    <3> QED
      BY <2>1, <3>1
  <2>5. CASE Decide(q)
    <3>1. rec[q].at # "none" /\ UNCHANGED <<user, mgr, lease, cache, rows>>
      BY <2>5 DEF Decide, clusterVars, podVars
    <3>2. CASE GoTo(q, "upsert")
      BY <2>1, <3>1, <3>2
    <3>3. CASE ~GoTo(q, "upsert")
      <4>1. GoTo(q, "ready") /\ storedBcryptCost(rec[q].user.name) >= cost[q]
        BY <2>5, <3>3 DEF Decide, Snapshot
      <4>2. cost[q] \in Nat \ {0}
        BY <1>0, OperatorAssumption
      <4>3. rows[rec[q].user.name] # None
        BY <4>1, <4>2 DEF storedBcryptCost
      <4> QED
        BY <2>1, <3>1, <4>1, <4>3
    <3> QED
      BY <3>2, <3>3
  <2>6. ASSUME NEW ok \in BOOLEAN, DeleteOldRow(q, ok) PROVE Goal
    <3>1. rec[q].at # "none" /\ GoTo(q, "secret") /\ UNCHANGED user /\ UNCHANGED <<mgr, lease, cache>>
      BY <2>0, <2>6 DEF DeleteOldRow, podVars
    <3> QED
      BY <2>1, <3>1
  <2>7. ASSUME NEW ok \in BOOLEAN, Upsert(q, ok) PROVE Goal
    <3>1. rec[q].at # "none" /\ GoTo(q, "status") /\ UNCHANGED user /\ UNCHANGED <<mgr, lease, cache>>
      BY <2>0, <2>7 DEF Upsert, podVars
    <3> DEFINE r == [pw |-> rec[q].pw, cost |-> cost[q]]
    <3>2. r # None
      BY <1>0, <1>1, <3>1, OperatorAssumption
    <3>3. rows'[rec[q].user.name] = r
      BY <1>0, <1>1, <2>7, <3>1 DEF Upsert, Snapshot
    <3> HIDE DEF r
    <3> QED
      BY <2>1, <3>1, <3>2, <3>3
  <2>8. ASSUME NEW ok \in BOOLEAN, DeleteRow(q, ok) PROVE Goal
    <3>1. rec[q].at = "delete" /\ GoTo(q, "unfinalizer") /\ UNCHANGED <<user, mgr, lease, cache>>
      BY <2>0, <2>8 DEF DeleteRow, podVars, clusterVars
    <3> QED
      BY <2>1, <3>1
  <2>9. ~AddFinalizer(q) /\ ~CallFails(q) /\ \A ok \in BOOLEAN : ~PatchStatus(q, ok) /\ ~RemoveFinalizer(q, ok)
    BY <2>0 DEF AddFinalizer, CallFails, PatchStatus, RemoveFinalizer
  <2> QED
    BY <1>5, <2>2, <2>3, <2>4, <2>5, <2>6, <2>7, <2>8, <2>9 DEF ReconcileStep
<1> QED
  BY <1>2, <1>3, <1>4, <1>5, OperatorSteps

\* A manager that runs has the cache it had, or the latest.
LEMMA CacheEffect ==
    ASSUME OperatorInv, [ClusterNext]_cvars, NEW q \in Pods, mgr'[q] \in {"leader", "lost"}
    PROVE  \/ Runs(q) /\ cache'[q].user = cache[q].user
           \/ cache'[q].user = Latest /\ SameUser /\ rec' = rec
<1> DEFINE Goal == \/ Runs(q) /\ cache'[q].user = cache[q].user
                   \/ cache'[q].user = Latest /\ SameUser /\ rec' = rec
<1>0. /\ user \in User /\ cache \in [Pods -> [user : User \cup {None}, secret : Secret]]
      /\ mgr \in [Pods -> {"follower", "leader", "lost", "over"}]
  BY DEF OperatorInv, TypeOK
<1>1. CASE UNCHANGED <<mgr, cache>>
  BY <1>1 DEF Runs
<1>2. ASSUME NEW p \in Pods, Lead(p) PROVE Goal
  BY <1>0, <1>2 DEF Lead, Runs, clusterVars, SameUser
<1>3. ASSUME NEW p \in Pods, LoseLease(p) PROVE Goal
  <2>1. mgr[p] = "leader"
    BY <1>3 DEF LoseLease, OperatorInv, Working
  <2> QED
    BY <1>0, <1>3, <2>1 DEF LoseLease, Runs
<1>4. ASSUME NEW p \in Pods, ManagerExits(p) \/ \E c \in Costs : Restart(p, c) PROVE Goal
  BY <1>0, <1>4 DEF ManagerExits, Restart, Runs
<1>5. ASSUME NEW p \in Pods, SyncUser(p) PROVE Goal
  <2>1. SameUser
    BY <1>0, <1>5, SeenSame DEF SyncUser
  <2>2. UNCHANGED <<mgr, rec>> /\ cache' = [cache EXCEPT ![p] = [cache[p] EXCEPT !.user = Latest]]
    BY <1>5 DEF SyncUser, podVars
  <2> QED
    BY <1>0, <2>1, <2>2, CacheTypes DEF Runs, OperatorInv
<1>6. ASSUME NEW p \in Pods, SyncSecret(p) PROVE Goal
  <2>1. UNCHANGED mgr /\ cache' = [cache EXCEPT ![p] = [cache[p] EXCEPT !.secret = secret]]
    BY <1>6 DEF SyncSecret, podVars
  <2> QED
    BY <1>0, <2>1, CacheTypes DEF Runs, OperatorInv
<1>7. ASSUME NEW p \in Pods, ReconcileStep(p) PROVE UNCHANGED <<mgr, cache>>
  BY <1>7 DEF ReconcileStep, Reconcile, AddFinalizer, ResolveBYO, CreateOrUpdate, RegetSecret, Decide,
          CallFails, DeleteOldRow, Upsert, PatchStatus, DeleteRow, RemoveFinalizer, podVars
<1>8. ASSUME UNCHANGED vars \/ Edit PROVE UNCHANGED <<mgr, cache>>
  BY <1>8 DEF vars, podVars, Edit, Rotate, Reuse, Delete, Rename
<1> QED
  BY <1>1, <1>2, <1>3, <1>4, <1>5, <1>6, <1>7, <1>8, OperatorSteps

\* Who deletes a row.
LEMMA RowEffect ==
    ASSUME OperatorInv, [ClusterNext]_cvars, NEW n \in Names, rows[n] # None, rows'[n] = None
    PROVE  \E p \in Pods : \/ rec[p].at = "rename" /\ n = rec[p].user.obsName
                          \/ rec[p].at = "delete"
<1>0. rows \in [Names -> Row] /\ cost \in [Pods -> Costs] /\ rec \in [Pods -> Rec]
  BY DEF OperatorInv, TypeOK
<1>1. CASE rows' = rows
  BY <1>1
<1>2. ASSUME NEW p \in Pods, NEW ok \in BOOLEAN, DeleteOldRow(p, ok)
      PROVE  rec[p].at = "rename" /\ n = rec[p].user.obsName
  BY <1>0, <1>2 DEF DeleteOldRow, Snapshot
<1>3. ASSUME NEW p \in Pods, NEW ok \in BOOLEAN, DeleteRow(p, ok) PROVE rec[p].at = "delete"
  BY <1>3 DEF DeleteRow
<1>4. ASSUME NEW p \in Pods, NEW ok \in BOOLEAN, Upsert(p, ok) PROVE FALSE
  <2> DEFINE r == [pw |-> rec[p].pw, cost |-> cost[p]]
  <2>1. r # None
    <3>1. rec[p].pw \in Nat /\ cost[p] \in Costs
      BY <1>0 DEF Rec
    <3> QED
      BY <3>1, OperatorAssumption
  <2>2. rows' = [rows EXCEPT ![rec[p].user.name] = r]
    BY <1>4 DEF Upsert, Snapshot
  <2> HIDE DEF r
  <2> QED
    BY <1>0, <2>1, <2>2
<1>5. ASSUME NEW p \in Pods, ReconcileStep(p),
             \A ok \in BOOLEAN : ~DeleteOldRow(p, ok) /\ ~DeleteRow(p, ok) /\ ~Upsert(p, ok)
      PROVE  rows' = rows
  BY <1>5 DEF ReconcileStep, Reconcile, AddFinalizer, ResolveBYO, CreateOrUpdate, RegetSecret, Decide,
          CallFails, PatchStatus, RemoveFinalizer
<1>6. ASSUME UNCHANGED vars \/ Edit PROVE rows' = rows
  BY <1>6 DEF vars, Edit, Rotate, Reuse, Delete, Rename
<1>7. ASSUME NEW p \in Pods,
             \/ Lead(p) \/ LoseLease(p) \/ ManagerExits(p) \/ SyncUser(p) \/ SyncSecret(p)
             \/ \E c \in Costs : Restart(p, c)
      PROVE  rows' = rows
  BY <1>7 DEF Lead, LoseLease, ManagerExits, SyncUser, SyncSecret, Restart
<1> QED
  BY <1>1, <1>2, <1>3, <1>4, <1>5, <1>6, <1>7, OperatorSteps

\* A rename alone spends its bound, and the loss of the Lease alone spends that of losses.
LEMMA BudgetEffect ==
    ASSUME OperatorInv, [ClusterNext]_cvars
    PROVE  /\ budget'.rename = budget.rename \/ NewName
           /\ budget'.lose = budget.lose \/ budget.lose > 0
<1> DEFINE Goal == /\ budget'.rename = budget.rename \/ NewName
                   /\ budget'.lose = budget.lose \/ budget.lose > 0
<1>0. budget \in [Kinds -> Nat] /\ user \in User
  BY DEF OperatorInv, TypeOK
<1>1. ASSUME NEW k \in Kinds \ {"rename"}, Spend(k) PROVE Goal
  BY <1>0, <1>1 DEF Spend, Kinds
<1>2. ASSUME NEW n \in Names, Rename(n) PROVE Goal
  <2>1. Effect
    BY <1>2, EditEffect DEF Edit
  <2>2. user'.gen = user.gen + 1 /\ user.gen \in Nat /\ Live
    <3> DEFINE g == user.gen + 1
    <3>1. g \in Nat /\ user.gen \in Nat /\ Live /\ Put([user EXCEPT !.name = n, !.gen = g])
      BY <1>0, <1>2 DEF User, Rename, Live
    <3> HIDE DEF g
    <3>2. [user EXCEPT !.name = n, !.gen = g] \in User /\ [user EXCEPT !.name = n, !.gen = g].gen = g
      BY <1>0, <3>1, RenameType DEF User
    <3> QED
      BY <1>0, <3>1, <3>2, PutFields DEF g
  <2>3. NewName
    <3>1. user'.gen # user.gen
      BY <2>2
    <3>2. ~SameUser
      BY <3>1 DEF SameUser
    <3>3. ~Ends
      BY <3>1 DEF Ends
    <3>4. \A p \in Pods : ~Patches(p)
      BY <3>1 DEF Patches
    <3> QED
      BY <2>1, <3>2, <3>3, <3>4 DEF Effect
  <2> QED
    BY <2>3 DEF NewName
<1>3. CASE Rotate \/ Delete \/ \E pw \in 1..(fresh - 1) : Reuse(pw)
  BY <1>1, <1>3 DEF Rotate, Delete, Reuse, EditIs, Kinds
<1>4. ASSUME NEW p \in Pods,
             \/ Lead(p) \/ LoseLease(p) \/ ManagerExits(p) \/ SyncUser(p) \/ SyncSecret(p)
             \/ \E c \in Costs : Restart(p, c)
      PROVE  Goal
  BY <1>1, <1>4 DEF Lead, LoseLease, ManagerExits, SyncUser, SyncSecret, Restart, Kinds
<1>5. ASSUME NEW p \in Pods, ReconcileStep(p) PROVE Goal
  <2>1. budget' = budget \/ Spend("fail")
    BY <1>5 DEF ReconcileStep, Reconcile, AddFinalizer, ResolveBYO, CreateOrUpdate, RegetSecret, Decide,
          CallFails, DeleteOldRow, Upsert, PatchStatus, DeleteRow, RemoveFinalizer, Answer
  <2> QED
    BY <1>1, <2>1 DEF Kinds
<1>6. CASE UNCHANGED vars
  BY <1>6 DEF vars
<1> QED
  BY <1>2, <1>3, <1>4, <1>5, <1>6, OperatorSteps DEF Edit

-----------------------------------------------------------------------------
(* A User that says Ready can log in.                                      *)

LEMMA KnownStep ==
    ASSUME OperatorInv, [ClusterNext]_cvars, NEW s, s \in Known'
    PROVE  s \in Known \/ (s = Latest /\ SameUser)
<1>1. ASSUME NEW q \in Pods, mgr'[q] \in {"leader", "lost"}, s = cache'[q].user
      PROVE  s \in Known \/ (s = Latest /\ SameUser)
  <2>1. (Runs(q) /\ cache'[q].user = cache[q].user) \/ (cache'[q].user = Latest /\ SameUser)
    BY <1>1, CacheEffect
  <2>2. Runs(q) => cache[q].user \in Known
    BY DEF Known
  <2> QED
    BY <1>1, <2>1, <2>2
<1>2. ASSUME NEW q \in Pods, rec'[q].at # "none", s = rec'[q].user PROVE s \in Known
  <2>1. \/ rec[q].at # "none" /\ s = rec[q].user
        \/ Runs(q) /\ s = cache[q].user
    BY <1>2, RecEffect
  <2> QED
    BY <2>1 DEF Known
<1>3. \/ \E q \in Pods : mgr'[q] \in {"leader", "lost"} /\ s = cache'[q].user
      \/ \E q \in Pods : rec'[q].at # "none" /\ s = rec'[q].user
  <2>1. CASE s \in {cache'[p].user : p \in {q \in Pods : mgr'[q] \in {"leader", "lost"}}}
    BY <2>1 DEF Runs
  <2>2. CASE s \in {rec'[p].user : p \in {q \in Pods : rec'[q].at # "none"}}
    BY <2>2
  <2> QED
    BY <2>1, <2>2 DEF Known, Runs
<1> QED
  BY <1>1, <1>2, <1>3

\* A reader of a cache or a reconcile that is known has a User.
LEMMA KnownTypes ==
    ASSUME OperatorInv, NEW s \in Known
    PROVE  s \in User /\ s.gen \in Nat
<1>1. s \in User
  BY DEF Known, OperatorInv, Working
<1> QED
  BY <1>1 DEF User

LEMMA LatestFields ==
    ASSUME OperatorInv
    PROVE  /\ Latest.gen = user.gen /\ Latest.name = user.name /\ Latest.obsName = user.obsName
           /\ Latest.exists = user.exists /\ Latest.deleting = user.deleting
           /\ user.gen \in Nat /\ user.ready.gen \in Nat
<1>1. user \in User
  BY DEF OperatorInv, TypeOK
<1> QED
  BY <1>1 DEF Latest, User

\* A User that is gone, or going, does not come back.
LEMMA NoRevival == Effect => (Live' => Live)
<1> SUFFICES ASSUME Effect, Live' PROVE Live
  OBVIOUS
<1> QED
  BY DEF Effect, SameUser, NewName, Ends, Patches, Live

LEMMA EarlierStep ==
    ASSUME OperatorInv, ReadyInv, [ClusterNext]_cvars, NEW s, s \in Known'
    PROVE  Earlier(s)'
<1>1. Effect /\ (Live' => Live)
  BY StepEffect, NoRevival
<1>2. CASE s = Latest /\ SameUser
  BY <1>2, LatestFields DEF Earlier, SameUser, Live
<1>3. CASE s \in Known
  <2>1. Earlier(s) /\ s.gen \in Nat /\ user.gen \in Nat
    BY <1>3, KnownTypes, LatestFields DEF ReadyInv
  <2>2. CASE NewName
    BY <1>1, <2>1, <2>2 DEF Earlier, NewName
  <2>3. CASE user'.gen = user.gen /\ user'.name = user.name
    BY <1>1, <2>1, <2>3 DEF Earlier
  <2> QED
    BY <1>1, <2>2, <2>3 DEF Effect, SameUser, Ends, Patches
<1> QED
  BY <1>2, <1>3, KnownStep

\* No reconcile deletes the row of the username that the User has, if the User says Ready
\* or another reconcile relies on the row.
LEMMA RowStays ==
    ASSUME OperatorInv, ReadyInv, [ClusterNext]_cvars, Live,
           SaysReady \/ \E q \in Pods : rec[q].at \in {"ready", "status"},
           rows[user.name] # None
    PROVE  rows'[user.name] # None
<1> SUFFICES ASSUME rows'[user.name] = None PROVE FALSE
  OBVIOUS
<1>1. user.name \in Names /\ user.gen \in Nat
  BY DEF OperatorInv, TypeOK, User
<1>2. PICK p \in Pods : \/ rec[p].at = "rename" /\ user.name = rec[p].user.obsName
                       \/ rec[p].at = "delete"
  BY <1>1, RowEffect
<1> DEFINE s == rec[p].user
<1>3. s \in Known /\ Earlier(s) /\ s.gen \in Nat
  <2>1. s \in Known
    BY <1>2 DEF Known
  <2> QED
    BY <2>1, KnownTypes DEF ReadyInv
<1>4. rec[p].at # "delete"
  BY <1>3 DEF ReadyInv, Branched, Earlier
<1>5. rec[p].at = "rename" /\ user.name = s.obsName /\ s.obsName \notin {None, s.name}
  BY <1>2, <1>4 DEF ReadyInv, Branched, Renamed
<1> HIDE DEF s
<1>6. CASE NoWayBack
  BY <1>3, <1>5, <1>6 DEF NoWayBack
<1>7. CASE OneManager
  <2>1. s.gen >= user.ready.gen /\ lease = p
    BY <1>5, <1>7 DEF OneManager, OperatorInv, Working, Runs, s
  <2>2. CASE SaysReady
    <3>1. user.ready.gen = user.gen
      BY <2>2 DEF SaysReady
    <3> QED
      BY <1>1, <1>3, <1>5, <2>1, <3>1 DEF Earlier
  <2>3. ASSUME NEW q \in Pods, rec[q].at \in {"ready", "status"} PROVE FALSE
    <3>1. lease = q
      BY <1>7, <2>3 DEF OneManager, OperatorInv, Working, Runs
    <3> QED
      BY <1>5, <2>1, <2>3, <3>1
  <2> QED
    BY <2>2, <2>3
<1> QED
  BY <1>6, <1>7 DEF ReadyInv

LEMMA BranchedStep ==
    ASSUME OperatorInv, ReadyInv, [ClusterNext]_cvars
    PROVE  Branched'
<1> SUFFICES ASSUME NEW q \in Pods, rec'[q].at # "none"
             PROVE  /\ rec'[q].at \in {"delete", "unfinalizer"} => rec'[q].user.deleting
                    /\ rec'[q].at = "rename" => Renamed(rec'[q].user)
                    /\ rec'[q].at \in {"ready", "status"} /\ Live' /\ rec'[q].user.gen = user'.gen
                         => rows'[user'.name] # None
  BY DEF Branched, Renamed
<1> DEFINE s == rec'[q].user
<1>1. Effect /\ (Live' => Live)
  BY StepEffect, NoRevival
<1>2. CASE rec'[q] = rec[q]
  <2>1. /\ rec'[q].at \in {"delete", "unfinalizer"} => s.deleting
        /\ rec'[q].at = "rename" => Renamed(s)
    BY <1>2 DEF ReadyInv, Branched
  <2>2. ASSUME rec'[q].at \in {"ready", "status"}, Live', s.gen = user'.gen
        PROVE  rows'[user'.name] # None
    <3>1. rec[q].user \in Known
      BY <1>2, <2>2 DEF Known
    <3>2. s.gen <= user.gen /\ s.gen \in Nat /\ user.gen \in Nat
      BY <1>2, <3>1, KnownTypes, LatestFields DEF ReadyInv, Earlier
    <3>3. user'.gen = user.gen /\ user'.name = user.name
      <4>1. ~NewName
        BY <2>2, <3>2 DEF NewName
      <4> QED
        BY <1>1, <4>1 DEF Effect, SameUser, Ends, Patches
    <3>4. rows[user.name] # None
      BY <1>1, <1>2, <2>2, <3>3 DEF ReadyInv, Branched
    <3> QED
      BY <1>1, <1>2, <2>2, <3>3, <3>4, RowStays
  <2> QED
    BY <2>1, <2>2
<1>3. CASE /\ Runs(q) /\ rec'[q].user = cache[q].user /\ rec'[q].at = Branch(cache[q].user)
           /\ UNCHANGED <<user, mgr, lease, cache>>
  <2>1. s \in User /\ rec'[q].at = Branch(s)
    BY <1>3 DEF OperatorInv, Working
  <2> HIDE DEF s
  <2>2. /\ Branch(s) \notin {"unfinalizer", "ready", "status"}
        /\ Branch(s) = "delete" => s.deleting
        /\ Branch(s) = "rename" => Renamed(s)
    BY <2>1 DEF Branch, User
  <2> QED
    BY <2>1, <2>2 DEF s
<1>4. CASE /\ rec[q].at # "none" /\ rec'[q].user = rec[q].user
           /\ UNCHANGED <<user, mgr, lease, cache>>
           /\ \/ rec'[q].at \in {"secret", "reget", "decide", "upsert"}
              \/ rec'[q].at \in {"ready", "status"} /\ rows'[rec[q].user.name] # None
              \/ rec'[q].at = "unfinalizer" /\ rec[q].at = "delete"
  <2>1. rec[q].user \in Known
    BY <1>4 DEF Known
  <2>2. Earlier(rec[q].user)
    BY <2>1 DEF ReadyInv
  <2> QED
    BY <1>4, <2>2 DEF ReadyInv, Branched, Earlier
<1> QED
  BY <1>2, <1>3, <1>4, RecEffect

LEMMA OneManagerStep ==
    ASSUME OperatorInv, ReadyInv, OneManager, [ClusterNext]_cvars
    PROVE  OneManager'
<1>0. /\ mgr \in [Pods -> {"follower", "leader", "lost", "over"}] /\ user.gen \in Nat /\ user.ready.gen \in Nat
      /\ user \in User /\ user' \in User
  BY LatestFields, OperatorNext DEF OperatorInv, TypeOK
<1>1. budget'.lose = 0
  BY BudgetEffect DEF OneManager
<1> DEFINE Held == \A p \in Pods : mgr'[p] # "lost" /\ (mgr'[p] = "leader" => lease' = p)
<1>2. Held
  <2>1. CASE UNCHANGED <<mgr, lease>>
    BY <2>1 DEF OneManager
  <2>2. ASSUME NEW p \in Pods, Lead(p) PROVE Held
    BY <1>0, <2>2, ReleaseAssumption DEF Lead, OneManager
  <2>3. ASSUME NEW p \in Pods, NEW c \in Costs, Restart(p, c) PROVE Held
    BY <1>0, <2>3 DEF Restart, OneManager
  <2>4. ASSUME NEW p \in Pods, LoseLease(p) \/ ManagerExits(p) PROVE FALSE
    BY <2>4 DEF LoseLease, ManagerExits, Spend, OneManager
  <2>5. ASSUME NEW p \in Pods, SyncUser(p) \/ SyncSecret(p) \/ ReconcileStep(p) PROVE UNCHANGED <<mgr, lease>>
    BY <2>5 DEF SyncUser, SyncSecret, ReconcileStep, Reconcile, AddFinalizer, ResolveBYO, CreateOrUpdate,
          RegetSecret, Decide, CallFails, DeleteOldRow, Upsert, PatchStatus, DeleteRow, RemoveFinalizer, podVars
  <2>6. ASSUME UNCHANGED vars \/ Edit PROVE UNCHANGED <<mgr, lease>>
    BY <2>6 DEF vars, podVars, Edit, Rotate, Reuse, Delete, Rename
  <2> QED
    BY <2>1, <2>2, <2>3, <2>4, <2>5, <2>6, OperatorSteps
<1>3. \/ user'.ready = user.ready
      \/ \E p \in Pods : /\ Patches(p) /\ lease = p /\ rec'[p].at = "none"
                         /\ user'.ready.gen \in {user.ready.gen, rec[p].user.gen}
  <2>1. ASSUME NEW p \in Pods, Patches(p)
        PROVE  lease = p /\ rec'[p].at = "none" /\ user'.ready.gen \in {user.ready.gen, rec[p].user.gen}
    BY <2>1 DEF Patches, OneManager, OperatorInv, Working, Runs
  <2> QED
    BY <2>1, StepEffect DEF Effect, SameUser, NewName, Ends
<1>4. ASSUME NEW q \in Pods, mgr'[q] \in {"leader", "lost"} PROVE cache'[q].user.gen >= user'.ready.gen
  <2>1. CASE cache'[q].user = Latest /\ SameUser
    BY <2>1, LatestFields DEF SameUser, ReadyInv
  <2>2. CASE Runs(q) /\ cache'[q].user = cache[q].user
    <3>1. lease = q /\ cache[q].user.gen >= user.ready.gen
      BY <2>2 DEF OneManager, Runs
    <3>2. ASSUME rec[q].at # "none" PROVE cache[q].user.gen >= rec[q].user.gen
      BY <3>2 DEF OneManager
    <3> QED
      BY <1>3, <2>2, <3>1, <3>2 DEF Patches
  <2> QED
    BY <1>4, <2>1, <2>2, CacheEffect
<1>5. ASSUME NEW q \in Pods, rec'[q].at # "none"
      PROVE  cache'[q].user.gen >= rec'[q].user.gen /\ rec'[q].user.gen >= user'.ready.gen
  <2>1. mgr'[q] \in {"leader", "lost"}
    BY <1>5, OperatorNext DEF OperatorInv, Working, Runs
  <2>2. CASE rec'[q] = rec[q]
    <3>1. lease = q /\ cache[q].user.gen >= rec[q].user.gen /\ rec[q].user.gen >= user.ready.gen
      BY <1>5, <2>2 DEF OneManager, OperatorInv, Working, Runs
    <3>2. user'.ready = user.ready
      BY <1>3, <1>5, <3>1
    <3>3. rec[q].user \in Known
      BY <1>5, <2>2 DEF Known
    <3>4. user.gen >= rec[q].user.gen
      BY <3>3, KnownTypes, LatestFields DEF ReadyInv, Earlier
    <3> QED
      BY <2>1, <2>2, <3>1, <3>2, <3>4, CacheEffect, LatestFields
  <2>3. CASE /\ Runs(q) /\ rec'[q].user = cache[q].user /\ UNCHANGED <<user, cache>>
    <3>1. cache[q].user \in Known /\ cache[q].user.gen >= user.ready.gen
      BY <2>3 DEF Known, OneManager
    <3> QED
      BY <2>3, <3>1, KnownTypes
  <2>4. CASE rec[q].at # "none" /\ rec'[q].user = rec[q].user /\ UNCHANGED <<user, cache>>
    BY <2>4 DEF OneManager
  <2> QED
    BY <1>5, <2>2, <2>3, <2>4, RecEffect
<1> HIDE DEF Held
<1> QED
  BY <1>1, <1>2, <1>4, <1>5 DEF OneManager, Runs, Held

LEMMA NoWayBackStep ==
    ASSUME OperatorInv, ReadyInv, NoWayBack, [ClusterNext]_cvars
    PROVE  NoWayBack'
<1>0. budget.rename \in Nat
  BY DEF OperatorInv, TypeOK, Kinds
<1> DEFINE Fits(s) == \/ s.obsName \in {None, s.name} /\ (budget.rename = 1 => s.name = user.name)
                      \/ budget.rename = 0 /\ s.name = user.name
           FitsThen(s) == \/ s.obsName \in {None, s.name} /\ (budget'.rename = 1 => s.name = user'.name)
                          \/ budget'.rename = 0 /\ s.name = user'.name
<1>1. Fits(user) /\ Fits(Latest) /\ \A s \in Known : Fits(s)
  BY LatestFields DEF NoWayBack
<1>2. CASE NewName
  <2>1. budget.rename = 1 /\ budget'.rename = 0
    BY <1>0, <1>2 DEF NewName, NoWayBack
  <2>2. ASSUME NEW s \in Known' PROVE FitsThen(s)
    BY <1>1, <2>1, <2>2, KnownStep
  <2> QED
    BY <2>1, <2>2 DEF NoWayBack
<1>3. CASE budget'.rename = budget.rename /\ user'.name = user.name
  <2>1. ASSUME NEW s \in Known' PROVE FitsThen(s)
    BY <1>1, <1>3, <2>1, KnownStep
  <2>2. FitsThen(user')
    <3>1. CASE user'.obsName = user.obsName
      BY <1>1, <1>3, <3>1
    <3>2. ASSUME NEW p \in Pods, Patches(p), user'.obsName = rec[p].user.name PROVE FitsThen(user')
      <4>1. rec[p].user \in Known
        BY <3>2 DEF Patches, Known
      <4> QED
        BY <1>0, <1>1, <1>3, <3>2, <4>1 DEF NoWayBack
    <3> QED
      BY <1>0, <1>3, <3>1, <3>2, StepEffect DEF Effect, SameUser, NewName, Ends, Patches
  <2> QED
    BY <1>3, <2>1, <2>2 DEF NoWayBack
<1> QED
  BY <1>2, <1>3, StepEffect, BudgetEffect DEF Effect, SameUser, Ends, Patches

LEMMA ReadyNext == OperatorInv /\ ReadyInv /\ [ClusterNext]_cvars => ReadyInv'
<1> SUFFICES ASSUME OperatorInv, ReadyInv, [ClusterNext]_cvars PROVE ReadyInv'
  OBVIOUS
<1>0. /\ Effect /\ (Live' => Live) /\ user.gen \in Nat /\ user.ready.gen \in Nat
      /\ user \in User /\ user' \in User
  BY StepEffect, NoRevival, LatestFields, OperatorNext DEF OperatorInv, TypeOK
<1>1. \A s \in Known' : Earlier(s)'
  BY EarlierStep
<1>2. Branched'
  BY BranchedStep
<1>3. (OneManager \/ NoWayBack)'
  BY OneManagerStep, NoWayBackStep DEF ReadyInv
<1>4. ASSUME NEW p \in Pods, Patches(p)
      PROVE  rec[p].user \in Known /\ Earlier(rec[p].user) /\ rec[p].user.gen \in Nat
  <2>1. rec[p].user \in Known
    BY <1>4 DEF Patches, Known
  <2> QED
    BY <2>1, KnownTypes DEF ReadyInv
<1>5. user'.ready.gen <= user'.gen
  <2>1. CASE user'.ready = user.ready
    BY <1>0, <2>1 DEF ReadyInv, Effect, SameUser, NewName, Ends, Patches
  <2>2. ASSUME NEW p \in Pods, Patches(p), user'.ready # user.ready PROVE user'.ready.gen <= user'.gen
    BY <1>0, <1>4, <2>2 DEF Patches, Earlier
  <2> QED
    BY <1>0, <2>1, <2>2 DEF Effect, SameUser, NewName, Ends
<1>6. ReadyIsTrue'
  <2> SUFFICES ASSUME Live', user'.ready = [ok |-> TRUE, gen |-> user'.gen] PROVE rows'[user'.name] # None
    BY DEF ReadyIsTrue, Live, SaysReady
  <2>0. Live /\ user'.ready.ok /\ user'.ready.gen = user'.gen
    BY <1>0
  <2>1. user'.gen = user.gen /\ user'.name = user.name
    <3>1. ~NewName
      BY <1>0, <2>0 DEF NewName, ReadyInv
    <3> QED
      BY <1>0, <3>1 DEF Effect, SameUser, Ends, Patches
  <2>2. CASE user'.ready = user.ready
    <3>1. SaysReady
      BY <2>1, <2>2 DEF SaysReady
    <3>2. rows[user.name] # None
      BY <2>0, <3>1 DEF ReadyInv, ReadyIsTrue, Live
    <3> QED
      BY <2>0, <2>1, <3>1, <3>2, RowStays
  <2>3. ASSUME NEW p \in Pods, Patches(p), user'.ready # user.ready PROVE rows'[user'.name] # None
    <3>1. /\ rec[p].at \in {"ready", "status"} /\ user'.ready = [ok |-> TRUE, gen |-> rec[p].user.gen]
          /\ rows' = rows
      BY <2>0, <2>3 DEF Patches
    <3>2. rec[p].user.gen = user.gen
      BY <2>0, <2>1, <3>1
    <3> QED
      BY <2>0, <2>1, <3>1, <3>2 DEF ReadyInv, Branched
  <2> QED
    BY <1>0, <2>1, <2>2, <2>3 DEF Effect, SameUser, NewName, Ends
<1> QED
  BY <1>1, <1>2, <1>3, <1>5, <1>6 DEF ReadyInv

\* A User that says Ready for its generation has a row for its username, for any pods,
\* names, costs and faults, as long as no Lease is lost or the User is renamed at most once.
\* Without that hypothesis it does not hold: a manager that has lost the Lease before it
\* deletes the row of the old username deletes it after the User got that username back and
\* the next leader reported Ready.
THEOREM ReadyAlwaysTrue ==
    ASSUME \A b \in Budgets : b.lose = 0 \/ b.rename <= 1
    PROVE  ClusterSpec => []ReadyIsTrue
<1>1. ClusterInit => ReadyInv
  <2> SUFFICES ASSUME ClusterInit PROVE ReadyInv
    OBVIOUS
  <2>1. Init /\ NoRec.at = "none"
    BY DEF ClusterInit, NoRec
  <2>2. Known = {} /\ \A p \in Pods : mgr[p] = "follower" /\ rec[p].at = "none"
    BY <2>1 DEF Init, Known, Runs
  <2>3. user.ready = [ok |-> FALSE, gen |-> 0] /\ user.gen = 1 /\ user.obsName = None
    BY <2>1 DEF Init
  <2>4. budget.lose = 0 \/ budget.rename <= 1
    BY <2>1 DEF Init
  <2>5. OneManager \/ NoWayBack
    BY <2>2, <2>3, <2>4 DEF OneManager, NoWayBack, Runs
  <2>6. Branched
    BY <2>2 DEF Branched
  <2>7. ReadyIsTrue
    BY <2>3 DEF ReadyIsTrue, SaysReady
  <2> QED
    BY <2>2, <2>3, <2>5, <2>6, <2>7 DEF ReadyInv
<1> QED
  BY <1>1, OperatorInit, OperatorNext, ReadyNext, PTL DEF ClusterSpec, ReadyInv
=============================================================================
