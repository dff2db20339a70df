------------------------------ MODULE Delivery ------------------------------
(***************************************************************************)
(* How pgmqtt sends the queued messages of ONE subscriber with a           *)
(* persistent session: its rows in the table `deliveries`, the sockets     *)
(* (Conns) it connects with one after the other, and the goroutines that   *)
(* compete for its rows on its pod:                                        *)
(*   - the listener, which handles publish NOTIFYs (Engine.Deliver),       *)
(*   - each Conn's own goroutine, which first resumes the session          *)
(*     (drainSessionQueue) and then reads the acknowledgements,            *)
(*   - each Conn's drain loop, woken by kicks (runDrainLoop).              *)
(* A Conn's drain loop starts when its resume has ended, so a Conn is one  *)
(* worker: resume first, drain loop afterwards.                            *)
(*                                                                         *)
(* One action is one statement, or the code between two; a statement may   *)
(* fail, executed or not (the actions ...Fails).  The goroutines of a      *)
(* closed Conn keep running until they notice.  A 3.1.1 client has no      *)
(* Receive Maximum: it is the case Cap >= Cardinality(Ids).  Outbound      *)
(* topic aliases are modelled for rows of one topic.                       *)
(***************************************************************************)
EXTENDS Naturals, FiniteSets, Sequences

CONSTANTS
    Ids,         \* ids of deliveries rows, in the order of their insertion
    Conns,       \* the client's sockets
    L,           \* the listener goroutine
    None,        \* Go nil
    Qoss,        \* the QoS levels each row may have
    Cap,         \* the client's Receive Maximum (capacity of Conn.inflight)
    PidMax,      \* the largest packet id, 65535
    MaxRetries,  \* allocPacketIDMaxRetries
    Oversized,   \* rows that exceed the client's Maximum Packet Size
    Expiring,    \* rows whose message may expire
    Rejects,     \* TRUE: the client may answer PUBREC with a reason >= 0x80
    Aliases,     \* TRUE: the client allows topic aliases
    MaxDrops,    \* bound: how often the listener loses its Postgres session
    MaxErrs      \* bound: how many statements fail

ASSUME IdsAssumption    == Ids \subseteq Nat \ {0} /\ IsFiniteSet(Ids)
ASSUME WorkerAssumption == /\ L \notin Conns /\ None \notin Conns /\ None # L
                           /\ IsFiniteSet(Conns)
ASSUME LimitsAssumption == /\ Qoss \in [Ids -> SUBSET (0..2)]
                           /\ Cap \in Nat \ {0} /\ PidMax \in Nat \ {0}
                           /\ MaxRetries \in Nat \ {0}
                           /\ MaxDrops \in Nat /\ MaxErrs \in Nat
ASSUME InputsAssumption == /\ Oversized \subseteq Ids /\ Expiring \subseteq Ids
                           /\ Rejects \in BOOLEAN /\ Aliases \in BOOLEAN

VARIABLES
    rows,      \* the deliveries rows: state and packet_id (0 = NULL)
    qos,       \* their QoS
    expired,   \* rows whose message is past expires_at
    notes,     \* publish NOTIFYs the listener has not handled yet
    deaf,      \* TRUE: the listener has no Postgres session
    drops,     \* how often it has lost it
    errs,      \* how many statements have failed
    pc,        \* the socket: "idle" before CONNECT, "up", "closed" (closing set)
    run,       \* the Conn's goroutine: "resume", then "loop"
    reg,       \* Engine.conns[client_id]
    slots,     \* len(Conn.inflight)
    via,       \* history: the Conn that claimed a row and has not given its slot back
    extra,     \* history: how many slots a Conn gave back that it held for no row
    kick,      \* Conn.drainKick holds a kick
    pidState,  \* Conn.packetIDState, reduced to the id it stands for
    seeded,    \* Conn.packetIDSeeded
    aliasOut,  \* Conn.aliasOut holds the topic
    handling,  \* the acknowledgement whose handler has not yet reached Postgres
    wpc,       \* where each worker stands in deliverOneTracked
    job,       \* the rows a worker read and has still to deliver
    conn,      \* the Conn deliverOneTracked got from ConnFor
    pid,       \* the packet id it uses
    bare,      \* TRUE: the PUBLISH carries the alias without the topic
    cut,       \* the client has given the socket up
    owed,      \* acknowledgements on their way to the server
    held,      \* QoS 2 packet ids the client has received and not released
    got,       \* how often the client's application got each message, up to 2
    open,      \* packet ids of PUBLISHes on a socket without a final ack
    fresh,     \* how often each row was written without DUP, up to 2
    introduced \* a PUBLISH with topic and alias was written to the socket

rowVars    == <<rows, qos, expired>>
lstVars    == <<notes, deaf, drops, errs>>
slotVars   == <<slots, via, extra>>
connVars   == <<slotVars, kick, pidState, seeded, aliasOut>>
workVars   == <<wpc, job, run>>
packetVars == <<conn, pid, bare>>
clientVars == <<owed, held, got, open, fresh, introduced>>
vars == <<rowVars, lstVars, pc, reg, connVars, handling, workVars, packetVars, cut, clientVars>>

Workers == Conns \cup {L}
Pids    == 1..PidMax

\* deliveries.state 0, 1, 2; a row that was never inserted, or is deleted.
Row == [st : {"absent", "queued", "gone"}, pid : {0}]
         \cup [st : {"inflight", "awaiting_pubcomp"}, pid : Pids]

Gone == [st |-> "gone", pid |-> 0]

\* What a worker keeps of a row it has read.
Item == [id : Ids, st : {"queued", "inflight", "awaiting_pubcomp"}, pid : 0..PidMax]

Ack   == [type : {"puback", "pubrec", "refuse", "pubcomp"}, pid : Pids]
NoAck == [type |-> "none", pid |-> 0]

\* The handler has returned an error.
Failed == [type |-> "failed", pid |-> 0]

TypeOK ==
    /\ rows \in [Ids -> Row]
    /\ qos \in [Ids -> 0..2]
    /\ expired \subseteq Ids
    /\ notes \in Seq(Ids)
    /\ deaf \in BOOLEAN
    /\ drops \in 0..MaxDrops
    /\ errs \in 0..MaxErrs
    /\ pc \in [Conns -> {"idle", "up", "closed"}]
    /\ run \in [Conns -> {"resume", "loop"}]
    /\ reg \in Conns \cup {None}
    /\ slots \in [Conns -> 0..Cap]
    /\ via \in [Ids -> Conns \cup {None}]
    /\ extra \in [Conns -> Nat]
    /\ kick \in [Conns -> BOOLEAN]
    /\ pidState \in [Conns -> 0..PidMax]
    /\ seeded \in [Conns -> BOOLEAN]
    /\ aliasOut \in [Conns -> BOOLEAN]
    /\ handling \in [Conns -> Ack \cup {NoAck, Failed}]
    /\ wpc \in [Workers -> {"idle", "scan", "take", "alloc", "claim", "write"}]
    /\ job \in [Workers -> SUBSET Item]
    /\ conn \in [Workers -> Conns \cup {None}]
    /\ pid \in [Workers -> 0..PidMax]
    /\ bare \in [Workers -> BOOLEAN]
    /\ cut \in [Conns -> BOOLEAN]
    /\ owed \in [Conns -> Seq(Ack)]
    /\ held \subseteq Pids
    /\ got \in [Ids -> 0..2]
    /\ open \in [Conns -> SUBSET Pids]
    /\ fresh \in [Ids -> 0..2]
    /\ introduced \in [Conns -> BOOLEAN]

Init ==
    /\ rows = [i \in Ids |-> [st |-> "absent", pid |-> 0]]
    /\ qos = [i \in Ids |-> 0]
    /\ expired = {}
    /\ notes = << >> /\ deaf = FALSE /\ drops = 0 /\ errs = 0
    /\ pc = [c \in Conns |-> "idle"]
    /\ run = [c \in Conns |-> "resume"]
    /\ reg = None
    /\ slots = [c \in Conns |-> 0]
    /\ via = [i \in Ids |-> None]
    /\ extra = [c \in Conns |-> 0]
    /\ kick = [c \in Conns |-> FALSE]
    /\ pidState = [c \in Conns |-> 0]
    /\ seeded = [c \in Conns |-> FALSE]
    /\ aliasOut = [c \in Conns |-> FALSE]
    /\ handling = [c \in Conns |-> NoAck]
    /\ wpc = [w \in Workers |-> "idle"]
    /\ job = [w \in Workers |-> {}]
    /\ conn = [w \in Workers |-> None]
    /\ pid = [w \in Workers |-> 0]
    /\ bare = [w \in Workers |-> FALSE]
    /\ cut = [c \in Conns |-> FALSE]
    /\ owed = [c \in Conns |-> << >>]
    /\ held = {}
    /\ got = [i \in Ids |-> 0]
    /\ open = [c \in Conns |-> {}]
    /\ fresh = [i \in Ids |-> 0]
    /\ introduced = [c \in Conns |-> FALSE]

-----------------------------------------------------------------------------
(* Helpers.                                                                *)

UpTo2(n) == IF n < 2 THEN n + 1 ELSE 2

Live(i) == rows[i].st \in {"queued", "inflight", "awaiting_pubcomp"}

AsItem(i) == [id |-> i, st |-> rows[i].st, pid |-> rows[i].pid]

\* The item a worker is at: rows are read ORDER BY id.
Cur(w) == CHOOSE it \in job[w] : \A other \in job[w] : it.id <= other.id

\* returnInflight: free a slot if one is taken, and kick the drain loop.
ReturnInflight(c) ==
    /\ slots' = [slots EXCEPT ![c] = IF @ = 0 THEN 0 ELSE @ - 1]
    /\ kick' = [kick EXCEPT ![c] = TRUE]

KeepInflight == UNCHANGED <<slots, kick>>

\* What the histories record of a Conn that is through with the rows S: it holds no slot
\* for them any more, and a slot it frees and holds for none of them is one too many.
Settle(c, S, frees) ==
    /\ via' = [i \in Ids |-> IF i \in S /\ via[i] = c THEN None ELSE via[i]]
    /\ extra' = [extra EXCEPT ![c] = IF frees /\ slots[c] > 0 /\ (\A i \in S : via[i] # c)
                                      THEN @ + 1 ELSE @]

KeepHistory == UNCHANGED <<via, extra>>

\* A statement fails, or its answer is lost.
Fails == errs < MaxErrs /\ errs' = errs + 1 /\ UNCHANGED <<notes, deaf, drops>>

\* deliverOneTracked returns ("sent", "skip" or "error").  A resume goes on with the
\* next row unless there was an error, and then starts the read and the drain loop; a drain
\* loop scans again after a PUBLISH and otherwise waits for the next kick.
Finish(w, result) ==
    LET rest     == IF result = "error" THEN {} ELSE job[w] \ {Cur(w)}
        draining == w # L /\ run[w] = "loop"
    IN  /\ job' = [job EXCEPT ![w] = rest]
        /\ wpc' = [wpc EXCEPT ![w] = IF rest # {} THEN "take"
                                      ELSE IF draining /\ result = "sent" THEN "scan" ELSE "idle"]
        /\ run' = [c \in Conns |-> IF c = w /\ rest = {} THEN "loop" ELSE run[c]]

-----------------------------------------------------------------------------
(* The surroundings: publishers, the network, the listener's connection.   *)

\* mqtt_publish inserts the row, and the pod is notified on commit; QoS 0 only
\* for a connected client.
Publish(i, q) ==
    /\ rows[i].st = "absent"
    /\ \A j \in Ids : j < i => rows[j].st # "absent"
    /\ q = 0 => reg # None
    /\ rows' = [rows EXCEPT ![i].st = "queued"]
    /\ qos' = [qos EXCEPT ![i] = q]
    /\ notes' = IF reg # None /\ ~deaf THEN Append(notes, i) ELSE notes
    /\ UNCHANGED <<expired, deaf, drops, errs, pc, reg, connVars, handling, workVars,
                   packetVars, cut, clientVars>>

Expire(i) ==
    /\ i \in Expiring \ expired /\ Live(i)
    /\ expired' = expired \cup {i}
    /\ UNCHANGED <<rows, qos, lstVars, pc, reg, connVars, handling, workVars, packetVars,
                   cut, clientVars>>

\* handleConnect with cleanStart = false: registerConn closes the Conn before it.
Connect(c) ==
    /\ pc[c] = "idle"
    /\ reg' = c
    /\ pc' = [d \in Conns |-> IF d = c THEN "up" ELSE IF d = reg THEN "closed" ELSE pc[d]]
    /\ cut' = [d \in Conns |-> cut[d] \/ pc[d] = "up"]
    /\ wpc' = [wpc EXCEPT ![c] = "scan"]
    /\ UNCHANGED <<rowVars, lstVars, connVars, handling, job, run, packetVars, clientVars>>

\* The network or the client drops the socket; the server may not know yet.
Cut(c) ==
    /\ pc[c] = "up" /\ ~cut[c]
    /\ cut' = [cut EXCEPT ![c] = TRUE]
    /\ UNCHANGED <<rowVars, lstVars, pc, reg, connVars, handling, workVars, packetVars, clientVars>>

\* The read loop fails, handleDisconnect runs and the deferred shutdown.
Close(c) ==
    /\ pc[c] = "up" /\ cut[c]
    /\ run[c] = "loop" /\ handling[c] = NoAck
    /\ pc' = [pc EXCEPT ![c] = "closed"]
    /\ reg' = IF reg = c THEN None ELSE reg
    /\ UNCHANGED <<rowVars, lstVars, connVars, handling, workVars, packetVars, cut, clientVars>>

\* NOTIFYs are lost from here until the listener is back.
ListenerDrop ==
    /\ ~deaf /\ wpc[L] = "idle" /\ drops < MaxDrops
    /\ deaf' = TRUE
    /\ drops' = drops + 1
    /\ notes' = << >>
    /\ UNCHANGED <<errs, rowVars, pc, reg, connVars, handling, workVars, packetVars, cut, clientVars>>

\* Mutant: nobody kicks the drain loops after a reconnect.
KickNobody(c) == FALSE

\* KickAllDrains reaches the registered Conn.
KickedByListener(c) == c = reg

ListenerBack ==
    /\ deaf
    /\ deaf' = FALSE
    /\ kick' = [c \in Conns |-> kick[c] \/ KickedByListener(c)]
    /\ UNCHANGED <<rowVars, notes, drops, errs, pc, reg, slotVars, pidState, seeded, aliasOut,
                   handling, workVars, packetVars, cut, clientVars>>

-----------------------------------------------------------------------------
(* What starts a delivery.                                                 *)

\* Engine.Deliver: the SELECT for the message of a NOTIFY.
DeliverScan ==
    /\ wpc[L] = "idle" /\ ~deaf /\ notes # << >>
    /\ notes' = Tail(notes)
    /\ LET i == Head(notes) IN
       IF rows[i].st = "queued" /\ i \notin expired
       THEN job' = [job EXCEPT ![L] = {AsItem(i)}] /\ wpc' = [wpc EXCEPT ![L] = "take"]
       ELSE UNCHANGED <<job, wpc>>
    /\ UNCHANGED <<rowVars, deaf, drops, errs, pc, run, reg, connVars, handling, packetVars,
                   cut, clientVars>>

\* The SELECT fails: the error is logged and nobody kicks, so the rows wait.
DeliverScanFails ==
    /\ wpc[L] = "idle" /\ ~deaf /\ notes # << >>
    /\ errs < MaxErrs
    /\ errs' = errs + 1
    /\ notes' = Tail(notes)
    /\ UNCHANGED <<deaf, drops, rowVars, pc, reg, connVars, handling, workVars, packetVars,
                   cut, clientVars>>

\* drainSessionQueue: the SELECT of everything that is not acknowledged.
ResumeScan(c) ==
    LET items == {AsItem(i) : i \in {j \in Ids \ expired : Live(j)}} IN
    /\ run[c] = "resume" /\ wpc[c] = "scan"
    /\ job' = [job EXCEPT ![c] = items]
    /\ wpc' = [wpc EXCEPT ![c] = IF items = {} THEN "idle" ELSE "take"]
    /\ run' = [run EXCEPT ![c] = IF items = {} THEN "loop" ELSE @]
    /\ UNCHANGED <<rowVars, lstVars, pc, reg, connVars, handling, packetVars, cut, clientVars>>

\* runDrainLoop receives a kick.
DrainWake(c) ==
    /\ run[c] = "loop" /\ wpc[c] = "idle" /\ pc[c] = "up" /\ kick[c]
    /\ kick' = [kick EXCEPT ![c] = FALSE]
    /\ wpc' = [wpc EXCEPT ![c] = "scan"]
    /\ UNCHANGED <<rowVars, lstVars, pc, run, reg, slotVars, pidState, seeded, aliasOut,
                   handling, job, packetVars, cut, clientVars>>

\* drainOnce: the SELECT of the first queued row with QoS > 0.
DrainScan(c) ==
    LET queue == {i \in Ids \ expired : rows[i].st = "queued" /\ qos[i] > 0}
        done  == pc[c] = "closed" \/ queue = {}
    IN  /\ run[c] = "loop" /\ wpc[c] = "scan"
        /\ job' = IF done THEN job
                  ELSE [job EXCEPT ![c] = {AsItem(CHOOSE i \in queue : \A j \in queue : i <= j)}]
        /\ wpc' = [wpc EXCEPT ![c] = IF done THEN "idle" ELSE "take"]
        /\ UNCHANGED <<rowVars, lstVars, pc, run, reg, connVars, handling, packetVars,
                       cut, clientVars>>

\* Either SELECT fails: handleConnect logs it and starts the drain loop, and the drain loop
\* logs it and waits for the next kick.
ScanFails(c) ==
    /\ wpc[c] = "scan"
    /\ run[c] = "loop" => pc[c] # "closed"
    /\ Fails
    /\ wpc' = [wpc EXCEPT ![c] = "idle"]
    /\ run' = [run EXCEPT ![c] = "loop"]
    /\ UNCHANGED <<rowVars, pc, reg, connVars, handling, job, packetVars, cut, clientVars>>

-----------------------------------------------------------------------------
(* deliverOneTracked.                                                      *)

Taking(w) == wpc[w] = "take" /\ Cur(w).st # "awaiting_pubcomp"

\* ConnFor finds nobody: the row stays for the next CONNECT.
SkipUnconnected(w) ==
    /\ Taking(w)
    /\ reg = None
    /\ Finish(w, "skip")
    /\ UNCHANGED <<rowVars, lstVars, pc, reg, connVars, handling, packetVars, cut, clientVars>>

\* resolveAliasForOutbound.
ResolveAlias(c) == aliasOut' = [aliasOut EXCEPT ![c] = @ \/ Aliases]

\* Expired since it was read (before the alias is resolved), or oversized (after):
\* the row is deleted, in whatever state it is by now, and its slot, if it has one, is not
\* given back.  An error of the DELETE is ignored.
DropUndeliverable(w) ==
    LET i == Cur(w).id IN
    /\ Taking(w)
    /\ reg # None
    /\ \/ i \in expired /\ UNCHANGED aliasOut
       \/ i \in Oversized \ expired /\ ResolveAlias(reg)
    /\ \/ rows' = [rows EXCEPT ![i] = Gone] /\ UNCHANGED lstVars
       \/ rows' = rows /\ Fails
    /\ Finish(w, "skip")
    /\ UNCHANGED <<qos, expired, pc, reg, slotVars, kick, pidState, seeded, handling,
                   packetVars, cut, clientVars>>

Deliverable(w) == Taking(w) /\ reg # None /\ Cur(w).id \notin expired \cup Oversized

\* Rows that were sent before do not take a slot.
NeedsSlot(w) == qos[Cur(w).id] > 0 /\ Cur(w).st = "queued"

\* tryAcquireInflight fails: the row stays queued for the drain loop.
SkipNoSlot(w) ==
    /\ Deliverable(w)
    /\ NeedsSlot(w) /\ slots[reg] = Cap
    /\ ResolveAlias(reg)
    /\ Finish(w, "skip")
    /\ UNCHANGED <<rowVars, lstVars, pc, reg, slotVars, kick, pidState, seeded, handling,
                   packetVars, cut, clientVars>>

Begin(w) ==
    /\ Deliverable(w)
    /\ NeedsSlot(w) => slots[reg] < Cap
    /\ slots' = [slots EXCEPT ![reg] = IF NeedsSlot(w) THEN @ + 1 ELSE @]
    /\ ResolveAlias(reg)
    /\ conn' = [conn EXCEPT ![w] = reg]
    /\ bare' = [bare EXCEPT ![w] = aliasOut[reg]]
    /\ pid' = [pid EXCEPT ![w] = Cur(w).pid]
    /\ wpc' = [wpc EXCEPT ![w] = IF NeedsSlot(w) THEN "alloc"
                                  ELSE IF Cur(w).st = "inflight" THEN "write" ELSE "claim"]
    /\ KeepHistory
    /\ UNCHANGED <<rowVars, lstVars, pc, reg, kick, pidState, seeded, handling, job, run,
                   cut, clientVars>>

\* Mutant: the cycle is 0..PidMax-1, which includes the reserved id 0.
CandidateFromZero(base, k) == (base + k - 1) % PidMax

\* nextPacketIDCandidate: the k-th id after base in the cycle 1..PidMax.
Candidate(base, k) == ((base + k - 1) % PidMax) + 1

\* packetIDInUse; a queued row has no packet id yet.
InUse(p) == \E i \in Ids : rows[i].st \in {"inflight", "awaiting_pubcomp"} /\ rows[i].pid = p

\* MAX(packet_id), 0 if there is none: ensurePacketIDSeeded.
Seed == LET used == {rows[i].pid : i \in {j \in Ids : Live(j)}} \cup {0}
        IN  CHOOSE p \in used : \A q \in used : q <= p

\* AllocPacketID.
Alloc(w) ==
    LET c    == conn[w]
        base == IF seeded[c] THEN pidState[c] ELSE Seed
        free == {k \in 1..MaxRetries : ~InUse(Candidate(base, k))}
        k1   == CHOOSE k \in free : \A j \in free : k <= j
    IN  /\ wpc[w] = "alloc"
        /\ seeded' = [seeded EXCEPT ![c] = TRUE]
        /\ \/ /\ free # {}
              /\ pidState' = [pidState EXCEPT ![c] = Candidate(base, k1)]
              /\ pid' = [pid EXCEPT ![w] = Candidate(base, k1)]
              /\ wpc' = [wpc EXCEPT ![w] = "claim"]
              /\ KeepInflight
              /\ UNCHANGED <<job, run>>
           \/ /\ free = {}
              /\ pidState' = [pidState EXCEPT ![c] = Candidate(base, MaxRetries)]
              /\ pid' = pid
              /\ ReturnInflight(c)
              /\ Finish(w, "error")
        /\ KeepHistory
        /\ UNCHANGED <<rowVars, lstVars, pc, reg, aliasOut, handling, conn, bare, cut, clientVars>>

\* The seed query fails and is tried again the next time, or packetIDInUse fails for the
\* k-th candidate.
AllocFails(w) ==
    LET c    == conn[w]
        base == IF seeded[c] THEN pidState[c] ELSE Seed
    IN  /\ wpc[w] = "alloc"
        /\ Fails
        /\ \/ ~seeded[c] /\ UNCHANGED <<seeded, pidState>>
           \/ \E k \in 1..MaxRetries :
                /\ \A j \in 1..MaxRetries : j < k => InUse(Candidate(base, j))
                /\ seeded' = [seeded EXCEPT ![c] = TRUE]
                /\ pidState' = [pidState EXCEPT ![c] = Candidate(base, k)]
        /\ ReturnInflight(c)
        /\ KeepHistory
        /\ Finish(w, "error")
        /\ UNCHANGED <<rowVars, pc, reg, aliasOut, handling, packetVars, cut, clientVars>>

\* Mutant: the claim does not ask for state 0.
ClaimableLive(i) == Live(i)

\* The claim succeeds: state is still 0.
Claimable(i) == rows[i].st = "queued"

\* QoS > 0: UPDATE ... SET packet_id, state=1 WHERE state=0.  QoS 0: DELETE.
AfterClaim(w) == [rows EXCEPT ![Cur(w).id] = IF qos[Cur(w).id] = 0 THEN Gone
                                          ELSE [st |-> "inflight", pid |-> pid[w]]]

\* A packet id that another row holds violates the unique index.
IdTaken(w) == qos[Cur(w).id] > 0 /\ Claimable(Cur(w).id) /\ InUse(pid[w])

Claim(w) ==
    LET i == Cur(w).id
    IN  /\ wpc[w] = "claim"
        /\ \/ /\ Claimable(i) /\ ~IdTaken(w)
              /\ rows' = AfterClaim(w)
              /\ wpc' = [wpc EXCEPT ![w] = "write"]
              /\ via' = [via EXCEPT ![i] = IF qos[i] > 0 THEN conn[w] ELSE @]
              /\ KeepInflight
              /\ UNCHANGED <<job, run>>
           \/ /\ ~Claimable(i) \/ IdTaken(w)
              /\ rows' = rows
              /\ IF qos[i] > 0 THEN ReturnInflight(conn[w]) ELSE KeepInflight
              /\ Finish(w, IF IdTaken(w) THEN "error" ELSE "skip")
              /\ via' = via
        /\ UNCHANGED <<extra, qos, expired, lstVars, pc, reg, pidState, seeded, aliasOut, handling,
                       packetVars, cut, clientVars>>

\* Mutant: the error path of the claim keeps the slot.
ClaimFailsKeepsSlot(w) ==
    LET i == Cur(w).id
    IN  /\ wpc[w] = "claim"
        /\ Fails
        /\ \/ rows' = rows
           \/ Claimable(i) /\ ~IdTaken(w) /\ rows' = AfterClaim(w)
        /\ KeepInflight /\ KeepHistory
        /\ Finish(w, IF qos[i] > 0 THEN "error" ELSE "skip")
        /\ UNCHANGED <<qos, expired, pc, reg, pidState, seeded, aliasOut, handling, packetVars,
                       cut, clientVars>>

\* The claim fails, executed or not: the slot is given back, also when the row is claimed
\* by now.  With QoS 0 there is no slot and no error to the caller.
ClaimFails(w) ==
    LET i == Cur(w).id
    IN  /\ wpc[w] = "claim"
        /\ Fails
        /\ \/ rows' = rows
           \/ Claimable(i) /\ ~IdTaken(w) /\ rows' = AfterClaim(w)
        /\ IF qos[i] > 0 THEN ReturnInflight(conn[w]) ELSE KeepInflight
        /\ KeepHistory
        /\ Finish(w, IF qos[i] > 0 THEN "error" ELSE "skip")
        /\ UNCHANGED <<qos, expired, pc, reg, pidState, seeded, aliasOut, handling, packetVars,
                       cut, clientVars>>

\* The client gets PUBLISH i on c and answers.  A QoS 2 packet id it holds is a
\* retransmission; it may refuse a new one.
ClientGets(c, i, p, refuse) ==
    LET new == qos[i] < 2 \/ p \notin held
        ack == IF qos[i] = 1 THEN "puback" ELSE IF refuse THEN "refuse" ELSE "pubrec"
    IN  /\ refuse => Rejects /\ qos[i] = 2 /\ new
        /\ got' = [got EXCEPT ![i] = IF new THEN UpTo2(@) ELSE @]
        /\ held' = IF qos[i] = 2 /\ ~refuse THEN held \cup {p} ELSE held
        /\ owed' = IF qos[i] = 0 THEN owed
                   ELSE [owed EXCEPT ![c] = Append(@, [type |-> ack, pid |-> p])]
        /\ open' = IF qos[i] = 0 THEN open ELSE [open EXCEPT ![c] = @ \cup {p}]

\* conn.write succeeds; what is written to a socket the client gave up is lost.
Write(w) ==
    LET c == conn[w]
        i == Cur(w).id
    IN  /\ wpc[w] = "write"
        /\ pc[c] = "up"
        /\ fresh' = [fresh EXCEPT ![i] = IF Cur(w).st = "queued" THEN UpTo2(@) ELSE @]
        /\ introduced' = [introduced EXCEPT ![c] = @ \/ (Aliases /\ ~bare[w])]
        /\ IF cut[c] THEN UNCHANGED <<got, held, owed, open>>
           ELSE \E refuse \in BOOLEAN : ClientGets(c, i, pid[w], refuse)
        /\ Finish(w, "sent")
        /\ UNCHANGED <<rowVars, lstVars, pc, reg, connVars, handling, packetVars, cut>>

\* conn.write fails: closing is set, or the peer is gone.  The row stays claimed.
WriteFails(w) ==
    /\ wpc[w] = "write"
    /\ pc[conn[w]] = "closed" \/ cut[conn[w]]
    /\ IF qos[Cur(w).id] > 0
       THEN ReturnInflight(conn[w]) /\ Settle(conn[w], {Cur(w).id}, TRUE)
       ELSE KeepInflight /\ KeepHistory
    /\ Finish(w, "error")
    /\ UNCHANGED <<rowVars, lstVars, pc, reg, pidState, seeded, aliasOut, handling, packetVars,
                   cut, clientVars>>

\* The client gets PUBREL and answers PUBCOMP.
ClientReleases(c, p) ==
    /\ held' = held \ {p}
    /\ owed' = [owed EXCEPT ![c] = Append(@, [type |-> "pubcomp", pid |-> p])]

\* A resume's row in state 2: PUBREL on the Conn's own socket.
ResumeRelease(c) ==
    /\ wpc[c] = "take" /\ Cur(c).st = "awaiting_pubcomp"
    /\ pc[c] = "up"
    /\ IF cut[c] THEN UNCHANGED <<held, owed>> ELSE ClientReleases(c, Cur(c).pid)
    /\ Finish(c, "sent")
    /\ UNCHANGED <<rowVars, lstVars, pc, reg, connVars, handling, packetVars, cut,
                   got, open, fresh, introduced>>

ResumeReleaseFails(c) ==
    /\ wpc[c] = "take" /\ Cur(c).st = "awaiting_pubcomp"
    /\ pc[c] = "closed" \/ cut[c]
    /\ Finish(c, "error")
    /\ UNCHANGED <<rowVars, lstVars, pc, reg, connVars, handling, packetVars, cut, clientVars>>

-----------------------------------------------------------------------------
(* Acknowledgements.                                                       *)

\* The read loop of c gets an acknowledgement.
ReadAck(c) ==
    /\ pc[c] = "up" /\ run[c] = "loop" /\ handling[c] = NoAck /\ owed[c] # << >>
    /\ handling' = [handling EXCEPT ![c] = Head(owed[c])]
    /\ owed' = [owed EXCEPT ![c] = Tail(@)]
    /\ open' = IF Head(owed[c]).type = "pubrec" THEN open
               ELSE [open EXCEPT ![c] = @ \ {Head(owed[c]).pid}]
    /\ UNCHANGED <<rowVars, lstVars, pc, reg, connVars, workVars, packetVars, cut,
                   held, got, fresh, introduced>>

\* Mutant: without the packet id.
AckedRowAnyPid(p, q) == {i \in Ids : Live(i) /\ qos[i] = q}

\* The row a final acknowledgement on this packet id and QoS is about.
AckedRow(p, q) == {i \in Ids : Live(i) /\ rows[i].pid = p /\ qos[i] = q}

\* Mutant: a slot is released only for QoS 1.
ReleasesPubackOnly(ack, done) == ack.type = "puback" /\ done # {}

\* Whether the handler calls returnInflight; after PUBREC >= 0x80 it always does.
Releases(ack, done) == done # {} \/ ack.type = "refuse"

\* The rows a final acknowledgement is about.
Acked(ack) == AckedRow(ack.pid, IF ack.type = "puback" THEN 1 ELSE 2)

\* The table after the handler's statement.  handlePuback, handlePubcomp, handlePubrec with
\* reason >= 0x80: DELETE.  handlePubrec otherwise: state 1 becomes 2.
AckEffect(ack) ==
    [i \in Ids |->
        IF i \notin Acked(ack) THEN rows[i]
        ELSE IF ack.type # "pubrec" THEN Gone
        ELSE IF rows[i].st = "inflight" THEN [rows[i] EXCEPT !.st = "awaiting_pubcomp"]
        ELSE rows[i]]

HandleFinalAck(c) ==
    LET ack  == handling[c]
        done == Acked(ack)
    IN  /\ ack.type \in {"puback", "pubcomp", "refuse"}
        /\ handling' = [handling EXCEPT ![c] = NoAck]
        /\ rows' = AckEffect(ack)
        /\ IF Releases(ack, done) THEN ReturnInflight(c) ELSE KeepInflight
        /\ Settle(c, done, Releases(ack, done))
        /\ UNCHANGED <<qos, expired, lstVars, pc, reg, pidState, seeded, aliasOut, workVars,
                       packetVars, cut, clientVars>>

\* handlePubrec: PUBREL is written whatever was found.
HandlePubrec(c) ==
    /\ handling[c].type = "pubrec"
    /\ handling' = [handling EXCEPT ![c] = NoAck]
    /\ rows' = AckEffect(handling[c])
    /\ IF cut[c] THEN UNCHANGED <<held, owed>> ELSE ClientReleases(c, handling[c].pid)
    /\ UNCHANGED <<qos, expired, lstVars, pc, reg, connVars, workVars, packetVars, cut,
                   got, open, fresh, introduced>>

\* The statement fails, executed or not: the handler returns the error.  No slot is given
\* back but for PUBREC >= 0x80, and no PUBREL is written.
AckFails(c) ==
    LET ack == handling[c]
    IN  /\ ack \notin {NoAck, Failed}
        /\ Fails
        /\ handling' = [handling EXCEPT ![c] = Failed]
        /\ rows' \in {rows, AckEffect(ack)}
        /\ IF ack.type = "refuse" THEN ReturnInflight(c) /\ Settle(c, Acked(ack), TRUE)
           ELSE KeepInflight /\ KeepHistory
        /\ UNCHANGED <<qos, expired, pc, reg, pidState, seeded, aliasOut, workVars, packetVars,
                       cut, clientVars>>

\* The error ends the read loop: handleDisconnect and the deferred shutdown.
EndOnError(c) ==
    /\ handling[c] = Failed
    /\ handling' = [handling EXCEPT ![c] = NoAck]
    /\ pc' = [pc EXCEPT ![c] = "closed"]
    /\ reg' = IF reg = c THEN None ELSE reg
    /\ cut' = [cut EXCEPT ![c] = TRUE]
    /\ UNCHANGED <<rowVars, lstVars, connVars, workVars, packetVars, clientVars>>

-----------------------------------------------------------------------------

DeliverStep(w) ==
    \/ SkipUnconnected(w) \/ DropUndeliverable(w) \/ SkipNoSlot(w) \/ Begin(w)
    \/ Alloc(w) \/ AllocFails(w) \/ Claim(w) \/ ClaimFails(w) \/ Write(w) \/ WriteFails(w)

WorkerStep(c) ==
    \/ ResumeScan(c) \/ DrainWake(c) \/ DrainScan(c) \/ ScanFails(c)
    \/ ResumeRelease(c) \/ ResumeReleaseFails(c)
    \/ DeliverStep(c)

ListenerStep == ListenerBack \/ DeliverScan \/ DeliverScanFails \/ DeliverStep(L)

AckStep(c) ==
    \/ ReadAck(c) \/ HandleFinalAck(c) \/ HandlePubrec(c)
    \/ AckFails(c) \/ EndOnError(c)

Surroundings ==
    \/ \E i \in Ids : (\E q \in Qoss[i] : Publish(i, q)) \/ Expire(i)
    \/ \E c \in Conns : Connect(c) \/ Cut(c) \/ Close(c)
    \/ ListenerDrop

Next ==
    \/ Surroundings
    \/ ListenerStep
    \/ \E c \in Conns : WorkerStep(c) \/ AckStep(c)

Spec == Init /\ [][Next]_vars

\* Goroutines run, the listener comes back, and a client that is connected
\* acknowledges; nothing else has to happen.
Fairness ==
    /\ WF_vars(ListenerStep)
    /\ \A c \in Conns : WF_vars(WorkerStep(c)) /\ WF_vars(AckStep(c))

FairSpec == Spec /\ Fairness

-----------------------------------------------------------------------------
(* Properties.                                                             *)

\* However the listener, a resume and the drain loops of several Conns race for a
\* row, it is written without DUP at most once: the claim decides.  For QoS 0 this
\* is at-most-once delivery.
FreshAtMostOnce == \A i \in Ids : fresh[i] <= 1

\* Nobody but c has connected so far.
Alone(c) == \A d \in Conns \ {c} : pc[d] = "idle"

\* c has not ended, and no handler of it has failed.
Serving(c) == pc[c] = "up" /\ handling[c] # Failed

\* The rows c holds a slot for, and the workers that hold one for a claim on c.
Held(c)     == {i \in Ids : via[i] = c}
Claiming(c) == {w \in Workers : conn[w] = c /\ (wpc[w] = "alloc"
                                   \/ (wpc[w] = "claim" /\ qos[Cur(w).id] > 0))}

\* The slots of Conn.inflight, on every path and with failing statements.  No slot leaks: each
\* belongs to a row that was claimed on the Conn or to a claim under way.  None is freed twice
\* but those counted by `extra`.  While a client's first connection serves it, a row that holds
\* a slot is in flight or has expired, and a slot is freed twice only by PUBREC >= 0x80, after
\* a failed statement or a failed write.
SlotsMatchRows ==
    \A c \in Conns :
        LET due == Cardinality(Held(c)) + Cardinality(Claiming(c))
        IN  /\ slots[c] <= due
            /\ due <= slots[c] + extra[c]
            /\ Serving(c) /\ Alone(c) =>
                 /\ \A i \in Held(c) :
                        rows[i].st \in {"inflight", "awaiting_pubcomp"} \/ i \in expired
                 /\ extra[c] > 0 => Rejects \/ errs > 0 \/ cut[c]

\* A slot of c is lost: its row was deleted as expired.
Leaked(c) == \E i \in Held(c) : rows[i].st = "gone"

\* A queued row of a connected client that acknowledges is delivered, also when its NOTIFY
\* found no free slot or was lost.  A failing statement may leave it in the queue without a
\* kick; the next kick (returnInflight, a listener that is back) delivers it, unless one more
\* statement fails.
DeliveryCompletes ==
    \A i \in Ids, c \in Conns, n \in 0..MaxErrs :
        (rows[i].st = "queued" /\ qos[i] > 0 /\ reg = c /\ errs = n /\ (n = 0 \/ kick[c]))
            ~> (rows[i].st = "gone" \/ cut[c] \/ errs > n \/ Leaked(c))

\* An acknowledgement finds its row by packet id alone (handlePuback, handlePubcomp).  On a
\* client's first connection it never deletes a row the client has not been sent, as long as
\* the packet ids have not gone round.  On a later one it may: a packet id that is free again is
\* given out while the handler of the old socket, or a resume that read the old row, still works
\* with it.
AckedWasReceived ==
    [][\A i \in Ids, c \in Conns :
          HandleFinalAck(c) /\ Alone(c) /\ ~cut[c] /\ Live(i) /\ rows'[i].st = "gone"
              => got[i] > 0]_vars

-----------------------------------------------------------------------------
(* What the repository says of the program and the program does not do.    *)
(* TLC refutes both on small instances (see the README); no run is kept    *)
(* for them.                                                               *)

\* conn.go, inflight: the server never has more unacknowledged PUBLISHes with QoS > 0 on a
\* socket than the client's Receive Maximum.  Refuted: the rows in flight that a resume sends
\* again hold no slot on the new connection.
WindowRespected == \A c \in Conns : Cardinality(open[c]) <= Cap

\* deliver.go, deliverOneTracked: the first PUBLISH that uses a topic alias on a
\* connection carries the topic too.  Refuted: the alias is recorded before its PUBLISH is
\* known to be sent.
AliasIntroduced ==
    [][\A w \in Workers : Write(w) /\ bare[w] => introduced[conn[w]]]_vars
=============================================================================
