------------------------------ MODULE Sessions ------------------------------
(***************************************************************************)
(* The life of ONE client_id in pgmqtt: its row in the Postgres table      *)
(* `sessions`, the sockets (Conns) that claim it on the broker pods, and   *)
(* the three background parties that also write the row or close sockets:  *)
(* the ownership sweep, the listener and the janitor.                      *)
(*                                                                         *)
(* Every statement of the code is keyed by client_id, and the batched ones *)
(* are the union of their rows, so one client_id is enough.                *)
(*                                                                         *)
(* Identities.  A Conn is one accepted socket; it runs handleConnect once. *)
(* sessions.session_token is rotated to a fresh random UUID by every       *)
(* takeOwnership and by nothing else, so the token IS the Conn that        *)
(* rotated it.  A pod draws a fresh UUID at start (listener.Start), so a   *)
(* restarted pod is another element of Brokers and an exit is for good.    *)
(*                                                                         *)
(* Interleaving.  One action is one Postgres transaction, or one stretch   *)
(* of code between two of them.  Time only matters through the two         *)
(* timestamps of the row, which are null, armed (in the future) or due.    *)
(***************************************************************************)
EXTENDS Naturals, FiniteSets

CONSTANTS
    Brokers,     \* broker pods, by their per-process UUID
    Conns,       \* client sockets, in no particular order
    None,        \* SQL NULL / Go nil
    Wills,       \* will kinds a CONNECT may carry, a subset of WillKinds
    Lives,       \* session lifetimes a CONNECT may ask for, a subset of LifeKinds
    Crashable,   \* pods that may die at any point
    Stoppable,   \* pods that may be shut down gracefully
    QuotaKicks,  \* TRUE: the client may exceed its pending-delivery cap
    MaxDrops,    \* bound: how often a listener loses its Postgres session
    MaxErrs      \* bound: how many statements fail

\* will_delay absent or 0 / will_delay > 0, as in the columns will_topic, will_delay.
WillKinds == {"none", "now", "delayed"}

\* clean: the row goes at disconnect (v3 cleanSession, v5 expiry 0 or absent);
\* expiring: a finite v5 SessionExpiryInterval; forever: v3 persistent, 0xFFFFFFFF.
LifeKinds == {"clean", "expiring", "forever"}

ASSUME BrokersAssumption == Brokers # {} /\ None \notin Brokers
ASSUME ConnsAssumption   == Conns # {} /\ None \notin Conns
ASSUME InputsAssumption  == Wills \subseteq WillKinds /\ Lives \subseteq LifeKinds
ASSUME FaultsAssumption  == /\ Crashable \subseteq Brokers /\ Stoppable \subseteq Brokers
                            /\ QuotaKicks \in BOOLEAN
                            /\ MaxDrops \in Nat /\ MaxErrs \in Nat

VARIABLES
    row,        \* the sessions row; token = None when there is no row
    pc,         \* where the goroutine of each Conn stands
    at,         \* the pod each Conn was accepted on
    will,       \* Conn.willTopic / willDelay
    life,       \* Conn.cleanStart / sessionExpiry, as read by handleDisconnect
    closing,    \* Conn.closing: shutdown() has run
    takenOver,  \* Conn.takenOver
    prev,       \* broker and token of the owner that takeOwnership replaced
    displaced,  \* the Conn that registerConn found and returned
    act,        \* what handleDisconnect decided about the will
    conns,      \* Engine.conns[client_id] on each pod
    up,         \* life cycle of each pod
    sweep,      \* TRUE: the pod's sweep holds the client in its orphan list
    lst,        \* where the listener goroutine stands
    attest,     \* the Conn AttestOwnedSessions took from Engine.conns
    lock,       \* who holds the pod's advisory lock
    notices,    \* tokens in undelivered takeover NOTIFYs, per pod
    quota,      \* tokens in undelivered quota NOTIFYs, per pod
    jpc,        \* where each pod's janitor stands
    jdead,      \* the pod its handleDeadBroker is working on
    jwill,      \* the Conn whose immediate will that scan selected
    rowLock,    \* the janitor whose fireDueWills holds the FOR UPDATE lock
    fired,      \* how often each Conn's will has been published, up to 2
    drops, errs \* used up so far

connVars   == <<pc, at, will, life, closing, takenOver, prev, displaced, act>>
podVars    == <<conns, up, sweep>>
lstVars    == <<lst, attest, lock, notices, quota>>
janVars    == <<jpc, jdead, jwill, rowLock>>
budgetVars == <<drops, errs>>
vars       == <<row, connVars, podVars, lstVars, janVars, fired, budgetVars>>

Timer   == {"null", "armed", "due"}
ConnPcs == {"idle", "notify", "register", "shutprev", "cleanup", "running",
            "decide", "fire", "write", "closed"}

Row == [broker    : Brokers \cup {None},
        connected : BOOLEAN,
        token     : Conns,
        will      : WillKinds,
        fireAt    : Timer,              \* will_fire_at
        expAt     : Timer]              \* session_expires_at

NoRow == [broker |-> None, connected |-> FALSE, token |-> None,
          will |-> "none", fireAt |-> "null", expAt |-> "null"]

TypeOK ==
    /\ row \in Row \cup {NoRow}
    /\ pc \in [Conns -> ConnPcs]
    /\ at \in [Conns -> Brokers \cup {None}]
    /\ will \in [Conns -> WillKinds]
    /\ life \in [Conns -> LifeKinds]
    /\ closing \in [Conns -> BOOLEAN]
    /\ takenOver \in [Conns -> BOOLEAN]
    /\ prev \in [Conns -> [broker : Brokers \cup {None}, token : Conns \cup {None}]]
    /\ displaced \in [Conns -> Conns \cup {None}]
    /\ act \in [Conns -> {"none", "now", "at", "fired"}]
    /\ conns \in [Brokers -> Conns \cup {None}]
    /\ up \in [Brokers -> {"up", "draining", "detached", "gone"}]
    /\ sweep \in [Brokers -> BOOLEAN]
    /\ lst \in [Brokers -> {"wait", "attest"}]
    /\ attest \in [Brokers -> Conns \cup {None}]
    /\ lock \in [Brokers -> {"free", "own", "janitor"}]
    /\ notices \in [Brokers -> SUBSET Conns]
    /\ quota \in [Brokers -> SUBSET Conns]
    /\ jpc \in [Brokers -> {"idle", "deadfire", "step1", "step2", "publish", "clear"}]
    /\ jdead \in [Brokers -> Brokers \cup {None}]
    /\ jwill \in [Brokers -> Conns \cup {None}]
    /\ rowLock \in Brokers \cup {None}
    /\ fired \in [Conns -> 0..2]
    /\ drops \in 0..MaxDrops
    /\ errs \in 0..MaxErrs

Init ==
    /\ row = NoRow
    /\ pc = [c \in Conns |-> "idle"]
    /\ at = [c \in Conns |-> None]
    /\ will = [c \in Conns |-> "none"]
    /\ life = [c \in Conns |-> "clean"]
    /\ closing = [c \in Conns |-> FALSE]
    /\ takenOver = [c \in Conns |-> FALSE]
    /\ prev = [c \in Conns |-> [broker |-> None, token |-> None]]
    /\ displaced = [c \in Conns |-> None]
    /\ act = [c \in Conns |-> "none"]
    /\ conns = [b \in Brokers |-> None]
    /\ up = [b \in Brokers |-> "up"]
    /\ sweep = [b \in Brokers |-> FALSE]
    /\ lst = [b \in Brokers |-> "wait"]
    /\ attest = [b \in Brokers |-> None]
    /\ lock = [b \in Brokers |-> "own"]
    /\ notices = [b \in Brokers |-> {}]
    /\ quota = [b \in Brokers |-> {}]
    /\ jpc = [b \in Brokers |-> "idle"]
    /\ jdead = [b \in Brokers |-> None]
    /\ jwill = [b \in Brokers |-> None]
    /\ rowLock = None
    /\ fired = [c \in Conns |-> 0]
    /\ drops = 0
    /\ errs = 0

-----------------------------------------------------------------------------
(* Helpers.                                                                *)

\* A writer of the row waits while a fireDueWills transaction holds it.
RowFree == rowLock = None

\* A statement fails (pool exhausted, connection reset, Postgres failover).
Fails == errs < MaxErrs /\ errs' = errs + 1

\* Conn.shutdown of the sockets S: closing is set, Engine.conns forgets the
\* Conn if it is still the registered one.  A goroutine in the read loop gets a
\* read error and handleDisconnect returns at once because closing is set.
Shutdown(S) ==
    /\ closing' = [c \in Conns |-> closing[c] \/ c \in S]
    /\ pc' = [c \in Conns |-> IF c \in S /\ pc[c] = "running" THEN "closed" ELSE pc[c]]
    /\ conns' = [b \in Brokers |-> IF conns[b] \in S THEN None ELSE conns[b]]

\* Mutant: unregistering without the "if same" check.
ReturnUnregistersAny(c) ==
    /\ closing' = [closing EXCEPT ![c] = TRUE]
    /\ pc' = [pc EXCEPT ![c] = "closed"]
    /\ conns' = [b \in Brokers |-> IF b = at[c] THEN None ELSE conns[b]]

\* The goroutine of c returns from run(): the deferred shutdown.
Return(c) ==
    /\ closing' = [closing EXCEPT ![c] = TRUE]
    /\ pc' = [pc EXCEPT ![c] = "closed"]
    /\ conns' = [b \in Brokers |-> IF conns[b] = c THEN None ELSE conns[b]]

\* The next value of fired when the will of c is published.
Publish(c) == [d \in Conns |-> IF d = c /\ fired[d] < 2 THEN fired[d] + 1 ELSE fired[d]]

-----------------------------------------------------------------------------
(* CONNECT.                                                                *)

\* Mutant: the SELECT reads the previous owner's pod but not its token.
PreviousPodOnly == [broker |-> row.broker, token |-> None]

\* The owner that takeOwnership finds.
Previous == [broker |-> row.broker, token |-> row.token]

\* takeOwnership: SELECT ... FOR UPDATE, then UPDATE or INSERT with a fresh
\* session_token.  will_fire_at and session_expires_at are left as they are.
TakeOwnership(c, b, w, l) ==
    /\ pc[c] = "idle"
    /\ up[b] = "up"
    /\ RowFree
    /\ row' = [row EXCEPT !.broker = b, !.connected = TRUE, !.token = c, !.will = w]
    /\ prev' = [prev EXCEPT ![c] = Previous]
    /\ pc' = [pc EXCEPT ![c] = IF row.broker \in {None, b} THEN "register" ELSE "notify"]
    /\ at' = [at EXCEPT ![c] = b]
    /\ will' = [will EXCEPT ![c] = w]
    /\ life' = [life EXCEPT ![c] = l]
    /\ UNCHANGED <<closing, takenOver, displaced, act, podVars,
                   lstVars, janVars, fired, budgetVars>>

\* NotifyTakeover to the previous owner's pod; nobody hears it when that pod's
\* Postgres session is gone.
NotifyTakeover(c) ==
    LET p == prev[c].broker IN
    /\ pc[c] = "notify"
    /\ pc' = [pc EXCEPT ![c] = "register"]
    /\ notices' = IF lock[p] = "own"
                  THEN [notices EXCEPT ![p] = @ \cup {prev[c].token}]
                  ELSE notices
    /\ UNCHANGED <<row, at, will, life, closing, takenOver, prev, displaced, act, podVars,
                   lst, attest, lock, quota, janVars, fired, budgetVars>>

\* The error of NotifyTakeover is logged, and the handshake goes on.
NotifyTakeoverFails(c) ==
    /\ pc[c] = "notify"
    /\ Fails
    /\ pc' = [pc EXCEPT ![c] = "register"]
    /\ UNCHANGED <<row, at, will, life, closing, takenOver, prev, displaced, act, podVars,
                   lstVars, janVars, fired, drops>>

\* registerConn: the swap in Engine.conns.
RegisterConn(c) ==
    LET p == conns[at[c]] IN
    /\ pc[c] = "register"
    /\ conns' = [conns EXCEPT ![at[c]] = c]
    /\ displaced' = [displaced EXCEPT ![c] = p]
    /\ pc' = [pc EXCEPT ![c] = IF p = None THEN "cleanup" ELSE "shutprev"]
    /\ UNCHANGED <<row, at, will, life, closing, takenOver, prev, act, up, sweep,
                   lstVars, janVars, fired, budgetVars>>

\* After the unlock: whichever Conn was registered before is marked and shut down.  It is in
\* Engine.conns no more, so there is nothing to unregister.
ShutdownPrev(c) ==
    LET p == displaced[c] IN
    /\ pc[c] = "shutprev"
    /\ closing' = [closing EXCEPT ![p] = TRUE]
    /\ takenOver' = [takenOver EXCEPT ![p] = TRUE]
    /\ pc' = [d \in Conns |-> IF d = c THEN "cleanup"
                               ELSE IF d = p /\ pc[d] = "running" THEN "closed" ELSE pc[d]]
    /\ displaced' = [displaced EXCEPT ![c] = None]
    /\ UNCHANGED <<row, at, will, life, prev, act, podVars, lstVars, janVars, fired, budgetVars>>

\* Mutant: the cleanup leaves will_fire_at alone.
CleanupKeepsFireAt(c) ==
    /\ pc[c] = "cleanup"
    /\ RowFree
    /\ row' = [row EXCEPT !.expAt = "null"]
    /\ pc' = [pc EXCEPT ![c] = IF closing[c] THEN "closed" ELSE "running"]
    /\ UNCHANGED <<at, will, life, closing, takenOver, prev, displaced, act, podVars,
                   lstVars, janVars, fired, budgetVars>>

\* The cleanup transaction, then CONNACK, whose write fails if closing is set.
Cleanup(c) ==
    /\ pc[c] = "cleanup"
    /\ RowFree
    /\ row' = [row EXCEPT !.fireAt = "null", !.expAt = "null"]
    /\ pc' = [pc EXCEPT ![c] = IF closing[c] THEN "closed" ELSE "running"]
    /\ UNCHANGED <<at, will, life, closing, takenOver, prev, displaced, act, podVars,
                   lstVars, janVars, fired, budgetVars>>

\* dropConnectOnInfraError: the socket is dropped without handleDisconnect.
CleanupFails(c) ==
    /\ pc[c] = "cleanup"
    /\ Fails
    /\ Return(c)
    /\ UNCHANGED <<row, at, will, life, takenOver, prev, displaced, act, up, sweep,
                   lstVars, janVars, fired, drops>>

-----------------------------------------------------------------------------
(* The end of a connection that the client or its network ended.           *)

\* Read error, keepalive timeout or protocol error: handleDisconnect starts,
\* and finds closing unset.
ConnectionLost(c) ==
    /\ pc[c] = "running"
    /\ pc' = [pc EXCEPT ![c] = "decide"]
    /\ UNCHANGED <<row, at, will, life, closing, takenOver, prev, displaced, act, podVars,
                   lstVars, janVars, fired, budgetVars>>

\* A DISCONNECT packet: the will is dropped unless the reason is 0x04 (keep), and
\* a v5 packet may replace the session expiry, but not raise it from 0.
GracefulDisconnect(c, keep, l) ==
    /\ pc[c] = "running"
    /\ life[c] = "clean" => l = "clean"
    /\ pc' = [pc EXCEPT ![c] = "decide"]
    /\ will' = [will EXCEPT ![c] = IF keep THEN @ ELSE "none"]
    /\ life' = [life EXCEPT ![c] = l]
    /\ UNCHANGED <<row, at, closing, takenOver, prev, displaced, act, podVars,
                   lstVars, janVars, fired, budgetVars>>

\* What handleDisconnect does with the will.  The delay is the smaller of will
\* delay and session expiry, so a session that ends at once publishes at once.
WillDecision(c) ==
    IF will[c] = "none" \/ takenOver[c] THEN "none"
    ELSE IF will[c] = "delayed" /\ life[c] # "clean" THEN "at" ELSE "now"

Decide(c) ==
    /\ pc[c] = "decide"
    /\ act' = [act EXCEPT ![c] = WillDecision(c)]
    /\ pc' = [pc EXCEPT ![c] = IF WillDecision(c) = "now" THEN "fire" ELSE "write"]
    /\ UNCHANGED <<row, at, will, life, closing, takenOver, prev, displaced, podVars,
                   lstVars, janVars, fired, budgetVars>>

\* fireWill, a transaction of its own.
FireWill(c) ==
    /\ pc[c] = "fire"
    /\ fired' = Publish(c)
    /\ act' = [act EXCEPT ![c] = "fired"]
    /\ pc' = [pc EXCEPT ![c] = "write"]
    /\ UNCHANGED <<row, at, will, life, closing, takenOver, prev, displaced, podVars,
                   lstVars, janVars, budgetVars>>

FireWillFails(c) ==
    /\ pc[c] = "fire"
    /\ Fails
    /\ act' = [act EXCEPT ![c] = "none"]
    /\ pc' = [pc EXCEPT ![c] = "write"]
    /\ UNCHANGED <<row, at, will, life, closing, takenOver, prev, displaced, podVars,
                   lstVars, janVars, fired, drops>>

\* Mutant: the UPDATE is not scoped to the session_token.
RowAfterUnscopedDisconnect(c) ==
    IF life[c] = "clean" THEN NoRow
    ELSE [row EXCEPT !.broker = None, !.connected = FALSE]

\* The row after the token-scoped DELETE or UPDATE of handleDisconnect.
RowAfterDisconnect(c) ==
    IF row.token # c THEN row
    ELSE IF life[c] = "clean" THEN NoRow
    ELSE [row EXCEPT !.broker = None, !.connected = FALSE,
                     !.fireAt = IF act[c] = "at" THEN "armed" ELSE "null",
                     !.expAt  = IF life[c] = "expiring" THEN "armed" ELSE "null",
                     !.will   = IF act[c] = "fired" THEN "none" ELSE @]

\* That statement and the return from run(); nobody can tell the two apart who
\* does not hold an earlier copy of Engine.conns.
DisconnectWrite(c) ==
    /\ pc[c] = "write"
    /\ RowFree
    /\ row' = RowAfterDisconnect(c)
    /\ Return(c)
    /\ UNCHANGED <<at, will, life, takenOver, prev, displaced, act, up, sweep,
                   lstVars, janVars, fired, budgetVars>>

DisconnectWriteFails(c) ==
    /\ pc[c] = "write"
    /\ Fails
    /\ Return(c)
    /\ UNCHANGED <<row, at, will, life, takenOver, prev, displaced, act, up, sweep,
                   lstVars, janVars, fired, drops>>

-----------------------------------------------------------------------------
(* The pod: ownership sweep, quota, graceful shutdown, exit.               *)

\* Mutant: the sweep looks for detached rows instead of rows that moved.
OrphanedIfDetached(b) == conns[b] # None /\ row.broker = None

\* A client in Engine.conns whose row names another pod.
Orphaned(b) == conns[b] # None /\ row.broker \notin {None, b}

\* sweepOrphanedSockets: the snapshot of Engine.conns and the query.
SweepQuery(b) ==
    /\ up[b] = "up"
    /\ ~sweep[b]
    /\ Orphaned(b)
    /\ sweep' = [sweep EXCEPT ![b] = TRUE]
    /\ UNCHANGED <<row, connVars, conns, up, lstVars, janVars, fired, budgetVars>>

\* ... and the shutdown of the Conn now registered under such an id.
SweepClose(b) ==
    /\ sweep[b]
    /\ sweep' = [sweep EXCEPT ![b] = FALSE]
    /\ Shutdown({conns[b]} \ {None})
    /\ UNCHANGED <<row, at, will, life, takenOver, prev, displaced, act, up,
                   lstVars, janVars, fired, budgetVars>>

\* dispatchQuotaExceeded on the pod that owns the row: the Conn whose token it
\* reads is closed, if it is still the registered one.
QuotaKick(b) ==
    /\ QuotaKicks
    /\ up[b] # "gone"
    /\ row.connected /\ row.broker = b
    /\ conns[b] = row.token
    /\ Shutdown({row.token})
    /\ UNCHANGED <<row, at, will, life, takenOver, prev, displaced, act, up, sweep,
                   lstVars, janVars, fired, budgetVars>>

\* dispatchQuotaExceeded on another pod: NotifyQuota.  A second one for the same
\* token changes nothing.
QuotaNotify(b) ==
    /\ QuotaKicks
    /\ row.connected /\ row.broker = b
    /\ lock[b] = "own"
    /\ row.token \notin quota[b] /\ ~closing[row.token]
    /\ quota' = [quota EXCEPT ![b] = @ \cup {row.token}]
    /\ UNCHANGED <<row, connVars, podVars, lst, attest, lock, notices, janVars, fired, budgetVars>>

\* shutdownGracefully: listeners closed, every registered Conn closed ...
StopBegin(b) ==
    /\ b \in Stoppable
    /\ up[b] = "up"
    /\ up' = [up EXCEPT ![b] = "draining"]
    /\ Shutdown({conns[b]} \ {None})
    /\ UNCHANGED <<row, at, will, life, takenOver, prev, displaced, act, sweep,
                   lstVars, janVars, fired, budgetVars>>

\* ... then the pod lets go of every row it owns.
StopDetach(b) ==
    /\ up[b] = "draining"
    /\ RowFree
    /\ up' = [up EXCEPT ![b] = "detached"]
    /\ row' = IF row.broker = b THEN [row EXCEPT !.broker = None, !.connected = FALSE] ELSE row
    /\ UNCHANGED <<connVars, conns, sweep, lstVars, janVars, fired, budgetVars>>

\* The process ends: after a graceful stop, by a crash, or by osExit when the
\* listener runs out of reconnect attempts.  Postgres ends its sessions, which
\* releases its locks and rolls back its transactions.
Exit(b) ==
    /\ up[b] = "detached" \/ (b \in Crashable /\ up[b] # "gone")
    /\ up' = [up EXCEPT ![b] = "gone"]
    /\ pc' = [c \in Conns |-> IF at[c] = b THEN "closed" ELSE pc[c]]
    /\ closing' = [c \in Conns |-> closing[c] \/ at[c] = b]
    /\ conns' = [conns EXCEPT ![b] = None]
    /\ sweep' = [sweep EXCEPT ![b] = FALSE]
    /\ lst' = [lst EXCEPT ![b] = "wait"]
    /\ attest' = [attest EXCEPT ![b] = None]
    /\ lock' = [d \in Brokers |-> IF (d = b /\ lock[d] = "own") \/ jdead[b] = d THEN "free" ELSE lock[d]]
    /\ notices' = [notices EXCEPT ![b] = {}]
    /\ quota' = [quota EXCEPT ![b] = {}]
    /\ jpc' = [jpc EXCEPT ![b] = "idle"]
    /\ jdead' = [jdead EXCEPT ![b] = None]
    /\ jwill' = [jwill EXCEPT ![b] = None]
    /\ rowLock' = IF rowLock = b THEN None ELSE rowLock
    /\ UNCHANGED <<row, at, will, life, takenOver, prev, displaced, act, fired, budgetVars>>

-----------------------------------------------------------------------------
(* The listener.                                                           *)

\* Its Postgres session dies: the advisory lock and the LISTENs go with it, and
\* so do the notifications that were on their way.
ListenerDrop(b) ==
    /\ up[b] # "gone"
    /\ lock[b] = "own"
    /\ drops < MaxDrops
    /\ drops' = drops + 1
    /\ lock' = [lock EXCEPT ![b] = "free"]
    /\ notices' = [notices EXCEPT ![b] = {}]
    /\ quota' = [quota EXCEPT ![b] = {}]
    /\ UNCHANGED <<row, connVars, podVars, lst, attest, janVars, fired, errs>>

\* reconnect: pg_advisory_lock waits for a janitor that holds the lock; LISTEN;
\* AttestOwnedSessions copies ids and tokens out of Engine.conns.
Reconnect(b) ==
    /\ up[b] # "gone"
    /\ lst[b] = "wait"
    /\ lock[b] = "free"
    /\ lock' = [lock EXCEPT ![b] = "own"]
    /\ lst' = [lst EXCEPT ![b] = "attest"]
    /\ attest' = [attest EXCEPT ![b] = conns[b]]
    /\ UNCHANGED <<row, connVars, podVars, notices, quota, janVars, fired, budgetVars>>

\* Mutant: the UPDATE is scoped to the client_id only.
RowAfterAttestUnscoped(b) ==
    IF attest[b] # None /\ row.token # None
    THEN [row EXCEPT !.broker = b, !.connected = TRUE]
    ELSE row

\* Mutant: only rows that still say connected are attested.
RowAfterAttestConnected(b) ==
    IF attest[b] # None /\ row.token = attest[b] /\ row.connected
    THEN [row EXCEPT !.broker = b]
    ELSE row

\* The row after AttestOwnedSessions' token-scoped UPDATE.
RowAfterAttest(b) ==
    IF attest[b] # None /\ row.token = attest[b]
    THEN [row EXCEPT !.broker = b, !.connected = TRUE]
    ELSE row

AttestWrite(b) ==
    /\ lst[b] = "attest"
    /\ RowFree
    /\ row' = RowAfterAttest(b)
    /\ lst' = [lst EXCEPT ![b] = "wait"]
    /\ attest' = [attest EXCEPT ![b] = None]
    /\ UNCHANGED <<connVars, podVars, lock, notices, quota, janVars, fired, budgetVars>>

AttestWriteFails(b) ==
    /\ lst[b] = "attest"
    /\ Fails
    /\ lst' = [lst EXCEPT ![b] = "wait"]
    /\ attest' = [attest EXCEPT ![b] = None]
    /\ UNCHANGED <<row, connVars, podVars, lock, notices, quota, janVars, fired, drops>>

\* Mutant: the token in the payload is ignored.
AddresseeAny(b, t) == {conns[b]} \ {None}

\* The Conn a notification with token t closes: the registered one, if it holds t.
Addressee(b, t) == IF conns[b] = t THEN {t} ELSE {}

\* dispatchNotification on the takeover channel.
DispatchTakeover(b, t) ==
    /\ t \in notices[b]
    /\ lst[b] = "wait" /\ lock[b] = "own"
    /\ notices' = [notices EXCEPT ![b] = @ \ {t}]
    /\ takenOver' = [c \in Conns |-> takenOver[c] \/ c \in Addressee(b, t)]
    /\ Shutdown(Addressee(b, t))
    /\ UNCHANGED <<row, at, will, life, prev, displaced, act, up, sweep,
                   lst, attest, lock, quota, janVars, fired, budgetVars>>

\* dispatchNotification on the quota channel: QuotaExceededLocallyForToken.
DispatchQuota(b, t) ==
    /\ t \in quota[b]
    /\ lst[b] = "wait" /\ lock[b] = "own"
    /\ quota' = [quota EXCEPT ![b] = @ \ {t}]
    /\ Shutdown(Addressee(b, t))
    /\ UNCHANGED <<row, at, will, life, takenOver, prev, displaced, act, up, sweep,
                   lst, attest, lock, notices, janVars, fired, budgetVars>>

-----------------------------------------------------------------------------
(* The janitor of pod j.                                                   *)

JanitorIdle(j) == up[j] # "gone" /\ jpc[j] = "idle"

\* findDeadBrokerCandidates, pg_try_advisory_lock, and the SELECT of the wills.
DeadBrokerLock(j, d) ==
    LET w == IF row.will = "now" THEN row.token ELSE None IN
    /\ JanitorIdle(j)
    /\ row.broker = d
    /\ lock[d] = "free"
    /\ lock' = [lock EXCEPT ![d] = "janitor"]
    /\ jdead' = [jdead EXCEPT ![j] = d]
    /\ jwill' = [jwill EXCEPT ![j] = w]
    /\ jpc' = [jpc EXCEPT ![j] = IF w = None THEN "step1" ELSE "deadfire"]
    /\ UNCHANGED <<row, connVars, podVars, lst, attest, notices, quota, rowLock, fired, budgetVars>>

DeadBrokerFire(j) ==
    /\ jpc[j] = "deadfire"
    /\ fired' = Publish(jwill[j])
    /\ jpc' = [jpc EXCEPT ![j] = "step1"]
    /\ UNCHANGED <<row, connVars, podVars, lstVars, jdead, jwill, rowLock, budgetVars>>

\* A publish error is logged and the scan goes on.
DeadBrokerFireFails(j) ==
    /\ jpc[j] = "deadfire"
    /\ Fails
    /\ jpc' = [jpc EXCEPT ![j] = "step1"]
    /\ UNCHANGED <<row, connVars, podVars, lstVars, jdead, jwill, rowLock, fired, drops>>

\* Mutant: step 1 leaves connected set.
RowAfterStep1Connected(d) ==
    IF row.broker = d /\ row.will = "delayed"
    THEN [row EXCEPT !.broker = None, !.fireAt = "armed"]
    ELSE row

\* Step 1: a delayed will is scheduled, at the session's expiry at the latest.
RowAfterStep1(d) ==
    IF row.broker = d /\ row.will = "delayed"
    THEN [row EXCEPT !.broker = None, !.connected = FALSE,
                     !.fireAt = IF row.expAt = "due" THEN "due" ELSE "armed"]
    ELSE row

\* Mutant: step 2 keeps the will_topic filter of step 1.
RowAfterStep2WillsOnly(d) ==
    IF row.broker = d /\ row.will # "none"
    THEN [row EXCEPT !.broker = None, !.connected = FALSE, !.will = "none"]
    ELSE row

\* Step 2: what is left under the dead pod loses its owner and its will.
RowAfterStep2(d) ==
    IF row.broker = d
    THEN [row EXCEPT !.broker = None, !.connected = FALSE, !.will = "none"]
    ELSE row

DeadBrokerStep1(j) ==
    /\ jpc[j] = "step1"
    /\ RowFree
    /\ row' = RowAfterStep1(jdead[j])
    /\ jpc' = [jpc EXCEPT ![j] = "step2"]
    /\ UNCHANGED <<connVars, podVars, lstVars, jdead, jwill, rowLock, fired, budgetVars>>

\* handleDeadBroker returns: the deferred pg_advisory_unlock.
DeadBrokerUnlock(j) ==
    /\ lock' = [lock EXCEPT ![jdead[j]] = "free"]
    /\ jpc' = [jpc EXCEPT ![j] = "idle"]
    /\ jdead' = [jdead EXCEPT ![j] = None]
    /\ jwill' = [jwill EXCEPT ![j] = None]

DeadBrokerStep2(j) ==
    /\ jpc[j] = "step2"
    /\ RowFree
    /\ row' = RowAfterStep2(jdead[j])
    /\ DeadBrokerUnlock(j)
    /\ UNCHANGED <<connVars, podVars, lst, attest, notices, quota, rowLock, fired, budgetVars>>

DeadBrokerStepFails(j) ==
    /\ jpc[j] \in {"step1", "step2"}
    /\ Fails
    /\ DeadBrokerUnlock(j)
    /\ UNCHANGED <<row, connVars, podVars, lst, attest, notices, quota, rowLock, fired, drops>>

\* Mutant: the SELECT takes no row lock.
WillDueUnlocked == row.fireAt = "due" /\ row.will # "none"

\* Mutant: the SELECT asks for a pod, as the dead-broker query does.
WillDueAttached == RowFree /\ row.fireAt = "due" /\ row.will # "none" /\ row.broker # None

\* The SELECT ... FOR UPDATE SKIP LOCKED of fireDueWills finds the row.
WillDue == RowFree /\ row.fireAt = "due" /\ row.will # "none"

\* fireDueWills, first part.
DueWillSelect(j) ==
    /\ JanitorIdle(j)
    /\ WillDue
    /\ rowLock' = j
    /\ jpc' = [jpc EXCEPT ![j] = "publish"]
    /\ UNCHANGED <<row, connVars, podVars, lstVars, jdead, jwill, fired, budgetVars>>

DueWillPublish(j) ==
    /\ jpc[j] = "publish"
    /\ fired' = Publish(row.token)
    /\ jpc' = [jpc EXCEPT ![j] = "clear"]
    /\ UNCHANGED <<row, connVars, podVars, lstVars, jdead, jwill, rowLock, budgetVars>>

\* A publish error is logged; the row stays in the list that is cleared next.
DueWillPublishFails(j) ==
    /\ jpc[j] = "publish"
    /\ Fails
    /\ jpc' = [jpc EXCEPT ![j] = "clear"]
    /\ UNCHANGED <<row, connVars, podVars, lstVars, jdead, jwill, rowLock, fired, drops>>

\* UPDATE ... will_fire_at=NULL, will_*=NULL; commit.
DueWillClear(j) ==
    /\ jpc[j] = "clear"
    /\ row' = [row EXCEPT !.fireAt = "null", !.will = "none"]
    /\ rowLock' = None
    /\ jpc' = [jpc EXCEPT ![j] = "idle"]
    /\ UNCHANGED <<connVars, podVars, lstVars, jdead, jwill, fired, budgetVars>>

DueWillClearFails(j) ==
    /\ jpc[j] = "clear"
    /\ Fails
    /\ rowLock' = None
    /\ jpc' = [jpc EXCEPT ![j] = "idle"]
    /\ UNCHANGED <<row, connVars, podVars, lstVars, jdead, jwill, fired, drops>>

\* Mutant: only sessions without a will, so that wills are not lost with the row.
ExpireWillessSession(j) ==
    /\ JanitorIdle(j)
    /\ RowFree
    /\ ~row.connected /\ row.expAt = "due" /\ row.will = "none"
    /\ row' = NoRow
    /\ UNCHANGED <<connVars, podVars, lstVars, janVars, fired, budgetVars>>

\* expireSessions, one transaction.
ExpireSession(j) ==
    /\ JanitorIdle(j)
    /\ RowFree
    /\ ~row.connected /\ row.expAt = "due"
    /\ row' = NoRow
    /\ UNCHANGED <<connVars, podVars, lstVars, janVars, fired, budgetVars>>

-----------------------------------------------------------------------------
(* The clock.  will_fire_at never lies after session_expires_at.           *)

WillFallsDue ==
    /\ row.fireAt = "armed"
    /\ row' = [row EXCEPT !.fireAt = "due"]
    /\ UNCHANGED <<connVars, podVars, lstVars, janVars, fired, budgetVars>>

ExpiryFallsDue ==
    /\ row.expAt = "armed" /\ row.fireAt # "armed"
    /\ row' = [row EXCEPT !.expAt = "due"]
    /\ UNCHANGED <<connVars, podVars, lstVars, janVars, fired, budgetVars>>

-----------------------------------------------------------------------------

\* What a Conn's goroutine does on its own once its CONNECT has arrived.
ConnStep(c) ==
    \/ NotifyTakeover(c) \/ NotifyTakeoverFails(c)
    \/ RegisterConn(c) \/ ShutdownPrev(c)
    \/ Cleanup(c) \/ CleanupFails(c)
    \/ Decide(c)
    \/ FireWill(c) \/ FireWillFails(c)
    \/ DisconnectWrite(c) \/ DisconnectWriteFails(c)

\* What the client does.
ClientStep(c) ==
    \/ \E b \in Brokers, w \in Wills, l \in Lives : TakeOwnership(c, b, w, l)
    \/ ConnectionLost(c)
    \/ \E keep \in BOOLEAN, l \in Lives : GracefulDisconnect(c, keep, l)

SweepStep(b) == SweepQuery(b) \/ SweepClose(b)

ListenerStep(b) ==
    \/ Reconnect(b)
    \/ AttestWrite(b) \/ AttestWriteFails(b)
    \/ \E t \in Conns : DispatchTakeover(b, t) \/ DispatchQuota(b, t)

DeadBrokerStep(j) ==
    \/ \E d \in Brokers : DeadBrokerLock(j, d)
    \/ DeadBrokerFire(j) \/ DeadBrokerFireFails(j)
    \/ DeadBrokerStep1(j) \/ DeadBrokerStep2(j) \/ DeadBrokerStepFails(j)

DueWillStep(j) ==
    \/ DueWillSelect(j)
    \/ DueWillPublish(j) \/ DueWillPublishFails(j)
    \/ DueWillClear(j) \/ DueWillClearFails(j)

StopStep(b) == StopBegin(b) \/ StopDetach(b)

Next ==
    \/ \E c \in Conns : ConnStep(c) \/ ClientStep(c)
    \/ \E b \in Brokers : \/ SweepStep(b) \/ QuotaKick(b) \/ QuotaNotify(b)
                          \/ StopStep(b) \/ Exit(b)
                          \/ ListenerDrop(b) \/ ListenerStep(b)
                          \/ DeadBrokerStep(b) \/ DueWillStep(b) \/ ExpireSession(b)
    \/ WillFallsDue \/ ExpiryFallsDue

Spec == Init /\ [][Next]_vars

\* Goroutines run, tickers tick and time passes; clients need not come back,
\* and nothing has to fail.
Fairness ==
    /\ \A c \in Conns : WF_vars(ConnStep(c))
    /\ \A b \in Brokers : /\ WF_vars(SweepStep(b))
                          /\ WF_vars(ListenerStep(b))
                          /\ WF_vars(DeadBrokerStep(b))
                          /\ WF_vars(DueWillStep(b))
                          /\ WF_vars(ExpireSession(b))
                          /\ WF_vars(StopDetach(b))
    /\ WF_vars(WillFallsDue) /\ WF_vars(ExpiryFallsDue)

FairSpec == Spec /\ Fairness

-----------------------------------------------------------------------------
(* Safety.                                                                 *)

\* A row says connected exactly when it names a pod, although eight different
\* statements of three components write the two columns.
RowConsistent == row.connected = (row.broker # None)

\* A socket that handleConnect has registered and nobody has closed can be found
\* through Engine.conns (takeover, sweep, delivery and quota all reach it there), or the
\* Conn that took its place there is about to close it.
OpenConnsRegistered ==
    \A c \in Conns :
        pc[c] \in {"shutprev", "cleanup", "running", "decide", "fire", "write"} /\ ~closing[c]
            => \/ conns[at[c]] = c
               \/ \E d \in Conns : pc[d] = "shutprev" /\ displaced[d] = c

\* The listener's handling of a takeover NOTIFY, however late it arrives, never
\* closes the Conn that holds the row's current session_token.
TakeoverSparesOwner ==
    [][\A b \in Brokers, t \in Conns :
          DispatchTakeover(b, t) /\ row.token # None
              => closing'[row.token] = closing[row.token]]_vars

\* As long as no listener lost its Postgres session, the row of a Conn that holds
\* its token and has not started to disconnect names the Conn's pod: no stale
\* disconnect, janitor scan or other pod's shutdown takes the session away.
OwnerAttached ==
    drops = 0 =>
        \A c \in Conns :
            /\ row.token = c
            /\ pc[c] \in {"notify", "register", "shutprev", "cleanup", "running"}
            /\ up[at[c]] = "up"
            => row.broker = at[c]

\* No pod and no statement failing, the will of a Conn that opened a new session
\* is published at most once, by whichever of handleDisconnect and the janitors'
\* fireDueWills gets to it.  (A Conn that resumed a session may be hit by the timer of
\* the Conn before it: takeOwnership leaves will_fire_at set until the cleanup.)
WillAtMostOnce ==
    drops = 0 /\ errs = 0 /\ (\A b \in Brokers : up[b] # "gone")
        => \A c \in Conns : prev[c].token = None => fired[c] <= 1

-----------------------------------------------------------------------------
(* Refinement.                                                             *)

\* The abstract owner is the Conn whose token the row carries.
Ended == {c \in Conns : pc[c] \in {"decide", "fire", "write", "closed"}}

Owner == INSTANCE SessionOwner WITH
            owner <- row.token, pod <- row.broker, home <- at, done <- Ended

\* The whole protocol implements session ownership: with all its late disconnects,
\* attests, reaps and expiries, the code never hands the session to a Conn that
\* lost it, never attributes it to a pod its owner is not on, and never deletes
\* the row of an attached owner that is not disconnecting.
ImplementsOwner == Owner!Spec

-----------------------------------------------------------------------------
(* Liveness.                                                               *)

\* The sweep closes a socket whose client has moved to another pod, also when the
\* takeover NOTIFY was lost.
StaleSocketClosed ==
    \A c \in Conns :
        (pc[c] = "running" /\ row.broker \notin {None, at[c]})
            ~> (pc[c] # "running" \/ row.broker \in {None, at[c]})

\* A session that is left under a pod that is gone is released by some janitor.
DeadBrokerReaped ==
    \A b \in Brokers : (up[b] = "gone" /\ row.broker = b) ~> row.broker # b

\* A live owner whose session was reaped while its listener was away gets the
\* row back once the listener has reconnected (AttestOwnedSessions).
OwnerReattached ==
    \A c \in Conns :
        (pc[c] = "running" /\ row.token = c /\ row.broker = None /\ lock[at[c]] # "own")
            ~> (row.broker = at[c] \/ row.token # c \/ pc[c] # "running")

\* A will that is scheduled does not stay scheduled: the janitor publishes it, or
\* a reconnect cancels it.
ScheduledWillSettles ==
    (row.fireAt # "null" /\ row.will # "none") ~> (row.fireAt = "null" \/ row.will = "none")

\* The will of a client whose connection runs and owns the row is neither published nor taken
\* out of the row by anybody else, as long as no listener has lost its Postgres session:
\* fireDueWills does not ask for connected = false and relies on the cleanup of CONNECT.
LiveWillKept ==
    [][\A c \in Conns : /\ pc[c] = "running" /\ pc'[c] = "running"
                        /\ row.token = c /\ row'.token = c
                        => row'.will = row.will /\ fired'[c] = fired[c]]_vars

\* A session expiry that is scheduled does not stay scheduled, whoever crashes, is kicked or
\* reconnects meanwhile: the janitor deletes the row, or a reconnect clears the timestamp.
\* (A session whose pod crashes first has none and is never deleted.)
ScheduledExpirySettles == (row.expAt # "null") ~> (row.expAt = "null")

-----------------------------------------------------------------------------
(* What the repository says of the program and the program does not do.    *)

\* engine.go, TakeoverNotifier: only a Conn that holds the superseded token may be
\* closed by a takeover; handleConnect closes whichever Conn registerConn found.
RegisterSparesOwner ==
    [][\A c \in Conns :
          ShutdownPrev(c) /\ row.token # None => closing'[row.token] = closing[row.token]]_vars
=============================================================================
