------------------------------- MODULE Publish -------------------------------
(***************************************************************************)
(* The publisher path of pgmqtt: one MQTT 5 client with a persistent       *)
(* session publishes, loses its socket at any moment, comes back on        *)
(* another one and repeats what was not acknowledged.  Each socket (Conn)  *)
(* has one goroutine that handles its packets one at a time; the goroutine *)
(* of a closed socket ends only when the packet at hand is done, so the    *)
(* handlers of several sockets may be in Postgres together.  Receive       *)
(* Maximum, the QoS 2 deduplication table inbound_qos2 and the fan-out     *)
(* statement mqtt_publish with its queue cap are modelled; how a           *)
(* subscriber gets its rows is the subject of Delivery.                    *)
(*                                                                         *)
(* The client (external) keeps the protocol: a packet identifier is used   *)
(* again only when its message is done, and no more than ReceiveMax        *)
(* messages are open at a time.  A reply reaches the client when it is     *)
(* written, unless the client has given the socket up.                     *)
(***************************************************************************)
EXTENDS Integers, FiniteSets, Sequences, Topics

CONSTANTS
    Msgs,        \* the messages, 1..n, in the order in which the client sends them
    PacketID,    \* their packet identifiers
    Qoss,        \* the QoS levels they may have
    Topic,       \* their topics
    Conns,       \* the client's sockets
    Publisher,   \* its client_id
    Clients,     \* client_ids with subscriptions
    Tables,      \* contents the table `subscriptions` may have
    None,        \* SQL NULL
    ReceiveMax,  \* serverReceiveMaximum
    MaxQueued,   \* maxQueuedDeliveries, 0 = no cap
    MaxErrs      \* bound: failing transactions

ASSUME MsgsAssumption == /\ Msgs \subseteq Nat /\ IsFiniteSet(Msgs)
                         /\ PacketID \in [Msgs -> Nat \ {0}]
                         /\ Qoss \subseteq [Msgs -> 0..2]
                         /\ Topic \in [Msgs -> Seq(STRING)]
ASSUME PartyAssumption == /\ IsFiniteSet(Conns) /\ Conns # {}
                          /\ None \notin Clients /\ None \notin Msgs /\ None \notin 0..2
ASSUME TableAssumption ==
    \A t \in Tables : \A r \in t : /\ r.client \in Clients /\ r.qos \in 0..2
                                   /\ r.no_local \in BOOLEAN
                                   /\ ValidTopicFilter(r.filter)
ASSUME BoundAssumption ==
    /\ ReceiveMax \in Nat \ {0} /\ ReceiveMax <= 65535
    /\ MaxQueued \in Nat /\ MaxErrs \in Nat

VARIABLES
    subs,      \* the table subscriptions
    online,    \* the other clients with sessions.connected = true
    backlog,   \* per subscriber and QoS, its number of deliveries rows
    dedup,     \* inbound_qos2: per packet id, the message whose handler inserted the row
    pc,        \* Conn: "idle" before CONNECT, "up", "closed"
    counter,   \* Conn.inboundInflight
    hnd,       \* the packet at hand and where its handler stands
    errs,      \* bound of the failures
    qos,       \* the QoS levels of the messages
    phase,     \* the client's view of a message
    cut,       \* sockets the client has given up
    wire,      \* packets sent and not yet read by the server
    fanned,    \* how often a message was fanned out
    freed,     \* how often the dedup row of a message was deleted
    stray,     \* messages whose dedup row the PUBREL of another message deleted
    refused    \* sockets closed with 0x93, Receive Maximum exceeded

tableVars  == <<subs, qos, online, backlog, dedup>>
connVars   == <<pc, counter, hnd>>
clientVars == <<phase, cut, wire>>
ghostVars  == <<fanned, freed, stray, refused>>
vars == <<tableVars, connVars, errs, clientVars, ghostVars>>

Pids   == {PacketID[m] : m \in Msgs}
Packet == [type : {"publish", "pubrel"}, msg : Msgs, dup : BOOLEAN]

\* A handler holds an inbound slot (slot) and, once mqtt_publish has run, the rows it
\* inserts (batch: the QoS per client, None = no row).
Handler == [at : {"none", "begin", "query", "commit", "pubrel"}, msg : Msgs \cup {None},
            slot : BOOLEAN, batch : [Clients -> 0..2 \cup {None}]]

NoBatch == [cl \in Clients |-> None]
Idle    == [at |-> "none", msg |-> None, slot |-> FALSE, batch |-> NoBatch]

TypeOK ==
    /\ subs \in Tables
    /\ online \subseteq Clients \ {Publisher}
    /\ backlog \in [Clients -> [0..2 -> Nat]]
    /\ dedup \in [Pids -> Msgs \cup {None}]
    /\ \A p \in Pids : dedup[p] # None => PacketID[dedup[p]] = p /\ qos[dedup[p]] = 2
    /\ pc \in [Conns -> {"idle", "up", "closed"}]
    /\ counter \in [Conns -> Int]
    /\ hnd \in [Conns -> Handler]
    /\ errs \in 0..MaxErrs
    /\ qos \in Qoss
    /\ phase \in [Msgs -> {"new", "sent", "rel", "done"}]
    /\ cut \in [Conns -> BOOLEAN]
    /\ wire \in [Conns -> Seq(Packet)]
    /\ fanned \in [Msgs -> Nat]
    /\ freed \in [Msgs -> Nat]
    /\ stray \subseteq Msgs
    /\ refused \subseteq Conns

Init ==
    /\ subs \in Tables
    /\ online \in SUBSET (Clients \ {Publisher})
    /\ backlog = [cl \in Clients |-> [q \in 0..2 |-> 0]]
    /\ dedup = [p \in Pids |-> None]
    /\ pc = [c \in Conns |-> "idle"]
    /\ counter = [c \in Conns |-> 0]
    /\ hnd = [c \in Conns |-> Idle]
    /\ errs = 0
    /\ qos \in Qoss
    /\ phase = [m \in Msgs |-> "new"]
    /\ cut = [c \in Conns |-> FALSE]
    /\ wire = [c \in Conns |-> << >>]
    /\ fanned = [m \in Msgs |-> 0]
    /\ freed = [m \in Msgs |-> 0]
    /\ stray = {}
    /\ refused = {}

-----------------------------------------------------------------------------
(* The client.                                                             *)

Open == {m \in Msgs : phase[m] \in {"sent", "rel"}}

\* The open messages in the order of their first sending.
IsResend(s) == \A i, j \in DOMAIN s : i < j => s[i] < s[j]

Pk(type, m, dup) == [type |-> type, msg |-> m, dup |-> dup]

\* The client's socket: connected and not given up.
Using(c) == pc[c] = "up" /\ ~cut[c]

\* The session is resumed on a new socket: what is open is sent again, in order.
Connect(c) ==
    /\ pc[c] = "idle"
    /\ \A d \in Conns : ~Using(d)
    /\ pc' = [pc EXCEPT ![c] = "up"]
    /\ \E again \in [1..Cardinality(Open) -> Open] :
          /\ IsResend(again)
          /\ wire' = [wire EXCEPT ![c] =
                [i \in 1..Cardinality(Open) |->
                   IF phase[again[i]] = "rel" THEN Pk("pubrel", again[i], FALSE)
                                              ELSE Pk("publish", again[i], TRUE)]]
    /\ UNCHANGED <<tableVars, counter, hnd, errs, phase, cut, ghostVars>>

\* QoS 0 needs no packet id and is done when it is sent.
Send(c, m) ==
    /\ Using(c) /\ phase[m] = "new"
    /\ \A l \in Msgs : l < m => phase[l] # "new"
    /\ qos[m] > 0 => /\ Cardinality(Open) < ReceiveMax
                     /\ \A o \in Open : PacketID[o] # PacketID[m]
    /\ phase' = [phase EXCEPT ![m] = IF qos[m] = 0 THEN "done" ELSE "sent"]
    /\ wire' = [wire EXCEPT ![c] = Append(@, Pk("publish", m, FALSE))]
    /\ UNCHANGED <<tableVars, connVars, errs, cut, ghostVars>>

Cut(c) ==
    /\ Using(c)
    /\ cut' = [cut EXCEPT ![c] = TRUE]
    /\ UNCHANGED <<tableVars, connVars, errs, phase, wire, ghostVars>>

\* What a reply does at the client, if it still reads the socket.
Reply(c, type, m) ==
    /\ phase' = IF ~Using(c) THEN phase
                ELSE [phase EXCEPT ![m] = IF type = "pubrec" THEN "rel" ELSE "done"]
    /\ wire' = IF Using(c) /\ type = "pubrec"
               THEN [wire EXCEPT ![c] = Append(@, Pk("pubrel", m, FALSE))] ELSE wire

NoReply == UNCHANGED <<phase, wire>>

-----------------------------------------------------------------------------
(* The read loop and the flow control of handlePublish.                    *)

\* Conn.shutdown: the read loop has met an error, or another goroutine (a takeover, the
\* keepalive) closes the socket under a running handler.
Close(c) ==
    /\ pc[c] = "up"
    /\ pc' = [pc EXCEPT ![c] = "closed"]
    /\ wire' = [wire EXCEPT ![c] = << >>]
    /\ UNCHANGED <<tableVars, counter, hnd, errs, phase, cut, ghostVars>>

\* A QoS 2 retransmission whose dedup row exists takes no slot.
SkipInc(pk) == qos[pk.msg] = 2 /\ pk.dup /\ dedup[PacketID[pk.msg]] # None

\* uint16(current) > serverReceiveMaximum: the counter is an int32.
Exceeds(current) == current % 65536 > ReceiveMax

FirstOf(c) == Head(wire[c])

ReadPublish(c) ==
    /\ pc[c] = "up" /\ hnd[c].at = "none" /\ wire[c] # << >> /\ FirstOf(c).type = "publish"
    /\ LET m    == FirstOf(c).msg
           slot == qos[m] > 0 /\ ~SkipInc(FirstOf(c))
       IN  /\ ~(slot /\ Exceeds(counter[c] + 1))
           /\ hnd' = [hnd EXCEPT ![c] = [Idle EXCEPT !.at = "begin", !.msg = m, !.slot = slot]]
           /\ counter' = [counter EXCEPT ![c] = IF slot THEN @ + 1 ELSE @]
    /\ wire' = [wire EXCEPT ![c] = Tail(@)]
    /\ UNCHANGED <<tableVars, pc, errs, phase, cut, ghostVars>>

\* DISCONNECT 0x93 and the end of the connection.
RefusePublish(c) ==
    /\ pc[c] = "up" /\ hnd[c].at = "none" /\ wire[c] # << >> /\ FirstOf(c).type = "publish"
    /\ qos[FirstOf(c).msg] > 0 /\ ~SkipInc(FirstOf(c))
    /\ Exceeds(counter[c] + 1)
    /\ refused' = refused \cup {c}
    /\ pc' = [pc EXCEPT ![c] = "closed"]
    /\ wire' = [wire EXCEPT ![c] = << >>]
    /\ UNCHANGED <<tableVars, counter, hnd, errs, phase, cut, fanned, freed, stray>>

ReadPubrel(c) ==
    /\ pc[c] = "up" /\ hnd[c].at = "none" /\ wire[c] # << >> /\ FirstOf(c).type = "pubrel"
    /\ hnd' = [hnd EXCEPT ![c] = [Idle EXCEPT !.at = "pubrel", !.msg = FirstOf(c).msg]]
    /\ wire' = [wire EXCEPT ![c] = Tail(@)]
    /\ UNCHANGED <<tableVars, pc, counter, errs, phase, cut, ghostVars>>
-----------------------------------------------------------------------------
(* publishCore: one transaction.                                           *)

\* The handler returns nil: the slot is given back unless PUBREL is to do it.
Finish(c, keepSlot) ==
    /\ hnd' = [hnd EXCEPT ![c] = Idle]
    /\ counter' = [counter EXCEPT ![c] = IF hnd[c].slot /\ ~keepSlot THEN @ - 1 ELSE @]
    /\ UNCHANGED pc

\* The handler returns an error: the read loop ends.
Abort(c) ==
    /\ hnd' = [hnd EXCEPT ![c] = Idle]
    /\ pc' = [pc EXCEPT ![c] = "closed"]
    /\ wire' = [wire EXCEPT ![c] = << >>]
    /\ UNCHANGED <<counter, phase>>

\* Mutant: inbound_qos2 without its primary key.
LockedNever(c, p) == FALSE

\* The insert into inbound_qos2 waits for a transaction that has inserted the same key.
Locked(c, p) ==
    \E d \in Conns \ {c} : /\ hnd[d].at \in {"query", "commit"}
                          /\ qos[hnd[d].msg] = 2 /\ PacketID[hnd[d].msg] = p

\* INSERT INTO inbound_qos2 ... ON CONFLICT DO NOTHING inserts the row.
ClaimDedup(c) ==
    LET m == hnd[c].msg
    IN  /\ hnd[c].at = "begin"
        /\ qos[m] = 2 => dedup[PacketID[m]] = None /\ ~Locked(c, PacketID[m])
        /\ hnd' = [hnd EXCEPT ![c].at = "query"]
        /\ UNCHANGED <<tableVars, pc, counter, errs, clientVars, ghostVars>>

\* ErrQoS2Duplicate: PUBREC again, no fan-out.
Duplicate(c) ==
    LET m == hnd[c].msg
    IN  /\ hnd[c].at = "begin" /\ qos[m] = 2
        /\ dedup[PacketID[m]] # None
        /\ Reply(c, "pubrec", m)
        /\ Finish(c, FALSE)
        /\ UNCHANGED <<tableVars, errs, cut, ghostVars>>

\* The WITH query of mqtt_publish.  matches: DISTINCT ON (client_id) ... ORDER BY qos DESC.
Candidates(m, cl) == {r \in subs : /\ r.client = cl /\ TopicMatch(r.filter, Topic[m])
                                   /\ ~(r.no_local /\ cl = Publisher)}
\* Mutant: ORDER BY s.client_id, s.qos.
BestAscending(rs) == CHOOSE r \in rs : \A s \in rs : r.qos <= s.qos
Best(rs)   == CHOOSE r \in rs : \A s \in rs : s.qos <= r.qos
Least(a, b) == IF a <= b THEN a ELSE b
DeliverQos(m, cl) == Least(Best(Candidates(m, cl)).qos, qos[m])

\* pending: EXISTS (SELECT ... OFFSET p_max_queued - 1): at least p_max_queued rows.
Rows(cl)    == backlog[cl][0] + backlog[cl][1] + backlog[cl][2]
\* Mutant: OFFSET p_max_queued.
OverCapLate(cl) == MaxQueued # 0 /\ Rows(cl) > MaxQueued
OverCap(cl) == MaxQueued # 0 /\ Rows(cl) >= MaxQueued

\* sessions.connected; the publisher may be a subscriber itself.
Connected(cl) == cl \in online \/ (cl = Publisher /\ \E c \in Conns : pc[c] = "up")

\* inserted: QoS 0 only for the connected, QoS > 0 only below the cap.
Inserted(m, cl) ==
    /\ Candidates(m, cl) # {}
    /\ DeliverQos(m, cl) > 0 \/ Connected(cl)
    /\ DeliverQos(m, cl) = 0 \/ ~OverCap(cl)

FanoutQuery(c) ==
    LET m == hnd[c].msg
    IN  /\ hnd[c].at = "query"
        /\ hnd' = [hnd EXCEPT ![c].at = "commit",
                     ![c].batch = [cl \in Clients |-> IF Inserted(m, cl) THEN DeliverQos(m, cl)
                                                                      ELSE None]]
        /\ UNCHANGED <<tableVars, pc, counter, errs, clientVars, ghostVars>>

\* Mutant: QoS 1 is deduplicated as well.
CommittedAnyQos(c) ==
    LET m == hnd[c].msg
    IN  /\ dedup' = IF qos[m] > 0 THEN [dedup EXCEPT ![PacketID[m]] = m] ELSE dedup
        /\ backlog' = [cl \in Clients |-> [q \in 0..2 |->
                         IF q = hnd[c].batch[cl] THEN backlog[cl][q] + 1 ELSE backlog[cl][q]]]
        /\ fanned' = [fanned EXCEPT ![m] = @ + 1]
        /\ UNCHANGED <<subs, qos, online>>

\* COMMIT: the dedup row, the message and its deliveries become visible together.
Committed(c) ==
    LET m == hnd[c].msg
    IN  /\ dedup' = IF qos[m] = 2 THEN [dedup EXCEPT ![PacketID[m]] = m] ELSE dedup
        /\ backlog' = [cl \in Clients |-> [q \in 0..2 |->
                         IF q = hnd[c].batch[cl] THEN backlog[cl][q] + 1 ELSE backlog[cl][q]]]
        /\ fanned' = [fanned EXCEPT ![m] = @ + 1]
        /\ UNCHANGED <<subs, qos, online>>

\* COMMIT succeeds; PUBACK, or PUBREC with the slot kept until PUBREL.
Commit(c) ==
    LET m == hnd[c].msg
    IN  /\ hnd[c].at = "commit"
        /\ Committed(c)
        /\ CASE qos[m] = 0 -> NoReply
             [] qos[m] = 1 -> Reply(c, "puback", m)
             [] qos[m] = 2 -> Reply(c, "pubrec", m)
        /\ Finish(c, qos[m] = 2)
        /\ UNCHANGED <<errs, cut, freed, stray, refused>>

\* Mutant: the acknowledgement is written before COMMIT.
TxFailsAcked(c) ==
    /\ hnd[c].at = "commit" /\ errs < MaxErrs
    /\ errs' = errs + 1
    /\ hnd' = [hnd EXCEPT ![c] = Idle]
    /\ pc' = [pc EXCEPT ![c] = "closed"]
    /\ wire' = [wire EXCEPT ![c] = << >>]
    /\ phase' = IF Using(c) /\ qos[hnd[c].msg] > 0
                THEN [phase EXCEPT ![hnd[c].msg] = IF qos[hnd[c].msg] = 2 THEN "rel" ELSE "done"]
                ELSE phase
    /\ UNCHANGED <<tableVars, counter, cut, ghostVars>>

\* A statement of publishCore or of handlePubrel fails, or publishTimeout ends: rollback,
\* DISCONNECT, close.
TxFails(c) ==
    /\ hnd[c].at # "none" /\ errs < MaxErrs
    /\ errs' = errs + 1
    /\ Abort(c)
    /\ UNCHANGED <<tableVars, cut, ghostVars>>

\* Postgres commits, but the answer to COMMIT is lost.
CommitUnknown(c) ==
    /\ hnd[c].at = "commit" /\ errs < MaxErrs
    /\ errs' = errs + 1
    /\ Committed(c)
    /\ Abort(c)
    /\ UNCHANGED <<cut, freed, stray, refused>>

-----------------------------------------------------------------------------
(* PUBREL, the janitor, and the subscribers.                               *)

\* DELETE FROM inbound_qos2, for whichever message the row stands.
DeleteDedup(p) ==
    /\ dedup' = [dedup EXCEPT ![p] = None]
    /\ freed' = IF dedup[p] = None THEN freed ELSE [freed EXCEPT ![dedup[p]] = @ + 1]

\* The rows that the PUBREL of another message deletes.
Strays(p, m) == stray' = stray \cup ({dedup[p]} \ {None, m})

\* Mutant: PUBREL gives no slot back.
HandlePubrelKeepsSlot(c) ==
    /\ hnd[c].at = "pubrel"
    /\ DeleteDedup(PacketID[hnd[c].msg])
    /\ Strays(PacketID[hnd[c].msg], hnd[c].msg)
    /\ Reply(c, "pubcomp", hnd[c].msg)
    /\ hnd' = [hnd EXCEPT ![c] = Idle]
    /\ UNCHANGED <<subs, qos, online, backlog, pc, counter, errs, cut, fanned, refused>>

\* handlePubrel: delete, PUBCOMP, and a slot back if there was a row.
HandlePubrel(c) ==
    LET p == PacketID[hnd[c].msg]
    IN  /\ hnd[c].at = "pubrel"
        /\ DeleteDedup(p) /\ Strays(p, hnd[c].msg)
        /\ Reply(c, "pubcomp", hnd[c].msg)
        /\ hnd' = [hnd EXCEPT ![c] = Idle]
        /\ counter' = [counter EXCEPT ![c] = IF dedup[p] # None THEN @ - 1 ELSE @]
        /\ UNCHANGED <<subs, qos, online, backlog, pc, errs, cut, fanned, refused>>

\* sweepInboundQoS2: the client has been away longer than the grace period, which no
\* handler outlasts.
SweepInboundQoS2(p) ==
    /\ dedup[p] # None
    /\ \A c \in Conns : pc[c] # "up" /\ hnd[c].at = "none"
    /\ DeleteDedup(p)
    /\ UNCHANGED <<subs, qos, online, backlog, connVars, errs, clientVars, fanned, stray, refused>>

\* A subscriber acknowledges a row, or a QoS 0 row is sent (see Delivery).
Drain(cl, q) ==
    /\ Connected(cl) /\ backlog[cl][q] > 0
    /\ backlog' = [backlog EXCEPT ![cl][q] = @ - 1]
    /\ UNCHANGED <<subs, qos, online, dedup, connVars, errs, clientVars, ghostVars>>

\* A subscriber comes or goes (also when dispatchQuotaExceeded closes it).
Toggle(cl) ==
    /\ cl # Publisher
    /\ online' = IF cl \in online THEN online \ {cl} ELSE online \cup {cl}
    /\ UNCHANGED <<subs, qos, backlog, dedup, connVars, errs, clientVars, ghostVars>>

Next ==
    \/ \E c \in Conns : \/ Connect(c) \/ Cut(c) \/ Close(c)
                        \/ \E m \in Msgs : Send(c, m)
                        \/ ReadPublish(c) \/ RefusePublish(c) \/ ReadPubrel(c)
                        \/ ClaimDedup(c) \/ Duplicate(c) \/ FanoutQuery(c) \/ Commit(c)
                        \/ TxFails(c) \/ CommitUnknown(c) \/ HandlePubrel(c)
    \/ \E p \in Pids : SweepInboundQoS2(p)
    \/ \E cl \in Clients : Toggle(cl) \/ \E q \in 0..2 : Drain(cl, q)

Spec == Init /\ [][Next]_vars
-----------------------------------------------------------------------------
(* Properties.                                                             *)

\* publishCore writes the dedup row and the fan-out in one transaction (publish.go:226-235):
\* whatever fails, is repeated or runs at the same time on another socket, a QoS 2 message
\* has been fanned out once for each dedup row it ever got, no less (a row without fan-out
\* swallows the message) and no more (a retransmission is not delivered again).
DedupMatchesFanout ==
    \A m \in Msgs : qos[m] = 2 =>
        fanned[m] = freed[m] + (IF dedup[PacketID[m]] = m THEN 1 ELSE 0)

\* A message the client was told is taken over (PUBACK, PUBREC) has been fanned out.  The
\* one exception is the packet id of a message that was itself fanned out twice: a handler
\* of an old socket that starts its transaction after the new socket's PUBREL leaves a dedup
\* row behind, and the next message with this id is taken for a duplicate.
AcknowledgedWasFannedOut ==
    \A m \in Msgs : qos[m] > 0 /\ phase[m] \in {"rel", "done"} /\ fanned[m] = 0 =>
        \E l \in Msgs \ {m} : PacketID[l] = PacketID[m] /\ fanned[l] > 1

\* The cap is read before the transaction commits, so handlers that run together may each
\* add one row to a subscriber's queue; more than that never gets past maxQueuedDeliveries.
QueueBounded ==
    MaxQueued > 0 =>
        \A cl \in Clients : backlog[cl][1] + backlog[cl][2] < MaxQueued + Cardinality(Conns)

\* mqtt_publish gives each client one row, with the best QoS its matching filters allow
\* (Matches is the reference definition of a match), none for the publisher's own no_local
\* filters, none at QoS 0 for an absent client and none at QoS > 0 for one whose queue is full;
\* nobody else goes without.
FanoutExact ==
    [][\A c \in Conns : hnd[c].at = "query" /\ hnd'[c].at = "commit" =>
         \A cl \in Clients :
            LET m    == hnd[c].msg
                fits == {r \in subs : /\ r.client = cl /\ Matches(r.filter, Topic[m])
                                      /\ cl = Publisher => ~r.no_local}
                can  == {q \in 0..qos[m] : \E r \in fits : q <= r.qos}
                row  == hnd'[c].batch[cl]
            IN  IF fits = {} THEN row = None
                ELSE IF \A q \in can : q = 0 THEN row = (IF Connected(cl) THEN 0 ELSE None)
                ELSE IF MaxQueued > 0 /\ Rows(cl) >= MaxQueued THEN row = None
                ELSE row \in can /\ \A q \in can : q <= row]_vars

\* A client with at most ReceiveMax open messages is refused with 0x93 only on a socket
\* whose counter has fallen below -1, by two or more handshakes that began on another
\* socket and ended on this one (handlePubrel), or when late PUBRELs of other sockets deleted
\* dedup rows that were not theirs, each at the cost of one slot at most; no other path of
\* handlePublish or handlePubrel leaks a slot.
HealthyNotRefused ==
    \A c \in refused : \/ counter[c] < -1
                       \/ stray # {} /\ counter[c] < ReceiveMax + Cardinality(stray)
=============================================================================
