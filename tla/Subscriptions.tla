--------------------------- MODULE Subscriptions ---------------------------
(***************************************************************************)
(* What the session of one client holds: its subscription, the retained    *)
(* messages replayed for it and its queued deliveries, while the client    *)
(* changes sockets.  The Conns are the sockets of this one client_id, on   *)
(* any pods.  The goroutine of a Conn handles one packet at a time and     *)
(* goes on with it when the socket is closed; none of its statements on    *)
(* subscriptions and deliveries looks at the session token, except those   *)
(* of handleDisconnect.  Who owns the session and how a stale socket is    *)
(* closed is the subject of Sessions, how a row is sent of Delivery.       *)
(*                                                                         *)
(* There is one filter, which matches every topic.  A retained message is  *)
(* known by its value, and values grow with time.                          *)
(***************************************************************************)
EXTENDS Naturals, FiniteSets

CONSTANTS
    Conns,
    Topics,
    None,
    Scenarios,    \* what CONNECT and SUBSCRIBE of the Conns say, the retained messages at the
                  \* start, and bounds on publishes, requests, undeliverable messages
                  \* and failing transactions
    MaxValue,     \* bound: values
    MaxRow        \* bound: deliveries rows inserted

\* clean: Clean Start.  keep: the session outlives the socket (v3.1.1: not clean, v5: an
\* expiry interval above 0).  rh: Retain Handling.  qos: of the subscription, 0 or more.
Profile == [clean : BOOLEAN, keep : BOOLEAN, rh : 0..2, qos : 0..1]

Kinds == {"publish", "request", "drop", "err"}

ASSUME SubscriptionsAssumption ==
    /\ MaxValue \in Nat /\ MaxRow \in Nat
    /\ IsFiniteSet(Conns) /\ IsFiniteSet(Topics)
    /\ None \notin Conns /\ None \notin Topics
    /\ None \notin [owner : Conns, connected : BOOLEAN, clean : BOOLEAN, keep : BOOLEAN]
    /\ None \notin [value : Nat, qos : 0..1, state : 0..1]
    /\ \A s \in Scenarios : /\ s.prof \in [Conns -> Profile]
                            /\ s.retained \in [Topics -> 0..MaxValue]
                            /\ Cardinality({t \in Topics : s.retained[t] # 0}) <= MaxValue
                            /\ s.left \in [Kinds -> Nat]

VARIABLES
    prof,       \* the profiles of the Conns
    sess,       \* the sessions row
    sub,        \* the subscriptions row: the Conn that wrote it last
    retained,   \* the table retained, 0 = no row
    rows,       \* the table deliveries: per id the row or None
    lastRow, lastValue,
    pc, open,   \* the goroutine and the socket of a Conn
    hnd,        \* the SUBSCRIBE at hand
    pub,        \* the publisher's transaction
    left,       \* the bounds
    seen,       \* values the client has been sent
    sentFresh,  \* rows whose first PUBLISH was written, and those written twice
    granted,    \* the Conn whose SUBACK promises the subscription
    late,       \* values whose fan-out did not see the present subscription, or saw it with QoS 0
    cutShort,   \* Conns whose replay was given up
    lost        \* values whose row was dropped or acknowledged without having been sent

tableVars == <<sess, sub, retained, rows, lastRow, lastValue>>
connVars  == <<pc, open, hnd>>
ghostVars == <<seen, sentFresh, granted, late, cutShort, lost>>
vars == <<prof, tableVars, connVars, pub, left, ghostVars>>

RowIds == 1..MaxRow
Values == 1..MaxValue

Session == [owner : Conns, connected : BOOLEAN, clean : BOOLEAN, keep : BOOLEAN] \cup {None}
Row     == [value : Values, qos : 0..1, state : 0..1] \cup {None}
Handler == [batch : SUBSET Values, value : Values \cup {0}, row : 0..MaxRow, replay : BOOLEAN]
NoHandler == [batch |-> {}, value |-> 0, row |-> 0, replay |-> FALSE]
Tx   == [at : {"none", "fanout", "commit"}, topic : Topics \cup {None}, clear : BOOLEAN,
         matched : BOOLEAN, qos : 0..1]
NoTx == [at |-> "none", topic |-> None, clear |-> FALSE, matched |-> FALSE, qos |-> 0]

TypeOK ==
    /\ prof \in [Conns -> Profile]
    /\ sess \in Session /\ sub \in Conns \cup {None}
    /\ retained \in [Topics -> Values \cup {0}]
    /\ rows \in [RowIds -> Row]
    /\ lastRow \in 0..MaxRow /\ lastValue \in 0..MaxValue
    /\ pc \in [Conns -> {"idle", "owned", "cleaned", "up", "suback", "query", "replay", "claim",
                         "write", "closing", "gone"}]
    /\ open \in [Conns -> BOOLEAN]
    /\ hnd \in [Conns -> Handler]
    /\ pub \in Tx
    /\ left \in [Kinds -> Nat]
    /\ seen \subseteq Values
    /\ sentFresh \in [{"once", "twice"} -> SUBSET RowIds]
    /\ granted \in Conns \cup {None} /\ late \subseteq Values /\ cutShort \subseteq Conns
    /\ lost \subseteq Values

Init ==
    /\ \E s \in Scenarios : /\ prof = s.prof /\ retained = s.retained /\ left = s.left
                           /\ lastValue = Cardinality({t \in Topics : s.retained[t] # 0})
    /\ sess = None /\ sub = None
    /\ rows = [r \in RowIds |-> None] /\ lastRow = 0
    /\ pc = [c \in Conns |-> "idle"]
    /\ open = [c \in Conns |-> FALSE]
    /\ hnd = [c \in Conns |-> NoHandler]
    /\ pub = NoTx
    /\ seen = {} /\ sentFresh = [k \in {"once", "twice"} |-> {}]
    /\ granted = None /\ late = {} /\ cutShort = {} /\ lost = {}

Spend(k)    == left[k] > 0 /\ left' = [left EXCEPT ![k] = @ - 1]
Goto(c, at) == pc' = [pc EXCEPT ![c] = at]
NoRows      == [r \in RowIds |-> None]

\* A new deliveries row in state 0.
Insert(v, q) ==
    /\ lastRow < MaxRow
    /\ lastRow' = lastRow + 1
    /\ rows' = [rows EXCEPT ![lastRow + 1] = [value |-> v, qos |-> q, state |-> 0]]

Wrote(r) == sentFresh' = [sentFresh EXCEPT !.once = @ \cup {r},
                                           !.twice = IF r \in sentFresh.once THEN @ \cup {r} ELSE @]

-----------------------------------------------------------------------------
(* CONNECT and the end of a Conn.                                          *)

\* takeOwnership; a session that exists keeps its row.
TakeOwnership(c) ==
    /\ pc[c] = "idle"
    /\ sess' = [owner |-> c, connected |-> TRUE, clean |-> prof[c].clean, keep |-> prof[c].keep]
    /\ open' = [open EXCEPT ![c] = TRUE]
    /\ Goto(c, "owned")
    /\ UNCHANGED <<prof, sub, retained, rows, lastRow, lastValue, hnd, pub, left, ghostVars>>

\* The cleanup transaction, by client_id alone.
Cleanup(c) ==
    /\ pc[c] = "owned"
    /\ IF prof[c].clean THEN sub' = None /\ rows' = NoRows ELSE UNCHANGED <<sub, rows>>
    /\ Goto(c, "cleaned")
    /\ UNCHANGED <<prof, sess, retained, lastRow, lastValue, open, hnd, pub, left, ghostVars>>

\* It fails: the socket is closed without a CONNACK and without handleDisconnect.
CleanupFails(c) ==
    /\ pc[c] = "owned" /\ Spend("err")
    /\ Goto(c, "gone")
    /\ open' = [open EXCEPT ![c] = FALSE]
    /\ UNCHANGED <<prof, tableVars, hnd, pub, ghostVars>>

\* CONNACK, and drainSessionQueue repeats what is in flight.  The CONNACK for a client that
\* has gone is lost, or its write fails, which ends the Conn without handleDisconnect.
Connack(c) ==
    /\ pc[c] = "cleaned"
    /\ IF open[c]
       THEN /\ Goto(c, "up")
            /\ seen' = IF prof[c].clean THEN seen
                       ELSE seen \cup {rows[r].value : r \in {s \in RowIds : rows[s] # None /\ rows[s].state = 1}}
       ELSE UNCHANGED seen /\ \E next \in {"up", "gone"} : Goto(c, next)
    /\ UNCHANGED <<prof, tableVars, open, hnd, pub, left, sentFresh, granted, late, cutShort, lost>>

\* The client goes away, or a takeover closes the stale socket.
Close(c) ==
    /\ open[c]
    /\ open' = [open EXCEPT ![c] = FALSE]
    /\ UNCHANGED <<prof, tableVars, pc, hnd, pub, left, ghostVars>>

Hangup(c) == /\ pc[c] = "up" /\ ~open[c]
             /\ Goto(c, "closing")
             /\ UNCHANGED <<prof, tableVars, open, hnd, pub, left, ghostVars>>

\* DELETE FROM sessions (cascades to subscriptions) and FROM deliveries.
EndSession == sess' = None /\ sub' = None /\ rows' = NoRows

\* Mutant: the DELETE of a clean session is not scoped to the token.
HandleDisconnectUnscoped(c) ==
    /\ pc[c] = "closing"
    /\ IF prof[c].keep
       THEN /\ sess' = IF sess # None /\ sess.owner = c THEN [sess EXCEPT !.connected = FALSE] ELSE sess
            /\ UNCHANGED <<sub, rows>>
       ELSE EndSession
    /\ Goto(c, "gone")
    /\ UNCHANGED <<prof, retained, lastRow, lastValue, open, hnd, pub, left, ghostVars>>

HandleDisconnect(c) ==
    /\ pc[c] = "closing"
    /\ IF sess = None \/ sess.owner # c THEN UNCHANGED <<sess, sub, rows>>
       ELSE IF prof[c].keep
       THEN sess' = [sess EXCEPT !.connected = FALSE] /\ UNCHANGED <<sub, rows>>
       ELSE EndSession
    /\ Goto(c, "gone")
    /\ UNCHANGED <<prof, retained, lastRow, lastValue, open, hnd, pub, left, ghostVars>>

-----------------------------------------------------------------------------
(* SUBSCRIBE and UNSUBSCRIBE.                                              *)

\* Retain Handling: 0 always, 1 if the upsert inserted, 2 never.
Replays(c, new) == prof[c].rh = 0 \/ (prof[c].rh = 1 /\ new)

\* The transaction commits; without a sessions row the foreign key refuses it.
Subscribe(c) ==
    /\ pc[c] = "up" /\ open[c] /\ Spend("request")
    /\ IF sess = None
       THEN Goto(c, "closing") /\ open' = [open EXCEPT ![c] = FALSE] /\ UNCHANGED <<sub, hnd>>
       ELSE /\ sub' = c
            /\ hnd' = [hnd EXCEPT ![c].replay = Replays(c, sub = None)]
            /\ Goto(c, "suback") /\ UNCHANGED open
    /\ UNCHANGED <<prof, sess, retained, rows, lastRow, lastValue, pub, ghostVars>>

\* SUBACK.  A write to a client that has gone fails or is lost.
Suback(c) ==
    /\ pc[c] = "suback"
    /\ \/ Goto(c, IF hnd[c].replay THEN "query" ELSE "up")
       \/ ~open[c] /\ Goto(c, "closing")
    /\ granted' = IF open[c] THEN c ELSE granted
    /\ UNCHANGED <<prof, tableVars, open, hnd, pub, left, seen, sentFresh, late, cutShort, lost>>

\* Mutant: a row is skipped, say by a wrong comparison with now().
QueryRetainedSome(c) ==
    /\ pc[c] = "query"
    /\ \E some \in SUBSET {retained[t] : t \in Topics} :
         hnd' = [hnd EXCEPT ![c] = [NoHandler EXCEPT !.batch = some \ {0}]]
    /\ Goto(c, "replay")
    /\ UNCHANGED <<prof, tableVars, open, pub, left, ghostVars>>

\* dispatchRetainedForFilter: the SELECT.
QueryRetained(c) ==
    /\ pc[c] = "query"
    /\ hnd' = [hnd EXCEPT ![c] = [NoHandler EXCEPT !.batch = {retained[t] : t \in Topics} \ {0}]]
    /\ Goto(c, "replay")
    /\ UNCHANGED <<prof, tableVars, open, pub, left, ghostVars>>

\* The replay turns to value v of its batch, with row r (0: QoS 0, no row).
AtHandOf(h, v, r) == [batch |-> h.batch, value |-> v, row |-> r, replay |-> FALSE]

\* persistRetainedDispatch for the next message, if its QoS asks for it.
PersistRetained(c, v) ==
    /\ pc[c] = "replay" /\ v \in hnd[c].batch
    /\ IF prof[c].qos = 0
       THEN Goto(c, "write") /\ UNCHANGED <<rows, lastRow>>
            /\ hnd' = [hnd EXCEPT ![c] = AtHandOf(@, v, 0)]
       ELSE Goto(c, "claim") /\ Insert(v, 1)
            /\ hnd' = [hnd EXCEPT ![c] = AtHandOf(@, v, lastRow + 1)]
    /\ UNCHANGED <<prof, sess, sub, retained, lastValue, open, pub, left, ghostVars>>

\* A statement of the replay fails: the rest of it is dropped; a row inserted stays queued.
ReplayFails(c) ==
    /\ pc[c] \in {"query", "replay", "claim"} /\ Spend("err")
    /\ hnd' = [hnd EXCEPT ![c] = NoHandler]
    /\ Goto(c, "up")
    /\ cutShort' = cutShort \cup {c}
    /\ UNCHANGED <<prof, tableVars, open, pub, seen, sentFresh, granted, late, lost>>

\* Mutant: the UPDATE counts the state up, whatever it is.
AllocPacketIDCounts(c) ==
    /\ pc[c] = "claim" /\ rows[hnd[c].row] # None
    /\ rows' = [rows EXCEPT ![hnd[c].row].state = @ + 1]
    /\ Goto(c, "write")
    /\ UNCHANGED <<prof, sess, sub, retained, lastRow, lastValue, open, hnd, pub, left, ghostVars>>

\* Mutant: the UPDATE does not ask for state 0.
AllocPacketIDAnyState(c) ==
    /\ pc[c] = "claim"
    /\ LET r == hnd[c].row
       IN IF rows[r] # None
          THEN /\ rows' = [rows EXCEPT ![r].state = 1]
               /\ Goto(c, "write") /\ UNCHANGED <<hnd, cutShort>>
          ELSE /\ hnd' = [hnd EXCEPT ![c] = NoHandler]
               /\ Goto(c, "up") /\ cutShort' = cutShort \cup {c} /\ UNCHANGED rows
    /\ UNCHANGED <<prof, sess, sub, retained, lastRow, lastValue, open, pub, left,
                   seen, sentFresh, granted, late, lost>>

\* allocPacketID claims the row; somebody else's claim ends the replay.
AllocPacketID(c) ==
    /\ pc[c] = "claim"
    /\ LET r == hnd[c].row
       IN IF rows[r] # None /\ rows[r].state = 0
          THEN /\ rows' = [rows EXCEPT ![r].state = 1]
               /\ Goto(c, "write") /\ UNCHANGED <<hnd, cutShort>>
          ELSE /\ hnd' = [hnd EXCEPT ![c] = NoHandler]
               /\ Goto(c, "up") /\ cutShort' = cutShort \cup {c} /\ UNCHANGED rows
    /\ UNCHANGED <<prof, sess, sub, retained, lastRow, lastValue, open, pub, left,
                   seen, sentFresh, granted, late, lost>>

\* The PUBLISH is written, or lost with the socket.
WriteRetained(c) ==
    /\ pc[c] = "write"
    /\ LET rest == hnd[c].batch \ {hnd[c].value}
       IN /\ hnd' = [hnd EXCEPT ![c] = [NoHandler EXCEPT !.batch = rest]]
          /\ Goto(c, IF rest = {} THEN "up" ELSE "replay")
    /\ seen' = IF open[c] THEN seen \cup {hnd[c].value} ELSE seen
    /\ IF hnd[c].row = 0 THEN UNCHANGED sentFresh ELSE Wrote(hnd[c].row)
    /\ UNCHANGED <<prof, tableVars, open, pub, left, granted, late, cutShort, lost>>

\* The write fails: the rest of the replay is dropped.
WriteRetainedFails(c) ==
    /\ pc[c] = "write" /\ ~open[c]
    /\ hnd' = [hnd EXCEPT ![c] = NoHandler]
    /\ Goto(c, "up")
    /\ cutShort' = cutShort \cup {c}
    /\ UNCHANGED <<prof, tableVars, open, pub, left, seen, sentFresh, granted, late, lost>>

\* The replay of an empty table.
NothingRetained(c) ==
    /\ pc[c] = "replay" /\ hnd[c].batch = {}
    /\ Goto(c, "up")
    /\ UNCHANGED <<prof, tableVars, open, hnd, pub, left, ghostVars>>

Unsubscribe(c) ==
    /\ pc[c] = "up" /\ open[c] /\ Spend("request")
    /\ sub' = None
    /\ granted' = None
    /\ UNCHANGED <<prof, sess, retained, rows, lastRow, lastValue, connVars, pub,
                   seen, sentFresh, late, cutShort, lost>>

-----------------------------------------------------------------------------
(* A publisher of retained messages: publishCore.                          *)

\* INSERT or DELETE on retained; the row stays locked.  An empty payload clears the topic.
PublishRetain(t, clear) ==
    /\ pub.at = "none" /\ Spend("publish") /\ lastValue < MaxValue
    /\ lastValue' = lastValue + 1
    /\ pub' = [NoTx EXCEPT !.at = "fanout", !.topic = t, !.clear = clear]
    /\ UNCHANGED <<prof, sess, sub, retained, rows, lastRow, connVars, ghostVars>>

\* mqtt_publish: its statement sees the subscriptions and the session committed so far; with
\* QoS 0 a client that is not connected gets no row.
PublishFanout ==
    /\ pub.at = "fanout"
    /\ LET q == IF sub = None THEN 0 ELSE prof[sub].qos
       IN pub' = [pub EXCEPT !.at = "commit", !.qos = q,
                             !.matched = sub # None /\ (q > 0 \/ sess.connected)]
    /\ UNCHANGED <<prof, tableVars, connVars, left, ghostVars>>

PublishCommit ==
    /\ pub.at = "commit"
    /\ retained' = [retained EXCEPT ![pub.topic] = IF pub.clear THEN 0 ELSE lastValue]
    /\ IF pub.matched THEN Insert(lastValue, pub.qos) ELSE UNCHANGED <<rows, lastRow>>
    /\ late' = IF sub # None /\ (~pub.matched \/ pub.qos < prof[sub].qos)
               THEN late \cup {lastValue} ELSE late
    /\ pub' = NoTx
    /\ UNCHANGED <<prof, sess, sub, lastValue, connVars, left, seen, sentFresh, granted,
                   cutShort, lost>>

\* It fails and is rolled back.
PublishFails ==
    /\ pub.at # "none" /\ Spend("err")
    /\ pub' = NoTx
    /\ UNCHANGED <<prof, tableVars, connVars, ghostVars>>

-----------------------------------------------------------------------------
(* Delivery of queued rows, acknowledgements, and the janitor.             *)

\* The listener, drainSessionQueue or the drain loop of a Conn claims a row (with QoS 0: deletes
\* it) and sends it.  A Conn that the client has left claims rows until its goroutines notice.
Deliver(c, r) ==
    /\ pc[c] \notin {"idle", "gone"}
    /\ rows[r] # None /\ rows[r].state = 0
    /\ rows' = [rows EXCEPT ![r] = IF @.qos = 0 THEN None ELSE [@ EXCEPT !.state = 1]]
    /\ seen' = IF open[c] THEN seen \cup {rows[r].value} ELSE seen
    /\ Wrote(r)
    /\ UNCHANGED <<prof, sess, sub, retained, lastRow, lastValue, connVars, pub, left,
                   granted, late, cutShort, lost>>

\* A row goes without having been sent, if it has not.
Discard(r) ==
    /\ rows' = [rows EXCEPT ![r] = None]
    /\ lost' = lost \cup ({rows[r].value} \ seen)

\* deliverOneTracked finds the message expired, or too large for the client, in whatever state
\* its row is (a resumed socket repeats the ones in flight).
DropUndeliverable(c, r) ==
    /\ pc[c] \notin {"idle", "gone"} /\ Spend("drop")
    /\ rows[r] # None /\ Discard(r)
    /\ UNCHANGED <<prof, sess, sub, retained, lastRow, lastValue, connVars, pub,
                   seen, sentFresh, granted, late, cutShort>>

\* The claim of a row commits and its answer is lost: nobody writes it.
ClaimUnanswered(c, r) ==
    /\ pc[c] \notin {"idle", "gone"} /\ Spend("err")
    /\ rows[r] # None /\ rows[r].state = 0
    /\ rows' = [rows EXCEPT ![r] = IF @.qos = 0 THEN None ELSE [@ EXCEPT !.state = 1]]
    /\ UNCHANGED <<prof, sess, sub, retained, lastRow, lastValue, connVars, pub, ghostVars>>

\* PUBACK (or PUBCOMP), read from a socket that may have been closed since.  Whatever row of the
\* client has the packet id goes: the one this socket was sent, one of another socket that got
\* the id after it, or, with a client that makes ids up, one that was never sent.
Ack(c, r) ==
    /\ pc[c] = "up"
    /\ rows[r] # None /\ rows[r].state = 1 /\ Discard(r)
    /\ UNCHANGED <<prof, sess, sub, retained, lastRow, lastValue, connVars, pub, left,
                   seen, sentFresh, granted, late, cutShort>>

\* session_expires_at has passed.
ExpireSession ==
    /\ sess # None /\ ~sess.connected /\ sess.keep
    /\ EndSession
    /\ UNCHANGED <<prof, retained, lastRow, lastValue, connVars, pub, left, ghostVars>>

\* Mutant: the sweep does not ask for connected = false.
SweepAnyClean ==
    /\ rows # NoRows
    /\ sess # None => sess.clean
    /\ rows' = NoRows
    /\ UNCHANGED <<prof, sess, sub, retained, lastRow, lastValue, connVars, pub, left, ghostVars>>

\* Rows without a session, and of a detached one whose CONNECT said Clean Start.
SweepOrphanDeliveries ==
    /\ rows # NoRows
    /\ sess # None => ~sess.connected /\ sess.clean
    /\ rows' = NoRows
    /\ UNCHANGED <<prof, sess, sub, retained, lastRow, lastValue, connVars, pub, left, ghostVars>>

ExpireRetained(t) ==
    /\ retained[t] # 0 /\ ~(pub.at # "none" /\ pub.topic = t)
    /\ retained' = [retained EXCEPT ![t] = 0]
    /\ UNCHANGED <<prof, sess, sub, rows, lastRow, lastValue, connVars, pub, left, ghostVars>>

Next ==
    \/ \E c \in Conns :
         \/ TakeOwnership(c) \/ Cleanup(c) \/ CleanupFails(c) \/ Connack(c)
         \/ Close(c) \/ Hangup(c) \/ HandleDisconnect(c)
         \/ Subscribe(c) \/ Suback(c) \/ QueryRetained(c) \/ NothingRetained(c)
         \/ \E v \in Values : PersistRetained(c, v)
         \/ ReplayFails(c) \/ AllocPacketID(c) \/ WriteRetained(c) \/ WriteRetainedFails(c)
         \/ Unsubscribe(c)
         \/ \E r \in RowIds : Deliver(c, r) \/ ClaimUnanswered(c, r) \/ DropUndeliverable(c, r) \/ Ack(c, r)
    \/ \E t \in Topics : ExpireRetained(t) \/ \E clear \in BOOLEAN : PublishRetain(t, clear)
    \/ PublishFanout \/ PublishCommit \/ PublishFails
    \/ ExpireSession \/ SweepOrphanDeliveries

Spec == Init /\ [][Next]_vars

-----------------------------------------------------------------------------
\* The first PUBLISH of a row is written at most once, although the replay of a retained
\* message and whoever drains the queue both see its row in state 0 (allocPacketID).
ReplayOnce == sentFresh.twice = {}

Owner(c) == sess # None /\ sess.owner = c /\ open[c]

\* A subscriber with QoS > 0 that handles nothing at the moment has been sent the present retained
\* message of every topic or has it in its queue (dispatchRetainedForFilter and mqtt_publish
\* leave no gap, whichever socket of the client claims the row), unless the publish ran across the
\* commit of its SUBSCRIBE, its replay was given up (an error, or its row was taken by the drain
\* loop), or its row was dropped as undeliverable or deleted by the PUBACK of another.
LatestRetainedReached ==
    \A c \in Conns :
        /\ Owner(c) /\ pc[c] = "up" /\ sub = c /\ c \notin cutShort /\ pub.at = "none"
        /\ prof[c].qos > 0 /\ prof[c].rh = 0
        => {retained[t] : t \in Topics} \ {0}
               \subseteq seen \cup late \cup lost \cup {rows[r].value : r \in {s \in RowIds : rows[s] # None}}

\* The subscription that the owner of the session was granted stays until the client itself
\* unsubscribes (on whichever socket), or the cleanup of a CONNECT with Clean Start, maybe a
\* superseded one, deletes it; the end of another socket never takes it away.
GrantedSubscriptionKept ==
    [][\A c \in Conns : granted = c /\ sub # None /\ sub' = None /\ Owner(c)
                        => \E d \in Conns : Unsubscribe(d) \/ (prof[d].clean /\ Cleanup(d))]_vars

\* The queue of a client is its own: a row with QoS > 0 leaves the table when a socket of the
\* client finds it undeliverable, when it has a packet id and one of them acknowledges it, or when
\* a CONNECT with Clean Start discards it.  Otherwise (handleDisconnect of whichever socket,
\* expireSessions, sweepOrphanDeliveries) only while the owner of the session is not connected,
\* and then with the session or because that began with Clean Start.
QueueKept ==
    [][\A r \in RowIds : rows[r] # None /\ rows[r].qos > 0 /\ rows'[r] = None =>
         \/ \E c \in Conns : DropUndeliverable(c, r) \/ Ack(c, r) \/ (prof[c].clean /\ Cleanup(c))
         \/ /\ \A c \in Conns : ~Owner(c)
            /\ sess' = None \/ (~sess.connected /\ sess.clean)]_vars

\* janitor.go: the swept deliveries are ones "that no live client will ever drain".
SweepSparesResumable == [][SweepOrphanDeliveries => sess = None \/ ~sess.keep]_vars
=============================================================================
