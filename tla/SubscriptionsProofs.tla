------------------------- MODULE SubscriptionsProofs -------------------------
(***************************************************************************)
(* Proofs about Subscriptions for any sockets, topics, scenarios and       *)
(* bounds.                                                                 *)
(***************************************************************************)
EXTENDS Subscriptions, FiniteSetTheorems, TLAPS

-----------------------------------------------------------------------------
(* The inductive invariant.                                                *)

\* The foreign key of subscriptions.
SubOfSession == sub # None => sess # None

\* The socket of a goroutine that has not begun or is at its end is closed, and a session is
\* marked disconnected only by the goroutine of its owner, which ends with that; a Conn that
\* wrote the subscription has been connected.
Ended ==
    \A c \in Conns :
        /\ pc[c] \in {"idle", "closing", "gone"} => ~open[c]
        /\ sess # None /\ sess.owner = c /\ ~sess.connected => pc[c] = "gone"
        /\ sub = c => pc[c] \notin {"idle", "owned", "cleaned"}

\* The replay at hand: its row was inserted and its message is one of the batch.
AtHand ==
    \A c \in Conns :
        /\ pc[c] = "claim" => hnd[c].row \in 1..lastRow
        /\ pc[c] \in {"claim", "write"} => hnd[c].value \in Values
        /\ pc[c] = "suback" /\ prof[c].rh = 0 => hnd[c].replay

\* The publisher's message has a value.
Publishing == pub.at # "none" => lastValue \in Values

\* A row that was written, or is about to be by a replay, is nobody else's: it has left
\* state 0, where no row returns to.
Taken(r) == r \in 1..lastRow /\ (rows[r] = None \/ rows[r].state = 1)
Claimed ==
    /\ \A r \in RowIds : rows[r] # None => r <= lastRow
    /\ \A r \in sentFresh.once : Taken(r)
    /\ \A c \in Conns : pc[c] = "write" /\ hnd[c].row # 0 => Taken(hnd[c].row) /\ hnd[c].row \notin sentFresh.once
    /\ \A c, d \in Conns :
          pc[c] = "write" /\ pc[d] = "write" /\ hnd[c].row # 0 /\ hnd[c].row = hnd[d].row => c = d

IInv == TypeOK /\ SubOfSession /\ Ended /\ AtHand /\ Publishing /\ Claimed /\ ReplayOnce

\* While the replay of the present subscription runs, what the client lacks is in its batch:
\* only rows with QoS > 0 count, as a stale socket may take the others.
Pending(c) == IF pc[c] \in {"replay", "claim", "write"} THEN hnd[c].batch ELSE {}
Queued     == {rows[r].value : r \in {s \in RowIds : rows[s] # None /\ rows[s].qos > 0}}
ReplayInv ==
    \A c \in Conns :
        /\ Owner(c) /\ pc[c] \in {"up", "replay", "claim", "write"} /\ sub = c /\ c \notin cutShort
        /\ prof[c].qos > 0 /\ prof[c].rh = 0
        => {retained[t] : t \in Topics} \ {0} \subseteq seen \cup lost \cup late \cup Queued \cup Pending(c)

\* The message at hand of a replay and its row.
LEMMA HandlerTypes ==
    ASSUME NEW h \in Handler, NEW v \in Values, NEW r \in 0..MaxRow
    PROVE  /\ AtHandOf(h, v, r) \in Handler
           /\ AtHandOf(h, v, r).value = v /\ AtHandOf(h, v, r).row = r
           /\ AtHandOf(h, v, r).batch = h.batch
  BY DEF Handler, AtHandOf

LEMMA SpendTypes ==
    ASSUME left \in [Kinds -> Nat], NEW k \in Kinds, Spend(k)
    PROVE  left' \in [Kinds -> Nat]
  BY DEF Spend

LEMMA WroteTypes ==
    ASSUME sentFresh \in [{"once", "twice"} -> SUBSET RowIds], NEW r \in RowIds, Wrote(r)
    PROVE  /\ sentFresh' \in [{"once", "twice"} -> SUBSET RowIds]
           /\ sentFresh'.once = sentFresh.once \cup {r}
           /\ r \notin sentFresh.once => sentFresh'.twice = sentFresh.twice
  BY DEF Wrote

LEMMA InsertTypes ==
    ASSUME rows \in [RowIds -> Row], lastRow \in 0..MaxRow, NEW v \in Values, NEW q \in 0..1, Insert(v, q)
    PROVE  /\ rows' \in [RowIds -> Row] /\ lastRow' \in 0..MaxRow /\ lastRow' = lastRow + 1
           /\ lastRow' \in RowIds
           /\ rows'[lastRow'] # None /\ rows'[lastRow'].value = v /\ rows'[lastRow'].qos = q
           /\ rows'[lastRow'].state = 0
           /\ \A r \in RowIds \ {lastRow'} : rows'[r] = rows[r]
<1> DEFINE n == [value |-> v, qos |-> q, state |-> 0]
<1>1. lastRow + 1 \in RowIds /\ lastRow' = lastRow + 1 /\ lastRow' \in 0..MaxRow
  BY SubscriptionsAssumption DEF Insert, RowIds
<1>2. n \in Row /\ n.value = v /\ n.qos = q /\ n.state = 0
  BY DEF Row
<1>3. n # None
  <2>1. v \in Nat
    BY SubscriptionsAssumption DEF Values
  <2> QED
    BY <2>1, SubscriptionsAssumption
<1>4. rows' = [rows EXCEPT ![lastRow'] = n]
  BY <1>1 DEF Insert
<1> HIDE DEF n
<1> QED
  BY <1>1, <1>2, <1>3, <1>4

\* Claiming a row.
LEMMA ClaimTypes ==
    ASSUME NEW x \in Row, x # None
    PROVE  /\ [x EXCEPT !.state = 1] \in Row /\ [x EXCEPT !.state = 1] # None
           /\ [x EXCEPT !.state = 1].state = 1 /\ [x EXCEPT !.state = 1].value = x.value
           /\ [x EXCEPT !.state = 1].qos = x.qos
<1>1. x \in [value : Values, qos : 0..1, state : 0..1]
  BY DEF Row
<1> DEFINE y == [x EXCEPT !.state = 1]
<1>2. y \in [value : Values, qos : 0..1, state : 0..1] /\ y.state = 1 /\ y.value = x.value /\ y.qos = x.qos
  BY <1>1
<1>3. y # None
  <2>1. Values \subseteq Nat
    BY SubscriptionsAssumption DEF Values
  <2>2. y \in [value : Nat, qos : 0..1, state : 0..1]
    BY <1>2, <2>1
  <2> QED
    BY <2>2, SubscriptionsAssumption
<1> QED
  BY <1>2, <1>3 DEF Row

LEMMA InitInv == Init => IInv /\ ReplayInv
<1> SUFFICES ASSUME Init PROVE IInv /\ ReplayInv
  OBVIOUS
<1>1. PICK s \in Scenarios : /\ prof = s.prof /\ retained = s.retained /\ left = s.left
                            /\ lastValue = Cardinality({t \in Topics : s.retained[t] # 0})
  BY DEF Init
<1>2. lastValue \in 0..MaxValue
  <2>1. IsFiniteSet({t \in Topics : s.retained[t] # 0})
    BY FS_Subset, SubscriptionsAssumption
  <2>2. Cardinality({t \in Topics : s.retained[t] # 0}) \in Nat
    BY <2>1, FS_CardinalityType
  <2> QED
    BY <1>1, <2>2, SubscriptionsAssumption
<1>3. NoHandler \in Handler /\ NoTx \in Tx /\ 0 \in 0..MaxRow
  BY SubscriptionsAssumption DEF NoHandler, Handler, NoTx, Tx
<1>4. TypeOK
  BY <1>1, <1>2, <1>3, SubscriptionsAssumption DEF Init, TypeOK, Session, Row, Values
<1>5. SubOfSession /\ Ended /\ AtHand /\ Publishing /\ ReplayOnce /\ ReplayInv
  BY SubscriptionsAssumption DEF Init, NoTx, SubOfSession, Ended, AtHand, Publishing, ReplayOnce, ReplayInv, Owner
<1>6. Claimed
  BY DEF Init, Claimed, Taken
<1> QED
  BY <1>4, <1>5, <1>6 DEF IInv

-----------------------------------------------------------------------------
(* The step, one action at a time.                                         *)

\* A step that writes nothing and gives up rows or claims them disturbs no claim.
LEMMA ClaimedFrame ==
    ASSUME TypeOK, Claimed, UNCHANGED <<lastRow, sentFresh>>,
           \A r \in RowIds : rows'[r] = rows[r] \/ rows'[r] = None,
           \A c \in Conns : pc'[c] = "write" => pc[c] = "write" /\ hnd'[c].row = hnd[c].row
    PROVE  Claimed'
<1>1. \A r \in 1..lastRow : r \in RowIds
  BY SubscriptionsAssumption DEF TypeOK, RowIds
<1>2. \A r : Taken(r) => Taken(r)'
  BY <1>1 DEF Taken
<1> QED
  BY <1>2 DEF Claimed

LEMMA InvNext == IInv /\ [Next]_vars => IInv'
<1> SUFFICES ASSUME IInv, [Next]_vars PROVE IInv'
  OBVIOUS
<1> USE DEF IInv
<1>0. /\ hnd \in [Conns -> Handler] /\ rows \in [RowIds -> Row] /\ left \in [Kinds -> Nat]
      /\ lastRow \in 0..MaxRow /\ lastValue \in 0..MaxValue /\ NoRows \in [RowIds -> Row]
      /\ sentFresh \in [{"once", "twice"} -> SUBSET RowIds] /\ open \in [Conns -> BOOLEAN]
      /\ pc \in [Conns -> {"idle", "owned", "cleaned", "up", "suback", "query", "replay", "claim",
                           "write", "closing", "gone"}]
      /\ NoHandler \in Handler /\ NoTx \in Tx /\ None \in Row /\ None \in Session
      /\ retained \in [Topics -> Values \cup {0}] /\ pub \in Tx /\ prof \in [Conns -> Profile] /\ sess \in Session
  <2>1. NoHandler \in Handler /\ NoTx \in Tx
    BY SubscriptionsAssumption DEF NoHandler, Handler, NoTx, Tx
  <2>2. None \in Row /\ None \in Session /\ NoRows \in [RowIds -> Row]
    BY DEF NoRows, Row, Session
  <2> QED
    BY <2>1, <2>2 DEF TypeOK
<1>1. CASE UNCHANGED vars
  BY <1>1 DEF vars, tableVars, connVars, ghostVars, TypeOK, SubOfSession, Ended, AtHand, Publishing, Claimed, Taken, ReplayOnce
<1>2. ASSUME NEW c \in Conns, TakeOwnership(c) PROVE IInv'
  <2>1. sess' \in Session /\ sess' # None /\ sess'.owner = c /\ sess'.connected
    <3> DEFINE r == [owner |-> c, connected |-> TRUE, clean |-> prof[c].clean, keep |-> prof[c].keep]
    <3>1. prof[c].clean \in BOOLEAN /\ prof[c].keep \in BOOLEAN
      BY <1>0 DEF Profile
    <3>2. r \in [owner : Conns, connected : BOOLEAN, clean : BOOLEAN, keep : BOOLEAN] /\ r.owner = c /\ r.connected
      BY <3>1
    <3>3. sess' = r
      BY <1>2 DEF TakeOwnership
    <3> HIDE DEF r
    <3> QED
      BY <3>2, <3>3, SubscriptionsAssumption DEF Session
  <2>2. TypeOK'
    BY <1>2, <2>1 DEF TypeOK, TakeOwnership, Goto, ghostVars
  <2> QED
    BY <1>0, <1>2, <2>1, <2>2
       DEF TakeOwnership, Goto, ghostVars, SubOfSession, Ended, AtHand, Publishing, Claimed, Taken, ReplayOnce
<1>3. ASSUME NEW c \in Conns, Cleanup(c) PROVE IInv'
  <2>1. TypeOK'
    BY <1>0, <1>3 DEF TypeOK, Cleanup, Goto, ghostVars
  <2>2. Claimed'
    <3>1. \A r \in RowIds : rows'[r] = rows[r] \/ rows'[r] = None
      BY <1>3 DEF Cleanup, NoRows
    <3> QED
      BY <1>0, <1>3, <3>1, ClaimedFrame DEF Cleanup, Goto, ghostVars
  <2> QED
    BY <1>0, <1>3, <2>1, <2>2, SubscriptionsAssumption DEF Cleanup, Goto, ghostVars, SubOfSession, Ended, AtHand, Publishing, ReplayOnce
<1>4. ASSUME NEW c \in Conns, CleanupFails(c) PROVE IInv'
  <2>1. TypeOK'
    BY <1>0, <1>4, SpendTypes DEF TypeOK, CleanupFails, Goto, ghostVars, tableVars, Kinds
  <2> QED
    BY <1>0, <1>4, <2>1
       DEF CleanupFails, Goto, ghostVars, tableVars, SubOfSession, Ended, AtHand, Publishing, Claimed, Taken, ReplayOnce
<1>5. ASSUME NEW c \in Conns, Connack(c) PROVE IInv'
  <2>1. seen' \subseteq Values
    BY <1>0, <1>5 DEF Connack, Row, TypeOK
  <2>2. TypeOK'
    BY <1>0, <1>5, <2>1 DEF TypeOK, Connack, Goto, tableVars
  <2> QED
    BY <1>0, <1>5, <2>2
       DEF Connack, Goto, tableVars, SubOfSession, Ended, AtHand, Publishing, Claimed, Taken, ReplayOnce
<1>6. ASSUME NEW c \in Conns, Close(c) \/ Hangup(c) PROVE IInv'
  <2>1. TypeOK'
    BY <1>0, <1>6 DEF TypeOK, Close, Hangup, Goto, ghostVars, tableVars
  <2> QED
    BY <1>0, <1>6, <2>1
       DEF Close, Hangup, Goto, ghostVars, tableVars, SubOfSession, Ended, AtHand, Publishing, Claimed, Taken, ReplayOnce
<1>7. ASSUME NEW c \in Conns, HandleDisconnect(c) PROVE IInv'
  <2>1. ASSUME sess # None PROVE /\ [sess EXCEPT !.connected = FALSE] \in Session
                                 /\ [sess EXCEPT !.connected = FALSE].owner = sess.owner
                                 /\ [sess EXCEPT !.connected = FALSE] # None
    <3>1. sess \in [owner : Conns, connected : BOOLEAN, clean : BOOLEAN, keep : BOOLEAN]
      BY <1>0, <2>1 DEF Session
    <3>2. /\ [sess EXCEPT !.connected = FALSE] \in [owner : Conns, connected : BOOLEAN, clean : BOOLEAN, keep : BOOLEAN]
          /\ [sess EXCEPT !.connected = FALSE].owner = sess.owner
      BY <3>1
    <3> QED
      BY <3>2, SubscriptionsAssumption DEF Session
  <2>2. TypeOK'
    BY <1>0, <1>7, <2>1 DEF TypeOK, HandleDisconnect, EndSession, Goto, ghostVars
  <2>3. SubOfSession' /\ Ended'
    BY <1>0, <1>7, <2>1, SubscriptionsAssumption DEF HandleDisconnect, EndSession, Goto, SubOfSession, Ended
  <2>4. Claimed'
    <3>1. \A r \in RowIds : rows'[r] = rows[r] \/ rows'[r] = None
      BY <1>7 DEF HandleDisconnect, EndSession, NoRows
    <3> QED
      BY <1>0, <1>7, <3>1, ClaimedFrame DEF HandleDisconnect, Goto, ghostVars
  <2> QED
    BY <1>0, <1>7, <2>2, <2>3, <2>4 DEF HandleDisconnect, Goto, ghostVars, AtHand, Publishing, ReplayOnce
<1>8. ASSUME NEW c \in Conns, Subscribe(c) PROVE IInv'
  <2>1. CASE sess = None
    <3>1. TypeOK'
      BY <1>0, <1>8, <2>1, SpendTypes DEF TypeOK, Subscribe, Goto, ghostVars, Kinds
    <3> QED
      BY <1>0, <1>8, <2>1, <3>1
         DEF Subscribe, Goto, ghostVars, SubOfSession, Ended, AtHand, Publishing, Claimed, Taken, ReplayOnce
  <2>2. CASE sess # None
    <3> DEFINE b == Replays(c, sub = None)
    <3>1. b \in BOOLEAN /\ (prof[c].rh = 0 => b)
      BY DEF Replays
    <3>2. hnd' = [hnd EXCEPT ![c] = [hnd[c] EXCEPT !.replay = b]] /\ pc' = [pc EXCEPT ![c] = "suback"]
      BY <1>8, <2>2 DEF Subscribe, Goto
    <3> HIDE DEF b
    <3>3. [hnd[c] EXCEPT !.replay = b] \in Handler /\ [hnd[c] EXCEPT !.replay = b].replay = b
      BY <1>0, <3>1 DEF Handler
    <3>4. hnd' \in [Conns -> Handler] /\ hnd'[c].replay = b /\ \A d \in Conns \ {c} : hnd'[d] = hnd[d]
      BY <1>0, <3>2, <3>3
    <3>5. TypeOK'
      BY <1>0, <1>8, <2>2, <3>2, <3>4, SpendTypes DEF TypeOK, Subscribe, ghostVars, Kinds
    <3>6. AtHand' /\ Claimed'
      BY <1>0, <1>8, <3>1, <3>2, <3>4 DEF Subscribe, ghostVars, AtHand, Claimed, Taken
    <3> QED
      BY <1>0, <1>8, <2>2, <3>2, <3>5, <3>6 DEF Subscribe, ghostVars, SubOfSession, Ended, Publishing, ReplayOnce
  <2> QED
    BY <2>1, <2>2
<1>9. ASSUME NEW c \in Conns, Suback(c) \/ NothingRetained(c) PROVE IInv'
  <2>1. TypeOK'
    BY <1>0, <1>9 DEF TypeOK, Suback, NothingRetained, Goto, ghostVars, tableVars
  <2>2. Claimed'
    BY <1>0, <1>9, ClaimedFrame DEF Suback, NothingRetained, Goto, ghostVars, tableVars
  <2> QED
    BY <1>0, <1>9, <2>1, <2>2
       DEF Suback, NothingRetained, Goto, ghostVars, tableVars, SubOfSession, Ended, AtHand, Publishing, ReplayOnce
<1>10. ASSUME NEW c \in Conns, QueryRetained(c) PROVE IInv'
  <2> DEFINE B == {retained[t] : t \in Topics} \ {0}
  <2>1. B \in SUBSET Values
    BY <1>0
  <2> HIDE DEF B
  <2>2. [NoHandler EXCEPT !.batch = B] \in Handler
    BY <1>0, <2>1 DEF Handler
  <2>3. hnd' = [hnd EXCEPT ![c] = [NoHandler EXCEPT !.batch = B]] /\ pc' = [pc EXCEPT ![c] = "replay"]
    BY <1>10 DEF QueryRetained, Goto, B
  <2>4. hnd' \in [Conns -> Handler] /\ \A d \in Conns \ {c} : hnd'[d] = hnd[d] /\ pc'[d] = pc[d]
    BY <1>0, <2>2, <2>3
  <2>5. TypeOK'
    BY <1>0, <1>10, <2>3, <2>4 DEF TypeOK, QueryRetained, ghostVars, tableVars
  <2>6. Claimed'
    BY <1>0, <1>10, <2>3, <2>4, ClaimedFrame DEF QueryRetained, ghostVars, tableVars
  <2> QED
    BY <1>0, <1>10, <2>3, <2>4, <2>5, <2>6
       DEF QueryRetained, ghostVars, tableVars, SubOfSession, Ended, AtHand, Publishing, ReplayOnce
<1>11. ASSUME NEW c \in Conns, NEW v \in Values, PersistRetained(c, v) PROVE IInv'
  <2>1. CASE prof[c].qos = 0
    <3> DEFINE h == AtHandOf(hnd[c], v, 0)
    <3>1. h \in Handler /\ h.value = v /\ h.row = 0
      <4>1. 0 \in 0..MaxRow
        BY SubscriptionsAssumption
      <4>2. hnd[c] \in Handler
        BY <1>0
      <4> QED
        BY <4>1, <4>2, HandlerTypes
    <3>2. hnd' = [hnd EXCEPT ![c] = h] /\ pc' = [pc EXCEPT ![c] = "write"]
      BY <1>11, <2>1 DEF PersistRetained, Goto
    <3> HIDE DEF h
    <3>3. /\ hnd' \in [Conns -> Handler] /\ \A d \in Conns \ {c} : hnd'[d] = hnd[d] /\ pc'[d] = pc[d]
          /\ hnd'[c].value = v /\ hnd'[c].row = 0
      BY <1>0, <3>1, <3>2
    <3>4. UNCHANGED <<rows, lastRow>> /\ UNCHANGED <<prof, sess, sub, retained, lastValue, open, pub, left, ghostVars>>
      BY <1>11, <2>1 DEF PersistRetained
    <3>5. TypeOK'
      BY <1>0, <3>2, <3>3, <3>4 DEF TypeOK, ghostVars
    <3>6. Claimed'
      BY <1>0, <3>2, <3>3, <3>4 DEF Claimed, Taken, ghostVars
    <3> QED
      BY <1>0, <1>11, <3>2, <3>3, <3>4, <3>5, <3>6
         DEF PersistRetained, ghostVars, SubOfSession, Ended, AtHand, Publishing, ReplayOnce
  <2>2. CASE prof[c].qos # 0
    <3> DEFINE n == lastRow + 1
               h == AtHandOf(hnd[c], v, n)
    <3>1. Insert(v, 1) /\ UNCHANGED <<prof, sess, sub, retained, lastValue, open, pub, left, ghostVars>>
      BY <1>11, <2>2 DEF PersistRetained
    <3>2. /\ rows' \in [RowIds -> Row] /\ lastRow' \in 0..MaxRow /\ lastRow' = n /\ n \in RowIds /\ n \in 0..MaxRow
          /\ \A r \in RowIds \ {n} : rows'[r] = rows[r]
      BY <1>0, <3>1, InsertTypes
    <3>3. hnd' = [hnd EXCEPT ![c] = h] /\ pc' = [pc EXCEPT ![c] = "claim"]
      BY <1>11, <2>2 DEF PersistRetained, Goto
    <3>4. /\ n = lastRow + 1 /\ n \in 1..n /\ 1..n \subseteq RowIds
          /\ \A r \in 1..lastRow : r \in 1..n /\ r # n /\ r \in RowIds
      <4>1. lastRow \in Nat /\ MaxRow \in Nat /\ n <= MaxRow
        BY <1>0, <3>2, SubscriptionsAssumption DEF RowIds
      <4> QED
        BY <4>1 DEF RowIds
    <3> HIDE DEF n
    <3>5. h \in Handler /\ h.value = v /\ h.row = n
      <4>1. hnd[c] \in Handler
        BY <1>0
      <4> QED
        BY <3>2, <4>1, HandlerTypes
    <3> HIDE DEF h
    <3>6. /\ hnd' \in [Conns -> Handler] /\ \A d \in Conns \ {c} : hnd'[d] = hnd[d] /\ pc'[d] = pc[d]
          /\ hnd'[c].value = v /\ hnd'[c].row = n
      BY <1>0, <3>3, <3>5
    <3>7. TypeOK'
      BY <1>0, <3>1, <3>2, <3>3, <3>6 DEF TypeOK, ghostVars
    <3>8. Claimed'
      <4>1. \A r : Taken(r) => Taken(r)'
        BY <3>2, <3>4 DEF Taken
      <4>2. \A r \in RowIds : rows'[r] # None => r <= lastRow'
        BY <1>0, <3>2, <3>4 DEF Claimed, RowIds
      <4> QED
        BY <1>0, <3>1, <3>3, <3>6, <4>1, <4>2 DEF Claimed, ghostVars
    <3>9. AtHand'
      BY <1>0, <3>1, <3>2, <3>3, <3>4, <3>6 DEF AtHand
    <3> QED
      BY <1>0, <1>11, <3>1, <3>3, <3>6, <3>7, <3>8, <3>9
         DEF PersistRetained, ghostVars, SubOfSession, Ended, Publishing, ReplayOnce
  <2> QED
    BY <2>1, <2>2
<1>12. ASSUME NEW c \in Conns, ReplayFails(c) \/ WriteRetainedFails(c) PROVE IInv'
  <2>1. TypeOK'
    BY <1>0, <1>12, SpendTypes DEF TypeOK, ReplayFails, WriteRetainedFails, Goto, tableVars, Kinds
  <2>2. Claimed'
    BY <1>0, <1>12, ClaimedFrame DEF ReplayFails, WriteRetainedFails, Goto, tableVars
  <2> QED
    BY <1>0, <1>12, <2>1, <2>2
       DEF ReplayFails, WriteRetainedFails, Goto, tableVars, SubOfSession, Ended, AtHand, Publishing, ReplayOnce
<1>13. ASSUME NEW c \in Conns, AllocPacketID(c) PROVE IInv'
  <2>r. PICK r \in 1..lastRow : r = hnd[c].row
    BY <1>13 DEF AllocPacketID, AtHand
  <2>0. /\ pc[c] = "claim" /\ r \in 1..lastRow /\ r \in RowIds
        /\ UNCHANGED <<prof, sess, sub, retained, lastRow, lastValue, open, pub, left, seen, sentFresh, granted, late, lost>>
    <3>1. pc[c] = "claim" /\ r \in 1..lastRow
      BY <1>13, <2>r DEF AllocPacketID
    <3>2. r \in RowIds
      BY <1>0, <3>1, SubscriptionsAssumption DEF RowIds
    <3> QED
      BY <1>13, <3>1, <3>2 DEF AllocPacketID
  <2>1. CASE rows[r] # None /\ rows[r].state = 0
    <3> DEFINE x == [rows[r] EXCEPT !.state = 1]
    <3>1. x \in Row /\ x # None /\ x.state = 1
      BY <1>0, <2>0, <2>1, ClaimTypes
    <3>2. rows' = [rows EXCEPT ![r] = x] /\ pc' = [pc EXCEPT ![c] = "write"] /\ UNCHANGED <<hnd, cutShort>>
      BY <1>13, <2>r, <2>1 DEF AllocPacketID, Goto
    <3> HIDE DEF x
    <3>3. rows' \in [RowIds -> Row] /\ rows'[r] = x /\ \A s \in RowIds \ {r} : rows'[s] = rows[s]
      BY <1>0, <2>0, <3>1, <3>2
    <3>4. TypeOK'
      BY <1>0, <2>0, <3>2, <3>3 DEF TypeOK
    <3>5. Claimed'
      <4>1. \A s \in 1..lastRow : s \in RowIds
        BY <1>0, SubscriptionsAssumption DEF RowIds
      <4>2. \A s : Taken(s) => Taken(s)' /\ s # r
        BY <2>0, <2>1, <3>1, <3>3, <4>1 DEF Taken
      <4>3. Taken(r)'
        BY <2>0, <3>1, <3>3 DEF Taken
      <4>4. \A s \in RowIds : rows'[s] # None => s <= lastRow'
        BY <2>0, <2>1, <3>3 DEF Claimed
      <4>5. r \notin sentFresh.once /\ \A d \in Conns : pc[d] = "write" /\ hnd[d].row # 0 => hnd[d].row # r
        BY <4>2 DEF Claimed
      <4> QED
        BY <1>0, <2>r, <2>0, <3>2, <4>2, <4>3, <4>4, <4>5 DEF Claimed
    <3> QED
      BY <1>0, <2>0, <3>2, <3>4, <3>5 DEF SubOfSession, Ended, AtHand, Publishing, ReplayOnce
  <2>2. CASE ~(rows[r] # None /\ rows[r].state = 0)
    <3>1. /\ hnd' = [hnd EXCEPT ![c] = NoHandler] /\ pc' = [pc EXCEPT ![c] = "up"] /\ UNCHANGED rows
          /\ cutShort' = cutShort \cup {c}
      BY <1>13, <2>r, <2>2 DEF AllocPacketID, Goto
    <3>2. TypeOK'
      BY <1>0, <2>0, <3>1 DEF TypeOK
    <3>3. Claimed'
      BY <1>0, <2>0, <3>1, ClaimedFrame
    <3> QED
      BY <1>0, <2>0, <3>1, <3>2, <3>3 DEF SubOfSession, Ended, AtHand, Publishing, ReplayOnce
  <2> QED
    BY <2>1, <2>2
<1>14. ASSUME NEW c \in Conns, WriteRetained(c) PROVE IInv'
  <2> DEFINE B == hnd[c].batch \ {hnd[c].value}
             w == IF B = {} THEN "up" ELSE "replay"
             r == hnd[c].row
  <2>1. B \in SUBSET Values /\ hnd[c].value \in Values /\ r \in 0..MaxRow /\ w \in {"up", "replay"}
    BY <1>0, <1>14 DEF WriteRetained, Handler, AtHand
  <2>2. /\ hnd' = [hnd EXCEPT ![c] = [NoHandler EXCEPT !.batch = B]] /\ pc' = [pc EXCEPT ![c] = w]
        /\ pc[c] = "write" /\ UNCHANGED <<prof, tableVars, open, pub, left, granted, late, cutShort, lost>>
        /\ seen' = IF open[c] THEN seen \cup {hnd[c].value} ELSE seen
        /\ IF r = 0 THEN UNCHANGED sentFresh ELSE Wrote(r)
    BY <1>14 DEF WriteRetained, Goto
  <2> HIDE DEF B, w
  <2>3. [NoHandler EXCEPT !.batch = B] \in Handler
    BY <1>0, <2>1 DEF Handler
  <2>4. hnd' \in [Conns -> Handler] /\ \A d \in Conns \ {c} : hnd'[d] = hnd[d] /\ pc'[d] = pc[d]
    BY <1>0, <2>2, <2>3
  <2>5. /\ sentFresh' \in [{"once", "twice"} -> SUBSET RowIds] /\ sentFresh'.twice = sentFresh.twice
        /\ sentFresh'.once \subseteq sentFresh.once \cup {r} /\ (r = 0 => sentFresh' = sentFresh)
    <3>1. CASE r = 0
      BY <1>0, <2>2, <3>1
    <3>2. CASE r # 0
      <4>1. r \in RowIds /\ r \notin sentFresh.once /\ Wrote(r)
        BY <2>1, <2>2, <3>2, SubscriptionsAssumption DEF RowIds, Claimed
      <4> QED
        BY <1>0, <3>2, <4>1, WroteTypes
    <3> QED
      BY <3>1, <3>2
  <2>6. TypeOK'
    BY <1>0, <2>1, <2>2, <2>4, <2>5 DEF TypeOK, tableVars
  <2>7. Claimed'
    <3>1. \A s : Taken(s) => Taken(s)'
      BY <2>2 DEF Taken, tableVars
    <3>2. r # 0 => Taken(r)
      BY <2>2 DEF Claimed
    <3>3. \A s \in sentFresh'.once : s \in sentFresh.once \/ (s = r /\ r # 0)
      BY <2>5
    <3>4. \A d \in Conns : pc'[d] = "write" => d # c
      BY <1>0, <2>1, <2>2
    <3>5. \A d \in Conns : pc'[d] = "write" /\ hnd'[d].row # 0 => hnd'[d].row # r
      BY <2>2, <2>4, <3>4 DEF Claimed
    <3> HIDE DEF r
    <3> QED
      BY <2>2, <2>4, <3>1, <3>2, <3>3, <3>4, <3>5 DEF Claimed, tableVars
  <2> QED
    BY <1>0, <2>1, <2>2, <2>4, <2>5, <2>6, <2>7
       DEF tableVars, SubOfSession, Ended, AtHand, Publishing, ReplayOnce
<1>15. ASSUME NEW c \in Conns, Unsubscribe(c) PROVE IInv'
  <2>1. TypeOK'
    BY <1>0, <1>15, SpendTypes DEF TypeOK, Unsubscribe, connVars, Kinds
  <2> QED
    BY <1>0, <1>15, <2>1, SubscriptionsAssumption
       DEF Unsubscribe, connVars, SubOfSession, Ended, AtHand, Publishing, Claimed, Taken, ReplayOnce
<1>16. ASSUME NEW c \in Conns, NEW r \in RowIds, Deliver(c, r) PROVE IInv'
  <2> DEFINE x == IF rows[r].qos = 0 THEN None ELSE [rows[r] EXCEPT !.state = 1]
  <2>0. /\ UNCHANGED <<prof, sess, sub, retained, lastRow, lastValue, connVars, pub, left, granted, late, cutShort, lost>>
        /\ rows[r] # None /\ rows[r].state = 0 /\ rows' = [rows EXCEPT ![r] = x] /\ Wrote(r)
        /\ seen' = IF open[c] THEN seen \cup {rows[r].value} ELSE seen
    BY <1>16 DEF Deliver
  <2>1. x \in Row /\ (x = None \/ x.state = 1)
    BY <1>0, <2>0, ClaimTypes
  <2> HIDE DEF x
  <2>2. rows' \in [RowIds -> Row] /\ rows'[r] = x /\ \A s \in RowIds \ {r} : rows'[s] = rows[s]
    BY <1>0, <2>0, <2>1
  <2>3. \A s \in 1..lastRow : s \in RowIds
    BY <1>0, SubscriptionsAssumption DEF RowIds
  <2>4. r \in 1..lastRow
    BY <2>0, SubscriptionsAssumption DEF Claimed, RowIds
  <2>5. Taken(r)' /\ ~Taken(r) /\ \A s : Taken(s) => Taken(s)'
    BY <2>0, <2>1, <2>2, <2>3, <2>4 DEF Taken
  <2>6. /\ sentFresh' \in [{"once", "twice"} -> SUBSET RowIds] /\ sentFresh'.twice = sentFresh.twice
        /\ sentFresh'.once = sentFresh.once \cup {r}
    BY <1>0, <2>0, <2>5, WroteTypes DEF Claimed
  <2>7. seen' \subseteq Values
    BY <1>0, <2>0 DEF Row, TypeOK
  <2>8. TypeOK'
    BY <1>0, <2>0, <2>2, <2>6, <2>7 DEF TypeOK, connVars
  <2>9. Claimed'
    <3>1. \A d \in Conns : pc[d] = "write" /\ hnd[d].row # 0 => hnd[d].row # r
      BY <2>5 DEF Claimed
    <3>2. \A s \in RowIds : rows'[s] # None => s <= lastRow'
      BY <2>0, <2>2 DEF Claimed
    <3> QED
      BY <2>0, <2>5, <2>6, <3>1, <3>2 DEF Claimed, connVars
  <2> QED
    BY <2>0, <2>6, <2>8, <2>9 DEF connVars, SubOfSession, Ended, AtHand, Publishing, ReplayOnce
<1>17. ASSUME NEW c \in Conns, NEW r \in RowIds, DropUndeliverable(c, r) \/ Ack(c, r) PROVE IInv'
  <2>1. /\ rows' = [rows EXCEPT ![r] = None] /\ lost' = lost \cup ({rows[r].value} \ seen) /\ rows[r] # None
        /\ UNCHANGED <<prof, sess, sub, retained, lastRow, lastValue, connVars, pub, seen, sentFresh, granted, late, cutShort>>
    BY <1>17 DEF DropUndeliverable, Ack, Discard
  <2>2. left' \in [Kinds -> Nat]
    BY <1>0, <1>17, SpendTypes DEF DropUndeliverable, Ack, Kinds
  <2>3. lost' \subseteq Values
    BY <1>0, <2>1 DEF TypeOK, Row
  <2>4. TypeOK'
    BY <1>0, <2>1, <2>2, <2>3 DEF TypeOK, connVars
  <2>5. Claimed'
    BY <1>0, <2>1, ClaimedFrame DEF connVars
  <2> QED
    BY <2>1, <2>4, <2>5 DEF connVars, SubOfSession, Ended, AtHand, Publishing, ReplayOnce
<1>24. ASSUME NEW c \in Conns, NEW r \in RowIds, ClaimUnanswered(c, r) PROVE IInv'
  <2> DEFINE x == IF rows[r].qos = 0 THEN None ELSE [rows[r] EXCEPT !.state = 1]
  <2>0. /\ UNCHANGED <<prof, sess, sub, retained, lastRow, lastValue, connVars, pub, ghostVars>>
        /\ rows[r] # None /\ rows[r].state = 0 /\ rows' = [rows EXCEPT ![r] = x]
    BY <1>24 DEF ClaimUnanswered
  <2>1. x \in Row /\ (x = None \/ x.state = 1)
    BY <1>0, <2>0, ClaimTypes
  <2> HIDE DEF x
  <2>2. rows' \in [RowIds -> Row] /\ rows'[r] = x /\ \A s \in RowIds \ {r} : rows'[s] = rows[s]
    BY <1>0, <2>0, <2>1
  <2>3. \A s \in 1..lastRow : s \in RowIds
    BY <1>0, SubscriptionsAssumption DEF RowIds
  <2>4. \A s : Taken(s) => Taken(s)'
    BY <2>0, <2>1, <2>2, <2>3 DEF Taken
  <2>5. left' \in [Kinds -> Nat]
    BY <1>0, <1>24, SpendTypes DEF ClaimUnanswered, Kinds
  <2>6. TypeOK'
    BY <1>0, <2>0, <2>2, <2>5 DEF TypeOK, connVars, ghostVars
  <2>7. Claimed'
    <3>1. \A s \in RowIds : rows'[s] # None => s <= lastRow'
      BY <2>0, <2>2 DEF Claimed
    <3> QED
      BY <2>0, <2>4, <3>1 DEF Claimed, connVars, ghostVars
  <2> QED
    BY <2>0, <2>6, <2>7 DEF connVars, ghostVars, SubOfSession, Ended, AtHand, Publishing, ReplayOnce
<1>18. ASSUME NEW t \in Topics, ExpireRetained(t) PROVE IInv'
  <2>1. TypeOK'
    BY <1>0, <1>18 DEF TypeOK, ExpireRetained, connVars, ghostVars
  <2> QED
    BY <1>18, <2>1
       DEF ExpireRetained, connVars, ghostVars, SubOfSession, Ended, AtHand, Publishing, Claimed, Taken, ReplayOnce
<1>19. ASSUME NEW t \in Topics, NEW clear \in BOOLEAN, PublishRetain(t, clear) PROVE IInv'
  <2>1. pub' \in Tx
    BY <1>0, <1>19 DEF PublishRetain, Tx
  <2>2. lastValue' \in Values /\ lastValue' \in 0..MaxValue
    BY <1>0, <1>19, SubscriptionsAssumption DEF PublishRetain, Values
  <2>3. TypeOK'
    BY <1>0, <1>19, <2>1, <2>2, SpendTypes DEF TypeOK, PublishRetain, connVars, ghostVars, Kinds
  <2> QED
    BY <1>19, <2>2, <2>3
       DEF PublishRetain, connVars, ghostVars, SubOfSession, Ended, AtHand, Publishing, Claimed, Taken, ReplayOnce
<1>20. ASSUME PublishFanout PROVE IInv'
  <2> DEFINE q == IF sub = None THEN 0 ELSE prof[sub].qos
             m == sub # None /\ (q > 0 \/ sess.connected)
  <2>1. q \in 0..1
    BY <1>0 DEF Profile, TypeOK
  <2>2. m \in BOOLEAN
    OBVIOUS
  <2>3. pub' = [pub EXCEPT !.at = "commit", !.qos = q, !.matched = m] /\ pub.at = "fanout"
        /\ UNCHANGED <<prof, tableVars, connVars, left, ghostVars>>
    BY <1>20 DEF PublishFanout
  <2> HIDE DEF q, m
  <2>4. pub' \in Tx
    BY <1>0, <2>1, <2>2, <2>3 DEF Tx
  <2>5. TypeOK'
    BY <2>3, <2>4 DEF TypeOK, tableVars, connVars, ghostVars
  <2> QED
    BY <2>3, <2>5
       DEF tableVars, connVars, ghostVars, SubOfSession, Ended, AtHand, Publishing, Claimed, Taken, ReplayOnce
<1>21. ASSUME PublishCommit PROVE IInv'
  <2>0. /\ pub.at = "commit" /\ pub' = NoTx /\ lastValue \in Values /\ pub.qos \in 0..1
        /\ UNCHANGED <<prof, sess, sub, lastValue, connVars, left, seen, sentFresh, granted, cutShort, lost>>
    BY <1>0, <1>21 DEF PublishCommit, Publishing, Tx
  <2>1. retained' \in [Topics -> Values \cup {0}]
    BY <1>0, <1>21, <2>0 DEF PublishCommit
  <2>2. late' \subseteq Values
    BY <1>21, <2>0 DEF PublishCommit, TypeOK
  <2>3. /\ rows' \in [RowIds -> Row] /\ lastRow' \in 0..MaxRow /\ lastRow <= lastRow'
        /\ \A r \in RowIds : rows'[r] # None => r <= lastRow'
        /\ \A r \in 1..lastRow : r \in RowIds /\ rows'[r] = rows[r]
    <3>1. \A r \in 1..lastRow : r \in RowIds
      BY <1>0, SubscriptionsAssumption DEF RowIds
    <3>2. CASE pub.matched
      <4>1. Insert(lastValue, pub.qos)
        BY <1>21, <3>2 DEF PublishCommit
      <4>2. /\ rows' \in [RowIds -> Row] /\ lastRow' \in 0..MaxRow /\ lastRow' = lastRow + 1
            /\ \A r \in RowIds \ {lastRow'} : rows'[r] = rows[r]
        BY <1>0, <2>0, <4>1, InsertTypes
      <4>3. \A r \in RowIds : rows'[r] # None => r <= lastRow'
        BY <1>0, <4>2 DEF Claimed, RowIds
      <4> QED
        BY <1>0, <3>1, <4>2, <4>3
    <3>3. CASE ~pub.matched
      BY <1>0, <1>21, <3>1, <3>3 DEF PublishCommit, Claimed
    <3> QED
      BY <3>2, <3>3
  <2>4. TypeOK'
    BY <1>0, <2>0, <2>1, <2>2, <2>3 DEF TypeOK, connVars
  <2>5. 1..lastRow \subseteq 1..lastRow'
    BY <1>0, <2>3, SubscriptionsAssumption
  <2>6. \A r : Taken(r) => Taken(r)'
    BY <2>3, <2>5 DEF Taken
  <2>7. Claimed'
    BY <2>0, <2>3, <2>6 DEF Claimed, connVars
  <2>8. AtHand'
    BY <2>0, <2>5 DEF AtHand, connVars
  <2> QED
    BY <2>0, <2>4, <2>7, <2>8 DEF connVars, NoTx, SubOfSession, Ended, Publishing, ReplayOnce
<1>22. ASSUME PublishFails PROVE IInv'
  <2>1. TypeOK'
    BY <1>0, <1>22, SpendTypes DEF TypeOK, PublishFails, tableVars, connVars, ghostVars, Kinds
  <2> QED
    BY <1>22, <2>1
       DEF PublishFails, NoTx, tableVars, connVars, ghostVars, SubOfSession, Ended, AtHand, Publishing, Claimed, Taken, ReplayOnce
<1>23. ASSUME ExpireSession \/ SweepOrphanDeliveries PROVE IInv'
  <2>1. TypeOK'
    BY <1>0, <1>23 DEF TypeOK, ExpireSession, EndSession, SweepOrphanDeliveries, connVars, ghostVars
  <2>2. Claimed'
    <3>1. \A r \in RowIds : rows'[r] = rows[r] \/ rows'[r] = None
      BY <1>23 DEF ExpireSession, EndSession, SweepOrphanDeliveries, NoRows
    <3> QED
      BY <1>23, <3>1, ClaimedFrame DEF ExpireSession, SweepOrphanDeliveries, connVars, ghostVars
  <2> QED
    BY <1>23, <2>1, <2>2, SubscriptionsAssumption
       DEF ExpireSession, EndSession, SweepOrphanDeliveries, connVars, ghostVars, SubOfSession, Ended, AtHand, Publishing, ReplayOnce
<1> QED
  BY <1>1, <1>2, <1>3, <1>4, <1>5, <1>6, <1>7, <1>8, <1>9, <1>10, <1>11, <1>12, <1>13, <1>14, <1>15, <1>16,
     <1>17, <1>18, <1>19, <1>20, <1>21, <1>22, <1>23, <1>24 DEF Next
-----------------------------------------------------------------------------
(* The retained messages that a subscriber has been sent or will be.       *)

\* The subscriber that ReplayInv speaks of, and what it says.
Subject(c) ==
    /\ Owner(c) /\ pc[c] \in {"up", "replay", "claim", "write"} /\ sub = c /\ c \notin cutShort
    /\ prof[c].qos > 0 /\ prof[c].rh = 0
Covered(c) == {retained[t] : t \in Topics} \ {0} \subseteq seen \cup lost \cup late \cup Queued \cup Pending(c)

\* A step that retains nothing new and takes from the queue and the batch only what the
\* client is sent leaves the subscriber covered.
LEMMA CoveredFrame ==
    ASSUME NEW c \in Conns, Covered(c),
           {retained'[t] : t \in Topics} \ {0} \subseteq {retained[t] : t \in Topics} \ {0},
           seen \subseteq seen', lost \subseteq lost', late \subseteq late', Queued \subseteq Queued' \cup seen' \cup lost',
           Pending(c) \subseteq Pending(c)' \cup seen'
    PROVE  Covered(c)'
  BY Zenon DEF Covered

\* Rows that keep their value and QoS stay queued.
LEMMA QueuedFrame ==
    ASSUME \A r \in RowIds : rows[r] # None /\ rows[r].qos > 0 =>
              \/ rows'[r] # None /\ rows'[r].qos > 0 /\ rows'[r].value = rows[r].value
              \/ rows[r].value \in seen' \cup lost'
    PROVE  Queued \subseteq Queued' \cup seen' \cup lost'
  BY DEF Queued

LEMMA ReplayNext == IInv /\ ReplayInv /\ [Next]_vars => ReplayInv'
<1> SUFFICES ASSUME IInv, ReplayInv, [Next]_vars, NEW c \in Conns, Subject(c)' PROVE Covered(c)'
  BY DEF ReplayInv, Subject, Covered
<1>0. /\ hnd \in [Conns -> Handler] /\ rows \in [RowIds -> Row] /\ lastRow \in 0..MaxRow
      /\ open \in [Conns -> BOOLEAN] /\ pub \in Tx /\ prof \in [Conns -> Profile] /\ sess \in Session
      /\ pc \in [Conns -> {"idle", "owned", "cleaned", "up", "suback", "query", "replay", "claim",
                           "write", "closing", "gone"}]
      /\ retained \in [Topics -> Values \cup {0}] /\ c # None
  BY SubscriptionsAssumption DEF IInv, TypeOK
<1>s. Subject(c) => Covered(c)
  BY DEF ReplayInv, Subject, Covered
<1>k. ASSUME UNCHANGED <<retained, rows, hnd>>, Subject(c), seen \subseteq seen', lost' = lost, late' = late, pc'[c] = pc[c]
      PROVE  Covered(c)'
  BY <1>k, <1>s DEF Covered, Queued, Pending
<1>1. CASE UNCHANGED vars
  BY <1>1, <1>k DEF vars, tableVars, connVars, ghostVars, Subject, Owner
<1>2. ASSUME NEW d \in Conns, TakeOwnership(d) PROVE Covered(c)'
  BY <1>0, <1>2 DEF TakeOwnership, Goto, Subject, Owner
<1>3. ASSUME NEW d \in Conns, Cleanup(d) PROVE Covered(c)'
  BY <1>0, <1>3, <1>k DEF Cleanup, Goto, ghostVars, Subject, Owner
<1>4. ASSUME NEW d \in Conns, CleanupFails(d) PROVE Covered(c)'
  BY <1>0, <1>4, <1>k DEF CleanupFails, Goto, tableVars, ghostVars, Subject, Owner
<1>5. ASSUME NEW d \in Conns, Connack(d) PROVE Covered(c)'
  <2>1. d # c
    BY <1>0, <1>5 DEF Connack, tableVars, Subject, IInv, Ended
  <2>2. seen \subseteq seen' /\ pc'[c] = pc[c] /\ UNCHANGED <<prof, tableVars, open, hnd, late, cutShort, lost>>
    BY <1>0, <1>5, <2>1 DEF Connack, Goto
  <2> QED
    BY <2>2, <1>k DEF tableVars, Subject, Owner
<1>6. ASSUME NEW d \in Conns, Close(d) \/ Hangup(d) PROVE Covered(c)'
  BY <1>0, <1>6, <1>k DEF Close, Hangup, Goto, tableVars, ghostVars, Subject, Owner
<1>7. ASSUME NEW d \in Conns, HandleDisconnect(d) PROVE Covered(c)'
  <2>1. pc'[c] = pc[c]
    BY <1>0, <1>7 DEF HandleDisconnect, Goto, Subject
  <2>2. d # c
    BY <1>0, <1>7 DEF HandleDisconnect, Goto, Subject
  <2>3. sess' = sess /\ rows' = rows /\ sub' = sub
    <3>1. CASE sess = None \/ sess.owner # d
      BY <1>7, <3>1 DEF HandleDisconnect
    <3>2. CASE sess # None /\ sess.owner = d /\ prof[d].keep
      <4>1. sess \in [owner : Conns, connected : BOOLEAN, clean : BOOLEAN, keep : BOOLEAN]
        BY <1>0, <3>2 DEF Session
      <4>2. sess' = [sess EXCEPT !.connected = FALSE]
        BY <1>7, <3>2 DEF HandleDisconnect
      <4>3. sess'.owner = d
        BY <3>2, <4>1, <4>2
      <4> QED
        BY <2>2, <4>3 DEF Subject, Owner
    <3>3. CASE sess # None /\ sess.owner = d /\ ~prof[d].keep
      BY <1>7, <3>3 DEF HandleDisconnect, EndSession, Subject, Owner
    <3> QED
      BY <3>1, <3>2, <3>3
  <2> QED
    BY <1>7, <1>k, <2>1, <2>3 DEF HandleDisconnect, ghostVars, Subject, Owner
<1>8. ASSUME NEW d \in Conns, Subscribe(d) PROVE Covered(c)'
  <2>1. d # c
    BY <1>0, <1>8 DEF Subscribe, Goto, Subject
  <2>2. sess # None
    BY <1>8 DEF Subscribe, Subject, Owner
  <2>3. sub' = d
    BY <1>8, <2>2 DEF Subscribe
  <2> QED
    BY <2>1, <2>3 DEF Subject
<1>9. ASSUME NEW d \in Conns, Suback(d) PROVE Covered(c)'
  <2>1. d # c
    BY <1>0, <1>9 DEF Suback, Goto, tableVars, Subject, Owner, IInv, AtHand
  <2> QED
    BY <1>0, <1>9, <1>k, <2>1 DEF Suback, Goto, tableVars, Subject, Owner
<1>10. ASSUME NEW d \in Conns, QueryRetained(d) PROVE Covered(c)'
  <2>1. CASE d # c
    <3>1. hnd'[c] = hnd[c] /\ pc'[c] = pc[c] /\ UNCHANGED <<prof, tableVars, open, ghostVars>>
      BY <1>0, <1>10, <2>1 DEF QueryRetained, Goto
    <3> QED
      BY <1>s, <3>1 DEF Subject, Owner, Covered, Queued, Pending, tableVars, ghostVars
  <2>2. CASE d = c
    <3> DEFINE B == {retained[t] : t \in Topics} \ {0}
    <3>1. hnd'[c] = [NoHandler EXCEPT !.batch = B] /\ pc'[c] = "replay" /\ retained' = retained
      BY <1>0, <1>10, <2>2 DEF QueryRetained, Goto, tableVars
    <3>2. [NoHandler EXCEPT !.batch = B].batch = B
      BY DEF NoHandler
    <3>3. Pending(c)' = B
      BY <3>1, <3>2 DEF Pending
    <3> QED
      BY <3>1, <3>3 DEF Covered
  <2> QED
    BY <2>1, <2>2
<1>11. ASSUME NEW d \in Conns, NothingRetained(d) PROVE Covered(c)'
  <2>1. /\ pc'[c] = pc[c] \/ (pc[c] = "replay" /\ hnd[c].batch = {} /\ pc'[c] = "up")
        /\ UNCHANGED <<prof, tableVars, open, hnd, ghostVars>>
    BY <1>0, <1>11 DEF NothingRetained, Goto
  <2> QED
    BY <1>s, <2>1 DEF Subject, Owner, Covered, Queued, Pending, tableVars, ghostVars
<1>12. ASSUME NEW d \in Conns, NEW v \in Values, PersistRetained(d, v) PROVE Covered(c)'
  <2>1. /\ pc[d] = "replay" /\ pc'[d] \in {"write", "claim"} /\ (d # c => pc'[c] = pc[c])
        /\ UNCHANGED <<prof, sess, sub, retained, open, ghostVars>>
    BY <1>0, <1>12 DEF PersistRetained, Goto
  <2>2. hnd'[c].batch = hnd[c].batch
    BY <1>0, <1>12 DEF PersistRetained, AtHandOf, Handler
  <2>3. Queued \subseteq Queued'
    <3>1. CASE prof[d].qos = 0
      BY <1>12, <3>1 DEF PersistRetained, Queued
    <3>2. CASE prof[d].qos # 0
      <4>1. Insert(v, 1)
        BY <1>12, <3>2 DEF PersistRetained
      <4>2. \A r \in RowIds \ {lastRow'} : rows'[r] = rows[r]
        BY <1>0, <4>1, InsertTypes
      <4>3. lastRow' \in RowIds /\ rows[lastRow'] = None
        BY <1>0, <4>1, InsertTypes DEF IInv, Claimed
      <4> QED
        BY <4>2, <4>3 DEF Queued
    <3> QED
      BY <3>1, <3>2
  <2>4. Subject(c) /\ Pending(c)' = Pending(c)
    BY <2>1, <2>2 DEF Subject, Owner, Pending, ghostVars
  <2> QED
    BY <1>s, <2>1, <2>3, <2>4, CoveredFrame DEF ghostVars
<1>13. ASSUME NEW d \in Conns, ReplayFails(d) \/ WriteRetainedFails(d) PROVE Covered(c)'
  <2>1. d # c
    BY <1>13 DEF ReplayFails, WriteRetainedFails, Subject
  <2>2. hnd'[c] = hnd[c] /\ pc'[c] = pc[c] /\ UNCHANGED <<prof, tableVars, open, seen, late, lost>> /\ cutShort \subseteq cutShort'
    BY <1>0, <1>13, <2>1 DEF ReplayFails, WriteRetainedFails, Goto
  <2> QED
    BY <1>s, <2>2 DEF Subject, Owner, Covered, Queued, Pending, tableVars
<1>14. ASSUME NEW d \in Conns, AllocPacketID(d) PROVE Covered(c)'
  <2>r. PICK r \in 1..lastRow : r = hnd[d].row
    BY <1>14 DEF AllocPacketID, IInv, AtHand
  <2>0. /\ pc[d] = "claim" /\ r \in RowIds
        /\ UNCHANGED <<prof, sess, sub, retained, lastRow, lastValue, open, pub, left, seen, sentFresh, granted, late, lost>>
    <3>1. r \in RowIds
      BY <1>0, <2>r, SubscriptionsAssumption DEF RowIds
    <3> QED
      BY <1>14, <3>1 DEF AllocPacketID
  <2>1. CASE rows[r] # None /\ rows[r].state = 0
    <3> DEFINE x == [rows[r] EXCEPT !.state = 1]
    <3>1. x # None /\ x.value = rows[r].value /\ x.qos = rows[r].qos
      BY <1>0, <2>0, <2>1, ClaimTypes
    <3>2. rows' = [rows EXCEPT ![r] = x] /\ pc' = [pc EXCEPT ![d] = "write"] /\ UNCHANGED <<hnd, cutShort>>
      BY <1>14, <2>r, <2>1 DEF AllocPacketID, Goto
    <3> HIDE DEF x
    <3>3. Queued \subseteq Queued' \cup seen' \cup lost'
      BY <1>0, <3>1, <3>2, QueuedFrame
    <3>4. Subject(c) /\ Pending(c)' = Pending(c)
      BY <1>0, <2>0, <3>2 DEF Subject, Owner, Pending
    <3> QED
      BY <1>s, <2>0, <3>3, <3>4, CoveredFrame
  <2>2. CASE ~(rows[r] # None /\ rows[r].state = 0)
    <3>1. d # c
      BY <1>14, <2>r, <2>2 DEF AllocPacketID, Subject
    <3>2. hnd'[c] = hnd[c] /\ pc'[c] = pc[c] /\ UNCHANGED rows /\ cutShort \subseteq cutShort'
      BY <1>0, <1>14, <2>r, <2>2, <3>1 DEF AllocPacketID, Goto
    <3> QED
      BY <1>s, <2>0, <3>2 DEF Subject, Owner, Covered, Queued, Pending
  <2> QED
    BY <2>1, <2>2
<1>15. ASSUME NEW d \in Conns, WriteRetained(d) PROVE Covered(c)'
  <2>1. seen \subseteq seen' /\ UNCHANGED <<prof, tableVars, open, late, cutShort, lost>>
    BY <1>15 DEF WriteRetained
  <2>2. CASE d # c
    <3>1. hnd'[c] = hnd[c] /\ pc'[c] = pc[c]
      BY <1>0, <1>15, <2>2 DEF WriteRetained, Goto
    <3> QED
      BY <1>s, <2>1, <3>1 DEF Subject, Owner, Covered, Queued, Pending, tableVars
  <2>3. CASE d = c
    <3> DEFINE B == hnd[c].batch \ {hnd[c].value}
               w == IF B = {} THEN "up" ELSE "replay"
    <3>1. hnd'[c] = [NoHandler EXCEPT !.batch = B] /\ pc'[c] = w /\ pc[c] = "write"
      BY <1>0, <1>15, <2>3 DEF WriteRetained, Goto
    <3>2. [NoHandler EXCEPT !.batch = B].batch = B
      BY DEF NoHandler
    <3>3. Pending(c)' = B
      BY <3>1, <3>2 DEF Pending
    <3>4. open[c] /\ hnd[c].value \in seen'
      BY <1>15, <2>1, <2>3 DEF WriteRetained, Subject, Owner
    <3>5. Subject(c) /\ Pending(c) \subseteq Pending(c)' \cup seen'
      BY <2>1, <3>1, <3>3, <3>4 DEF Subject, Owner, Pending, tableVars
    <3>6. Queued' = Queued
      BY <2>1 DEF Queued, tableVars
    <3> QED
      BY <1>s, <2>1, <3>5, <3>6, CoveredFrame DEF tableVars
  <2> QED
    BY <2>2, <2>3
<1>16. ASSUME NEW d \in Conns, Unsubscribe(d) PROVE Covered(c)'
  BY <1>0, <1>16 DEF Unsubscribe, Subject
<1>17. ASSUME NEW d \in Conns, NEW r \in RowIds, Deliver(d, r) PROVE Covered(c)'
  <2>1. /\ seen \subseteq seen' /\ rows[r] # None
        /\ UNCHANGED <<prof, sess, sub, retained, connVars, late, cutShort, lost>>
    BY <1>17 DEF Deliver
  <2>2. Queued \subseteq Queued' \cup seen' \cup lost'
    <3>1. CASE rows[r].qos = 0
      <4>1. rows' = [rows EXCEPT ![r] = None]
        BY <1>17, <3>1 DEF Deliver
      <4> QED
        BY <1>0, <3>1, <4>1, QueuedFrame
    <3>2. CASE rows[r].qos # 0
      <4> DEFINE x == [rows[r] EXCEPT !.state = 1]
      <4>1. rows' = [rows EXCEPT ![r] = x]
        BY <1>17, <3>2 DEF Deliver
      <4>2. x # None /\ x.value = rows[r].value /\ x.qos = rows[r].qos
        BY <1>0, <2>1, ClaimTypes
      <4> HIDE DEF x
      <4> QED
        BY <1>0, <4>1, <4>2, QueuedFrame
    <3> QED
      BY <3>1, <3>2
  <2>3. Subject(c) /\ Pending(c)' = Pending(c)
    BY <2>1 DEF Subject, Owner, Pending, connVars
  <2> QED
    BY <1>s, <2>1, <2>2, <2>3, CoveredFrame
<1>18. ASSUME NEW d \in Conns, NEW r \in RowIds, DropUndeliverable(d, r) \/ Ack(d, r) PROVE Covered(c)'
  <2>1. /\ rows' = [rows EXCEPT ![r] = None] /\ lost' = lost \cup ({rows[r].value} \ seen)
        /\ UNCHANGED <<prof, sess, sub, retained, connVars, seen, late, cutShort>>
    BY <1>18 DEF DropUndeliverable, Ack, Discard
  <2>2. Queued \subseteq Queued' \cup seen' \cup lost'
    BY <1>0, <2>1, QueuedFrame
  <2>3. Subject(c) /\ Pending(c)' = Pending(c)
    BY <2>1 DEF Subject, Owner, Pending, connVars
  <2> QED
    BY <1>s, <2>1, <2>2, <2>3, CoveredFrame
<1>25. ASSUME NEW d \in Conns, NEW r \in RowIds, ClaimUnanswered(d, r) PROVE Covered(c)'
  <2>1. rows[r] # None /\ UNCHANGED <<prof, sess, sub, retained, connVars, ghostVars>>
    BY <1>25 DEF ClaimUnanswered
  <2>2. Queued \subseteq Queued' \cup seen' \cup lost'
    <3>1. CASE rows[r].qos = 0
      <4>1. rows' = [rows EXCEPT ![r] = None]
        BY <1>25, <3>1 DEF ClaimUnanswered
      <4> QED
        BY <1>0, <3>1, <4>1, QueuedFrame
    <3>2. CASE rows[r].qos # 0
      <4> DEFINE x == [rows[r] EXCEPT !.state = 1]
      <4>1. rows' = [rows EXCEPT ![r] = x]
        BY <1>25, <3>2 DEF ClaimUnanswered
      <4>2. x # None /\ x.value = rows[r].value /\ x.qos = rows[r].qos
        BY <1>0, <2>1, ClaimTypes
      <4> HIDE DEF x
      <4> QED
        BY <1>0, <4>1, <4>2, QueuedFrame
    <3> QED
      BY <3>1, <3>2
  <2>3. Subject(c) /\ Pending(c)' = Pending(c)
    BY <2>1 DEF Subject, Owner, Pending, connVars, ghostVars
  <2> QED
    BY <1>s, <2>1, <2>2, <2>3, CoveredFrame DEF ghostVars
<1>19. ASSUME NEW t \in Topics, ExpireRetained(t) PROVE Covered(c)'
  <2>1. retained' = [retained EXCEPT ![t] = 0] /\ UNCHANGED <<prof, sess, sub, rows, connVars, ghostVars>>
    BY <1>19 DEF ExpireRetained
  <2>2. {retained'[u] : u \in Topics} \ {0} \subseteq {retained[u] : u \in Topics} \ {0}
    BY <1>0, <2>1
  <2>3. Subject(c) /\ Pending(c)' = Pending(c) /\ Queued' = Queued
    BY <2>1 DEF Subject, Owner, Pending, Queued, connVars, ghostVars
  <2> QED
    BY <1>s, <2>1, <2>2, <2>3, CoveredFrame DEF ghostVars
<1>20. ASSUME NEW t \in Topics, NEW clear \in BOOLEAN, PublishRetain(t, clear) PROVE Covered(c)'
  BY <1>20, <1>k DEF PublishRetain, connVars, ghostVars, Subject, Owner
<1>21. CASE PublishFanout \/ PublishFails
  BY <1>21, <1>k DEF PublishFanout, PublishFails, tableVars, connVars, ghostVars, Subject, Owner
<1>22. CASE PublishCommit
  <2>1. /\ UNCHANGED <<prof, sess, sub, connVars, seen, cutShort, lost>>
        /\ retained' = [retained EXCEPT ![pub.topic] = IF pub.clear THEN 0 ELSE lastValue]
        /\ lastValue \in Values /\ pub.qos \in 0..1 /\ late \subseteq late'
    BY <1>0, <1>22 DEF PublishCommit, IInv, Publishing, Tx
  <2>2. Subject(c) /\ Pending(c)' = Pending(c)
    BY <2>1 DEF Subject, Owner, Pending, connVars
  <2>3. prof[c].qos = 1 /\ sub = c
    BY <1>0, <2>2 DEF Subject, Profile
  <2>4. {retained'[t] : t \in Topics} \ {0} \subseteq ({retained[t] : t \in Topics} \ {0}) \cup {lastValue}
    BY <1>0, <2>1
  <2>5. CASE pub.matched
    <3>1. Insert(lastValue, pub.qos)
      BY <1>22, <2>5 DEF PublishCommit
    <3>2. \A r \in RowIds \ {lastRow'} : rows'[r] = rows[r]
      BY <1>0, <2>1, <3>1, InsertTypes
    <3>3. /\ lastRow' \in RowIds /\ rows'[lastRow'] # None /\ rows'[lastRow'].value = lastValue
          /\ rows'[lastRow'].qos = pub.qos
      BY <1>0, <2>1, <3>1, InsertTypes
    <3>4. lastRow' = lastRow + 1
      BY <3>1 DEF Insert
    <3>5. rows[lastRow'] = None
      BY <1>0, <3>3, <3>4 DEF IInv, Claimed
    <3>6. Queued \subseteq Queued'
      BY <3>2, <3>5 DEF Queued
    <3>7. lastValue \in Queued' \cup late'
      <4>1. CASE pub.qos = 1
        BY <3>3, <4>1 DEF Queued
      <4>2. CASE pub.qos = 0
        BY <1>0, <1>22, <2>3, <4>2 DEF PublishCommit
      <4> QED
        BY <2>1, <4>1, <4>2
    <3> QED
      BY <1>s, <2>1, <2>2, <2>4, <3>6, <3>7 DEF Covered
  <2>6. CASE ~pub.matched
    <3>1. lastValue \in late' /\ rows' = rows
      BY <1>0, <1>22, <2>3, <2>6 DEF PublishCommit
    <3>2. Queued' = Queued
      BY <3>1 DEF Queued
    <3> QED
      BY <1>s, <2>1, <2>2, <2>4, <3>1, <3>2 DEF Covered
  <2> QED
    BY <2>5, <2>6
<1>23. CASE ExpireSession
  BY <1>23 DEF ExpireSession, EndSession, Subject, Owner
<1>24. CASE SweepOrphanDeliveries
  <2>1. sess # None /\ sess.owner = c /\ ~sess.connected /\ pc[c] # "gone"
    BY <1>24 DEF SweepOrphanDeliveries, connVars, Subject, Owner
  <2> QED
    BY <2>1 DEF IInv, Ended
<1> QED
  BY <1>1, <1>2, <1>3, <1>4, <1>5, <1>6, <1>7, <1>8, <1>9, <1>10, <1>11, <1>12, <1>13, <1>14, <1>15, <1>16,
     <1>17, <1>18, <1>19, <1>20, <1>21, <1>22, <1>23, <1>24, <1>25 DEF Next
-----------------------------------------------------------------------------
LEMMA Inductive == Spec => [](IInv /\ ReplayInv)
<1>1. Init => IInv /\ ReplayInv
  BY InitInv
<1>2. (IInv /\ ReplayInv) /\ [Next]_vars => (IInv /\ ReplayInv)'
  BY InvNext, ReplayNext
<1> QED
  BY <1>1, <1>2, PTL DEF Spec

\* Every variable keeps its type: the session's tables, the goroutines of its sockets and the
\* publisher's transaction.
THEOREM SubscriptionsTypeCorrect == Spec => []TypeOK
<1>1. IInv /\ ReplayInv => TypeOK
  BY DEF IInv
<1> QED
  BY <1>1, Inductive, PTL

\* The first PUBLISH of a row is written at most once: the replay and whoever drains the queue
\* both claim it by allocPacketID's UPDATE of a row in state 0.
THEOREM NeverReplayedTwice == Spec => []ReplayOnce
<1>1. IInv /\ ReplayInv => ReplayOnce
  BY DEF IInv
<1> QED
  BY <1>1, Inductive, PTL

\* Replay and fan-out leave no gap: a subscriber with QoS > 0 at rest has the present retained
\* messages sent or queued, but for those whose fan-out ran across its SUBSCRIBE.
THEOREM LatestRetainedAlwaysReached == Spec => []LatestRetainedReached
<1>1. IInv /\ ReplayInv => LatestRetainedReached
  <2> SUFFICES ASSUME ReplayInv, NEW c \in Conns, Owner(c), pc[c] = "up", sub = c, c \notin cutShort,
                      prof[c].qos > 0, prof[c].rh = 0
               PROVE  {retained[t] : t \in Topics} \ {0}
                        \subseteq seen \cup late \cup lost \cup {rows[r].value : r \in {s \in RowIds : rows[s] # None}}
    BY DEF LatestRetainedReached
  <2>1. {retained[t] : t \in Topics} \ {0} \subseteq seen \cup lost \cup late \cup Queued \cup Pending(c)
    BY DEF ReplayInv
  <2>2. Pending(c) = {}
    BY DEF Pending
  <2>3. Queued \subseteq {rows[r].value : r \in {s \in RowIds : rows[s] # None}}
    BY DEF Queued
  <2> QED
    BY <2>1, <2>2, <2>3
<1> QED
  BY <1>1, Inductive, PTL

\* The end of another socket (handleDisconnect, the janitor) never takes a granted
\* subscription away.
THEOREM GrantedAlwaysKept == Spec => GrantedSubscriptionKept
<1> DEFINE Kept == \A c \in Conns : granted = c /\ sub # None /\ sub' = None /\ Owner(c)
                        => \E d \in Conns : Unsubscribe(d) \/ (prof[d].clean /\ Cleanup(d))
<1>1. IInv /\ ReplayInv /\ [Next]_vars => [Kept]_vars
  <2> SUFFICES ASSUME IInv, Next, NEW c \in Conns, sub # None, sub' = None, Owner(c),
                      ~ \E d \in Conns : Unsubscribe(d) \/ (prof[d].clean /\ Cleanup(d))
               PROVE  FALSE
    OBVIOUS
  <2>1. CASE ExpireSession
    BY <2>1 DEF ExpireSession, Owner, IInv, Ended
  <2>2. ASSUME NEW d \in Conns, HandleDisconnect(d) PROVE FALSE
    <3>1. sess # None /\ sess.owner = d
      BY <2>2 DEF HandleDisconnect
    <3>2. pc[d] = "closing" /\ d = c
      BY <2>2, <3>1 DEF HandleDisconnect, Owner
    <3> QED
      BY <3>2 DEF IInv, Ended, Owner
  <2>3. ASSUME NEW d \in Conns, Subscribe(d) PROVE FALSE
    BY <2>3, SubscriptionsAssumption DEF Subscribe
  <2>4. ASSUME NEW d \in Conns, Cleanup(d) PROVE FALSE
    BY <2>4 DEF Cleanup
  <2>5. ASSUME NEW d \in Conns,
               \/ TakeOwnership(d) \/ CleanupFails(d) \/ Connack(d) \/ Close(d) \/ Hangup(d) \/ Suback(d)
               \/ QueryRetained(d) \/ NothingRetained(d) \/ (\E v \in Values : PersistRetained(d, v))
               \/ ReplayFails(d) \/ AllocPacketID(d) \/ WriteRetained(d) \/ WriteRetainedFails(d)
               \/ (\E r \in RowIds : Deliver(d, r) \/ ClaimUnanswered(d, r) \/ DropUndeliverable(d, r) \/ Ack(d, r))
        PROVE  sub' = sub
    BY <2>5 DEF TakeOwnership, CleanupFails, Connack, Close, Hangup, Suback, QueryRetained, NothingRetained,
       PersistRetained, ReplayFails, AllocPacketID, WriteRetained, WriteRetainedFails, Deliver,
       ClaimUnanswered, DropUndeliverable, Ack, tableVars
  <2>6. CASE \/ \E t \in Topics : ExpireRetained(t) \/ \E clear \in BOOLEAN : PublishRetain(t, clear)
             \/ PublishFanout \/ PublishCommit \/ PublishFails \/ SweepOrphanDeliveries
    BY <2>6 DEF ExpireRetained, PublishRetain, PublishFanout, PublishCommit, PublishFails,
       SweepOrphanDeliveries, tableVars
  <2> QED
    BY <2>1, <2>2, <2>3, <2>4, <2>5, <2>6 DEF Next
<1> QED
  BY <1>1, Inductive, PTL DEF Spec, GrantedSubscriptionKept

\* A row with QoS > 0 leaves the table by a socket of its client (undeliverable, acknowledged,
\* Clean Start), or, while the session's owner is not connected, with the session or in the
\* sweep of one that began with Clean Start.
THEOREM QueueAlwaysKept == Spec => QueueKept
<1> DEFINE Left(r) == \/ \E c \in Conns : DropUndeliverable(c, r) \/ Ack(c, r) \/ (prof[c].clean /\ Cleanup(c))
                      \/ /\ \A c \in Conns : ~Owner(c)
                         /\ sess' = None \/ (~sess.connected /\ sess.clean)
           Kept == \A r \in RowIds : rows[r] # None /\ rows[r].qos > 0 /\ rows'[r] = None => Left(r)
<1>1. IInv /\ ReplayInv /\ [Next]_vars => [Kept]_vars
  <2> SUFFICES ASSUME IInv, Next, NEW r \in RowIds, rows[r] # None, rows[r].qos > 0, rows'[r] = None
               PROVE  Left(r)
    OBVIOUS
  <2>0. rows \in [RowIds -> Row] /\ lastRow \in 0..MaxRow
    BY DEF IInv, TypeOK
  <2>1. ASSUME NEW c \in Conns, NEW s \in RowIds, DropUndeliverable(c, s) \/ Ack(c, s) PROVE Left(r)
    <3>1. rows' = [rows EXCEPT ![s] = None]
      BY <2>1 DEF DropUndeliverable, Ack, Discard
    <3>2. s = r
      BY <2>0, <3>1
    <3> QED
      BY <2>1, <3>2
  <2>2. ASSUME NEW c \in Conns, Cleanup(c) PROVE Left(r)
    BY <2>2 DEF Cleanup
  <2>3. ASSUME NEW c \in Conns, HandleDisconnect(c) PROVE Left(r)
    <3>1. sess # None /\ sess.owner = c /\ sess' = None
      BY <2>3 DEF HandleDisconnect, EndSession
    <3>2. ~open[c]
      BY <2>3 DEF HandleDisconnect, IInv, Ended
    <3> QED
      BY <3>1, <3>2 DEF Owner
  <2>4. CASE ExpireSession
    <3>1. sess' = None
      BY <2>4 DEF ExpireSession, EndSession
    <3>2. \A c \in Conns : ~Owner(c)
      BY <2>4 DEF ExpireSession, Owner, IInv, Ended
    <3> QED
      BY <3>1, <3>2
  <2>5. CASE SweepOrphanDeliveries
    <3>1. sess' = None \/ (~sess.connected /\ sess.clean)
      BY <2>5 DEF SweepOrphanDeliveries
    <3>2. \A c \in Conns : ~Owner(c)
      BY <2>5 DEF SweepOrphanDeliveries, Owner, IInv, Ended
    <3> QED
      BY <3>1, <3>2
  <2>6. ASSUME NEW c \in Conns, NEW s \in RowIds, Deliver(c, s) \/ ClaimUnanswered(c, s) PROVE FALSE
    <3>1. rows[s] # None /\ s = r
      BY <2>0, <2>6 DEF Deliver, ClaimUnanswered
    <3> DEFINE x == [rows[r] EXCEPT !.state = 1]
    <3>2. x # None
      BY <2>0, <3>1, ClaimTypes
    <3>3. rows[r].qos # 0
      BY <2>0 DEF Row
    <3>4. rows' = [rows EXCEPT ![r] = x]
      BY <2>6, <3>1, <3>3 DEF Deliver, ClaimUnanswered
    <3> HIDE DEF x
    <3> QED
      BY <2>0, <3>2, <3>4
  <2>7. ASSUME NEW c \in Conns, AllocPacketID(c) PROVE FALSE
    <3>1. PICK s \in RowIds : s = hnd[c].row
      <4>1. hnd[c].row \in 1..lastRow
        BY <2>7 DEF AllocPacketID, IInv, AtHand
      <4> QED
        BY <2>0, <4>1, SubscriptionsAssumption DEF RowIds
    <3>2. rows[s] # None /\ rows[s].state = 0 /\ rows' = [rows EXCEPT ![s] = [rows[s] EXCEPT !.state = 1]]
      BY <2>7, <3>1 DEF AllocPacketID
    <3>3. s = r
      BY <2>0, <3>2
    <3> DEFINE x == [rows[r] EXCEPT !.state = 1]
    <3>4. x # None
      BY <2>0, <3>2, ClaimTypes
    <3>5. rows' = [rows EXCEPT ![r] = x]
      BY <3>2, <3>3
    <3> HIDE DEF x
    <3> QED
      BY <2>0, <3>4, <3>5
  <2>8. ASSUME NEW v \in Values, NEW q \in 0..1, Insert(v, q) PROVE FALSE
    BY <2>0, <2>8, InsertTypes
  <2>9. ASSUME NEW c \in Conns, NEW v \in Values, PersistRetained(c, v) PROVE FALSE
    BY <2>8, <2>9 DEF PersistRetained
  <2>10. CASE PublishCommit
    <3>1. lastValue \in Values /\ pub.qos \in 0..1
      BY <2>10 DEF PublishCommit, IInv, Publishing, TypeOK, Tx
    <3> QED
      BY <2>8, <2>10, <3>1 DEF PublishCommit
  <2>11. ASSUME NEW c \in Conns,
                \/ TakeOwnership(c) \/ CleanupFails(c) \/ Connack(c) \/ Close(c) \/ Hangup(c) \/ Suback(c)
                \/ Subscribe(c) \/ QueryRetained(c) \/ NothingRetained(c) \/ Unsubscribe(c)
                \/ ReplayFails(c) \/ WriteRetained(c) \/ WriteRetainedFails(c)
         PROVE  rows' = rows
    BY <2>11 DEF TakeOwnership, CleanupFails, Connack, Close, Hangup, Suback, Subscribe, QueryRetained,
       NothingRetained, Unsubscribe, ReplayFails, WriteRetained, WriteRetainedFails, tableVars
  <2>12. CASE \/ \E t \in Topics : ExpireRetained(t) \/ \E clear \in BOOLEAN : PublishRetain(t, clear)
              \/ PublishFanout \/ PublishFails
    BY <2>12 DEF ExpireRetained, PublishRetain, PublishFanout, PublishFails, tableVars
  <2> QED
    BY <2>1, <2>2, <2>3, <2>4, <2>5, <2>6, <2>7, <2>9, <2>10, <2>11, <2>12 DEF Next
<1> QED
  BY <1>1, Inductive, PTL DEF Spec, QueueKept
=============================================================================
