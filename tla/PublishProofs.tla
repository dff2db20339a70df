---------------------------- MODULE PublishProofs ----------------------------
(***************************************************************************)
(* Proofs about Publish for any messages, sockets, subscriptions, limits   *)
(* and any number of failing transactions.                                 *)
(***************************************************************************)
EXTENDS Publish, FiniteSetTheorems, TLAPS

-----------------------------------------------------------------------------
(* The inductive invariant.                                                *)

\* The limits as plain inequalities.
LEMMA BoundsNat == /\ ReceiveMax \in Nat /\ 1 <= ReceiveMax /\ ReceiveMax <= 65535
                   /\ MaxQueued \in Nat /\ MaxErrs \in Nat
  BY BoundAssumption

\* A handler that is at work has a message.
Busy == \A c \in Conns : hnd[c].at # "none" => hnd[c].msg \in Msgs

\* The handler's transaction has inserted a dedup row that is not committed yet.
Claims(c) == hnd[c].at \in {"query", "commit"} /\ qos[hnd[c].msg] = 2

\* The primary key of inbound_qos2: one claim, and none next to a committed row.
KeyUnique ==
    /\ \A c \in Conns : Claims(c) => dedup[PacketID[hnd[c].msg]] = None
    /\ \A c, d \in Conns :
          Claims(c) /\ Claims(d) /\ PacketID[hnd[c].msg] = PacketID[hnd[d].msg] => c = d

IInv == TypeOK /\ Busy /\ KeyUnique /\ DedupMatchesFanout

\* A resumed session sends finitely many packets again.
LEMMA OpenFinite == TypeOK => Cardinality(Open) \in Nat
<1> SUFFICES ASSUME TypeOK PROVE IsFiniteSet(Open)
  BY FS_CardinalityType
<1> QED
  BY FS_Subset, MsgsAssumption DEF Open

\* The records a handler goes through.
LEMMA Handlers ==
    ASSUME NEW m \in Msgs
    PROVE  /\ Idle \in Handler /\ Idle.at = "none"
           /\ [Idle EXCEPT !.at = "pubrel", !.msg = m] \in Handler
           /\ [Idle EXCEPT !.at = "pubrel", !.msg = m].msg = m
           /\ \A h \in Handler : [h EXCEPT !.at = "query"] \in Handler
           /\ \A h \in Handler, b \in [Clients -> 0..2 \cup {None}] :
                [h EXCEPT !.at = "commit", !.batch = b] \in Handler
<1>1. NoBatch \in [Clients -> 0..2 \cup {None}]
  BY DEF NoBatch
<1> QED
  BY <1>1 DEF Idle, Handler

LEMMA BeginHandler ==
    ASSUME NEW m \in Msgs, NEW s \in BOOLEAN,
           NEW h, h = [Idle EXCEPT !.at = "begin", !.msg = m, !.slot = s]
    PROVE  h \in Handler /\ h.msg \in Msgs
<1>1. NoBatch \in [Clients -> 0..2 \cup {None}]
  BY DEF NoBatch
<1> QED
  BY <1>1 DEF Idle, Handler

\* The packet at the front of a socket.
LEMMA FrontPacket ==
    ASSUME NEW w \in Seq(Packet), w # << >>
    PROVE  Head(w) \in Packet /\ Head(w).msg \in Msgs /\ Tail(w) \in Seq(Packet)
<1>1. Head(w) \in Packet /\ Tail(w) \in Seq(Packet)
  OBVIOUS
<1> QED
  BY <1>1 DEF Packet

\* Socket contents.
LEMMA WireAppend ==
    ASSUME TypeOK, NEW c \in Conns, NEW p \in Packet
    PROVE  [wire EXCEPT ![c] = Append(wire[c], p)] \in [Conns -> Seq(Packet)]
<1>1. wire \in [Conns -> Seq(Packet)] /\ wire[c] \in Seq(Packet)
  BY DEF TypeOK
<1>2. Append(wire[c], p) \in Seq(Packet)
  BY <1>1
<1> QED
  BY <1>1, <1>2

LEMMA FunctionIsSeq ==
    ASSUME NEW S, NEW n \in Nat, NEW f \in [1..n -> S]
    PROVE  f \in Seq(S)
  OBVIOUS

\* The rows of a fan-out: LEAST of two QoS levels for the clients that get one.
LEMMA BatchType ==
    ASSUME TypeOK, NEW m \in Msgs
    PROVE  [cl \in Clients |-> IF Inserted(m, cl) THEN DeliverQos(m, cl) ELSE None]
                \in [Clients -> 0..2 \cup {None}]
<1> SUFFICES ASSUME NEW cl \in Clients, Inserted(m, cl)
             PROVE  DeliverQos(m, cl) \in 0..2
  OBVIOUS
<1> DEFINE rs == Candidates(m, cl)
<1>1. rs # {} /\ \A r \in rs : r.qos \in 0..2
  BY TableAssumption DEF Inserted, Candidates, TypeOK
<1>2. \E r \in rs : \A s \in rs : s.qos <= r.qos
  <2>1. CASE \E r \in rs : r.qos = 2
    BY <1>1, <2>1
  <2>2. CASE ~(\E r \in rs : r.qos = 2) /\ \E r \in rs : r.qos = 1
    BY <1>1, <2>2
  <2>3. CASE \A r \in rs : r.qos = 0
    BY <1>1, <2>3
  <2> QED
    BY <1>1, <2>1, <2>2, <2>3
<1>3. Best(rs).qos \in 0..2
  BY <1>1, <1>2 DEF Best
<1>4. qos[m] \in 0..2
  BY MsgsAssumption DEF TypeOK
<1> QED
  BY <1>3, <1>4 DEF DeliverQos, Least

\* What a reply does keeps the client's types.
LEMMA ReplyTypes ==
    ASSUME TypeOK, NEW c \in Conns, NEW m \in Msgs, NEW type, Reply(c, type, m)
    PROVE  /\ phase' \in [Msgs -> {"new", "sent", "rel", "done"}]
           /\ wire' \in [Conns -> Seq(Packet)]
<1>1. Pk("pubrel", m, FALSE) \in Packet
  BY DEF Pk, Packet
<1>2. phase' \in [Msgs -> {"new", "sent", "rel", "done"}]
  BY DEF TypeOK, Reply
<1>3. wire' \in [Conns -> Seq(Packet)]
  <2>1. wire \in [Conns -> Seq(Packet)]
    BY DEF TypeOK
  <2>2. \/ wire' = wire
        \/ wire' = [wire EXCEPT ![c] = Append(wire[c], Pk("pubrel", m, FALSE))]
    BY DEF Reply
  <2>3. CASE wire' = wire
    BY <2>1, <2>3
  <2>4. CASE wire' = [wire EXCEPT ![c] = Append(wire[c], Pk("pubrel", m, FALSE))]
    BY <1>1, <2>1, <2>4, WireAppend
  <2> QED
    BY <2>2, <2>3, <2>4
<1> QED
  BY <1>2, <1>3

\* What a commit answers.
LEMMA CommitReply ==
    ASSUME NEW c \in Conns, NEW m \in Msgs, m = hnd[c].msg, qos[m] \in 0..2, Commit(c)
    PROVE  /\ qos[m] = 0 => NoReply
           /\ qos[m] = 1 => Reply(c, "puback", m)
           /\ qos[m] = 2 => Reply(c, "pubrec", m)
           /\ qos[m] # 0 => \E type \in {"puback", "pubrec"} : Reply(c, type, m)
<1>1. ASSUME qos[m] = 0 PROVE NoReply
  BY <1>1 DEF Commit
<1>2. ASSUME qos[m] = 1 PROVE Reply(c, "puback", m)
  BY <1>2 DEF Commit
<1>3. ASSUME qos[m] = 2 PROVE Reply(c, "pubrec", m)
  BY <1>3 DEF Commit
<1>4. qos[m] = 0 \/ qos[m] = 1 \/ qos[m] = 2
  OBVIOUS
<1> QED
  BY <1>1, <1>2, <1>3, <1>4

\* What a commit does keeps the types of the tables.
LEMMA CommittedTypes ==
    ASSUME TypeOK, Busy, NEW c \in Conns, hnd[c].at # "none", Committed(c)
    PROVE  /\ dedup' \in [Pids -> Msgs \cup {None}]
           /\ \A p \in Pids : dedup'[p] # None => PacketID[dedup'[p]] = p /\ qos[dedup'[p]] = 2
           /\ backlog' \in [Clients -> [0..2 -> Nat]]
           /\ fanned' \in [Msgs -> Nat]
           /\ UNCHANGED <<subs, qos, online>>
<1>1. hnd[c].msg \in Msgs /\ PacketID[hnd[c].msg] \in Pids
  BY DEF Busy, Pids
<1>2. /\ dedup' \in [Pids -> Msgs \cup {None}]
      /\ \A p \in Pids : dedup'[p] # None => PacketID[dedup'[p]] = p /\ qos[dedup'[p]] = 2
  BY <1>1 DEF Committed, TypeOK
<1>3. backlog' \in [Clients -> [0..2 -> Nat]]
  BY DEF Committed, TypeOK
<1>4. fanned' \in [Msgs -> Nat]
  BY <1>1 DEF Committed, TypeOK
<1> QED
  BY <1>2, <1>3, <1>4 DEF Committed

\* The bound of the failures.
LEMMA ErrsType ==
    ASSUME TypeOK, errs < MaxErrs, errs' = errs + 1
    PROVE  errs' \in 0..MaxErrs
<1>1. errs \in 0..MaxErrs
  BY DEF TypeOK
<1>2. MaxErrs \in Nat
  BY BoundsNat
<1> QED
  BY <1>1, <1>2

\* What a deletion does keeps the types of the dedup table.
LEMMA DeleteTypes ==
    ASSUME TypeOK, NEW p \in Pids, DeleteDedup(p)
    PROVE  /\ dedup' \in [Pids -> Msgs \cup {None}]
           /\ \A q \in Pids : dedup'[q] # None => dedup'[q] = dedup[q]
           /\ freed' \in [Msgs -> Nat]
<1>1. dedup[p] \in Msgs \cup {None}
  BY DEF TypeOK
<1> QED
  BY <1>1 DEF DeleteDedup, TypeOK

\* Every step keeps the types.
LEMMA TypeStep ==
    ASSUME TypeOK, Busy, Next
    PROVE  TypeOK' /\ Busy'
<1> USE DEF TypeOK, Busy, tableVars, connVars, clientVars, ghostVars
<1>1. ASSUME NEW c \in Conns, Connect(c) PROVE TypeOK' /\ Busy'
  <2>1. PICK again \in [1..Cardinality(Open) -> Open] :
          wire' = [wire EXCEPT ![c] =
                [i \in 1..Cardinality(Open) |->
                   IF phase[again[i]] = "rel" THEN Pk("pubrel", again[i], FALSE)
                                              ELSE Pk("publish", again[i], TRUE)]]
    BY <1>1 DEF Connect
  <2>2. \A i \in 1..Cardinality(Open) : again[i] \in Msgs
    BY DEF Open
  <2>3. \A m \in Msgs : Pk("pubrel", m, FALSE) \in Packet /\ Pk("publish", m, TRUE) \in Packet
    BY DEF Pk, Packet
  <2>4. [i \in 1..Cardinality(Open) |->
                   IF phase[again[i]] = "rel" THEN Pk("pubrel", again[i], FALSE)
                                              ELSE Pk("publish", again[i], TRUE)] \in Seq(Packet)
    <3> DEFINE n == Cardinality(Open)
               f == [i \in 1..n |->
                       IF phase[again[i]] = "rel" THEN Pk("pubrel", again[i], FALSE)
                                                  ELSE Pk("publish", again[i], TRUE)]
    <3>1. n \in Nat
      BY OpenFinite
    <3>2. f \in [1..n -> Packet]
      BY <2>2, <2>3
    <3> HIDE DEF f, n
    <3>3. f \in Seq(Packet)
      BY <3>1, <3>2, FunctionIsSeq
    <3> QED
      BY <3>3 DEF f, n
  <2>5. wire' \in [Conns -> Seq(Packet)]
    BY <2>1, <2>4
  <2> QED
    BY <1>1, <2>5 DEF Connect
<1>2. ASSUME NEW c \in Conns, NEW m \in Msgs, Send(c, m) PROVE TypeOK' /\ Busy'
  <2>1. Pk("publish", m, FALSE) \in Packet
    BY DEF Pk, Packet
  <2>2. wire' \in [Conns -> Seq(Packet)]
    BY <1>2, <2>1, WireAppend DEF Send
  <2> QED
    BY <1>2, <2>2 DEF Send
<1>3. ASSUME NEW c \in Conns, Cut(c) PROVE TypeOK' /\ Busy'
  BY <1>3 DEF Cut
<1>4. ASSUME NEW c \in Conns, Close(c) PROVE TypeOK' /\ Busy'
  BY <1>4 DEF Close
<1>5. ASSUME NEW c \in Conns, ReadPublish(c) PROVE TypeOK' /\ Busy'
  <2>1. FirstOf(c).msg \in Msgs /\ Tail(wire[c]) \in Seq(Packet)
    BY <1>5, FrontPacket DEF ReadPublish, FirstOf
  <2>2. PICK slot \in BOOLEAN :
          hnd' = [hnd EXCEPT ![c] = [Idle EXCEPT !.at = "begin", !.msg = FirstOf(c).msg,
                                                 !.slot = slot]]
    BY <1>5 DEF ReadPublish
  <2> DEFINE h == [Idle EXCEPT !.at = "begin", !.msg = FirstOf(c).msg, !.slot = slot]
  <2>5. h \in Handler /\ h.msg \in Msgs
    BY <2>1, BeginHandler
  <2>6. hnd' = [hnd EXCEPT ![c] = h]
    BY <2>2
  <2> HIDE DEF h
  <2>3. hnd' \in [Conns -> Handler] /\ Busy'
    BY <2>5, <2>6
  <2>4. counter' \in [Conns -> Int] /\ wire' \in [Conns -> Seq(Packet)]
    BY <1>5, <2>1 DEF ReadPublish
  <2> QED
    BY <1>5, <2>3, <2>4 DEF ReadPublish
<1>6. ASSUME NEW c \in Conns, RefusePublish(c) PROVE TypeOK' /\ Busy'
  BY <1>6 DEF RefusePublish
<1>7. ASSUME NEW c \in Conns, ReadPubrel(c) PROVE TypeOK' /\ Busy'
  <2>1. FirstOf(c).msg \in Msgs /\ Tail(wire[c]) \in Seq(Packet)
    BY <1>7, FrontPacket DEF ReadPubrel, FirstOf
  <2>2. hnd' \in [Conns -> Handler] /\ Busy'
    BY <1>7, <2>1, Handlers DEF ReadPubrel
  <2>3. wire' \in [Conns -> Seq(Packet)]
    BY <1>7, <2>1 DEF ReadPubrel
  <2> QED
    BY <1>7, <2>2, <2>3 DEF ReadPubrel
<1>8. ASSUME NEW c \in Conns, ClaimDedup(c) PROVE TypeOK' /\ Busy'
  <2>1. hnd' = [hnd EXCEPT ![c] = [hnd[c] EXCEPT !.at = "query"]] /\ hnd[c].msg \in Msgs
    BY <1>8 DEF ClaimDedup
  <2>2. hnd' \in [Conns -> Handler]
    BY <2>1, Handlers
  <2>3. Busy'
    BY <2>1 DEF Handler
  <2> QED
    BY <1>8, <2>2, <2>3 DEF ClaimDedup
<1>9. ASSUME NEW c \in Conns, Duplicate(c) PROVE TypeOK' /\ Busy'
  <2>1. hnd[c].msg \in Msgs
    BY <1>9 DEF Duplicate
  <2>2. /\ phase' \in [Msgs -> {"new", "sent", "rel", "done"}]
        /\ wire' \in [Conns -> Seq(Packet)]
    BY <1>9, <2>1, ReplyTypes DEF Duplicate
  <2>3. hnd' \in [Conns -> Handler] /\ Busy'
    BY <1>9, <2>1, Handlers DEF Duplicate, Finish
  <2>4. counter' \in [Conns -> Int]
    BY <1>9 DEF Duplicate, Finish
  <2>5. UNCHANGED <<tableVars, qos, online, cut, errs, pc, ghostVars>>
    BY <1>9 DEF Duplicate, Finish, tableVars, ghostVars
  <2> QED
    BY <2>2, <2>3, <2>4, <2>5 DEF tableVars, ghostVars
<1>10. ASSUME NEW c \in Conns, FanoutQuery(c) PROVE TypeOK' /\ Busy'
  <2>1. hnd[c].msg \in Msgs /\ hnd[c] \in Handler
    BY <1>10 DEF FanoutQuery
  <2>2. PICK batch : /\ hnd' = [hnd EXCEPT ![c] = [hnd[c] EXCEPT !.at = "commit", !.batch = batch]]
                     /\ batch = [cl \in Clients |-> IF Inserted(hnd[c].msg, cl)
                                                    THEN DeliverQos(hnd[c].msg, cl) ELSE None]
    BY <1>10 DEF FanoutQuery
  <2>3. batch \in [Clients -> 0..2 \cup {None}]
    BY <2>1, <2>2, BatchType
  <2>4. hnd' \in [Conns -> Handler]
    BY <2>1, <2>2, <2>3, Handlers
  <2>5. Busy'
    BY <2>1, <2>2 DEF Handler
  <2> QED
    BY <1>10, <2>4, <2>5 DEF FanoutQuery
<1>11. ASSUME NEW c \in Conns, Commit(c) PROVE TypeOK' /\ Busy'
  <2>1. hnd[c].msg \in Msgs /\ hnd[c].at # "none" /\ qos[hnd[c].msg] \in 0..2
    BY <1>11, MsgsAssumption DEF Commit
  <2>2. /\ phase' \in [Msgs -> {"new", "sent", "rel", "done"}]
        /\ wire' \in [Conns -> Seq(Packet)]
    <3>1. CASE NoReply
      BY <3>1 DEF NoReply
    <3>2. CASE \E type : Reply(c, type, hnd[c].msg)
      BY <2>1, <3>2, ReplyTypes
    <3>3. NoReply \/ \E type : Reply(c, type, hnd[c].msg)
      BY <1>11, <2>1, CommitReply
    <3> QED
      BY <3>1, <3>2, <3>3
  <2>3. hnd' \in [Conns -> Handler] /\ Busy'
    BY <1>11, <2>1, Handlers DEF Commit, Finish
  <2>4. counter' \in [Conns -> Int] /\ UNCHANGED pc
    BY <1>11 DEF Commit, Finish
  <2>5. Committed(c) /\ UNCHANGED <<errs, cut, freed, stray, refused>>
    BY <1>11 DEF Commit
  <2>6. /\ dedup' \in [Pids -> Msgs \cup {None}]
        /\ \A p \in Pids : dedup'[p] # None => PacketID[dedup'[p]] = p /\ qos[dedup'[p]] = 2
        /\ backlog' \in [Clients -> [0..2 -> Nat]] /\ fanned' \in [Msgs -> Nat]
        /\ UNCHANGED <<subs, qos, online>>
    BY <2>1, <2>5, CommittedTypes
  <2> QED
    BY <2>2, <2>3, <2>4, <2>5, <2>6
<1>12. ASSUME NEW c \in Conns, TxFails(c) PROVE TypeOK' /\ Busy'
  <2>1. hnd[c].msg \in Msgs
    BY <1>12 DEF TxFails
  <2>2. hnd' \in [Conns -> Handler] /\ Busy'
    BY <1>12, <2>1, Handlers DEF TxFails, Abort
  <2>3. errs' \in 0..MaxErrs
    BY <1>12, ErrsType DEF TxFails
  <2>4. /\ pc' \in [Conns -> {"idle", "up", "closed"}]
        /\ UNCHANGED <<subs, qos, online, backlog, dedup>>
        /\ UNCHANGED <<counter, phase, cut, fanned, freed, stray, refused>>
    BY <1>12 DEF TxFails, Abort
  <2>5. wire' \in [Conns -> Seq(Packet)]
    BY <1>12 DEF TxFails, Abort
  <2>6. TypeOK'
    BY <2>2, <2>3, <2>4, <2>5
  <2> QED
    BY <2>2, <2>6
<1>13. ASSUME NEW c \in Conns, CommitUnknown(c) PROVE TypeOK' /\ Busy'
  <2>1. hnd[c].msg \in Msgs /\ hnd[c].at # "none"
    BY <1>13 DEF CommitUnknown
  <2>2. hnd' \in [Conns -> Handler] /\ Busy'
    BY <1>13, <2>1, Handlers DEF CommitUnknown, Abort
  <2>3. errs' \in 0..MaxErrs
    BY <1>13, ErrsType DEF CommitUnknown
  <2>4. /\ pc' \in [Conns -> {"idle", "up", "closed"}]
        /\ UNCHANGED <<counter, phase, cut, freed, stray, refused>>
    BY <1>13 DEF CommitUnknown, Abort
  <2>5. wire' \in [Conns -> Seq(Packet)]
    BY <1>13 DEF CommitUnknown, Abort
  <2>6. /\ dedup' \in [Pids -> Msgs \cup {None}]
        /\ \A p \in Pids : dedup'[p] # None => PacketID[dedup'[p]] = p /\ qos[dedup'[p]] = 2
        /\ backlog' \in [Clients -> [0..2 -> Nat]]
        /\ fanned' \in [Msgs -> Nat]
        /\ UNCHANGED <<subs, qos, online>>
    BY <1>13, <2>1, CommittedTypes DEF CommitUnknown
  <2>7. TypeOK'
    BY <2>2, <2>3, <2>4, <2>5, <2>6
  <2> QED
    BY <2>2, <2>7
<1>14. ASSUME NEW c \in Conns, HandlePubrel(c) PROVE TypeOK' /\ Busy'
  <2>1. hnd[c].msg \in Msgs /\ PacketID[hnd[c].msg] \in Pids
    BY <1>14 DEF HandlePubrel, Pids
  <2>2. hnd' \in [Conns -> Handler] /\ Busy'
    BY <1>14, <2>1, Handlers DEF HandlePubrel
  <2>3. /\ phase' \in [Msgs -> {"new", "sent", "rel", "done"}]
        /\ wire' \in [Conns -> Seq(Packet)]
    BY <1>14, <2>1, ReplyTypes DEF HandlePubrel
  <2>4. counter' \in [Conns -> Int]
    BY <1>14 DEF HandlePubrel
  <2>5. stray' \subseteq Msgs
    BY <1>14, <2>1 DEF HandlePubrel, Strays
  <2> QED
    BY <1>14, <2>1, <2>2, <2>3, <2>4, <2>5, DeleteTypes DEF HandlePubrel
<1>15. ASSUME NEW p \in Pids, SweepInboundQoS2(p) PROVE TypeOK' /\ Busy'
  BY <1>15, DeleteTypes DEF SweepInboundQoS2
<1>16. ASSUME NEW cl \in Clients, NEW q \in 0..2, Drain(cl, q) PROVE TypeOK' /\ Busy'
  <2>1. backlog' \in [Clients -> [0..2 -> Nat]]
    BY <1>16 DEF Drain
  <2> QED
    BY <1>16, <2>1 DEF Drain
<1>17. ASSUME NEW cl \in Clients, Toggle(cl) PROVE TypeOK' /\ Busy'
  BY <1>17 DEF Toggle
<1> QED
  BY <1>1, <1>2, <1>3, <1>4, <1>5, <1>6, <1>7, <1>8, <1>9, <1>10, <1>11, <1>12,
     <1>13, <1>14, <1>15, <1>16, <1>17 DEF Next

-----------------------------------------------------------------------------
(* The dedup table and the fan-out.                                        *)

\* A step that leaves the handlers' claims, the dedup table and the counts alone.
LEMMA Untouched ==
    ASSUME IInv, UNCHANGED <<qos, dedup, fanned, freed>>,
           \A c \in Conns : Claims(c)' => Claims(c) /\ hnd'[c].msg = hnd[c].msg
    PROVE  KeyUnique' /\ DedupMatchesFanout'
<1>1. KeyUnique'
  BY DEF IInv, KeyUnique
<1>2. DedupMatchesFanout'
  BY DEF IInv, DedupMatchesFanout
<1> QED
  BY <1>1, <1>2

\* A handler that is replaced by one without a claim.
LEMMA ClaimGone ==
    ASSUME IInv, NEW c \in Conns, NEW h, h.at \notin {"query", "commit"},
           hnd' = [hnd EXCEPT ![c] = h], qos' = qos
    PROVE  /\ ~Claims(c)'
           /\ \A d \in Conns : Claims(d)' => d # c /\ Claims(d) /\ hnd'[d].msg = hnd[d].msg
<1>1. hnd \in [Conns -> Handler]
  BY DEF IInv, TypeOK
<1> QED
  BY <1>1 DEF Claims

\* Deleting the row of a packet identifier counts in freed.
LEMMA DeleteStep ==
    ASSUME IInv, NEW p \in Pids, DeleteDedup(p), UNCHANGED <<qos, fanned>>,
           \A c \in Conns : Claims(c)' => Claims(c) /\ hnd'[c].msg = hnd[c].msg
    PROVE  KeyUnique' /\ DedupMatchesFanout'
<1>1. /\ dedup \in [Pids -> Msgs \cup {None}] /\ freed \in [Msgs -> Nat]
      /\ fanned \in [Msgs -> Nat] /\ hnd \in [Conns -> Handler]
      /\ \A q \in Pids : dedup[q] # None => PacketID[dedup[q]] = q
  BY DEF IInv, TypeOK
<1>2. \A m \in Msgs : PacketID[m] \in Pids
  BY DEF Pids
<1>3. None \notin Msgs
  BY PartyAssumption
<1>4. \A c \in Conns : Claims(c) => hnd[c].msg \in Msgs
  BY DEF IInv, Busy, Claims
<1>5. KeyUnique'
  <2>1. \A q \in Pids : dedup[q] = None => dedup'[q] = None
    BY <1>1 DEF DeleteDedup
  <2> QED
    BY <1>2, <1>4, <2>1 DEF IInv, KeyUnique
<1>6. ASSUME NEW m \in Msgs, qos'[m] = 2
      PROVE  fanned'[m] = freed'[m] + (IF dedup'[PacketID[m]] = m THEN 1 ELSE 0)
  <2>1. fanned[m] = freed[m] + (IF dedup[PacketID[m]] = m THEN 1 ELSE 0)
    BY <1>6 DEF IInv, DedupMatchesFanout
  <2>2. CASE dedup[p] = m
    <3>1. PacketID[m] = p
      BY <1>1, <1>3, <2>2
    <3>2. dedup'[PacketID[m]] = None /\ freed'[m] = freed[m] + 1
      BY <1>1, <1>3, <2>2, <3>1 DEF DeleteDedup
    <3> QED
      BY <1>1, <1>3, <2>1, <2>2, <3>1, <3>2
  <2>3. CASE dedup[p] # m
    <3>1. freed'[m] = freed[m]
      BY <1>1, <2>3 DEF DeleteDedup
    <3>2. dedup'[PacketID[m]] = m <=> dedup[PacketID[m]] = m
      BY <1>1, <1>2, <1>3, <2>3 DEF DeleteDedup
    <3> QED
      BY <2>1, <3>1, <3>2
  <2> QED
    BY <2>2, <2>3
<1>7. DedupMatchesFanout'
  BY <1>6 DEF DedupMatchesFanout
<1> QED
  BY <1>5, <1>7

\* A commit turns the handler's claim into the row, next to its fan-out.
LEMMA CommitStep ==
    ASSUME IInv, NEW c \in Conns, hnd[c].at = "commit", Committed(c),
           hnd' = [hnd EXCEPT ![c] = Idle], UNCHANGED freed
    PROVE  KeyUnique' /\ DedupMatchesFanout'
<1> DEFINE m == hnd[c].msg
<1>1. /\ dedup \in [Pids -> Msgs \cup {None}] /\ freed \in [Msgs -> Nat]
      /\ fanned \in [Msgs -> Nat] /\ hnd \in [Conns -> Handler]
  BY DEF IInv, TypeOK
<1>2. m \in Msgs /\ \A l \in Msgs : PacketID[l] \in Pids
  BY DEF IInv, Busy, Pids
<1>3. None \notin Msgs
  BY PartyAssumption
<1>4. qos[m] = 2 => dedup[PacketID[m]] = None
  BY DEF IInv, KeyUnique, Claims
<1>5. \A d \in Conns : Claims(d)' => d # c /\ Claims(d) /\ hnd'[d].msg = hnd[d].msg
  BY ClaimGone DEF Idle, Committed
<1>6. \A d \in Conns : Claims(d) => hnd[d].msg \in Msgs
  BY DEF IInv, Busy, Claims
<1>7. KeyUnique'
  <2>1. ASSUME NEW d \in Conns, Claims(d)' PROVE dedup'[PacketID[hnd'[d].msg]] = None
    <3>1. d # c /\ Claims(d) /\ hnd'[d].msg = hnd[d].msg /\ hnd[d].msg \in Msgs
      BY <1>5, <1>6, <2>1
    <3>2. dedup[PacketID[hnd[d].msg]] = None
      BY <3>1 DEF IInv, KeyUnique
    <3>3. qos[m] = 2 => PacketID[hnd[d].msg] # PacketID[m]
      BY <3>1 DEF IInv, KeyUnique, Claims
    <3> QED
      BY <1>1, <1>2, <3>1, <3>2, <3>3 DEF Committed
  <2>2. \A d, e \in Conns :
          Claims(d)' /\ Claims(e)' /\ PacketID[hnd'[d].msg] = PacketID[hnd'[e].msg] => d = e
    BY <1>5 DEF IInv, KeyUnique
  <2> QED
    BY <2>1, <2>2 DEF KeyUnique
<1>8. ASSUME NEW l \in Msgs, qos'[l] = 2
      PROVE  fanned'[l] = freed'[l] + (IF dedup'[PacketID[l]] = l THEN 1 ELSE 0)
  <2>1. fanned[l] = freed[l] + (IF dedup[PacketID[l]] = l THEN 1 ELSE 0) /\ qos[l] = 2
    BY <1>8 DEF IInv, DedupMatchesFanout, Committed
  <2>2. CASE l = m
    <3>1. dedup'[PacketID[l]] = l /\ fanned'[l] = fanned[l] + 1
      BY <1>1, <1>2, <2>1, <2>2 DEF Committed
    <3>2. dedup[PacketID[l]] # l
      BY <1>2, <1>3, <1>4, <2>1, <2>2
    <3> QED
      BY <1>1, <2>1, <3>1, <3>2
  <2>3. CASE l # m
    <3>1. fanned'[l] = fanned[l]
      BY <1>1, <1>2, <2>3 DEF Committed
    <3>2. dedup'[PacketID[l]] = l <=> dedup[PacketID[l]] = l
      BY <1>1, <1>2, <1>3, <1>4, <2>3 DEF Committed
    <3> QED
      BY <2>1, <3>1, <3>2
  <2> QED
    BY <2>2, <2>3
<1>9. DedupMatchesFanout'
  BY <1>8 DEF DedupMatchesFanout
<1> QED
  BY <1>7, <1>9

\* Every step keeps the key of inbound_qos2 and the agreement with the fan-out.
LEMMA DedupStep ==
    ASSUME IInv, Next
    PROVE  KeyUnique' /\ DedupMatchesFanout'
<1>1. ASSUME NEW c \in Conns, Connect(c) PROVE KeyUnique' /\ DedupMatchesFanout'
  <2>1. UNCHANGED <<qos, dedup, fanned, freed, hnd>>
    BY <1>1 DEF Connect, tableVars, connVars, ghostVars
  <2> QED
    BY <2>1, Untouched DEF Claims
<1>2. ASSUME NEW c \in Conns, NEW m \in Msgs, Send(c, m) PROVE KeyUnique' /\ DedupMatchesFanout'
  <2>1. UNCHANGED <<qos, dedup, fanned, freed, hnd>>
    BY <1>2 DEF Send, tableVars, connVars, ghostVars
  <2> QED
    BY <2>1, Untouched DEF Claims
<1>3. ASSUME NEW c \in Conns, Cut(c) PROVE KeyUnique' /\ DedupMatchesFanout'
  <2>1. UNCHANGED <<qos, dedup, fanned, freed, hnd>>
    BY <1>3 DEF Cut, tableVars, connVars, ghostVars
  <2> QED
    BY <2>1, Untouched DEF Claims
<1>4. ASSUME NEW c \in Conns, Close(c) PROVE KeyUnique' /\ DedupMatchesFanout'
  <2>1. UNCHANGED <<qos, dedup, fanned, freed, hnd>>
    BY <1>4 DEF Close, tableVars, connVars, ghostVars
  <2> QED
    BY <2>1, Untouched DEF Claims
<1>5. ASSUME NEW c \in Conns, ReadPublish(c) PROVE KeyUnique' /\ DedupMatchesFanout'
  <2>1. UNCHANGED <<qos, dedup, fanned, freed>>
    BY <1>5 DEF ReadPublish, tableVars, ghostVars
  <2>2. PICK h : h.at \notin {"query", "commit"} /\ hnd' = [hnd EXCEPT ![c] = h]
    BY <1>5 DEF ReadPublish, Idle
  <2> QED
    BY <2>1, <2>2, ClaimGone, Untouched
<1>6. ASSUME NEW c \in Conns, RefusePublish(c) PROVE KeyUnique' /\ DedupMatchesFanout'
  <2>1. UNCHANGED <<qos, dedup, fanned, freed, hnd>>
    BY <1>6 DEF RefusePublish, tableVars, connVars, ghostVars
  <2> QED
    BY <2>1, Untouched DEF Claims
<1>7. ASSUME NEW c \in Conns, ReadPubrel(c) PROVE KeyUnique' /\ DedupMatchesFanout'
  <2>1. UNCHANGED <<qos, dedup, fanned, freed>>
    BY <1>7 DEF ReadPubrel, tableVars, ghostVars
  <2>2. PICK h : h.at \notin {"query", "commit"} /\ hnd' = [hnd EXCEPT ![c] = h]
    BY <1>7 DEF ReadPubrel, Idle
  <2> QED
    BY <2>1, <2>2, ClaimGone, Untouched
<1>8. ASSUME NEW c \in Conns, ClaimDedup(c) PROVE KeyUnique' /\ DedupMatchesFanout'
  <2>1. UNCHANGED <<qos, dedup, fanned, freed>>
    BY <1>8 DEF ClaimDedup, tableVars, ghostVars
  <2>2. hnd \in [Conns -> Handler] /\ hnd' = [hnd EXCEPT ![c].at = "query"]
    BY <1>8 DEF ClaimDedup, IInv, TypeOK
  <2>3. \A d \in Conns : hnd'[d].msg = hnd[d].msg /\ (d # c => hnd'[d] = hnd[d])
    BY <2>2 DEF Handler
  <2>4. \A d \in Conns \ {c} : Claims(d)' <=> Claims(d)
    BY <2>1, <2>3 DEF Claims
  <2>5. qos[hnd[c].msg] = 2 =>
          /\ dedup[PacketID[hnd[c].msg]] = None
          /\ \A d \in Conns \ {c} : ~(Claims(d) /\ PacketID[hnd[d].msg] = PacketID[hnd[c].msg])
    BY <1>8 DEF ClaimDedup, Locked, Claims
  <2>6. Claims(c)' => qos[hnd[c].msg] = 2
    BY <2>1, <2>3 DEF Claims
  <2>7. KeyUnique'
    BY <2>1, <2>3, <2>4, <2>5, <2>6 DEF IInv, KeyUnique
  <2>8. DedupMatchesFanout'
    BY <2>1 DEF IInv, DedupMatchesFanout
  <2> QED
    BY <2>7, <2>8
<1>9. ASSUME NEW c \in Conns, Duplicate(c) PROVE KeyUnique' /\ DedupMatchesFanout'
  <2>1. UNCHANGED <<qos, dedup, fanned, freed>>
    BY <1>9 DEF Duplicate, Finish, tableVars, ghostVars
  <2>2. PICK h : h.at \notin {"query", "commit"} /\ hnd' = [hnd EXCEPT ![c] = h]
    BY <1>9 DEF Duplicate, Finish, Idle
  <2> QED
    BY <2>1, <2>2, ClaimGone, Untouched
<1>10. ASSUME NEW c \in Conns, FanoutQuery(c) PROVE KeyUnique' /\ DedupMatchesFanout'
  <2>1. UNCHANGED <<qos, dedup, fanned, freed>> /\ hnd[c].at = "query"
    BY <1>10 DEF FanoutQuery, tableVars, ghostVars
  <2>2. hnd \in [Conns -> Handler]
    BY DEF IInv, TypeOK
  <2>3. \A d \in Conns : hnd'[d].msg = hnd[d].msg /\ (d # c => hnd'[d] = hnd[d])
    BY <1>10, <2>2 DEF FanoutQuery, Handler
  <2>4. \A d \in Conns : Claims(d)' => Claims(d) /\ hnd'[d].msg = hnd[d].msg
    BY <2>1, <2>3 DEF Claims
  <2> QED
    BY <2>1, <2>4, Untouched
<1>11. ASSUME NEW c \in Conns, Commit(c) PROVE KeyUnique' /\ DedupMatchesFanout'
  BY <1>11, CommitStep DEF Commit, Finish
<1>12. ASSUME NEW c \in Conns, TxFails(c) PROVE KeyUnique' /\ DedupMatchesFanout'
  <2>1. UNCHANGED <<qos, dedup, fanned, freed>>
    BY <1>12 DEF TxFails, Abort, tableVars, ghostVars
  <2>2. PICK h : h.at \notin {"query", "commit"} /\ hnd' = [hnd EXCEPT ![c] = h]
    BY <1>12 DEF TxFails, Abort, Idle
  <2> QED
    BY <2>1, <2>2, ClaimGone, Untouched
<1>13. ASSUME NEW c \in Conns, CommitUnknown(c) PROVE KeyUnique' /\ DedupMatchesFanout'
  BY <1>13, CommitStep DEF CommitUnknown, Abort
<1>14. ASSUME NEW c \in Conns, HandlePubrel(c) PROVE KeyUnique' /\ DedupMatchesFanout'
  <2>1. UNCHANGED <<qos, fanned>> /\ DeleteDedup(PacketID[hnd[c].msg])
    BY <1>14 DEF HandlePubrel
  <2>2. PacketID[hnd[c].msg] \in Pids
    BY <1>14 DEF HandlePubrel, IInv, Busy, Pids
  <2>3. Idle.at \notin {"query", "commit"} /\ hnd' = [hnd EXCEPT ![c] = Idle]
    BY <1>14 DEF HandlePubrel, Idle
  <2> QED
    BY <2>1, <2>2, <2>3, ClaimGone, DeleteStep
<1>15. ASSUME NEW p \in Pids, SweepInboundQoS2(p) PROVE KeyUnique' /\ DedupMatchesFanout'
  <2>1. UNCHANGED <<qos, fanned, hnd>> /\ DeleteDedup(p)
    BY <1>15 DEF SweepInboundQoS2, connVars
  <2> QED
    BY <2>1, DeleteStep DEF Claims
<1>16. ASSUME NEW cl \in Clients, NEW q \in 0..2, Drain(cl, q) PROVE KeyUnique' /\ DedupMatchesFanout'
  <2>1. UNCHANGED <<qos, dedup, fanned, freed, hnd>>
    BY <1>16 DEF Drain, tableVars, connVars, ghostVars
  <2> QED
    BY <2>1, Untouched DEF Claims
<1>17. ASSUME NEW cl \in Clients, Toggle(cl) PROVE KeyUnique' /\ DedupMatchesFanout'
  <2>1. UNCHANGED <<qos, dedup, fanned, freed, hnd>>
    BY <1>17 DEF Toggle, tableVars, connVars, ghostVars
  <2> QED
    BY <2>1, Untouched DEF Claims
<1> QED
  BY <1>1, <1>2, <1>3, <1>4, <1>5, <1>6, <1>7, <1>8, <1>9, <1>10, <1>11, <1>12,
     <1>13, <1>14, <1>15, <1>16, <1>17 DEF Next

LEMMA InitInv == Init => IInv
<1> SUFFICES ASSUME Init PROVE IInv
  OBVIOUS
<1>1. Idle \in Handler /\ Idle.at = "none"
  BY DEF Idle, Handler, NoBatch
<1>2. << >> \in Seq(Packet)
  OBVIOUS
<1>3. TypeOK
  <2>1. /\ subs \in Tables /\ online \subseteq Clients \ {Publisher}
        /\ backlog \in [Clients -> [0..2 -> Nat]]
        /\ dedup \in [Pids -> Msgs \cup {None}]
        /\ \A p \in Pids : dedup[p] = None
    BY DEF Init
  <2>2. /\ pc \in [Conns -> {"idle", "up", "closed"}] /\ counter \in [Conns -> Int]
        /\ qos \in Qoss /\ phase \in [Msgs -> {"new", "sent", "rel", "done"}]
        /\ cut \in [Conns -> BOOLEAN] /\ refused \subseteq Conns
        /\ fanned \in [Msgs -> Nat] /\ freed \in [Msgs -> Nat] /\ stray \subseteq Msgs
    BY DEF Init
  <2>3. hnd \in [Conns -> Handler]
    BY <1>1 DEF Init
  <2>4. wire \in [Conns -> Seq(Packet)]
    BY <1>2 DEF Init
  <2>5. errs \in 0..MaxErrs
    <3>1. MaxErrs \in Nat
      BY BoundsNat
    <3> QED
      BY <3>1 DEF Init
  <2> QED
    BY <2>1, <2>2, <2>3, <2>4, <2>5 DEF TypeOK
<1>4. Busy /\ KeyUnique
  BY <1>1 DEF Init, Busy, KeyUnique, Claims
<1>5. DedupMatchesFanout
  <2>1. \A m \in Msgs : dedup[PacketID[m]] = None
    BY DEF Init, Pids
  <2>2. \A m \in Msgs : m # None /\ fanned[m] = 0 /\ freed[m] = 0
    BY PartyAssumption DEF Init
  <2> QED
    BY <2>1, <2>2 DEF DedupMatchesFanout
<1> QED
  BY <1>3, <1>4, <1>5 DEF IInv

LEMMA NextInv == IInv /\ [Next]_vars => IInv'
<1> SUFFICES ASSUME IInv, [Next]_vars PROVE IInv'
  OBVIOUS
<1>1. CASE Next
  BY <1>1, TypeStep, DedupStep DEF IInv
<1>2. CASE UNCHANGED vars
  <2>1. UNCHANGED <<subs, qos, online, backlog, dedup, pc, counter, hnd, errs,
                    phase, cut, wire, fanned, freed, stray, refused>>
    BY <1>2 DEF vars, tableVars, connVars, clientVars, ghostVars
  <2>2. TypeOK'
    BY <2>1 DEF IInv, TypeOK
  <2>3. Busy'
    BY <2>1 DEF IInv, Busy
  <2>4. KeyUnique' /\ DedupMatchesFanout'
    BY <2>1, Untouched DEF Claims
  <2> QED
    BY <2>2, <2>3, <2>4 DEF IInv
<1> QED
  BY <1>1, <1>2

-----------------------------------------------------------------------------
(* Theorems.                                                               *)

\* The variables of the publisher path keep their types; in particular a dedup row always
\* stands for a QoS 2 message with its packet identifier.
THEOREM PublishTypeCorrect == Spec => []TypeOK
<1>1. IInv => TypeOK
  BY DEF IInv
<1> QED
  BY <1>1, InitInv, NextInv, PTL DEF Spec

\* However many sockets, repeats, failing or half-answered commits and janitor sweeps there
\* are, a QoS 2 message has been fanned out exactly once per dedup row it ever had
\* (publishCore's single transaction and the primary key of inbound_qos2).
THEOREM DedupInStep == Spec => []DedupMatchesFanout
<1>1. IInv => DedupMatchesFanout
  BY DEF IInv
<1> QED
  BY <1>1, InitInv, NextInv, PTL DEF Spec

\* inbound_qos2 has one row, committed or not, for a packet identifier: two handlers never
\* hold a claim on the same identifier, and none holds one next to a committed row.
THEOREM OneClaim == Spec => []KeyUnique
<1>1. IInv => KeyUnique
  BY DEF IInv
<1> QED
  BY <1>1, InitInv, NextInv, PTL DEF Spec
-----------------------------------------------------------------------------
(* The cap of the queues.                                                  *)

\* The handlers whose transaction is to add a row with QoS > 0 for a client.
Writing(cl) == {c \in Conns : hnd[c].at = "commit" /\ hnd[c].batch[cl] \in {1, 2}}

\* Counting these rows as if they were there: each handler adds one at most, and none but the
\* handlers at work adds any once the cap is reached.
Bounded(cl) == backlog[cl][1] + backlog[cl][2] + Cardinality(Writing(cl)) < MaxQueued + Cardinality(Conns)
QueueInv == MaxQueued > 0 => \A cl \in Clients : Bounded(cl)

LEMMA WritingFinite ==
    ASSUME NEW cl \in Clients
    PROVE  /\ IsFiniteSet(Writing(cl)) /\ Cardinality(Writing(cl)) \in Nat
           /\ Cardinality(Conns) \in Nat /\ Cardinality(Writing(cl)) <= Cardinality(Conns)
<1>1. IsFiniteSet(Conns) /\ Writing(cl) \subseteq Conns
  BY PartyAssumption DEF Writing
<1> QED
  BY <1>1, FS_Subset, FS_CardinalityType

\* A step that adds no row and starts no transaction's last phase.
LEMMA BoundedFrame ==
    ASSUME TypeOK, TypeOK', NEW cl \in Clients, Bounded(cl),
           backlog'[cl][1] <= backlog[cl][1], backlog'[cl][2] <= backlog[cl][2],
           Writing(cl)' \subseteq Writing(cl)
    PROVE  Bounded(cl)'
<1>1. Cardinality(Writing(cl)') <= Cardinality(Writing(cl))
  BY WritingFinite, FS_Subset
<1>2. Cardinality(Writing(cl)') \in Nat
  <2>1. IsFiniteSet(Writing(cl)')
    BY WritingFinite, FS_Subset
  <2> QED
    BY <2>1, FS_CardinalityType
<1>3. /\ backlog[cl][1] \in Nat /\ backlog[cl][2] \in Nat
      /\ backlog'[cl][1] \in Nat /\ backlog'[cl][2] \in Nat
  BY DEF TypeOK
<1>4. Cardinality(Conns) \in Nat /\ Cardinality(Writing(cl)) \in Nat /\ MaxQueued \in Nat
  BY WritingFinite, BoundsNat
<1>5. Bounded(cl)' <=> backlog'[cl][1] + backlog'[cl][2] + Cardinality(Writing(cl)') < MaxQueued + Cardinality(Conns)
  BY DEF Bounded
<1> QED
  BY <1>1, <1>2, <1>3, <1>4, <1>5 DEF Bounded

\* Before it commits, a transaction adds its row to Writing: below the cap.
LEMMA BoundedQuery ==
    ASSUME IInv, TypeOK', NEW c \in Conns, FanoutQuery(c), NEW cl \in Clients, Bounded(cl), MaxQueued > 0
    PROVE  Bounded(cl)'
<1>0. /\ hnd \in [Conns -> Handler] /\ hnd[c].msg \in Msgs /\ backlog' = backlog
      /\ \A d \in Conns \ {c} : hnd'[d] = hnd[d]
  BY DEF IInv, TypeOK, Busy, FanoutQuery, tableVars
<1>1. CASE c \notin Writing(cl)'
  <2>1. Writing(cl)' \subseteq Writing(cl)
    BY <1>0, <1>1 DEF Writing
  <2>2. backlog[cl][1] \in Nat /\ backlog[cl][2] \in Nat
    BY DEF IInv, TypeOK
  <2> QED
    BY <1>0, <2>1, <2>2, BoundedFrame DEF IInv
<1>2. CASE c \in Writing(cl)'
  <2> DEFINE m == hnd[c].msg
             b == [k \in Clients |-> IF Inserted(m, k) THEN DeliverQos(m, k) ELSE None]
  <2>1. hnd' = [hnd EXCEPT ![c] = [hnd[c] EXCEPT !.at = "commit", !.batch = b]]
    BY DEF FanoutQuery
  <2>2. hnd'[c].batch[cl] = b[cl] /\ hnd'[c].batch[cl] \in {1, 2}
    BY <1>0, <1>2, <2>1 DEF Writing, Handler
  <2>3. b[cl] = IF Inserted(m, cl) THEN DeliverQos(m, cl) ELSE None
    OBVIOUS
  <2>4. Inserted(m, cl) /\ DeliverQos(m, cl) \in {1, 2}
    BY <2>2, <2>3, PartyAssumption
  <2>5. ~OverCap(cl)
    BY <2>4 DEF Inserted
  <2>6. backlog[cl][0] \in Nat /\ backlog[cl][1] \in Nat /\ backlog[cl][2] \in Nat /\ MaxQueued \in Nat
    <3>1. backlog \in [Clients -> [0..2 -> Nat]]
      BY DEF IInv, TypeOK
    <3> QED
      BY <3>1, BoundsNat
  <2>7. backlog[cl][1] + backlog[cl][2] < MaxQueued
    BY <2>5, <2>6 DEF OverCap, Rows
  <2>8. Cardinality(Writing(cl)') \in Nat /\ Cardinality(Writing(cl)') <= Cardinality(Conns) /\ Cardinality(Conns) \in Nat
    <3>1. IsFiniteSet(Conns) /\ Writing(cl)' \subseteq Conns
      BY PartyAssumption DEF Writing
    <3> QED
      BY <3>1, FS_Subset, FS_CardinalityType
  <2> QED
    BY <1>0, <2>6, <2>7, <2>8 DEF Bounded
<1> QED
  BY <1>1, <1>2

\* A commit turns the handler's share of Writing into a row.
LEMMA BoundedCommit ==
    ASSUME IInv, TypeOK', NEW c \in Conns, hnd[c].at = "commit", Committed(c), hnd' = [hnd EXCEPT ![c] = Idle],
           NEW cl \in Clients, Bounded(cl)
    PROVE  Bounded(cl)'
<1>0. /\ hnd \in [Conns -> Handler] /\ hnd'[c].at # "commit" /\ \A d \in Conns \ {c} : hnd'[d] = hnd[d]
      /\ backlog[cl][1] \in Nat /\ backlog[cl][2] \in Nat
      /\ \A q \in 0..2 : backlog'[cl][q] = IF q = hnd[c].batch[cl] THEN backlog[cl][q] + 1 ELSE backlog[cl][q]
  <2>1. hnd \in [Conns -> Handler] /\ backlog \in [Clients -> [0..2 -> Nat]]
    BY DEF IInv, TypeOK
  <2>2. hnd'[c].at # "commit" /\ \A d \in Conns \ {c} : hnd'[d] = hnd[d]
    BY <2>1 DEF Idle
  <2>3. \A q \in 0..2 : backlog'[cl][q] = IF q = hnd[c].batch[cl] THEN backlog[cl][q] + 1 ELSE backlog[cl][q]
    BY DEF Committed
  <2> QED
    BY <2>1, <2>2, <2>3
<1>1. Writing(cl)' = Writing(cl) \ {c}
  BY <1>0 DEF Writing
<1>2. CASE hnd[c].batch[cl] \in {1, 2}
  <2>1. c \in Writing(cl)
    BY <1>2 DEF Writing
  <2>2. Cardinality(Writing(cl)') = Cardinality(Writing(cl)) - 1
    BY <1>1, <2>1, WritingFinite, FS_RemoveElement
  <2>3. backlog'[cl][1] + backlog'[cl][2] = backlog[cl][1] + backlog[cl][2] + 1
    BY <1>0, <1>2
  <2>4. /\ backlog'[cl][1] \in Nat /\ backlog'[cl][2] \in Nat /\ MaxQueued \in Nat
        /\ Cardinality(Conns) \in Nat /\ Cardinality(Writing(cl)) \in Nat
    <3>1. backlog' \in [Clients -> [0..2 -> Nat]]
      BY DEF TypeOK
    <3> QED
      BY <3>1, WritingFinite, BoundsNat
  <2> QED
    BY <1>0, <2>2, <2>3, <2>4 DEF Bounded
<1>3. CASE hnd[c].batch[cl] \notin {1, 2}
  <2>1. backlog'[cl][1] <= backlog[cl][1] /\ backlog'[cl][2] <= backlog[cl][2]
    BY <1>0, <1>3
  <2> QED
    BY <1>1, <2>1, BoundedFrame DEF IInv
<1> QED
  BY <1>2, <1>3

LEMMA QueueStep ==
    ASSUME IInv, IInv', QueueInv, Next
    PROVE  QueueInv'
<1> SUFFICES ASSUME MaxQueued > 0, NEW cl \in Clients PROVE Bounded(cl)'
  BY DEF QueueInv
<1>0. Bounded(cl) /\ TypeOK /\ TypeOK' /\ hnd \in [Conns -> Handler] /\ backlog[cl][1] \in Nat /\ backlog[cl][2] \in Nat
  <2>1. Bounded(cl) /\ TypeOK /\ TypeOK'
    BY DEF QueueInv, IInv
  <2>2. hnd \in [Conns -> Handler] /\ backlog \in [Clients -> [0..2 -> Nat]]
    BY <2>1 DEF TypeOK
  <2> QED
    BY <2>1, <2>2
<1>f. ASSUME backlog' = backlog, Writing(cl)' \subseteq Writing(cl) PROVE Bounded(cl)'
  BY <1>0, <1>f, BoundedFrame
<1>i. ASSUME backlog' = backlog, NEW c \in Conns, NEW h, h.at # "commit", hnd' = [hnd EXCEPT ![c] = h] PROVE Bounded(cl)'
  <2>1. Writing(cl)' \subseteq Writing(cl)
    BY <1>0, <1>i DEF Writing
  <2> QED
    BY <1>f, <1>i, <2>1
<1>k. ASSUME UNCHANGED <<backlog, hnd>> PROVE Bounded(cl)'
  BY <1>f, <1>k DEF Writing
<1>1. ASSUME NEW c \in Conns, Connect(c) \/ Cut(c) \/ Close(c) \/ RefusePublish(c) \/ \E m \in Msgs : Send(c, m)
      PROVE  Bounded(cl)'
  BY <1>1, <1>k DEF Connect, Cut, Close, RefusePublish, Send, tableVars, connVars
<1>2. ASSUME NEW c \in Conns, ReadPublish(c) PROVE Bounded(cl)'
  <2>1. PICK h : h.at # "commit" /\ hnd' = [hnd EXCEPT ![c] = h]
    BY <1>2 DEF ReadPublish, Idle
  <2> QED
    BY <1>2, <1>i, <2>1 DEF ReadPublish, tableVars
<1>3. ASSUME NEW c \in Conns, ReadPubrel(c) PROVE Bounded(cl)'
  <2>1. PICK h : h.at # "commit" /\ hnd' = [hnd EXCEPT ![c] = h]
    BY <1>3 DEF ReadPubrel, Idle
  <2> QED
    BY <1>3, <1>i, <2>1 DEF ReadPubrel, tableVars
<1>4. ASSUME NEW c \in Conns, ClaimDedup(c) PROVE Bounded(cl)'
  <2>1. PICK h : h = [hnd[c] EXCEPT !.at = "query"] /\ hnd' = [hnd EXCEPT ![c] = h]
    BY <1>4 DEF ClaimDedup
  <2>2. h.at # "commit"
    BY <1>0, <2>1 DEF Handler
  <2> QED
    BY <1>4, <1>i, <2>1, <2>2 DEF ClaimDedup, tableVars
<1>5. ASSUME NEW c \in Conns, Duplicate(c) PROVE Bounded(cl)'
  <2>1. Idle.at # "commit" /\ hnd' = [hnd EXCEPT ![c] = Idle]
    BY <1>5 DEF Duplicate, Finish, Idle
  <2> QED
    BY <1>5, <1>i, <2>1 DEF Duplicate, tableVars
<1>6. ASSUME NEW c \in Conns, FanoutQuery(c) PROVE Bounded(cl)'
  BY <1>0, <1>6, BoundedQuery
<1>7. ASSUME NEW c \in Conns, Commit(c) \/ CommitUnknown(c) PROVE Bounded(cl)'
  BY <1>0, <1>7, BoundedCommit DEF Commit, CommitUnknown, Finish, Abort
<1>8. ASSUME NEW c \in Conns, TxFails(c) \/ HandlePubrel(c) PROVE Bounded(cl)'
  <2>1. Idle.at # "commit" /\ hnd' = [hnd EXCEPT ![c] = Idle]
    BY <1>8 DEF TxFails, Abort, HandlePubrel, Idle
  <2> QED
    BY <1>8, <1>i, <2>1 DEF TxFails, HandlePubrel, tableVars
<1>9. ASSUME NEW p \in Pids, SweepInboundQoS2(p) PROVE Bounded(cl)'
  BY <1>9, <1>k DEF SweepInboundQoS2, connVars
<1>10. ASSUME NEW k \in Clients, Toggle(k) PROVE Bounded(cl)'
  BY <1>10, <1>k DEF Toggle, connVars
<1>11. ASSUME NEW k \in Clients, NEW q \in 0..2, Drain(k, q) PROVE Bounded(cl)'
  <2>1. backlog \in [Clients -> [0..2 -> Nat]]
    BY DEF IInv, TypeOK
  <2>2. backlog'[cl][1] <= backlog[cl][1] /\ backlog'[cl][2] <= backlog[cl][2]
    BY <1>11, <2>1 DEF Drain
  <2>3. Writing(cl)' = Writing(cl)
    BY <1>11 DEF Drain, Writing, connVars
  <2> QED
    BY <1>0, <2>2, <2>3, BoundedFrame
<1> QED
  BY <1>1, <1>2, <1>3, <1>4, <1>5, <1>6, <1>7, <1>8, <1>9, <1>10, <1>11 DEF Next

\* Transactions that run together overshoot maxQueuedDeliveries by less than one row per
\* socket of the publisher: each reads the cap once, before it adds its row (mqtt_publish).
THEOREM QueueAlwaysBounded == Spec => []QueueBounded
<1>1. Init => QueueInv
  <2> SUFFICES ASSUME Init, MaxQueued > 0, NEW cl \in Clients PROVE Bounded(cl)
    BY DEF QueueInv
  <2>1. Writing(cl) = {}
    BY DEF Init, Idle, Writing
  <2>2. Cardinality(Writing(cl)) = 0
    BY <2>1, FS_EmptySet
  <2>3. Cardinality(Conns) \in Nat /\ MaxQueued \in Nat
    BY WritingFinite, BoundsNat
  <2>4. backlog[cl][1] = 0 /\ backlog[cl][2] = 0
    BY DEF Init
  <2> QED
    BY <2>2, <2>3, <2>4 DEF Bounded
<1>2. IInv /\ IInv' /\ QueueInv /\ [Next]_vars => QueueInv'
  <2>1. ASSUME UNCHANGED vars, QueueInv PROVE QueueInv'
    BY <2>1 DEF vars, tableVars, connVars, QueueInv, Bounded, Writing
  <2> QED
    BY <2>1, QueueStep
<1>3. IInv /\ QueueInv => QueueBounded
  <2> SUFFICES ASSUME IInv, QueueInv, MaxQueued > 0, NEW cl \in Clients
               PROVE  backlog[cl][1] + backlog[cl][2] < MaxQueued + Cardinality(Conns)
    BY DEF QueueBounded
  <2>1. backlog[cl][1] \in Nat /\ backlog[cl][2] \in Nat /\ Bounded(cl)
    BY DEF IInv, TypeOK, QueueInv
  <2> QED
    BY <2>1, WritingFinite, BoundsNat DEF Bounded
<1> QED
  BY <1>1, <1>2, <1>3, InitInv, NextInv, PTL DEF Spec
=============================================================================
