------------------------- MODULE PublishClientProofs -------------------------
(***************************************************************************)
(* Proofs about Publish that follow a message from the client's sending to *)
(* its acknowledgement: an acknowledged message was fanned out, and the    *)
(* slots of Receive Maximum are given back.                                *)
(***************************************************************************)
EXTENDS PublishProofs

-----------------------------------------------------------------------------
(* Where the packets of a message are.                                     *)

Carries(w, type, m) == \E i \in 1..Len(w) : w[i].type = type /\ w[i].msg = m
OnWire(c, type, m) == Carries(wire[c], type, m)
Handling(c, m)  == hnd[c].at \in {"begin", "query", "commit"} /\ hnd[c].msg = m
Releasing(c, m) == hnd[c].at = "pubrel" /\ hnd[c].msg = m

\* A socket that has not been opened is as it was at the start, and the client uses one socket
\* at a time.
Sockets ==
    /\ \A c \in Conns : pc[c] = "idle" => hnd[c].at = "none" /\ wire[c] = << >> /\ counter[c] = 0
    /\ \A c, d \in Conns : Using(c) /\ Using(d) => c = d

\* A packet on its way belongs to a message the client has begun; a PUBREL to one that was
\* acknowledged by PUBREC; and on the socket in use a PUBLISH to one that was not acknowledged.
BegunAt(c) ==
    \A m \in Msgs :
        /\ OnWire(c, "publish", m) \/ Handling(c, m) => phase[m] # "new"
        /\ OnWire(c, "pubrel", m) \/ Releasing(c, m) => phase[m] \in {"rel", "done"}
        /\ Using(c) /\ qos[m] > 0 /\ (OnWire(c, "publish", m) \/ Handling(c, m)) => phase[m] = "sent"

\* A socket carries one PUBLISH of a message at most.
Distinct(w) ==
    \A i, j \in 1..Len(w) :
        w[i].type = "publish" /\ w[j].type = "publish" /\ w[i].msg = w[j].msg => i = j
SentOnceAt(c) == /\ Distinct(wire[c])
                 /\ \A m \in Msgs : Handling(c, m) => ~OnWire(c, "publish", m)

\* The client keeps the protocol: one open message per packet identifier, ReceiveMax in all.
OpenUnique == \A l, m \in Open : PacketID[l] = PacketID[m] => l = m
OpenBounded == Cardinality(Open) <= ReceiveMax

\* Rows stand for messages that were sent.
RowBegun == /\ \A p \in Pids : dedup[p] # None => phase[dedup[p]] # "new"
            /\ \A m \in stray : phase[m] # "new"

ClientInv ==
    /\ Sockets /\ OpenUnique /\ OpenBounded /\ RowBegun
    /\ \A c \in Conns : BegunAt(c) /\ SentOnceAt(c)

\* A packet identifier on which an old message was fanned out twice.
Twice(p) == \E k \in Msgs : PacketID[k] = p /\ phase[k] = "done" /\ fanned[k] > 1

\* A row left by a message that is done, and an acknowledgement without fan-out, both mean that.
AckInv ==
    /\ \A m \in Msgs : qos[m] > 0 /\ phase[m] \in {"rel", "done"} /\ fanned[m] = 0 => Twice(PacketID[m])
    /\ \A p \in Pids : dedup[p] # None /\ phase[dedup[p]] = "done" => Twice(p)

\* The messages whose slot may be counted on a socket: the one at hand, and those whose PUBREL
\* will find its row, with no other socket to release it first; and the ones that strayed.
Held(c) == {m \in Msgs : \/ hnd[c].slot /\ Handling(c, m)
                         \/ /\ phase[m] = "rel" /\ dedup[PacketID[m]] = m
                            /\ \A d \in Conns \ {c} : ~OnWire(d, "pubrel", m) /\ ~Releasing(d, m)}
Slots(c) == {m \in Held(c) \cup stray : ~OnWire(c, "publish", m)}

\* The PUBLISHes of a socket that will want a slot.
Pubs(c) == {m \in Msgs : qos[m] > 0 /\ OnWire(c, "publish", m)}

\* On the socket in use the counter is at most the number of these messages; on one the client
\* has left, there is room for what is still on its wire.
SlotAt(c) ==
    /\ Using(c) => counter[c] <= Cardinality(Slots(c))
    /\ pc[c] = "up" /\ cut[c] => counter[c] + Cardinality(Pubs(c)) <= ReceiveMax + Cardinality(stray)

\* Only a PUBLISH of QoS 1 or 2 holds a slot, and only a socket that was opened is given up.
SlotOf(c) ==
    /\ hnd[c].slot => hnd[c].at \in {"begin", "query", "commit"} /\ qos[hnd[c].msg] > 0
    /\ pc[c] = "idle" => ~cut[c]

\* A refused socket is at rest, and was refused for a reason.
RefusedAt(c) ==
    /\ pc[c] = "closed" /\ hnd[c].at = "none"
    /\ counter[c] < -1 \/ (stray # {} /\ counter[c] < ReceiveMax + Cardinality(stray))

SlotInv == /\ \A c \in Conns : SlotAt(c) /\ SlotOf(c)
           /\ \A c \in refused : RefusedAt(c)
-----------------------------------------------------------------------------
(* What the packets on a socket are after it is read or written.           *)

LEMMA CarriesTail ==
    ASSUME NEW w \in Seq(Packet), w # << >>
    PROVE  /\ \A t, m : Carries(Tail(w), t, m) => Carries(w, t, m)
           /\ \A t, m : Carries(w, t, m) => Carries(Tail(w), t, m) \/ (Head(w).type = t /\ Head(w).msg = m)
           /\ Carries(w, Head(w).type, Head(w).msg)
           /\ Distinct(w) => Distinct(Tail(w))
           /\ Distinct(w) /\ Head(w).type = "publish" => ~Carries(Tail(w), "publish", Head(w).msg)
<1>1. /\ Len(w) \in Nat /\ Len(w) >= 1 /\ Len(Tail(w)) = Len(w) - 1 /\ Head(w) = w[1]
      /\ \A i \in 1..Len(Tail(w)) : i + 1 \in 1..Len(w) /\ Tail(w)[i] = w[i + 1]
  OBVIOUS
<1>2. \A i \in 1..Len(w) : i = 1 \/ (i - 1 \in 1..Len(Tail(w)) /\ Tail(w)[i - 1] = w[i])
  BY <1>1
<1>3. 1 \in 1..Len(w)
  BY <1>1
<1>4. \A t, m : Carries(Tail(w), t, m) => Carries(w, t, m)
  BY <1>1 DEF Carries
<1>5. \A t, m : Carries(w, t, m) => Carries(Tail(w), t, m) \/ (Head(w).type = t /\ Head(w).msg = m)
  BY <1>1, <1>2 DEF Carries
<1>6. Carries(w, Head(w).type, Head(w).msg)
  BY <1>1, <1>3 DEF Carries
<1>7. ASSUME Distinct(w) PROVE Distinct(Tail(w))
  <2> SUFFICES ASSUME NEW i \in 1..Len(Tail(w)), NEW j \in 1..Len(Tail(w)),
                      Tail(w)[i].type = "publish", Tail(w)[j].type = "publish", Tail(w)[i].msg = Tail(w)[j].msg
               PROVE  i = j
    BY DEF Distinct
  <2>1. i + 1 = j + 1
    BY <1>1, <1>7 DEF Distinct
  <2> QED
    BY <2>1, <1>1
<1>8. ASSUME Distinct(w), Head(w).type = "publish", NEW i \in 1..Len(Tail(w)),
             Tail(w)[i].type = "publish", Tail(w)[i].msg = Head(w).msg
      PROVE  FALSE
  <2>1. i + 1 = 1
    BY <1>1, <1>3, <1>8 DEF Distinct
  <2> QED
    BY <1>1, <2>1
<1> QED
  BY <1>4, <1>5, <1>6, <1>7, <1>8 DEF Carries

LEMMA CarriesAppend ==
    ASSUME NEW w \in Seq(Packet), NEW k \in Packet
    PROVE  /\ \A t, m : Carries(Append(w, k), t, m) <=> Carries(w, t, m) \/ (k.type = t /\ k.msg = m)
           /\ Distinct(w) /\ (k.type = "publish" => ~Carries(w, "publish", k.msg)) => Distinct(Append(w, k))
<1>1. /\ Len(w) \in Nat /\ Len(Append(w, k)) = Len(w) + 1 /\ Append(w, k)[Len(w) + 1] = k
      /\ \A i \in 1..Len(w) : i \in 1..(Len(w) + 1) /\ Append(w, k)[i] = w[i]
      /\ \A i \in 1..(Len(w) + 1) : i \in 1..Len(w) \/ i = Len(w) + 1
      /\ Len(w) + 1 \in 1..(Len(w) + 1)
  OBVIOUS
<1>2. \A t, m : Carries(Append(w, k), t, m) <=> Carries(w, t, m) \/ (k.type = t /\ k.msg = m)
  BY <1>1 DEF Carries
<1>3. ASSUME Distinct(w), k.type = "publish" => ~Carries(w, "publish", k.msg) PROVE Distinct(Append(w, k))
  BY <1>1, <1>3 DEF Distinct, Carries
<1> QED
  BY <1>2, <1>3

LEMMA CarriesNothing == (\A t, m : ~Carries(<< >>, t, m)) /\ Distinct(<< >>)
  BY DEF Carries, Distinct
-----------------------------------------------------------------------------
(* The client's side of a step.                                            *)

\* What a step on one socket leaves alone.
Elsewhere(c) == /\ \A d \in Conns \ {c} : /\ hnd'[d] = hnd[d] /\ wire'[d] = wire[d] /\ pc'[d] = pc[d]
                                          /\ cut'[d] = cut[d] /\ counter'[d] = counter[d]
                /\ qos' = qos

\* A message's phase goes forward, and only the socket in use moves it.
Forward(c) == \A m \in Msgs : /\ phase[m] # "new" => phase'[m] # "new"
                              /\ phase[m] \in {"rel", "done"} => phase'[m] \in {"rel", "done"}
                              /\ phase[m] = "done" => phase'[m] = "done"
                              /\ phase'[m] = phase[m] \/ Using(c)

LEMMA SocketStep ==
    ASSUME IInv, ClientInv, NEW c \in Conns, Elsewhere(c), Forward(c), pc'[c] # "idle",
           Using(c)' => Using(c) \/ \A d \in Conns : ~Using(d),
           BegunAt(c)', SentOnceAt(c)'
    PROVE  Sockets' /\ \A d \in Conns : BegunAt(d)' /\ SentOnceAt(d)'
<1>1. \A d \in Conns \ {c} : Using(d)' <=> Using(d)
  BY DEF Elsewhere, Using
<1>2. Sockets'
  BY <1>1 DEF ClientInv, Sockets, Elsewhere
<1>3. ASSUME NEW d \in Conns \ {c} PROVE BegunAt(d)' /\ SentOnceAt(d)'
  <2>1. BegunAt(d) /\ SentOnceAt(d)
    BY DEF ClientInv
  <2>2. /\ \A m \in Msgs : Handling(d, m)' <=> Handling(d, m)
        /\ \A m \in Msgs : Releasing(d, m)' <=> Releasing(d, m)
        /\ \A t, m : OnWire(d, t, m)' <=> OnWire(d, t, m)
    BY DEF Elsewhere, Handling, Releasing, OnWire
  <2>3. SentOnceAt(d)'
    BY <2>1, <2>2 DEF SentOnceAt, Elsewhere
  <2>4. Using(d) => phase' = phase \/ ~Using(c)
    BY DEF ClientInv, Sockets
  <2>5. \A m \in Msgs : Using(d) => phase'[m] = phase[m]
    BY <2>4 DEF Forward
  <2>6. BegunAt(d)'
    BY <1>1, <2>1, <2>2, <2>5 DEF BegunAt, Forward, Elsewhere
  <2> QED
    BY <2>3, <2>6
<1> QED
  BY <1>2, <1>3

\* The open messages of a step that opens none.
LEMMA OpenStep ==
    ASSUME ClientInv, IInv, Open' \subseteq Open
    PROVE  OpenUnique' /\ OpenBounded'
<1>1. OpenUnique'
  BY DEF ClientInv, OpenUnique
<1>2. IsFiniteSet(Open)
  BY FS_Subset, MsgsAssumption DEF Open
<1>3. Cardinality(Open') <= Cardinality(Open) /\ Cardinality(Open') \in Nat /\ Cardinality(Open) \in Nat
  BY <1>2, FS_Subset, FS_CardinalityType
<1>4. OpenBounded'
  BY <1>3, BoundsNat DEF ClientInv, OpenBounded
<1> QED
  BY <1>1, <1>4

\* The rows of a step that deletes rows or inserts one of a message that was sent.
LEMMA RowStep ==
    ASSUME IInv, ClientInv, NEW c \in Conns, Forward(c),
           \A p \in Pids : dedup'[p] = dedup[p] \/ dedup'[p] = None
                           \/ (dedup'[p] \in Msgs /\ phase[dedup'[p]] # "new"),
           \A m \in stray' : m \in stray \/ (m \in Msgs /\ phase[m] # "new")
    PROVE  RowBegun'
<1>1. dedup \in [Pids -> Msgs \cup {None}] /\ stray \subseteq Msgs
  BY DEF IInv, TypeOK
<1> QED
  BY <1>1 DEF ClientInv, RowBegun, Forward
\* The handler at hand, and its message on the socket in use.
LEMMA AtHand ==
    ASSUME IInv, ClientInv, NEW c \in Conns, hnd[c].at # "none"
    PROVE  /\ hnd[c].msg \in Msgs /\ PacketID[hnd[c].msg] \in Pids /\ pc[c] # "idle"
           /\ hnd[c].at \in {"begin", "query", "commit"} =>
                /\ Handling(c, hnd[c].msg) /\ phase[hnd[c].msg] # "new" /\ ~OnWire(c, "publish", hnd[c].msg)
                /\ Using(c) /\ qos[hnd[c].msg] > 0 => phase[hnd[c].msg] = "sent"
           /\ hnd[c].at = "pubrel" => phase[hnd[c].msg] \in {"rel", "done"} /\ Releasing(c, hnd[c].msg)
<1>1. hnd[c].msg \in Msgs /\ PacketID[hnd[c].msg] \in Pids
  BY DEF IInv, Busy, Pids
<1>2. BegunAt(c) /\ SentOnceAt(c) /\ pc[c] # "idle"
  BY DEF ClientInv, Sockets
<1> QED
  BY <1>1, <1>2 DEF BegunAt, SentOnceAt, Handling, Releasing

\* The packet at the front of a socket is taken off it.
LEMMA ReadStep ==
    ASSUME IInv, ClientInv, NEW c \in Conns, wire[c] # << >>, wire' = [wire EXCEPT ![c] = Tail(@)]
    PROVE  /\ FirstOf(c) \in Packet /\ FirstOf(c).msg \in Msgs /\ OnWire(c, FirstOf(c).type, FirstOf(c).msg)
           /\ \A d \in Conns \ {c} : wire'[d] = wire[d]
           /\ \A t, m : OnWire(c, t, m)' => OnWire(c, t, m)
           /\ \A t, m : OnWire(c, t, m) => OnWire(c, t, m)' \/ (FirstOf(c).type = t /\ FirstOf(c).msg = m)
           /\ Distinct(wire'[c])
           /\ \A m : FirstOf(c).type = "publish" /\ FirstOf(c).msg = m => ~OnWire(c, "publish", m)'
<1>1. wire \in [Conns -> Seq(Packet)] /\ wire[c] \in Seq(Packet)
  BY DEF IInv, TypeOK
<1>2. wire'[c] = Tail(wire[c]) /\ \A d \in Conns \ {c} : wire'[d] = wire[d]
  BY <1>1
<1>3. FirstOf(c) \in Packet /\ FirstOf(c).msg \in Msgs
  BY <1>1, FrontPacket DEF FirstOf
<1>4. Distinct(wire[c])
  BY DEF ClientInv, SentOnceAt
<1> DEFINE w == wire[c]
           h == FirstOf(c)
<1>5. /\ \A t, m : Carries(Tail(w), t, m) => Carries(w, t, m)
      /\ \A t, m : Carries(w, t, m) => Carries(Tail(w), t, m) \/ (h.type = t /\ h.msg = m)
      /\ Carries(w, h.type, h.msg)
      /\ Distinct(Tail(w))
      /\ h.type = "publish" => ~Carries(Tail(w), "publish", h.msg)
  BY <1>1, <1>4, CarriesTail DEF FirstOf
<1> QED
  BY <1>2, <1>3, <1>5 DEF OnWire
\* A step that moves no message's phase.
LEMMA StillForward ==
    ASSUME NEW c \in Conns, UNCHANGED phase
    PROVE  Forward(c) /\ Open' = Open
  BY DEF Forward, Open

\* A socket that is closed.
LEMMA ClosedStep ==
    ASSUME IInv, ClientInv, NEW c \in Conns, pc' = [pc EXCEPT ![c] = "closed"], wire' = [wire EXCEPT ![c] = << >>],
           UNCHANGED <<cut, counter, phase, qos>>,
           hnd' = hnd \/ hnd' = [hnd EXCEPT ![c] = Idle]
    PROVE  Sockets' /\ (\A d \in Conns : BegunAt(d)' /\ SentOnceAt(d)') /\ OpenUnique' /\ OpenBounded'
<1>0. /\ hnd \in [Conns -> Handler] /\ wire \in [Conns -> Seq(Packet)] /\ pc \in [Conns -> {"idle", "up", "closed"}]
  BY DEF IInv, TypeOK
<1>1. Elsewhere(c) /\ pc'[c] = "closed" /\ ~Using(c)'
  BY <1>0 DEF Elsewhere, Using
<1>2. \A m \in Msgs : (Handling(c, m)' => Handling(c, m)) /\ (Releasing(c, m)' => Releasing(c, m))
  BY <1>0 DEF Handling, Releasing, Idle
<1>3. (\A t, m : ~OnWire(c, t, m)') /\ Distinct(wire'[c])
  BY <1>0, CarriesNothing DEF OnWire
<1>4. BegunAt(c)' /\ SentOnceAt(c)'
  BY <1>1, <1>2, <1>3 DEF BegunAt, SentOnceAt, ClientInv
<1>5. Forward(c) /\ Open' = Open
  BY StillForward
<1> QED
  BY <1>1, <1>4, <1>5, SocketStep, OpenStep

LEMMA ConnectStep ==
    ASSUME IInv, IInv', ClientInv, NEW c \in Conns, Connect(c)
    PROVE  ClientInv'
<1>0. /\ hnd \in [Conns -> Handler] /\ wire \in [Conns -> Seq(Packet)] /\ pc \in [Conns -> {"idle", "up", "closed"}]
      /\ phase \in [Msgs -> {"new", "sent", "rel", "done"}] /\ Msgs \subseteq Nat
  BY MsgsAssumption DEF IInv, TypeOK
<1> DEFINE n == Cardinality(Open)
<1>1. n \in Nat
  BY OpenFinite DEF IInv
<1>2. PICK again \in [1..n -> Open] :
          /\ IsResend(again)
          /\ wire' = [wire EXCEPT ![c] = [i \in 1..n |-> IF phase[again[i]] = "rel" THEN Pk("pubrel", again[i], FALSE)
                                                         ELSE Pk("publish", again[i], TRUE)]]
  BY DEF Connect
<1>3. /\ pc' = [pc EXCEPT ![c] = "up"] /\ (\A d \in Conns : ~Using(d)) /\ hnd[c].at = "none"
      /\ UNCHANGED <<hnd, counter, phase, cut, qos, dedup, stray>>
  BY DEF Connect, tableVars, ghostVars, ClientInv, Sockets
<1> DEFINE w == [i \in 1..n |-> IF phase[again[i]] = "rel" THEN Pk("pubrel", again[i], FALSE)
                                ELSE Pk("publish", again[i], TRUE)]
<1> HIDE DEF n
<1>4. Len(w) = n
  BY <1>1
<1>5. \A i \in 1..n : /\ again[i] \in Msgs /\ w[i].msg = again[i]
                      /\ w[i].type = "pubrel" => phase[again[i]] = "rel"
                      /\ w[i].type = "publish" => phase[again[i]] = "sent"
  BY <1>0 DEF Open, Pk
<1>6. wire'[c] = w /\ \A d \in Conns \ {c} : wire'[d] = wire[d]
  BY <1>0, <1>2
<1> HIDE DEF w
<1>7. /\ \A m : OnWire(c, "pubrel", m)' => phase[m] = "rel"
      /\ \A m : OnWire(c, "publish", m)' => phase[m] = "sent"
  BY <1>4, <1>5, <1>6 DEF OnWire, Carries
<1>8. Distinct(wire'[c])
  <2> SUFFICES ASSUME NEW i \in 1..n, NEW j \in 1..n, w[i].msg = w[j].msg, i # j PROVE FALSE
    BY <1>4, <1>6 DEF Distinct
  <2>1. again[i] = again[j] /\ again[i] \in Nat
    BY <1>0, <1>5
  <2>2. (i < j => again[i] < again[j]) /\ (j < i => again[j] < again[i])
    BY <1>2 DEF IsResend
  <2> QED
    BY <1>1, <2>1, <2>2
<1>9. Elsewhere(c) /\ pc'[c] # "idle"
  BY <1>0, <1>3, <1>6 DEF Elsewhere
<1>10. \A m \in Msgs : ~Handling(c, m)' /\ ~Releasing(c, m)'
  BY <1>3 DEF Handling, Releasing
<1>11. BegunAt(c)' /\ SentOnceAt(c)'
  BY <1>3, <1>7, <1>8, <1>10 DEF BegunAt, SentOnceAt
<1>12. Forward(c) /\ Open' = Open
  BY <1>3, StillForward
<1>13. RowBegun'
  BY <1>3 DEF RowBegun, ClientInv
<1> QED
  BY <1>3, <1>9, <1>11, <1>12, <1>13, SocketStep, OpenStep DEF ClientInv

LEMMA SendStep ==
    ASSUME IInv, IInv', ClientInv, NEW c \in Conns, NEW m \in Msgs, Send(c, m)
    PROVE  ClientInv'
<1>0. /\ hnd \in [Conns -> Handler] /\ wire \in [Conns -> Seq(Packet)] /\ wire[c] \in Seq(Packet)
      /\ phase \in [Msgs -> {"new", "sent", "rel", "done"}] /\ qos[m] \in 0..2
      /\ UNCHANGED <<hnd, counter, pc, cut, qos, dedup, stray>> /\ Using(c) /\ phase[m] = "new"
  BY MsgsAssumption DEF IInv, TypeOK, Send, tableVars, connVars, ghostVars
<1>1. /\ \A l \in Msgs \ {m} : phase'[l] = phase[l]
      /\ phase'[m] = IF qos[m] = 0 THEN "done" ELSE "sent"
  BY <1>0 DEF Send
<1>2. Forward(c)
  BY <1>0, <1>1 DEF Forward
<1> DEFINE k == Pk("publish", m, FALSE)
<1>3. k \in Packet /\ k.type = "publish" /\ k.msg = m
  BY DEF Pk, Packet
<1>4. wire'[c] = Append(wire[c], k) /\ \A d \in Conns \ {c} : wire'[d] = wire[d]
  BY <1>0 DEF Send
<1> HIDE DEF k
<1>5. BegunAt(c) /\ SentOnceAt(c)
  BY DEF ClientInv
<1>6. ~OnWire(c, "publish", m) /\ ~OnWire(c, "pubrel", m) /\ ~Handling(c, m) /\ ~Releasing(c, m)
  BY <1>0, <1>5 DEF BegunAt
<1>7. /\ \A t, l : Carries(wire'[c], t, l) <=> Carries(wire[c], t, l) \/ (k.type = t /\ k.msg = l)
      /\ Distinct(wire'[c])
  BY <1>0, <1>3, <1>4, <1>5, <1>6, CarriesAppend DEF SentOnceAt, OnWire
<1>8. /\ \A l : OnWire(c, "publish", l)' <=> OnWire(c, "publish", l) \/ l = m
      /\ \A l : OnWire(c, "pubrel", l)' <=> OnWire(c, "pubrel", l)
  BY <1>3, <1>7 DEF OnWire
<1>9. \A l \in Msgs : (Handling(c, l)' <=> Handling(c, l)) /\ (Releasing(c, l)' <=> Releasing(c, l))
  BY <1>0 DEF Handling, Releasing
<1>10. SentOnceAt(c)'
  BY <1>5, <1>6, <1>7, <1>8, <1>9 DEF SentOnceAt
<1>11. BegunAt(c)'
  <2>1. Using(c)' <=> Using(c)
    BY <1>0 DEF Using
  <2> QED
    BY <1>0, <1>1, <1>5, <1>6, <1>8, <1>9, <2>1 DEF BegunAt
<1>12. Elsewhere(c) /\ pc'[c] # "idle"
  BY <1>0, <1>4 DEF Elsewhere, Using
<1>13. RowBegun'
  BY <1>0, <1>2, RowStep
<1>14. OpenUnique' /\ OpenBounded'
  <2>1. CASE qos[m] = 0
    <3>1. Open' \subseteq Open
      BY <1>0, <1>1, <2>1 DEF Open
    <3> QED
      BY <3>1, OpenStep
  <2>2. CASE qos[m] # 0
    <3>1. /\ Cardinality(Open) < ReceiveMax
          /\ \A o \in Open : PacketID[o] # PacketID[m]
      BY <1>0, <2>2 DEF Send
    <3>2. Open' = Open \cup {m} /\ m \notin Open
      BY <1>0, <1>1, <2>2 DEF Open
    <3>3. OpenUnique'
      BY <3>1, <3>2 DEF OpenUnique, ClientInv
    <3>4. IsFiniteSet(Open) /\ Cardinality(Open) \in Nat
      BY FS_Subset, FS_CardinalityType, MsgsAssumption DEF Open
    <3>5. Cardinality(Open') = Cardinality(Open) + 1
      BY <3>2, <3>4, FS_AddElement
    <3> QED
      BY <3>1, <3>3, <3>4, <3>5, BoundsNat DEF OpenBounded
  <2> QED
    BY <2>1, <2>2
<1> QED
  BY <1>0, <1>2, <1>10, <1>11, <1>12, <1>13, <1>14, SocketStep DEF ClientInv
\* A packet is read: the handler begins with it.
LEMMA BeginStep ==
    ASSUME IInv, ClientInv, NEW c \in Conns, pc[c] = "up", hnd[c].at = "none", wire[c] # << >>,
           wire' = [wire EXCEPT ![c] = Tail(@)], UNCHANGED <<pc, cut, phase, qos, dedup, stray>>,
           \A d \in Conns \ {c} : counter'[d] = counter[d],
           NEW h, h.msg = FirstOf(c).msg, hnd' = [hnd EXCEPT ![c] = h],
           \/ FirstOf(c).type = "publish" /\ h.at = "begin"
           \/ FirstOf(c).type = "pubrel" /\ h.at = "pubrel"
    PROVE  ClientInv'
<1>0. hnd \in [Conns -> Handler]
  BY DEF IInv, TypeOK
<1>1. /\ FirstOf(c).msg \in Msgs /\ OnWire(c, FirstOf(c).type, FirstOf(c).msg)
      /\ \A d \in Conns \ {c} : wire'[d] = wire[d]
      /\ \A t, m : OnWire(c, t, m)' => OnWire(c, t, m)
      /\ Distinct(wire'[c])
      /\ \A m : FirstOf(c).type = "publish" /\ FirstOf(c).msg = m => ~OnWire(c, "publish", m)'
  BY ReadStep
<1>2. hnd'[c] = h /\ \A d \in Conns \ {c} : hnd'[d] = hnd[d]
  BY <1>0
<1>3. BegunAt(c) /\ SentOnceAt(c)
  BY DEF ClientInv
<1>4. \A m \in Msgs : /\ Handling(c, m)' => FirstOf(c).type = "publish" /\ FirstOf(c).msg = m
                      /\ Releasing(c, m)' => FirstOf(c).type = "pubrel" /\ FirstOf(c).msg = m
  BY <1>2 DEF Handling, Releasing
<1>5. Using(c)' <=> Using(c)
  BY DEF Using
<1>6. BegunAt(c)'
  BY <1>1, <1>3, <1>4, <1>5 DEF BegunAt
<1>7. SentOnceAt(c)'
  BY <1>1, <1>4 DEF SentOnceAt
<1>8. Elsewhere(c) /\ pc'[c] # "idle"
  BY <1>1, <1>2 DEF Elsewhere
<1>9. Forward(c) /\ Open' = Open
  BY StillForward
<1>10. RowBegun'
  BY DEF RowBegun, ClientInv
<1> QED
  BY <1>5, <1>6, <1>7, <1>8, <1>9, <1>10, SocketStep, OpenStep DEF ClientInv

\* The handler of a PUBLISH goes on with its transaction.
LEMMA WorkStep ==
    ASSUME IInv, ClientInv, NEW c \in Conns, hnd[c].at \in {"begin", "query"},
           UNCHANGED <<pc, cut, phase, qos, dedup, stray, wire, counter>>,
           hnd'[c].msg = hnd[c].msg, hnd'[c].at \in {"query", "commit"},
           \A d \in Conns \ {c} : hnd'[d] = hnd[d]
    PROVE  ClientInv'
<1>2. \A m \in Msgs : (Handling(c, m)' <=> Handling(c, m)) /\ ~Releasing(c, m)'
  BY DEF Handling, Releasing
<1>3. \A t, m : OnWire(c, t, m)' <=> OnWire(c, t, m)
  BY DEF OnWire
<1>4. Using(c)' <=> Using(c)
  BY DEF Using
<1>5. BegunAt(c)' /\ SentOnceAt(c)'
  BY <1>2, <1>3, <1>4 DEF BegunAt, SentOnceAt, ClientInv
<1>6. Elsewhere(c) /\ pc'[c] # "idle"
  BY DEF Elsewhere, ClientInv, Sockets
<1>7. Forward(c) /\ Open' = Open
  BY StillForward
<1>8. RowBegun'
  BY DEF RowBegun, ClientInv
<1> QED
  BY <1>4, <1>5, <1>6, <1>7, <1>8, SocketStep, OpenStep DEF ClientInv

\* The handler ends with a reply.
LEMMA EndStep ==
    ASSUME IInv, ClientInv, NEW c \in Conns, hnd[c].at # "none", NEW m \in Msgs, m = hnd[c].msg,
           NEW type \in {"puback", "pubrec", "pubcomp"}, Reply(c, type, m),
           type = "pubcomp" => hnd[c].at = "pubrel",
           type # "pubcomp" => hnd[c].at \in {"begin", "query", "commit"} /\ qos[m] > 0,
           UNCHANGED <<pc, cut, qos>>, hnd' = [hnd EXCEPT ![c] = Idle],
           \A d \in Conns \ {c} : counter'[d] = counter[d]
    PROVE  /\ Sockets' /\ (\A d \in Conns : BegunAt(d)' /\ SentOnceAt(d)') /\ OpenUnique' /\ OpenBounded'
           /\ Forward(c) /\ Elsewhere(c)
           /\ \A l \in Msgs \ {m} : phase'[l] = phase[l]
           /\ Using(c) /\ type = "pubrec" => phase'[m] = "rel"
           /\ Using(c) /\ type # "pubrec" => phase'[m] = "done"
           /\ ~Using(c) => phase'[m] = phase[m]
           /\ \A l \in Msgs : ~Handling(c, l)' /\ ~Releasing(c, l)'
           /\ \A l \in Msgs : OnWire(c, "publish", l)' <=> OnWire(c, "publish", l)
           /\ \A l \in Msgs : OnWire(c, "pubrel", l)' => OnWire(c, "pubrel", l) \/ (l = m /\ phase'[m] = "rel")
<1>a. /\ Using(c) /\ type # "pubcomp" => phase[m] = "sent"
      /\ type = "pubcomp" => phase[m] \in {"rel", "done"}
      /\ pc[c] # "idle"
  BY AtHand
<1>0. /\ hnd \in [Conns -> Handler] /\ wire \in [Conns -> Seq(Packet)] /\ phase \in [Msgs -> {"new", "sent", "rel", "done"}]
      /\ wire[c] \in Seq(Packet)
  BY DEF IInv, TypeOK
<1>1. /\ \A l \in Msgs \ {m} : phase'[l] = phase[l]
      /\ Using(c) /\ type = "pubrec" => phase'[m] = "rel"
      /\ Using(c) /\ type # "pubrec" => phase'[m] = "done"
      /\ ~Using(c) => phase'[m] = phase[m]
  BY <1>0 DEF Reply
<1>2. Forward(c) /\ Open' \subseteq Open
  BY <1>0, <1>1, <1>a DEF Forward, Open
<1>3. /\ \A d \in Conns \ {c} : wire'[d] = wire[d] /\ hnd'[d] = hnd[d]
      /\ \A l \in Msgs : ~Handling(c, l)' /\ ~Releasing(c, l)'
  BY <1>0 DEF Reply, Handling, Releasing, Idle
<1>4. \/ wire'[c] = wire[c]
      \/ wire'[c] = Append(wire[c], Pk("pubrel", m, FALSE)) /\ phase'[m] = "rel"
  BY <1>0, <1>1 DEF Reply
<1>5. /\ Pk("pubrel", m, FALSE) \in Packet /\ Pk("pubrel", m, FALSE).type = "pubrel"
      /\ Pk("pubrel", m, FALSE).msg = m
  BY DEF Pk, Packet
<1>6. SentOnceAt(c)
  BY DEF ClientInv
<1>7. /\ \A l \in Msgs : OnWire(c, "publish", l)' <=> OnWire(c, "publish", l)
      /\ \A l \in Msgs : OnWire(c, "pubrel", l)' => OnWire(c, "pubrel", l) \/ (l = m /\ phase'[m] = "rel")
      /\ Distinct(wire'[c])
  <2>1. CASE wire'[c] = wire[c]
    BY <1>6, <2>1 DEF OnWire, SentOnceAt
  <2>2. CASE wire'[c] = Append(wire[c], Pk("pubrel", m, FALSE)) /\ phase'[m] = "rel"
    <3> DEFINE k == Pk("pubrel", m, FALSE)
    <3>1. k \in Packet /\ k.type = "pubrel" /\ k.msg = m /\ wire'[c] = Append(wire[c], k)
      BY <1>5, <2>2
    <3> HIDE DEF k
    <3>2. /\ \A t, l : Carries(Append(wire[c], k), t, l) <=> Carries(wire[c], t, l) \/ (k.type = t /\ k.msg = l)
          /\ Distinct(Append(wire[c], k))
      BY <1>0, <1>6, <3>1, CarriesAppend DEF SentOnceAt
    <3>3. \A l : Carries(wire'[c], "publish", l) <=> Carries(wire[c], "publish", l)
      BY <3>1, <3>2
    <3>4. \A l : Carries(wire'[c], "pubrel", l) => Carries(wire[c], "pubrel", l) \/ l = m
      BY <3>1, <3>2
    <3> QED
      BY <2>2, <3>1, <3>2, <3>3, <3>4 DEF OnWire
  <2> QED
    BY <1>4, <2>1, <2>2
<1>8. BegunAt(c) /\ (Using(c)' <=> Using(c))
  BY DEF ClientInv, Using
<1>9. Using(c) /\ qos[m] > 0 => ~OnWire(c, "publish", m)
  <2>1. CASE type = "pubcomp"
    BY <1>a, <1>8, <2>1 DEF BegunAt
  <2>2. CASE type # "pubcomp"
    BY <2>2, AtHand
  <2> QED
    BY <2>1, <2>2
<1>10. BegunAt(c)'
  BY <1>1, <1>2, <1>3, <1>7, <1>8, <1>9 DEF BegunAt, Forward
<1>11. Elsewhere(c)
  BY <1>3 DEF Elsewhere
<1>12. SentOnceAt(c)'
  BY <1>3, <1>7 DEF SentOnceAt
<1>13. Sockets' /\ (\A d \in Conns : BegunAt(d)' /\ SentOnceAt(d)') /\ OpenUnique' /\ OpenBounded'
  BY <1>a, <1>2, <1>8, <1>10, <1>11, <1>12, SocketStep, OpenStep
<1> QED
  BY <1>1, <1>2, <1>3, <1>7, <1>11, <1>13
\* The rows after a commit or a deletion.
LEMMA CommittedRows ==
    ASSUME IInv, NEW c \in Conns, hnd[c].at = "commit", Committed(c)
    PROVE  /\ \A p \in Pids : \/ dedup'[p] = dedup[p]
                              \/ /\ p = PacketID[hnd[c].msg] /\ qos[hnd[c].msg] = 2
                                 /\ dedup'[p] = hnd[c].msg /\ dedup[p] = None
           /\ fanned'[hnd[c].msg] = fanned[hnd[c].msg] + 1
           /\ \A l \in Msgs \ {hnd[c].msg} : fanned'[l] = fanned[l]
<1>1. /\ dedup \in [Pids -> Msgs \cup {None}] /\ fanned \in [Msgs -> Nat]
      /\ hnd[c].msg \in Msgs /\ PacketID[hnd[c].msg] \in Pids
  BY DEF IInv, TypeOK, Busy, Pids
<1>2. qos[hnd[c].msg] = 2 => dedup[PacketID[hnd[c].msg]] = None
  BY DEF IInv, KeyUnique, Claims
<1> QED
  BY <1>1, <1>2 DEF Committed

LEMMA DeletedRows ==
    ASSUME IInv, NEW p \in Pids, DeleteDedup(p)
    PROVE  dedup'[p] = None /\ \A q \in Pids \ {p} : dedup'[q] = dedup[q]
<1>1. dedup \in [Pids -> Msgs \cup {None}]
  BY DEF IInv, TypeOK
<1> QED
  BY <1>1 DEF DeleteDedup

\* The same for the answer to a PUBLISH.
LEMMA AnswerStep ==
    ASSUME IInv, ClientInv, NEW c \in Conns, hnd[c].at \in {"begin", "commit"}, NEW m \in Msgs,
           m = hnd[c].msg, qos[m] > 0, NEW type \in {"puback", "pubrec"}, Reply(c, type, m),
           UNCHANGED <<pc, cut, qos>>, hnd' = [hnd EXCEPT ![c] = Idle],
           \A d \in Conns \ {c} : counter'[d] = counter[d]
    PROVE  /\ Sockets' /\ (\A d \in Conns : BegunAt(d)' /\ SentOnceAt(d)') /\ OpenUnique' /\ OpenBounded'
           /\ Forward(c)
<1>1. CASE type = "puback"
  <2>1. Reply(c, "puback", m)
    BY <1>1
  <2> QED
    BY <2>1, EndStep
<1>2. CASE type = "pubrec"
  <2>1. Reply(c, "pubrec", m)
    BY <1>2
  <2> QED
    BY <2>1, EndStep
<1> QED
  BY <1>1, <1>2

LEMMA ClientStep ==
    ASSUME IInv, IInv', ClientInv, Next
    PROVE  ClientInv'
<1>0. /\ hnd \in [Conns -> Handler] /\ wire \in [Conns -> Seq(Packet)] /\ pc \in [Conns -> {"idle", "up", "closed"}]
      /\ cut \in [Conns -> BOOLEAN] /\ counter \in [Conns -> Int] /\ dedup \in [Pids -> Msgs \cup {None}]
      /\ \A m \in Msgs : qos[m] \in 0..2
  BY MsgsAssumption DEF IInv, TypeOK
<1>1. ASSUME NEW c \in Conns, Connect(c) PROVE ClientInv'
  BY <1>1, ConnectStep
<1>2. ASSUME NEW c \in Conns, NEW m \in Msgs, Send(c, m) PROVE ClientInv'
  BY <1>2, SendStep
<1>3. ASSUME NEW c \in Conns, Cut(c) PROVE ClientInv'
  <2>1. UNCHANGED <<hnd, wire, pc, counter, phase, qos, dedup, stray>> /\ cut' = [cut EXCEPT ![c] = TRUE]
    BY <1>3 DEF Cut, tableVars, connVars, ghostVars
  <2>2. Elsewhere(c) /\ ~Using(c)' /\ pc'[c] # "idle"
    BY <1>0, <1>3, <2>1 DEF Elsewhere, Using, Cut
  <2>3. /\ \A m \in Msgs : (Handling(c, m)' <=> Handling(c, m)) /\ (Releasing(c, m)' <=> Releasing(c, m))
        /\ \A t, m : OnWire(c, t, m)' <=> OnWire(c, t, m)
    BY <2>1 DEF Handling, Releasing, OnWire
  <2>4. BegunAt(c)' /\ SentOnceAt(c)'
    BY <2>1, <2>2, <2>3 DEF BegunAt, SentOnceAt, ClientInv
  <2>5. Forward(c) /\ Open' = Open
    BY <2>1, StillForward
  <2>6. RowBegun'
    BY <2>1 DEF RowBegun, ClientInv
  <2> QED
    BY <2>2, <2>4, <2>5, <2>6, SocketStep, OpenStep DEF ClientInv
<1>4. ASSUME NEW c \in Conns, Close(c) \/ RefusePublish(c) \/ TxFails(c) PROVE ClientInv'
  <2>1. /\ pc' = [pc EXCEPT ![c] = "closed"] /\ wire' = [wire EXCEPT ![c] = << >>]
        /\ UNCHANGED <<cut, counter, phase, qos, dedup, stray>>
        /\ hnd' = hnd \/ hnd' = [hnd EXCEPT ![c] = Idle]
    BY <1>4 DEF Close, RefusePublish, TxFails, Abort, tableVars, ghostVars
  <2>2. RowBegun'
    BY <2>1 DEF RowBegun, ClientInv
  <2> QED
    BY <2>1, <2>2, ClosedStep DEF ClientInv
<1>5. ASSUME NEW c \in Conns, ReadPublish(c) PROVE ClientInv'
  <2>1. PICK slot \in BOOLEAN :
          hnd' = [hnd EXCEPT ![c] = [Idle EXCEPT !.at = "begin", !.msg = FirstOf(c).msg, !.slot = slot]]
    BY <1>5 DEF ReadPublish
  <2> DEFINE h == [Idle EXCEPT !.at = "begin", !.msg = FirstOf(c).msg, !.slot = slot]
  <2>2. h.msg = FirstOf(c).msg /\ h.at = "begin" /\ hnd' = [hnd EXCEPT ![c] = h]
    BY <2>1 DEF Idle
  <2> HIDE DEF h
  <2>3. /\ pc[c] = "up" /\ hnd[c].at = "none" /\ wire[c] # << >> /\ FirstOf(c).type = "publish"
        /\ wire' = [wire EXCEPT ![c] = Tail(@)] /\ UNCHANGED <<pc, cut, phase, qos, dedup, stray>>
        /\ \A d \in Conns \ {c} : counter'[d] = counter[d]
    BY <1>0, <1>5 DEF ReadPublish, tableVars, ghostVars
  <2> QED
    BY <2>2, <2>3, BeginStep
<1>6. ASSUME NEW c \in Conns, ReadPubrel(c) PROVE ClientInv'
  <2> DEFINE h == [Idle EXCEPT !.at = "pubrel", !.msg = FirstOf(c).msg]
  <2>2. h.msg = FirstOf(c).msg /\ h.at = "pubrel" /\ hnd' = [hnd EXCEPT ![c] = h]
    BY <1>6 DEF ReadPubrel, Idle
  <2> HIDE DEF h
  <2>3. /\ pc[c] = "up" /\ hnd[c].at = "none" /\ wire[c] # << >> /\ FirstOf(c).type = "pubrel"
        /\ wire' = [wire EXCEPT ![c] = Tail(@)] /\ UNCHANGED <<pc, cut, phase, qos, dedup, stray, counter>>
    BY <1>6 DEF ReadPubrel, tableVars, ghostVars
  <2> QED
    BY <2>2, <2>3, BeginStep
<1>7. ASSUME NEW c \in Conns, ClaimDedup(c) PROVE ClientInv'
  <2>1. hnd'[c].msg = hnd[c].msg /\ hnd'[c].at = "query" /\ \A d \in Conns \ {c} : hnd'[d] = hnd[d]
    BY <1>0, <1>7 DEF ClaimDedup, Handler
  <2>2. hnd[c].at = "begin" /\ UNCHANGED <<pc, cut, phase, qos, dedup, stray, wire, counter>>
    BY <1>7 DEF ClaimDedup, tableVars, clientVars, ghostVars
  <2> QED
    BY <2>1, <2>2, WorkStep
<1>8. ASSUME NEW c \in Conns, FanoutQuery(c) PROVE ClientInv'
  <2>2. hnd'[c].msg = hnd[c].msg /\ hnd'[c].at = "commit" /\ \A d \in Conns \ {c} : hnd'[d] = hnd[d]
    BY <1>0, <1>8 DEF FanoutQuery, Handler
  <2>3. hnd[c].at = "query" /\ UNCHANGED <<pc, cut, phase, qos, dedup, stray, wire, counter>>
    BY <1>8 DEF FanoutQuery, tableVars, clientVars, ghostVars
  <2> QED
    BY <2>2, <2>3, WorkStep
<1>9. ASSUME NEW c \in Conns, Duplicate(c) PROVE ClientInv'
  <2>0. PICK m \in Msgs : m = hnd[c].msg
    BY <1>9, AtHand DEF Duplicate
  <2>1. /\ hnd[c].at = "begin" /\ Reply(c, "pubrec", m) /\ qos[m] = 2
        /\ UNCHANGED <<pc, cut, qos, dedup, stray>> /\ hnd' = [hnd EXCEPT ![c] = Idle]
        /\ \A d \in Conns \ {c} : counter'[d] = counter[d]
    BY <1>0, <1>9, <2>0 DEF Duplicate, Finish, tableVars, ghostVars
  <2>2. /\ Sockets' /\ (\A d \in Conns : BegunAt(d)' /\ SentOnceAt(d)') /\ OpenUnique' /\ OpenBounded'
        /\ Forward(c)
    <3>1. PICK type \in {"puback", "pubrec"} : type = "pubrec"
      OBVIOUS
    <3>2. Reply(c, type, m) /\ qos[m] > 0
      BY <2>1, <3>1
    <3> QED
      BY <2>0, <2>1, <3>2, EndStep
  <2>3. RowBegun'
    BY <2>1, <2>2, RowStep
  <2> QED
    BY <2>2, <2>3 DEF ClientInv
<1>10. ASSUME NEW c \in Conns, Commit(c) PROVE ClientInv'
  <2>0. PICK m \in Msgs : m = hnd[c].msg /\ phase[m] # "new" /\ PacketID[m] \in Pids /\ pc[c] # "idle"
    BY <1>10, AtHand DEF Commit
  <2>1. /\ hnd[c].at = "commit" /\ Committed(c)
        /\ UNCHANGED <<pc, cut, qos, stray>> /\ hnd' = [hnd EXCEPT ![c] = Idle]
        /\ \A d \in Conns \ {c} : counter'[d] = counter[d]
    BY <1>0, <1>10 DEF Commit, Finish, Committed
  <2>2. \A p \in Pids : dedup'[p] = dedup[p] \/ dedup'[p] = m
    BY <2>0, <2>1, CommittedRows
  <2>3. CASE qos[m] = 0
    <3>1. UNCHANGED <<phase, wire>>
      BY <1>10, <2>0, <2>3 DEF Commit, NoReply
    <3>2. \A l \in Msgs : ~Handling(c, l)' /\ ~Releasing(c, l)'
      BY <1>0, <2>1 DEF Handling, Releasing, Idle
    <3>3. \A t, l : OnWire(c, t, l)' <=> OnWire(c, t, l)
      BY <3>1 DEF OnWire
    <3>4. Using(c)' <=> Using(c)
      BY <2>1 DEF Using
    <3>5. BegunAt(c)' /\ SentOnceAt(c)'
      BY <2>1, <3>1, <3>2, <3>3, <3>4 DEF BegunAt, SentOnceAt, ClientInv
    <3>6. Elsewhere(c) /\ pc'[c] # "idle"
      BY <1>0, <2>0, <2>1, <3>1 DEF Elsewhere
    <3>7. Forward(c) /\ Open' = Open
      BY <3>1, StillForward
    <3>8. RowBegun'
      BY <2>0, <2>1, <2>2, <3>7, RowStep
    <3> QED
      BY <3>4, <3>5, <3>6, <3>7, <3>8, SocketStep, OpenStep DEF ClientInv
  <2>4. CASE qos[m] # 0
    <3>1. PICK type \in {"puback", "pubrec"} : Reply(c, type, m)
      BY <1>0, <1>10, <2>0, <2>4, CommitReply
    <3>2. /\ Sockets' /\ (\A d \in Conns : BegunAt(d)' /\ SentOnceAt(d)') /\ OpenUnique' /\ OpenBounded'
          /\ Forward(c)
      <4>1. qos[m] > 0
        <5>1. qos[m] = 1 \/ qos[m] = 2
          BY <1>0, <2>4
        <5> QED
          BY <5>1
      <4>2. /\ hnd[c].at = "commit" /\ UNCHANGED <<pc, cut, qos>> /\ hnd' = [hnd EXCEPT ![c] = Idle]
            /\ \A d \in Conns \ {c} : counter'[d] = counter[d]
        BY <2>0, <2>1
      <4>3. m = hnd[c].msg
        BY <2>0
      <4> QED
        BY <3>1, <4>1, <4>2, <4>3, AnswerStep
    <3>3. RowBegun'
      BY <2>0, <2>1, <2>2, <3>2, RowStep
    <3> QED
      BY <3>2, <3>3 DEF ClientInv
  <2> QED
    BY <2>3, <2>4
<1>11. ASSUME NEW c \in Conns, CommitUnknown(c) PROVE ClientInv'
  <2>0. PICK m \in Msgs : m = hnd[c].msg /\ phase[m] # "new" /\ PacketID[m] \in Pids
    BY <1>11, AtHand DEF CommitUnknown
  <2>1. /\ pc' = [pc EXCEPT ![c] = "closed"] /\ wire' = [wire EXCEPT ![c] = << >>]
        /\ UNCHANGED <<cut, counter, phase, qos, stray>>
        /\ hnd' = [hnd EXCEPT ![c] = Idle] /\ hnd[c].at = "commit" /\ Committed(c)
    BY <1>11 DEF CommitUnknown, Abort, Committed
  <2>2. \A p \in Pids : dedup'[p] = dedup[p] \/ dedup'[p] = m
    BY <2>0, <2>1, CommittedRows
  <2>3. Forward(c)
    BY <2>1, StillForward
  <2>4. RowBegun'
    BY <2>0, <2>1, <2>2, <2>3, RowStep
  <2> QED
    BY <2>1, <2>4, ClosedStep DEF ClientInv
<1>12. ASSUME NEW c \in Conns, HandlePubrel(c) PROVE ClientInv'
  <2>0. PICK m \in Msgs : m = hnd[c].msg /\ PacketID[m] \in Pids
    BY <1>12, AtHand DEF HandlePubrel
  <2>1. /\ hnd[c].at = "pubrel" /\ Reply(c, "pubcomp", m) /\ DeleteDedup(PacketID[m]) /\ Strays(PacketID[m], m)
        /\ UNCHANGED <<pc, cut, qos>> /\ hnd' = [hnd EXCEPT ![c] = Idle]
        /\ \A d \in Conns \ {c} : counter'[d] = counter[d]
    BY <1>0, <1>12, <2>0 DEF HandlePubrel
  <2>2. /\ Sockets' /\ (\A d \in Conns : BegunAt(d)' /\ SentOnceAt(d)') /\ OpenUnique' /\ OpenBounded'
        /\ Forward(c)
    BY <2>0, <2>1, EndStep
  <2>3. \A p \in Pids : dedup'[p] = dedup[p] \/ dedup'[p] = None
    BY <2>0, <2>1, DeletedRows
  <2>4. \A l \in stray' : l \in stray \/ (l \in Msgs /\ phase[l] # "new")
    BY <1>0, <2>0, <2>1 DEF Strays, ClientInv, RowBegun
  <2>5. RowBegun'
    BY <2>2, <2>3, <2>4, RowStep
  <2> QED
    BY <2>2, <2>5 DEF ClientInv
<1>13. ASSUME NEW p \in Pids, SweepInboundQoS2(p) PROVE ClientInv'
  <2>1. UNCHANGED <<hnd, wire, pc, counter, phase, qos, cut, stray>> /\ DeleteDedup(p)
    BY <1>13 DEF SweepInboundQoS2, connVars, clientVars
  <2>2. \A q \in Pids : dedup'[q] = dedup[q] \/ dedup'[q] = None
    BY <2>1, DeletedRows
  <2>3. PICK c \in Conns : TRUE
    BY PartyAssumption
  <2>4. RowBegun'
    BY <2>1, <2>2, <2>3, RowStep, StillForward
  <2> QED
    BY <2>1, <2>4 DEF ClientInv, Sockets, BegunAt, SentOnceAt, OpenUnique, OpenBounded, Open, OnWire, Handling, Releasing, Using
<1>14. ASSUME NEW cl \in Clients, Toggle(cl) \/ \E q \in 0..2 : Drain(cl, q) PROVE ClientInv'
  <2>1. UNCHANGED <<hnd, wire, pc, counter, phase, qos, cut, stray, dedup>>
    BY <1>14 DEF Toggle, Drain, connVars, clientVars, ghostVars
  <2> QED
    BY <2>1 DEF ClientInv, Sockets, BegunAt, SentOnceAt, OpenUnique, OpenBounded, RowBegun, Open, OnWire, Handling, Releasing, Using
<1> QED
  BY <1>1, <1>2, <1>3, <1>4, <1>5, <1>6, <1>7, <1>8, <1>9, <1>10, <1>11, <1>12, <1>13, <1>14 DEF Next
-----------------------------------------------------------------------------
(* A message that was acknowledged was fanned out.                         *)

LEMMA TwiceStep ==
    ASSUME IInv, IInv', NEW c \in Conns, Forward(c), \A m \in Msgs : fanned'[m] >= fanned[m], NEW p
    PROVE  Twice(p) => Twice(p)'
<1>1. \A m \in Msgs : fanned[m] \in Nat /\ fanned'[m] \in Nat
  BY DEF IInv, TypeOK
<1> SUFFICES ASSUME NEW k \in Msgs, PacketID[k] = p, phase[k] = "done", fanned[k] > 1
             PROVE  phase'[k] = "done" /\ fanned'[k] > 1
  BY DEF Twice
<1> QED
  BY <1>1 DEF Forward

\* A step that acknowledges only what was fanned out, and leaves no row of a message that is done.
LEMMA AckFrame ==
    ASSUME IInv, IInv', AckInv, NEW c \in Conns, Forward(c), qos' = qos, \A m \in Msgs : fanned'[m] >= fanned[m],
           \A m \in Msgs : qos[m] > 0 /\ phase'[m] \in {"rel", "done"} /\ fanned'[m] = 0 =>
               phase[m] \in {"rel", "done"} \/ Twice(PacketID[m]),
           \A p \in Pids : dedup'[p] # None /\ phase'[dedup'[p]] = "done" =>
               (dedup'[p] = dedup[p] /\ phase[dedup[p]] = "done") \/ Twice(p) \/ Twice(p)'
    PROVE  AckInv'
<1>1. \A p : Twice(p) => Twice(p)'
  BY TwiceStep
<1>2. \A m \in Msgs : fanned[m] \in Nat /\ fanned'[m] \in Nat
  BY DEF IInv, TypeOK
<1>3. \A m \in Msgs : fanned'[m] = 0 => fanned[m] = 0
  BY <1>2
<1>4. ASSUME NEW m \in Msgs, qos'[m] > 0, phase'[m] \in {"rel", "done"}, fanned'[m] = 0 PROVE Twice(PacketID[m])'
  <2>1. phase[m] \in {"rel", "done"} \/ Twice(PacketID[m])
    BY <1>4
  <2>2. Twice(PacketID[m])
    BY <1>3, <1>4, <2>1 DEF AckInv
  <2> QED
    BY <1>1, <2>2
<1>5. ASSUME NEW p \in Pids, dedup'[p] # None, phase'[dedup'[p]] = "done" PROVE Twice(p)'
  <2>1. (dedup'[p] = dedup[p] /\ phase[dedup[p]] = "done") \/ Twice(p) \/ Twice(p)'
    BY <1>5
  <2>2. Twice(p) \/ Twice(p)'
    BY <1>5, <2>1 DEF AckInv
  <2> QED
    BY <1>1, <2>2
<1> QED
  BY <1>4, <1>5 DEF AckInv

LEMMA AckCommit ==
    ASSUME IInv, IInv', ClientInv, AckInv, NEW c \in Conns, hnd[c].at = "commit", Committed(c), Forward(c),
           \A l \in Msgs \ {hnd[c].msg} : phase'[l] = phase[l],
           qos[hnd[c].msg] = 2 /\ phase'[hnd[c].msg] = "done" => phase[hnd[c].msg] = "done"
    PROVE  AckInv'
<1>0. PICK m \in Msgs : m = hnd[c].msg
  BY AtHand
<1>1. /\ \A p \in Pids : \/ dedup'[p] = dedup[p]
                         \/ /\ p = PacketID[m] /\ qos[m] = 2
                            /\ dedup'[p] = m /\ dedup[p] = None
      /\ fanned'[m] = fanned[m] + 1
      /\ \A l \in Msgs \ {m} : fanned'[l] = fanned[l]
  BY <1>0, CommittedRows
<1>2. \A l \in Msgs : fanned[l] \in Nat
  BY DEF IInv, TypeOK
<1>3. qos' = qos /\ (\A l \in Msgs : fanned'[l] >= fanned[l]) /\ fanned'[m] # 0
  BY <1>1, <1>2 DEF Committed
<1>4. ASSUME NEW p \in Pids, dedup'[p] # None, phase'[dedup'[p]] = "done"
      PROVE  (dedup'[p] = dedup[p] /\ phase[dedup[p]] = "done") \/ Twice(p) \/ Twice(p)'
  <2>1. dedup[p] # None => dedup[p] \in Msgs /\ qos[dedup[p]] = 2
    BY DEF IInv, TypeOK
  <2>2. CASE dedup'[p] = dedup[p]
    BY <1>0, <1>4, <2>1, <2>2
  <2>3. CASE p = PacketID[m] /\ qos[m] = 2 /\ dedup'[p] = m
    <3>1. phase[m] = "done"
      BY <1>0, <1>4, <2>3
    <3>2. CASE fanned[m] = 0
      BY <2>3, <3>1, <3>2 DEF AckInv
    <3>3. CASE fanned[m] # 0
      <4>1. fanned'[m] > 1
        BY <1>1, <1>2, <3>3
      <4> QED
        BY <1>4, <2>3, <4>1 DEF Twice
    <3> QED
      BY <3>2, <3>3
  <2> QED
    BY <1>1, <2>2, <2>3
<1>5. \A l \in Msgs : phase'[l] \in {"rel", "done"} /\ fanned'[l] = 0 => phase[l] \in {"rel", "done"}
  BY <1>0, <1>3
<1> QED
  BY <1>3, <1>4, <1>5, AckFrame

LEMMA AckStep ==
    ASSUME IInv, IInv', ClientInv, ClientInv', AckInv, Next
    PROVE  AckInv'
<1>0. /\ hnd \in [Conns -> Handler] /\ dedup \in [Pids -> Msgs \cup {None}] /\ counter \in [Conns -> Int]
      /\ \A p \in Pids : dedup[p] # None => dedup[p] \in Msgs /\ PacketID[dedup[p]] = p /\ qos[dedup[p]] = 2
      /\ \A m \in Msgs : fanned[m] \in Nat /\ freed[m] \in Nat /\ qos[m] \in 0..2 /\ PacketID[m] \in Pids
      /\ phase \in [Msgs -> {"new", "sent", "rel", "done"}]
  <2>1. /\ hnd \in [Conns -> Handler] /\ dedup \in [Pids -> Msgs \cup {None}] /\ counter \in [Conns -> Int]
        /\ \A p \in Pids : dedup[p] # None => PacketID[dedup[p]] = p /\ qos[dedup[p]] = 2
        /\ fanned \in [Msgs -> Nat] /\ freed \in [Msgs -> Nat] /\ qos \in [Msgs -> 0..2]
        /\ phase \in [Msgs -> {"new", "sent", "rel", "done"}]
    BY MsgsAssumption DEF IInv, TypeOK
  <2>2. \A m \in Msgs : PacketID[m] \in Pids
    BY DEF Pids
  <2> QED
    BY <2>1, <2>2
<1>1. ASSUME UNCHANGED <<phase, fanned, qos>>, \A p \in Pids : dedup'[p] = dedup[p] \/ dedup'[p] = None
      PROVE  AckInv'
  <2>1. PICK c \in Conns : TRUE
    BY PartyAssumption
  <2>2. Forward(c) /\ \A m \in Msgs : fanned'[m] >= fanned[m]
    BY <1>0, <1>1, StillForward
  <2> QED
    BY <1>1, <2>2, AckFrame
<1>2. ASSUME NEW c \in Conns, Connect(c) \/ Cut(c) \/ Close(c) PROVE AckInv'
  BY <1>1, <1>2 DEF Connect, Cut, Close, tableVars, ghostVars
<1>3. ASSUME NEW c \in Conns, ReadPublish(c) \/ RefusePublish(c) \/ ReadPubrel(c) PROVE AckInv'
  <2>1. UNCHANGED <<phase, fanned, qos, dedup>>
    BY <1>3 DEF ReadPublish, RefusePublish, ReadPubrel, tableVars, ghostVars
  <2> QED
    BY <1>1, <2>1
<1>4. ASSUME NEW c \in Conns, ClaimDedup(c) \/ FanoutQuery(c) \/ TxFails(c) PROVE AckInv'
  <2>1. UNCHANGED <<phase, fanned, qos, dedup>>
    BY <1>4 DEF ClaimDedup, FanoutQuery, TxFails, Abort, tableVars, ghostVars, clientVars
  <2> QED
    BY <1>1, <2>1
<1>5. ASSUME NEW c \in Conns, NEW m \in Msgs, Send(c, m) PROVE AckInv'
  <2>1. /\ UNCHANGED <<fanned, qos, dedup>> /\ phase[m] = "new" /\ Using(c)
        /\ \A l \in Msgs \ {m} : phase'[l] = phase[l]
        /\ phase'[m] = IF qos[m] = 0 THEN "done" ELSE "sent"
    BY <1>0, <1>5 DEF Send, tableVars, ghostVars
  <2>2. Forward(c) /\ \A l \in Msgs : fanned'[l] >= fanned[l]
    BY <1>0, <2>1 DEF Forward
  <2>3. \A p \in Pids : dedup[p] # None => dedup[p] # m
    BY <2>1 DEF ClientInv, RowBegun
  <2>4. \A l \in Msgs : qos[l] > 0 /\ phase'[l] \in {"rel", "done"} => phase[l] \in {"rel", "done"}
    BY <1>0, <2>1
  <2>5. \A p \in Pids : dedup'[p] # None /\ phase'[dedup'[p]] = "done" =>
             (dedup'[p] = dedup[p] /\ phase[dedup[p]] = "done")
    BY <1>0, <2>1, <2>3
  <2> QED
    BY <2>1, <2>2, <2>4, <2>5, AckFrame
<1>6. ASSUME NEW c \in Conns, Duplicate(c) PROVE AckInv'
  <2>0. PICK m \in Msgs : m = hnd[c].msg
    BY <1>6, AtHand DEF Duplicate
  <2>1. /\ hnd[c].at = "begin" /\ Reply(c, "pubrec", m) /\ qos[m] = 2 /\ dedup[PacketID[m]] # None
        /\ UNCHANGED <<qos, dedup, fanned>>
    BY <1>0, <1>6, <2>0 DEF Duplicate, tableVars, ghostVars
  <2>2. /\ \A l \in Msgs \ {m} : phase'[l] = phase[l]
        /\ Using(c) => phase'[m] = "rel"
        /\ ~Using(c) => phase'[m] = phase[m]
    BY <1>0, <2>1 DEF Reply
  <2>3. Using(c) => phase[m] = "sent"
    <3>1. hnd[c].at # "none" /\ hnd[c].at \in {"begin", "query", "commit"} /\ qos[hnd[c].msg] > 0
      BY <2>0, <2>1
    <3> QED
      BY <2>0, <3>1, AtHand
  <2>4. Forward(c) /\ \A l \in Msgs : fanned'[l] >= fanned[l]
    BY <1>0, <2>1, <2>2, <2>3 DEF Forward
  <2>5. ASSUME Using(c), fanned[m] = 0 PROVE Twice(PacketID[m])
    <3>1. PICK k \in Msgs : k = dedup[PacketID[m]]
      BY <1>0, <2>1
    <3>2. k # m
      BY <1>0, <2>1, <2>5, <3>1 DEF IInv, DedupMatchesFanout
    <3>3. PacketID[k] = PacketID[m] /\ phase[k] # "new"
      BY <1>0, <2>1, <3>1 DEF ClientInv, RowBegun
    <3>4. k \notin Open
      BY <2>3, <2>5, <3>2, <3>3 DEF ClientInv, OpenUnique, Open
    <3>5. phase[k] = "done"
      BY <1>0, <3>3, <3>4 DEF Open
    <3> QED
      BY <1>0, <2>1, <3>1, <3>5 DEF AckInv
  <2>6. \A l \in Msgs : phase'[l] \in {"rel", "done"} /\ fanned'[l] = 0 =>
            phase[l] \in {"rel", "done"} \/ Twice(PacketID[l])
    BY <2>1, <2>2, <2>5
  <2>7. \A p \in Pids : dedup'[p] # None /\ phase'[dedup'[p]] = "done" =>
             (dedup'[p] = dedup[p] /\ phase[dedup[p]] = "done")
    BY <1>0, <2>1, <2>2
  <2> QED
    BY <2>1, <2>4, <2>6, <2>7, AckFrame
<1>7. ASSUME NEW c \in Conns, Commit(c) PROVE AckInv'
  <2>0. PICK m \in Msgs : m = hnd[c].msg
    BY <1>7, AtHand DEF Commit
  <2>1. hnd[c].at = "commit" /\ Committed(c)
    BY <1>7 DEF Commit
  <2>2. CASE qos[m] = 0
    <3>1. UNCHANGED phase
      BY <1>7, <2>0, <2>2 DEF Commit, NoReply
    <3> QED
      BY <2>1, <3>1, StillForward, AckCommit
  <2>3. CASE qos[m] # 0
    <3>1. qos[m] \in 0..2 /\ (qos[m] = 1 \/ qos[m] = 2)
      BY <1>0, <2>3
    <3>2. /\ qos[m] = 1 => Reply(c, "puback", m)
          /\ qos[m] = 2 => Reply(c, "pubrec", m)
      BY <1>7, <2>0, <2>3, <3>1, CommitReply
    <3>3. /\ \A l \in Msgs \ {m} : phase'[l] = phase[l]
          /\ ~Using(c) => phase'[m] = phase[m]
          /\ Using(c) => phase'[m] \in {"rel", "done"}
          /\ Using(c) /\ qos[m] = 2 => phase'[m] = "rel"
      <4>1. CASE qos[m] = 1
        BY <1>0, <3>2, <4>1 DEF Reply
      <4>2. CASE qos[m] = 2
        BY <1>0, <3>2, <4>2 DEF Reply
      <4> QED
        BY <3>1, <4>1, <4>2
    <3>4. Using(c) => phase[m] = "sent"
      <4>1. hnd[c].at # "none" /\ hnd[c].at \in {"begin", "query", "commit"}
        BY <2>1
      <4>2. qos[hnd[c].msg] > 0
        BY <2>0, <3>1
      <4> QED
        BY <2>0, <4>1, <4>2, AtHand
    <3>5. Forward(c)
      BY <1>0, <3>3, <3>4 DEF Forward
    <3> QED
      BY <2>0, <2>1, <3>3, <3>5, AckCommit
  <2> QED
    BY <2>2, <2>3
<1>8. ASSUME NEW c \in Conns, CommitUnknown(c) PROVE AckInv'
  <2>1. hnd[c].at = "commit" /\ Committed(c) /\ UNCHANGED phase
    BY <1>8 DEF CommitUnknown, Abort
  <2> QED
    BY <2>1, StillForward, AckCommit
<1>9. ASSUME NEW c \in Conns, HandlePubrel(c) PROVE AckInv'
  <2>0. PICK m \in Msgs : m = hnd[c].msg /\ phase[m] \in {"rel", "done"}
    BY <1>9, AtHand DEF HandlePubrel
  <2>1. Reply(c, "pubcomp", m) /\ DeleteDedup(PacketID[m]) /\ UNCHANGED <<qos, fanned>>
    BY <1>9, <2>0 DEF HandlePubrel
  <2>2. /\ \A l \in Msgs \ {m} : phase'[l] = phase[l]
        /\ phase'[m] = "done" \/ phase'[m] = phase[m]
        /\ phase'[m] = phase[m] \/ Using(c)
    BY <1>0, <2>1 DEF Reply
  <2>3. Forward(c) /\ \A l \in Msgs : fanned'[l] >= fanned[l]
    BY <1>0, <2>0, <2>1, <2>2 DEF Forward
  <2>4. dedup'[PacketID[m]] = None /\ \A q \in Pids \ {PacketID[m]} : dedup'[q] = dedup[q]
    BY <1>0, <2>1, DeletedRows
  <2>5. \A l \in Msgs : phase'[l] \in {"rel", "done"} => phase[l] \in {"rel", "done"}
    BY <2>0, <2>2
  <2>6. \A q \in Pids : dedup'[q] # None /\ phase'[dedup'[q]] = "done" =>
             (dedup'[q] = dedup[q] /\ phase[dedup[q]] = "done")
    BY <1>0, <2>2, <2>4
  <2> QED
    BY <2>1, <2>3, <2>5, <2>6, AckFrame
<1>10. ASSUME NEW p \in Pids, SweepInboundQoS2(p) PROVE AckInv'
  <2>1. UNCHANGED <<phase, qos, fanned>> /\ DeleteDedup(p)
    BY <1>10 DEF SweepInboundQoS2, clientVars
  <2> QED
    BY <1>1, <2>1, DeletedRows
<1>11. ASSUME NEW cl \in Clients, Toggle(cl) \/ \E q \in 0..2 : Drain(cl, q) PROVE AckInv'
  <2>1. UNCHANGED <<phase, fanned, qos, dedup>>
    BY <1>11 DEF Toggle, Drain, clientVars, ghostVars
  <2> QED
    BY <1>1, <2>1
<1> QED
  BY <1>2, <1>3, <1>4, <1>5, <1>6, <1>7, <1>8, <1>9, <1>10, <1>11 DEF Next

LEMMA ClientInit == Init => ClientInv /\ AckInv
<1> SUFFICES ASSUME Init PROVE ClientInv /\ AckInv
  OBVIOUS
<1>1. Open = {}
  BY DEF Init, Open
<1>2. \A c \in Conns : wire[c] = << >> /\ hnd[c].at = "none" /\ pc[c] = "idle" /\ counter[c] = 0
  BY DEF Init, Idle
<1>3. Sockets
  BY <1>2 DEF Sockets, Using
<1>4. OpenUnique /\ OpenBounded
  <2>1. Cardinality({}) = 0
    BY FS_EmptySet
  <2>2. Cardinality(Open) = 0
    BY <1>1, <2>1, Zenon
  <2>3. 0 <= ReceiveMax
    BY BoundsNat
  <2>4. OpenUnique
    BY <1>1 DEF OpenUnique
  <2> QED
    BY <2>2, <2>3, <2>4 DEF OpenBounded
<1>5. RowBegun
  BY DEF RowBegun, Init
<1>6. \A c \in Conns : BegunAt(c) /\ SentOnceAt(c)
  BY <1>2, CarriesNothing DEF BegunAt, SentOnceAt, OnWire, Handling, Releasing
<1>7. AckInv
  BY DEF AckInv, Init
<1> QED
  BY <1>3, <1>4, <1>5, <1>6, <1>7 DEF ClientInv

\* A stuttering step changes nothing these invariants speak of.
LEMMA ClientStutter ==
    ASSUME UNCHANGED vars
    PROVE  (ClientInv => ClientInv') /\ (AckInv => AckInv')
<1>1. UNCHANGED <<hnd, wire, pc, counter, phase, qos, cut, stray, dedup, fanned>>
  BY DEF vars, tableVars, connVars, clientVars, ghostVars
<1>2. ClientInv => ClientInv'
  BY <1>1 DEF ClientInv, Sockets, BegunAt, SentOnceAt, OpenUnique, OpenBounded, RowBegun, Open, OnWire, Handling, Releasing, Using
<1>3. AckInv => AckInv'
  BY <1>1 DEF AckInv, Twice
<1> QED
  BY <1>2, <1>3

LEMMA AckEstablishes == IInv /\ AckInv => AcknowledgedWasFannedOut
<1> SUFFICES ASSUME IInv, AckInv, NEW m \in Msgs, qos[m] > 0, phase[m] \in {"rel", "done"}, fanned[m] = 0
             PROVE  \E l \in Msgs \ {m} : PacketID[l] = PacketID[m] /\ fanned[l] > 1
  BY DEF AcknowledgedWasFannedOut
<1>1. PICK k \in Msgs : PacketID[k] = PacketID[m] /\ fanned[k] > 1
  BY DEF AckInv, Twice
<1>2. k # m
  BY <1>1
<1> QED
  BY <1>1, <1>2

\* An acknowledged message has been fanned out (publish.go:226-264, conn.go:961-998): PUBACK and
\* PUBREC follow the commit, and a retransmission is answered from a row whose message was fanned
\* out.  The exception in the property is a row that an old socket left behind.
THEOREM AcknowledgedWasAlwaysFannedOut == Spec => []AcknowledgedWasFannedOut
<1>1. Init => IInv /\ ClientInv /\ AckInv
  BY InitInv, ClientInit
<1>2. (IInv /\ ClientInv /\ AckInv) /\ [Next]_vars => (IInv /\ ClientInv /\ AckInv)'
  <2> SUFFICES ASSUME IInv, ClientInv, AckInv, [Next]_vars PROVE (IInv /\ ClientInv /\ AckInv)'
    OBVIOUS
  <2>1. IInv'
    BY NextInv
  <2>2. CASE Next
    BY <2>1, <2>2, ClientStep, AckStep
  <2>3. CASE UNCHANGED vars
    BY <2>1, <2>3, ClientStutter
  <2> QED
    BY <2>2, <2>3
<1>3. IInv /\ AckInv => AcknowledgedWasFannedOut
  BY AckEstablishes
<1> QED
  BY <1>1, <1>2, <1>3, PTL DEF Spec
-----------------------------------------------------------------------------
(* The slots of Receive Maximum.                                           *)

LEMMA MsgSets ==
    ASSUME NEW S \in SUBSET Msgs
    PROVE  IsFiniteSet(S) /\ Cardinality(S) \in Nat
  BY FS_Subset, FS_CardinalityType, MsgsAssumption

LEMMA FewerMsgs ==
    ASSUME NEW S \in SUBSET Msgs, NEW T \in SUBSET Msgs
    PROVE  /\ S \subseteq T => Cardinality(S) <= Cardinality(T)
           /\ \A x : S \ {x} \subseteq T => Cardinality(S) <= Cardinality(T) + 1
           /\ \A x \in T : S \subseteq T /\ x \notin S => Cardinality(S) + 1 <= Cardinality(T)
           /\ Cardinality(S \cup T) <= Cardinality(S) + Cardinality(T)
           /\ S \cap T = {} => Cardinality(S \cup T) = Cardinality(S) + Cardinality(T)
<1>1. /\ IsFiniteSet(S) /\ Cardinality(S) \in Nat /\ IsFiniteSet(T) /\ Cardinality(T) \in Nat
  BY MsgSets
<1>2. \A A : IsFiniteSet(A) => \A B \in SUBSET A : IsFiniteSet(B) /\ Cardinality(B) <= Cardinality(A)
  BY FS_Subset
<1>3. S \subseteq T => Cardinality(S) <= Cardinality(T)
  BY <1>1, <1>2
<1>4. ASSUME NEW x, S \ {x} \subseteq T PROVE Cardinality(S) <= Cardinality(T) + 1
  <2>1. IsFiniteSet(S \ {x}) /\ Cardinality(S \ {x}) <= Cardinality(T)
    BY <1>1, <1>2, <1>4
  <2>2. Cardinality(S \ {x}) = IF x \in S THEN Cardinality(S) - 1 ELSE Cardinality(S)
    BY <1>1, FS_RemoveElement
  <2> QED
    BY <1>1, <2>1, <2>2
<1>5. ASSUME NEW x \in T, S \subseteq T, x \notin S PROVE Cardinality(S) + 1 <= Cardinality(T)
  <2>1. Cardinality(S \cup {x}) = Cardinality(S) + 1
    BY <1>1, <1>5, FS_AddElement
  <2>2. S \cup {x} \subseteq T
    BY <1>5
  <2>3. Cardinality(S \cup {x}) <= Cardinality(T)
    BY <1>1, <1>2, <2>2
  <2> QED
    BY <2>1, <2>3
<1>6. Cardinality(S \cup T) = Cardinality(S) + Cardinality(T) - Cardinality(S \cap T)
  BY <1>1, FS_Union
<1>7. Cardinality(S \cap T) \in Nat /\ (S \cap T = {} => Cardinality(S \cap T) = 0)
  <2>1. S \cap T \in SUBSET Msgs
    OBVIOUS
  <2> QED
    BY <2>1, MsgSets, FS_EmptySet
<1> QED
  BY <1>1, <1>3, <1>4, <1>5, <1>6, <1>7

\* The counter of a socket in use follows its slots.
LEMMA SlotCount ==
    ASSUME IInv, IInv', NEW c \in Conns, Using(c), SlotAt(c),
           \/ counter'[c] <= counter[c] /\ Slots(c) \subseteq Slots(c)'
           \/ counter'[c] = counter[c] - 1 /\ \E x : Slots(c) \ {x} \subseteq Slots(c)'
           \/ counter'[c] = counter[c] + 1 /\ Slots(c) \subseteq Slots(c)' /\ \E x \in Slots(c)' : x \notin Slots(c)
    PROVE  counter'[c] <= Cardinality(Slots(c)')
<1>1. counter[c] \in Int /\ counter'[c] \in Int /\ stray \subseteq Msgs /\ stray' \subseteq Msgs
  BY DEF IInv, TypeOK
<1> DEFINE S == Slots(c)
           T == Slots(c)'
<1>2. S \in SUBSET Msgs /\ T \in SUBSET Msgs
  BY <1>1 DEF Slots, Held
<1>3. counter[c] <= Cardinality(S)
  BY DEF SlotAt
<1> HIDE DEF S, T
<1>4. Cardinality(S) \in Nat /\ Cardinality(T) \in Nat
  BY <1>2, MsgSets
<1>5. CASE counter'[c] <= counter[c] /\ S \subseteq T
  <2>1. Cardinality(S) <= Cardinality(T)
    BY <1>2, <1>5, FewerMsgs
  <2> QED
    BY <1>1, <1>3, <1>4, <1>5, <2>1 DEF T
<1>6. CASE counter'[c] = counter[c] - 1 /\ \E x : S \ {x} \subseteq T
  <2>1. Cardinality(S) <= Cardinality(T) + 1
    BY <1>2, <1>6, FewerMsgs
  <2> QED
    BY <1>1, <1>3, <1>4, <1>6, <2>1 DEF T
<1>7. CASE counter'[c] = counter[c] + 1 /\ S \subseteq T /\ \E x \in T : x \notin S
  <2>1. Cardinality(S) + 1 <= Cardinality(T)
    BY <1>2, <1>7, FewerMsgs
  <2> QED
    BY <1>1, <1>3, <1>4, <1>7, <2>1 DEF T
<1> QED
  BY <1>5, <1>6, <1>7 DEF S, T

\* An open socket has room for what is on its wire.
LEMMA Room ==
    ASSUME IInv, ClientInv, SlotInv, NEW c \in Conns, pc[c] = "up"
    PROVE  counter[c] + Cardinality(Pubs(c)) <= ReceiveMax + Cardinality(stray)
<1>1. /\ counter[c] \in Int /\ stray \subseteq Msgs /\ cut[c] \in BOOLEAN
      /\ ReceiveMax \in Nat
  <2>1. counter \in [Conns -> Int] /\ stray \subseteq Msgs /\ cut \in [Conns -> BOOLEAN]
    BY DEF IInv, TypeOK
  <2> QED
    BY <2>1, BoundsNat
<1>2. CASE cut[c]
  BY <1>2 DEF SlotInv, SlotAt
<1>3. CASE ~cut[c]
  <2>1. Using(c) /\ BegunAt(c) /\ SlotAt(c) /\ SlotOf(c)
    BY <1>3 DEF Using, ClientInv, SlotInv
  <2>2. Pubs(c) \subseteq Open /\ Open \in SUBSET Msgs /\ Pubs(c) \in SUBSET Msgs
    BY <2>1 DEF Pubs, BegunAt, Open
  <2>3. \A m \in Msgs : hnd[c].slot /\ Handling(c, m) => phase[m] = "sent"
    BY <2>1 DEF SlotOf, BegunAt, Handling
  <2>4. Slots(c) \subseteq Open \cup stray /\ Slots(c) \in SUBSET Msgs /\ Slots(c) \cap Pubs(c) = {}
    BY <1>1, <2>3 DEF Slots, Held, Pubs, Open
  <2>5. Slots(c) \cup Pubs(c) \subseteq Open \cup stray /\ Open \cup stray \in SUBSET Msgs /\ Slots(c) \cup Pubs(c) \in SUBSET Msgs
    BY <1>1, <2>2, <2>4
  <2>6. Cardinality(Slots(c) \cup Pubs(c)) = Cardinality(Slots(c)) + Cardinality(Pubs(c))
    BY <2>2, <2>4, FewerMsgs
  <2>7. Cardinality(Slots(c) \cup Pubs(c)) <= Cardinality(Open \cup stray)
    BY <2>5, FewerMsgs
  <2>8. Cardinality(Open \cup stray) <= Cardinality(Open) + Cardinality(stray)
    BY <1>1, <2>2, FewerMsgs
  <2>9. /\ Cardinality(Slots(c)) \in Nat /\ Cardinality(Pubs(c)) \in Nat /\ Cardinality(Open) \in Nat
        /\ Cardinality(stray) \in Nat /\ Cardinality(Open \cup stray) \in Nat
    BY <1>1, <2>2, <2>4, <2>5, MsgSets
  <2>10. counter[c] <= Cardinality(Slots(c)) /\ Cardinality(Open) <= ReceiveMax
    BY <2>1 DEF SlotAt, ClientInv, OpenBounded
  <2> QED
    BY <1>1, <2>6, <2>7, <2>8, <2>9, <2>10
<1> QED
  BY <1>1, <1>2, <1>3
\* What a step on one socket leaves of the slots of the others.
LEMMA SlotElsewhere ==
    ASSUME IInv, IInv', ClientInv, SlotInv, NEW d \in Conns, NEW c \in Conns \ {d}, Elsewhere(d), stray \subseteq stray',
           Using(c) => phase' = phase,
           Using(c) => \A p \in Pids : dedup'[p] = dedup[p] \/ dedup[p] = None \/ dedup[p] \in stray' \/ Releasing(d, dedup[p]),
           Using(c) => \A m \in Msgs : OnWire(d, "pubrel", m)' \/ Releasing(d, m)' => OnWire(d, "pubrel", m) \/ Releasing(d, m)
    PROVE  SlotAt(c)'
<1>1. /\ hnd'[c] = hnd[c] /\ wire'[c] = wire[c] /\ pc'[c] = pc[c] /\ cut'[c] = cut[c] /\ counter'[c] = counter[c]
      /\ qos' = qos /\ (Using(c)' <=> Using(c)) /\ SlotAt(c)
  BY DEF Elsewhere, Using, SlotInv
<1>2. /\ \A m \in Msgs : OnWire(c, "publish", m)' <=> OnWire(c, "publish", m)
      /\ \A m \in Msgs : Handling(c, m)' <=> Handling(c, m)
      /\ \A e \in Conns \ {d} : \A m \in Msgs : (OnWire(e, "pubrel", m)' <=> OnWire(e, "pubrel", m))
                                                /\ (Releasing(e, m)' <=> Releasing(e, m))
  BY <1>1 DEF Elsewhere, OnWire, Handling, Releasing
<1>3. /\ counter \in [Conns -> Int] /\ counter[c] \in Int /\ stray \subseteq Msgs /\ stray' \subseteq Msgs /\ None \notin Msgs
      /\ \A m \in Msgs : PacketID[m] \in Pids
  <2>1. \A m \in Msgs : PacketID[m] \in Pids
    BY DEF Pids
  <2>2. counter \in [Conns -> Int] /\ stray \in SUBSET Msgs /\ stray' \in SUBSET Msgs
    BY DEF IInv, TypeOK
  <2> QED
    BY <2>1, <2>2, PartyAssumption
<1>4. ASSUME Using(c) PROVE counter'[c] <= Cardinality(Slots(c)')
  <2>1. ASSUME NEW m \in Slots(c) PROVE m \in Slots(c)'
    <3>1. m \in Msgs /\ ~OnWire(c, "publish", m)'
      BY <1>2, <1>3 DEF Slots, Held
    <3>2. CASE m \in stray
      BY <3>1, <3>2 DEF Slots
    <3>3. CASE hnd[c].slot /\ Handling(c, m)
      BY <1>1, <1>2, <3>1, <3>3 DEF Slots, Held
    <3>4. CASE /\ phase[m] = "rel" /\ dedup[PacketID[m]] = m
               /\ \A e \in Conns \ {c} : ~OnWire(e, "pubrel", m) /\ ~Releasing(e, m)
      <4>1. dedup'[PacketID[m]] = m \/ m \in stray'
        BY <1>3, <1>4, <3>1, <3>4
      <4>2. \A e \in Conns \ {c} : ~OnWire(e, "pubrel", m)' /\ ~Releasing(e, m)'
        BY <1>2, <1>4, <3>1, <3>4
      <4> QED
        BY <1>4, <3>1, <3>4, <4>1, <4>2 DEF Slots, Held
    <3> QED
      BY <3>2, <3>3, <3>4 DEF Slots, Held
  <2>2. counter'[c] <= counter[c]
    BY <1>1, <1>3
  <2> QED
    BY <1>1, <1>4, <2>1, <2>2, SlotCount
<1>5. Pubs(c)' = Pubs(c)
  BY <1>1, <1>2 DEF Pubs
<1>6. Cardinality(stray) <= Cardinality(stray') /\ Cardinality(stray) \in Nat /\ Cardinality(stray') \in Nat
      /\ Cardinality(Pubs(c)) \in Nat /\ ReceiveMax \in Nat
  <2>1. Pubs(c) \in SUBSET Msgs
    BY DEF Pubs
  <2>2. Cardinality(stray) <= Cardinality(stray')
    BY <1>3, FewerMsgs
  <2>3. Cardinality(stray) \in Nat /\ Cardinality(stray') \in Nat /\ Cardinality(Pubs(c)) \in Nat
    BY <1>3, <2>1, MsgSets
  <2>4. ReceiveMax \in Nat
    BY BoundsNat
  <2> QED
    BY <2>2, <2>3, <2>4
<1>7. ASSUME pc'[c] = "up", cut'[c] PROVE counter'[c] + Cardinality(Pubs(c)') <= ReceiveMax + Cardinality(stray')
  <2>1. counter[c] + Cardinality(Pubs(c)) <= ReceiveMax + Cardinality(stray)
    BY <1>1, <1>7 DEF SlotAt
  <2> QED
    BY <1>1, <1>3, <1>5, <1>6, <2>1
<1> QED
  BY <1>1, <1>4, <1>7 DEF SlotAt

\* A step on one socket that leaves its own slots in order.
LEMMA SlotFrame ==
    ASSUME IInv, IInv', ClientInv, SlotInv, NEW d \in Conns, Elsewhere(d), stray \subseteq stray',
           pc[d] # "closed" \/ hnd[d].at # "none", \A c \in refused' : c \in refused \/ RefusedAt(c)',
           SlotAt(d)', SlotOf(d)',
           ~Using(d) => phase' = phase,
           \A p \in Pids : dedup'[p] = dedup[p] \/ dedup[p] = None \/ dedup[p] \in stray' \/ Releasing(d, dedup[p]),
           ~Using(d) /\ (\E c \in Conns : Using(c)) =>
               \A m \in Msgs : OnWire(d, "pubrel", m)' \/ Releasing(d, m)' => OnWire(d, "pubrel", m) \/ Releasing(d, m)
    PROVE  SlotInv'
<1>1. ASSUME NEW c \in Conns \ {d} PROVE SlotAt(c)'
  <2>1. Using(c) => ~Using(d)
    BY DEF ClientInv, Sockets
  <2> QED
    BY <2>1, SlotElsewhere
<1>2. ASSUME NEW c \in Conns \ {d} PROVE SlotOf(c)'
  BY DEF SlotInv, SlotOf, Elsewhere
<1>3. ASSUME NEW c \in refused PROVE RefusedAt(c)'
  <2>1. c \in Conns /\ RefusedAt(c) /\ c # d /\ stray \in SUBSET Msgs /\ stray' \in SUBSET Msgs
    <3>1. c \in Conns /\ stray \in SUBSET Msgs /\ stray' \in SUBSET Msgs
      BY DEF IInv, TypeOK
    <3>2. RefusedAt(c)
      BY DEF SlotInv
    <3> QED
      BY <3>1, <3>2 DEF RefusedAt
  <2>2. pc'[c] = pc[c] /\ hnd'[c] = hnd[c] /\ counter'[c] = counter[c] /\ counter[c] \in Int /\ ReceiveMax \in Nat
    <3>1. counter \in [Conns -> Int]
      BY DEF IInv, TypeOK
    <3> QED
      BY <2>1, <3>1, BoundsNat DEF Elsewhere
  <2>3. Cardinality(stray) <= Cardinality(stray') /\ Cardinality(stray) \in Nat /\ Cardinality(stray') \in Nat
    BY <2>1, MsgSets, FewerMsgs
  <2> QED
    BY <2>1, <2>2, <2>3 DEF RefusedAt
<1> QED
  BY <1>1, <1>2, <1>3 DEF SlotInv

\* What a step leaves of the slots of its own socket.
LEMMA OwnSlots ==
    ASSUME IInv, NEW d \in Conns, Elsewhere(d), stray \subseteq stray', NEW X,
           \A m \in Msgs \ X : hnd[d].slot /\ Handling(d, m) => m \in Slots(d)',
           \A m \in Msgs \ X : phase[m] = "rel" /\ dedup[PacketID[m]] = m =>
               m \in stray' \/ (phase'[m] = "rel" /\ dedup'[PacketID[m]] = m),
           \A m \in Slots(d) \ X : ~OnWire(d, "publish", m)'
    PROVE  Slots(d) \ X \subseteq Slots(d)'
<1>1. \A e \in Conns \ {d} : \A m \in Msgs : (OnWire(e, "pubrel", m)' <=> OnWire(e, "pubrel", m))
                                             /\ (Releasing(e, m)' <=> Releasing(e, m))
  BY DEF Elsewhere, OnWire, Releasing
<1> SUFFICES ASSUME NEW m \in Slots(d) \ X PROVE m \in Slots(d)'
  OBVIOUS
<1>2. m \in Msgs /\ ~OnWire(d, "publish", m)' /\ m \notin X
  BY DEF Slots, Held, IInv, TypeOK
<1>3. CASE m \in stray
  BY <1>2, <1>3 DEF Slots
<1>4. CASE hnd[d].slot /\ Handling(d, m)
  BY <1>2, <1>4
<1>5. CASE /\ phase[m] = "rel" /\ dedup[PacketID[m]] = m
           /\ \A e \in Conns \ {d} : ~OnWire(e, "pubrel", m) /\ ~Releasing(e, m)
  BY <1>1, <1>2, <1>5 DEF Slots, Held
<1> QED
  BY <1>3, <1>4, <1>5 DEF Slots, Held
\* A socket is closed.
LEMMA SlotClosed ==
    ASSUME IInv, IInv', ClientInv, SlotInv, NEW c \in Conns, pc[c] = "up" \/ hnd[c].at # "none",
           pc' = [pc EXCEPT ![c] = "closed"], wire' = [wire EXCEPT ![c] = << >>],
           UNCHANGED <<cut, counter, phase, qos, stray>>,
           hnd' = hnd \/ hnd' = [hnd EXCEPT ![c] = Idle],
           \A p \in Pids : dedup'[p] = dedup[p] \/ dedup[p] = None,
           \A d \in refused' : d \in refused \/ RefusedAt(d)'
    PROVE  SlotInv'
<1>0. hnd \in [Conns -> Handler] /\ wire \in [Conns -> Seq(Packet)] /\ pc \in [Conns -> {"idle", "up", "closed"}]
  BY DEF IInv, TypeOK
<1>1. Elsewhere(c) /\ pc'[c] = "closed" /\ ~Using(c)'
  BY <1>0 DEF Elsewhere, Using
<1>2. \A m \in Msgs : ~OnWire(c, "pubrel", m)' /\ (Releasing(c, m)' => Releasing(c, m))
  BY <1>0, CarriesNothing DEF OnWire, Releasing, Idle
<1>3. SlotAt(c)'
  BY <1>1 DEF SlotAt
<1>4. SlotOf(c)'
  <2>1. SlotOf(c)
    BY DEF SlotInv
  <2>2. hnd'[c] = hnd[c] \/ ~hnd'[c].slot
    BY <1>0 DEF Idle
  <2> QED
    BY <1>1, <2>1, <2>2 DEF SlotOf
<1> QED
  BY <1>0, <1>1, <1>2, <1>3, <1>4, SlotFrame

\* A handler ends.
LEMMA SlotEnd ==
    ASSUME IInv, IInv', ClientInv, SlotInv, NEW c \in Conns, hnd[c].at # "none", hnd' = [hnd EXCEPT ![c] = Idle],
           UNCHANGED <<pc, cut, qos, refused>>, Elsewhere(c), stray \subseteq stray',
           ~Using(c) => phase' = phase /\ wire' = wire,
           \A m \in Msgs : OnWire(c, "publish", m)' <=> OnWire(c, "publish", m),
           \A p \in Pids : dedup'[p] = dedup[p] \/ dedup[p] = None \/ dedup[p] \in stray' \/ Releasing(c, dedup[p]),
           counter'[c] <= counter[c], Using(c) => counter'[c] <= Cardinality(Slots(c)')
    PROVE  SlotInv'
<1>0. hnd \in [Conns -> Handler] /\ counter[c] \in Int /\ counter'[c] \in Int /\ stray \subseteq Msgs /\ stray' \subseteq Msgs
  <2>1. hnd \in [Conns -> Handler] /\ counter \in [Conns -> Int] /\ counter' \in [Conns -> Int]
        /\ stray \subseteq Msgs /\ stray' \subseteq Msgs
    BY DEF IInv, TypeOK
  <2> QED
    BY <2>1
<1>1. hnd'[c].at = "none" /\ ~hnd'[c].slot /\ (Using(c)' <=> Using(c)) /\ SlotAt(c) /\ SlotOf(c)
  BY <1>0 DEF Idle, Using, SlotInv
<1>2. SlotOf(c)'
  BY <1>1 DEF SlotOf
<1>3. Pubs(c)' = Pubs(c) /\ Pubs(c) \in SUBSET Msgs
  BY DEF Pubs
<1>4. Cardinality(stray) <= Cardinality(stray')
  BY <1>0, FewerMsgs
<1>5. Cardinality(stray) \in Nat /\ Cardinality(stray') \in Nat /\ Cardinality(Pubs(c)) \in Nat /\ ReceiveMax \in Nat
  BY <1>0, <1>3, MsgSets, BoundsNat
<1>6. ASSUME pc'[c] = "up", cut'[c] PROVE counter'[c] + Cardinality(Pubs(c)') <= ReceiveMax + Cardinality(stray')
  <2>1. counter[c] + Cardinality(Pubs(c)) <= ReceiveMax + Cardinality(stray)
    BY <1>1, <1>6 DEF SlotAt
  <2> QED
    BY <1>0, <1>3, <1>4, <1>5, <2>1
<1>7. SlotAt(c)'
  BY <1>1, <1>6 DEF SlotAt
<1>8. ASSUME ~Using(c), NEW m \in Msgs, OnWire(c, "pubrel", m)' \/ Releasing(c, m)' PROVE OnWire(c, "pubrel", m)
  BY <1>1, <1>8 DEF OnWire, Releasing
<1> QED
  BY <1>2, <1>7, <1>8, SlotFrame

LEMMA SlotConnect ==
    ASSUME IInv, IInv', ClientInv, SlotInv, NEW c \in Conns, Connect(c)
    PROVE  SlotInv'
<1>0. hnd \in [Conns -> Handler] /\ wire \in [Conns -> Seq(Packet)] /\ pc \in [Conns -> {"idle", "up", "closed"}]
  BY DEF IInv, TypeOK
<1>1. /\ pc[c] = "idle" /\ (\A d \in Conns : ~Using(d)) /\ pc' = [pc EXCEPT ![c] = "up"]
      /\ UNCHANGED <<hnd, counter, phase, cut, qos, dedup, stray, refused>>
      /\ \A d \in Conns \ {c} : wire'[d] = wire[d]
  BY <1>0 DEF Connect, tableVars, ghostVars
<1>2. Elsewhere(c) /\ pc'[c] = "up" /\ counter'[c] = 0
  BY <1>0, <1>1 DEF Elsewhere, ClientInv, Sockets
<1>3. SlotOf(c) /\ SlotOf(c)' /\ ~cut'[c]
  BY <1>1, <1>2 DEF SlotInv, SlotOf
<1>4. Slots(c)' \in SUBSET Msgs
  BY DEF Slots, Held, IInv, TypeOK
<1>5. 0 <= Cardinality(Slots(c)')
  BY <1>4, MsgSets
<1>6. SlotAt(c)'
  BY <1>2, <1>3, <1>5 DEF SlotAt
<1> QED
  BY <1>1, <1>2, <1>3, <1>6, SlotFrame

LEMMA SlotSend ==
    ASSUME IInv, IInv', ClientInv, SlotInv, NEW c \in Conns, NEW m \in Msgs, Send(c, m)
    PROVE  SlotInv'
<1>0. /\ wire \in [Conns -> Seq(Packet)] /\ wire[c] \in Seq(Packet) /\ counter[c] \in Int
      /\ phase \in [Msgs -> {"new", "sent", "rel", "done"}] /\ stray \subseteq Msgs
  BY DEF IInv, TypeOK
<1>1. /\ UNCHANGED <<hnd, counter, pc, cut, qos, dedup, stray, refused>> /\ Using(c) /\ phase[m] = "new"
      /\ \A l \in Msgs \ {m} : phase'[l] = phase[l]
  BY <1>0 DEF Send, tableVars, connVars, ghostVars
<1> DEFINE k == Pk("publish", m, FALSE)
<1>2. k \in Packet /\ k.type = "publish" /\ k.msg = m
  BY DEF Pk, Packet
<1>3. wire'[c] = Append(wire[c], k) /\ \A d \in Conns \ {c} : wire'[d] = wire[d]
  BY <1>0 DEF Send
<1> HIDE DEF k
<1>4. \A t, l : Carries(wire'[c], t, l) <=> Carries(wire[c], t, l) \/ (k.type = t /\ k.msg = l)
  BY <1>0, <1>2, <1>3, CarriesAppend
<1>5. \A l : OnWire(c, "publish", l)' <=> OnWire(c, "publish", l) \/ l = m
  BY <1>2, <1>4 DEF OnWire
<1>6. Elsewhere(c) /\ (Using(c)' <=> Using(c)) /\ SlotAt(c) /\ SlotOf(c)
  BY <1>1, <1>3 DEF Elsewhere, Using, SlotInv
<1>7. m \notin stray /\ ~Handling(c, m) /\ BegunAt(c)
  BY <1>1 DEF ClientInv, RowBegun, BegunAt
<1>8. m \notin Slots(c)
  BY <1>1, <1>7 DEF Slots, Held
<1>9. \A l \in Slots(c) : ~OnWire(c, "publish", l)'
  BY <1>5, <1>8 DEF Slots
<1>10. \A l \in Msgs : hnd[c].slot /\ Handling(c, l) => l \in Slots(c)'
  <2>1. SentOnceAt(c)
    BY DEF ClientInv
  <2> QED
    BY <1>1, <1>5, <1>7, <2>1 DEF Slots, Held, Handling, SentOnceAt
<1>11. Slots(c) \subseteq Slots(c)'
  <2>1. Slots(c) \ {} \subseteq Slots(c)'
    BY <1>1, <1>6, <1>9, <1>10, OwnSlots
  <2> QED
    BY <2>1
<1>12. counter'[c] <= Cardinality(Slots(c)')
  <2>1. counter'[c] <= counter[c]
    BY <1>0, <1>1
  <2> QED
    BY <1>1, <1>6, <1>11, <2>1, SlotCount
<1>13. SlotAt(c)' /\ SlotOf(c)'
  BY <1>1, <1>6, <1>12 DEF SlotAt, SlotOf, Using
<1> QED
  BY <1>1, <1>6, <1>13, SlotFrame DEF Using
LEMMA SlotCut ==
    ASSUME IInv, IInv', ClientInv, SlotInv, NEW c \in Conns, Cut(c)
    PROVE  SlotInv'
<1>0. cut \in [Conns -> BOOLEAN]
  BY DEF IInv, TypeOK
<1>1. /\ UNCHANGED <<hnd, wire, pc, counter, phase, qos, dedup, stray, refused>> /\ cut' = [cut EXCEPT ![c] = TRUE]
      /\ pc[c] = "up"
  BY DEF Cut, Using, tableVars, connVars, ghostVars
<1>2. Elsewhere(c) /\ ~Using(c)' /\ pc'[c] # "idle" /\ SlotOf(c)
  BY <1>0, <1>1 DEF Elsewhere, Using, SlotInv
<1>3. /\ Pubs(c)' = Pubs(c)
      /\ \A m \in Msgs : (OnWire(c, "pubrel", m)' <=> OnWire(c, "pubrel", m)) /\ (Releasing(c, m)' <=> Releasing(c, m))
  BY <1>1 DEF Pubs, OnWire, Releasing
<1>4. counter[c] + Cardinality(Pubs(c)) <= ReceiveMax + Cardinality(stray)
  BY <1>1, Room
<1>5. SlotAt(c)' /\ SlotOf(c)'
  BY <1>1, <1>2, <1>3, <1>4 DEF SlotAt, SlotOf
<1> QED
  BY <1>1, <1>2, <1>3, <1>5, SlotFrame

\* The conversion to uint16 keeps a small count.
LEMMA WithinMax ==
    ASSUME NEW k \in Int, NEW r \in Nat, r <= 65535, k >= -1, k + 1 <= r + 0
    PROVE  ~((k + 1) % 65536 > r)
<1>1. k + 1 \in Int /\ k + 1 >= 0 /\ k + 1 <= 65535 /\ k + 1 <= r
  OBVIOUS
<1>2. (k + 1) % 65536 = k + 1
  BY <1>1
<1> QED
  BY <1>1, <1>2

\* An open socket whose counter is not negative refuses only when messages have strayed.
LEMMA SlotRefuse ==
    ASSUME IInv, IInv', ClientInv, SlotInv, NEW c \in Conns, RefusePublish(c)
    PROVE  SlotInv'
<1>0. /\ pc \in [Conns -> {"idle", "up", "closed"}] /\ wire \in [Conns -> Seq(Packet)] /\ counter \in [Conns -> Int]
      /\ wire[c] \in Seq(Packet) /\ counter[c] \in Int /\ stray \in SUBSET Msgs
  BY DEF IInv, TypeOK
<1>1. /\ pc[c] = "up" /\ hnd[c].at = "none" /\ wire[c] # << >> /\ FirstOf(c).type = "publish"
      /\ qos[FirstOf(c).msg] > 0 /\ Exceeds(counter[c] + 1) /\ refused' = refused \cup {c}
      /\ pc' = [pc EXCEPT ![c] = "closed"] /\ wire' = [wire EXCEPT ![c] = << >>]
      /\ UNCHANGED <<hnd, cut, counter, phase, qos, stray, dedup>>
  BY DEF RefusePublish, tableVars
<1>2. FirstOf(c).msg \in Msgs /\ FirstOf(c).msg \in Pubs(c)
  <2>1. FirstOf(c).msg \in Msgs
    BY <1>0, <1>1, FrontPacket DEF FirstOf
  <2>2. Carries(wire[c], Head(wire[c]).type, Head(wire[c]).msg)
    BY <1>0, <1>1, CarriesTail
  <2> QED
    BY <1>1, <2>1, <2>2 DEF Pubs, OnWire, FirstOf
<1>3. Cardinality(Pubs(c)) \in Nat /\ Cardinality(stray) \in Nat /\ Cardinality(Pubs(c)) >= 1
  <2>1. Pubs(c) \in SUBSET Msgs
    BY DEF Pubs
  <2>2. Cardinality({}) = 0 /\ {} \in SUBSET Msgs
    BY FS_EmptySet
  <2>3. Cardinality({}) + 1 <= Cardinality(Pubs(c))
    BY <1>2, <2>1, <2>2, FewerMsgs
  <2>4. Cardinality(Pubs(c)) \in Nat /\ Cardinality(stray) \in Nat
    BY <1>0, <2>1, MsgSets
  <2> QED
    BY <2>2, <2>3, <2>4
<1>4. counter[c] + 1 <= ReceiveMax + Cardinality(stray)
  <2>1. counter[c] + Cardinality(Pubs(c)) <= ReceiveMax + Cardinality(stray)
    BY <1>1, Room
  <2> QED
    BY <1>0, <1>3, <2>1, BoundsNat
<1>5. counter[c] < ReceiveMax + Cardinality(stray)
  BY <1>0, <1>3, <1>4, BoundsNat
<1>6. ASSUME counter[c] >= -1 PROVE stray # {}
  <2> SUFFICES ASSUME stray = {} PROVE FALSE
    OBVIOUS
  <2>1. Cardinality(stray) = 0
    BY FS_EmptySet, Zenon
  <2>2. counter[c] + 1 <= ReceiveMax + 0
    BY <1>4, <2>1
  <2>3. ~((counter[c] + 1) % 65536 > ReceiveMax)
    BY <1>0, <1>6, <2>2, BoundsNat, WithinMax
  <2> QED
    BY <1>1, <2>3 DEF Exceeds
<1>7. pc'[c] = "closed" /\ hnd'[c].at = "none"
  BY <1>0, <1>1
<1>8. counter[c] < -1 \/ counter[c] >= -1
  BY <1>0
<1>9. RefusedAt(c)'
  BY <1>1, <1>5, <1>6, <1>7, <1>8 DEF RefusedAt
<1> QED
  BY <1>1, <1>9, SlotClosed

\* A packet is read that takes no slot, or the handler goes on with its transaction.
LEMMA SlotWork ==
    ASSUME IInv, IInv', ClientInv, SlotInv, NEW c \in Conns,
           pc[c] = "up" \/ hnd[c].at # "none",
           UNCHANGED <<pc, cut, phase, qos, dedup, stray, refused, counter>>,
           \A d \in Conns \ {c} : hnd'[d] = hnd[d] /\ wire'[d] = wire[d],
           \A m \in Msgs : OnWire(c, "publish", m)' => OnWire(c, "publish", m),
           \A m \in Msgs : OnWire(c, "pubrel", m)' \/ Releasing(c, m)' => OnWire(c, "pubrel", m) \/ Releasing(c, m),
           hnd'[c].slot => hnd[c].slot /\ hnd'[c].at \in {"begin", "query", "commit"} /\ hnd'[c].msg = hnd[c].msg,
           hnd[c].slot => hnd'[c].slot
    PROVE  SlotInv'
<1>0. counter[c] \in Int /\ stray \subseteq Msgs /\ ReceiveMax \in Nat
  <2>1. counter \in [Conns -> Int] /\ stray \subseteq Msgs
    BY DEF IInv, TypeOK
  <2> QED
    BY <2>1, BoundsNat
<1>1. Elsewhere(c) /\ (Using(c)' <=> Using(c)) /\ SlotAt(c) /\ SlotOf(c)
  BY DEF Elsewhere, Using, SlotInv
<1>2. SlotOf(c)'
  BY <1>1 DEF SlotOf
<1>3. Slots(c) \subseteq Slots(c)'
  <2>1. \A m \in Slots(c) \ {} : ~OnWire(c, "publish", m)'
    BY <1>0 DEF Slots, Held
  <2>2. \A m \in Msgs \ {} : hnd[c].slot /\ Handling(c, m) => m \in Slots(c)'
    <3>1. SentOnceAt(c)
      BY DEF ClientInv
    <3> QED
      BY <3>1 DEF Slots, Held, Handling, SentOnceAt
  <2>3. Slots(c) \ {} \subseteq Slots(c)'
    BY <1>1, <2>1, <2>2, OwnSlots
  <2> QED
    BY <2>3
<1>4. counter'[c] <= counter[c]
  BY <1>0
<1>5. Pubs(c)' \subseteq Pubs(c) /\ Pubs(c)' \in SUBSET Msgs /\ Pubs(c) \in SUBSET Msgs
  BY DEF Pubs
<1>6. Cardinality(Pubs(c)') <= Cardinality(Pubs(c))
  BY <1>5, FewerMsgs
<1>7. Cardinality(Pubs(c)') \in Nat /\ Cardinality(Pubs(c)) \in Nat /\ Cardinality(stray) \in Nat
  BY <1>0, <1>5, MsgSets
<1>8. ASSUME Using(c)' PROVE counter'[c] <= Cardinality(Slots(c)')
  BY <1>1, <1>3, <1>4, <1>8, SlotCount
<1>9. ASSUME pc'[c] = "up", cut'[c] PROVE counter'[c] + Cardinality(Pubs(c)') <= ReceiveMax + Cardinality(stray')
  <2>1. counter[c] + Cardinality(Pubs(c)) <= ReceiveMax + Cardinality(stray)
    BY <1>1, <1>9 DEF SlotAt
  <2> QED
    BY <1>0, <1>6, <1>7, <2>1
<1>10. SlotAt(c)'
  BY <1>8, <1>9 DEF SlotAt
<1> QED
  BY <1>1, <1>2, <1>10, SlotFrame
LEMMA SlotRead ==
    ASSUME IInv, IInv', ClientInv, SlotInv, NEW c \in Conns, ReadPublish(c)
    PROVE  SlotInv'
<1>0. /\ hnd \in [Conns -> Handler] /\ counter \in [Conns -> Int] /\ counter[c] \in Int /\ stray \subseteq Msgs
      /\ ReceiveMax \in Nat
  <2>1. hnd \in [Conns -> Handler] /\ counter \in [Conns -> Int] /\ stray \subseteq Msgs
    BY DEF IInv, TypeOK
  <2> QED
    BY <2>1, BoundsNat
<1>1. /\ pc[c] = "up" /\ hnd[c].at = "none" /\ wire[c] # << >> /\ FirstOf(c).type = "publish"
      /\ wire' = [wire EXCEPT ![c] = Tail(@)] /\ UNCHANGED <<pc, cut, phase, qos, dedup, stray, refused>>
  BY DEF ReadPublish, tableVars, ghostVars
<1>2. PICK m \in Msgs : m = FirstOf(c).msg
  BY <1>1, ReadStep
<1>3. /\ OnWire(c, "publish", m) /\ ~OnWire(c, "publish", m)'
      /\ \A d \in Conns \ {c} : wire'[d] = wire[d]
      /\ \A t, l : OnWire(c, t, l)' => OnWire(c, t, l)
  BY <1>1, <1>2, ReadStep
<1>4. PICK slot \in BOOLEAN :
        /\ slot <=> qos[m] > 0 /\ ~SkipInc(FirstOf(c))
        /\ hnd' = [hnd EXCEPT ![c] = [Idle EXCEPT !.at = "begin", !.msg = m, !.slot = slot]]
        /\ counter' = [counter EXCEPT ![c] = IF slot THEN counter[c] + 1 ELSE counter[c]]
  <2> DEFINE b == qos[m] > 0 /\ ~SkipInc(FirstOf(c))
  <2>1. /\ hnd' = [hnd EXCEPT ![c] = [Idle EXCEPT !.at = "begin", !.msg = m, !.slot = b]]
        /\ counter' = [counter EXCEPT ![c] = IF b THEN counter[c] + 1 ELSE counter[c]]
    BY <1>2 DEF ReadPublish
  <2>2. b \in BOOLEAN
    OBVIOUS
  <2> HIDE DEF b
  <2>3. PICK s \in BOOLEAN : s = b
    BY <2>2
  <2> QED
    BY <2>1, <2>3 DEF b
<1>5. /\ hnd'[c].at = "begin" /\ hnd'[c].msg = m /\ hnd'[c].slot = slot
      /\ \A d \in Conns \ {c} : hnd'[d] = hnd[d] /\ counter'[d] = counter[d]
  BY <1>0, <1>4 DEF Idle
<1>6. Elsewhere(c) /\ (Using(c)' <=> Using(c)) /\ SlotAt(c) /\ SlotOf(c) /\ ~hnd[c].slot
  BY <1>1, <1>3, <1>5 DEF Elsewhere, Using, SlotInv, SlotOf
<1>7. \A l \in Msgs : ~Releasing(c, l)'
  BY <1>5 DEF Releasing
<1>8. CASE ~slot
  <2>1. counter' = counter
    BY <1>0, <1>4, <1>8
  <2>2. ~hnd'[c].slot
    BY <1>5, <1>8
  <2> QED
    BY <1>1, <1>3, <1>5, <1>6, <1>7, <2>1, <2>2, SlotWork
<1>9. CASE slot
  <2>1. counter'[c] = counter[c] + 1 /\ qos[m] > 0 /\ hnd'[c].slot
    BY <1>0, <1>4, <1>5, <1>9
  <2>2. SlotOf(c)'
    BY <1>1, <1>5, <2>1 DEF SlotOf
  <2>3. m \notin Slots(c) /\ m \in Slots(c)'
    BY <1>2, <1>3, <1>5, <2>1 DEF Slots, Held, Handling
  <2>4. Slots(c) \subseteq Slots(c)'
    <3>1. \A l \in Slots(c) \ {} : ~OnWire(c, "publish", l)'
      BY <1>0, <1>3 DEF Slots, Held
    <3>2. Slots(c) \ {} \subseteq Slots(c)'
      BY <1>1, <1>6, <3>1, OwnSlots
    <3> QED
      BY <3>2
  <2>5. ASSUME Using(c)' PROVE counter'[c] <= Cardinality(Slots(c)')
    BY <1>6, <2>1, <2>3, <2>4, <2>5, SlotCount
  <2>6. Pubs(c)' \subseteq Pubs(c) /\ Pubs(c)' \in SUBSET Msgs /\ Pubs(c) \in SUBSET Msgs /\ m \in Pubs(c) /\ m \notin Pubs(c)'
    BY <1>1, <1>3, <2>1 DEF Pubs
  <2>7. Cardinality(Pubs(c)') + 1 <= Cardinality(Pubs(c))
    BY <2>6, FewerMsgs
  <2>8. Cardinality(Pubs(c)') \in Nat /\ Cardinality(Pubs(c)) \in Nat /\ Cardinality(stray) \in Nat
    BY <1>0, <2>6, MsgSets
  <2>9. ASSUME pc'[c] = "up", cut'[c] PROVE counter'[c] + Cardinality(Pubs(c)') <= ReceiveMax + Cardinality(stray')
    <3>1. counter[c] + Cardinality(Pubs(c)) <= ReceiveMax + Cardinality(stray)
      BY <1>1, <1>6, <2>9 DEF SlotAt
    <3>2. counter'[c] + Cardinality(Pubs(c)') <= ReceiveMax + Cardinality(stray)
      BY <1>0, <2>1, <2>7, <2>8, <3>1
    <3> QED
      BY <1>1, <3>2
  <2>10. SlotAt(c)'
    BY <2>5, <2>9 DEF SlotAt
  <2> QED
    BY <1>1, <1>3, <1>6, <1>7, <2>2, <2>10, SlotFrame
<1> QED
  BY <1>8, <1>9

\* ErrQoS2Duplicate gives back the slot of the message at hand.
LEMMA SlotDuplicate ==
    ASSUME IInv, IInv', ClientInv, SlotInv, NEW c \in Conns, Duplicate(c)
    PROVE  SlotInv'
<1>0. /\ hnd \in [Conns -> Handler] /\ counter \in [Conns -> Int] /\ counter[c] \in Int /\ stray \subseteq Msgs
      /\ hnd[c].slot \in BOOLEAN
  BY DEF IInv, TypeOK, Handler
<1>1. PICK m \in Msgs : m = hnd[c].msg
  BY AtHand DEF Duplicate
<1>2. /\ hnd[c].at = "begin" /\ Reply(c, "pubrec", m) /\ qos[m] = 2
      /\ UNCHANGED <<pc, cut, qos, dedup, stray, refused>> /\ hnd' = [hnd EXCEPT ![c] = Idle]
      /\ \A d \in Conns \ {c} : counter'[d] = counter[d]
      /\ counter'[c] = IF hnd[c].slot THEN counter[c] - 1 ELSE counter[c]
  BY <1>0, <1>1 DEF Duplicate, Finish, tableVars, ghostVars
<1>3. /\ Elsewhere(c)
      /\ \A l \in Msgs \ {m} : phase'[l] = phase[l]
      /\ \A l \in Msgs : OnWire(c, "publish", l)' <=> OnWire(c, "publish", l)
  <2>1. PICK type \in {"puback", "pubrec"} : type = "pubrec"
    OBVIOUS
  <2>2. Reply(c, type, m) /\ qos[m] > 0
    BY <1>2, <2>1
  <2> QED
    BY <1>1, <1>2, <2>2, EndStep
<1>4. ~Using(c) => phase' = phase /\ wire' = wire
  BY <1>2 DEF Reply
<1>5. Using(c) => phase[m] = "sent"
  <2>1. hnd[c].at # "none" /\ hnd[c].at \in {"begin", "query", "commit"} /\ qos[hnd[c].msg] > 0
    BY <1>1, <1>2
  <2> QED
    BY <1>1, <2>1, AtHand
<1>6. counter'[c] <= counter[c]
  BY <1>0, <1>2
<1>7. ASSUME Using(c) PROVE counter'[c] <= Cardinality(Slots(c)')
  <2>0. SlotAt(c)
    BY DEF SlotInv
  <2>1. \A l \in Slots(c) : ~OnWire(c, "publish", l)'
    BY <1>0, <1>3 DEF Slots, Held
  <2>2. \A l \in Msgs : phase[l] = "rel" => phase'[l] = "rel"
    BY <1>3, <1>5, <1>7
  <2>3. CASE hnd[c].slot
    <3>1. \A l \in Msgs \ {m} : ~Handling(c, l)
      BY <1>1 DEF Handling
    <3>2. Slots(c) \ {m} \subseteq Slots(c)'
      BY <1>2, <1>3, <2>1, <2>2, <3>1, OwnSlots
    <3>3. counter'[c] = counter[c] - 1
      BY <1>2, <2>3
    <3> QED
      BY <1>7, <2>0, <3>2, <3>3, SlotCount
  <2>4. CASE ~hnd[c].slot
    <3>1. Slots(c) \ {} \subseteq Slots(c)'
      BY <1>2, <1>3, <2>1, <2>2, <2>4, OwnSlots
    <3>2. Slots(c) \subseteq Slots(c)'
      BY <3>1
    <3> QED
      BY <1>6, <1>7, <2>0, <3>2, SlotCount
  <2> QED
    BY <1>0, <2>3, <2>4
<1> QED
  BY <1>2, <1>3, <1>4, <1>6, <1>7, SlotEnd
\* PUBACK gives the slot back; with PUBREC the row takes it over.
LEMMA SlotCommit ==
    ASSUME IInv, IInv', ClientInv, SlotInv, NEW c \in Conns, Commit(c)
    PROVE  SlotInv'
<1>0. /\ hnd \in [Conns -> Handler] /\ counter \in [Conns -> Int] /\ counter[c] \in Int /\ stray \subseteq Msgs
      /\ hnd[c].slot \in BOOLEAN /\ dedup \in [Pids -> Msgs \cup {None}]
  BY DEF IInv, TypeOK, Handler
<1>1. PICK m \in Msgs : m = hnd[c].msg /\ PacketID[m] \in Pids
  BY AtHand DEF Commit
<1>2. /\ hnd[c].at = "commit" /\ Committed(c)
      /\ UNCHANGED <<pc, cut, qos, stray, refused>> /\ hnd' = [hnd EXCEPT ![c] = Idle]
      /\ \A d \in Conns \ {c} : counter'[d] = counter[d]
      /\ counter'[c] = IF hnd[c].slot /\ qos[m] # 2 THEN counter[c] - 1 ELSE counter[c]
  BY <1>0, <1>1 DEF Commit, Finish, Committed
<1>3. qos[m] \in 0..2 /\ (qos[m] = 0 \/ qos[m] = 1 \/ qos[m] = 2)
  <2>1. qos \in [Msgs -> 0..2]
    BY MsgsAssumption DEF IInv, TypeOK
  <2> QED
    BY <2>1
<1>4. \A p \in Pids : dedup'[p] = dedup[p] \/ (dedup[p] = None /\ dedup'[p] = m /\ p = PacketID[m])
  BY <1>1, <1>2, CommittedRows
<1>5. qos[m] = 2 => dedup'[PacketID[m]] = m
  BY <1>0, <1>1, <1>2 DEF Committed
<1>6. Handling(c, m) /\ ~OnWire(c, "publish", m) /\ (Using(c) /\ qos[m] > 0 => phase[m] = "sent")
  <2>1. hnd[c].at # "none" /\ hnd[c].at \in {"begin", "query", "commit"}
    BY <1>2
  <2> QED
    BY <1>1, <2>1, AtHand
<1>7. /\ Elsewhere(c) /\ (~Using(c) => phase' = phase /\ wire' = wire)
      /\ \A l \in Msgs \ {m} : phase'[l] = phase[l]
      /\ \A l \in Msgs : OnWire(c, "publish", l)' <=> OnWire(c, "publish", l)
      /\ qos[m] = 0 => phase' = phase
      /\ qos[m] = 2 /\ Using(c) => phase'[m] = "rel"
  <2>1. CASE qos[m] = 0
    <3>1. UNCHANGED <<phase, wire>>
      BY <1>1, <2>1 DEF Commit, NoReply
    <3>2. Elsewhere(c)
      BY <1>0, <1>2, <3>1 DEF Elsewhere
    <3>3. \A l \in Msgs : OnWire(c, "publish", l)' <=> OnWire(c, "publish", l)
      BY <3>1 DEF OnWire
    <3> QED
      BY <2>1, <3>1, <3>2, <3>3
  <2>2. CASE qos[m] # 0
    <3>1. PICK type \in {"puback", "pubrec"} : Reply(c, type, m) /\ (qos[m] = 2 => type = "pubrec")
      <4>1. (qos[m] = 1 => Reply(c, "puback", m)) /\ (qos[m] = 2 => Reply(c, "pubrec", m))
        BY <1>1, <1>3, <2>2, CommitReply
      <4>2. CASE qos[m] = 1
        BY <4>1, <4>2
      <4>3. CASE qos[m] = 2
        BY <4>1, <4>3
      <4> QED
        BY <1>3, <2>2, <4>2, <4>3
    <3>2. qos[m] > 0
      BY <1>3, <2>2
    <3>3. /\ hnd[c].at # "none" /\ hnd[c].at \in {"begin", "query", "commit"}
          /\ type # "pubcomp" /\ type \in {"puback", "pubrec", "pubcomp"} /\ m = hnd[c].msg
          /\ UNCHANGED <<pc, cut, qos>> /\ hnd' = [hnd EXCEPT ![c] = Idle]
          /\ \A d \in Conns \ {c} : counter'[d] = counter[d]
      BY <1>1, <1>2
    <3>4. /\ Elsewhere(c)
          /\ \A l \in Msgs \ {m} : phase'[l] = phase[l]
          /\ Using(c) /\ qos[m] = 2 => phase'[m] = "rel"
          /\ \A l \in Msgs : OnWire(c, "publish", l)' <=> OnWire(c, "publish", l)
      <4>1. Reply(c, type, m)
        BY <3>1
      <4>2. Elsewhere(c) /\ \A l \in Msgs : OnWire(c, "publish", l)' <=> OnWire(c, "publish", l)
        BY <3>2, <3>3, <4>1, EndStep, ZenonT(60)
      <4>3. \A l \in Msgs \ {m} : phase'[l] = phase[l]
        BY <3>2, <3>3, <4>1, EndStep
      <4>4. Using(c) /\ type = "pubrec" => phase'[m] = "rel"
        <5>1. phase \in [Msgs -> {"new", "sent", "rel", "done"}]
          BY DEF IInv, TypeOK
        <5> QED
          BY <4>1, <5>1 DEF Reply
      <4> QED
        BY <3>1, <4>2, <4>3, <4>4
    <3>5. ~Using(c) => phase' = phase /\ wire' = wire
      BY <3>1 DEF Reply
    <3> QED
      BY <2>2, <3>1, <3>4, <3>5
  <2> QED
    BY <2>1, <2>2
<1>8. counter'[c] <= counter[c]
  BY <1>0, <1>2
<1>9. ASSUME Using(c) PROVE counter'[c] <= Cardinality(Slots(c)')
  <2>0. SlotAt(c) /\ SlotOf(c)
    BY DEF SlotInv
  <2>1. \A l \in Slots(c) : ~OnWire(c, "publish", l)'
    BY <1>0, <1>7 DEF Slots, Held
  <2>2. \A l \in Msgs : phase[l] = "rel" => phase'[l] = "rel"
    <3>1. CASE qos[m] = 0
      BY <1>7, <3>1
    <3>2. CASE qos[m] # 0
      <4>1. phase[m] = "sent"
        BY <1>3, <1>6, <1>9, <3>2
      <4> QED
        BY <1>7, <4>1
    <3> QED
      BY <3>1, <3>2
  <2>3. \A l \in Msgs : dedup[PacketID[l]] = l => dedup'[PacketID[l]] = l
    <3>1. \A l \in Msgs : PacketID[l] \in Pids /\ l # None
      BY PartyAssumption DEF Pids
    <3> QED
      BY <1>4, <3>1
  <2>4. \A l \in Msgs \ {m} : ~Handling(c, l)
    BY <1>1 DEF Handling
  <2>5. CASE hnd[c].slot /\ qos[m] # 2
    <3>1. Slots(c) \ {m} \subseteq Slots(c)'
      BY <1>2, <1>7, <2>1, <2>2, <2>3, <2>4, OwnSlots
    <3>2. counter'[c] = counter[c] - 1
      BY <1>2, <2>5
    <3> QED
      BY <1>9, <2>0, <3>1, <3>2, SlotCount
  <2>6. CASE ~hnd[c].slot
    <3>1. Slots(c) \ {} \subseteq Slots(c)'
      BY <1>2, <1>7, <2>1, <2>2, <2>3, <2>6, OwnSlots
    <3>2. Slots(c) \subseteq Slots(c)'
      BY <3>1
    <3> QED
      BY <1>8, <1>9, <2>0, <3>2, SlotCount
  <2>7. CASE hnd[c].slot /\ qos[m] = 2
    <3>1. phase'[m] = "rel" /\ dedup'[PacketID[m]] = m /\ ~OnWire(c, "publish", m)' /\ phase[m] = "sent"
      BY <1>5, <1>6, <1>7, <1>9, <2>7
    <3>2. \A d \in Conns \ {c} : ~OnWire(d, "pubrel", m)' /\ ~Releasing(d, m)'
      <4>1. \A d \in Conns \ {c} : BegunAt(d)
        BY DEF ClientInv
      <4>2. \A d \in Conns \ {c} : ~OnWire(d, "pubrel", m) /\ ~Releasing(d, m)
        BY <3>1, <4>1 DEF BegunAt
      <4> QED
        BY <1>7, <4>2 DEF Elsewhere, OnWire, Releasing
    <3>3. m \in Slots(c)'
      BY <3>1, <3>2 DEF Slots, Held
    <3>4. Slots(c) \ {} \subseteq Slots(c)'
      BY <1>2, <1>7, <2>1, <2>2, <2>3, <2>4, <3>3, OwnSlots
    <3>5. Slots(c) \subseteq Slots(c)'
      BY <3>4
    <3> QED
      BY <1>8, <1>9, <2>0, <3>5, SlotCount
  <2> QED
    BY <1>0, <2>5, <2>6, <2>7
<1> QED
  BY <1>2, <1>4, <1>7, <1>8, <1>9, SlotEnd

\* PUBREL gives back the slot of the row it deletes.
LEMMA SlotPubrel ==
    ASSUME IInv, IInv', ClientInv, SlotInv, NEW c \in Conns, HandlePubrel(c)
    PROVE  SlotInv'
<1>0. /\ hnd \in [Conns -> Handler] /\ counter \in [Conns -> Int] /\ counter[c] \in Int /\ stray \subseteq Msgs
      /\ dedup \in [Pids -> Msgs \cup {None}]
  BY DEF IInv, TypeOK
<1>1. PICK m \in Msgs : m = hnd[c].msg /\ PacketID[m] \in Pids
  BY AtHand DEF HandlePubrel
<1>2. /\ hnd[c].at = "pubrel" /\ Reply(c, "pubcomp", m) /\ DeleteDedup(PacketID[m]) /\ Strays(PacketID[m], m)
      /\ UNCHANGED <<pc, cut, qos, refused>> /\ hnd' = [hnd EXCEPT ![c] = Idle]
      /\ \A d \in Conns \ {c} : counter'[d] = counter[d]
      /\ counter'[c] = IF dedup[PacketID[m]] # None THEN counter[c] - 1 ELSE counter[c]
  BY <1>0, <1>1 DEF HandlePubrel
<1>3. /\ Elsewhere(c)
      /\ \A l \in Msgs \ {m} : phase'[l] = phase[l]
      /\ \A l \in Msgs : OnWire(c, "publish", l)' <=> OnWire(c, "publish", l)
  BY <1>1, <1>2, EndStep
<1>4. ~Using(c) => phase' = phase /\ wire' = wire
  BY <1>2 DEF Reply
<1>5. dedup'[PacketID[m]] = None /\ \A q \in Pids \ {PacketID[m]} : dedup'[q] = dedup[q]
  BY <1>1, <1>2, DeletedRows
<1>6. stray \subseteq stray' /\ (dedup[PacketID[m]] \in stray' \/ dedup[PacketID[m]] \in {None, m})
  BY <1>2 DEF Strays
<1>7. \A p \in Pids : dedup'[p] = dedup[p] \/ dedup[p] = None \/ dedup[p] \in stray' \/ Releasing(c, dedup[p])
  BY <1>1, <1>2, <1>5, <1>6 DEF Releasing
<1>8. counter'[c] <= counter[c]
  BY <1>0, <1>2
<1>9. ASSUME Using(c) PROVE counter'[c] <= Cardinality(Slots(c)')
  <2>0. SlotAt(c) /\ \A l \in Msgs : ~Handling(c, l)
    BY <1>2 DEF SlotInv, Handling
  <2>1. \A l \in Slots(c) : ~OnWire(c, "publish", l)'
    BY <1>0, <1>3 DEF Slots, Held
  <2>2. \A l \in Msgs : PacketID[l] \in Pids /\ l # None
    BY PartyAssumption DEF Pids
  <2>3. CASE dedup[PacketID[m]] # None
    <3>1. PICK k : k = dedup[PacketID[m]]
      OBVIOUS
    <3>2. \A l \in Msgs \ {k} : phase[l] = "rel" /\ dedup[PacketID[l]] = l =>
              phase'[l] = "rel" /\ dedup'[PacketID[l]] = l
      BY <1>3, <1>5, <2>2, <3>1
    <3>3. Slots(c) \ {k} \subseteq Slots(c)'
      BY <1>3, <1>6, <2>0, <2>1, <3>2, OwnSlots
    <3>4. counter'[c] = counter[c] - 1
      BY <1>2, <2>3
    <3> QED
      BY <1>9, <2>0, <3>3, <3>4, SlotCount
  <2>4. CASE dedup[PacketID[m]] = None
    <3>1. \A l \in Msgs : phase[l] = "rel" /\ dedup[PacketID[l]] = l =>
              phase'[l] = "rel" /\ dedup'[PacketID[l]] = l
      BY <1>3, <1>5, <2>2, <2>4
    <3>2. Slots(c) \ {} \subseteq Slots(c)'
      BY <1>3, <1>6, <2>0, <2>1, <3>1, OwnSlots
    <3>3. Slots(c) \subseteq Slots(c)'
      BY <3>2
    <3> QED
      BY <1>8, <1>9, <2>0, <3>3, SlotCount
  <2> QED
    BY <2>3, <2>4
<1> QED
  BY <1>2, <1>3, <1>4, <1>6, <1>7, <1>8, <1>9, SlotEnd

\* A step that changes nothing the slots depend on.
LEMMA SlotStutter ==
    ASSUME SlotInv, UNCHANGED <<hnd, wire, pc, counter, phase, qos, cut, stray, dedup, refused>>
    PROVE  SlotInv'
<1>1. ASSUME NEW c \in Conns PROVE SlotAt(c)'
  <2>1. SlotAt(c)
    BY DEF SlotInv
  <2>2. Slots(c)' = Slots(c) /\ Pubs(c)' = Pubs(c)
    BY DEF Slots, Held, Pubs, OnWire, Handling, Releasing
  <2> QED
    BY <2>1, <2>2 DEF SlotAt, Using
<1>2. \A c \in Conns : SlotOf(c)'
  BY DEF SlotInv, SlotOf
<1>3. \A c \in refused' : RefusedAt(c)'
  BY DEF SlotInv, RefusedAt
<1> QED
  BY <1>1, <1>2, <1>3 DEF SlotInv

LEMMA SlotStep ==
    ASSUME IInv, IInv', ClientInv, SlotInv, Next
    PROVE  SlotInv'
<1>0. /\ hnd \in [Conns -> Handler] /\ dedup \in [Pids -> Msgs \cup {None}] /\ wire \in [Conns -> Seq(Packet)]
  BY DEF IInv, TypeOK
<1>1. ASSUME NEW c \in Conns, Connect(c) \/ Cut(c) \/ \E m \in Msgs : Send(c, m) PROVE SlotInv'
  BY <1>1, SlotConnect, SlotCut, SlotSend
<1>2. ASSUME NEW c \in Conns, Close(c) \/ TxFails(c) \/ CommitUnknown(c) PROVE SlotInv'
  <2>1. /\ pc[c] = "up" \/ hnd[c].at # "none"
        /\ pc' = [pc EXCEPT ![c] = "closed"] /\ wire' = [wire EXCEPT ![c] = << >>]
        /\ UNCHANGED <<cut, counter, phase, qos, stray, refused>>
        /\ hnd' = hnd \/ hnd' = [hnd EXCEPT ![c] = Idle]
    BY <1>2 DEF Close, TxFails, CommitUnknown, Abort, Committed, tableVars, ghostVars
  <2>2. \A p \in Pids : dedup'[p] = dedup[p] \/ dedup[p] = None
    <3>1. CASE Close(c) \/ TxFails(c)
      BY <3>1 DEF Close, TxFails, tableVars
    <3>2. CASE CommitUnknown(c)
      BY <3>2, CommittedRows DEF CommitUnknown
    <3> QED
      BY <1>2, <3>1, <3>2
  <2> QED
    BY <2>1, <2>2, SlotClosed
<1>3. ASSUME NEW c \in Conns, ReadPublish(c) \/ RefusePublish(c) PROVE SlotInv'
  BY <1>3, SlotRead, SlotRefuse
<1>4. ASSUME NEW c \in Conns, ReadPubrel(c) PROVE SlotInv'
  <2>1. /\ pc[c] = "up" /\ hnd[c].at = "none" /\ wire[c] # << >> /\ FirstOf(c).type = "pubrel"
        /\ wire' = [wire EXCEPT ![c] = Tail(@)]
        /\ hnd' = [hnd EXCEPT ![c] = [Idle EXCEPT !.at = "pubrel", !.msg = FirstOf(c).msg]]
        /\ UNCHANGED <<pc, cut, phase, qos, dedup, stray, refused, counter>>
    BY <1>4 DEF ReadPubrel, tableVars, ghostVars
  <2>2. /\ OnWire(c, "pubrel", FirstOf(c).msg)
        /\ \A d \in Conns \ {c} : wire'[d] = wire[d]
        /\ \A t, l : OnWire(c, t, l)' => OnWire(c, t, l)
    BY <2>1, ReadStep
  <2>3. /\ hnd'[c].msg = FirstOf(c).msg /\ ~hnd'[c].slot
        /\ \A d \in Conns \ {c} : hnd'[d] = hnd[d]
    BY <1>0, <2>1 DEF Idle
  <2>4. \A l \in Msgs : Releasing(c, l)' => OnWire(c, "pubrel", l)
    BY <2>2, <2>3 DEF Releasing
  <2>5. ~hnd[c].slot
    BY <2>1 DEF SlotInv, SlotOf
  <2> QED
    BY <2>1, <2>2, <2>3, <2>4, <2>5, SlotWork
<1>5. ASSUME NEW c \in Conns, ClaimDedup(c) \/ FanoutQuery(c) PROVE SlotInv'
  <2>1. /\ hnd[c].at \in {"begin", "query"} /\ UNCHANGED <<wire, pc, cut, phase, qos, dedup, stray, refused, counter>>
    BY <1>5 DEF ClaimDedup, FanoutQuery, tableVars, clientVars, ghostVars
  <2>2. /\ hnd'[c].msg = hnd[c].msg /\ hnd'[c].slot = hnd[c].slot /\ hnd'[c].at \in {"query", "commit"}
        /\ \A d \in Conns \ {c} : hnd'[d] = hnd[d]
    <3>1. CASE ClaimDedup(c)
      BY <1>0, <3>1 DEF ClaimDedup, Handler
    <3>2. CASE FanoutQuery(c)
      BY <1>0, <3>2 DEF FanoutQuery, Handler
    <3> QED
      BY <1>5, <3>1, <3>2
  <2>3. \A l \in Msgs : ~Releasing(c, l)' /\ \A t : OnWire(c, t, l)' <=> OnWire(c, t, l)
    BY <2>1, <2>2 DEF Releasing, OnWire
  <2> QED
    BY <2>1, <2>2, <2>3, SlotWork
<1>6. ASSUME NEW c \in Conns, Duplicate(c) \/ Commit(c) \/ HandlePubrel(c) PROVE SlotInv'
  BY <1>6, SlotDuplicate, SlotCommit, SlotPubrel
<1>7. ASSUME NEW p \in Pids, SweepInboundQoS2(p) PROVE SlotInv'
  <2>1. UNCHANGED <<hnd, pc, counter, qos, cut, stray, refused>> /\ \A c \in Conns : pc[c] # "up"
    BY <1>7 DEF SweepInboundQoS2, connVars, clientVars
  <2>2. \A c \in Conns : SlotAt(c)'
    BY <2>1 DEF SlotAt, Using
  <2> QED
    BY <2>1, <2>2 DEF SlotInv, SlotOf, RefusedAt
<1>8. ASSUME NEW cl \in Clients, Toggle(cl) \/ \E q \in 0..2 : Drain(cl, q) PROVE SlotInv'
  <2>1. UNCHANGED <<hnd, wire, pc, counter, phase, qos, cut, stray, dedup, refused>>
    BY <1>8 DEF Toggle, Drain, connVars, clientVars, ghostVars
  <2> QED
    BY <2>1, SlotStutter
<1> QED
  BY <1>1, <1>2, <1>3, <1>4, <1>5, <1>6, <1>7, <1>8 DEF Next

\* A client within Receive Maximum is refused only for one of the two reasons HealthyNotRefused
\* names (conn.go:908-944, 1004-1032): every slot that is counted on a socket belongs to an open
\* message, or to one whose row another PUBREL deleted.
THEOREM HealthyNeverRefused == Spec => []HealthyNotRefused
<1>1. Init => IInv /\ ClientInv /\ SlotInv
  <2> SUFFICES ASSUME Init PROVE IInv /\ ClientInv /\ SlotInv
    OBVIOUS
  <2>1. IInv /\ ClientInv
    BY InitInv, ClientInit
  <2>2. \A c \in Conns : pc[c] = "idle" /\ ~cut[c] /\ ~hnd[c].slot
    BY DEF Init, Idle
  <2>3. SlotInv
    BY <2>2 DEF Init, SlotInv, SlotAt, SlotOf, Using
  <2> QED
    BY <2>1, <2>3
<1>2. (IInv /\ ClientInv /\ SlotInv) /\ [Next]_vars => (IInv /\ ClientInv /\ SlotInv)'
  <2> SUFFICES ASSUME IInv, ClientInv, SlotInv, [Next]_vars PROVE (IInv /\ ClientInv /\ SlotInv)'
    OBVIOUS
  <2>1. IInv'
    BY NextInv
  <2>2. CASE Next
    BY <2>1, <2>2, ClientStep, SlotStep
  <2>3. CASE UNCHANGED vars
    <3>1. UNCHANGED <<hnd, wire, pc, counter, phase, qos, cut, stray, dedup, refused>>
      BY <2>3 DEF vars, tableVars, connVars, clientVars, ghostVars
    <3>2. SlotInv'
      BY <3>1, SlotStutter
    <3> QED
      BY <2>1, <2>3, <3>2, ClientStutter
  <2> QED
    BY <2>2, <2>3
<1>3. SlotInv => HealthyNotRefused
  BY DEF SlotInv, RefusedAt, HealthyNotRefused
<1> QED
  BY <1>1, <1>2, <1>3, PTL DEF Spec
=============================================================================
