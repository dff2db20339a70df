--------------------------- MODULE DeliveryProofs ---------------------------
(***************************************************************************)
(* Proofs about Delivery, for any rows, sockets, Receive Maximum, range of *)
(* packet ids and number of retries.  First the types, which rest on what  *)
(* a worker knows of the row it is at; then that a row is sent as new at   *)
(* most once; then that the slots of the window match the claimed rows.    *)
(***************************************************************************)
EXTENDS Delivery, FiniteSetTheorems, WellFoundedInduction, TLAPS

-----------------------------------------------------------------------------
(* Least and largest elements.                                             *)

\* ORDER BY id has a first row: a set of naturals has a least element.
LEMMA LeastOf ==
    ASSUME NEW S \in SUBSET Nat, S # {}
    PROVE  \E m \in S : \A n \in S : m <= n
<1> DEFINE R == OpToRel(<, Nat)
<1>1. IsWellFoundedOn(R, Nat)
  BY NatLessThanWellFounded, Zenon
<1>2. \A x, y \in Nat : x < y => <<x, y>> \in R
  BY DEF OpToRel
<1> HIDE DEF R
<1>3. PICK m \in S : \A n \in S : ~(<<n, m>> \in R)
  BY <1>1, WFMin
<1>4. \A n \in S : ~(n < m)
  BY <1>2, <1>3
<1> QED
  BY <1>4

\* MAX(packet_id): a set of naturals below a bound has a largest element.
LEMMA LargestOf ==
    ASSUME NEW N \in Nat, NEW S \in SUBSET (0..N), S # {}
    PROVE  \E m \in S : \A n \in S : n <= m
<1> DEFINE T == {N - n : n \in S}
<1>1. T \in SUBSET Nat /\ T # {}
  <2>1. \A n \in S : N - n \in Nat
    OBVIOUS
  <2> QED
    BY <2>1
<1>2. PICK t \in T : \A u \in T : t <= u
  <2> HIDE DEF T
  <2> QED
    BY <1>1, LeastOf
<1>3. PICK m \in S : t = N - m
  OBVIOUS
<1>4. \A n \in S : N - m <= N - n
  BY <1>2, <1>3
<1> QED
  BY <1>4

-----------------------------------------------------------------------------
(* What a worker knows of the row it is at.                                *)

Busy(w) == wpc[w] \in {"alloc", "claim", "write"}

\* A worker on its way has a row to deliver; the rows it has read exist; what it read as sent
\* has a packet id, and what it is about to write with QoS > 0 has one by then.
WorkerOK(w) ==
    /\ wpc[w] = "take" \/ Busy(w) => job[w] # {}
    /\ \A it \in job[w] : rows[it.id].st # "absent" /\ (it.st = "queued" \/ it.pid \in Pids)
    /\ Busy(w) => conn[w] \in Conns
    /\ wpc[w] \in {"alloc", "claim"} => Cur(w).st = "queued"
    /\ wpc[w] = "alloc" => qos[Cur(w).id] > 0
    /\ wpc[w] \in {"claim", "write"} => pid[w] \in Pids \/ qos[Cur(w).id] = 0

IInv == TypeOK /\ \A w \in Workers : WorkerOK(w)

\* No row becomes one that was never inserted, and QoS is set once.
RowsStay == \A i \in Ids : rows[i].st # "absent" => rows'[i].st # "absent" /\ qos'[i] = qos[i]

\* A worker with rows to deliver is at one of them.
LEMMA CurIn ==
    ASSUME TypeOK, NEW w \in Workers, job[w] # {}
    PROVE  /\ Cur(w) \in job[w]
           /\ Cur(w) \in Item
           /\ Cur(w).id \in Ids
           /\ \A other \in job[w] : Cur(w).id <= other.id
<1>1. job[w] \in SUBSET Item
  BY DEF TypeOK
<1> DEFINE S == {it.id : it \in job[w]}
<1>2. S \in SUBSET Nat /\ S # {}
  BY <1>1, IdsAssumption DEF Item
<1>3. PICK m \in S : \A n \in S : m <= n
  <2> HIDE DEF S
  <2> QED
    BY <1>2, LeastOf
<1>4. \E it \in job[w] : \A other \in job[w] : it.id <= other.id
  BY <1>3
<1>5. Cur(w) \in job[w] /\ \A other \in job[w] : Cur(w).id <= other.id
  BY <1>4 DEF Cur
<1>6. Cur(w) \in Item
  BY <1>1, <1>5
<1>7. Cur(w).id \in Ids
  BY <1>6 DEF Item
<1> QED
  BY <1>5, <1>6, <1>7

\* A worker whose list stays is at the same row.
LEMMA CurSame ==
    ASSUME NEW w \in Workers, job'[w] = job[w]
    PROVE  Cur(w)' = Cur(w)
BY DEF Cur

\* The other workers do not notice what a step does to rows and to somebody else's list.
LEMMA Frame ==
    ASSUME NEW v \in Workers, TypeOK, WorkerOK(v), RowsStay,
           wpc'[v] = wpc[v], job'[v] = job[v], conn'[v] = conn[v], pid'[v] = pid[v]
    PROVE  WorkerOK(v)'
<1>1. Cur(v)' = Cur(v)
  BY CurSame
<1>2. \A it \in job[v] : it.id \in Ids
  BY DEF TypeOK, Item
<1>3. Busy(v)' <=> Busy(v)
  BY DEF Busy
<1>4. \A it \in job'[v] : rows'[it.id].st # "absent" /\ (it.st = "queued" \/ it.pid \in Pids)
  BY <1>2 DEF WorkerOK, RowsStay
<1>5. ASSUME Busy(v) PROVE qos'[Cur(v).id] = qos[Cur(v).id]
  <2>1. Cur(v) \in job[v]
    BY <1>5, CurIn DEF WorkerOK
  <2> QED
    BY <2>1, <1>2 DEF WorkerOK, RowsStay
<1> QED
  BY <1>1, <1>3, <1>4, <1>5 DEF WorkerOK, Busy, Pids

\* What deliverOneTracked leaves behind when it returns.
LEMMA FinishEffect ==
    ASSUME NEW w \in Workers, NEW result, TypeOK, job[w] # {}, Finish(w, result)
    PROVE  /\ job' \in [Workers -> SUBSET Item]
           /\ wpc' \in [Workers -> {"idle", "scan", "take", "alloc", "claim", "write"}]
           /\ run' \in [Conns -> {"resume", "loop"}]
           /\ job'[w] \subseteq job[w]
           /\ wpc'[w] \in {"idle", "scan", "take"}
           /\ wpc'[w] = "take" => job'[w] # {}
           /\ \A v \in Workers \ {w} : wpc'[v] = wpc[v] /\ job'[v] = job[v]
<1> DEFINE rest == IF result = "error" THEN {} ELSE job[w] \ {Cur(w)}
           draining == w # L /\ run[w] = "loop"
           next == IF rest # {} THEN "take"
                   ELSE IF draining /\ result = "sent" THEN "scan" ELSE "idle"
<1>1. /\ job' = [job EXCEPT ![w] = rest]
      /\ wpc' = [wpc EXCEPT ![w] = next]
      /\ run' = [c \in Conns |-> IF c = w /\ rest = {} THEN "loop" ELSE run[c]]
  BY DEF Finish
<1>2. rest \subseteq job[w] /\ next \in {"idle", "scan", "take"} /\ (next = "take" => rest # {})
  OBVIOUS
<1> HIDE DEF rest, next
<1>3. job \in [Workers -> SUBSET Item] /\ run \in [Conns -> {"resume", "loop"}]
      /\ wpc \in [Workers -> {"idle", "scan", "take", "alloc", "claim", "write"}]
  BY DEF TypeOK
<1> QED
  BY <1>1, <1>2, <1>3

\* A worker that has returned.
LEMMA Returned ==
    ASSUME NEW w \in Workers, TypeOK, WorkerOK(w), RowsStay,
           job'[w] \subseteq job[w], wpc'[w] \in {"idle", "scan", "take"},
           wpc'[w] = "take" => job'[w] # {}
    PROVE  WorkerOK(w)'
<1>1. \A it \in job[w] : it.id \in Ids
  BY DEF TypeOK, Item
<1>2. \A it \in job'[w] : rows'[it.id].st # "absent" /\ (it.st = "queued" \/ it.pid \in Pids)
  BY <1>1 DEF WorkerOK, RowsStay
<1> QED
  BY <1>2 DEF WorkerOK, Busy, Pids
-----------------------------------------------------------------------------
(* Types: one lemma per action that does more than copy, in the order of   *)
(* the specification.                                                      *)

\* Every action but those of a worker leaves the workers and their rows alone.
LEMMA WorkersAlone ==
    ASSUME IInv, RowsStay, UNCHANGED <<wpc, job, conn, pid>>
    PROVE  \A w \in Workers : WorkerOK(w)'
BY Frame DEF IInv

\* The types of what a row can become.
LEMMA RowTypes ==
    ASSUME TypeOK, NEW i \in Ids
    PROVE  /\ rows[i] \in Row
           /\ rows[i].st \in {"absent", "queued", "gone"} => rows[i].pid = 0
           /\ rows[i].st \in {"inflight", "awaiting_pubcomp"} => rows[i].pid \in Pids
           /\ rows[i].st \in {"absent", "queued", "gone", "inflight", "awaiting_pubcomp"}
           /\ rows[i].pid \in 0..PidMax
           /\ Live(i) => AsItem(i) \in Item /\ rows[i].st # "absent"
                         /\ (rows[i].st = "queued" \/ rows[i].pid \in Pids)
<1>1. rows[i] \in Row
  BY DEF TypeOK
<1>2. CASE rows[i] \in [st : {"absent", "queued", "gone"}, pid : {0}]
  BY <1>1, <1>2, LimitsAssumption DEF Live, AsItem, Item, Pids
<1>3. CASE rows[i] \in [st : {"inflight", "awaiting_pubcomp"}, pid : Pids]
  <2>1. rows[i].pid \in 0..PidMax
    BY <1>3, LimitsAssumption DEF Pids
  <2> QED
    BY <1>1, <1>3, <2>1 DEF Live, AsItem, Item
<1> QED
  BY <1>1, <1>2, <1>3 DEF Row

\* Inserting a row: nobody has read it before.
LEMMA PublishStep ==
    ASSUME IInv, NEW i \in Ids, NEW q \in Qoss[i], Publish(i, q)
    PROVE  IInv'
<1> USE DEF Publish, connVars, slotVars, workVars, packetVars, clientVars
<1>1. rows[i].st = "absent" /\ rows[i] \in Row /\ rows[i].pid = 0
  BY RowTypes DEF IInv
<1>2. [rows[i] EXCEPT !.st = "queued"] \in Row
  BY <1>1 DEF Row
<1>3. rows' \in [Ids -> Row]
  BY <1>2 DEF IInv, TypeOK
<1>4. notes' \in Seq(Ids) /\ qos' \in [Ids -> 0..2]
  <2>1. q \in 0..2
    BY LimitsAssumption
  <2> QED
    BY <2>1 DEF IInv, TypeOK
<1>5. TypeOK'
  BY <1>3, <1>4 DEF IInv, TypeOK
<1>6. RowsStay
  BY <1>1 DEF RowsStay, IInv, TypeOK
<1> QED
  BY <1>5, <1>6, WorkersAlone DEF IInv

\* Expiry, sockets and the listener's session: nothing of the workers changes but that a new
\* Conn starts with its resume.
LEMMA SurroundingsStep ==
    ASSUME IInv, Surroundings
    PROVE  IInv'
<1> USE DEF rowVars, lstVars, connVars, slotVars, workVars, packetVars, clientVars
<1>1. ASSUME NEW i \in Ids, Expire(i) PROVE IInv'
  <2>1. TypeOK'
    BY <1>1, InputsAssumption DEF IInv, TypeOK, Expire
  <2> QED
    BY <1>1, <2>1, WorkersAlone DEF IInv, Expire, RowsStay
<1>2. ASSUME NEW c \in Conns, Connect(c) PROVE IInv'
  <2>1. TypeOK'
    BY <1>2 DEF IInv, TypeOK, Connect, Workers
  <2>2. RowsStay
    BY <1>2 DEF Connect, RowsStay
  <2>3. \A v \in Workers \ {c} : wpc'[v] = wpc[v]
    BY <1>2 DEF Connect, IInv, TypeOK
  <2>4. c \in Workers /\ wpc'[c] = "scan"
    BY <1>2 DEF Connect, IInv, TypeOK, Workers
  <2>5. \A v \in Workers \ {c} : WorkerOK(v)'
    BY <1>2, <2>2, <2>3, Frame DEF IInv, Connect
  <2>6. WorkerOK(c)'
    BY <1>2, <2>2, <2>4, Returned DEF IInv, Connect
  <2> QED
    BY <2>1, <2>5, <2>6 DEF IInv
<1>3. ASSUME NEW c \in Conns, Cut(c) \/ Close(c) PROVE IInv'
  <2>1. TypeOK'
    BY <1>3 DEF IInv, TypeOK, Cut, Close
  <2> QED
    BY <1>3, <2>1, WorkersAlone DEF IInv, Cut, Close, RowsStay
<1>4. ASSUME ListenerDrop PROVE IInv'
  <2>1. TypeOK'
    BY <1>4, LimitsAssumption DEF IInv, TypeOK, ListenerDrop
  <2> QED
    BY <1>4, <2>1, WorkersAlone DEF IInv, ListenerDrop, RowsStay
<1> QED
  BY <1>1, <1>2, <1>3, <1>4, PublishStep DEF Surroundings
\* A worker that has read new rows.
LEMMA Reads ==
    ASSUME NEW w \in Workers, NEW read \in SUBSET Ids, IInv, RowsStay, rows' = rows,
           \A i \in read : Live(i),
           job' = [job EXCEPT ![w] = {AsItem(i) : i \in read}],
           wpc' = [wpc EXCEPT ![w] = IF read = {} THEN "idle" ELSE "take"],
           UNCHANGED <<conn, pid>>
    PROVE  /\ job' \in [Workers -> SUBSET Item]
           /\ wpc' \in [Workers -> {"idle", "scan", "take", "alloc", "claim", "write"}]
           /\ \A v \in Workers : WorkerOK(v)'
<1>1. TypeOK /\ job \in [Workers -> SUBSET Item]
      /\ wpc \in [Workers -> {"idle", "scan", "take", "alloc", "claim", "write"}]
  BY DEF IInv, TypeOK
<1>2. \A i \in read : AsItem(i) \in Item /\ rows[i].st # "absent"
                      /\ (rows[i].st = "queued" \/ rows[i].pid \in Pids)
  BY <1>1, RowTypes
<1>3. job' \in [Workers -> SUBSET Item] /\ job'[w] = {AsItem(i) : i \in read}
  BY <1>1, <1>2
<1>4. /\ wpc' \in [Workers -> {"idle", "scan", "take", "alloc", "claim", "write"}]
      /\ wpc'[w] \in {"idle", "take"} /\ (wpc'[w] = "take" => read # {})
  BY <1>1
<1>5. \A v \in Workers \ {w} : wpc'[v] = wpc[v] /\ job'[v] = job[v]
  BY <1>1
<1>6. \A v \in Workers \ {w} : WorkerOK(v)'
  BY <1>1, <1>5, Frame DEF IInv
<1>7. \A it \in job'[w] : rows'[it.id].st # "absent" /\ (it.st = "queued" \/ it.pid \in Pids)
  BY <1>2, <1>3 DEF AsItem
<1>8. wpc'[w] = "take" => job'[w] # {}
  BY <1>3, <1>4
<1>9. WorkerOK(w)'
  BY <1>4, <1>7, <1>8 DEF WorkerOK, Busy, Pids
<1> QED
  BY <1>3, <1>4, <1>6, <1>9

LEMMA DeliverScanStep ==
    ASSUME IInv, DeliverScan
    PROVE  IInv'
<1> USE DEF rowVars, lstVars, connVars, slotVars, workVars, packetVars, clientVars
<1> DEFINE i == Head(notes)
<1>1. i \in Ids /\ notes' \in Seq(Ids)
  BY DEF DeliverScan, IInv, TypeOK
<1>2. RowsStay /\ rows' = rows
  BY DEF DeliverScan, RowsStay
<1>3. L \in Workers
  BY DEF Workers
<1>4. CASE rows[i].st = "queued" /\ i \notin expired
  <2> DEFINE read == {i}
  <2>1. read \in SUBSET Ids /\ read # {} /\ \A j \in read : Live(j)
    BY <1>1, <1>4 DEF Live
  <2>2. {AsItem(j) : j \in read} = {AsItem(i)}
    OBVIOUS
  <2>3. /\ job' = [job EXCEPT ![L] = {AsItem(j) : j \in read}]
        /\ wpc' = [wpc EXCEPT ![L] = IF read = {} THEN "idle" ELSE "take"]
        /\ UNCHANGED <<conn, pid>>
    BY <1>4, <2>1, <2>2 DEF DeliverScan
  <2> HIDE DEF read, i
  <2>4. /\ job' \in [Workers -> SUBSET Item]
        /\ wpc' \in [Workers -> {"idle", "scan", "take", "alloc", "claim", "write"}]
        /\ \A v \in Workers : WorkerOK(v)'
    BY <1>2, <1>3, <2>1, <2>3, Reads
  <2>5. TypeOK'
    BY <1>1, <2>4 DEF IInv, TypeOK, DeliverScan
  <2> QED
    BY <2>4, <2>5 DEF IInv
<1>5. CASE ~(rows[i].st = "queued" /\ i \notin expired)
  <2>1. UNCHANGED <<wpc, job, conn, pid>>
    BY <1>5 DEF DeliverScan
  <2>2. TypeOK'
    BY <1>1, <2>1 DEF IInv, TypeOK, DeliverScan
  <2> QED
    BY <1>2, <2>1, <2>2, WorkersAlone DEF IInv
<1> QED
  BY <1>4, <1>5

LEMMA DeliverScanFailsStep ==
    ASSUME IInv, DeliverScanFails
    PROVE  IInv'
<1> USE DEF rowVars, lstVars, connVars, slotVars, workVars, packetVars, clientVars
<1>1. notes' \in Seq(Ids) /\ errs' \in 0..MaxErrs
  BY LimitsAssumption DEF DeliverScanFails, IInv, TypeOK
<1>2. TypeOK'
  BY <1>1 DEF IInv, TypeOK, DeliverScanFails
<1> QED
  BY <1>2, WorkersAlone DEF IInv, DeliverScanFails, RowsStay

LEMMA ResumeScanStep ==
    ASSUME IInv, NEW c \in Conns, ResumeScan(c)
    PROVE  IInv'
<1> USE DEF rowVars, lstVars, connVars, slotVars, workVars, packetVars, clientVars
<1> DEFINE read == {j \in Ids \ expired : Live(j)}
           items == {AsItem(i) : i \in read}
<1>1. RowsStay /\ rows' = rows /\ c \in Workers
  BY DEF ResumeScan, RowsStay, Workers
<1>2. read \in SUBSET Ids /\ (\A i \in read : Live(i)) /\ (items = {} <=> read = {})
  OBVIOUS
<1>3. /\ job' = [job EXCEPT ![c] = items]
      /\ wpc' = [wpc EXCEPT ![c] = IF read = {} THEN "idle" ELSE "take"]
      /\ run' = [run EXCEPT ![c] = IF read = {} THEN "loop" ELSE @]
      /\ UNCHANGED <<conn, pid>>
  BY <1>2 DEF ResumeScan
<1>4. run' \in [Conns -> {"resume", "loop"}]
  <2> HIDE DEF read, items
  <2> QED
    BY <1>3 DEF IInv, TypeOK
<1>5. /\ job' \in [Workers -> SUBSET Item]
      /\ wpc' \in [Workers -> {"idle", "scan", "take", "alloc", "claim", "write"}]
      /\ \A v \in Workers : WorkerOK(v)'
  <2> HIDE DEF read
  <2> QED
    BY <1>1, <1>2, <1>3, Reads
<1>6. TypeOK'
  BY <1>4, <1>5 DEF IInv, TypeOK, ResumeScan
<1> QED
  BY <1>5, <1>6 DEF IInv

LEMMA DrainStep ==
    ASSUME IInv, NEW c \in Conns, DrainWake(c) \/ DrainScan(c)
    PROVE  IInv'
<1> USE DEF rowVars, lstVars, connVars, slotVars, workVars, packetVars, clientVars
<1>1. RowsStay /\ rows' = rows /\ c \in Workers
  BY DEF DrainWake, DrainScan, RowsStay, Workers
<1> DEFINE queue == {i \in Ids \ expired : rows[i].st = "queued" /\ qos[i] > 0}
           done == pc[c] = "closed" \/ queue = {}
<1>2. CASE DrainWake(c) \/ (DrainScan(c) /\ done)
  <2>1. UNCHANGED <<job, conn, pid>> /\ wpc'[c] \in {"idle", "scan"}
        /\ \A v \in Workers \ {c} : wpc'[v] = wpc[v]
    BY <1>1, <1>2 DEF DrainWake, DrainScan, IInv, TypeOK
  <2>2. TypeOK'
    BY <1>1, <1>2, <2>1 DEF DrainWake, DrainScan, IInv, TypeOK
  <2>3. \A v \in Workers \ {c} : WorkerOK(v)'
    BY <1>1, <2>1, Frame DEF IInv
  <2>4. WorkerOK(c)'
    BY <1>1, <2>1, Returned DEF IInv
  <2> QED
    BY <2>2, <2>3, <2>4 DEF IInv
<1>3. CASE DrainScan(c) /\ ~done
  <2> DEFINE first == CHOOSE i \in queue : \A j \in queue : i <= j
             read == {first}
  <2>1. queue # {} /\ queue \in SUBSET Nat
    BY <1>3, IdsAssumption
  <2>2. first \in queue
    <3> HIDE DEF queue
    <3> QED
      BY <2>1, LeastOf
  <2>3. read \in SUBSET Ids /\ read # {} /\ \A i \in read : Live(i)
    <3> HIDE DEF first
    <3> QED
      BY <2>2 DEF Live
  <2>4. {AsItem(i) : i \in read} = {AsItem(first)}
    <3> HIDE DEF first
    <3> QED
      OBVIOUS
  <2>5. /\ job' = [job EXCEPT ![c] = {AsItem(i) : i \in read}]
        /\ wpc' = [wpc EXCEPT ![c] = IF read = {} THEN "idle" ELSE "take"]
        /\ UNCHANGED <<conn, pid>>
    BY <1>3, <2>3, <2>4 DEF DrainScan
  <2>6. /\ job' \in [Workers -> SUBSET Item]
        /\ wpc' \in [Workers -> {"idle", "scan", "take", "alloc", "claim", "write"}]
        /\ \A v \in Workers : WorkerOK(v)'
    <3> HIDE DEF read
    <3> QED
      BY <1>1, <2>3, <2>5, Reads
  <2>7. TypeOK'
    <3> HIDE DEF read, first, queue, done
    <3> QED
      BY <1>3, <2>6 DEF IInv, TypeOK, DrainScan
  <2> QED
    BY <2>6, <2>7 DEF IInv
<1> QED
  BY <1>2, <1>3

LEMMA ScanFailsStep ==
    ASSUME IInv, NEW c \in Conns, ScanFails(c)
    PROVE  IInv'
<1> USE DEF rowVars, connVars, slotVars, packetVars, clientVars
<1>1. TypeOK /\ c \in Workers /\ RowsStay /\ UNCHANGED <<job, conn, pid>>
  BY DEF ScanFails, IInv, RowsStay, Workers
<1>2. /\ errs' \in 0..MaxErrs /\ UNCHANGED <<notes, deaf, drops>>
  <2>1. errs \in 0..MaxErrs /\ MaxErrs \in Nat
    BY LimitsAssumption DEF IInv, TypeOK
  <2> QED
    BY <2>1 DEF ScanFails, Fails
<1>3. /\ wpc' \in [Workers -> {"idle", "scan", "take", "alloc", "claim", "write"}]
      /\ run' \in [Conns -> {"resume", "loop"}]
      /\ wpc'[c] = "idle" /\ \A v \in Workers \ {c} : wpc'[v] = wpc[v]
  BY <1>1 DEF ScanFails, TypeOK
<1>4. TypeOK'
  BY <1>1, <1>2, <1>3 DEF ScanFails, TypeOK
<1>5. \A v \in Workers \ {c} : WorkerOK(v)'
  BY <1>1, <1>3, Frame DEF IInv
<1>6. WorkerOK(c)'
  BY <1>1, <1>3, Returned DEF IInv
<1> QED
  BY <1>4, <1>5, <1>6 DEF IInv

\* What a failing statement leaves behind, and what the histories may hold.
LEMMA FailsTypes ==
    ASSUME TypeOK, Fails
    PROVE  errs' \in 0..MaxErrs /\ UNCHANGED <<notes, deaf, drops>>
<1>1. errs \in 0..MaxErrs /\ MaxErrs \in Nat
  BY LimitsAssumption DEF TypeOK
<1> QED
  BY <1>1 DEF Fails

LEMMA SettleTypes ==
    ASSUME TypeOK, NEW c \in Conns, NEW S, NEW frees, Settle(c, S, frees) \/ KeepHistory
    PROVE  via' \in [Ids -> Conns \cup {None}] /\ extra' \in [Conns -> Nat]
<1>1. via \in [Ids -> Conns \cup {None}] /\ extra \in [Conns -> Nat]
  BY DEF TypeOK
<1>2. CASE KeepHistory
  BY <1>1, <1>2 DEF KeepHistory
<1>3. CASE Settle(c, S, frees)
  <2>1. PICK n \in {extra[c], extra[c] + 1} : extra' = [extra EXCEPT ![c] = n]
    BY <1>3 DEF Settle
  <2>2. n \in Nat
    BY <1>1, <2>1
  <2>3. extra' \in [Conns -> Nat]
    BY <1>1, <2>1, <2>2
  <2>4. via' \in [Ids -> Conns \cup {None}]
    BY <1>1, <1>3 DEF Settle
  <2> QED
    BY <2>3, <2>4
<1> QED
  BY <1>2, <1>3

\* All workers, after one of them has returned from deliverOneTracked.
LEMMA Finished ==
    ASSUME IInv, NEW w \in Workers, NEW result, wpc[w] = "take" \/ Busy(w), Finish(w, result),
           RowsStay, UNCHANGED <<conn, pid>>
    PROVE  /\ job' \in [Workers -> SUBSET Item]
           /\ wpc' \in [Workers -> {"idle", "scan", "take", "alloc", "claim", "write"}]
           /\ run' \in [Conns -> {"resume", "loop"}]
           /\ \A v \in Workers : WorkerOK(v)'
<1>1. TypeOK /\ job[w] # {} /\ \A v \in Workers : WorkerOK(v)
  BY DEF IInv, WorkerOK
<1>2. /\ job' \in [Workers -> SUBSET Item]
      /\ wpc' \in [Workers -> {"idle", "scan", "take", "alloc", "claim", "write"}]
      /\ run' \in [Conns -> {"resume", "loop"}]
      /\ job'[w] \subseteq job[w]
      /\ wpc'[w] \in {"idle", "scan", "take"}
      /\ wpc'[w] = "take" => job'[w] # {}
      /\ \A v \in Workers \ {w} : wpc'[v] = wpc[v] /\ job'[v] = job[v]
  BY <1>1, FinishEffect
<1>3. \A v \in Workers \ {w} : WorkerOK(v)'
  BY <1>1, <1>2, Frame
<1>4. WorkerOK(w)'
  BY <1>1, <1>2, Returned
<1> QED
  BY <1>2, <1>3, <1>4

\* The three ways out before a slot is taken.
LEMMA SkipStep ==
    ASSUME IInv, NEW w \in Workers, SkipUnconnected(w) \/ DropUndeliverable(w) \/ SkipNoSlot(w)
    PROVE  IInv'
<1> USE DEF rowVars, lstVars, connVars, slotVars, packetVars, clientVars
<1>1. wpc[w] = "take" /\ Finish(w, "skip") /\ UNCHANGED <<conn, pid>>
  BY DEF SkipUnconnected, DropUndeliverable, SkipNoSlot, Deliverable, Taking
<1>2. Cur(w).id \in Ids
  BY <1>1, CurIn DEF IInv, WorkerOK
<1>3. rows' \in [Ids -> Row] /\ RowsStay
  <2>1. rows \in [Ids -> Row] /\ Gone \in Row /\ Gone.st = "gone"
    BY DEF IInv, TypeOK, Gone, Row
  <2>2. UNCHANGED qos /\ (rows' = rows \/ rows' = [rows EXCEPT ![Cur(w).id] = Gone])
    BY DEF SkipUnconnected, DropUndeliverable, SkipNoSlot
  <2> QED
    BY <1>2, <2>1, <2>2 DEF RowsStay
<1>4. aliasOut' \in [Conns -> BOOLEAN]
  <2>1. CASE UNCHANGED aliasOut
    BY <2>1 DEF IInv, TypeOK
  <2>2. CASE ResolveAlias(reg) /\ reg # None
    BY <2>2, InputsAssumption DEF ResolveAlias, IInv, TypeOK
  <2> QED
    BY <2>1, <2>2 DEF SkipUnconnected, DropUndeliverable, SkipNoSlot, Deliverable
<1>5. /\ job' \in [Workers -> SUBSET Item]
      /\ wpc' \in [Workers -> {"idle", "scan", "take", "alloc", "claim", "write"}]
      /\ run' \in [Conns -> {"resume", "loop"}]
      /\ \A v \in Workers : WorkerOK(v)'
  BY <1>1, <1>3, Finished
<1>6. errs' \in 0..MaxErrs /\ UNCHANGED <<notes, deaf, drops>>
  <2>1. Fails \/ UNCHANGED lstVars
    BY DEF SkipUnconnected, DropUndeliverable, SkipNoSlot
  <2> QED
    BY <2>1, FailsTypes DEF IInv, TypeOK
<1>7. UNCHANGED <<qos, expired, pc, reg, slotVars, kick, pidState, seeded, handling, packetVars,
                   cut, clientVars>>
  BY DEF SkipUnconnected, DropUndeliverable, SkipNoSlot
<1>8. TypeOK'
  BY <1>3, <1>4, <1>5, <1>6, <1>7 DEF IInv, TypeOK
<1> QED
  BY <1>5, <1>8 DEF IInv

LEMMA BeginStep ==
    ASSUME IInv, NEW w \in Workers, Begin(w)
    PROVE  IInv'
<1> USE DEF rowVars, lstVars, connVars, slotVars, packetVars, clientVars
<1>1. wpc[w] = "take" /\ reg \in Conns /\ Cur(w).st # "awaiting_pubcomp"
  BY DEF Begin, Deliverable, Taking, IInv, TypeOK
<1>2. job[w] # {} /\ Cur(w) \in job[w] /\ Cur(w) \in Item /\ Cur(w).id \in Ids
  BY <1>1, CurIn DEF IInv, WorkerOK
<1>3. Cur(w).pid \in 0..PidMax /\ Cur(w).st \in {"queued", "inflight"} /\ qos[Cur(w).id] \in 0..2
  BY <1>1, <1>2 DEF Item, IInv, TypeOK
<1>4. /\ UNCHANGED <<rows, qos, job>> /\ Cur(w)' = Cur(w)
      /\ conn' = [conn EXCEPT ![w] = reg] /\ pid' = [pid EXCEPT ![w] = Cur(w).pid]
      /\ wpc' = [wpc EXCEPT ![w] = IF NeedsSlot(w) THEN "alloc"
                                  ELSE IF Cur(w).st = "inflight" THEN "write" ELSE "claim"]
  BY CurSame DEF Begin
<1>5. /\ wpc' \in [Workers -> {"idle", "scan", "take", "alloc", "claim", "write"}]
      /\ conn' \in [Workers -> Conns \cup {None}] /\ pid' \in [Workers -> 0..PidMax]
      /\ \A v \in Workers \ {w} : wpc'[v] = wpc[v] /\ conn'[v] = conn[v] /\ pid'[v] = pid[v]
      /\ conn'[w] = reg /\ pid'[w] = Cur(w).pid
      /\ wpc'[w] = IF NeedsSlot(w) THEN "alloc"
                                   ELSE IF Cur(w).st = "inflight" THEN "write" ELSE "claim"
  BY <1>1, <1>3, <1>4 DEF IInv, TypeOK
<1>6. slots' \in [Conns -> 0..Cap]
  <2>1. slots[reg] \in 0..Cap /\ Cap \in Nat /\ slots \in [Conns -> 0..Cap]
    BY <1>1, LimitsAssumption DEF IInv, TypeOK
  <2>2. (IF NeedsSlot(w) THEN slots[reg] + 1 ELSE slots[reg]) \in 0..Cap
    BY <2>1 DEF Begin
  <2> QED
    BY <1>1, <2>1, <2>2 DEF Begin
<1>7. aliasOut' \in [Conns -> BOOLEAN] /\ bare' \in [Workers -> BOOLEAN]
  BY <1>1, InputsAssumption DEF Begin, ResolveAlias, IInv, TypeOK
<1>8. TypeOK'
  BY <1>4, <1>5, <1>6, <1>7 DEF Begin, KeepHistory, IInv, TypeOK
<1>9. \A v \in Workers \ {w} : WorkerOK(v)'
  BY <1>4, <1>5, Frame DEF IInv, RowsStay
<1>10. WorkerOK(w)'
  <2>1. \A it \in job[w] : rows[it.id].st # "absent" /\ (it.st = "queued" \/ it.pid \in Pids)
    BY DEF IInv, WorkerOK
  <2>2. Cur(w).st = "inflight" => Cur(w).pid \in Pids
    BY <1>2, <2>1
  <2>3. wpc'[w] \in {"alloc", "claim"} => Cur(w).st = "queued"
    BY <1>3, <1>5 DEF NeedsSlot
  <2>4. wpc'[w] = "alloc" => qos[Cur(w).id] > 0
    BY <1>5 DEF NeedsSlot
  <2>5. wpc'[w] \in {"claim", "write"} => pid'[w] \in Pids \/ qos[Cur(w).id] = 0
    BY <1>3, <1>5, <2>2 DEF NeedsSlot
  <2> QED
    BY <1>1, <1>2, <1>4, <1>5, <2>1, <2>3, <2>4, <2>5 DEF WorkerOK, Busy, Pids
<1> QED
  BY <1>8, <1>9, <1>10 DEF IInv

\* returnInflight keeps the count within the window.
LEMMA ReturnTypes ==
    ASSUME TypeOK, NEW c \in Conns, ReturnInflight(c) \/ KeepInflight
    PROVE  slots' \in [Conns -> 0..Cap] /\ kick' \in [Conns -> BOOLEAN]
<1>1. slots \in [Conns -> 0..Cap] /\ kick \in [Conns -> BOOLEAN] /\ Cap \in Nat
  BY LimitsAssumption DEF TypeOK
<1>2. (IF slots[c] = 0 THEN 0 ELSE slots[c] - 1) \in 0..Cap
  BY <1>1
<1> QED
  BY <1>1, <1>2 DEF ReturnInflight, KeepInflight

\* nextPacketIDCandidate stays within 1..PidMax, also when it wraps, and the seed within
\* 0..PidMax.
LEMMA CandidateTypes ==
    ASSUME NEW base \in 0..PidMax, NEW k \in Nat \ {0}
    PROVE  Candidate(base, k) \in Pids
<1>1. PidMax \in Nat \ {0}
  BY LimitsAssumption
<1>2. base + k - 1 \in Nat
  BY <1>1
<1>3. (base + k - 1) % PidMax \in 0..(PidMax - 1)
  BY <1>1, <1>2
<1> QED
  BY <1>1, <1>3 DEF Candidate, Pids

LEMMA SeedTypes ==
    ASSUME TypeOK
    PROVE  Seed \in 0..PidMax
<1> DEFINE used == {rows[i].pid : i \in {j \in Ids : Live(j)}} \cup {0}
<1>1. used \in SUBSET (0..PidMax) /\ used # {} /\ PidMax \in Nat
  BY RowTypes, LimitsAssumption
<1>2. Seed = CHOOSE p \in used : \A q \in used : q <= p
  BY DEF Seed
<1> HIDE DEF used
<1>3. \E p \in used : \A q \in used : q <= p
  BY <1>1, LargestOf
<1> QED
  BY <1>1, <1>2, <1>3

\* AllocPacketID, whether it finds a free id or gives up.
LEMMA AllocStep ==
    ASSUME IInv, NEW w \in Workers, Alloc(w)
    PROVE  IInv'
<1> USE DEF rowVars, lstVars, clientVars
<1> DEFINE base == IF seeded[conn[w]] THEN pidState[conn[w]] ELSE Seed
           free == {k \in 1..MaxRetries : ~InUse(Candidate(base, k))}
           k1 == CHOOSE k \in free : \A j \in free : k <= j
<1>1. TypeOK /\ wpc[w] = "alloc" /\ WorkerOK(w) /\ conn[w] \in Conns
  BY DEF Alloc, IInv, WorkerOK, Busy
<1>2. base \in 0..PidMax
  <2>1. Seed \in 0..PidMax /\ pidState[conn[w]] \in 0..PidMax
    BY <1>1, SeedTypes DEF TypeOK
  <2> QED
    BY <2>1
<1>3. RowsStay
  BY DEF RowsStay, Alloc
<1>4. seeded' \in [Conns -> BOOLEAN]
  BY <1>1 DEF Alloc, TypeOK
<1>5. CASE free # {}
  <2>1. k1 \in 1..MaxRetries
    <3>1. free \in SUBSET Nat /\ free # {} /\ free \subseteq 1..MaxRetries
      BY <1>5, LimitsAssumption
    <3> HIDE DEF free
    <3> QED
      BY <3>1, LeastOf
  <2>2. Candidate(base, k1) \in Pids /\ Candidate(base, k1) \in 0..PidMax
    <3> HIDE DEF base, k1
    <3>1. Candidate(base, k1) \in Pids
      BY <1>2, <2>1, CandidateTypes, LimitsAssumption
    <3> QED
      BY <3>1, LimitsAssumption DEF Pids
  <2>3. /\ pidState' = [pidState EXCEPT ![conn[w]] = Candidate(base, k1)]
        /\ pid' = [pid EXCEPT ![w] = Candidate(base, k1)]
        /\ wpc' = [wpc EXCEPT ![w] = "claim"]
        /\ UNCHANGED <<slots, kick, job, run, conn, rows, qos>>
    BY <1>5 DEF Alloc, KeepInflight
  <2> HIDE DEF base, free, k1
  <2>4. /\ pidState' \in [Conns -> 0..PidMax] /\ pid' \in [Workers -> 0..PidMax]
        /\ wpc' \in [Workers -> {"idle", "scan", "take", "alloc", "claim", "write"}]
        /\ wpc'[w] = "claim" /\ pid'[w] \in Pids
        /\ \A v \in Workers \ {w} : wpc'[v] = wpc[v] /\ pid'[v] = pid[v]
    BY <1>1, <2>2, <2>3 DEF TypeOK
  <2>5. TypeOK'
    BY <1>1, <1>4, <2>3, <2>4 DEF TypeOK, Alloc, KeepHistory
  <2>6. \A v \in Workers \ {w} : WorkerOK(v)'
    BY <1>1, <1>3, <2>3, <2>4, Frame DEF IInv
  <2>7. WorkerOK(w)'
    <3>1. Cur(w)' = Cur(w)
      BY <2>3, CurSame
    <3> QED
      BY <1>1, <2>3, <2>4, <3>1 DEF WorkerOK, Busy, Pids
  <2> QED
    BY <2>5, <2>6, <2>7 DEF IInv
<1>6. CASE free = {}
  <2>1. /\ pidState' = [pidState EXCEPT ![conn[w]] = Candidate(base, MaxRetries)]
        /\ ReturnInflight(conn[w]) /\ Finish(w, "error") /\ UNCHANGED <<conn, pid>>
    BY <1>6 DEF Alloc
  <2> HIDE DEF base, free, k1
  <2>2. Candidate(base, MaxRetries) \in 0..PidMax
    <3>1. Candidate(base, MaxRetries) \in Pids
      BY <1>2, CandidateTypes, LimitsAssumption
    <3> QED
      BY <3>1, LimitsAssumption DEF Pids
  <2>3. pidState' \in [Conns -> 0..PidMax]
    BY <1>1, <2>1, <2>2 DEF TypeOK
  <2>4. /\ job' \in [Workers -> SUBSET Item]
        /\ wpc' \in [Workers -> {"idle", "scan", "take", "alloc", "claim", "write"}]
        /\ run' \in [Conns -> {"resume", "loop"}]
        /\ \A v \in Workers : WorkerOK(v)'
    BY <1>1, <1>3, <2>1, Finished DEF Busy
  <2>5. slots' \in [Conns -> 0..Cap] /\ kick' \in [Conns -> BOOLEAN]
    BY <1>1, <2>1, ReturnTypes
  <2>6. TypeOK'
    <3>1. UNCHANGED <<rowVars, lstVars, pc, reg, aliasOut, handling, conn, bare, cut, clientVars,
                      via, extra>>
      BY DEF Alloc, KeepHistory
    <3> QED
      BY <1>1, <1>4, <2>1, <2>3, <2>4, <2>5, <3>1 DEF TypeOK
  <2> QED
    BY <2>4, <2>6 DEF IInv
<1> QED
  BY <1>5, <1>6

\* A query of AllocPacketID fails.
LEMMA AllocFailsStep ==
    ASSUME IInv, NEW w \in Workers, AllocFails(w)
    PROVE  IInv'
<1> USE DEF rowVars, packetVars, clientVars
<1> DEFINE base == IF seeded[conn[w]] THEN pidState[conn[w]] ELSE Seed
<1>1. TypeOK /\ wpc[w] = "alloc" /\ WorkerOK(w) /\ conn[w] \in Conns /\ Fails
  BY DEF AllocFails, IInv, WorkerOK, Busy
<1>2. base \in 0..PidMax
  <2>1. Seed \in 0..PidMax /\ pidState[conn[w]] \in 0..PidMax
    BY <1>1, SeedTypes DEF TypeOK
  <2> QED
    BY <2>1
<1>3. RowsStay /\ ReturnInflight(conn[w]) /\ KeepHistory /\ Finish(w, "error")
      /\ UNCHANGED <<conn, pid>>
  BY DEF RowsStay, AllocFails
<1>4. seeded' \in [Conns -> BOOLEAN] /\ pidState' \in [Conns -> 0..PidMax]
  <2>1. CASE UNCHANGED <<seeded, pidState>>
    BY <1>1, <2>1 DEF TypeOK
  <2>2. CASE \E k \in 1..MaxRetries : /\ seeded' = [seeded EXCEPT ![conn[w]] = TRUE]
                                      /\ pidState' = [pidState EXCEPT ![conn[w]] = Candidate(base, k)]
    <3> HIDE DEF base
    <3>1. PICK k \in 1..MaxRetries : pidState' = [pidState EXCEPT ![conn[w]] = Candidate(base, k)]
      BY <2>2
    <3>2. Candidate(base, k) \in Pids
      BY <1>2, CandidateTypes, LimitsAssumption
    <3>3. Candidate(base, k) \in 0..PidMax
      BY <3>2, LimitsAssumption DEF Pids
    <3> QED
      BY <1>1, <2>2, <3>1, <3>3 DEF TypeOK
  <2> QED
    BY <2>1, <2>2 DEF AllocFails
<1> HIDE DEF base
<1>5. /\ job' \in [Workers -> SUBSET Item]
      /\ wpc' \in [Workers -> {"idle", "scan", "take", "alloc", "claim", "write"}]
      /\ run' \in [Conns -> {"resume", "loop"}]
      /\ \A v \in Workers : WorkerOK(v)'
  BY <1>1, <1>3, Finished DEF Busy
<1>6. /\ slots' \in [Conns -> 0..Cap] /\ kick' \in [Conns -> BOOLEAN]
      /\ errs' \in 0..MaxErrs /\ UNCHANGED <<notes, deaf, drops>>
  BY <1>1, <1>3, ReturnTypes, FailsTypes
<1>7. UNCHANGED <<rows, qos, expired, pc, reg, via, extra, aliasOut, handling, conn, pid, bare, cut,
                  owed, held, got, open, fresh, introduced>>
  BY DEF AllocFails, KeepHistory
<1>8. TypeOK'
  BY <1>1, <1>4, <1>5, <1>6, <1>7 DEF TypeOK
<1> QED
  BY <1>5, <1>8 DEF IInv

\* What a claim leaves in the table.
LEMMA AfterClaimTypes ==
    ASSUME IInv, NEW w \in Workers, wpc[w] = "claim", rows' = AfterClaim(w), qos' = qos
    PROVE  /\ rows' \in [Ids -> Row] /\ RowsStay
           /\ rows'[Cur(w).id] = IF qos[Cur(w).id] = 0 THEN Gone
                                 ELSE [st |-> "inflight", pid |-> pid[w]]
           /\ \A j \in Ids \ {Cur(w).id} : rows'[j] = rows[j]
           /\ rows'[Cur(w).id].st \in {"gone", "inflight"}
<1> DEFINE i == Cur(w).id
           row == IF qos[i] = 0 THEN Gone ELSE [st |-> "inflight", pid |-> pid[w]]
<1>1. TypeOK /\ WorkerOK(w) /\ job[w] # {}
  BY DEF IInv, WorkerOK, Busy
<1>2. i \in Ids
  BY <1>1, CurIn
<1>3. row \in Row /\ row.st \in {"gone", "inflight"}
  <2>1. qos[i] = 0 \/ pid[w] \in Pids
    BY <1>1 DEF WorkerOK
  <2> QED
    BY <2>1 DEF Row, Gone
<1>4. rows' = [rows EXCEPT ![i] = row]
  BY DEF AfterClaim
<1> HIDE DEF row, i
<1>5. rows' \in [Ids -> Row] /\ rows'[i] = row /\ \A j \in Ids \ {i} : rows'[j] = rows[j]
  BY <1>1, <1>2, <1>3, <1>4 DEF TypeOK
<1>6. RowsStay
  <2>1. row.st # "absent"
    BY <1>3
  <2> QED
    BY <1>2, <1>5, <2>1 DEF RowsStay
<1>7. rows'[i].st \in {"gone", "inflight"}
  BY <1>3, <1>5
<1> QED
  BY <1>5, <1>6, <1>7 DEF row, i

\* The claim, won or lost.
LEMMA ClaimStep ==
    ASSUME IInv, NEW w \in Workers, Claim(w)
    PROVE  IInv'
<1> USE DEF rowVars, lstVars, packetVars, clientVars
<1> DEFINE i == Cur(w).id
<1>1. TypeOK /\ wpc[w] = "claim" /\ WorkerOK(w) /\ conn[w] \in Conns /\ job[w] # {}
  BY DEF Claim, IInv, WorkerOK, Busy
<1>2. i \in Ids
  BY <1>1, CurIn
<1>3. CASE Claimable(i) /\ ~IdTaken(w)
  <2>1. /\ rows' = AfterClaim(w) /\ wpc' = [wpc EXCEPT ![w] = "write"]
        /\ UNCHANGED <<slots, kick, job, run, conn, pid, qos>>
        /\ via' = [via EXCEPT ![i] = IF qos[i] > 0 THEN conn[w] ELSE via[i]]
    BY <1>3 DEF Claim, KeepInflight
  <2>2. rows' \in [Ids -> Row] /\ RowsStay
    BY <1>1, <2>1, AfterClaimTypes
  <2>3. via' \in [Ids -> Conns \cup {None}]
    BY <1>1, <1>2, <2>1 DEF TypeOK
  <2> HIDE DEF i
  <2>4. /\ wpc' \in [Workers -> {"idle", "scan", "take", "alloc", "claim", "write"}]
        /\ wpc'[w] = "write" /\ \A v \in Workers \ {w} : wpc'[v] = wpc[v]
    BY <1>1, <2>1 DEF TypeOK
  <2>5. TypeOK'
    BY <1>1, <2>1, <2>2, <2>3, <2>4 DEF TypeOK, Claim
  <2>6. \A v \in Workers \ {w} : WorkerOK(v)'
    BY <1>1, <2>1, <2>2, <2>4, Frame DEF IInv
  <2>7. WorkerOK(w)'
    <3>1. Cur(w)' = Cur(w)
      BY <2>1, CurSame
    <3>2. \A it \in job[w] : it.id \in Ids
      BY <1>1 DEF TypeOK, Item
    <3>3. \A it \in job'[w] : rows'[it.id].st # "absent" /\ (it.st = "queued" \/ it.pid \in Pids)
      BY <1>1, <2>1, <2>2, <3>2 DEF WorkerOK, RowsStay
    <3> QED
      BY <1>1, <2>1, <2>4, <3>1, <3>3 DEF WorkerOK, Busy, Pids
  <2> QED
    BY <2>5, <2>6, <2>7 DEF IInv
<1>4. CASE ~Claimable(i) \/ IdTaken(w)
  <2>1. PICK result \in {"error", "skip"} : Finish(w, result)
    BY <1>4 DEF Claim
  <2>2. /\ UNCHANGED <<rows, qos, conn, pid, via>> /\ (ReturnInflight(conn[w]) \/ KeepInflight)
    BY <1>4 DEF Claim
  <2> HIDE DEF i
  <2>3. RowsStay
    BY <2>2 DEF RowsStay
  <2>4. /\ job' \in [Workers -> SUBSET Item]
        /\ wpc' \in [Workers -> {"idle", "scan", "take", "alloc", "claim", "write"}]
        /\ run' \in [Conns -> {"resume", "loop"}]
        /\ \A v \in Workers : WorkerOK(v)'
    BY <1>1, <2>1, <2>2, <2>3, Finished DEF Busy
  <2>5. slots' \in [Conns -> 0..Cap] /\ kick' \in [Conns -> BOOLEAN]
    BY <1>1, <2>2, ReturnTypes
  <2>6. TypeOK'
    BY <1>1, <2>2, <2>4, <2>5 DEF TypeOK, Claim
  <2> QED
    BY <2>4, <2>6 DEF IInv
<1> QED
  BY <1>3, <1>4

\* The claim fails, executed or not.
LEMMA ClaimFailsStep ==
    ASSUME IInv, NEW w \in Workers, ClaimFails(w)
    PROVE  IInv'
<1> USE DEF rowVars, packetVars, clientVars
<1>1. TypeOK /\ wpc[w] = "claim" /\ conn[w] \in Conns /\ Fails
  BY DEF ClaimFails, IInv, WorkerOK, Busy
<1>2. PICK result \in {"error", "skip"} : Finish(w, result)
  BY DEF ClaimFails
<1>3. /\ UNCHANGED <<qos, conn, pid>> /\ (ReturnInflight(conn[w]) \/ KeepInflight) /\ KeepHistory
      /\ rows' = rows \/ rows' = AfterClaim(w)
  BY DEF ClaimFails
<1>4. rows' \in [Ids -> Row] /\ RowsStay
  <2>1. CASE rows' = rows
    BY <1>1, <1>3, <2>1 DEF RowsStay, TypeOK
  <2>2. CASE rows' = AfterClaim(w)
    BY <1>1, <1>3, <2>2, AfterClaimTypes
  <2> QED
    BY <1>3, <2>1, <2>2
<1>5. /\ job' \in [Workers -> SUBSET Item]
      /\ wpc' \in [Workers -> {"idle", "scan", "take", "alloc", "claim", "write"}]
      /\ run' \in [Conns -> {"resume", "loop"}]
      /\ \A v \in Workers : WorkerOK(v)'
  BY <1>1, <1>2, <1>3, <1>4, Finished DEF Busy
<1>6. /\ slots' \in [Conns -> 0..Cap] /\ kick' \in [Conns -> BOOLEAN]
      /\ errs' \in 0..MaxErrs /\ UNCHANGED <<notes, deaf, drops>>
  BY <1>1, <1>3, ReturnTypes, FailsTypes
<1>7. UNCHANGED <<qos, expired, pc, reg, via, extra, pidState, seeded, aliasOut, handling, conn, pid,
                  bare, cut, owed, held, got, open, fresh, introduced>>
  BY DEF ClaimFails, KeepHistory
<1>8. TypeOK'
  BY <1>1, <1>4, <1>5, <1>6, <1>7 DEF TypeOK
<1> QED
  BY <1>5, <1>8 DEF IInv

\* An acknowledgement queued by the client.
LEMMA OwedTypes ==
    ASSUME TypeOK, NEW c \in Conns, NEW ack \in Ack,
           owed' = [owed EXCEPT ![c] = Append(owed[c], ack)]
    PROVE  owed' \in [Conns -> Seq(Ack)]
<1>1. owed \in [Conns -> Seq(Ack)]
  BY DEF TypeOK
<1>2. Append(owed[c], ack) \in Seq(Ack)
  BY <1>1
<1> QED
  BY <1>1, <1>2

LEMMA ClientGetsTypes ==
    ASSUME TypeOK, NEW c \in Conns, NEW i \in Ids, NEW p, NEW refuse \in BOOLEAN,
           p \in Pids \/ qos[i] = 0, ClientGets(c, i, p, refuse)
    PROVE  /\ got' \in [Ids -> 0..2] /\ held' \subseteq Pids
           /\ owed' \in [Conns -> Seq(Ack)] /\ open' \in [Conns -> SUBSET Pids]
<1> DEFINE type == IF qos[i] = 1 THEN "puback" ELSE IF refuse THEN "refuse" ELSE "pubrec"
           new == qos[i] < 2 \/ p \notin held
<1>1. qos[i] \in 0..2 /\ got \in [Ids -> 0..2] /\ held \subseteq Pids
      /\ owed \in [Conns -> Seq(Ack)] /\ open \in [Conns -> SUBSET Pids]
  BY DEF TypeOK
<1>2. got' \in [Ids -> 0..2]
  <2>1. \A n \in 0..2 : UpTo2(n) \in 0..2
    BY DEF UpTo2
  <2>2. got' = [got EXCEPT ![i] = IF new THEN UpTo2(got[i]) ELSE got[i]]
    BY DEF ClientGets
  <2> HIDE DEF new
  <2> QED
    BY <1>1, <2>1, <2>2
<1>3. held' \subseteq Pids
  BY <1>1 DEF ClientGets
<1>4. open' \in [Conns -> SUBSET Pids]
  <2>1. qos[i] # 0 => open[c] \cup {p} \in SUBSET Pids
    BY <1>1
  <2> QED
    BY <1>1, <2>1 DEF ClientGets
<1>5. owed' \in [Conns -> Seq(Ack)]
  <2>1. CASE qos[i] = 0
    BY <1>1, <2>1 DEF ClientGets
  <2>2. CASE qos[i] # 0
    <3>1. type \in {"puback", "refuse", "pubrec"}
      OBVIOUS
    <3>2. owed' = [owed EXCEPT ![c] = Append(owed[c], [type |-> type, pid |-> p])]
      BY <2>2 DEF ClientGets
    <3> HIDE DEF type
    <3>3. [type |-> type, pid |-> p] \in Ack
      BY <2>2, <3>1 DEF Ack
    <3> QED
      BY <3>2, <3>3, OwedTypes
  <2> QED
    BY <2>1, <2>2
<1> QED
  BY <1>2, <1>3, <1>4, <1>5

LEMMA WriteStep ==
    ASSUME IInv, NEW w \in Workers, Write(w)
    PROVE  IInv'
<1> USE DEF rowVars, lstVars, connVars, slotVars, packetVars
<1>1. TypeOK /\ wpc[w] = "write" /\ WorkerOK(w) /\ conn[w] \in Conns /\ job[w] # {}
  BY DEF Write, IInv, WorkerOK, Busy
<1>2. Cur(w).id \in Ids /\ (pid[w] \in Pids \/ qos[Cur(w).id] = 0)
  BY <1>1, CurIn DEF WorkerOK
<1>3. RowsStay /\ Finish(w, "sent") /\ UNCHANGED <<conn, pid>>
  BY DEF Write, RowsStay
<1>4. /\ job' \in [Workers -> SUBSET Item]
      /\ wpc' \in [Workers -> {"idle", "scan", "take", "alloc", "claim", "write"}]
      /\ run' \in [Conns -> {"resume", "loop"}]
      /\ \A v \in Workers : WorkerOK(v)'
  BY <1>1, <1>3, Finished DEF Busy
<1>5. /\ got' \in [Ids -> 0..2] /\ held' \subseteq Pids
      /\ owed' \in [Conns -> Seq(Ack)] /\ open' \in [Conns -> SUBSET Pids]
  <2>1. CASE cut[conn[w]]
    BY <1>1, <2>1 DEF Write, TypeOK
  <2>2. CASE ~cut[conn[w]]
    <3>1. PICK refuse \in BOOLEAN : ClientGets(conn[w], Cur(w).id, pid[w], refuse)
      BY <2>2 DEF Write
    <3> QED
      BY <1>1, <1>2, <3>1, ClientGetsTypes
  <2> QED
    BY <2>1, <2>2
<1>6. fresh' \in [Ids -> 0..2]
  <2>1. \A n \in 0..2 : UpTo2(n) \in 0..2
    BY DEF UpTo2
  <2>2. fresh' = [fresh EXCEPT ![Cur(w).id] = IF Cur(w).st = "queued" THEN UpTo2(fresh[Cur(w).id])
                                                                   ELSE fresh[Cur(w).id]]
    BY DEF Write
  <2> QED
    BY <1>1, <1>2, <2>1, <2>2 DEF TypeOK
<1>7. introduced' \in [Conns -> BOOLEAN]
  BY <1>1, InputsAssumption DEF Write, TypeOK
<1>8. TypeOK'
  BY <1>1, <1>4, <1>5, <1>6, <1>7 DEF Write, TypeOK
<1> QED
  BY <1>4, <1>8 DEF IInv

LEMMA WriteFailsStep ==
    ASSUME IInv, NEW w \in Workers, WriteFails(w)
    PROVE  IInv'
<1> USE DEF rowVars, lstVars, packetVars, clientVars
<1>1. TypeOK /\ wpc[w] = "write" /\ conn[w] \in Conns
  BY DEF WriteFails, IInv, WorkerOK, Busy
<1>2. RowsStay /\ Finish(w, "error") /\ UNCHANGED <<conn, pid>>
      /\ (ReturnInflight(conn[w]) \/ KeepInflight)
  BY DEF WriteFails, RowsStay
<1>3. /\ job' \in [Workers -> SUBSET Item]
      /\ wpc' \in [Workers -> {"idle", "scan", "take", "alloc", "claim", "write"}]
      /\ run' \in [Conns -> {"resume", "loop"}]
      /\ \A v \in Workers : WorkerOK(v)'
  BY <1>1, <1>2, Finished DEF Busy
<1>4. slots' \in [Conns -> 0..Cap] /\ kick' \in [Conns -> BOOLEAN]
  BY <1>1, <1>2, ReturnTypes
<1>5. via' \in [Ids -> Conns \cup {None}] /\ extra' \in [Conns -> Nat]
  <2>1. Settle(conn[w], {Cur(w).id}, TRUE) \/ KeepHistory
    BY DEF WriteFails
  <2> QED
    BY <1>1, <2>1, SettleTypes
<1>6. TypeOK'
  BY <1>1, <1>3, <1>4, <1>5 DEF WriteFails, TypeOK
<1> QED
  BY <1>3, <1>6 DEF IInv

\* PUBREL and the PUBCOMP it is answered with.
LEMMA ReleaseTypes ==
    ASSUME TypeOK, NEW c \in Conns, NEW p \in Pids, ClientReleases(c, p) \/ UNCHANGED <<held, owed>>
    PROVE  held' \subseteq Pids /\ owed' \in [Conns -> Seq(Ack)]
<1>1. CASE ClientReleases(c, p)
  <2>1. [type |-> "pubcomp", pid |-> p] \in Ack
    BY DEF Ack
  <2> QED
    BY <1>1, <2>1, OwedTypes DEF ClientReleases, TypeOK
<1>2. CASE UNCHANGED <<held, owed>>
  BY <1>2 DEF TypeOK
<1> QED
  BY <1>1, <1>2

LEMMA ResumeReleaseStep ==
    ASSUME IInv, NEW c \in Conns, ResumeRelease(c) \/ ResumeReleaseFails(c)
    PROVE  IInv'
<1> USE DEF rowVars, lstVars, connVars, slotVars, packetVars, clientVars
<1>1. TypeOK /\ wpc[c] = "take" /\ c \in Workers /\ Cur(c).st = "awaiting_pubcomp"
  BY DEF ResumeRelease, ResumeReleaseFails, IInv, Workers
<1>2. PICK result \in {"sent", "error"} : Finish(c, result)
  BY DEF ResumeRelease, ResumeReleaseFails
<1>3. RowsStay /\ UNCHANGED <<conn, pid>>
  BY DEF ResumeRelease, ResumeReleaseFails, RowsStay
<1>4. /\ job' \in [Workers -> SUBSET Item]
      /\ wpc' \in [Workers -> {"idle", "scan", "take", "alloc", "claim", "write"}]
      /\ run' \in [Conns -> {"resume", "loop"}]
      /\ \A v \in Workers : WorkerOK(v)'
  BY <1>1, <1>2, <1>3, Finished
<1>5. Cur(c).pid \in Pids
  <2>1. Cur(c) \in job[c]
    BY <1>1, CurIn DEF IInv, WorkerOK
  <2> QED
    BY <1>1, <2>1 DEF IInv, WorkerOK
<1>6. held' \subseteq Pids /\ owed' \in [Conns -> Seq(Ack)]
  <2>1. ClientReleases(c, Cur(c).pid) \/ UNCHANGED <<held, owed>>
    BY DEF ResumeRelease, ResumeReleaseFails
  <2> QED
    BY <1>1, <1>5, <2>1, ReleaseTypes
<1>7. CASE ResumeRelease(c)
  <2>1. TypeOK'
    BY <1>1, <1>4, <1>6, <1>7 DEF ResumeRelease, TypeOK
  <2> QED
    BY <1>4, <2>1 DEF IInv
<1>8. CASE ResumeReleaseFails(c)
  <2>1. TypeOK'
    BY <1>1, <1>4, <1>8 DEF ResumeReleaseFails, TypeOK
  <2> QED
    BY <1>4, <2>1 DEF IInv
<1> QED
  BY <1>7, <1>8

-----------------------------------------------------------------------------
(* Types: the acknowledgements.                                            *)

LEMMA ReadAckStep ==
    ASSUME IInv, NEW c \in Conns, ReadAck(c)
    PROVE  IInv'
<1> USE DEF rowVars, lstVars, connVars, slotVars, packetVars, workVars
<1>1. TypeOK /\ owed \in [Conns -> Seq(Ack)] /\ owed[c] \in Seq(Ack) /\ owed[c] # << >>
  BY DEF ReadAck, IInv, TypeOK
<1>2. Head(owed[c]) \in Ack /\ Tail(owed[c]) \in Seq(Ack)
  BY <1>1
<1>3. handling' \in [Conns -> Ack \cup {NoAck, Failed}] /\ owed' \in [Conns -> Seq(Ack)]
  BY <1>1, <1>2 DEF ReadAck, TypeOK
<1>4. open' \in [Conns -> SUBSET Pids]
  <2> DEFINE p == Head(owed[c]).pid
  <2>1. open' = open \/ open' = [open EXCEPT ![c] = @ \ {p}]
    BY DEF ReadAck
  <2> HIDE DEF p
  <2>2. open \in [Conns -> SUBSET Pids] /\ open[c] \ {p} \in SUBSET Pids
    BY <1>1 DEF TypeOK
  <2>3. CASE open' = [open EXCEPT ![c] = @ \ {p}]
    BY <2>2, <2>3
  <2> QED
    BY <2>1, <2>2, <2>3
<1>5. TypeOK'
  BY <1>1, <1>3, <1>4 DEF ReadAck, TypeOK
<1> QED
  BY <1>5, WorkersAlone DEF IInv, ReadAck, RowsStay

\* What an acknowledgement does to the table, and to one row.
LEMMA AckEffectTypes ==
    ASSUME TypeOK, NEW ack, rows' = AckEffect(ack) \/ rows' = rows, qos' = qos
    PROVE  /\ rows' \in [Ids -> Row] /\ RowsStay
           /\ \A i \in Ids :
                \/ rows'[i] = rows[i]
                \/ rows'[i] = Gone /\ i \in Acked(ack) /\ ack.type # "pubrec"
                \/ /\ rows[i].st = "inflight" /\ rows'[i].st = "awaiting_pubcomp"
                   /\ rows'[i].pid = rows[i].pid
<1>1. rows \in [Ids -> Row] /\ Gone \in Row /\ Gone.st = "gone"
  BY DEF TypeOK, Gone, Row
<1>2. CASE rows' = rows
  BY <1>1, <1>2 DEF RowsStay
<1>3. CASE rows' = AckEffect(ack)
  <2>1. \A i \in Ids : rows[i].st = "inflight" =>
            /\ [rows[i] EXCEPT !.st = "awaiting_pubcomp"] \in Row
            /\ [rows[i] EXCEPT !.st = "awaiting_pubcomp"].st = "awaiting_pubcomp"
            /\ [rows[i] EXCEPT !.st = "awaiting_pubcomp"].pid = rows[i].pid
    BY <1>1, RowTypes DEF Row
  <2>2. \A i \in Ids : rows'[i] =
            IF i \notin Acked(ack) THEN rows[i]
            ELSE IF ack.type # "pubrec" THEN Gone
            ELSE IF rows[i].st = "inflight" THEN [rows[i] EXCEPT !.st = "awaiting_pubcomp"]
            ELSE rows[i]
    BY <1>3 DEF AckEffect
  <2>3. rows' \in [Ids -> Row]
    BY <1>1, <1>3, <2>1 DEF AckEffect
  <2>4. \A i \in Ids :
            \/ rows'[i] = rows[i]
            \/ rows'[i] = Gone /\ i \in Acked(ack) /\ ack.type # "pubrec"
            \/ /\ rows[i].st = "inflight" /\ rows'[i].st = "awaiting_pubcomp"
               /\ rows'[i].pid = rows[i].pid
    <3> SUFFICES ASSUME NEW i \in Ids
                 PROVE  \/ rows'[i] = rows[i]
                        \/ rows'[i] = Gone /\ i \in Acked(ack) /\ ack.type # "pubrec"
                        \/ /\ rows[i].st = "inflight" /\ rows'[i].st = "awaiting_pubcomp"
                           /\ rows'[i].pid = rows[i].pid
      OBVIOUS
    <3>1. CASE i \notin Acked(ack) \/ ack.type # "pubrec" \/ rows[i].st # "inflight"
      BY <2>2, <3>1
    <3>2. CASE i \in Acked(ack) /\ ack.type = "pubrec" /\ rows[i].st = "inflight"
      BY <2>1, <2>2, <3>2
    <3> QED
      BY <3>1, <3>2
  <2>5. RowsStay
    BY <1>1, <2>4 DEF RowsStay
  <2> QED
    BY <2>3, <2>4, <2>5
<1> QED
  BY <1>2, <1>3

LEMMA HandleFinalAckStep ==
    ASSUME IInv, NEW c \in Conns, HandleFinalAck(c)
    PROVE  IInv'
<1> USE DEF rowVars, lstVars, packetVars, workVars, clientVars
<1> DEFINE done == Acked(handling[c])
<1>1. TypeOK /\ qos' = qos
  BY DEF IInv, HandleFinalAck
<1>2. /\ rows' = AckEffect(handling[c])
      /\ handling' = [handling EXCEPT ![c] = NoAck]
      /\ ReturnInflight(c) \/ KeepInflight
      /\ Settle(c, done, Releases(handling[c], done))
  BY DEF HandleFinalAck
<1> HIDE DEF done
<1>3. rows' \in [Ids -> Row] /\ RowsStay
  BY <1>1, <1>2, AckEffectTypes
<1>4. handling' \in [Conns -> Ack \cup {NoAck, Failed}]
  BY <1>1, <1>2 DEF TypeOK
<1>5. /\ slots' \in [Conns -> 0..Cap] /\ kick' \in [Conns -> BOOLEAN]
      /\ via' \in [Ids -> Conns \cup {None}] /\ extra' \in [Conns -> Nat]
  BY <1>1, <1>2, ReturnTypes, SettleTypes
<1>6. TypeOK'
  BY <1>1, <1>3, <1>4, <1>5 DEF HandleFinalAck, TypeOK
<1> QED
  BY <1>3, <1>6, WorkersAlone DEF IInv, HandleFinalAck

LEMMA HandlePubrecStep ==
    ASSUME IInv, NEW c \in Conns, HandlePubrec(c)
    PROVE  IInv'
<1> USE DEF rowVars, lstVars, connVars, slotVars, packetVars, workVars
<1> DEFINE p == handling[c].pid
<1>1. TypeOK /\ p \in Pids /\ qos' = qos
  <2>1. handling[c] \in Ack \cup {NoAck, Failed} /\ handling[c].type = "pubrec"
    BY DEF HandlePubrec, IInv, TypeOK
  <2> QED
    BY <2>1 DEF Ack, NoAck, Failed, IInv, HandlePubrec
<1>2. /\ rows' = AckEffect(handling[c])
      /\ handling' = [handling EXCEPT ![c] = NoAck]
      /\ ClientReleases(c, p) \/ UNCHANGED <<held, owed>>
  BY DEF HandlePubrec
<1> HIDE DEF p
<1>3. rows' \in [Ids -> Row] /\ RowsStay
  BY <1>1, <1>2, AckEffectTypes
<1>4. handling' \in [Conns -> Ack \cup {NoAck, Failed}]
  BY <1>1, <1>2 DEF TypeOK
<1>5. held' \subseteq Pids /\ owed' \in [Conns -> Seq(Ack)]
  BY <1>1, <1>2, ReleaseTypes
<1>6. TypeOK'
  BY <1>1, <1>3, <1>4, <1>5 DEF HandlePubrec, TypeOK
<1> QED
  BY <1>3, <1>6, WorkersAlone DEF IInv, HandlePubrec

LEMMA AckFailsStep ==
    ASSUME IInv, NEW c \in Conns, AckFails(c)
    PROVE  IInv'
<1> USE DEF rowVars, packetVars, workVars, clientVars
<1>1. TypeOK /\ qos' = qos /\ Fails
  BY DEF IInv, AckFails
<1>2. /\ rows' = AckEffect(handling[c]) \/ rows' = rows
      /\ handling' = [handling EXCEPT ![c] = Failed]
      /\ ReturnInflight(c) \/ KeepInflight
      /\ Settle(c, Acked(handling[c]), TRUE) \/ KeepHistory
  BY DEF AckFails
<1>3. rows' \in [Ids -> Row] /\ RowsStay
  BY <1>1, <1>2, AckEffectTypes
<1>4. handling' \in [Conns -> Ack \cup {NoAck, Failed}]
  BY <1>1, <1>2 DEF TypeOK
<1>5. /\ slots' \in [Conns -> 0..Cap] /\ kick' \in [Conns -> BOOLEAN]
      /\ via' \in [Ids -> Conns \cup {None}] /\ extra' \in [Conns -> Nat]
      /\ errs' \in 0..MaxErrs /\ UNCHANGED <<notes, deaf, drops>>
  BY <1>1, <1>2, ReturnTypes, SettleTypes, FailsTypes
<1>6. TypeOK'
  BY <1>1, <1>3, <1>4, <1>5 DEF AckFails, TypeOK
<1> QED
  BY <1>3, <1>6, WorkersAlone DEF IInv, AckFails

LEMMA EndOnErrorStep ==
    ASSUME IInv, NEW c \in Conns, EndOnError(c)
    PROVE  IInv'
<1> USE DEF rowVars, lstVars, connVars, slotVars, packetVars, workVars, clientVars
<1>1. TypeOK'
  BY DEF IInv, TypeOK, EndOnError
<1> QED
  BY <1>1, WorkersAlone DEF IInv, EndOnError, RowsStay

LEMMA ListenerBackStep ==
    ASSUME IInv, ListenerBack
    PROVE  IInv'
<1> USE DEF rowVars, packetVars, workVars, clientVars
<1>1. TypeOK'
  BY DEF IInv, TypeOK, ListenerBack, KickedByListener, slotVars
<1> QED
  BY <1>1, WorkersAlone DEF IInv, ListenerBack, RowsStay

-----------------------------------------------------------------------------

LEMMA TypeInit == Init => IInv
<1> SUFFICES ASSUME Init PROVE IInv
  OBVIOUS
<1>1. TypeOK
  <2>1. rows \in [Ids -> Row]
    BY DEF Init, Row
  <2>2. << >> \in Seq(Ids) /\ << >> \in Seq(Ack)
    OBVIOUS
  <2>3. notes \in Seq(Ids) /\ owed \in [Conns -> Seq(Ack)] /\ open \in [Conns -> SUBSET Pids]
    BY <2>2 DEF Init
  <2>4. 0 \in 0..2 /\ 0 \in 0..Cap /\ 0 \in 0..PidMax /\ 0 \in 0..MaxDrops
        /\ 0 \in 0..MaxErrs
    BY LimitsAssumption
  <2> QED
    BY <2>1, <2>3, <2>4 DEF Init, TypeOK
<1>2. \A w \in Workers : WorkerOK(w)
  BY DEF Init, WorkerOK, Busy
<1> QED
  BY <1>1, <1>2 DEF IInv

\* The disjuncts of Next, for the proofs by cases that follow.
LEMMA NextCases ==
    ASSUME Next
    PROVE  \/ Surroundings \/ ListenerBack \/ DeliverScan \/ DeliverScanFails
           \/ \E c \in Conns : \/ ResumeScan(c) \/ DrainWake(c) \/ DrainScan(c) \/ ScanFails(c)
                               \/ ResumeRelease(c) \/ ResumeReleaseFails(c)
                               \/ ReadAck(c) \/ HandleFinalAck(c) \/ HandlePubrec(c)
                               \/ AckFails(c) \/ EndOnError(c)
           \/ \E w \in Workers : DeliverStep(w)
BY DEF Next, ListenerStep, WorkerStep, AckStep, Workers

LEMMA TypeStep == IInv /\ [Next]_vars => IInv'
<1> SUFFICES ASSUME IInv, [Next]_vars PROVE IInv'
  OBVIOUS
<1>1. CASE UNCHANGED vars
  <2>1. UNCHANGED <<rowVars, lstVars, pc, reg, connVars, handling, workVars, packetVars, cut,
                    clientVars>>
    BY <1>1 DEF vars
  <2>2. TypeOK'
    BY <2>1 DEF IInv, TypeOK, rowVars, lstVars, connVars, slotVars, workVars, packetVars, clientVars
  <2>3. RowsStay /\ UNCHANGED <<wpc, job, conn, pid>>
    BY <2>1 DEF RowsStay, rowVars, workVars, packetVars
  <2> QED
    BY <2>2, <2>3, WorkersAlone DEF IInv
<1>2. ASSUME NEW w \in Workers, DeliverStep(w) PROVE IInv'
  BY <1>2, SkipStep, BeginStep, AllocStep, AllocFailsStep, ClaimStep, ClaimFailsStep, WriteStep,
     WriteFailsStep DEF DeliverStep
<1>3. ASSUME NEW c \in Conns,
             \/ ResumeScan(c) \/ DrainWake(c) \/ DrainScan(c) \/ ScanFails(c)
             \/ ResumeRelease(c) \/ ResumeReleaseFails(c)
             \/ ReadAck(c) \/ HandleFinalAck(c) \/ HandlePubrec(c)
             \/ AckFails(c) \/ EndOnError(c)
      PROVE IInv'
  BY <1>3, ResumeScanStep, DrainStep, ScanFailsStep, ResumeReleaseStep, ReadAckStep,
     HandleFinalAckStep, HandlePubrecStep, AckFailsStep, EndOnErrorStep
<1> QED
  BY <1>1, <1>2, <1>3, NextCases, SurroundingsStep, ListenerBackStep, DeliverScanStep,
     DeliverScanFailsStep

\* Types hold always; among them that packet ids stay within 1..PidMax after the wrap, and the
\* window within its capacity.
THEOREM DeliveryTypeCorrect == Spec => []TypeOK
<1>1. IInv => TypeOK
  BY DEF IInv
<1> QED
  BY <1>1, TypeInit, TypeStep, PTL DEF Spec
-----------------------------------------------------------------------------
(* A row is sent as new at most once.                                      *)

\* Worker w is about to write row i without DUP.
Sends(w, i) == wpc[w] = "write" /\ Cur(w).id = i /\ Cur(w).st = "queued"

\* Row i has left state 0.
Taken(i) == rows[i].st \notin {"absent", "queued"}

\* Whoever is about to send a row as new has taken it, alone, and nobody has sent it before; a
\* row that was sent never returns to state 0.
FreshInv ==
    /\ \A w \in Workers, i \in Ids : Sends(w, i) => fresh[i] = 0 /\ Taken(i)
    /\ \A v, w \in Workers, i \in Ids : Sends(v, i) /\ Sends(w, i) => v = w
    /\ \A i \in Ids : fresh[i] <= 1 /\ (fresh[i] > 0 => Taken(i))

TakenStay == \A i \in Ids : Taken(i) => Taken(i)'

\* A worker that does not come to send anything new.
NoNewSend(v) == \/ wpc'[v] = wpc[v] /\ job'[v] = job[v]
                \/ wpc'[v] # "write"
                \/ job'[v] = job[v] /\ Cur(v).st # "queued"

LEMMA NoSender ==
    ASSUME NEW v \in Workers, NEW i, NoNewSend(v), Sends(v, i)'
    PROVE  Sends(v, i)
BY CurSame DEF NoNewSend, Sends

LEMMA FreshFrame ==
    ASSUME FreshInv, fresh' = fresh, TakenStay, \A v \in Workers : NoNewSend(v)
    PROVE  FreshInv'
BY NoSender DEF FreshInv, TakenStay

\* Returning from deliverOneTracked makes no sender.
LEMMA FinishNoSend ==
    ASSUME IInv, NEW w \in Workers, NEW result, wpc[w] = "take" \/ Busy(w), Finish(w, result)
    PROVE  wpc'[w] # "write" /\ \A v \in Workers : NoNewSend(v)
<1>1. TypeOK /\ job[w] # {}
  BY DEF IInv, WorkerOK
<1>2. /\ wpc'[w] \in {"idle", "scan", "take"}
      /\ \A v \in Workers \ {w} : wpc'[v] = wpc[v] /\ job'[v] = job[v]
  BY <1>1, FinishEffect
<1> QED
  BY <1>2 DEF NoNewSend

\* The claim decides: before it the row is in state 0, so nobody sends it or has sent it.
LEMMA ClaimFresh ==
    ASSUME IInv, FreshInv, NEW w \in Workers, Claim(w)
    PROVE  FreshInv'
<1>1. TypeOK /\ wpc[w] = "claim" /\ job[w] # {} /\ fresh' = fresh /\ fresh \in [Ids -> 0..2]
      /\ qos' = qos
  BY DEF Claim, IInv, WorkerOK, Busy, clientVars, TypeOK
<1>2. PICK i \in Ids : i = Cur(w).id
  BY <1>1, CurIn
<1>3. CASE Claimable(i) /\ ~IdTaken(w)
  <2>1. /\ rows' = AfterClaim(w) /\ wpc' = [wpc EXCEPT ![w] = "write"] /\ job' = job
    BY <1>2, <1>3 DEF Claim
  <2>2. /\ rows[i].st = "queued" /\ rows'[i].st \in {"gone", "inflight"}
        /\ \A j \in Ids \ {i} : rows'[j] = rows[j]
    BY <1>1, <1>2, <1>3, <2>1, AfterClaimTypes DEF Claimable
  <2>4. ~Taken(i) /\ Taken(i)' /\ \A j \in Ids \ {i} : Taken(j)' <=> Taken(j)
    BY <2>2 DEF Taken
  <2>5. \A v \in Workers \ {w}, j \in Ids : Sends(v, j)' => Sends(v, j)
    <3>1. \A v \in Workers \ {w} : NoNewSend(v)
      BY <1>1, <2>1 DEF NoNewSend, TypeOK
    <3> QED
      BY <3>1, NoSender
  <2>6. \A j \in Ids : Sends(w, j)' => j = i
    BY <1>2, <2>1, CurSame DEF Sends
  <2>7. fresh[i] = 0 /\ \A v \in Workers : ~Sends(v, i)
    BY <1>1, <1>2, <2>4 DEF FreshInv
  <2> QED
    BY <1>1, <2>4, <2>5, <2>6, <2>7 DEF FreshInv
<1>4. CASE ~Claimable(i) \/ IdTaken(w)
  <2>1. PICK result \in {"error", "skip"} : Finish(w, result)
    BY <1>2, <1>4 DEF Claim
  <2>2. rows' = rows
    BY <1>2, <1>4 DEF Claim
  <2>3. \A v \in Workers : NoNewSend(v)
    BY <1>1, <2>1, FinishNoSend DEF Busy
  <2> QED
    BY <1>1, <2>2, <2>3, FreshFrame DEF TakenStay, Taken
<1> QED
  BY <1>3, <1>4

\* A claim that fails sends nothing, also when it was executed.
LEMMA ClaimFailsFresh ==
    ASSUME IInv, FreshInv, NEW w \in Workers, ClaimFails(w)
    PROVE  FreshInv'
<1>1. TypeOK /\ wpc[w] = "claim" /\ job[w] # {} /\ fresh' = fresh /\ qos' = qos
  BY DEF ClaimFails, IInv, WorkerOK, Busy, clientVars
<1>2. \E result \in {"error", "skip"} : Finish(w, result)
  BY DEF ClaimFails
<1>3. \A v \in Workers : NoNewSend(v)
  BY <1>1, <1>2, FinishNoSend DEF Busy
<1>4. TakenStay
  <2>1. CASE rows' = rows
    BY <2>1 DEF TakenStay, Taken
  <2>2. CASE rows' = AfterClaim(w)
    <3>1. /\ rows'[Cur(w).id].st \in {"gone", "inflight"}
          /\ \A j \in Ids \ {Cur(w).id} : rows'[j] = rows[j]
      BY <1>1, <2>2, AfterClaimTypes
    <3> QED
      BY <3>1 DEF TakenStay, Taken
  <2> QED
    BY <2>1, <2>2 DEF ClaimFails
<1> QED
  BY <1>1, <1>3, <1>4, FreshFrame

LEMMA WriteFresh ==
    ASSUME IInv, FreshInv, NEW w \in Workers, Write(w)
    PROVE  FreshInv'
<1> DEFINE i == Cur(w).id
<1>1. TypeOK /\ wpc[w] = "write" /\ job[w] # {} /\ fresh \in [Ids -> 0..2] /\ rows' = rows
  BY DEF Write, IInv, WorkerOK, Busy, rowVars, TypeOK
<1>2. i \in Ids
  BY <1>1, CurIn
<1>3. wpc'[w] # "write" /\ \A v \in Workers : NoNewSend(v)
  BY <1>1, FinishNoSend DEF Write, Busy
<1>4. \A j \in Ids : Taken(j)' <=> Taken(j)
  BY <1>1 DEF Taken
<1>5. CASE Cur(w).st # "queued"
  <2>1. fresh' = fresh
    BY <1>1, <1>2, <1>5 DEF Write
  <2> QED
    BY <1>3, <1>4, <2>1, FreshFrame DEF TakenStay
<1>6. CASE Cur(w).st = "queued"
  <2>1. fresh' = [fresh EXCEPT ![i] = UpTo2(fresh[i])] /\ Sends(w, i)
    BY <1>1, <1>6 DEF Write, Sends
  <2> HIDE DEF i
  <2>2. fresh[i] = 0 /\ Taken(i) /\ \A v \in Workers : Sends(v, i) => v = w
    BY <1>2, <2>1 DEF FreshInv
  <2>3. fresh'[i] = 1 /\ \A j \in Ids \ {i} : fresh'[j] = fresh[j]
    BY <1>1, <1>2, <2>1, <2>2 DEF UpTo2
  <2>4. \A v \in Workers, j \in Ids : Sends(v, j)' => Sends(v, j) /\ v # w
    BY <1>3, NoSender DEF Sends
  <2> QED
    BY <1>4, <2>2, <2>3, <2>4 DEF FreshInv
<1> QED
  BY <1>5, <1>6

LEMMA DeliverFresh ==
    ASSUME IInv, FreshInv, NEW w \in Workers, DeliverStep(w)
    PROVE  FreshInv'
<1> USE DEF rowVars, clientVars
<1>1. CASE SkipUnconnected(w) \/ DropUndeliverable(w) \/ SkipNoSlot(w)
  <2>1. wpc[w] = "take" /\ Finish(w, "skip") /\ fresh' = fresh
    BY <1>1 DEF SkipUnconnected, DropUndeliverable, SkipNoSlot, Deliverable, Taking
  <2>2. rows' = rows \/ rows' = [rows EXCEPT ![Cur(w).id] = Gone]
    BY <1>1 DEF SkipUnconnected, DropUndeliverable, SkipNoSlot
  <2>3. TakenStay
    <3>1. rows \in [Ids -> Row] /\ Gone.st = "gone"
      BY DEF IInv, TypeOK, Gone
    <3>2. \A i \in Ids : rows'[i] = rows[i] \/ rows'[i] = Gone
      BY <2>2, <3>1
    <3> QED
      BY <3>1, <3>2 DEF TakenStay, Taken
  <2> QED
    BY <2>1, <2>3, FinishNoSend, FreshFrame
<1>2. CASE Begin(w)
  <2>1. /\ fresh' = fresh /\ rows' = rows /\ job' = job
        /\ \A v \in Workers \ {w} : wpc'[v] = wpc[v]
        /\ wpc'[w] = "write" => Cur(w).st = "inflight"
    BY <1>2 DEF Begin, IInv, TypeOK
  <2> QED
    BY <2>1, FreshFrame DEF NoNewSend, TakenStay, Taken
<1>3. CASE Alloc(w)
  <2>1. wpc[w] = "alloc" /\ fresh' = fresh /\ rows' = rows
    BY <1>3 DEF Alloc
  <2>2. \A v \in Workers : NoNewSend(v)
    <3>1. CASE wpc' = [wpc EXCEPT ![w] = "claim"] /\ job' = job
      BY <3>1 DEF NoNewSend, IInv, TypeOK
    <3>2. CASE Finish(w, "error")
      BY <2>1, <3>2, FinishNoSend DEF Busy
    <3> QED
      BY <1>3, <3>1, <3>2 DEF Alloc
  <2> QED
    BY <2>1, <2>2, FreshFrame DEF TakenStay, Taken
<1>4. CASE WriteFails(w) \/ AllocFails(w)
  <2>1. wpc[w] \in {"alloc", "write"} /\ Finish(w, "error") /\ fresh' = fresh /\ rows' = rows
    BY <1>4 DEF WriteFails, AllocFails
  <2> QED
    BY <2>1, FinishNoSend, FreshFrame DEF Busy, TakenStay, Taken
<1> QED
  BY <1>1, <1>2, <1>3, <1>4, ClaimFresh, ClaimFailsFresh, WriteFresh DEF DeliverStep

\* The scans and the resume's PUBRELs make no sender and change no row.
LEMMA ScanFresh ==
    ASSUME IInv, FreshInv, NEW c \in Conns,
           \/ ResumeScan(c) \/ DrainWake(c) \/ DrainScan(c) \/ ScanFails(c)
           \/ ResumeRelease(c) \/ ResumeReleaseFails(c)
    PROVE  FreshInv'
<1> USE DEF rowVars, clientVars
<1>1. c \in Workers
  BY DEF Workers
<1>2. fresh' = fresh /\ rows' = rows
  BY DEF ResumeScan, DrainWake, DrainScan, ScanFails, ResumeRelease, ResumeReleaseFails
<1>3. \A v \in Workers : NoNewSend(v)
  <2>1. CASE ResumeScan(c) \/ DrainWake(c) \/ DrainScan(c) \/ ScanFails(c)
    BY <1>1, <2>1 DEF ResumeScan, DrainWake, DrainScan, ScanFails, NoNewSend, IInv, TypeOK
  <2>2. CASE ResumeRelease(c) \/ ResumeReleaseFails(c)
    <3>1. wpc[c] = "take" /\ \E result \in {"sent", "error"} : Finish(c, result)
      BY <2>2 DEF ResumeRelease, ResumeReleaseFails
    <3> QED
      BY <1>1, <3>1, FinishNoSend
  <2> QED
    BY <2>1, <2>2
<1> QED
  BY <1>2, <1>3, FreshFrame DEF TakenStay, Taken

\* Nobody else takes part in it, and no handler puts a row back into state 0.
LEMMA OthersFresh ==
    ASSUME IInv, FreshInv,
           \/ Surroundings \/ ListenerBack \/ DeliverScanFails
           \/ \E c \in Conns : \/ ReadAck(c) \/ HandleFinalAck(c) \/ HandlePubrec(c)
                               \/ AckFails(c) \/ EndOnError(c)
    PROVE  FreshInv'
<1> USE DEF rowVars, workVars, clientVars
<1>1. ASSUME NEW i \in Ids, NEW q \in Qoss[i], Publish(i, q) PROVE FreshInv'
  <2>1. TakenStay
    BY <1>1 DEF Publish, TakenStay, Taken, IInv, TypeOK
  <2> QED
    BY <1>1, <2>1, FreshFrame DEF Publish, NoNewSend
<1>2. ASSUME NEW i \in Ids, Expire(i) PROVE FreshInv'
  BY <1>2, FreshFrame DEF Expire, NoNewSend, TakenStay, Taken
<1>3. ASSUME NEW c \in Conns, Connect(c) PROVE FreshInv'
  <2>1. \A v \in Workers : NoNewSend(v)
    BY <1>3 DEF Connect, NoNewSend, IInv, TypeOK, Workers
  <2> QED
    BY <1>3, <2>1, FreshFrame DEF Connect, TakenStay, Taken
<1>4. ASSUME NEW c \in Conns, Cut(c) \/ Close(c) \/ ReadAck(c) \/ EndOnError(c) PROVE FreshInv'
  BY <1>4, FreshFrame DEF Cut, Close, ReadAck, EndOnError, NoNewSend, TakenStay, Taken
<1>5. CASE ListenerDrop \/ ListenerBack \/ DeliverScanFails
  BY <1>5, FreshFrame DEF ListenerDrop, ListenerBack, DeliverScanFails, NoNewSend, TakenStay, Taken
<1>6. ASSUME NEW c \in Conns, HandleFinalAck(c) \/ HandlePubrec(c) \/ AckFails(c) PROVE FreshInv'
  <2>1. /\ rows' = AckEffect(handling[c]) \/ rows' = rows
        /\ UNCHANGED <<qos, fresh, wpc, job>>
    BY <1>6 DEF HandleFinalAck, HandlePubrec, AckFails
  <2>2. TakenStay
    BY <2>1, AckEffectTypes DEF IInv, TakenStay, Taken, Gone
  <2> QED
    BY <2>1, <2>2, FreshFrame DEF NoNewSend
<1> QED
  BY <1>1, <1>2, <1>3, <1>4, <1>5, <1>6 DEF Surroundings

LEMMA FreshStep == IInv /\ FreshInv /\ [Next]_vars => FreshInv'
<1> SUFFICES ASSUME IInv, FreshInv, [Next]_vars PROVE FreshInv'
  OBVIOUS
<1>1. CASE UNCHANGED vars
  <2>1. UNCHANGED <<rows, fresh, wpc, job>>
    BY <1>1 DEF vars, rowVars, clientVars, workVars
  <2> QED
    BY <2>1, FreshFrame DEF NoNewSend, TakenStay, Taken
<1>2. CASE DeliverScan
  <2>1. fresh' = fresh /\ rows' = rows
    BY <1>2 DEF DeliverScan, rowVars, clientVars
  <2>2. \/ UNCHANGED <<job, wpc>>
        \/ /\ wpc' = [wpc EXCEPT ![L] = "take"]
           /\ job' = [job EXCEPT ![L] = {AsItem(Head(notes))}]
    BY <1>2 DEF DeliverScan
  <2>3. \A v \in Workers : NoNewSend(v)
    BY <2>2 DEF NoNewSend, IInv, TypeOK
  <2> QED
    BY <2>1, <2>3, FreshFrame DEF TakenStay, Taken
<1> QED
  BY <1>1, <1>2, NextCases, DeliverFresh, ScanFresh, OthersFresh

\* However the listener, a resume and the drain loops of any number of Conns race for a row,
\* it is written without DUP at most once.
THEOREM AlwaysFreshAtMostOnce == Spec => []FreshAtMostOnce
<1>1. Init => IInv /\ FreshInv
  <2> SUFFICES ASSUME Init PROVE FreshInv
    BY TypeInit
  <2> QED
    BY DEF Init, FreshInv, Sends
<1>2. IInv /\ FreshInv /\ [Next]_vars => (IInv /\ FreshInv)'
  BY TypeStep, FreshStep
<1>3. FreshInv => FreshAtMostOnce
  BY DEF FreshInv, FreshAtMostOnce
<1> QED
  BY <1>1, <1>2, <1>3, PTL DEF Spec
-----------------------------------------------------------------------------
(* The slots of Conn.inflight, the rows and the claims they belong to.     *)

\* The rows in state 1 or 2.
Claimed == {i \in Ids : rows[i].st \in {"inflight", "awaiting_pubcomp"}}

Accepted == {a \in Ack : a.type # "refuse"}

\* Only a client that refuses PUBLISHes sends PUBREC with a reason >= 0x80.
Accepts == ~Rejects => \A c \in Conns : handling[c].type # "refuse" /\ owed[c] \in Seq(Accepted)

\* A Conn that has not connected takes no part in anything.
Placed ==
    /\ reg # None => pc[reg] = "up"
    /\ \A w \in Workers : Busy(w) => pc[conn[w]] # "idle"
    /\ \A c \in Conns : pc[c] = "idle" => wpc[c] = "idle" /\ handling[c] = NoAck
    /\ \A c \in Conns : pc[c] = "closed" => cut[c]
    /\ Claimed # {} => \E c \in Conns : pc[c] # "idle"

\* No two claimed rows share a packet id, and none is one that is deleted unsent.
Distinct ==
    /\ \A i, j \in Claimed : rows[i].pid = rows[j].pid => i = j
    /\ \A w \in Workers : Busy(w) => Cur(w).id \notin Oversized

\* A row that holds a slot was claimed on a Conn that has connected.
Owned ==
    /\ \A i \in Ids : via[i] # None => Taken(i) /\ i \notin Oversized /\ pc[via[i]] # "idle"
    /\ \A c \in Conns : pc[c] = "idle" => extra[c] = 0

\* On a first connection that nothing has gone wrong on, every claimed row holds a slot.
First ==
    \A c \in Conns : Alone(c) /\ pc[c] = "up" /\ ~cut[c] /\ errs = 0 =>
        \A i \in Claimed : via[i] = c

SlotInv == Accepts /\ Placed /\ Distinct /\ Owned /\ First /\ SlotsMatchRows

-----------------------------------------------------------------------------
(* Steps, by what they touch.                                              *)

Still == UNCHANGED <<rows, qos, slots, via, extra, handling, pc, reg, cut>>

SocketStep(c) == Connect(c) \/ Cut(c) \/ Close(c) \/ EndOnError(c)
HandlerStep(c) == HandleFinalAck(c) \/ HandlePubrec(c) \/ AckFails(c)

LEMMA StepCases ==
    ASSUME [Next]_vars
    PROVE  \/ Still
           \/ \E i \in Ids : \E q \in Qoss[i] : Publish(i, q)
           \/ \E c \in Conns : SocketStep(c) \/ ReadAck(c) \/ HandlerStep(c)
           \/ \E w \in Workers : DeliverStep(w)
<1> USE DEF Still, rowVars, connVars, slotVars
<1>1. CASE UNCHANGED vars
  BY <1>1 DEF vars
<1>2. CASE ListenerDrop \/ ListenerBack \/ DeliverScan \/ DeliverScanFails
  BY <1>2 DEF ListenerDrop, ListenerBack, DeliverScan, DeliverScanFails
<1>3. ASSUME NEW i \in Ids, Expire(i) PROVE Still
  BY <1>3 DEF Expire
<1>4. ASSUME NEW c \in Conns,
             \/ ResumeScan(c) \/ DrainWake(c) \/ DrainScan(c) \/ ScanFails(c)
             \/ ResumeRelease(c) \/ ResumeReleaseFails(c)
      PROVE  Still
  BY <1>4 DEF ResumeScan, DrainWake, DrainScan, ScanFails, ResumeRelease, ResumeReleaseFails
<1> HIDE DEF Still
<1>5. CASE Surroundings
  BY <1>2, <1>3, <1>5 DEF Surroundings, SocketStep
<1> QED
  BY <1>1, <1>2, <1>4, <1>5, NextCases DEF SocketStep, HandlerStep

\* Nothing un-expires, and failed statements are not forgotten.
LEMMA Monotone ==
    ASSUME TypeOK, [Next]_vars
    PROVE  expired \subseteq expired' /\ errs' \in Nat /\ errs <= errs'
<1> USE DEF rowVars, lstVars
<1>1. errs \in Nat
  BY DEF TypeOK
<1>2. CASE expired' = expired /\ (errs' = errs \/ Fails)
  BY <1>1, <1>2 DEF Fails
<1>3. CASE UNCHANGED vars \/ ListenerDrop \/ ListenerBack \/ DeliverScan
  BY <1>2, <1>3 DEF vars, ListenerDrop, ListenerBack, DeliverScan
<1>4. CASE DeliverScanFails
  BY <1>1, <1>4 DEF DeliverScanFails
<1>5. ASSUME NEW i \in Ids, (\E q \in Qoss[i] : Publish(i, q)) \/ Expire(i)
      PROVE  expired \subseteq expired' /\ errs' = errs
  BY <1>5 DEF Publish, Expire
<1>6. ASSUME NEW c \in Conns,
             \/ Connect(c) \/ Cut(c) \/ Close(c)
             \/ ResumeScan(c) \/ DrainWake(c) \/ DrainScan(c) \/ ScanFails(c)
             \/ ResumeRelease(c) \/ ResumeReleaseFails(c)
      PROVE  expired' = expired /\ (errs' = errs \/ Fails)
  BY <1>6 DEF Connect, Cut, Close, ResumeScan, DrainWake, DrainScan, ScanFails, ResumeRelease,
              ResumeReleaseFails
<1>7. ASSUME NEW c \in Conns,
             \/ ReadAck(c) \/ HandleFinalAck(c) \/ HandlePubrec(c) \/ AckFails(c) \/ EndOnError(c)
      PROVE  expired' = expired /\ (errs' = errs \/ Fails)
  BY <1>7 DEF ReadAck, HandleFinalAck, HandlePubrec, AckFails, EndOnError
<1>8. ASSUME NEW w \in Workers, DeliverStep(w)
      PROVE  expired' = expired /\ (errs' = errs \/ Fails)
  BY <1>8 DEF DeliverStep, SkipUnconnected, DropUndeliverable, SkipNoSlot, Begin, Alloc,
              AllocFails, Claim, ClaimFails, Write, WriteFails
<1>9. CASE Surroundings
  BY <1>1, <1>2, <1>3, <1>5, <1>6, <1>9 DEF Surroundings
<1> QED
  BY <1>2, <1>3, <1>4, <1>6, <1>7, <1>8, <1>9, NextCases

\* What deliverOneTracked leaves alone.
LEMMA DeliverFrame ==
    ASSUME IInv, NEW w \in Workers, DeliverStep(w)
    PROVE  /\ wpc[w] = "take" \/ Busy(w)
           /\ UNCHANGED <<pc, reg, cut, handling, qos>>
           /\ \A v \in Workers \ {w} : /\ wpc'[v] = wpc[v] /\ job'[v] = job[v]
                                       /\ conn'[v] = conn[v]
           /\ Busy(w)' => job'[w] = job[w]
           /\ Busy(w)' => Begin(w) \/ (Busy(w) /\ conn'[w] = conn[w])
<1> USE DEF rowVars, packetVars
<1>1. TypeOK /\ (wpc[w] = "take" \/ Busy(w)) /\ job[w] # {}
  BY DEF IInv, WorkerOK, DeliverStep, SkipUnconnected, DropUndeliverable, SkipNoSlot, Begin,
         Deliverable, Taking, Alloc, AllocFails, Claim, ClaimFails, Write, WriteFails, Busy
<1>2. UNCHANGED <<pc, reg, cut, handling, qos>>
  BY DEF DeliverStep, SkipUnconnected, DropUndeliverable, SkipNoSlot, Begin, Alloc, AllocFails,
         Claim, ClaimFails, Write, WriteFails
<1>3. CASE Begin(w)
  BY <1>1, <1>2, <1>3 DEF Begin, TypeOK
<1>4. CASE \E result \in {"skip", "sent", "error"} : Finish(w, result) /\ conn' = conn
  <2>1. /\ wpc'[w] \in {"idle", "scan", "take"}
        /\ \A v \in Workers \ {w} : wpc'[v] = wpc[v] /\ job'[v] = job[v]
    BY <1>1, <1>4, FinishEffect
  <2> QED
    BY <1>1, <1>2, <1>4, <2>1 DEF Busy
<1>5. CASE Busy(w) /\ UNCHANGED <<job, conn>> /\ \E a \in {"claim", "write"} : wpc' = [wpc EXCEPT ![w] = a]
  BY <1>1, <1>2, <1>5 DEF TypeOK
<1>6. \/ Begin(w)
      \/ \E result \in {"skip", "sent", "error"} : Finish(w, result) /\ conn' = conn
      \/ Busy(w) /\ UNCHANGED <<job, conn>> /\ \E a \in {"claim", "write"} : wpc' = [wpc EXCEPT ![w] = a]
  <2>1. CASE SkipUnconnected(w) \/ DropUndeliverable(w) \/ SkipNoSlot(w) \/ Write(w) \/ WriteFails(w)
    BY <2>1 DEF SkipUnconnected, DropUndeliverable, SkipNoSlot, Write, WriteFails
  <2>2. CASE Alloc(w)
    BY <2>2 DEF Alloc, Busy
  <2>3. CASE Claim(w)
    BY <2>3 DEF Claim, Busy
  <2>4. CASE AllocFails(w) \/ ClaimFails(w)
    BY <2>4 DEF AllocFails, ClaimFails
  <2> QED
    BY <2>1, <2>2, <2>3, <2>4 DEF DeliverStep
<1> QED
  BY <1>3, <1>4, <1>5, <1>6

\* Nobody but deliverOneTracked gets a worker past "take" or back.
LEMMA OthersFrame ==
    ASSUME IInv, Placed, [Next]_vars, ~ \E w \in Workers : DeliverStep(w), NEW v \in Workers
    PROVE  \/ wpc[v] \in {"idle", "scan", "take"} /\ wpc'[v] \in {"idle", "scan", "take"}
           \/ /\ wpc'[v] = wpc[v] /\ job'[v] = job[v]
              /\ conn'[v] = conn[v] /\ Cur(v)' = Cur(v)
<1> USE DEF workVars, packetVars
<1> DEFINE Goal == \/ wpc[v] \in {"idle", "scan", "take"} /\ wpc'[v] \in {"idle", "scan", "take"}
                   \/ wpc'[v] = wpc[v] /\ job'[v] = job[v] /\ conn'[v] = conn[v]
<1> SUFFICES Goal
  BY CurSame
<1>1. CASE UNCHANGED <<wpc, job, conn>>
  BY <1>1
<1>2. ASSUME NEW c \in Conns, Connect(c) PROVE Goal
  BY <1>2 DEF Connect, Placed, IInv, TypeOK
<1>3. CASE DeliverScan
  <2>1. \/ UNCHANGED <<job, wpc>>
        \/ /\ wpc' = [wpc EXCEPT ![L] = "take"]
           /\ job' = [job EXCEPT ![L] = {AsItem(Head(notes))}]
    BY <1>3 DEF DeliverScan
  <2>2. wpc[L] = "idle" /\ conn' = conn
    BY <1>3 DEF DeliverScan
  <2> QED
    BY <2>1, <2>2 DEF IInv, TypeOK
<1>4. ASSUME NEW c \in Conns, ResumeScan(c) \/ DrainWake(c) \/ DrainScan(c) \/ ScanFails(c) PROVE Goal
  BY <1>4 DEF ResumeScan, DrainWake, DrainScan, ScanFails, IInv, TypeOK
<1>5. ASSUME NEW c \in Conns, ResumeRelease(c) \/ ResumeReleaseFails(c) PROVE Goal
  <2>1. c \in Workers /\ wpc[c] = "take" /\ conn' = conn
        /\ \E result \in {"sent", "error"} : Finish(c, result)
    BY <1>5 DEF ResumeRelease, ResumeReleaseFails, Workers
  <2>2. TypeOK /\ job[c] # {}
    BY <2>1 DEF IInv, WorkerOK
  <2>3. /\ wpc'[c] \in {"idle", "scan", "take"}
        /\ \A u \in Workers \ {c} : wpc'[u] = wpc[u] /\ job'[u] = job[u]
    BY <2>1, <2>2, FinishEffect
  <2> QED
    BY <2>1, <2>3
<1>6. CASE UNCHANGED vars \/ ListenerBack \/ ListenerDrop \/ DeliverScanFails
  BY <1>1, <1>6 DEF vars, ListenerBack, ListenerDrop, DeliverScanFails
<1>7. ASSUME NEW i \in Ids, NEW q \in Qoss[i], Publish(i, q) PROVE Goal
  BY <1>1, <1>7 DEF Publish
<1>8. ASSUME NEW i \in Ids, Expire(i) PROVE Goal
  BY <1>1, <1>8 DEF Expire
<1>9. ASSUME NEW c \in Conns, Cut(c) \/ Close(c) \/ EndOnError(c) PROVE Goal
  BY <1>1, <1>9 DEF Cut, Close, EndOnError
<1>10. ASSUME NEW c \in Conns, ReadAck(c) \/ HandleFinalAck(c) \/ HandlePubrec(c) \/ AckFails(c) PROVE Goal
  BY <1>1, <1>10 DEF ReadAck, HandleFinalAck, HandlePubrec, AckFails
<1> HIDE DEF Goal
<1>11. CASE Surroundings
  BY <1>2, <1>6, <1>7, <1>8, <1>9, <1>11 DEF Surroundings
<1> QED
  BY <1>3, <1>4, <1>5, <1>6, <1>9, <1>10, <1>11, NextCases

-----------------------------------------------------------------------------
(* Accepts.                                                                *)

LEMMA AnswerQueued ==
    ASSUME ~Rejects, Accepts, TypeOK, NEW c \in Conns, NEW ack \in Accepted,
           owed' = [owed EXCEPT ![c] = Append(owed[c], ack)]
    PROVE  \A d \in Conns : owed'[d] \in Seq(Accepted)
<1>1. Append(owed[c], ack) \in Seq(Accepted)
  BY DEF Accepts
<1> QED
  BY <1>1 DEF Accepts, TypeOK

LEMMA ReleaseQueued ==
    ASSUME ~Rejects, Accepts, TypeOK, NEW c \in Conns, NEW p \in Pids,
           ClientReleases(c, p) \/ UNCHANGED <<held, owed>>
    PROVE  \A d \in Conns : owed'[d] \in Seq(Accepted)
<1>1. CASE ClientReleases(c, p)
  <2>1. [type |-> "pubcomp", pid |-> p] \in Accepted
    BY DEF Accepted, Ack
  <2> QED
    BY <1>1, <2>1, AnswerQueued DEF ClientReleases
<1> QED
  BY <1>1 DEF Accepts

LEMMA AcceptsStep ==
    ASSUME IInv, Accepts, [Next]_vars
    PROVE  Accepts'
<1> SUFFICES ASSUME ~Rejects PROVE Accepts'
  BY DEF Accepts
<1>1. TypeOK
  BY DEF IInv
<1>2. CASE UNCHANGED <<handling, owed>>
  BY <1>2 DEF Accepts
<1>3. ASSUME NEW w \in Workers, Write(w) PROVE Accepts'
  <2>1. conn[w] \in Conns /\ Cur(w).id \in Ids /\ (pid[w] \in Pids \/ qos[Cur(w).id] = 0)
    BY <1>1, <1>3, CurIn DEF Write, IInv, WorkerOK, Busy
  <2>2. handling' = handling
    BY <1>3 DEF Write
  <2>3. CASE owed' = owed
    BY <1>2, <2>2, <2>3
  <2>4. CASE owed' # owed
    <3>1. PICK refuse \in BOOLEAN : ClientGets(conn[w], Cur(w).id, pid[w], refuse)
      BY <1>3, <2>4 DEF Write
    <3>2. qos[Cur(w).id] # 0 /\ ~refuse
      BY <2>4, <3>1 DEF ClientGets
    <3>3. PICK type \in {"puback", "pubrec"} :
             owed' = [owed EXCEPT ![conn[w]] = Append(owed[conn[w]], [type |-> type, pid |-> pid[w]])]
      BY <3>1, <3>2 DEF ClientGets
    <3>4. [type |-> type, pid |-> pid[w]] \in Accepted
      BY <2>1, <3>2 DEF Accepted, Ack
    <3>5. \A d \in Conns : owed'[d] \in Seq(Accepted)
      BY <1>1, <2>1, <3>3, <3>4, AnswerQueued
    <3> QED
      BY <2>2, <3>5 DEF Accepts
  <2> QED
    BY <2>3, <2>4
<1>4. ASSUME NEW c \in Conns, ResumeRelease(c) PROVE Accepts'
  <2>1. wpc[c] = "take" /\ c \in Workers /\ Cur(c).st = "awaiting_pubcomp" /\ handling' = handling
    BY <1>4 DEF ResumeRelease, Workers
  <2>2. Cur(c).pid \in Pids
    <3>1. Cur(c) \in job[c]
      BY <1>1, <2>1, CurIn DEF IInv, WorkerOK
    <3> QED
      BY <2>1, <3>1 DEF IInv, WorkerOK
  <2>3. ClientReleases(c, Cur(c).pid) \/ UNCHANGED <<held, owed>>
    BY <1>4 DEF ResumeRelease
  <2> QED
    BY <1>1, <2>1, <2>2, <2>3, ReleaseQueued DEF Accepts
<1>5. ASSUME NEW c \in Conns, ReadAck(c) PROVE Accepts'
  <2>1. owed[c] \in Seq(Accepted) /\ owed[c] # << >>
    BY <1>5 DEF ReadAck, Accepts
  <2>2. Head(owed[c]) \in Accepted /\ Tail(owed[c]) \in Seq(Accepted)
    BY <2>1
  <2>3. Head(owed[c]).type # "refuse"
    BY <2>2 DEF Accepted
  <2> QED
    BY <1>1, <1>5, <2>1, <2>2, <2>3 DEF ReadAck, Accepts, TypeOK
<1>6. ASSUME NEW c \in Conns, HandleFinalAck(c) \/ AckFails(c) \/ EndOnError(c) PROVE Accepts'
  <2>1. owed' = owed /\ \E a \in {NoAck, Failed} : handling' = [handling EXCEPT ![c] = a]
    BY <1>6 DEF HandleFinalAck, AckFails, EndOnError, clientVars
  <2> QED
    BY <1>1, <2>1 DEF Accepts, NoAck, Failed, TypeOK
<1>7. ASSUME NEW c \in Conns, HandlePubrec(c) PROVE Accepts'
  <2>1. handling' = [handling EXCEPT ![c] = NoAck]
    BY <1>7 DEF HandlePubrec
  <2>2. handling[c].pid \in Pids
    <3>1. handling[c] \in Ack \cup {NoAck, Failed} /\ handling[c].type = "pubrec"
      BY <1>1, <1>7 DEF HandlePubrec, TypeOK
    <3>2. handling[c] \in Ack
      BY <3>1 DEF NoAck, Failed
    <3> QED
      BY <3>2 DEF Ack
  <2>3. ClientReleases(c, handling[c].pid) \/ UNCHANGED <<held, owed>>
    BY <1>7 DEF HandlePubrec
  <2>4. \A d \in Conns : owed'[d] \in Seq(Accepted)
    BY <1>1, <2>2, <2>3, ReleaseQueued
  <2> QED
    BY <1>1, <2>1, <2>4 DEF Accepts, NoAck, TypeOK
<1>8. CASE UNCHANGED vars \/ ListenerBack \/ ListenerDrop \/ DeliverScan \/ DeliverScanFails
  BY <1>2, <1>8 DEF vars, clientVars, ListenerBack, ListenerDrop, DeliverScan, DeliverScanFails
<1>9. ASSUME NEW i \in Ids, (\E q \in Qoss[i] : Publish(i, q)) \/ Expire(i) PROVE Accepts'
  BY <1>2, <1>9 DEF Publish, Expire, clientVars
<1>10. ASSUME NEW c \in Conns,
              \/ Connect(c) \/ Cut(c) \/ Close(c) \/ ResumeScan(c) \/ DrainWake(c) \/ DrainScan(c)
              \/ ScanFails(c) \/ ResumeReleaseFails(c)
       PROVE Accepts'
  BY <1>2, <1>10 DEF clientVars, Connect, Cut, Close, ResumeScan, DrainWake, DrainScan, ScanFails,
                     ResumeReleaseFails
<1>11. ASSUME NEW w \in Workers,
              \/ SkipUnconnected(w) \/ DropUndeliverable(w) \/ SkipNoSlot(w) \/ Begin(w)
              \/ Alloc(w) \/ AllocFails(w) \/ Claim(w) \/ ClaimFails(w) \/ WriteFails(w)
       PROVE Accepts'
  BY <1>2, <1>11 DEF clientVars, SkipUnconnected, DropUndeliverable, SkipNoSlot, Begin, Alloc,
                     AllocFails, Claim, ClaimFails, WriteFails
<1>12. CASE Surroundings
  BY <1>8, <1>9, <1>10, <1>12 DEF Surroundings
<1>13. ASSUME NEW w \in Workers, DeliverStep(w) PROVE Accepts'
  BY <1>3, <1>11, <1>13 DEF DeliverStep
<1> QED
  BY <1>4, <1>5, <1>6, <1>7, <1>8, <1>10, <1>12, <1>13, NextCases
-----------------------------------------------------------------------------
(* What happens to the rows.                                               *)

\* Worker w takes row i out of the queue, by a claim that may have failed.
Takes(w, i) ==
    /\ wpc[w] = "claim" /\ (Claim(w) \/ ClaimFails(w))
    /\ rows[i].st = "queued"
    /\ \/ rows'[i].st = "gone" /\ qos[i] = 0
       \/ rows'[i].st = "inflight" /\ qos[i] > 0 /\ rows'[i].pid = pid[w] /\ ~InUse(pid[w])

\* Row i is deleted as undeliverable.
Drops(i) == rows'[i].st = "gone" /\ i \in expired \cup Oversized

LEMMA DeliverRows ==
    ASSUME IInv, NEW w \in Workers, DeliverStep(w)
    PROVE  /\ Cur(w).id \in Ids
           /\ \A j \in Ids \ {Cur(w).id} : rows'[j] = rows[j]
           /\ rows' = rows \/ Takes(w, Cur(w).id) \/ Drops(Cur(w).id)
<1> USE DEF rowVars
<1>1. TypeOK /\ (wpc[w] = "take" \/ Busy(w)) /\ job[w] # {} /\ qos' = qos
  BY DeliverFrame DEF IInv, WorkerOK
<1>2. PICK i \in Ids : i = Cur(w).id
  BY <1>1, CurIn
<1>3. rows \in [Ids -> Row] /\ Gone.st = "gone" /\ qos[i] \in 0..2
  BY <1>1 DEF TypeOK, Gone
<1>4. CASE rows' = rows
  BY <1>2, <1>4
<1>5. CASE DropUndeliverable(w) /\ rows' # rows
  <2>1. rows' = [rows EXCEPT ![i] = Gone] /\ i \in expired \cup Oversized
    BY <1>2, <1>5 DEF DropUndeliverable
  <2>2. rows'[i].st = "gone" /\ \A j \in Ids \ {i} : rows'[j] = rows[j]
    BY <1>3, <2>1
  <2> QED
    BY <1>2, <2>1, <2>2 DEF Drops
<1>6. CASE (Claim(w) \/ ClaimFails(w)) /\ rows' # rows
  <2>1. wpc[w] = "claim" /\ rows' = AfterClaim(w) /\ Claimable(i) /\ ~IdTaken(w)
    BY <1>2, <1>6 DEF Claim, ClaimFails
  <2>2. /\ rows'[i] = IF qos[i] = 0 THEN Gone ELSE [st |-> "inflight", pid |-> pid[w]]
        /\ \A j \in Ids \ {i} : rows'[j] = rows[j]
    BY <1>1, <1>2, <2>1, AfterClaimTypes
  <2>3. qos[i] > 0 => ~InUse(pid[w])
    BY <1>2, <2>1 DEF IdTaken
  <2>4. \/ rows'[i].st = "gone" /\ qos[i] = 0
        \/ rows'[i].st = "inflight" /\ qos[i] > 0 /\ rows'[i].pid = pid[w] /\ ~InUse(pid[w])
    <3>1. CASE qos[i] = 0
      BY <1>3, <2>2, <3>1
    <3>2. CASE qos[i] # 0
      <4>1. rows'[i] = [st |-> "inflight", pid |-> pid[w]] /\ qos[i] > 0
        BY <1>3, <2>2, <3>2
      <4> QED
        BY <2>3, <4>1
    <3> QED
      BY <3>1, <3>2
  <2> QED
    BY <1>2, <1>6, <2>1, <2>2, <2>4 DEF Takes, Claimable
<1>7. CASE SkipUnconnected(w) \/ SkipNoSlot(w) \/ Begin(w) \/ Alloc(w) \/ AllocFails(w) \/ Write(w)
           \/ WriteFails(w)
  BY <1>4, <1>7 DEF SkipUnconnected, SkipNoSlot, Begin, Alloc, AllocFails, Write, WriteFails
<1> QED
  BY <1>4, <1>5, <1>6, <1>7 DEF DeliverStep

\* A final acknowledgement is about a row in state 1 or 2.
LEMMA AckedClaimed ==
    ASSUME TypeOK, NEW ack \in Ack
    PROVE  \A i \in Acked(ack) : i \in Claimed /\ rows[i].pid = ack.pid
<1>1. \A i \in Ids : rows[i].st = "queued" => rows[i].pid = 0
  BY RowTypes
<1>2. ack.pid \in Pids /\ 0 \notin Pids
  BY DEF Ack, Pids
<1> QED
  BY <1>1, <1>2 DEF Acked, AckedRow, Live, Claimed

\* The handlers.
LEMMA HandlerRows ==
    ASSUME IInv, NEW c \in Conns, HandlerStep(c)
    PROVE  /\ handling[c] \in Ack /\ UNCHANGED <<qos, pc, reg, cut>>
           /\ handling'[c] = IF AckFails(c) THEN Failed ELSE NoAck
           /\ \A d \in Conns \ {c} : handling'[d] = handling[d]
           /\ \A i \in Ids :
                \/ rows'[i] = rows[i]
                \/ /\ rows[i].st = "inflight" /\ rows'[i].st = "awaiting_pubcomp"
                   /\ rows'[i].pid = rows[i].pid
                \/ /\ rows'[i].st = "gone" /\ i \in Acked(handling[c])
                   /\ HandleFinalAck(c) \/ AckFails(c)
<1>1. TypeOK /\ handling \in [Conns -> Ack \cup {NoAck, Failed}] /\ NoAck # Failed
  BY DEF IInv, TypeOK, NoAck, Failed
<1>2. handling[c] \in Ack
  <2>1. CASE AckFails(c)
    BY <1>1, <2>1 DEF AckFails
  <2>2. CASE HandleFinalAck(c) \/ HandlePubrec(c)
    <3>1. handling[c].type \in {"puback", "pubcomp", "refuse", "pubrec"}
      BY <2>2 DEF HandleFinalAck, HandlePubrec
    <3>2. handling[c] # NoAck /\ handling[c] # Failed
      BY <3>1 DEF NoAck, Failed
    <3> QED
      BY <1>1, <3>2
  <2> QED
    BY <2>1, <2>2 DEF HandlerStep
<1>3. UNCHANGED <<qos, pc, reg, cut>> /\ (rows' = rows \/ rows' = AckEffect(handling[c]))
  BY DEF HandlerStep, HandleFinalAck, HandlePubrec, AckFails
<1>4. \A i \in Ids :
        \/ rows'[i] = rows[i]
        \/ rows'[i] = Gone /\ i \in Acked(handling[c]) /\ handling[c].type # "pubrec"
        \/ /\ rows[i].st = "inflight" /\ rows'[i].st = "awaiting_pubcomp"
           /\ rows'[i].pid = rows[i].pid
  BY <1>1, <1>3, AckEffectTypes
<1>5. handling[c].type # "pubrec" => HandleFinalAck(c) \/ AckFails(c)
  BY DEF HandlerStep, HandlePubrec
<1>6. /\ handling'[c] = IF AckFails(c) THEN Failed ELSE NoAck
      /\ \A d \in Conns \ {c} : handling'[d] = handling[d]
  <2>1. CASE AckFails(c)
    BY <1>1, <2>1 DEF AckFails
  <2>2. CASE ~AckFails(c)
    <3>1. handling' = [handling EXCEPT ![c] = NoAck]
      BY <2>2 DEF HandlerStep, HandleFinalAck, HandlePubrec
    <3> QED
      BY <1>1, <2>2, <3>1
  <2> QED
    BY <2>1, <2>2
<1> QED
  BY <1>2, <1>3, <1>4, <1>5, <1>6 DEF Gone

\* The steps but those of deliverOneTracked and the handlers.
LEMMA QuietRows ==
    ASSUME IInv, [Next]_vars, ~ \E w \in Workers : DeliverStep(w),
           ~ \E c \in Conns : HandlerStep(c)
    PROVE  /\ UNCHANGED <<slots, via, extra>>
           /\ \A i \in Ids : \/ rows'[i] = rows[i] /\ qos'[i] = qos[i]
                             \/ rows[i].st = "absent" /\ rows'[i].st = "queued"
<1> USE DEF rowVars, connVars, slotVars
<1>1. CASE Still
  BY <1>1 DEF Still
<1>2. ASSUME NEW i \in Ids, NEW q \in Qoss[i], Publish(i, q)
      PROVE  /\ UNCHANGED <<slots, via, extra>>
             /\ \A j \in Ids : \/ rows'[j] = rows[j] /\ qos'[j] = qos[j]
                               \/ rows[j].st = "absent" /\ rows'[j].st = "queued"
  <2>1. rows \in [Ids -> Row] /\ qos \in [Ids -> 0..2]
    BY DEF IInv, TypeOK
  <2> QED
    BY <1>2, <2>1 DEF Publish, Row
<1>3. ASSUME NEW c \in Conns, SocketStep(c) \/ ReadAck(c) PROVE UNCHANGED <<slots, via, extra, rows, qos>>
  BY <1>3 DEF SocketStep, Connect, Cut, Close, EndOnError, ReadAck
<1> QED
  BY <1>1, <1>2, <1>3, StepCases

\* Nothing returns to state 0, and what stays claimed keeps its packet id.
LEMMA RowStep ==
    ASSUME IInv, [Next]_vars, NEW i \in Ids
    PROVE  /\ Taken(i) => Taken(i)'
           /\ i \in Claimed /\ i \in Claimed' => rows'[i].pid = rows[i].pid
           /\ i \in Claimed' /\ i \notin Claimed =>
                \E w \in Workers : DeliverStep(w) /\ i = Cur(w).id /\ Takes(w, i)
<1>1. ASSUME NEW w \in Workers, DeliverStep(w)
      PROVE  rows'[i] = rows[i] \/ (i = Cur(w).id /\ (Takes(w, i) \/ Drops(i)))
  BY <1>1, DeliverRows
<1>2. CASE \E w \in Workers : DeliverStep(w)
  BY <1>1, <1>2 DEF Takes, Drops, Taken, Claimed
<1>3. CASE \E c \in Conns : HandlerStep(c)
  BY <1>3, HandlerRows DEF Taken, Claimed
<1>4. CASE ~(\E w \in Workers : DeliverStep(w)) /\ ~(\E c \in Conns : HandlerStep(c))
  BY <1>4, QuietRows DEF Taken, Claimed
<1> QED
  BY <1>2, <1>3, <1>4

LEMMA DistinctStep ==
    ASSUME IInv, Placed, Distinct, [Next]_vars
    PROVE  Distinct'
<1>1. \A v \in Workers : Busy(v)' => Cur(v)'.id \notin Oversized
  <2> SUFFICES ASSUME NEW v \in Workers, Busy(v)' PROVE Cur(v)'.id \notin Oversized
    OBVIOUS
  <2>1. ASSUME NEW w \in Workers, DeliverStep(w) PROVE Cur(v)'.id \notin Oversized
    <3>1. /\ \A u \in Workers \ {w} : wpc'[u] = wpc[u] /\ job'[u] = job[u]
          /\ Busy(w)' => job'[w] = job[w] /\ (Begin(w) \/ Busy(w))
      BY <2>1, DeliverFrame
    <3>2. CASE v # w
      BY <3>1, <3>2, CurSame DEF Distinct, Busy
    <3>3. CASE v = w
      <4>1. Cur(w)' = Cur(w) /\ (Begin(w) \/ Busy(w))
        BY <3>1, <3>3, CurSame
      <4> QED
        BY <3>3, <4>1 DEF Distinct, Begin, Deliverable
    <3> QED
      BY <3>2, <3>3
  <2>2. CASE ~ \E w \in Workers : DeliverStep(w)
    <3>1. Busy(v) /\ Cur(v)' = Cur(v)
      BY <2>2, OthersFrame DEF Busy
    <3> QED
      BY <3>1 DEF Distinct
  <2> QED
    BY <2>1, <2>2
<1>2. \A i, j \in Claimed' : rows'[i].pid = rows'[j].pid => i = j
  <2>1. CASE Claimed' \subseteq Claimed
    <3>1. \A i \in Claimed' : i \in Ids /\ rows'[i].pid = rows[i].pid
      BY <2>1, RowStep DEF Claimed
    <3> QED
      BY <2>1, <3>1 DEF Distinct
  <2>2. CASE ~(Claimed' \subseteq Claimed)
    <3>1. PICK k \in Ids : k \in Claimed' /\ k \notin Claimed
      BY <2>2 DEF Claimed
    <3>2. PICK w \in Workers : DeliverStep(w) /\ k = Cur(w).id /\ Takes(w, k)
      BY <3>1, RowStep
    <3>3. \A j \in Ids \ {k} : rows'[j] = rows[j]
      BY <3>2, DeliverRows
    <3>4. rows'[k].pid = pid[w] /\ \A j \in Claimed : rows[j].pid # pid[w]
      BY <3>1, <3>2 DEF Takes, Claimed, InUse
    <3>5. \A j \in Claimed' \ {k} : j \in Claimed /\ rows'[j].pid = rows[j].pid
      BY <3>3 DEF Claimed
    <3> QED
      BY <3>4, <3>5 DEF Distinct
  <2> QED
    BY <2>1, <2>2
<1> QED
  BY <1>1, <1>2 DEF Distinct

-----------------------------------------------------------------------------
(* Sockets: what has connected stays so, and what has not is left alone.   *)

LEMMA SocketsStep ==
    ASSUME IInv, Placed, [Next]_vars
    PROVE  /\ \A d \in Conns : /\ pc'[d] = "idle" => pc[d] = "idle"
                               /\ pc'[d] = "up" => pc[d] \in {"idle", "up"}
                               /\ cut[d] => cut'[d]
                               /\ pc'[d] = "closed" => cut'[d]
           /\ reg' # None => pc'[reg'] = "up"
<1> DEFINE Goal == /\ \A d \in Conns : /\ pc'[d] = "idle" => pc[d] = "idle"
                                       /\ pc'[d] = "up" => pc[d] \in {"idle", "up"}
                                       /\ cut[d] => cut'[d]
                                       /\ pc'[d] = "closed" => cut'[d]
                   /\ reg' # None => pc'[reg'] = "up"
<1> SUFFICES Goal
  OBVIOUS
<1>1. pc \in [Conns -> {"idle", "up", "closed"}] /\ cut \in [Conns -> BOOLEAN] /\ reg \in Conns \cup {None}
  BY DEF IInv, TypeOK
<1>2. CASE UNCHANGED <<pc, reg, cut>>
  BY <1>2 DEF Placed
<1>3. ASSUME NEW c \in Conns, Connect(c) PROVE Goal
  <2>1. /\ reg' = c /\ pc' = [d \in Conns |-> IF d = c THEN "up" ELSE IF d = reg THEN "closed" ELSE pc[d]]
        /\ cut' = [d \in Conns |-> cut[d] \/ pc[d] = "up"] /\ pc[c] = "idle"
    BY <1>3 DEF Connect
  <2>2. /\ pc'[c] = "up"
        /\ \A d \in Conns \ {c} : pc'[d] = IF d = reg THEN "closed" ELSE pc[d]
        /\ \A d \in Conns : cut'[d] <=> (cut[d] \/ pc[d] = "up")
    BY <2>1
  <2>3. \A d \in Conns : d = reg => d # None
    BY WorkerAssumption
  <2> QED
    BY <1>1, <2>1, <2>2, <2>3 DEF Placed
<1>4. ASSUME NEW c \in Conns, Cut(c) PROVE Goal
  BY <1>1, <1>4 DEF Cut, Placed
<1>5. ASSUME NEW c \in Conns, Close(c) PROVE Goal
  BY <1>1, <1>5 DEF Close, Placed
<1>6. ASSUME NEW c \in Conns, EndOnError(c) PROVE Goal
  <2>1. /\ pc' = [pc EXCEPT ![c] = "closed"] /\ cut' = [cut EXCEPT ![c] = TRUE]
        /\ reg' = IF reg = c THEN None ELSE reg
    BY <1>6 DEF EndOnError
  <2>2. pc[c] # "idle"
    BY <1>6 DEF EndOnError, Placed, NoAck, Failed
  <2> QED
    BY <1>1, <2>1, <2>2 DEF Placed
<1>7. ASSUME NEW c \in Conns, ReadAck(c) \/ HandlerStep(c) PROVE UNCHANGED <<pc, reg, cut>>
  BY <1>7 DEF ReadAck, HandlerStep, HandleFinalAck, HandlePubrec, AckFails
<1>8. ASSUME NEW i \in Ids, NEW q \in Qoss[i], Publish(i, q) PROVE UNCHANGED <<pc, reg, cut>>
  BY <1>8 DEF Publish
<1>9. ASSUME NEW w \in Workers, DeliverStep(w) PROVE UNCHANGED <<pc, reg, cut>>
  BY <1>9, DeliverFrame
<1>10. CASE Still
  BY <1>2, <1>10 DEF Still
<1> HIDE DEF Goal
<1> QED
  BY <1>2, <1>3, <1>4, <1>5, <1>6, <1>7, <1>8, <1>9, <1>10, StepCases DEF SocketStep

LEMMA IdleFrame ==
    ASSUME IInv, Placed, [Next]_vars, NEW d \in Conns, pc[d] = "idle", pc'[d] = "idle"
    PROVE  wpc'[d] = "idle" /\ handling'[d] = NoAck
<1> USE DEF workVars
<1>0. d \in Workers /\ d # L /\ wpc[d] = "idle" /\ handling[d] = NoAck
  BY WorkerAssumption DEF Workers, Placed
<1> DEFINE Goal == wpc'[d] = wpc[d] /\ handling'[d] = handling[d]
<1> SUFFICES Goal
  BY <1>0
<1>1. wpc \in [Workers -> {"idle", "scan", "take", "alloc", "claim", "write"}]
      /\ handling \in [Conns -> Ack \cup {NoAck, Failed}] /\ pc \in [Conns -> {"idle", "up", "closed"}]
  BY DEF IInv, TypeOK
<1>2. ASSUME NEW w \in Workers, DeliverStep(w) PROVE Goal
  <2>1. w # d
    BY <1>0, <1>2, DeliverFrame DEF Busy
  <2> QED
    BY <1>0, <1>2, <2>1, DeliverFrame
<1>3. ASSUME NEW c \in Conns, Connect(c) PROVE Goal
  <2>1. c # d
    BY <1>1, <1>3 DEF Connect
  <2> QED
    BY <1>0, <1>1, <1>3, <2>1 DEF Connect
<1>4. ASSUME NEW c \in Conns, Cut(c) \/ Close(c) PROVE Goal
  BY <1>4 DEF Cut, Close
<1>5. ASSUME NEW i \in Ids, (\E q \in Qoss[i] : Publish(i, q)) \/ Expire(i) PROVE Goal
  BY <1>5 DEF Publish, Expire
<1>6. CASE UNCHANGED vars \/ ListenerDrop \/ ListenerBack \/ DeliverScanFails
  BY <1>6 DEF vars, ListenerDrop, ListenerBack, DeliverScanFails
<1>7. CASE DeliverScan
  <2>1. wpc' = wpc \/ wpc' = [wpc EXCEPT ![L] = "take"]
    BY <1>7 DEF DeliverScan
  <2> QED
    BY <1>0, <1>1, <1>7, <2>1 DEF DeliverScan
<1>8. ASSUME NEW c \in Conns, ResumeScan(c) \/ DrainWake(c) \/ DrainScan(c) \/ ScanFails(c) PROVE Goal
  <2>1. c # d /\ c \in Workers
    BY <1>0, <1>8 DEF ResumeScan, DrainWake, DrainScan, ScanFails, Workers
  <2> QED
    BY <1>0, <1>1, <1>8, <2>1 DEF ResumeScan, DrainWake, DrainScan, ScanFails
<1>9. ASSUME NEW c \in Conns, ResumeRelease(c) \/ ResumeReleaseFails(c) PROVE Goal
  <2>1. c \in Workers /\ c # d /\ handling' = handling
        /\ wpc[c] = "take" /\ \E result \in {"sent", "error"} : Finish(c, result)
    BY <1>0, <1>9 DEF ResumeRelease, ResumeReleaseFails, Workers
  <2>2. TypeOK /\ job[c] # {}
    BY <2>1 DEF IInv, WorkerOK
  <2>3. \A u \in Workers \ {c} : wpc'[u] = wpc[u]
    BY <2>1, <2>2, FinishEffect
  <2> QED
    BY <1>0, <2>1, <2>3
<1>10. ASSUME NEW c \in Conns, HandlerStep(c) PROVE Goal
  <2>1. c # d
    BY <1>0, <1>10, HandlerRows DEF Ack, NoAck
  <2>2. wpc' = wpc
    BY <1>10 DEF HandlerStep, HandleFinalAck, HandlePubrec, AckFails
  <2> QED
    BY <1>10, <2>1, <2>2, HandlerRows
<1>11. ASSUME NEW c \in Conns, ReadAck(c) \/ EndOnError(c) PROVE Goal
  <2>1. c # d
    BY <1>0, <1>11 DEF ReadAck, EndOnError, NoAck, Failed
  <2>2. wpc' = wpc /\ \E ack : handling' = [handling EXCEPT ![c] = ack]
    BY <1>11 DEF ReadAck, EndOnError
  <2> QED
    BY <1>1, <2>1, <2>2
<1> HIDE DEF Goal
<1>12. CASE Surroundings
  BY <1>3, <1>4, <1>5, <1>6, <1>12 DEF Surroundings
<1> QED
  BY <1>2, <1>6, <1>7, <1>8, <1>9, <1>10, <1>11, <1>12, NextCases DEF HandlerStep

LEMMA PlacedStep ==
    ASSUME IInv, Placed, [Next]_vars
    PROVE  Placed'
<1>1. /\ \A d \in Conns : pc'[d] = "idle" => pc[d] = "idle"
      /\ \A d \in Conns : pc'[d] = "closed" => cut'[d]
      /\ reg' # None => pc'[reg'] = "up"
  BY SocketsStep
<1>2. \A d \in Conns : pc'[d] = "idle" => wpc'[d] = "idle" /\ handling'[d] = NoAck
  BY <1>1, IdleFrame
<1>3. \A v \in Workers : Busy(v)' => pc'[conn'[v]] # "idle"
  <2> SUFFICES ASSUME NEW v \in Workers, Busy(v)' PROVE pc'[conn'[v]] # "idle"
    OBVIOUS
  <2>1. ASSUME NEW w \in Workers, DeliverStep(w) PROVE pc'[conn'[v]] # "idle"
    <3>1. /\ pc' = pc
          /\ \A u \in Workers \ {w} : wpc'[u] = wpc[u] /\ conn'[u] = conn[u]
          /\ Busy(w)' => Begin(w) \/ (Busy(w) /\ conn'[w] = conn[w])
      BY <2>1, DeliverFrame
    <3>2. CASE v # w
      BY <3>1, <3>2 DEF Placed, Busy
    <3>3. CASE v = w /\ Begin(w)
      <4>1. conn'[w] = reg /\ reg # None
        BY <3>3 DEF Begin, Deliverable, IInv, TypeOK
      <4> QED
        BY <3>1, <3>3, <4>1 DEF Placed
    <3> QED
      BY <3>1, <3>2, <3>3 DEF Placed
  <2>2. CASE ~ \E w \in Workers : DeliverStep(w)
    <3>1. Busy(v) /\ conn'[v] = conn[v] /\ conn[v] \in Conns
      BY <2>2, OthersFrame DEF Busy, IInv, WorkerOK
    <3> QED
      BY <1>1, <3>1 DEF Placed
  <2> QED
    BY <2>1, <2>2
<1>4. Claimed' # {} => \E c \in Conns : pc'[c] # "idle"
  <2>1. CASE Claimed' \subseteq Claimed
    BY <1>1, <2>1 DEF Placed
  <2>2. CASE ~(Claimed' \subseteq Claimed)
    <3>1. PICK i \in Ids : i \in Claimed' /\ i \notin Claimed
      BY <2>2 DEF Claimed
    <3>2. PICK w \in Workers : Takes(w, i)
      BY <3>1, RowStep
    <3>3. Busy(w) /\ conn[w] \in Conns
      BY <3>2 DEF Takes, Busy, IInv, WorkerOK
    <3> QED
      BY <1>1, <3>3 DEF Placed
  <2> QED
    BY <2>1, <2>2
<1> QED
  BY <1>1, <1>2, <1>3, <1>4 DEF Placed
-----------------------------------------------------------------------------
(* The histories.                                                          *)

\* The only steps that change them: a claim that is won, a failed write, a handler.
Wins(w) == /\ wpc[w] = "claim" /\ Claim(w) /\ Takes(w, Cur(w).id) /\ qos[Cur(w).id] > 0
           /\ via' = [via EXCEPT ![Cur(w).id] = conn[w]]
           /\ UNCHANGED <<extra, slots>> /\ wpc' = [wpc EXCEPT ![w] = "write"]

GivesUp(w) == /\ WriteFails(w)
              /\ ReturnInflight(conn[w]) /\ Settle(conn[w], {Cur(w).id}, TRUE)

Releasing(c) == \/ HandleFinalAck(c) /\ Releases(handling[c], Acked(handling[c]))
                \/ AckFails(c) /\ handling[c].type = "refuse"

Settles(c) == Releasing(c) /\ ReturnInflight(c) /\ Settle(c, Acked(handling[c]), TRUE)

\* A handler frees a slot and settles its rows, or does neither.
LEMMA HandlerHistory ==
    ASSUME IInv, NEW c \in Conns, HandlerStep(c)
    PROVE  UNCHANGED <<via, extra, slots>> \/ Settles(c)
<1> DEFINE done == Acked(handling[c])
<1>1. via \in [Ids -> Conns \cup {None}] /\ extra \in [Conns -> Nat]
  BY DEF IInv, TypeOK
<1>2. CASE HandlePubrec(c)
  BY <1>2 DEF HandlePubrec, connVars, slotVars
<1>3. CASE AckFails(c)
  BY <1>3 DEF AckFails, Settles, Releasing, KeepInflight, KeepHistory
<1>4. CASE HandleFinalAck(c) /\ Releases(handling[c], done)
  BY <1>4 DEF HandleFinalAck, Settles, Releasing
<1>5. CASE HandleFinalAck(c) /\ ~Releases(handling[c], done)
  <2>1. done = {}
    BY <1>5 DEF Releases
  <2>2. slots' = slots /\ Settle(c, done, Releases(handling[c], done))
    BY <1>5 DEF HandleFinalAck, KeepInflight
  <2>3. via' = [i \in Ids |-> via[i]] /\ extra' = [extra EXCEPT ![c] = extra[c]]
    BY <1>5, <2>1, <2>2 DEF Settle
  <2> QED
    BY <1>1, <2>2, <2>3
<1> QED
  BY <1>2, <1>3, <1>4, <1>5 DEF HandlerStep

LEMMA DeliverHistory ==
    ASSUME IInv, NEW w \in Workers, DeliverStep(w)
    PROVE  UNCHANGED <<via, extra>> \/ Wins(w) \/ GivesUp(w)
<1> USE DEF connVars, slotVars
<1>1. CASE SkipUnconnected(w) \/ DropUndeliverable(w) \/ SkipNoSlot(w) \/ Begin(w) \/ Alloc(w)
           \/ AllocFails(w) \/ ClaimFails(w) \/ Write(w)
  BY <1>1 DEF SkipUnconnected, DropUndeliverable, SkipNoSlot, Begin, Alloc, AllocFails, ClaimFails,
              Write, KeepHistory
<1>2. CASE WriteFails(w)
  BY <1>2 DEF WriteFails, GivesUp, KeepHistory
<1>3. CASE Claim(w)
  <2> DEFINE i == Cur(w).id
  <2>1. TypeOK /\ wpc[w] = "claim" /\ job[w] # {} /\ extra' = extra /\ via \in [Ids -> Conns \cup {None}]
        /\ qos' = qos
    BY <1>3 DEF Claim, IInv, WorkerOK, Busy, TypeOK
  <2>2. i \in Ids /\ qos[i] \in 0..2
    BY <2>1, CurIn DEF TypeOK
  <2>3. CASE Claimable(i) /\ ~IdTaken(w) /\ qos[i] > 0
    <3>1. /\ rows' = AfterClaim(w) /\ wpc' = [wpc EXCEPT ![w] = "write"] /\ slots' = slots
          /\ via' = [via EXCEPT ![i] = conn[w]]
      BY <1>3, <2>3 DEF Claim, KeepInflight
    <3>2. rows'[i] = [st |-> "inflight", pid |-> pid[w]]
      BY <2>1, <2>2, <2>3, <3>1, AfterClaimTypes
    <3>3. Takes(w, i)
      BY <1>3, <2>1, <2>3, <3>2 DEF Takes, Claimable, IdTaken
    <3> QED
      BY <1>3, <2>1, <2>3, <3>1, <3>3 DEF Wins
  <2>4. CASE Claimable(i) /\ ~IdTaken(w) /\ ~(qos[i] > 0)
    <3>1. via' = [via EXCEPT ![i] = via[i]]
      BY <1>3, <2>4 DEF Claim
    <3> QED
      BY <2>1, <3>1
  <2>5. CASE ~Claimable(i) \/ IdTaken(w)
    BY <1>3, <2>1, <2>5 DEF Claim
  <2> QED
    BY <2>3, <2>4, <2>5
<1> QED
  BY <1>1, <1>2, <1>3 DEF DeliverStep

\* What Settle does.
LEMMA SettleEffect ==
    ASSUME TypeOK, NEW c \in Conns, NEW S, Settle(c, S, TRUE)
    PROVE  /\ \A i \in Ids : via'[i] = IF i \in S /\ via[i] = c THEN None ELSE via[i]
           /\ \A d \in Conns \ {c} : extra'[d] = extra[d]
           /\ extra'[c] = IF slots[c] > 0 /\ (\A i \in S : via[i] # c) THEN extra[c] + 1 ELSE extra[c]
<1>1. via \in [Ids -> Conns \cup {None}] /\ extra \in [Conns -> Nat]
  BY DEF TypeOK
<1> QED
  BY <1>1 DEF Settle

\* The history of a row and of a Conn, over one step.
LEMMA HistoryStep ==
    ASSUME IInv, [Next]_vars
    PROVE  \/ UNCHANGED <<via, extra>>
           \/ \E w \in Workers : DeliverStep(w) /\ (Wins(w) \/ GivesUp(w))
           \/ \E c \in Conns : HandlerStep(c) /\ Settles(c)
<1>1. CASE \E w \in Workers : DeliverStep(w)
  BY <1>1, DeliverHistory
<1>2. CASE \E c \in Conns : HandlerStep(c)
  BY <1>2, HandlerHistory
<1>3. CASE ~(\E w \in Workers : DeliverStep(w)) /\ ~(\E c \in Conns : HandlerStep(c))
  BY <1>3, QuietRows
<1> QED
  BY <1>1, <1>2, <1>3

LEMMA OwnedStep ==
    ASSUME IInv, Placed, Distinct, Owned, [Next]_vars
    PROVE  Owned'
<1>1. TypeOK /\ via \in [Ids -> Conns \cup {None}] /\ None \notin Conns
  BY WorkerAssumption DEF IInv, TypeOK
<1>2. \A d \in Conns : pc'[d] = "idle" => pc[d] = "idle"
  BY SocketsStep
<1>3. ASSUME NEW i \in Ids, via'[i] = via[i] \/ via'[i] = None, via'[i] # None
      PROVE  Taken(i)' /\ i \notin Oversized /\ pc'[via'[i]] # "idle"
  <2>1. via'[i] = via[i] /\ via[i] \in Conns /\ Taken(i) /\ i \notin Oversized /\ pc[via[i]] # "idle"
    BY <1>1, <1>3 DEF Owned
  <2> QED
    BY <1>2, <2>1, RowStep
<1>4. CASE UNCHANGED <<via, extra>>
  BY <1>2, <1>3, <1>4 DEF Owned
<1>5. ASSUME NEW w \in Workers, DeliverStep(w), Wins(w) PROVE Owned'
  <2>0. PICK i \in Ids : i = Cur(w).id
    BY <1>5, DeliverRows
  <2>1. conn[w] \in Conns /\ Busy(w) /\ pc' = pc /\ extra' = extra
    BY <1>5, DeliverFrame DEF Wins, Busy, IInv, WorkerOK
  <2>2. via'[i] = conn[w] /\ \A j \in Ids \ {i} : via'[j] = via[j]
    BY <1>1, <1>5, <2>0 DEF Wins
  <2>3. Taken(i)' /\ i \notin Oversized /\ pc'[via'[i]] # "idle"
    BY <1>5, <2>0, <2>1, <2>2 DEF Wins, Takes, Taken, Distinct, Placed
  <2>4. \A j \in Ids \ {i} : via'[j] # None => Taken(j)' /\ j \notin Oversized /\ pc'[via'[j]] # "idle"
    BY <1>3, <2>2
  <2> QED
    BY <2>1, <2>3, <2>4 DEF Owned
<1>6. ASSUME NEW c \in Conns, NEW S, Settle(c, S, TRUE), pc[c] # "idle" PROVE Owned'
  <2>1. \A i \in Ids : via'[i] = via[i] \/ via'[i] = None
    BY <1>1, <1>6, SettleEffect
  <2>2. \A d \in Conns : pc'[d] = "idle" => extra'[d] = 0
    <3>1. \A d \in Conns \ {c} : extra'[d] = extra[d]
      BY <1>1, <1>6, SettleEffect
    <3> QED
      BY <1>2, <1>6, <3>1 DEF Owned
  <2> QED
    BY <1>3, <2>1, <2>2 DEF Owned
<1>7. ASSUME NEW w \in Workers, GivesUp(w) PROVE Owned'
  <2>1. conn[w] \in Conns /\ pc[conn[w]] # "idle"
    BY <1>7 DEF GivesUp, WriteFails, Busy, IInv, WorkerOK, Placed
  <2> QED
    BY <1>6, <1>7, <2>1 DEF GivesUp
<1>8. ASSUME NEW c \in Conns, HandlerStep(c), Settles(c) PROVE Owned'
  <2>1. pc[c] # "idle"
    BY <1>8, HandlerRows DEF Placed, Ack, NoAck
  <2> QED
    BY <1>6, <1>8, <2>1 DEF Settles
<1> QED
  BY <1>4, <1>5, <1>7, <1>8, HistoryStep

\* On a first connection everything is about that Conn.
LEMMA AloneFacts ==
    ASSUME IInv, Placed, NEW c \in Conns, Alone(c)
    PROVE  /\ \A w \in Workers : Busy(w) => conn[w] = c
           /\ \A d \in Conns : HandlerStep(d) => d = c
<1>1. \A d \in Conns : pc[d] # "idle" => d = c
  BY DEF Alone
<1>2. \A w \in Workers : Busy(w) => conn[w] = c
  BY <1>1 DEF Placed, IInv, WorkerOK
<1>3. \A d \in Conns : HandlerStep(d) => handling[d] # NoAck
  BY HandlerRows DEF Ack, NoAck
<1> QED
  BY <1>1, <1>2, <1>3 DEF Placed

LEMMA FirstStep ==
    ASSUME IInv, Placed, Owned, First, [Next]_vars
    PROVE  First'
<1> SUFFICES ASSUME NEW c \in Conns, Alone(c)', pc'[c] = "up", ~cut'[c], errs' = 0, NEW i \in Claimed'
             PROVE  via'[i] = c
  BY DEF First
<1>1. TypeOK /\ via \in [Ids -> Conns \cup {None}] /\ i \in Ids
  BY DEF IInv, TypeOK, Claimed
<1>2. /\ \A d \in Conns : pc'[d] = "idle" => pc[d] = "idle"
      /\ pc[c] \in {"idle", "up"} /\ ~cut[c]
  BY SocketsStep
<1>3. errs = 0
  <2>1. errs <= errs' /\ errs \in Nat
    BY <1>1, Monotone DEF TypeOK
  <2> QED
    BY <2>1
<1>4. Alone(c)
  BY <1>2 DEF Alone
<1>5. ASSUME NEW w \in Workers, ClaimFails(w) PROVE FALSE
  BY <1>3, <1>5 DEF ClaimFails, Fails
<1>6. CASE i \notin Claimed
  <2>1. PICK w \in Workers : DeliverStep(w) /\ i = Cur(w).id /\ Takes(w, i)
    BY <1>1, <1>6, RowStep
  <2>2. Claim(w) /\ wpc[w] = "claim" /\ rows'[i].st = "inflight" /\ qos[i] > 0 /\ rows[i].st = "queued"
    BY <1>5, <2>1 DEF Takes, Claimed
  <2>3. conn[w] = c
    BY <1>4, <2>2, AloneFacts DEF Busy
  <2>4. rows' # rows
    BY <2>2
  <2>5. via' = [via EXCEPT ![i] = conn[w]]
    BY <2>1, <2>2, <2>4 DEF Claim
  <2> QED
    BY <1>1, <2>3, <2>5
<1>7. CASE i \in Claimed
  <2>1. pc[c] = "up"
    BY <1>2, <1>4, <1>7 DEF Placed, Alone
  <2>2. via[i] = c
    BY <1>2, <1>3, <1>4, <1>7, <2>1 DEF First
  <2>3. ASSUME NEW w \in Workers, DeliverStep(w), Wins(w) PROVE via'[i] = via[i]
    <3>1. i # Cur(w).id
      BY <1>7, <2>3 DEF Wins, Takes, Claimed
    <3> QED
      BY <1>1, <2>3, <3>1 DEF Wins
  <2>4. ASSUME NEW w \in Workers, GivesUp(w) PROVE FALSE
    <3>1. conn[w] = c
      BY <1>4, <2>4, AloneFacts DEF GivesUp, WriteFails, Busy
    <3> QED
      BY <1>2, <2>1, <2>4, <3>1 DEF GivesUp, WriteFails
  <2>5. ASSUME NEW d \in Conns, HandlerStep(d), Settles(d) PROVE via'[i] = via[i]
    <3>1. CASE i \notin Acked(handling[d])
      <4>1. Settle(d, Acked(handling[d]), TRUE)
        BY <2>5 DEF Settles
      <4> QED
        BY <1>1, <3>1, <4>1 DEF Settle
    <3>2. CASE i \in Acked(handling[d])
      <4>1. ~AckFails(d)
        BY <1>3 DEF AckFails, Fails
      <4>2. HandleFinalAck(d)
        BY <2>5, <4>1 DEF Settles, Releasing
      <4>3. rows'[i] = Gone
        BY <1>1, <3>2, <4>2 DEF HandleFinalAck, AckEffect
      <4> QED
        BY <4>3 DEF Claimed, Gone
    <3> QED
      BY <3>1, <3>2
  <2> QED
    BY <2>2, <2>3, <2>4, <2>5, HistoryStep
<1> QED
  BY <1>6, <1>7
-----------------------------------------------------------------------------
(* The count of the slots.                                                 *)

Dec(s) == IF s = 0 THEN 0 ELSE s - 1

\* The bookkeeping of one Conn: s slots and e freed too many, for the rows H and the claims
\* under way B.
Shift(H, B, s, e, H1, B1, s1, e1, x) ==
    \/ s1 = s /\ e1 = e /\ H1 = H /\ B1 = B
    \/ s1 = s + 1 /\ e1 = e /\ H1 = H /\ x \notin B /\ B1 = B \cup {x}
    \/ s1 = Dec(s) /\ e1 = e /\ H1 = H /\ x \in B /\ B1 = B \ {x}
    \/ s1 = s /\ e1 = e /\ (\E i : i \notin H /\ H1 = H \cup {i}) /\ x \in B /\ B1 = B \ {x}
    \/ s1 = Dec(s) /\ e1 = e /\ x \in H /\ H1 = H \ {x} /\ B1 = B
    \/ s > 0 /\ s1 = s - 1 /\ e1 = e + 1 /\ H1 = H /\ B1 = B

LEMMA Balance ==
    ASSUME NEW H, NEW B, NEW H1, NEW B1, NEW s \in Nat, NEW e \in Nat, NEW s1, NEW e1, NEW x,
           IsFiniteSet(H), IsFiniteSet(B),
           s <= Cardinality(H) + Cardinality(B), Cardinality(H) + Cardinality(B) <= s + e,
           Shift(H, B, s, e, H1, B1, s1, e1, x)
    PROVE  s1 <= Cardinality(H1) + Cardinality(B1) /\ Cardinality(H1) + Cardinality(B1) <= s1 + e1
<1> DEFINE h == Cardinality(H)
           b == Cardinality(B)
           h1 == Cardinality(H1)
           b1 == Cardinality(B1)
<1>1. /\ h \in Nat /\ b \in Nat
      /\ x \notin B => Cardinality(B \cup {x}) = b + 1
      /\ \A i : i \notin H => Cardinality(H \cup {i}) = h + 1
      /\ x \in H => Cardinality(H \ {x}) = h - 1
      /\ x \in B => Cardinality(B \ {x}) = b - 1
  BY FS_CardinalityType, FS_AddElement, FS_RemoveElement
<1>2. /\ x \in H => Cardinality(H \ {x}) \in Nat
      /\ x \in B => Cardinality(B \ {x}) \in Nat
  BY FS_CardinalityType, FS_RemoveElement
<1>3. \/ s1 = s /\ e1 = e /\ h1 + b1 = h + b
      \/ s1 = s + 1 /\ e1 = e /\ h1 + b1 = h + b + 1
      \/ s1 = Dec(s) /\ e1 = e /\ h1 + b1 = h + b - 1 /\ h + b - 1 \in Nat
      \/ s > 0 /\ s1 = s - 1 /\ e1 = e + 1 /\ h1 + b1 = h + b
  <2>1. CASE s1 = s /\ e1 = e /\ H1 = H /\ B1 = B
    BY <2>1
  <2>2. CASE s1 = s + 1 /\ e1 = e /\ H1 = H /\ x \notin B /\ B1 = B \cup {x}
    <3>1. h1 = h /\ b1 = b + 1
      BY <1>1, <2>2
    <3> HIDE DEF h, b, h1, b1
    <3> QED
      BY <1>1, <2>2, <3>1
  <2>3. CASE s1 = Dec(s) /\ e1 = e /\ H1 = H /\ x \in B /\ B1 = B \ {x}
    <3>1. h1 = h /\ b1 = b - 1 /\ b1 \in Nat
      BY <1>1, <1>2, <2>3
    <3> HIDE DEF h, b, h1, b1
    <3> QED
      BY <1>1, <2>3, <3>1
  <2>4. CASE s1 = s /\ e1 = e /\ (\E i : i \notin H /\ H1 = H \cup {i}) /\ x \in B /\ B1 = B \ {x}
    <3>1. h1 = h + 1 /\ b1 = b - 1
      BY <1>1, <2>4
    <3> HIDE DEF h, b, h1, b1
    <3> QED
      BY <1>1, <2>4, <3>1
  <2>5. CASE s1 = Dec(s) /\ e1 = e /\ x \in H /\ H1 = H \ {x} /\ B1 = B
    <3>1. h1 = h - 1 /\ b1 = b /\ h1 \in Nat
      BY <1>1, <1>2, <2>5
    <3> HIDE DEF h, b, h1, b1
    <3> QED
      BY <1>1, <2>5, <3>1
  <2>6. CASE s > 0 /\ s1 = s - 1 /\ e1 = e + 1 /\ H1 = H /\ B1 = B
    BY <2>6
  <2> QED
    BY <2>1, <2>2, <2>3, <2>4, <2>5, <2>6 DEF Shift
<1> HIDE DEF h, b, h1, b1
<1>4. s <= h + b /\ h + b <= s + e
  BY DEF h, b
<1>5. s1 <= h1 + b1 /\ h1 + b1 <= s1 + e1
  BY <1>1, <1>3, <1>4 DEF Dec
<1> QED
  BY <1>5 DEF h1, b1

Moves(c, x) == Shift(Held(c), Claiming(c), slots[c], extra[c],
                     Held(c)', Claiming(c)', slots'[c], extra'[c], x)

\* returnInflight.
LEMMA ReturnEffect ==
    ASSUME TypeOK, NEW c \in Conns, ReturnInflight(c)
    PROVE  slots'[c] = Dec(slots[c]) /\ \A d \in Conns \ {c} : slots'[d] = slots[d]
<1>1. slots \in [Conns -> 0..Cap]
  BY DEF TypeOK
<1> QED
  BY <1>1 DEF ReturnInflight, Dec

\* A Conn is through with at most one row, and frees a slot.
LEMMA SettleMoves ==
    ASSUME TypeOK, NEW c \in Conns, NEW S \in SUBSET Ids, \A i, j \in S : i = j,
           ReturnInflight(c), Settle(c, S, TRUE), NEW d \in Conns, Claiming(d)' = Claiming(d)
    PROVE  \E x : Moves(d, x)
<1>1. slots'[c] = Dec(slots[c]) /\ \A b \in Conns \ {c} : slots'[b] = slots[b]
  BY ReturnEffect
<1>2. /\ \A i \in Ids : via'[i] = IF i \in S /\ via[i] = c THEN None ELSE via[i]
      /\ \A b \in Conns \ {c} : extra'[b] = extra[b]
      /\ extra'[c] = IF slots[c] > 0 /\ (\A i \in S : via[i] # c) THEN extra[c] + 1 ELSE extra[c]
  BY SettleEffect
<1>3. c # None /\ d # None /\ slots[c] \in Nat
  BY WorkerAssumption, LimitsAssumption DEF TypeOK
<1>4. CASE d # c
  <2>1. Held(d)' = Held(d)
    BY <1>2, <1>3, <1>4 DEF Held
  <2> QED
    BY <1>1, <1>2, <1>4, <2>1 DEF Moves, Shift
<1>5. CASE d = c /\ \A i \in S : via[i] # c
  <2>1. Held(c)' = Held(c)
    BY <1>2, <1>3, <1>5 DEF Held
  <2> QED
    BY <1>1, <1>2, <1>3, <1>5, <2>1 DEF Moves, Shift, Dec
<1>6. CASE d = c /\ \E i \in S : via[i] = c
  <2>1. PICK i \in S : via[i] = c
    BY <1>6
  <2>2. S = {i} /\ i \in Ids
    OBVIOUS
  <2>3. i \in Held(c) /\ Held(c)' = Held(c) \ {i}
    BY <1>2, <1>3, <2>1, <2>2 DEF Held
  <2>4. extra'[c] = extra[c]
    BY <1>2, <2>1
  <2> QED
    BY <1>1, <1>6, <2>3, <2>4 DEF Moves, Shift
<1> QED
  BY <1>4, <1>5, <1>6

\* deliverOneTracked: a slot is taken, given back, or handed to the row.
LEMMA DeliverMoves ==
    ASSUME IInv, Placed, Distinct, Owned, NEW w \in Workers, DeliverStep(w), NEW c \in Conns
    PROVE  \E x : Moves(c, x)
<1> USE DEF connVars, slotVars
<1>1. TypeOK /\ WorkerOK(w)
  BY DEF IInv
<1>2. /\ wpc[w] = "take" \/ Busy(w)
      /\ qos' = qos
      /\ \A v \in Workers \ {w} : wpc'[v] = wpc[v] /\ job'[v] = job[v] /\ conn'[v] = conn[v]
  BY DeliverFrame
<1>3. \A v \in Workers \ {w} : v \in Claiming(c)' <=> v \in Claiming(c)
  BY <1>2, CurSame DEF Claiming
<1>4. Claiming(c) \subseteq Workers /\ Claiming(c)' \subseteq Workers
  BY DEF Claiming
<1>5. job[w] # {} /\ wpc \in [Workers -> {"idle", "scan", "take", "alloc", "claim", "write"}]
  BY <1>1, <1>2 DEF TypeOK, WorkerOK
<1>6. ASSUME NEW result \in {"skip", "sent", "error"}, Finish(w, result)
      PROVE  w \notin Claiming(c)'
  <2>1. wpc'[w] \in {"idle", "scan", "take"}
    BY <1>1, <1>5, <1>6, FinishEffect
  <2> QED
    BY <2>1 DEF Claiming
<1>7. CASE UNCHANGED <<slots, via, extra>> /\ (w \in Claiming(c) <=> w \in Claiming(c)')
  <2>1. Held(c)' = Held(c)
    BY <1>7 DEF Held
  <2>2. Claiming(c)' = Claiming(c)
    BY <1>3, <1>4, <1>7
  <2> QED
    BY <1>7, <2>1, <2>2 DEF Moves, Shift
<1>8. ASSUME Busy(w), ReturnInflight(conn[w]), UNCHANGED <<via, extra>>, w \in Claiming(conn[w]),
             w \notin Claiming(c)'
      PROVE  \E x : Moves(c, x)
  <2>1. conn[w] \in Conns /\ slots'[conn[w]] = Dec(slots[conn[w]])
        /\ \A d \in Conns \ {conn[w]} : slots'[d] = slots[d]
    BY <1>1, <1>8, ReturnEffect DEF WorkerOK
  <2>2. Held(c)' = Held(c)
    BY <1>8 DEF Held
  <2>3. CASE c = conn[w]
    <3>1. Claiming(c)' = Claiming(c) \ {w}
      BY <1>3, <1>4, <1>8
    <3> QED
      BY <1>8, <2>1, <2>2, <2>3, <3>1 DEF Moves, Shift
  <2>4. CASE c # conn[w]
    <3>1. w \notin Claiming(c)
      BY <2>4 DEF Claiming
    <3>2. Claiming(c)' = Claiming(c)
      BY <1>3, <1>4, <1>8, <3>1
    <3> QED
      BY <1>8, <2>1, <2>2, <2>4, <3>2 DEF Moves, Shift
  <2> QED
    BY <2>3, <2>4
<1>9. CASE SkipUnconnected(w) \/ DropUndeliverable(w) \/ SkipNoSlot(w) \/ Write(w)
  <2>1. UNCHANGED <<slots, via, extra>> /\ wpc[w] \in {"take", "write"}
        /\ \E result \in {"skip", "sent"} : Finish(w, result)
    BY <1>9 DEF SkipUnconnected, DropUndeliverable, SkipNoSlot, Write, Deliverable, Taking
  <2>2. w \notin Claiming(c) /\ w \notin Claiming(c)'
    BY <1>6, <2>1 DEF Claiming
  <2> QED
    BY <1>7, <2>1, <2>2
<1>10. CASE WriteFails(w)
  <2>1. wpc[w] = "write" /\ Busy(w) /\ Finish(w, "error") /\ conn[w] \in Conns
    BY <1>1, <1>10 DEF WriteFails, Busy, WorkerOK
  <2>2. w \notin Claiming(c) /\ w \notin Claiming(c)'
    BY <1>6, <2>1 DEF Claiming
  <2>3. CASE qos[Cur(w).id] > 0
    <3>1. ReturnInflight(conn[w]) /\ Settle(conn[w], {Cur(w).id}, TRUE)
      BY <1>10, <2>3 DEF WriteFails
    <3>2. {Cur(w).id} \in SUBSET Ids /\ \A i, j \in {Cur(w).id} : i = j
      BY DeliverRows
    <3>3. Claiming(c)' = Claiming(c)
      BY <1>3, <1>4, <2>2
    <3> QED
      BY <1>1, <2>1, <3>1, <3>2, <3>3, SettleMoves
  <2>4. CASE ~(qos[Cur(w).id] > 0)
    <3>1. UNCHANGED <<slots, via, extra>>
      BY <1>10, <2>4 DEF WriteFails, KeepInflight, KeepHistory
    <3> QED
      BY <1>7, <2>2, <3>1
  <2> QED
    BY <2>3, <2>4
<1>11. CASE Begin(w)
  <2>1. /\ wpc[w] = "take" /\ reg \in Conns /\ job' = job /\ UNCHANGED <<via, extra>>
        /\ slots' = [slots EXCEPT ![reg] = IF NeedsSlot(w) THEN slots[reg] + 1 ELSE slots[reg]]
        /\ wpc'[w] = IF NeedsSlot(w) THEN "alloc" ELSE IF Cur(w).st = "inflight" THEN "write" ELSE "claim"
        /\ conn'[w] = reg
    BY <1>1, <1>11 DEF Begin, Deliverable, Taking, KeepHistory, TypeOK
  <2>2. w \notin Claiming(c) /\ Cur(w)' = Cur(w) /\ slots \in [Conns -> 0..Cap]
    BY <1>1, <2>1, CurSame DEF Claiming, TypeOK
  <2>3. CASE NeedsSlot(w) /\ reg = c
    <3>1. wpc'[w] = "alloc" /\ slots'[c] = slots[c] + 1
      BY <2>1, <2>2, <2>3
    <3>2. Claiming(c)' = Claiming(c) \cup {w}
      BY <1>3, <1>4, <2>1, <2>3, <3>1 DEF Claiming
    <3>3. Held(c)' = Held(c)
      BY <2>1 DEF Held
    <3> QED
      BY <2>1, <2>2, <3>1, <3>2, <3>3 DEF Moves, Shift
  <2>4. CASE reg # c
    <3>1. slots'[c] = slots[c] /\ w \notin Claiming(c)'
      BY <2>1, <2>2, <2>4 DEF Claiming
    <3>2. Claiming(c)' = Claiming(c) /\ Held(c)' = Held(c)
      BY <1>3, <1>4, <2>1, <2>2, <3>1 DEF Held
    <3> QED
      BY <2>1, <3>1, <3>2 DEF Moves, Shift
  <2>5. CASE ~NeedsSlot(w)
    <3>1. wpc'[w] \in {"claim", "write"} /\ (wpc'[w] = "claim" => Cur(w).st # "inflight")
          /\ slots' = slots
      BY <2>1, <2>2, <2>5
    <3>2. Cur(w) \in Item /\ Cur(w).st # "awaiting_pubcomp"
      BY <1>1, <1>5, <1>11, CurIn DEF Begin, Deliverable, Taking
    <3>3. wpc'[w] = "claim" => ~(qos[Cur(w).id] > 0)
      BY <2>5, <3>1, <3>2 DEF NeedsSlot, Item
    <3>4. w \notin Claiming(c)'
      BY <1>2, <2>2, <3>1, <3>3 DEF Claiming
    <3> QED
      BY <1>7, <2>1, <2>2, <3>1, <3>4
  <2> QED
    BY <2>3, <2>4, <2>5
<1>12. CASE Alloc(w) \/ AllocFails(w)
  <2>1. wpc[w] = "alloc" /\ Busy(w) /\ w \in Claiming(conn[w]) /\ UNCHANGED <<via, extra>> /\ conn' = conn
    BY <1>12 DEF Alloc, AllocFails, Claiming, Busy, KeepHistory, packetVars
  <2>2. CASE ReturnInflight(conn[w]) /\ Finish(w, "error")
    BY <1>6, <1>8, <2>1, <2>2
  <2>3. CASE wpc' = [wpc EXCEPT ![w] = "claim"] /\ KeepInflight /\ job' = job
    <3>1. wpc'[w] = "claim" /\ Cur(w)' = Cur(w) /\ slots' = slots
      BY <1>5, <2>3, CurSame DEF KeepInflight
    <3>2. qos[Cur(w).id] > 0
      BY <1>1, <2>1 DEF WorkerOK
    <3>3. w \in Claiming(c) <=> w \in Claiming(c)'
      BY <1>2, <2>1, <3>1, <3>2 DEF Claiming
    <3> QED
      BY <1>7, <2>1, <3>1, <3>3
  <2> QED
    BY <1>12, <2>2, <2>3 DEF Alloc, AllocFails
<1>13. CASE (Claim(w) \/ ClaimFails(w)) /\ ~Wins(w)
  <2>1. wpc[w] = "claim" /\ Busy(w) /\ UNCHANGED <<via, extra>> /\ conn' = conn
    BY <1>13, DeliverHistory DEF Claim, ClaimFails, Busy, GivesUp, WriteFails, packetVars
  <2>2. w \in Claiming(conn[w]) <=> qos[Cur(w).id] > 0
    BY <2>1 DEF Claiming
  <2>3. CASE \E result \in {"error", "skip"} : Finish(w, result)
    <3>1. w \notin Claiming(c)'
      BY <1>6, <2>3
    <3>2. CASE qos[Cur(w).id] > 0 /\ ReturnInflight(conn[w])
      BY <1>8, <2>1, <2>2, <3>1, <3>2
    <3>3. CASE ~(qos[Cur(w).id] > 0) /\ KeepInflight
      <4>1. w \notin Claiming(c) /\ slots' = slots
        BY <2>1, <3>3 DEF Claiming, KeepInflight
      <4> QED
        BY <1>7, <2>1, <3>1, <4>1
    <3>4. IF qos[Cur(w).id] > 0 THEN ReturnInflight(conn[w]) ELSE KeepInflight
      <4>1. CASE ClaimFails(w)
        BY <4>1 DEF ClaimFails
      <4>2. CASE Claim(w) /\ wpc'[w] # "write"
        BY <1>5, <4>2 DEF Claim
      <4>3. wpc'[w] # "write"
        BY <1>1, <1>5, <2>3, FinishEffect
      <4> QED
        BY <1>13, <4>1, <4>2, <4>3
    <3> QED
      BY <3>2, <3>3, <3>4
  <2>4. CASE /\ Claimable(Cur(w).id) /\ ~IdTaken(w) /\ rows' = AfterClaim(w) /\ Claim(w)
             /\ wpc' = [wpc EXCEPT ![w] = "write"] /\ KeepInflight
             /\ via' = [via EXCEPT ![Cur(w).id] = IF qos[Cur(w).id] > 0 THEN conn[w] ELSE via[Cur(w).id]]
    <3>1. Cur(w).id \in Ids /\ qos[Cur(w).id] \in 0..2
      BY <1>1, <1>5, CurIn DEF TypeOK
    <3>2. ~(qos[Cur(w).id] > 0)
      <4> SUFFICES ASSUME qos[Cur(w).id] > 0 PROVE Wins(w)
        BY <1>13
      <4>1. rows'[Cur(w).id] = [st |-> "inflight", pid |-> pid[w]]
        BY <1>2, <2>1, <2>4, <3>1, AfterClaimTypes
      <4>2. Takes(w, Cur(w).id)
        BY <2>1, <2>4, <4>1 DEF Takes, Claimable, IdTaken
      <4> QED
        BY <2>1, <2>4, <4>2 DEF Wins, KeepInflight
    <3>3. w \notin Claiming(c) /\ w \notin Claiming(c)' /\ slots' = slots
      BY <1>5, <2>1, <2>4, <3>2 DEF Claiming, KeepInflight
    <3> QED
      BY <1>7, <2>1, <3>3
  <2> QED
    BY <1>13, <2>3, <2>4 DEF Claim, ClaimFails
<1>14. CASE Wins(w)
  <2>1. PICK i \in Ids : i = Cur(w).id
    BY DeliverRows
  <2>2. /\ wpc[w] = "claim" /\ wpc'[w] = "write" /\ UNCHANGED <<extra, slots>> /\ qos[i] > 0
        /\ rows[i].st = "queued" /\ via' = [via EXCEPT ![i] = conn[w]]
    BY <1>5, <1>14, <2>1 DEF Wins, Takes
  <2>3. conn[w] \in Conns /\ via \in [Ids -> Conns \cup {None}] /\ via[i] = None /\ None \notin Conns
    BY <1>1, <2>2, WorkerAssumption DEF Owned, Taken, WorkerOK, Busy, TypeOK
  <2>4. via'[i] = conn[w] /\ \A j \in Ids \ {i} : via'[j] = via[j]
    BY <2>2, <2>3
  <2>5. w \notin Claiming(c)' /\ (w \in Claiming(c) <=> conn[w] = c)
    BY <2>1, <2>2 DEF Claiming
  <2>6. CASE conn[w] = c
    <3>1. i \notin Held(c) /\ Held(c)' = Held(c) \cup {i}
      BY <2>3, <2>4, <2>6 DEF Held
    <3>2. w \in Claiming(c) /\ Claiming(c)' = Claiming(c) \ {w}
      BY <1>3, <1>4, <2>5, <2>6
    <3> QED
      BY <2>2, <3>1, <3>2 DEF Moves, Shift
  <2>7. CASE conn[w] # c
    <3>1. Held(c)' = Held(c)
      BY <2>3, <2>4, <2>7 DEF Held
    <3>2. Claiming(c)' = Claiming(c)
      BY <1>3, <1>4, <2>5, <2>7
    <3> QED
      BY <2>2, <3>1, <3>2 DEF Moves, Shift
  <2> QED
    BY <2>6, <2>7
<1> QED
  BY <1>9, <1>10, <1>11, <1>12, <1>13, <1>14 DEF DeliverStep

\* Nobody else begins or ends a claim.
LEMMA OthersClaiming ==
    ASSUME IInv, Placed, [Next]_vars, ~ \E w \in Workers : DeliverStep(w), NEW c \in Conns
    PROVE  Claiming(c)' = Claiming(c)
<1> SUFFICES ASSUME NEW v \in Workers PROVE v \in Claiming(c)' <=> v \in Claiming(c)
  BY DEF Claiming
<1>1. CASE wpc[v] \in {"idle", "scan", "take"} /\ wpc'[v] \in {"idle", "scan", "take"}
  BY <1>1 DEF Claiming
<1>2. CASE wpc'[v] = wpc[v] /\ Cur(v)' = Cur(v) /\ conn'[v] = conn[v] /\ wpc[v] # "claim"
  BY <1>2 DEF Claiming
<1>3. CASE wpc'[v] = wpc[v] /\ Cur(v)' = Cur(v) /\ conn'[v] = conn[v] /\ wpc[v] = "claim"
  <2>1. TypeOK /\ job[v] # {} /\ \A it \in job[v] : rows[it.id].st # "absent"
    BY <1>3 DEF IInv, WorkerOK, Busy
  <2>2. PICK j \in Ids : j = Cur(v).id /\ rows[j].st # "absent"
    BY <2>1, CurIn
  <2>3. qos'[j] = qos[j]
    <3>1. CASE \E d \in Conns : HandlerStep(d)
      BY <3>1, HandlerRows
    <3>2. CASE ~ \E d \in Conns : HandlerStep(d)
      BY <2>2, <3>2, QuietRows
    <3> QED
      BY <3>1, <3>2
  <2> QED
    BY <1>3, <2>2, <2>3 DEF Claiming
<1> QED
  BY <1>1, <1>2, <1>3, OthersFrame

LEMMA SlotMoves ==
    ASSUME IInv, Placed, Distinct, Owned, [Next]_vars, NEW c \in Conns
    PROVE  \E x : Moves(c, x)
<1>1. CASE \E w \in Workers : DeliverStep(w)
  BY <1>1, DeliverMoves
<1>2. CASE ~ \E w \in Workers : DeliverStep(w)
  <2>1. Claiming(c)' = Claiming(c)
    BY <1>2, OthersClaiming
  <2>2. CASE UNCHANGED <<slots, via, extra>>
    <3>1. Held(c)' = Held(c)
      BY <2>2 DEF Held
    <3> QED
      BY <2>1, <2>2, <3>1 DEF Moves, Shift
  <2>3. ASSUME NEW d \in Conns, HandlerStep(d), Settles(d) PROVE \E x : Moves(c, x)
    <3>1. TypeOK /\ handling[d] \in Ack
      BY <2>3, HandlerRows DEF IInv
    <3>2. \A i \in Acked(handling[d]) : i \in Claimed /\ rows[i].pid = handling[d].pid
      BY <3>1, AckedClaimed
    <3>3. Acked(handling[d]) \in SUBSET Ids /\ \A i, j \in Acked(handling[d]) : i = j
      BY <3>2 DEF Distinct, Claimed
    <3> QED
      BY <2>1, <2>3, <3>1, <3>3, SettleMoves DEF Settles
  <2> QED
    BY <1>2, <2>2, <2>3, HandlerHistory, QuietRows
<1> QED
  BY <1>1, <1>2

-----------------------------------------------------------------------------
(* A connection that serves.                                               *)

\* The last part of SlotsMatchRows.
Served(c) == Serving(c) /\ Alone(c) =>
                 /\ \A i \in Held(c) :
                        rows[i].st \in {"inflight", "awaiting_pubcomp"} \/ i \in expired
                 /\ extra[c] > 0 => Rejects \/ errs > 0 \/ cut[c]

\* A Conn serves until it ends.
LEMMA ServingBefore ==
    ASSUME IInv, Placed, [Next]_vars, NEW c \in Conns, Serving(c)'
    PROVE  pc[c] = "idle" \/ Serving(c)
<1> SUFFICES ASSUME handling[c] = Failed, pc[c] # "idle" PROVE FALSE
  BY SocketsStep DEF Serving
<1>1. handling' # handling
  BY DEF Serving
<1>2. ASSUME NEW d \in Conns, d = c, HandlerStep(d) \/ ReadAck(d) PROVE FALSE
  BY <1>2, HandlerRows DEF ReadAck, Ack, NoAck, Failed
<1>3. ASSUME NEW d \in Conns, d # c, HandlerStep(d) PROVE FALSE
  BY <1>3, HandlerRows DEF Serving
<1>4. ASSUME NEW d \in Conns, d # c, ReadAck(d) \/ EndOnError(d) PROVE FALSE
  <2>1. handling'[c] = handling[c]
    BY <1>4 DEF ReadAck, EndOnError, IInv, TypeOK
  <2> QED
    BY <2>1 DEF Serving
<1>5. ASSUME EndOnError(c) PROVE FALSE
  BY <1>5 DEF EndOnError, Serving, IInv, TypeOK
<1>6. ASSUME NEW d \in Conns, Connect(d) \/ Cut(d) \/ Close(d) PROVE FALSE
  BY <1>1, <1>6 DEF Connect, Cut, Close
<1>7. ASSUME NEW i \in Ids, NEW q \in Qoss[i], Publish(i, q) PROVE FALSE
  BY <1>1, <1>7 DEF Publish
<1>8. ASSUME NEW w \in Workers, DeliverStep(w) PROVE FALSE
  BY <1>1, <1>8, DeliverFrame
<1>9. CASE Still
  BY <1>1, <1>9 DEF Still
<1> QED
  BY <1>2, <1>3, <1>4, <1>5, <1>6, <1>7, <1>8, <1>9, StepCases DEF SocketStep

LEMMA ServedStep ==
    ASSUME IInv, Accepts, Placed, Distinct, Owned, First, [Next]_vars, NEW c \in Conns, Served(c)
    PROVE  Served(c)'
<1> SUFFICES ASSUME Serving(c)', Alone(c)'
             PROVE  /\ \A i \in Held(c)' :
                           rows'[i].st \in {"inflight", "awaiting_pubcomp"} \/ i \in expired'
                    /\ extra'[c] > 0 => Rejects \/ errs' > 0 \/ cut'[c]
  BY DEF Served
<1>1. TypeOK /\ via \in [Ids -> Conns \cup {None}] /\ None \notin Conns /\ extra[c] \in Nat
      /\ errs \in Nat /\ slots[c] \in Nat
  <2>1. TypeOK
    BY DEF IInv
  <2>2. errs \in 0..MaxErrs /\ slots \in [Conns -> 0..Cap] /\ extra \in [Conns -> Nat]
        /\ via \in [Ids -> Conns \cup {None}]
    BY <2>1 DEF TypeOK
  <2>3. errs \in Nat /\ slots[c] \in Nat /\ extra[c] \in Nat
    BY <2>2, LimitsAssumption
  <2> QED
    BY <2>1, <2>2, <2>3, WorkerAssumption
<1>2. /\ \A d \in Conns : pc'[d] = "idle" => pc[d] = "idle"
      /\ cut[c] => cut'[c]
  BY SocketsStep
<1>3. Alone(c)
  BY <1>2 DEF Alone
<1>4. expired \subseteq expired' /\ errs' \in Nat /\ errs <= errs'
  BY <1>1, Monotone
<1>5. /\ \A i \in Held(c) : Taken(i) /\ i \notin Oversized
                            /\ (rows[i].st \in {"inflight", "awaiting_pubcomp"} \/ i \in expired)
      /\ extra[c] > 0 => Rejects \/ errs > 0 \/ cut[c]
  <2>1. CASE pc[c] = "idle"
    <3>1. Held(c) = {}
      BY <2>1, <1>1 DEF Held, Owned
    <3> QED
      BY <1>1, <2>1, <3>1 DEF Owned
  <2>2. CASE Serving(c)
    BY <1>1, <1>3, <2>2 DEF Served, Owned, Held
  <2> QED
    BY <2>1, <2>2, ServingBefore
<1>6. \A w \in Workers : Busy(w) => conn[w] = c
  BY <1>3, AloneFacts
<1>7. \A d \in Conns : HandlerStep(d) => d = c
  BY <1>3, AloneFacts
<1>8. ~AckFails(c)
  BY HandlerRows DEF HandlerStep, Serving
<1>9. ASSUME NEW i \in Held(c)' PROVE rows'[i].st \in {"inflight", "awaiting_pubcomp"} \/ i \in expired'
  <2>1. i \in Ids /\ via'[i] = c
    BY <1>9 DEF Held
  <2>2. CASE via[i] # c
    <3>1. \A d \in Conns : Settles(d) => via'[i] = via[i] \/ via'[i] = None
      BY <1>1, <2>1, SettleEffect DEF Settles
    <3>2. \A w \in Workers : GivesUp(w) => via'[i] = via[i] \/ via'[i] = None
      BY <1>1, <2>1, SettleEffect DEF GivesUp, WriteFails, Busy, IInv, WorkerOK
    <3>3. PICK w \in Workers : Wins(w)
      BY <1>1, <2>1, <2>2, <3>1, <3>2, HistoryStep
    <3>4. i = Cur(w).id
      BY <1>1, <2>1, <2>2, <3>3 DEF Wins
    <3> QED
      BY <3>3, <3>4 DEF Wins, Takes
  <2>3. CASE via[i] = c
    <3>1. i \in Held(c)
      BY <2>1, <2>3 DEF Held
    <3>2. Taken(i) /\ i \notin Oversized /\ (rows[i].st \in {"inflight", "awaiting_pubcomp"} \/ i \in expired)
      BY <1>5, <3>1
    <3>3. CASE rows'[i] = rows[i] \/ i \in expired
      BY <1>4, <3>2, <3>3
    <3>4. ASSUME NEW w \in Workers, DeliverStep(w) PROVE rows'[i] = rows[i] \/ i \in expired
      BY <2>1, <3>2, <3>4, DeliverRows DEF Takes, Drops, Taken
    <3>5. ASSUME NEW d \in Conns, HandlerStep(d)
          PROVE  rows'[i] = rows[i] \/ rows'[i].st = "awaiting_pubcomp"
      <4>1. d = c /\ ~AckFails(d)
        BY <1>7, <1>8, <3>5
      <4>2. CASE HandleFinalAck(d) /\ i \in Acked(handling[d])
        <5>1. Settle(c, Acked(handling[c]), Releases(handling[c], Acked(handling[c])))
          BY <4>1, <4>2 DEF HandleFinalAck
        <5>2. via'[i] = None
          BY <2>1, <2>3, <4>1, <4>2, <5>1 DEF Settle
        <5> QED
          BY <1>1, <2>1, <5>2
      <4> QED
        BY <2>1, <3>5, <4>1, <4>2, HandlerRows
    <3>6. CASE ~(\E w \in Workers : DeliverStep(w)) /\ ~(\E d \in Conns : HandlerStep(d))
      BY <2>1, <3>2, <3>3, <3>6, QuietRows DEF Taken
    <3> QED
      BY <3>3, <3>4, <3>5, <3>6
  <2> QED
    BY <2>2, <2>3
<1>10. ASSUME extra'[c] > 0 PROVE Rejects \/ errs' > 0 \/ cut'[c]
  <2>1. CASE extra[c] > 0
    BY <1>1, <1>2, <1>4, <1>5, <2>1
  <2>2. CASE extra'[c] # extra[c]
    <3>1. ASSUME NEW w \in Workers, GivesUp(w) PROVE cut'[c]
      <4>1. conn[w] = c
        BY <1>6, <3>1 DEF GivesUp, WriteFails, Busy
      <4>2. pc[c] = "closed" \/ cut[c]
        BY <3>1, <4>1 DEF GivesUp, WriteFails
      <4> QED
        BY <1>2, <4>2 DEF Placed
    <3>2. ASSUME NEW d \in Conns, HandlerStep(d), Settles(d), ~Rejects, ~(errs' > 0), ~cut'[c] PROVE FALSE
      <4>1. d = c /\ HandleFinalAck(c) /\ Releases(handling[c], Acked(handling[c]))
        BY <1>7, <1>8, <3>2 DEF Settles, Releasing
      <4>2. Acked(handling[c]) # {}
        BY <3>2, <4>1 DEF Releases, Accepts
      <4>3. PICK i \in Acked(handling[c]) : i \in Claimed
        BY <1>1, <3>2, <4>1, <4>2, AckedClaimed, HandlerRows
      <4>4. pc[c] = "up" /\ ~cut[c] /\ errs = 0
        <5>1. pc[c] # "idle"
          BY <3>2, <4>1, HandlerRows DEF Placed, Ack, NoAck
        <5>2. errs = 0
          BY <1>1, <1>4, <3>2
        <5> QED
          BY <1>2, <3>2, <5>1, <5>2, SocketsStep DEF Serving
      <4>5. via[i] = c
        BY <1>3, <4>3, <4>4 DEF First
      <4>6. extra'[c] = extra[c]
        BY <1>1, <3>2, <4>1, <4>3, <4>5, SettleEffect DEF Settles
      <4> QED
        BY <2>2, <4>6
    <3>3. \A w \in Workers : ~Wins(w)
      BY <2>2 DEF Wins
    <3> QED
      BY <2>2, <3>1, <3>2, <3>3, HistoryStep
  <2> QED
    BY <1>10, <2>1, <2>2
<1> QED
  BY <1>9, <1>10

LEMMA SlotsStep ==
    ASSUME IInv, SlotInv, [Next]_vars
    PROVE  SlotsMatchRows'
<1> USE DEF SlotInv
<1> DEFINE due(c) == Cardinality(Held(c)) + Cardinality(Claiming(c))
<1>1. \A c \in Conns : slots[c] <= due(c) /\ due(c) <= slots[c] + extra[c] /\ Served(c)
  BY DEF SlotsMatchRows, Served
<1>2. \A c \in Conns : Served(c)'
  BY <1>1, ServedStep
<1>3. ASSUME NEW c \in Conns
      PROVE  /\ slots'[c] <= Cardinality(Held(c)') + Cardinality(Claiming(c)')
             /\ Cardinality(Held(c)') + Cardinality(Claiming(c)') <= slots'[c] + extra'[c]
  <2>1. slots[c] \in Nat /\ extra[c] \in Nat
    BY LimitsAssumption DEF IInv, TypeOK
  <2>2. IsFiniteSet(Workers)
    BY WorkerAssumption, FS_AddElement DEF Workers
  <2>3. IsFiniteSet(Held(c)) /\ IsFiniteSet(Claiming(c))
    BY <2>2, FS_Subset, IdsAssumption DEF Held, Claiming
  <2>4. PICK x : Moves(c, x)
    BY SlotMoves
  <2>5. /\ slots[c] <= Cardinality(Held(c)) + Cardinality(Claiming(c))
        /\ Cardinality(Held(c)) + Cardinality(Claiming(c)) <= slots[c] + extra[c]
    BY <1>1
  <2> QED
    BY <2>1, <2>3, <2>4, <2>5, Balance, Zenon DEF Moves
<1> QED
  BY <1>2, <1>3 DEF SlotsMatchRows, Served

LEMMA SlotsInit == Init => SlotInv
<1> SUFFICES ASSUME Init PROVE SlotInv
  OBVIOUS
<1>1. Claimed = {}
  BY DEF Init, Claimed
<1>2. Accepts
  BY DEF Init, Accepts, NoAck
<1>3. Placed
  BY <1>1 DEF Init, Placed, Busy, Workers
<1>4. Distinct
  BY <1>1 DEF Init, Distinct, Busy
<1>5. Owned /\ First
  BY <1>1 DEF Init, Owned, First
<1>6. SlotsMatchRows
  <2> SUFFICES ASSUME NEW c \in Conns
               PROVE  /\ slots[c] = 0 /\ extra[c] = 0
                      /\ Held(c) = {} /\ Claiming(c) = {}
    <3>1. Cardinality({}) = 0
      BY FS_EmptySet
    <3> QED
      BY <3>1 DEF SlotsMatchRows
  <2>1. slots[c] = 0 /\ extra[c] = 0 /\ Claiming(c) = {}
    BY DEF Init, Claiming
  <2>2. Held(c) = {}
    BY WorkerAssumption DEF Init, Held
  <2> QED
    BY <2>1, <2>2
<1> QED
  BY <1>2, <1>3, <1>4, <1>5, <1>6 DEF SlotInv

\* The slots of Conn.inflight, with expiring messages, refused PUBLISHes and failing statements:
\* on every Conn each slot belongs to a row claimed there or to a claim under way
\* (tryAcquireInflight, returnInflight), and the ones freed twice are those of PUBREC >= 0x80, of
\* failed writes, and of rows whose slot is with another Conn or with nobody.  On a first
\* connection a slot is lost only with an expired row.
THEOREM SlotsAlwaysMatchRows == Spec => []SlotsMatchRows
<1>1. Init => IInv /\ SlotInv
  BY TypeInit, SlotsInit
<1>2. IInv /\ SlotInv /\ [Next]_vars => IInv' /\ SlotInv'
  <2> SUFFICES ASSUME IInv, SlotInv, [Next]_vars PROVE IInv' /\ SlotInv'
    OBVIOUS
  <2>1. IInv'
    BY TypeStep
  <2>2. Accepts' /\ Placed' /\ Distinct'
    BY AcceptsStep, PlacedStep, DistinctStep DEF SlotInv
  <2>3. Owned' /\ First'
    BY OwnedStep, FirstStep DEF SlotInv
  <2>4. SlotsMatchRows'
    BY SlotsStep
  <2> QED
    BY <2>1, <2>2, <2>3, <2>4 DEF SlotInv
<1>3. SlotInv => SlotsMatchRows
  BY DEF SlotInv
<1> QED
  BY <1>1, <1>2, <1>3, PTL DEF Spec
=============================================================================
