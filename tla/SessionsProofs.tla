--------------------------- MODULE SessionsProofs ---------------------------
(***************************************************************************)
(* Proofs about Sessions for any number of pods and sockets, any bounds    *)
(* and any choice of faults.                                               *)
(***************************************************************************)
EXTENDS Sessions, TLAPS

USE BrokersAssumption, ConnsAssumption, InputsAssumption, FaultsAssumption

-----------------------------------------------------------------------------
(* The inductive invariant.                                                *)

\* A row without an owner is detached, an attached row names its owner's pod.
RowPlaced ==
    /\ row.token = None => row.broker = None
    /\ row.broker # None => row.broker = at[row.token]

\* Engine.conns, the copy AttestOwnedSessions takes and what registerConn returns hold the
\* pod's own sockets.
Placed ==
    /\ \A c \in Conns : pc[c] = "idle" => at[c] = None
    /\ \A c \in Conns : at[c] = None => pc[c] = "idle"
    /\ \A b \in Brokers : conns[b] # None => at[conns[b]] = b
    /\ \A b \in Brokers : attest[b] # None => at[attest[b]] = b
    /\ \A c \in Conns : displaced[c] # None => at[c] # None /\ at[displaced[c]] = at[c]

\* The token of a Conn that has not run takeOwnership is nowhere.
Fresh ==
    \A c \in Conns : at[c] = None =>
        /\ row.token # c
        /\ \A b \in Brokers : c \notin notices[b]
        /\ \A d \in Conns : prev[d].token # c

\* Every takeover notice, sent or about to be sent, names a superseded token.
Stale ==
    /\ \A b \in Brokers : row.token \notin notices[b]
    /\ \A c \in Conns : pc[c] = "notify" =>
            /\ prev[c].token # None /\ prev[c].broker # None
            /\ prev[c].token # row.token

\* handleDeadBroker holds the lock of the pod it works on, alone; while no session
\* has dropped, a pod that has not exited holds its own lock.
Locks ==
    /\ \A j \in Brokers : jdead[j] # None => lock[jdead[j]] = "janitor"
    /\ \A j, k \in Brokers : jdead[j] # None /\ jdead[j] = jdead[k] => j = k
    /\ \A j \in Brokers : jpc[j] \in {"deadfire", "step1", "step2"} => jdead[j] # None
    /\ drops = 0 => \A b \in Brokers : up[b] # "gone" => lock[b] = "own"

Core == RowConsistent /\ RowPlaced /\ Placed /\ Fresh /\ Stale /\ OpenConnsRegistered

IInv == TypeOK /\ Core

\* Every step keeps the types, given the invariant.
LEMMA TypeStep ==
    ASSUME IInv, Next
    PROVE  TypeOK'
<1> USE DEF IInv, Core, Stale, RowPlaced, RowConsistent, TypeOK, Row, NoRow,
            WillKinds, LifeKinds, Timer, ConnPcs,
            vars, connVars, podVars, lstVars, janVars, budgetVars
<1>1. ASSUME NEW c \in Conns, NotifyTakeover(c) PROVE TypeOK'
  BY <1>1 DEF NotifyTakeover
<1>2. ASSUME NEW c \in Conns, NotifyTakeoverFails(c) PROVE TypeOK'
  BY <1>2 DEF NotifyTakeoverFails, Fails
<1>3. ASSUME NEW c \in Conns, RegisterConn(c) PROVE TypeOK'
  <2>1. at[c] \in Brokers /\ conns[at[c]] \in Conns \cup {None}
    BY <1>3 DEF RegisterConn, Placed
  <2>2. displaced' \in [Conns -> Conns \cup {None}]
    BY <1>3, <2>1 DEF RegisterConn
  <2>3. pc' \in [Conns -> ConnPcs]
    BY <1>3 DEF RegisterConn
  <2>4. conns' \in [Brokers -> Conns \cup {None}]
    BY <1>3 DEF RegisterConn
  <2> QED
    BY <1>3, <2>1, <2>2, <2>3, <2>4 DEF RegisterConn
<1>4. ASSUME NEW c \in Conns, Cleanup(c) PROVE TypeOK'
  <2>1. row' \in Row \cup {NoRow}
    <3>1. CASE row = NoRow
      BY <1>4, <3>1 DEF Cleanup
    <3>2. CASE row \in Row
      BY <1>4, <3>2 DEF Cleanup
    <3> QED
      BY <3>1, <3>2
  <2> QED
    BY <1>4, <2>1 DEF Cleanup
<1>5. ASSUME NEW c \in Conns, CleanupFails(c) PROVE TypeOK'
  BY <1>5 DEF CleanupFails, Fails, Return
<1>6. ASSUME NEW c \in Conns, Decide(c) PROVE TypeOK'
  BY <1>6 DEF Decide, WillDecision
<1>7. ASSUME NEW c \in Conns, FireWill(c) PROVE TypeOK'
  <2>1. fired' \in [Conns -> 0..2]
    BY <1>7 DEF FireWill, Publish
  <2>2. act' \in [Conns -> {"none", "now", "at", "fired"}] /\ pc' \in [Conns -> ConnPcs]
    BY <1>7 DEF FireWill
  <2> QED
    BY <1>7, <2>1, <2>2 DEF FireWill
<1>8. ASSUME NEW c \in Conns, FireWillFails(c) PROVE TypeOK'
  BY <1>8 DEF FireWillFails, Fails
<1>9. ASSUME NEW c \in Conns, DisconnectWrite(c) PROVE TypeOK'
  <2>1. row' \in Row \cup {NoRow}
    <3>1. CASE row = NoRow
      BY <1>9, <3>1 DEF DisconnectWrite, RowAfterDisconnect, Return
    <3>2. CASE row \in Row
      BY <1>9, <3>2 DEF DisconnectWrite, RowAfterDisconnect, Return
    <3> QED
      BY <3>1, <3>2
  <2> QED
    BY <1>9, <2>1 DEF DisconnectWrite, RowAfterDisconnect, Return
<1>10. ASSUME NEW c \in Conns, DisconnectWriteFails(c) PROVE TypeOK'
  BY <1>10 DEF DisconnectWriteFails, Fails, Return
<1>11. ASSUME NEW c \in Conns, NEW b \in Brokers, NEW w \in Wills, NEW l \in Lives, TakeOwnership(c, b, w, l) PROVE TypeOK'
  <2>1. w \in WillKinds /\ l \in LifeKinds
    BY InputsAssumption
  <2>2. row' \in Row
    <3>1. row' = [broker |-> b, connected |-> TRUE, token |-> c, will |-> w,
                  fireAt |-> row.fireAt, expAt |-> row.expAt]
      BY <1>11 DEF TakeOwnership, Previous
    <3>2. row.fireAt \in Timer /\ row.expAt \in Timer
      OBVIOUS
    <3> HIDE DEF WillKinds, LifeKinds, Timer
    <3> QED
      BY <2>1, <3>1, <3>2
  <2>3. pc' \in [Conns -> ConnPcs] /\ at' \in [Conns -> Brokers \cup {None}]
    BY <1>11 DEF TakeOwnership, Previous
  <2>4. prev' \in [Conns -> [broker : Brokers \cup {None}, token : Conns \cup {None}]]
    BY <1>11 DEF TakeOwnership, Previous
  <2> QED
    BY <1>11, <2>1, <2>2, <2>3, <2>4 DEF TakeOwnership, Previous
<1>12. ASSUME NEW c \in Conns, ConnectionLost(c) PROVE TypeOK'
  BY <1>12 DEF ConnectionLost
<1>13. ASSUME NEW c \in Conns, NEW keep \in BOOLEAN, NEW l \in Lives, GracefulDisconnect(c, keep, l) PROVE TypeOK'
  BY <1>13 DEF GracefulDisconnect
<1>14. ASSUME NEW b \in Brokers, SweepQuery(b) PROVE TypeOK'
  BY <1>14 DEF SweepQuery, Orphaned
<1>15. ASSUME NEW b \in Brokers, SweepClose(b) PROVE TypeOK'
  BY <1>15 DEF SweepClose, Shutdown
<1>16. ASSUME NEW b \in Brokers, QuotaKick(b) PROVE TypeOK'
  BY <1>16 DEF QuotaKick, Shutdown
<1>17. ASSUME NEW b \in Brokers, QuotaNotify(b) PROVE TypeOK'
  BY <1>17 DEF QuotaNotify
<1>18. ASSUME NEW b \in Brokers, StopBegin(b) PROVE TypeOK'
  BY <1>18 DEF StopBegin, Shutdown
<1>19. ASSUME NEW b \in Brokers, StopDetach(b) PROVE TypeOK'
  <2>1. row' \in Row \cup {NoRow}
    <3>1. CASE row = NoRow
      BY <1>19, <3>1 DEF StopDetach
    <3>2. CASE row \in Row
      BY <1>19, <3>2 DEF StopDetach
    <3> QED
      BY <3>1, <3>2
  <2> QED
    BY <1>19, <2>1 DEF StopDetach
<1>20. ASSUME NEW b \in Brokers, Exit(b) PROVE TypeOK'
  BY <1>20 DEF Exit
<1>21. ASSUME NEW b \in Brokers, ListenerDrop(b) PROVE TypeOK'
  BY <1>21 DEF ListenerDrop
<1>22. ASSUME NEW b \in Brokers, Reconnect(b) PROVE TypeOK'
  BY <1>22 DEF Reconnect
<1>23. ASSUME NEW b \in Brokers, AttestWrite(b) PROVE TypeOK'
  <2>1. row' \in Row \cup {NoRow}
    <3>1. CASE row = NoRow
      BY <1>23, <3>1 DEF AttestWrite, RowAfterAttest
    <3>2. CASE row \in Row
      BY <1>23, <3>2 DEF AttestWrite, RowAfterAttest
    <3> QED
      BY <3>1, <3>2
  <2> QED
    BY <1>23, <2>1 DEF AttestWrite, RowAfterAttest
<1>24. ASSUME NEW b \in Brokers, AttestWriteFails(b) PROVE TypeOK'
  BY <1>24 DEF AttestWriteFails, Fails
<1>25. ASSUME NEW b \in Brokers, NEW t \in Conns, DispatchTakeover(b, t) PROVE TypeOK'
  BY <1>25 DEF DispatchTakeover, Shutdown, Addressee
<1>26. ASSUME NEW b \in Brokers, NEW t \in Conns, DispatchQuota(b, t) PROVE TypeOK'
  BY <1>26 DEF DispatchQuota, Shutdown, Addressee
<1>27. ASSUME NEW b \in Brokers, NEW d \in Brokers, DeadBrokerLock(b, d) PROVE TypeOK'
  BY <1>27 DEF DeadBrokerLock
<1>28. ASSUME NEW b \in Brokers, DeadBrokerFire(b) PROVE TypeOK'
  BY <1>28 DEF DeadBrokerFire, Publish
<1>29. ASSUME NEW b \in Brokers, DeadBrokerFireFails(b) PROVE TypeOK'
  BY <1>29 DEF DeadBrokerFireFails, Fails
<1>30. ASSUME NEW b \in Brokers, DeadBrokerStep1(b) PROVE TypeOK'
  <2>1. row' \in Row \cup {NoRow}
    <3>1. CASE row = NoRow
      BY <1>30, <3>1 DEF DeadBrokerStep1, RowAfterStep1
    <3>2. CASE row \in Row
      BY <1>30, <3>2 DEF DeadBrokerStep1, RowAfterStep1
    <3> QED
      BY <3>1, <3>2
  <2> QED
    BY <1>30, <2>1 DEF DeadBrokerStep1, RowAfterStep1
<1>31. ASSUME NEW b \in Brokers, DeadBrokerStep2(b) PROVE TypeOK'
  <2>1. row' \in Row \cup {NoRow}
    <3>1. CASE row = NoRow
      BY <1>31, <3>1 DEF DeadBrokerStep2, RowAfterStep2, DeadBrokerUnlock
    <3>2. CASE row \in Row
      BY <1>31, <3>2 DEF DeadBrokerStep2, RowAfterStep2, DeadBrokerUnlock
    <3> QED
      BY <3>1, <3>2
  <2> QED
    BY <1>31, <2>1 DEF DeadBrokerStep2, RowAfterStep2, DeadBrokerUnlock
<1>32. ASSUME NEW b \in Brokers, DeadBrokerStepFails(b) PROVE TypeOK'
  <2>1. lock' \in [Brokers -> {"free", "own", "janitor"}]
    BY <1>32 DEF DeadBrokerStepFails, Fails, DeadBrokerUnlock
  <2>2. errs' \in 0..MaxErrs
    BY <1>32 DEF DeadBrokerStepFails, Fails, DeadBrokerUnlock
  <2>3. jpc' \in [Brokers -> {"idle", "deadfire", "step1", "step2", "publish", "clear"}]
    BY <1>32 DEF DeadBrokerStepFails, Fails, DeadBrokerUnlock
  <2>4. jdead' \in [Brokers -> Brokers \cup {None}] /\ jwill' \in [Brokers -> Conns \cup {None}]
    BY <1>32 DEF DeadBrokerStepFails, Fails, DeadBrokerUnlock
  <2> QED
    BY <1>32, <2>1, <2>2, <2>3, <2>4 DEF DeadBrokerStepFails, Fails, DeadBrokerUnlock
<1>33. ASSUME NEW b \in Brokers, DueWillSelect(b) PROVE TypeOK'
  BY <1>33 DEF DueWillSelect, WillDue
<1>34. ASSUME NEW b \in Brokers, DueWillPublish(b) PROVE TypeOK'
  BY <1>34 DEF DueWillPublish, Publish
<1>35. ASSUME NEW b \in Brokers, DueWillPublishFails(b) PROVE TypeOK'
  BY <1>35 DEF DueWillPublishFails, Fails
<1>36. ASSUME NEW b \in Brokers, DueWillClear(b) PROVE TypeOK'
  <2>1. row' \in Row \cup {NoRow}
    <3>1. CASE row = NoRow
      BY <1>36, <3>1 DEF DueWillClear
    <3>2. CASE row \in Row
      BY <1>36, <3>2 DEF DueWillClear
    <3> QED
      BY <3>1, <3>2
  <2> QED
    BY <1>36, <2>1 DEF DueWillClear
<1>37. ASSUME NEW b \in Brokers, DueWillClearFails(b) PROVE TypeOK'
  BY <1>37 DEF DueWillClearFails, Fails
<1>38. ASSUME NEW b \in Brokers, ExpireSession(b) PROVE TypeOK'
  BY <1>38 DEF ExpireSession
<1>39. ASSUME WillFallsDue PROVE TypeOK'
  <2>1. row' \in Row \cup {NoRow}
    <3>1. CASE row = NoRow
      BY <1>39, <3>1 DEF WillFallsDue
    <3>2. CASE row \in Row
      BY <1>39, <3>2 DEF WillFallsDue
    <3> QED
      BY <3>1, <3>2
  <2> QED
    BY <1>39, <2>1 DEF WillFallsDue
<1>40. ASSUME ExpiryFallsDue PROVE TypeOK'
  <2>1. row' \in Row \cup {NoRow}
    <3>1. CASE row = NoRow
      BY <1>40, <3>1 DEF ExpiryFallsDue
    <3>2. CASE row \in Row
      BY <1>40, <3>2 DEF ExpiryFallsDue
    <3> QED
      BY <3>1, <3>2
  <2> QED
    BY <1>40, <2>1 DEF ExpiryFallsDue
<1>41. ASSUME NEW c \in Conns, ShutdownPrev(c) PROVE TypeOK'
  <2>1. pc' \in [Conns -> ConnPcs]
    BY <1>41 DEF ShutdownPrev
  <2>2. /\ closing' \in [Conns -> BOOLEAN] /\ takenOver' \in [Conns -> BOOLEAN]
        /\ displaced' \in [Conns -> Conns \cup {None}]
    BY <1>41 DEF ShutdownPrev
  <2> QED
    BY <1>41, <2>1, <2>2 DEF ShutdownPrev
<1> HIDE DEF IInv, Core, TypeOK, vars, Locks, OwnerAttached
<1> QED
  BY <1>1, <1>2, <1>3, <1>4, <1>5, <1>6, <1>7, <1>8, <1>9, <1>10, <1>11, <1>12,
     <1>13, <1>14, <1>15, <1>16, <1>17, <1>18, <1>19, <1>20, <1>21, <1>22, <1>23,
     <1>24, <1>25, <1>26, <1>27, <1>28, <1>29, <1>30, <1>31, <1>32, <1>33, <1>34,
     <1>35, <1>36, <1>37, <1>38, <1>39, <1>40, <1>41
     DEF Next, ConnStep, ClientStep, SweepStep, StopStep, ListenerStep, DeadBrokerStep, DueWillStep

\* Closing sockets leaves the open ones registered.
LEMMA ShutdownRegistered ==
    ASSUME IInv, NEW S \in SUBSET Conns, Shutdown(S), UNCHANGED <<at, displaced>>
    PROVE  OpenConnsRegistered'
<1> SUFFICES ASSUME NEW c \in Conns, ~closing'[c],
                    pc'[c] \in {"shutprev", "cleanup", "running", "decide", "fire", "write"}
             PROVE  conns'[at[c]] = c \/ \E d \in Conns : pc'[d] = "shutprev" /\ displaced[d] = c
  BY DEF OpenConnsRegistered
<1>1. c \notin S /\ ~closing[c] /\ pc'[c] = pc[c]
  BY DEF Shutdown, IInv, TypeOK
<1>2. at[c] \in Brokers /\ \A d \in Conns : pc[d] = "shutprev" => pc'[d] = "shutprev"
  BY <1>1 DEF Shutdown, IInv, Core, Placed, TypeOK
<1>3. CASE conns[at[c]] = c
  BY <1>1, <1>2, <1>3 DEF Shutdown
<1>4. ASSUME NEW d \in Conns, pc[d] = "shutprev", displaced[d] = c PROVE pc'[d] = "shutprev" /\ displaced[d] = c
  BY <1>2, <1>4
<1> QED
  BY <1>1, <1>3, <1>4 DEF IInv, Core, OpenConnsRegistered

\* Every step keeps the rest of the invariant.
LEMMA CoreStep ==
    ASSUME IInv, TypeOK', Next
    PROVE  Core'
<1> USE DEF IInv, Core, RowConsistent, RowPlaced, Placed, Fresh, Stale,
            OpenConnsRegistered, TypeOK, Row, NoRow,
            vars, connVars, podVars, lstVars, janVars, budgetVars
<1>1. ASSUME NEW c \in Conns, NotifyTakeover(c) PROVE Core'
  BY <1>1 DEF NotifyTakeover
<1>2. ASSUME NEW c \in Conns, NotifyTakeoverFails(c) PROVE Core'
  BY <1>2 DEF NotifyTakeoverFails, Fails
<1>3. ASSUME NEW c \in Conns, RegisterConn(c) PROVE Core'
  <2>1. RowConsistent'
    BY <1>3 DEF RegisterConn
  <2>2. RowPlaced'
    BY <1>3 DEF RegisterConn
  <2>3. Placed'
    BY <1>3 DEF RegisterConn
  <2>4. Fresh'
    BY <1>3 DEF RegisterConn
  <2>5. Stale'
    BY <1>3 DEF RegisterConn
  <2>6. OpenConnsRegistered'
    <3> SUFFICES ASSUME NEW d \in Conns, ~closing'[d],
                        pc'[d] \in {"shutprev", "cleanup", "running", "decide", "fire", "write"}
                 PROVE  conns'[at'[d]] = d \/ \E e \in Conns : pc'[e] = "shutprev" /\ displaced'[e] = d
      OBVIOUS
    <3>1. at' = at /\ at[c] \in Brokers /\ UNCHANGED closing
      BY <1>3 DEF RegisterConn
    <3>2. CASE d = c
      BY <1>3, <3>1, <3>2 DEF RegisterConn
    <3>3. CASE d # c
      <4>1. ~closing[d] /\ pc'[d] = pc[d]
        BY <1>3, <3>1, <3>3 DEF RegisterConn
      <4>2. CASE conns[at[d]] = d /\ at[d] # at[c]
        BY <1>3, <3>1, <4>2 DEF RegisterConn
      <4>3. CASE conns[at[d]] = d /\ at[d] = at[c]
        <5>1. pc'[c] = "shutprev" /\ displaced'[c] = d
          BY <1>3, <4>3 DEF RegisterConn
        <5> QED
          BY <5>1
      <4>4. ASSUME NEW e \in Conns, pc[e] = "shutprev", displaced[e] = d
            PROVE  pc'[e] = "shutprev" /\ displaced'[e] = d
        BY <1>3, <4>4 DEF RegisterConn
      <4> QED
        BY <4>1, <4>2, <4>3, <4>4
    <3> QED
      BY <3>2, <3>3
  <2> QED
    BY <1>3, <2>1, <2>2, <2>3, <2>4, <2>5, <2>6 DEF Core
<1>4. ASSUME NEW c \in Conns, Cleanup(c) PROVE Core'
  BY <1>4 DEF Cleanup
<1>5. ASSUME NEW c \in Conns, CleanupFails(c) PROVE Core'
  BY <1>5 DEF CleanupFails, Fails, Return
<1>6. ASSUME NEW c \in Conns, Decide(c) PROVE Core'
  BY <1>6 DEF Decide, WillDecision
<1>7. ASSUME NEW c \in Conns, FireWill(c) PROVE Core'
  BY <1>7 DEF FireWill, Publish
<1>8. ASSUME NEW c \in Conns, FireWillFails(c) PROVE Core'
  BY <1>8 DEF FireWillFails, Fails
<1>9. ASSUME NEW c \in Conns, DisconnectWrite(c) PROVE Core'
  <2>1. RowConsistent'
    BY <1>9 DEF DisconnectWrite, RowAfterDisconnect, Return
  <2>2. RowPlaced'
    BY <1>9 DEF DisconnectWrite, RowAfterDisconnect, Return
  <2>3. Placed'
    BY <1>9 DEF DisconnectWrite, RowAfterDisconnect, Return
  <2>4. Fresh'
    BY <1>9 DEF DisconnectWrite, RowAfterDisconnect, Return
  <2>5. Stale'
    BY <1>9 DEF DisconnectWrite, RowAfterDisconnect, Return
  <2>6. OpenConnsRegistered'
    BY <1>9 DEF DisconnectWrite, RowAfterDisconnect, Return
  <2> QED
    BY <1>9, <2>1, <2>2, <2>3, <2>4, <2>5, <2>6 DEF Core
<1>10. ASSUME NEW c \in Conns, DisconnectWriteFails(c) PROVE Core'
  BY <1>10 DEF DisconnectWriteFails, Fails, Return
<1>11. ASSUME NEW c \in Conns, NEW b \in Brokers, NEW w \in Wills, NEW l \in Lives, TakeOwnership(c, b, w, l) PROVE Core'
  <2>1. RowConsistent'
    BY <1>11 DEF TakeOwnership, Previous
  <2>2. RowPlaced'
    BY <1>11 DEF TakeOwnership, Previous
  <2>3. Placed'
    <3>1. /\ at[c] = None /\ at' = [at EXCEPT ![c] = b] /\ UNCHANGED <<conns, attest, displaced>>
          /\ pc[c] = "idle" /\ pc'[c] # "idle" /\ \A d \in Conns \ {c} : pc'[d] = pc[d]
      BY <1>11 DEF TakeOwnership
    <3>2. ASSUME NEW d \in Conns, displaced[d] # None PROVE at'[displaced[d]] = at'[d]
      <4>1. displaced[d] # c /\ d # c
        BY <3>1, <3>2
      <4> QED
        BY <3>1, <3>2, <4>1
    <3> QED
      BY <3>1, <3>2
  <2>4. Fresh'
    BY <1>11 DEF TakeOwnership, Previous
  <2>5. Stale'
    BY <1>11 DEF TakeOwnership, Previous
  <2>6. OpenConnsRegistered'
    BY <1>11 DEF TakeOwnership, Previous
  <2> QED
    BY <1>11, <2>1, <2>2, <2>3, <2>4, <2>5, <2>6 DEF Core
<1>12. ASSUME NEW c \in Conns, ConnectionLost(c) PROVE Core'
  BY <1>12 DEF ConnectionLost
<1>13. ASSUME NEW c \in Conns, NEW keep \in BOOLEAN, NEW l \in Lives, GracefulDisconnect(c, keep, l) PROVE Core'
  BY <1>13 DEF GracefulDisconnect
<1>14. ASSUME NEW b \in Brokers, SweepQuery(b) PROVE Core'
  BY <1>14 DEF SweepQuery, Orphaned
<1>15. ASSUME NEW b \in Brokers, SweepClose(b) PROVE Core'
  <2>1. RowConsistent'
    BY <1>15 DEF SweepClose, Shutdown
  <2>2. RowPlaced'
    BY <1>15 DEF SweepClose, Shutdown
  <2>3. Placed'
    BY <1>15 DEF SweepClose, Shutdown
  <2>4. Fresh'
    BY <1>15 DEF SweepClose, Shutdown
  <2>5. Stale'
    BY <1>15 DEF SweepClose, Shutdown
  <2>6. OpenConnsRegistered'
    <3> DEFINE S == {conns[b]} \ {None}
    <3>1. S \in SUBSET Conns /\ UNCHANGED <<at, displaced>>
      BY <1>15 DEF SweepClose
    <3>2. Shutdown(S)
      BY <1>15 DEF SweepClose
    <3> HIDE DEF S, IInv, OpenConnsRegistered
    <3> QED
      BY <3>1, <3>2, ShutdownRegistered, IInv
  <2> QED
    BY <1>15, <2>1, <2>2, <2>3, <2>4, <2>5, <2>6 DEF Core
<1>16. ASSUME NEW b \in Brokers, QuotaKick(b) PROVE Core'
  <2>1. RowConsistent'
    BY <1>16 DEF QuotaKick, Shutdown
  <2>2. RowPlaced'
    BY <1>16 DEF QuotaKick, Shutdown
  <2>3. Placed'
    BY <1>16 DEF QuotaKick, Shutdown
  <2>4. Fresh'
    BY <1>16 DEF QuotaKick, Shutdown
  <2>5. Stale'
    BY <1>16 DEF QuotaKick, Shutdown
  <2>6. OpenConnsRegistered'
    <3> DEFINE S == {row.token}
    <3>1. S \in SUBSET Conns /\ UNCHANGED <<at, displaced>>
      BY <1>16 DEF QuotaKick
    <3>2. Shutdown(S)
      BY <1>16 DEF QuotaKick
    <3> HIDE DEF S, IInv, OpenConnsRegistered
    <3> QED
      BY <3>1, <3>2, ShutdownRegistered, IInv
  <2> QED
    BY <1>16, <2>1, <2>2, <2>3, <2>4, <2>5, <2>6 DEF Core
<1>17. ASSUME NEW b \in Brokers, QuotaNotify(b) PROVE Core'
  BY <1>17 DEF QuotaNotify
<1>18. ASSUME NEW b \in Brokers, StopBegin(b) PROVE Core'
  <2>1. RowConsistent'
    BY <1>18 DEF StopBegin, Shutdown
  <2>2. RowPlaced'
    BY <1>18 DEF StopBegin, Shutdown
  <2>3. Placed'
    BY <1>18 DEF StopBegin, Shutdown
  <2>4. Fresh'
    BY <1>18 DEF StopBegin, Shutdown
  <2>5. Stale'
    BY <1>18 DEF StopBegin, Shutdown
  <2>6. OpenConnsRegistered'
    <3> DEFINE S == {conns[b]} \ {None}
    <3>1. S \in SUBSET Conns /\ UNCHANGED <<at, displaced>>
      BY <1>18 DEF StopBegin
    <3>2. Shutdown(S)
      BY <1>18 DEF StopBegin
    <3> HIDE DEF S, IInv, OpenConnsRegistered
    <3> QED
      BY <3>1, <3>2, ShutdownRegistered, IInv
  <2> QED
    BY <1>18, <2>1, <2>2, <2>3, <2>4, <2>5, <2>6 DEF Core
<1>19. ASSUME NEW b \in Brokers, StopDetach(b) PROVE Core'
  <2>1. RowConsistent'
    BY <1>19 DEF StopDetach
  <2>2. RowPlaced'
    BY <1>19 DEF StopDetach
  <2>3. Placed'
    BY <1>19 DEF StopDetach
  <2>4. Fresh'
    BY <1>19 DEF StopDetach
  <2>5. Stale'
    BY <1>19 DEF StopDetach
  <2>6. OpenConnsRegistered'
    BY <1>19 DEF StopDetach
  <2> QED
    BY <1>19, <2>1, <2>2, <2>3, <2>4, <2>5, <2>6 DEF Core
<1>20. ASSUME NEW b \in Brokers, Exit(b) PROVE Core'
  BY <1>20 DEF Exit
<1>21. ASSUME NEW b \in Brokers, ListenerDrop(b) PROVE Core'
  BY <1>21 DEF ListenerDrop
<1>22. ASSUME NEW b \in Brokers, Reconnect(b) PROVE Core'
  BY <1>22 DEF Reconnect
<1>23. ASSUME NEW b \in Brokers, AttestWrite(b) PROVE Core'
  <2>1. RowConsistent'
    BY <1>23 DEF AttestWrite, RowAfterAttest
  <2>2. RowPlaced'
    BY <1>23 DEF AttestWrite, RowAfterAttest
  <2>3. Placed'
    BY <1>23 DEF AttestWrite, RowAfterAttest
  <2>4. Fresh'
    BY <1>23 DEF AttestWrite, RowAfterAttest
  <2>5. Stale'
    BY <1>23 DEF AttestWrite, RowAfterAttest
  <2>6. OpenConnsRegistered'
    BY <1>23 DEF AttestWrite, RowAfterAttest
  <2> QED
    BY <1>23, <2>1, <2>2, <2>3, <2>4, <2>5, <2>6 DEF Core
<1>24. ASSUME NEW b \in Brokers, AttestWriteFails(b) PROVE Core'
  BY <1>24 DEF AttestWriteFails, Fails
<1>25. ASSUME NEW b \in Brokers, NEW t \in Conns, DispatchTakeover(b, t) PROVE Core'
  <2>1. RowConsistent'
    BY <1>25 DEF DispatchTakeover, Shutdown, Addressee
  <2>2. RowPlaced'
    BY <1>25 DEF DispatchTakeover, Shutdown, Addressee
  <2>3. Placed'
    BY <1>25 DEF DispatchTakeover, Shutdown, Addressee
  <2>4. Fresh'
    BY <1>25 DEF DispatchTakeover, Shutdown, Addressee
  <2>5. Stale'
    BY <1>25 DEF DispatchTakeover, Shutdown, Addressee
  <2>6. OpenConnsRegistered'
    <3> DEFINE S == Addressee(b, t)
    <3>1. S \in SUBSET Conns /\ UNCHANGED <<at, displaced>>
      BY <1>25 DEF DispatchTakeover, Addressee
    <3>2. Shutdown(S)
      BY <1>25 DEF DispatchTakeover, Addressee
    <3> HIDE DEF S, IInv, OpenConnsRegistered
    <3> QED
      BY <3>1, <3>2, ShutdownRegistered, IInv
  <2> QED
    BY <1>25, <2>1, <2>2, <2>3, <2>4, <2>5, <2>6 DEF Core
<1>26. ASSUME NEW b \in Brokers, NEW t \in Conns, DispatchQuota(b, t) PROVE Core'
  <2>1. RowConsistent'
    BY <1>26 DEF DispatchQuota, Shutdown, Addressee
  <2>2. RowPlaced'
    BY <1>26 DEF DispatchQuota, Shutdown, Addressee
  <2>3. Placed'
    BY <1>26 DEF DispatchQuota, Shutdown, Addressee
  <2>4. Fresh'
    BY <1>26 DEF DispatchQuota, Shutdown, Addressee
  <2>5. Stale'
    BY <1>26 DEF DispatchQuota, Shutdown, Addressee
  <2>6. OpenConnsRegistered'
    <3> DEFINE S == Addressee(b, t)
    <3>1. S \in SUBSET Conns /\ UNCHANGED <<at, displaced>>
      BY <1>26 DEF DispatchQuota, Addressee
    <3>2. Shutdown(S)
      BY <1>26 DEF DispatchQuota, Addressee
    <3> HIDE DEF S, IInv, OpenConnsRegistered
    <3> QED
      BY <3>1, <3>2, ShutdownRegistered, IInv
  <2> QED
    BY <1>26, <2>1, <2>2, <2>3, <2>4, <2>5, <2>6 DEF Core
<1>27. ASSUME NEW b \in Brokers, NEW d \in Brokers, DeadBrokerLock(b, d) PROVE Core'
  BY <1>27 DEF DeadBrokerLock
<1>28. ASSUME NEW b \in Brokers, DeadBrokerFire(b) PROVE Core'
  BY <1>28 DEF DeadBrokerFire, Publish
<1>29. ASSUME NEW b \in Brokers, DeadBrokerFireFails(b) PROVE Core'
  BY <1>29 DEF DeadBrokerFireFails, Fails
<1>30. ASSUME NEW b \in Brokers, DeadBrokerStep1(b) PROVE Core'
  <2>1. RowConsistent'
    BY <1>30 DEF DeadBrokerStep1, RowAfterStep1
  <2>2. RowPlaced'
    BY <1>30 DEF DeadBrokerStep1, RowAfterStep1
  <2>3. Placed'
    BY <1>30 DEF DeadBrokerStep1, RowAfterStep1
  <2>4. Fresh'
    BY <1>30 DEF DeadBrokerStep1, RowAfterStep1
  <2>5. Stale'
    BY <1>30 DEF DeadBrokerStep1, RowAfterStep1
  <2>6. OpenConnsRegistered'
    BY <1>30 DEF DeadBrokerStep1, RowAfterStep1
  <2> QED
    BY <1>30, <2>1, <2>2, <2>3, <2>4, <2>5, <2>6 DEF Core
<1>31. ASSUME NEW b \in Brokers, DeadBrokerStep2(b) PROVE Core'
  <2>1. RowConsistent'
    BY <1>31 DEF DeadBrokerStep2, RowAfterStep2, DeadBrokerUnlock
  <2>2. RowPlaced'
    BY <1>31 DEF DeadBrokerStep2, RowAfterStep2, DeadBrokerUnlock
  <2>3. Placed'
    BY <1>31 DEF DeadBrokerStep2, RowAfterStep2, DeadBrokerUnlock
  <2>4. Fresh'
    BY <1>31 DEF DeadBrokerStep2, RowAfterStep2, DeadBrokerUnlock
  <2>5. Stale'
    BY <1>31 DEF DeadBrokerStep2, RowAfterStep2, DeadBrokerUnlock
  <2>6. OpenConnsRegistered'
    BY <1>31 DEF DeadBrokerStep2, RowAfterStep2, DeadBrokerUnlock
  <2> QED
    BY <1>31, <2>1, <2>2, <2>3, <2>4, <2>5, <2>6 DEF Core
<1>32. ASSUME NEW b \in Brokers, DeadBrokerStepFails(b) PROVE Core'
  BY <1>32 DEF DeadBrokerStepFails, Fails, DeadBrokerUnlock
<1>33. ASSUME NEW b \in Brokers, DueWillSelect(b) PROVE Core'
  BY <1>33 DEF DueWillSelect, WillDue
<1>34. ASSUME NEW b \in Brokers, DueWillPublish(b) PROVE Core'
  BY <1>34 DEF DueWillPublish, Publish
<1>35. ASSUME NEW b \in Brokers, DueWillPublishFails(b) PROVE Core'
  BY <1>35 DEF DueWillPublishFails, Fails
<1>36. ASSUME NEW b \in Brokers, DueWillClear(b) PROVE Core'
  BY <1>36 DEF DueWillClear
<1>37. ASSUME NEW b \in Brokers, DueWillClearFails(b) PROVE Core'
  BY <1>37 DEF DueWillClearFails, Fails
<1>38. ASSUME NEW b \in Brokers, ExpireSession(b) PROVE Core'
  <2>1. RowConsistent'
    BY <1>38 DEF ExpireSession
  <2>2. RowPlaced'
    BY <1>38 DEF ExpireSession
  <2>3. Placed'
    BY <1>38 DEF ExpireSession
  <2>4. Fresh'
    BY <1>38 DEF ExpireSession
  <2>5. Stale'
    BY <1>38 DEF ExpireSession
  <2>6. OpenConnsRegistered'
    BY <1>38 DEF ExpireSession
  <2> QED
    BY <1>38, <2>1, <2>2, <2>3, <2>4, <2>5, <2>6 DEF Core
<1>39. ASSUME WillFallsDue PROVE Core'
  BY <1>39 DEF WillFallsDue
<1>40. ASSUME ExpiryFallsDue PROVE Core'
  BY <1>40 DEF ExpiryFallsDue
<1>41. ASSUME NEW c \in Conns, ShutdownPrev(c) PROVE Core'
  <2>1. RowConsistent' /\ RowPlaced' /\ Fresh'
    BY <1>41 DEF ShutdownPrev
  <2>2. Placed'
    BY <1>41 DEF ShutdownPrev
  <2>3. Stale'
    BY <1>41 DEF ShutdownPrev
  <2>4. OpenConnsRegistered'
    <3> SUFFICES ASSUME NEW d \in Conns, ~closing'[d],
                        pc'[d] \in {"shutprev", "cleanup", "running", "decide", "fire", "write"}
                 PROVE  conns'[at'[d]] = d \/ \E e \in Conns : pc'[e] = "shutprev" /\ displaced'[e] = d
      OBVIOUS
    <3>1. UNCHANGED <<at, conns>> /\ ~closing[d] /\ d # displaced[c]
      BY <1>41 DEF ShutdownPrev
    <3>2. pc[d] \in {"shutprev", "cleanup", "running", "decide", "fire", "write"}
      BY <1>41 DEF ShutdownPrev
    <3>3. ASSUME NEW e \in Conns, pc[e] = "shutprev", displaced[e] = d
          PROVE  pc'[e] = "shutprev" /\ displaced'[e] = d
      BY <1>41, <3>1, <3>3 DEF ShutdownPrev
    <3> QED
      BY <3>1, <3>2, <3>3
  <2> QED
    BY <2>1, <2>2, <2>3, <2>4
<1> HIDE DEF IInv, Core, TypeOK, vars, Locks, OwnerAttached
<1> QED
  BY <1>1, <1>2, <1>3, <1>4, <1>5, <1>6, <1>7, <1>8, <1>9, <1>10, <1>11, <1>12,
     <1>13, <1>14, <1>15, <1>16, <1>17, <1>18, <1>19, <1>20, <1>21, <1>22, <1>23,
     <1>24, <1>25, <1>26, <1>27, <1>28, <1>29, <1>30, <1>31, <1>32, <1>33, <1>34,
     <1>35, <1>36, <1>37, <1>38, <1>39, <1>40, <1>41
     DEF Next, ConnStep, ClientStep, SweepStep, StopStep, ListenerStep, DeadBrokerStep, DueWillStep

\* Every step keeps the lock discipline.
LEMMA LocksStep ==
    ASSUME IInv, TypeOK', Locks, Next
    PROVE  Locks'
<1> USE DEF IInv, TypeOK, Locks,
            vars, connVars, podVars, lstVars, janVars, budgetVars
<1>1. ASSUME NEW c \in Conns, NotifyTakeover(c) PROVE Locks'
  BY <1>1 DEF NotifyTakeover
<1>2. ASSUME NEW c \in Conns, NotifyTakeoverFails(c) PROVE Locks'
  BY <1>2 DEF NotifyTakeoverFails, Fails
<1>3. ASSUME NEW c \in Conns, RegisterConn(c) PROVE Locks'
  BY <1>3 DEF RegisterConn
<1>4. ASSUME NEW c \in Conns, Cleanup(c) PROVE Locks'
  BY <1>4 DEF Cleanup
<1>5. ASSUME NEW c \in Conns, CleanupFails(c) PROVE Locks'
  BY <1>5 DEF CleanupFails, Fails, Return
<1>6. ASSUME NEW c \in Conns, Decide(c) PROVE Locks'
  BY <1>6 DEF Decide, WillDecision
<1>7. ASSUME NEW c \in Conns, FireWill(c) PROVE Locks'
  BY <1>7 DEF FireWill, Publish
<1>8. ASSUME NEW c \in Conns, FireWillFails(c) PROVE Locks'
  BY <1>8 DEF FireWillFails, Fails
<1>9. ASSUME NEW c \in Conns, DisconnectWrite(c) PROVE Locks'
  BY <1>9 DEF DisconnectWrite, RowAfterDisconnect, Return
<1>10. ASSUME NEW c \in Conns, DisconnectWriteFails(c) PROVE Locks'
  BY <1>10 DEF DisconnectWriteFails, Fails, Return
<1>11. ASSUME NEW c \in Conns, NEW b \in Brokers, NEW w \in Wills, NEW l \in Lives, TakeOwnership(c, b, w, l) PROVE Locks'
  BY <1>11 DEF TakeOwnership, Previous
<1>12. ASSUME NEW c \in Conns, ConnectionLost(c) PROVE Locks'
  BY <1>12 DEF ConnectionLost
<1>13. ASSUME NEW c \in Conns, NEW keep \in BOOLEAN, NEW l \in Lives, GracefulDisconnect(c, keep, l) PROVE Locks'
  BY <1>13 DEF GracefulDisconnect
<1>14. ASSUME NEW b \in Brokers, SweepQuery(b) PROVE Locks'
  BY <1>14 DEF SweepQuery, Orphaned
<1>15. ASSUME NEW b \in Brokers, SweepClose(b) PROVE Locks'
  BY <1>15 DEF SweepClose, Shutdown
<1>16. ASSUME NEW b \in Brokers, QuotaKick(b) PROVE Locks'
  BY <1>16 DEF QuotaKick, Shutdown
<1>17. ASSUME NEW b \in Brokers, QuotaNotify(b) PROVE Locks'
  BY <1>17 DEF QuotaNotify
<1>18. ASSUME NEW b \in Brokers, StopBegin(b) PROVE Locks'
  BY <1>18 DEF StopBegin, Shutdown
<1>19. ASSUME NEW b \in Brokers, StopDetach(b) PROVE Locks'
  BY <1>19 DEF StopDetach
<1>20. ASSUME NEW b \in Brokers, Exit(b) PROVE Locks'
  BY <1>20 DEF Exit
<1>21. ASSUME NEW b \in Brokers, ListenerDrop(b) PROVE Locks'
  BY <1>21 DEF ListenerDrop
<1>22. ASSUME NEW b \in Brokers, Reconnect(b) PROVE Locks'
  BY <1>22 DEF Reconnect
<1>23. ASSUME NEW b \in Brokers, AttestWrite(b) PROVE Locks'
  BY <1>23 DEF AttestWrite, RowAfterAttest
<1>24. ASSUME NEW b \in Brokers, AttestWriteFails(b) PROVE Locks'
  BY <1>24 DEF AttestWriteFails, Fails
<1>25. ASSUME NEW b \in Brokers, NEW t \in Conns, DispatchTakeover(b, t) PROVE Locks'
  BY <1>25 DEF DispatchTakeover, Shutdown, Addressee
<1>26. ASSUME NEW b \in Brokers, NEW t \in Conns, DispatchQuota(b, t) PROVE Locks'
  BY <1>26 DEF DispatchQuota, Shutdown, Addressee
<1>27. ASSUME NEW b \in Brokers, NEW d \in Brokers, DeadBrokerLock(b, d) PROVE Locks'
  BY <1>27 DEF DeadBrokerLock
<1>28. ASSUME NEW b \in Brokers, DeadBrokerFire(b) PROVE Locks'
  BY <1>28 DEF DeadBrokerFire, Publish
<1>29. ASSUME NEW b \in Brokers, DeadBrokerFireFails(b) PROVE Locks'
  BY <1>29 DEF DeadBrokerFireFails, Fails
<1>30. ASSUME NEW b \in Brokers, DeadBrokerStep1(b) PROVE Locks'
  BY <1>30 DEF DeadBrokerStep1, RowAfterStep1
<1>31. ASSUME NEW b \in Brokers, DeadBrokerStep2(b) PROVE Locks'
  BY <1>31 DEF DeadBrokerStep2, RowAfterStep2, DeadBrokerUnlock
<1>32. ASSUME NEW b \in Brokers, DeadBrokerStepFails(b) PROVE Locks'
  BY <1>32 DEF DeadBrokerStepFails, Fails, DeadBrokerUnlock
<1>33. ASSUME NEW b \in Brokers, DueWillSelect(b) PROVE Locks'
  BY <1>33 DEF DueWillSelect, WillDue
<1>34. ASSUME NEW b \in Brokers, DueWillPublish(b) PROVE Locks'
  BY <1>34 DEF DueWillPublish, Publish
<1>35. ASSUME NEW b \in Brokers, DueWillPublishFails(b) PROVE Locks'
  BY <1>35 DEF DueWillPublishFails, Fails
<1>36. ASSUME NEW b \in Brokers, DueWillClear(b) PROVE Locks'
  BY <1>36 DEF DueWillClear
<1>37. ASSUME NEW b \in Brokers, DueWillClearFails(b) PROVE Locks'
  BY <1>37 DEF DueWillClearFails, Fails
<1>38. ASSUME NEW b \in Brokers, ExpireSession(b) PROVE Locks'
  BY <1>38 DEF ExpireSession
<1>39. ASSUME WillFallsDue PROVE Locks'
  BY <1>39 DEF WillFallsDue
<1>40. ASSUME ExpiryFallsDue PROVE Locks'
  BY <1>40 DEF ExpiryFallsDue
<1>41. ASSUME NEW c \in Conns, ShutdownPrev(c) PROVE Locks'
  BY <1>41 DEF ShutdownPrev
<1> HIDE DEF IInv, Core, TypeOK, vars, Locks, OwnerAttached
<1> QED
  BY <1>1, <1>2, <1>3, <1>4, <1>5, <1>6, <1>7, <1>8, <1>9, <1>10, <1>11, <1>12,
     <1>13, <1>14, <1>15, <1>16, <1>17, <1>18, <1>19, <1>20, <1>21, <1>22, <1>23,
     <1>24, <1>25, <1>26, <1>27, <1>28, <1>29, <1>30, <1>31, <1>32, <1>33, <1>34,
     <1>35, <1>36, <1>37, <1>38, <1>39, <1>40, <1>41
     DEF Next, ConnStep, ClientStep, SweepStep, StopStep, ListenerStep, DeadBrokerStep, DueWillStep

\* Every step keeps an undropped owner attached.
LEMMA AttachedStep ==
    ASSUME IInv, IInv', Locks, OwnerAttached, Next
    PROVE  OwnerAttached'
<1> USE DEF IInv, Core, RowConsistent, RowPlaced, Placed, Fresh, TypeOK, Locks,
            OwnerAttached, Row, NoRow,
            vars, connVars, podVars, lstVars, janVars, budgetVars
<1>1. ASSUME NEW c \in Conns, NotifyTakeover(c) PROVE OwnerAttached'
  BY <1>1 DEF NotifyTakeover
<1>2. ASSUME NEW c \in Conns, NotifyTakeoverFails(c) PROVE OwnerAttached'
  BY <1>2 DEF NotifyTakeoverFails, Fails
<1>3. ASSUME NEW c \in Conns, RegisterConn(c) PROVE OwnerAttached'
  BY <1>3 DEF RegisterConn
<1>4. ASSUME NEW c \in Conns, Cleanup(c) PROVE OwnerAttached'
  BY <1>4 DEF Cleanup
<1>5. ASSUME NEW c \in Conns, CleanupFails(c) PROVE OwnerAttached'
  BY <1>5 DEF CleanupFails, Fails, Return
<1>6. ASSUME NEW c \in Conns, Decide(c) PROVE OwnerAttached'
  BY <1>6 DEF Decide, WillDecision
<1>7. ASSUME NEW c \in Conns, FireWill(c) PROVE OwnerAttached'
  BY <1>7 DEF FireWill, Publish
<1>8. ASSUME NEW c \in Conns, FireWillFails(c) PROVE OwnerAttached'
  BY <1>8 DEF FireWillFails, Fails
<1>9. ASSUME NEW c \in Conns, DisconnectWrite(c) PROVE OwnerAttached'
  BY <1>9 DEF DisconnectWrite, RowAfterDisconnect, Return
<1>10. ASSUME NEW c \in Conns, DisconnectWriteFails(c) PROVE OwnerAttached'
  BY <1>10 DEF DisconnectWriteFails, Fails, Return
<1>11. ASSUME NEW c \in Conns, NEW b \in Brokers, NEW w \in Wills, NEW l \in Lives, TakeOwnership(c, b, w, l) PROVE OwnerAttached'
  BY <1>11 DEF TakeOwnership, Previous
<1>12. ASSUME NEW c \in Conns, ConnectionLost(c) PROVE OwnerAttached'
  BY <1>12 DEF ConnectionLost
<1>13. ASSUME NEW c \in Conns, NEW keep \in BOOLEAN, NEW l \in Lives, GracefulDisconnect(c, keep, l) PROVE OwnerAttached'
  BY <1>13 DEF GracefulDisconnect
<1>14. ASSUME NEW b \in Brokers, SweepQuery(b) PROVE OwnerAttached'
  BY <1>14 DEF SweepQuery, Orphaned
<1>15. ASSUME NEW b \in Brokers, SweepClose(b) PROVE OwnerAttached'
  BY <1>15 DEF SweepClose, Shutdown
<1>16. ASSUME NEW b \in Brokers, QuotaKick(b) PROVE OwnerAttached'
  BY <1>16 DEF QuotaKick, Shutdown
<1>17. ASSUME NEW b \in Brokers, QuotaNotify(b) PROVE OwnerAttached'
  BY <1>17 DEF QuotaNotify
<1>18. ASSUME NEW b \in Brokers, StopBegin(b) PROVE OwnerAttached'
  BY <1>18 DEF StopBegin, Shutdown
<1>19. ASSUME NEW b \in Brokers, StopDetach(b) PROVE OwnerAttached'
  BY <1>19 DEF StopDetach
<1>20. ASSUME NEW b \in Brokers, Exit(b) PROVE OwnerAttached'
  BY <1>20 DEF Exit
<1>21. ASSUME NEW b \in Brokers, ListenerDrop(b) PROVE OwnerAttached'
  BY <1>21 DEF ListenerDrop
<1>22. ASSUME NEW b \in Brokers, Reconnect(b) PROVE OwnerAttached'
  BY <1>22 DEF Reconnect
<1>23. ASSUME NEW b \in Brokers, AttestWrite(b) PROVE OwnerAttached'
  BY <1>23 DEF AttestWrite, RowAfterAttest
<1>24. ASSUME NEW b \in Brokers, AttestWriteFails(b) PROVE OwnerAttached'
  BY <1>24 DEF AttestWriteFails, Fails
<1>25. ASSUME NEW b \in Brokers, NEW t \in Conns, DispatchTakeover(b, t) PROVE OwnerAttached'
  BY <1>25 DEF DispatchTakeover, Shutdown, Addressee
<1>26. ASSUME NEW b \in Brokers, NEW t \in Conns, DispatchQuota(b, t) PROVE OwnerAttached'
  BY <1>26 DEF DispatchQuota, Shutdown, Addressee
<1>27. ASSUME NEW b \in Brokers, NEW d \in Brokers, DeadBrokerLock(b, d) PROVE OwnerAttached'
  BY <1>27 DEF DeadBrokerLock
<1>28. ASSUME NEW b \in Brokers, DeadBrokerFire(b) PROVE OwnerAttached'
  BY <1>28 DEF DeadBrokerFire, Publish
<1>29. ASSUME NEW b \in Brokers, DeadBrokerFireFails(b) PROVE OwnerAttached'
  BY <1>29 DEF DeadBrokerFireFails, Fails
<1>30. ASSUME NEW b \in Brokers, DeadBrokerStep1(b) PROVE OwnerAttached'
  <2> SUFFICES ASSUME drops = 0, NEW c \in Conns, row'.token = c, up[at[c]] = "up",
                      pc[c] \in {"notify", "register", "shutprev", "cleanup", "running"}
               PROVE  row'.broker = at[c]
    BY <1>30 DEF DeadBrokerStep1, RowAfterStep1
  <2>1. jdead[b] \in Brokers /\ lock[jdead[b]] = "janitor"
    BY <1>30 DEF DeadBrokerStep1, RowAfterStep1
  <2>2. up[jdead[b]] = "gone"
    BY <2>1
  <2>3. row.token = c /\ row.broker = at[c] /\ row.broker # jdead[b]
    BY <1>30, <2>2 DEF DeadBrokerStep1, RowAfterStep1
  <2> QED
    BY <1>30, <2>3 DEF DeadBrokerStep1, RowAfterStep1
<1>31. ASSUME NEW b \in Brokers, DeadBrokerStep2(b) PROVE OwnerAttached'
  <2> SUFFICES ASSUME drops = 0, NEW c \in Conns, row'.token = c, up[at[c]] = "up",
                      pc[c] \in {"notify", "register", "shutprev", "cleanup", "running"}
               PROVE  row'.broker = at[c]
    BY <1>31 DEF DeadBrokerStep2, RowAfterStep2, DeadBrokerUnlock
  <2>1. jdead[b] \in Brokers /\ lock[jdead[b]] = "janitor"
    BY <1>31 DEF DeadBrokerStep2, RowAfterStep2, DeadBrokerUnlock
  <2>2. up[jdead[b]] = "gone"
    BY <2>1
  <2>3. row.token = c /\ row.broker = at[c] /\ row.broker # jdead[b]
    BY <1>31, <2>2 DEF DeadBrokerStep2, RowAfterStep2, DeadBrokerUnlock
  <2> QED
    BY <1>31, <2>3 DEF DeadBrokerStep2, RowAfterStep2, DeadBrokerUnlock
<1>32. ASSUME NEW b \in Brokers, DeadBrokerStepFails(b) PROVE OwnerAttached'
  BY <1>32 DEF DeadBrokerStepFails, Fails, DeadBrokerUnlock
<1>33. ASSUME NEW b \in Brokers, DueWillSelect(b) PROVE OwnerAttached'
  BY <1>33 DEF DueWillSelect, WillDue
<1>34. ASSUME NEW b \in Brokers, DueWillPublish(b) PROVE OwnerAttached'
  BY <1>34 DEF DueWillPublish, Publish
<1>35. ASSUME NEW b \in Brokers, DueWillPublishFails(b) PROVE OwnerAttached'
  BY <1>35 DEF DueWillPublishFails, Fails
<1>36. ASSUME NEW b \in Brokers, DueWillClear(b) PROVE OwnerAttached'
  BY <1>36 DEF DueWillClear
<1>37. ASSUME NEW b \in Brokers, DueWillClearFails(b) PROVE OwnerAttached'
  BY <1>37 DEF DueWillClearFails, Fails
<1>38. ASSUME NEW b \in Brokers, ExpireSession(b) PROVE OwnerAttached'
  BY <1>38 DEF ExpireSession
<1>39. ASSUME WillFallsDue PROVE OwnerAttached'
  BY <1>39 DEF WillFallsDue
<1>40. ASSUME ExpiryFallsDue PROVE OwnerAttached'
  BY <1>40 DEF ExpiryFallsDue
<1>41. ASSUME NEW c \in Conns, ShutdownPrev(c) PROVE OwnerAttached'
  BY <1>41 DEF ShutdownPrev
<1> HIDE DEF IInv, Core, TypeOK, vars, Locks, OwnerAttached
<1> QED
  BY <1>1, <1>2, <1>3, <1>4, <1>5, <1>6, <1>7, <1>8, <1>9, <1>10, <1>11, <1>12,
     <1>13, <1>14, <1>15, <1>16, <1>17, <1>18, <1>19, <1>20, <1>21, <1>22, <1>23,
     <1>24, <1>25, <1>26, <1>27, <1>28, <1>29, <1>30, <1>31, <1>32, <1>33, <1>34,
     <1>35, <1>36, <1>37, <1>38, <1>39, <1>40, <1>41
     DEF Next, ConnStep, ClientStep, SweepStep, StopStep, ListenerStep, DeadBrokerStep, DueWillStep

-----------------------------------------------------------------------------
(* The theorems.                                                           *)

\* The invariant holds initially.
LEMMA InitIInv == Init => IInv /\ Locks /\ OwnerAttached
<1> SUFFICES ASSUME Init PROVE IInv /\ Locks /\ OwnerAttached
  OBVIOUS
<1>1. TypeOK
  BY DEF Init, TypeOK, Row, NoRow, WillKinds, LifeKinds, Timer, ConnPcs
<1>2. Core
  BY DEF Init, Core, RowConsistent, RowPlaced, Placed, Fresh, Stale, OpenConnsRegistered, NoRow
<1>3. Locks /\ OwnerAttached
  BY DEF Init, Locks, OwnerAttached, NoRow
<1> QED
  BY <1>1, <1>2, <1>3 DEF IInv

\* The invariant survives a stuttering step.
LEMMA Stutter ==
    ASSUME IInv, Locks, OwnerAttached, UNCHANGED vars
    PROVE  IInv' /\ Locks' /\ OwnerAttached'
<1> USE DEF vars, connVars, podVars, lstVars, janVars, budgetVars
<1>1. TypeOK'
  BY DEF IInv, TypeOK
<1>2. Core'
  BY DEF IInv, Core, RowConsistent, RowPlaced, Placed, Fresh, Stale, OpenConnsRegistered
<1>3. Locks' /\ OwnerAttached'
  BY DEF Locks, OwnerAttached
<1> QED
  BY <1>1, <1>2, <1>3 DEF IInv

\* The invariant holds in every reachable state, for every choice of the constants.
THEOREM Invariance == Spec => [](IInv /\ Locks /\ OwnerAttached)
<1>1. Init => IInv /\ Locks /\ OwnerAttached
  BY InitIInv
<1>2. IInv /\ Locks /\ OwnerAttached /\ [Next]_vars => (IInv /\ Locks /\ OwnerAttached)'
  <2> SUFFICES ASSUME IInv, Locks, OwnerAttached, [Next]_vars
               PROVE  IInv' /\ Locks' /\ OwnerAttached'
    OBVIOUS
  <2>1. CASE Next
    <3>1. TypeOK'
      BY <2>1, TypeStep
    <3>2. IInv'
      BY <2>1, <3>1, CoreStep DEF IInv
    <3>3. Locks' /\ OwnerAttached'
      BY <2>1, <3>1, <3>2, LocksStep, AttachedStep
    <3> QED
      BY <3>2, <3>3
  <2>2. CASE UNCHANGED vars
    BY <2>2, Stutter
  <2> QED
    BY <2>1, <2>2
<1> QED
  BY <1>1, <1>2, PTL DEF Spec

\* Every variable keeps its type: rows, goroutine states, maps, locks, notices.
THEOREM TypeCorrect == Spec => []TypeOK
<1>1. IInv => TypeOK
  BY DEF IInv
<1> QED
  BY <1>1, Invariance, PTL

\* The columns connected and broker_id never disagree, whoever wrote them last.
THEOREM RowAlwaysConsistent == Spec => []RowConsistent
<1>1. IInv => RowConsistent
  BY DEF IInv, Core
<1> QED
  BY <1>1, Invariance, PTL

\* Takeover, sweep and delivery find every open socket in Engine.conns.
THEOREM OpenConnsAlwaysRegistered == Spec => []OpenConnsRegistered
<1>1. IInv => OpenConnsRegistered
  BY DEF IInv, Core
<1> QED
  BY <1>1, Invariance, PTL

\* While no listener session has dropped, nothing detaches a live owner's row.
THEOREM OwnerStaysAttached == Spec => []OwnerAttached
BY Invariance, PTL

\* A takeover NOTIFY never closes the Conn that owns the session.
THEOREM TakeoverSafe == Spec => TakeoverSparesOwner
<1> DEFINE Spares == \A b \in Brokers, t \in Conns :
                        DispatchTakeover(b, t) /\ row.token # None
                            => closing'[row.token] = closing[row.token]
<1>1. IInv => Spares
  <2> SUFFICES ASSUME IInv, NEW b \in Brokers, NEW t \in Conns,
                      DispatchTakeover(b, t), row.token # None
               PROVE  closing'[row.token] = closing[row.token]
    OBVIOUS
  <2>1. row.token \in Conns /\ t # row.token
    BY DEF IInv, Core, Stale, TypeOK, Row, NoRow, DispatchTakeover
  <2>2. row.token \notin Addressee(b, t)
    BY <2>1 DEF Addressee
  <2> QED
    BY <2>1, <2>2 DEF DispatchTakeover, Shutdown, IInv, TypeOK
<1>2. IInv => [Spares]_vars
  BY <1>1
<1> QED
  BY <1>2, Invariance, PTL DEF TakeoverSparesOwner

-----------------------------------------------------------------------------
(* Refinement.                                                             *)

\* An initial state maps to a session without an owner.
LEMMA OwnerInit == Init => Owner!Init
BY DEF Init, Owner!Init, NoRow, Ended

\* A step of the protocol, seen through the refinement mapping.
OwnerAct == Owner!Next \/ UNCHANGED Owner!avars

\* A step that leaves the row's owner alone and ends no, or some, sockets.
LEMMA OwnerFinish ==
    ASSUME row'.token = row.token, row'.broker = row.broker, UNCHANGED at,
           \A c \in Conns : c \in Ended => c \in Ended'
    PROVE  OwnerAct
<1>1. Ended' \in SUBSET Conns /\ Ended' = Ended \cup Ended'
  BY DEF Ended
<1>2. Owner!Finish(Ended')
  BY <1>1 DEF Owner!Finish
<1> QED
  BY <1>1, <1>2 DEF OwnerAct, Owner!Next

\* A step that detaches the row, or leaves it.
LEMMA OwnerDetach ==
    ASSUME row'.token = row.token, row'.broker \in {row.broker, None}, UNCHANGED at,
           Ended' = Ended
    PROVE  OwnerAct
BY DEF OwnerAct, Owner!Next, Owner!Detach, Owner!avars

\* A step that deletes the row of an owner that is ending or of a detached session.
LEMMA OwnerEnd ==
    ASSUME row' = NoRow, UNCHANGED at, Ended' = Ended,
           row.token \in Ended \/ row.broker = None
    PROVE  OwnerAct
BY DEF OwnerAct, Owner!Next, Owner!End, NoRow

\* Every step of the protocol is a step of session ownership, or invisible to it.
LEMMA OwnerStep ==
    ASSUME IInv, TypeOK', Next
    PROVE  OwnerAct
<1> USE DEF IInv, TypeOK, Row,
            vars, connVars, podVars, lstVars, janVars, budgetVars
<1>1. ASSUME NEW c \in Conns, NotifyTakeover(c) PROVE OwnerAct
  BY <1>1, OwnerFinish DEF NotifyTakeover, Ended
<1>2. ASSUME NEW c \in Conns, NotifyTakeoverFails(c) PROVE OwnerAct
  BY <1>2, OwnerFinish DEF NotifyTakeoverFails, Fails, Ended
<1>3. ASSUME NEW c \in Conns, RegisterConn(c) PROVE OwnerAct
  BY <1>3, OwnerFinish DEF RegisterConn, Ended
<1>4. ASSUME NEW c \in Conns, Cleanup(c) PROVE OwnerAct
  BY <1>4, OwnerFinish DEF Cleanup, Ended
<1>5. ASSUME NEW c \in Conns, CleanupFails(c) PROVE OwnerAct
  BY <1>5, OwnerFinish DEF CleanupFails, Fails, Return, Ended
<1>6. ASSUME NEW c \in Conns, Decide(c) PROVE OwnerAct
  BY <1>6, OwnerFinish DEF Decide, WillDecision, Ended
<1>7. ASSUME NEW c \in Conns, FireWill(c) PROVE OwnerAct
  BY <1>7, OwnerFinish DEF FireWill, Publish, Ended
<1>8. ASSUME NEW c \in Conns, FireWillFails(c) PROVE OwnerAct
  BY <1>8, OwnerFinish DEF FireWillFails, Fails, Ended
<1>9. ASSUME NEW c \in Conns, DisconnectWrite(c) PROVE OwnerAct
  <2>1. Ended' = Ended /\ UNCHANGED at /\ c \in Ended
    BY <1>9 DEF DisconnectWrite, Return, Ended
  <2>2. CASE row.token = c /\ life[c] = "clean"
    BY <1>9, <2>1, <2>2, OwnerEnd DEF DisconnectWrite, RowAfterDisconnect
  <2>3. CASE ~(row.token = c /\ life[c] = "clean")
    BY <1>9, <2>1, <2>3, OwnerDetach DEF DisconnectWrite, RowAfterDisconnect
  <2> QED
    BY <2>2, <2>3
<1>10. ASSUME NEW c \in Conns, DisconnectWriteFails(c) PROVE OwnerAct
  BY <1>10, OwnerFinish DEF DisconnectWriteFails, Fails, Return, Ended
<1>11. ASSUME NEW c \in Conns, NEW b \in Brokers, NEW w \in Wills, NEW l \in Lives, TakeOwnership(c, b, w, l) PROVE OwnerAct
  <2>1. at[c] = None /\ Ended' = Ended
    BY <1>11 DEF TakeOwnership, Previous, Ended, Core, Placed
  <2>2. row'.token = c /\ row'.broker = b /\ at' = [at EXCEPT ![c] = b]
    BY <1>11 DEF TakeOwnership, Previous
  <2>3. Owner!Claim(c, b)
    BY <2>1, <2>2 DEF Owner!Claim
  <2> QED
    BY <2>3 DEF OwnerAct, Owner!Next
<1>12. ASSUME NEW c \in Conns, ConnectionLost(c) PROVE OwnerAct
  BY <1>12, OwnerFinish DEF ConnectionLost, Ended
<1>13. ASSUME NEW c \in Conns, NEW keep \in BOOLEAN, NEW l \in Lives, GracefulDisconnect(c, keep, l) PROVE OwnerAct
  BY <1>13, OwnerFinish DEF GracefulDisconnect, Ended
<1>14. ASSUME NEW b \in Brokers, SweepQuery(b) PROVE OwnerAct
  BY <1>14, OwnerFinish DEF SweepQuery, Orphaned, Ended
<1>15. ASSUME NEW b \in Brokers, SweepClose(b) PROVE OwnerAct
  BY <1>15, OwnerFinish DEF SweepClose, Shutdown, Ended
<1>16. ASSUME NEW b \in Brokers, QuotaKick(b) PROVE OwnerAct
  BY <1>16, OwnerFinish DEF QuotaKick, Shutdown, Ended
<1>17. ASSUME NEW b \in Brokers, QuotaNotify(b) PROVE OwnerAct
  BY <1>17, OwnerFinish DEF QuotaNotify, Ended
<1>18. ASSUME NEW b \in Brokers, StopBegin(b) PROVE OwnerAct
  BY <1>18, OwnerFinish DEF StopBegin, Shutdown, Ended
<1>19. ASSUME NEW b \in Brokers, StopDetach(b) PROVE OwnerAct
  BY <1>19, OwnerDetach DEF StopDetach, Ended
<1>20. ASSUME NEW b \in Brokers, Exit(b) PROVE OwnerAct
  BY <1>20, OwnerFinish DEF Exit, Ended
<1>21. ASSUME NEW b \in Brokers, ListenerDrop(b) PROVE OwnerAct
  BY <1>21, OwnerFinish DEF ListenerDrop, Ended
<1>22. ASSUME NEW b \in Brokers, Reconnect(b) PROVE OwnerAct
  BY <1>22, OwnerFinish DEF Reconnect, Ended
<1>23. ASSUME NEW b \in Brokers, AttestWrite(b) PROVE OwnerAct
  <2>1. Ended' = Ended /\ UNCHANGED at
    BY <1>23 DEF AttestWrite, Ended
  <2>2. CASE attest[b] # None /\ row.token = attest[b]
    <3>1. row'.token = row.token /\ row'.broker = at[row.token] /\ row.token # None
      BY <1>23, <2>2 DEF AttestWrite, RowAfterAttest, Core, Placed
    <3>2. Owner!Reattach
      BY <2>1, <3>1 DEF Owner!Reattach
    <3> QED
      BY <3>2 DEF OwnerAct, Owner!Next
  <2>3. CASE ~(attest[b] # None /\ row.token = attest[b])
    BY <1>23, <2>1, <2>3, OwnerDetach DEF AttestWrite, RowAfterAttest
  <2> QED
    BY <2>2, <2>3
<1>24. ASSUME NEW b \in Brokers, AttestWriteFails(b) PROVE OwnerAct
  BY <1>24, OwnerFinish DEF AttestWriteFails, Fails, Ended
<1>25. ASSUME NEW b \in Brokers, NEW t \in Conns, DispatchTakeover(b, t) PROVE OwnerAct
  BY <1>25, OwnerFinish DEF DispatchTakeover, Shutdown, Addressee, Ended
<1>26. ASSUME NEW b \in Brokers, NEW t \in Conns, DispatchQuota(b, t) PROVE OwnerAct
  BY <1>26, OwnerFinish DEF DispatchQuota, Shutdown, Addressee, Ended
<1>27. ASSUME NEW b \in Brokers, NEW d \in Brokers, DeadBrokerLock(b, d) PROVE OwnerAct
  BY <1>27, OwnerFinish DEF DeadBrokerLock, Ended
<1>28. ASSUME NEW b \in Brokers, DeadBrokerFire(b) PROVE OwnerAct
  BY <1>28, OwnerFinish DEF DeadBrokerFire, Publish, Ended
<1>29. ASSUME NEW b \in Brokers, DeadBrokerFireFails(b) PROVE OwnerAct
  BY <1>29, OwnerFinish DEF DeadBrokerFireFails, Fails, Ended
<1>30. ASSUME NEW b \in Brokers, DeadBrokerStep1(b) PROVE OwnerAct
  BY <1>30, OwnerDetach DEF DeadBrokerStep1, RowAfterStep1, Ended
<1>31. ASSUME NEW b \in Brokers, DeadBrokerStep2(b) PROVE OwnerAct
  BY <1>31, OwnerDetach DEF DeadBrokerStep2, RowAfterStep2, DeadBrokerUnlock, Ended
<1>32. ASSUME NEW b \in Brokers, DeadBrokerStepFails(b) PROVE OwnerAct
  BY <1>32, OwnerFinish DEF DeadBrokerStepFails, Fails, DeadBrokerUnlock, Ended
<1>33. ASSUME NEW b \in Brokers, DueWillSelect(b) PROVE OwnerAct
  BY <1>33, OwnerFinish DEF DueWillSelect, WillDue, Ended
<1>34. ASSUME NEW b \in Brokers, DueWillPublish(b) PROVE OwnerAct
  BY <1>34, OwnerFinish DEF DueWillPublish, Publish, Ended
<1>35. ASSUME NEW b \in Brokers, DueWillPublishFails(b) PROVE OwnerAct
  BY <1>35, OwnerFinish DEF DueWillPublishFails, Fails, Ended
<1>36. ASSUME NEW b \in Brokers, DueWillClear(b) PROVE OwnerAct
  BY <1>36, OwnerFinish DEF DueWillClear, Ended
<1>37. ASSUME NEW b \in Brokers, DueWillClearFails(b) PROVE OwnerAct
  BY <1>37, OwnerFinish DEF DueWillClearFails, Fails, Ended
<1>38. ASSUME NEW b \in Brokers, ExpireSession(b) PROVE OwnerAct
  <2>1. row.broker = None
    BY <1>38 DEF ExpireSession, Core, RowConsistent
  <2> QED
    BY <1>38, <2>1, OwnerEnd DEF ExpireSession, Ended
<1>39. ASSUME WillFallsDue PROVE OwnerAct
  BY <1>39, OwnerFinish DEF WillFallsDue, Ended
<1>40. ASSUME ExpiryFallsDue PROVE OwnerAct
  BY <1>40, OwnerFinish DEF ExpiryFallsDue, Ended
<1>41. ASSUME NEW c \in Conns, ShutdownPrev(c) PROVE OwnerAct
  BY <1>41, OwnerFinish DEF ShutdownPrev, Ended
<1> HIDE DEF IInv, Core, TypeOK, vars, Locks, OwnerAttached
<1> QED
  BY <1>1, <1>2, <1>3, <1>4, <1>5, <1>6, <1>7, <1>8, <1>9, <1>10, <1>11, <1>12,
     <1>13, <1>14, <1>15, <1>16, <1>17, <1>18, <1>19, <1>20, <1>21, <1>22, <1>23,
     <1>24, <1>25, <1>26, <1>27, <1>28, <1>29, <1>30, <1>31, <1>32, <1>33, <1>34,
     <1>35, <1>36, <1>37, <1>38, <1>39, <1>40, <1>41
     DEF Next, ConnStep, ClientStep, SweepStep, StopStep, ListenerStep, DeadBrokerStep, DueWillStep

\* The protocol implements the abstract specification of session ownership.
THEOREM Refinement == Spec => ImplementsOwner
<1>1. Init => Owner!Init
  BY OwnerInit
<1>2. IInv /\ IInv' /\ [Next]_vars => [Owner!Next]_(Owner!avars)
  <2> SUFFICES ASSUME IInv, IInv', [Next]_vars
               PROVE  OwnerAct
    BY DEF OwnerAct
  <2>1. CASE Next
    BY <2>1, OwnerStep DEF IInv
  <2>2. CASE UNCHANGED vars
    BY <2>2 DEF vars, connVars, OwnerAct, Owner!avars, Ended
  <2> QED
    BY <2>1, <2>2
<1> QED
  BY <1>1, <1>2, Invariance, PTL DEF Spec, ImplementsOwner, Owner!Spec
=============================================================================
