------------------------- MODULE SessionsWillProofs -------------------------
(***************************************************************************)
(* Proofs about the wills in Sessions: a will is published at most once,   *)
(* and the will of a client that is connected is left alone.               *)
(***************************************************************************)
EXTENDS SessionsProofs

-----------------------------------------------------------------------------
(* The invariants.                                                         *)

\* fireDueWills holds the row from its SELECT to its end, and nobody moves will_fire_at
\* under it.
RowLocked ==
    /\ \A j \in Brokers : jpc[j] \in {"publish", "clear"} <=> rowLock = j
    /\ rowLock # None => row.fireAt = "due"

\* No goroutine of a pod outlives it.
DeadPods == \A c \in Conns : at[c] # None /\ up[at[c]] = "gone" => pc[c] = "closed"

\* The will handleDeadBroker selected is that of a Conn on the pod it works on.
Reaping ==
    \A j \in Brokers : jpc[j] = "deadfire" => jwill[j] # None /\ at[jwill[j]] = jdead[j]

\* While no listener has dropped, a running owner has no timer on its will.
Unscheduled ==
    drops = 0 => \A c \in Conns : pc[c] = "running" /\ row.token = c => row.fireAt = "null"

\* No listener session has dropped, no statement has failed, no pod has exited.
Quiet == drops = 0 /\ errs = 0 /\ \A b \in Brokers : up[b] # "gone"

\* Where the will of a Conn that opened its session may have been published: by its own
\* handleDisconnect, before it writes the row, or by the timer that this write set, and then
\* the transaction that published it has not ended or has cleared the timer.
Once(c) ==
    /\ fired[c] <= 1
    /\ pc[c] \notin {"write", "closed"} => fired[c] = 0
    /\ pc[c] = "write" /\ act[c] # "fired" => fired[c] = 0
    /\ row.token = c /\ row.fireAt # "null" => pc[c] = "closed"
    /\ row.token = c /\ row.fireAt # "null" /\ fired[c] # 0 => \E j \in Brokers : jpc[j] = "clear"

AllOnce == \A c \in Conns : /\ pc[c] = "idle" => fired[c] = 0
                            /\ prev[c].token = None => Once(c)

OnceInv == Quiet => AllOnce

-----------------------------------------------------------------------------
(* Preservation.                                                           *)

\* Every step keeps the row lock.
LEMMA RowLockedStep ==
    ASSUME IInv, RowLocked, Next
    PROVE  RowLocked'
<1> USE DEF IInv, TypeOK, RowLocked, NoRow, vars, connVars, podVars, lstVars, janVars,
            budgetVars
<1>1. ASSUME NEW c \in Conns, NotifyTakeover(c) PROVE RowLocked'
  BY <1>1 DEF NotifyTakeover
<1>2. ASSUME NEW c \in Conns, NotifyTakeoverFails(c) PROVE RowLocked'
  BY <1>2 DEF NotifyTakeoverFails, Fails
<1>3. ASSUME NEW c \in Conns, RegisterConn(c) PROVE RowLocked'
  BY <1>3 DEF RegisterConn
<1>4. ASSUME NEW c \in Conns, Cleanup(c) PROVE RowLocked'
  BY <1>4 DEF Cleanup, RowFree
<1>5. ASSUME NEW c \in Conns, CleanupFails(c) PROVE RowLocked'
  BY <1>5 DEF CleanupFails, Fails, Return
<1>6. ASSUME NEW c \in Conns, Decide(c) PROVE RowLocked'
  BY <1>6 DEF Decide, WillDecision
<1>7. ASSUME NEW c \in Conns, FireWill(c) PROVE RowLocked'
  BY <1>7 DEF FireWill, Publish
<1>8. ASSUME NEW c \in Conns, FireWillFails(c) PROVE RowLocked'
  BY <1>8 DEF FireWillFails, Fails
<1>9. ASSUME NEW c \in Conns, DisconnectWrite(c) PROVE RowLocked'
  BY <1>9 DEF DisconnectWrite, RowAfterDisconnect, Return, RowFree
<1>10. ASSUME NEW c \in Conns, DisconnectWriteFails(c) PROVE RowLocked'
  BY <1>10 DEF DisconnectWriteFails, Fails, Return
<1>11. ASSUME NEW c \in Conns, NEW b \in Brokers, NEW w \in Wills, NEW l \in Lives, TakeOwnership(c, b, w, l) PROVE RowLocked'
  BY <1>11 DEF TakeOwnership, Previous, RowFree
<1>12. ASSUME NEW c \in Conns, ConnectionLost(c) PROVE RowLocked'
  BY <1>12 DEF ConnectionLost
<1>13. ASSUME NEW c \in Conns, NEW keep \in BOOLEAN, NEW l \in Lives, GracefulDisconnect(c, keep, l) PROVE RowLocked'
  BY <1>13 DEF GracefulDisconnect
<1>14. ASSUME NEW b \in Brokers, SweepQuery(b) PROVE RowLocked'
  BY <1>14 DEF SweepQuery
<1>15. ASSUME NEW b \in Brokers, SweepClose(b) PROVE RowLocked'
  BY <1>15 DEF SweepClose, Shutdown
<1>16. ASSUME NEW b \in Brokers, QuotaKick(b) PROVE RowLocked'
  BY <1>16 DEF QuotaKick, Shutdown
<1>17. ASSUME NEW b \in Brokers, QuotaNotify(b) PROVE RowLocked'
  BY <1>17 DEF QuotaNotify
<1>18. ASSUME NEW b \in Brokers, StopBegin(b) PROVE RowLocked'
  BY <1>18 DEF StopBegin, Shutdown
<1>19. ASSUME NEW b \in Brokers, StopDetach(b) PROVE RowLocked'
  BY <1>19 DEF StopDetach, RowFree
<1>20. ASSUME NEW b \in Brokers, Exit(b) PROVE RowLocked'
  <2>1. jpc'[b] = "idle" /\ \A j \in Brokers \ {b} : jpc'[j] = jpc[j]
    BY <1>20 DEF Exit
  <2>2. row' = row /\ rowLock' = IF rowLock = b THEN None ELSE rowLock
    BY <1>20 DEF Exit
  <2> HIDE DEF IInv, TypeOK, vars, connVars, podVars, lstVars, janVars, budgetVars
  <2> QED
    BY <2>1, <2>2, BrokersAssumption
<1>21. ASSUME NEW b \in Brokers, ListenerDrop(b) PROVE RowLocked'
  BY <1>21 DEF ListenerDrop
<1>22. ASSUME NEW b \in Brokers, Reconnect(b) PROVE RowLocked'
  BY <1>22 DEF Reconnect
<1>23. ASSUME NEW b \in Brokers, AttestWrite(b) PROVE RowLocked'
  BY <1>23 DEF AttestWrite, RowAfterAttest, RowFree
<1>24. ASSUME NEW b \in Brokers, AttestWriteFails(b) PROVE RowLocked'
  BY <1>24 DEF AttestWriteFails, Fails
<1>25. ASSUME NEW b \in Brokers, NEW t \in Conns, DispatchTakeover(b, t) PROVE RowLocked'
  BY <1>25 DEF DispatchTakeover, Shutdown, Addressee
<1>26. ASSUME NEW b \in Brokers, NEW t \in Conns, DispatchQuota(b, t) PROVE RowLocked'
  BY <1>26 DEF DispatchQuota, Shutdown, Addressee
<1>27. ASSUME NEW b \in Brokers, NEW d \in Brokers, DeadBrokerLock(b, d) PROVE RowLocked'
  BY <1>27 DEF DeadBrokerLock, JanitorIdle
<1>28. ASSUME NEW b \in Brokers, DeadBrokerFire(b) PROVE RowLocked'
  BY <1>28 DEF DeadBrokerFire, Publish
<1>29. ASSUME NEW b \in Brokers, DeadBrokerFireFails(b) PROVE RowLocked'
  BY <1>29 DEF DeadBrokerFireFails, Fails
<1>30. ASSUME NEW b \in Brokers, DeadBrokerStep1(b) PROVE RowLocked'
  BY <1>30 DEF DeadBrokerStep1, RowAfterStep1, RowFree
<1>31. ASSUME NEW b \in Brokers, DeadBrokerStep2(b) PROVE RowLocked'
  BY <1>31 DEF DeadBrokerStep2, RowAfterStep2, DeadBrokerUnlock, RowFree
<1>32. ASSUME NEW b \in Brokers, DeadBrokerStepFails(b) PROVE RowLocked'
  BY <1>32 DEF DeadBrokerStepFails, Fails, DeadBrokerUnlock
<1>33. ASSUME NEW b \in Brokers, DueWillSelect(b) PROVE RowLocked'
  <2>1. jpc'[b] = "publish" /\ \A j \in Brokers \ {b} : jpc'[j] = jpc[j]
    BY <1>33 DEF DueWillSelect
  <2>2. row' = row /\ row.fireAt = "due" /\ rowLock = None /\ rowLock' = b
    BY <1>33 DEF DueWillSelect, WillDue, RowFree
  <2> HIDE DEF IInv, TypeOK, vars, connVars, podVars, lstVars, janVars, budgetVars
  <2> QED
    BY <2>1, <2>2, BrokersAssumption
<1>34. ASSUME NEW b \in Brokers, DueWillPublish(b) PROVE RowLocked'
  BY <1>34 DEF DueWillPublish, Publish
<1>35. ASSUME NEW b \in Brokers, DueWillPublishFails(b) PROVE RowLocked'
  BY <1>35 DEF DueWillPublishFails, Fails
<1>36. ASSUME NEW b \in Brokers, DueWillClear(b) PROVE RowLocked'
  <2>1. jpc'[b] = "idle" /\ \A j \in Brokers \ {b} : jpc'[j] = jpc[j]
    BY <1>36 DEF DueWillClear
  <2>2. rowLock = b /\ rowLock' = None
    BY <1>36 DEF DueWillClear
  <2> HIDE DEF IInv, TypeOK, vars, connVars, podVars, lstVars, janVars, budgetVars
  <2> QED
    BY <2>1, <2>2, BrokersAssumption
<1>37. ASSUME NEW b \in Brokers, DueWillClearFails(b) PROVE RowLocked'
  <2>1. jpc'[b] = "idle" /\ \A j \in Brokers \ {b} : jpc'[j] = jpc[j]
    BY <1>37 DEF DueWillClearFails
  <2>2. rowLock = b /\ rowLock' = None
    BY <1>37 DEF DueWillClearFails
  <2> HIDE DEF IInv, TypeOK, vars, connVars, podVars, lstVars, janVars, budgetVars
  <2> QED
    BY <2>1, <2>2, BrokersAssumption
<1>38. ASSUME NEW b \in Brokers, ExpireSession(b) PROVE RowLocked'
  BY <1>38 DEF ExpireSession, RowFree
<1>39. ASSUME WillFallsDue PROVE RowLocked'
  BY <1>39 DEF WillFallsDue
<1>40. ASSUME ExpiryFallsDue PROVE RowLocked'
  BY <1>40 DEF ExpiryFallsDue
<1>41. ASSUME NEW c \in Conns, ShutdownPrev(c) PROVE RowLocked'
  BY <1>41 DEF ShutdownPrev
<1> HIDE DEF IInv, TypeOK, RowLocked, vars
<1> QED
  BY <1>1, <1>2, <1>3, <1>4, <1>5, <1>6, <1>7, <1>8, <1>9, <1>10, <1>11, <1>12, <1>13, <1>14,
     <1>15, <1>16, <1>17, <1>18, <1>19, <1>20, <1>21, <1>22, <1>23, <1>24, <1>25, <1>26, <1>27,
     <1>28, <1>29, <1>30, <1>31, <1>32, <1>33, <1>34, <1>35, <1>36, <1>37, <1>38, <1>39, <1>40, <1>41
     DEF Next, ConnStep, ClientStep, SweepStep, StopStep, ListenerStep, DeadBrokerStep, DueWillStep

\* Every step of a pod is one of a pod that has not exited.
LEMMA DeadPodsStep ==
    ASSUME IInv, DeadPods, Next
    PROVE  DeadPods'
<1> USE DEF IInv, TypeOK, Core, Placed, DeadPods, vars, connVars, podVars, lstVars, janVars,
            budgetVars
<1>1. ASSUME NEW c \in Conns, NotifyTakeover(c) PROVE DeadPods'
  BY <1>1 DEF NotifyTakeover
<1>2. ASSUME NEW c \in Conns, NotifyTakeoverFails(c) PROVE DeadPods'
  BY <1>2 DEF NotifyTakeoverFails, Fails
<1>3. ASSUME NEW c \in Conns, RegisterConn(c) PROVE DeadPods'
  BY <1>3 DEF RegisterConn
<1>4. ASSUME NEW c \in Conns, Cleanup(c) PROVE DeadPods'
  BY <1>4 DEF Cleanup, RowFree
<1>5. ASSUME NEW c \in Conns, CleanupFails(c) PROVE DeadPods'
  BY <1>5 DEF CleanupFails, Fails, Return
<1>6. ASSUME NEW c \in Conns, Decide(c) PROVE DeadPods'
  BY <1>6 DEF Decide, WillDecision
<1>7. ASSUME NEW c \in Conns, FireWill(c) PROVE DeadPods'
  BY <1>7 DEF FireWill, Publish
<1>8. ASSUME NEW c \in Conns, FireWillFails(c) PROVE DeadPods'
  BY <1>8 DEF FireWillFails, Fails
<1>9. ASSUME NEW c \in Conns, DisconnectWrite(c) PROVE DeadPods'
  BY <1>9 DEF DisconnectWrite, RowAfterDisconnect, Return, RowFree
<1>10. ASSUME NEW c \in Conns, DisconnectWriteFails(c) PROVE DeadPods'
  BY <1>10 DEF DisconnectWriteFails, Fails, Return
<1>11. ASSUME NEW c \in Conns, NEW b \in Brokers, NEW w \in Wills, NEW l \in Lives, TakeOwnership(c, b, w, l) PROVE DeadPods'
  BY <1>11 DEF TakeOwnership, Previous, RowFree
<1>12. ASSUME NEW c \in Conns, ConnectionLost(c) PROVE DeadPods'
  BY <1>12 DEF ConnectionLost
<1>13. ASSUME NEW c \in Conns, NEW keep \in BOOLEAN, NEW l \in Lives, GracefulDisconnect(c, keep, l) PROVE DeadPods'
  BY <1>13 DEF GracefulDisconnect
<1>14. ASSUME NEW b \in Brokers, SweepQuery(b) PROVE DeadPods'
  BY <1>14 DEF SweepQuery
<1>15. ASSUME NEW b \in Brokers, SweepClose(b) PROVE DeadPods'
  BY <1>15 DEF SweepClose, Shutdown
<1>16. ASSUME NEW b \in Brokers, QuotaKick(b) PROVE DeadPods'
  BY <1>16 DEF QuotaKick, Shutdown
<1>17. ASSUME NEW b \in Brokers, QuotaNotify(b) PROVE DeadPods'
  BY <1>17 DEF QuotaNotify
<1>18. ASSUME NEW b \in Brokers, StopBegin(b) PROVE DeadPods'
  BY <1>18 DEF StopBegin, Shutdown
<1>19. ASSUME NEW b \in Brokers, StopDetach(b) PROVE DeadPods'
  BY <1>19 DEF StopDetach, RowFree
<1>20. ASSUME NEW b \in Brokers, Exit(b) PROVE DeadPods'
  BY <1>20 DEF Exit
<1>21. ASSUME NEW b \in Brokers, ListenerDrop(b) PROVE DeadPods'
  BY <1>21 DEF ListenerDrop
<1>22. ASSUME NEW b \in Brokers, Reconnect(b) PROVE DeadPods'
  BY <1>22 DEF Reconnect
<1>23. ASSUME NEW b \in Brokers, AttestWrite(b) PROVE DeadPods'
  BY <1>23 DEF AttestWrite, RowAfterAttest, RowFree
<1>24. ASSUME NEW b \in Brokers, AttestWriteFails(b) PROVE DeadPods'
  BY <1>24 DEF AttestWriteFails, Fails
<1>25. ASSUME NEW b \in Brokers, NEW t \in Conns, DispatchTakeover(b, t) PROVE DeadPods'
  BY <1>25 DEF DispatchTakeover, Shutdown, Addressee
<1>26. ASSUME NEW b \in Brokers, NEW t \in Conns, DispatchQuota(b, t) PROVE DeadPods'
  BY <1>26 DEF DispatchQuota, Shutdown, Addressee
<1>27. ASSUME NEW b \in Brokers, NEW d \in Brokers, DeadBrokerLock(b, d) PROVE DeadPods'
  BY <1>27 DEF DeadBrokerLock, JanitorIdle
<1>28. ASSUME NEW b \in Brokers, DeadBrokerFire(b) PROVE DeadPods'
  BY <1>28 DEF DeadBrokerFire, Publish
<1>29. ASSUME NEW b \in Brokers, DeadBrokerFireFails(b) PROVE DeadPods'
  BY <1>29 DEF DeadBrokerFireFails, Fails
<1>30. ASSUME NEW b \in Brokers, DeadBrokerStep1(b) PROVE DeadPods'
  BY <1>30 DEF DeadBrokerStep1, RowAfterStep1, RowFree
<1>31. ASSUME NEW b \in Brokers, DeadBrokerStep2(b) PROVE DeadPods'
  BY <1>31 DEF DeadBrokerStep2, RowAfterStep2, DeadBrokerUnlock, RowFree
<1>32. ASSUME NEW b \in Brokers, DeadBrokerStepFails(b) PROVE DeadPods'
  BY <1>32 DEF DeadBrokerStepFails, Fails, DeadBrokerUnlock
<1>33. ASSUME NEW b \in Brokers, DueWillSelect(b) PROVE DeadPods'
  BY <1>33 DEF DueWillSelect, WillDue, JanitorIdle, RowFree
<1>34. ASSUME NEW b \in Brokers, DueWillPublish(b) PROVE DeadPods'
  BY <1>34 DEF DueWillPublish, Publish
<1>35. ASSUME NEW b \in Brokers, DueWillPublishFails(b) PROVE DeadPods'
  BY <1>35 DEF DueWillPublishFails, Fails
<1>36. ASSUME NEW b \in Brokers, DueWillClear(b) PROVE DeadPods'
  BY <1>36 DEF DueWillClear
<1>37. ASSUME NEW b \in Brokers, DueWillClearFails(b) PROVE DeadPods'
  BY <1>37 DEF DueWillClearFails, Fails
<1>38. ASSUME NEW b \in Brokers, ExpireSession(b) PROVE DeadPods'
  BY <1>38 DEF ExpireSession, RowFree
<1>39. ASSUME WillFallsDue PROVE DeadPods'
  BY <1>39 DEF WillFallsDue
<1>40. ASSUME ExpiryFallsDue PROVE DeadPods'
  BY <1>40 DEF ExpiryFallsDue
<1>41. ASSUME NEW c \in Conns, ShutdownPrev(c) PROVE DeadPods'
  BY <1>41 DEF ShutdownPrev
<1> HIDE DEF IInv, TypeOK, Core, DeadPods, vars
<1> QED
  BY <1>1, <1>2, <1>3, <1>4, <1>5, <1>6, <1>7, <1>8, <1>9, <1>10, <1>11, <1>12, <1>13, <1>14,
     <1>15, <1>16, <1>17, <1>18, <1>19, <1>20, <1>21, <1>22, <1>23, <1>24, <1>25, <1>26, <1>27,
     <1>28, <1>29, <1>30, <1>31, <1>32, <1>33, <1>34, <1>35, <1>36, <1>37, <1>38, <1>39, <1>40, <1>41
     DEF Next, ConnStep, ClientStep, SweepStep, StopStep, ListenerStep, DeadBrokerStep, DueWillStep

\* handleDeadBroker keeps to its pod.
LEMMA ReapingStep ==
    ASSUME IInv, Locks, Reaping, Next
    PROVE  Reaping'
<1> USE DEF IInv, TypeOK, Core, Placed, RowPlaced, Locks, Reaping, vars, connVars, podVars,
            lstVars, janVars, budgetVars
<1>1. ASSUME NEW c \in Conns, NotifyTakeover(c) PROVE Reaping'
  BY <1>1 DEF NotifyTakeover
<1>2. ASSUME NEW c \in Conns, NotifyTakeoverFails(c) PROVE Reaping'
  BY <1>2 DEF NotifyTakeoverFails, Fails
<1>3. ASSUME NEW c \in Conns, RegisterConn(c) PROVE Reaping'
  BY <1>3 DEF RegisterConn
<1>4. ASSUME NEW c \in Conns, Cleanup(c) PROVE Reaping'
  BY <1>4 DEF Cleanup, RowFree
<1>5. ASSUME NEW c \in Conns, CleanupFails(c) PROVE Reaping'
  BY <1>5 DEF CleanupFails, Fails, Return
<1>6. ASSUME NEW c \in Conns, Decide(c) PROVE Reaping'
  BY <1>6 DEF Decide, WillDecision
<1>7. ASSUME NEW c \in Conns, FireWill(c) PROVE Reaping'
  BY <1>7 DEF FireWill, Publish
<1>8. ASSUME NEW c \in Conns, FireWillFails(c) PROVE Reaping'
  BY <1>8 DEF FireWillFails, Fails
<1>9. ASSUME NEW c \in Conns, DisconnectWrite(c) PROVE Reaping'
  BY <1>9 DEF DisconnectWrite, RowAfterDisconnect, Return, RowFree
<1>10. ASSUME NEW c \in Conns, DisconnectWriteFails(c) PROVE Reaping'
  BY <1>10 DEF DisconnectWriteFails, Fails, Return
<1>11. ASSUME NEW c \in Conns, NEW b \in Brokers, NEW w \in Wills, NEW l \in Lives, TakeOwnership(c, b, w, l) PROVE Reaping'
  BY <1>11 DEF TakeOwnership, Previous, RowFree
<1>12. ASSUME NEW c \in Conns, ConnectionLost(c) PROVE Reaping'
  BY <1>12 DEF ConnectionLost
<1>13. ASSUME NEW c \in Conns, NEW keep \in BOOLEAN, NEW l \in Lives, GracefulDisconnect(c, keep, l) PROVE Reaping'
  BY <1>13 DEF GracefulDisconnect
<1>14. ASSUME NEW b \in Brokers, SweepQuery(b) PROVE Reaping'
  BY <1>14 DEF SweepQuery
<1>15. ASSUME NEW b \in Brokers, SweepClose(b) PROVE Reaping'
  BY <1>15 DEF SweepClose, Shutdown
<1>16. ASSUME NEW b \in Brokers, QuotaKick(b) PROVE Reaping'
  BY <1>16 DEF QuotaKick, Shutdown
<1>17. ASSUME NEW b \in Brokers, QuotaNotify(b) PROVE Reaping'
  BY <1>17 DEF QuotaNotify
<1>18. ASSUME NEW b \in Brokers, StopBegin(b) PROVE Reaping'
  BY <1>18 DEF StopBegin, Shutdown
<1>19. ASSUME NEW b \in Brokers, StopDetach(b) PROVE Reaping'
  BY <1>19 DEF StopDetach, RowFree
<1>20. ASSUME NEW b \in Brokers, Exit(b) PROVE Reaping'
  BY <1>20 DEF Exit
<1>21. ASSUME NEW b \in Brokers, ListenerDrop(b) PROVE Reaping'
  BY <1>21 DEF ListenerDrop
<1>22. ASSUME NEW b \in Brokers, Reconnect(b) PROVE Reaping'
  BY <1>22 DEF Reconnect
<1>23. ASSUME NEW b \in Brokers, AttestWrite(b) PROVE Reaping'
  BY <1>23 DEF AttestWrite, RowAfterAttest, RowFree
<1>24. ASSUME NEW b \in Brokers, AttestWriteFails(b) PROVE Reaping'
  BY <1>24 DEF AttestWriteFails, Fails
<1>25. ASSUME NEW b \in Brokers, NEW t \in Conns, DispatchTakeover(b, t) PROVE Reaping'
  BY <1>25 DEF DispatchTakeover, Shutdown, Addressee
<1>26. ASSUME NEW b \in Brokers, NEW t \in Conns, DispatchQuota(b, t) PROVE Reaping'
  BY <1>26 DEF DispatchQuota, Shutdown, Addressee
<1>27. ASSUME NEW b \in Brokers, NEW d \in Brokers, DeadBrokerLock(b, d) PROVE Reaping'
  <2> DEFINE w == IF row.will = "now" THEN row.token ELSE None
  <2>1. jwill' = [jwill EXCEPT ![b] = w] /\ jdead' = [jdead EXCEPT ![b] = d] /\ at' = at
    BY <1>27 DEF DeadBrokerLock
  <2>2. jpc' = [jpc EXCEPT ![b] = IF w = None THEN "step1" ELSE "deadfire"]
    BY <1>27 DEF DeadBrokerLock
  <2>3. w # None => at[w] = d
    <3>1. row.broker = d
      BY <1>27 DEF DeadBrokerLock
    <3>2. d # None
      BY BrokersAssumption
    <3> QED
      BY <3>1, <3>2
  <2> HIDE DEF w
  <2>4. \A j \in Brokers \ {b} : jpc'[j] = jpc[j] /\ jwill'[j] = jwill[j] /\ jdead'[j] = jdead[j]
    BY <2>1, <2>2
  <2>5. jwill'[b] = w /\ jdead'[b] = d /\ jpc'[b] = IF w = None THEN "step1" ELSE "deadfire"
    BY <2>1, <2>2
  <2> QED
    BY <2>1, <2>3, <2>4, <2>5
<1>28. ASSUME NEW b \in Brokers, DeadBrokerFire(b) PROVE Reaping'
  BY <1>28 DEF DeadBrokerFire, Publish
<1>29. ASSUME NEW b \in Brokers, DeadBrokerFireFails(b) PROVE Reaping'
  BY <1>29 DEF DeadBrokerFireFails, Fails
<1>30. ASSUME NEW b \in Brokers, DeadBrokerStep1(b) PROVE Reaping'
  BY <1>30 DEF DeadBrokerStep1, RowAfterStep1, RowFree
<1>31. ASSUME NEW b \in Brokers, DeadBrokerStep2(b) PROVE Reaping'
  BY <1>31 DEF DeadBrokerStep2, RowAfterStep2, DeadBrokerUnlock, RowFree
<1>32. ASSUME NEW b \in Brokers, DeadBrokerStepFails(b) PROVE Reaping'
  BY <1>32 DEF DeadBrokerStepFails, Fails, DeadBrokerUnlock
<1>33. ASSUME NEW b \in Brokers, DueWillSelect(b) PROVE Reaping'
  BY <1>33 DEF DueWillSelect, WillDue, JanitorIdle, RowFree
<1>34. ASSUME NEW b \in Brokers, DueWillPublish(b) PROVE Reaping'
  BY <1>34 DEF DueWillPublish, Publish
<1>35. ASSUME NEW b \in Brokers, DueWillPublishFails(b) PROVE Reaping'
  BY <1>35 DEF DueWillPublishFails, Fails
<1>36. ASSUME NEW b \in Brokers, DueWillClear(b) PROVE Reaping'
  BY <1>36 DEF DueWillClear
<1>37. ASSUME NEW b \in Brokers, DueWillClearFails(b) PROVE Reaping'
  BY <1>37 DEF DueWillClearFails, Fails
<1>38. ASSUME NEW b \in Brokers, ExpireSession(b) PROVE Reaping'
  BY <1>38 DEF ExpireSession, RowFree
<1>39. ASSUME WillFallsDue PROVE Reaping'
  BY <1>39 DEF WillFallsDue
<1>40. ASSUME ExpiryFallsDue PROVE Reaping'
  BY <1>40 DEF ExpiryFallsDue
<1>41. ASSUME NEW c \in Conns, ShutdownPrev(c) PROVE Reaping'
  BY <1>41 DEF ShutdownPrev
<1> HIDE DEF IInv, TypeOK, Core, Locks, Reaping, vars
<1> QED
  BY <1>1, <1>2, <1>3, <1>4, <1>5, <1>6, <1>7, <1>8, <1>9, <1>10, <1>11, <1>12, <1>13, <1>14,
     <1>15, <1>16, <1>17, <1>18, <1>19, <1>20, <1>21, <1>22, <1>23, <1>24, <1>25, <1>26, <1>27,
     <1>28, <1>29, <1>30, <1>31, <1>32, <1>33, <1>34, <1>35, <1>36, <1>37, <1>38, <1>39, <1>40, <1>41
     DEF Next, ConnStep, ClientStep, SweepStep, StopStep, ListenerStep, DeadBrokerStep, DueWillStep

\* Only handleDisconnect and handleDeadBroker set the timer, and not for a running owner.
LEMMA UnscheduledStep ==
    ASSUME IInv, Locks, DeadPods, RowLocked, Unscheduled, Next
    PROVE  Unscheduled'
<1> USE DEF IInv, TypeOK, Core, Placed, RowPlaced, Fresh, Locks, DeadPods, Unscheduled, NoRow,
            vars, connVars, podVars, lstVars, janVars, budgetVars
<1>1. ASSUME NEW c \in Conns, NotifyTakeover(c) PROVE Unscheduled'
  BY <1>1 DEF NotifyTakeover
<1>2. ASSUME NEW c \in Conns, NotifyTakeoverFails(c) PROVE Unscheduled'
  BY <1>2 DEF NotifyTakeoverFails, Fails
<1>3. ASSUME NEW c \in Conns, RegisterConn(c) PROVE Unscheduled'
  BY <1>3 DEF RegisterConn
<1>4. ASSUME NEW c \in Conns, Cleanup(c) PROVE Unscheduled'
  BY <1>4 DEF Cleanup, RowFree
<1>5. ASSUME NEW c \in Conns, CleanupFails(c) PROVE Unscheduled'
  BY <1>5 DEF CleanupFails, Fails, Return
<1>6. ASSUME NEW c \in Conns, Decide(c) PROVE Unscheduled'
  BY <1>6 DEF Decide, WillDecision
<1>7. ASSUME NEW c \in Conns, FireWill(c) PROVE Unscheduled'
  BY <1>7 DEF FireWill, Publish
<1>8. ASSUME NEW c \in Conns, FireWillFails(c) PROVE Unscheduled'
  BY <1>8 DEF FireWillFails, Fails
<1>9. ASSUME NEW c \in Conns, DisconnectWrite(c) PROVE Unscheduled'
  BY <1>9 DEF DisconnectWrite, RowAfterDisconnect, Return, RowFree
<1>10. ASSUME NEW c \in Conns, DisconnectWriteFails(c) PROVE Unscheduled'
  BY <1>10 DEF DisconnectWriteFails, Fails, Return
<1>11. ASSUME NEW c \in Conns, NEW b \in Brokers, NEW w \in Wills, NEW l \in Lives, TakeOwnership(c, b, w, l) PROVE Unscheduled'
  BY <1>11 DEF TakeOwnership, Previous, RowFree
<1>12. ASSUME NEW c \in Conns, ConnectionLost(c) PROVE Unscheduled'
  BY <1>12 DEF ConnectionLost
<1>13. ASSUME NEW c \in Conns, NEW keep \in BOOLEAN, NEW l \in Lives, GracefulDisconnect(c, keep, l) PROVE Unscheduled'
  BY <1>13 DEF GracefulDisconnect
<1>14. ASSUME NEW b \in Brokers, SweepQuery(b) PROVE Unscheduled'
  BY <1>14 DEF SweepQuery
<1>15. ASSUME NEW b \in Brokers, SweepClose(b) PROVE Unscheduled'
  BY <1>15 DEF SweepClose, Shutdown
<1>16. ASSUME NEW b \in Brokers, QuotaKick(b) PROVE Unscheduled'
  BY <1>16 DEF QuotaKick, Shutdown
<1>17. ASSUME NEW b \in Brokers, QuotaNotify(b) PROVE Unscheduled'
  BY <1>17 DEF QuotaNotify
<1>18. ASSUME NEW b \in Brokers, StopBegin(b) PROVE Unscheduled'
  BY <1>18 DEF StopBegin, Shutdown
<1>19. ASSUME NEW b \in Brokers, StopDetach(b) PROVE Unscheduled'
  BY <1>19 DEF StopDetach, RowFree
<1>20. ASSUME NEW b \in Brokers, Exit(b) PROVE Unscheduled'
  BY <1>20 DEF Exit
<1>21. ASSUME NEW b \in Brokers, ListenerDrop(b) PROVE Unscheduled'
  BY <1>21 DEF ListenerDrop
<1>22. ASSUME NEW b \in Brokers, Reconnect(b) PROVE Unscheduled'
  BY <1>22 DEF Reconnect
<1>23. ASSUME NEW b \in Brokers, AttestWrite(b) PROVE Unscheduled'
  BY <1>23 DEF AttestWrite, RowAfterAttest, RowFree
<1>24. ASSUME NEW b \in Brokers, AttestWriteFails(b) PROVE Unscheduled'
  BY <1>24 DEF AttestWriteFails, Fails
<1>25. ASSUME NEW b \in Brokers, NEW t \in Conns, DispatchTakeover(b, t) PROVE Unscheduled'
  BY <1>25 DEF DispatchTakeover, Shutdown, Addressee
<1>26. ASSUME NEW b \in Brokers, NEW t \in Conns, DispatchQuota(b, t) PROVE Unscheduled'
  BY <1>26 DEF DispatchQuota, Shutdown, Addressee
<1>27. ASSUME NEW b \in Brokers, NEW d \in Brokers, DeadBrokerLock(b, d) PROVE Unscheduled'
  BY <1>27 DEF DeadBrokerLock, JanitorIdle
<1>28. ASSUME NEW b \in Brokers, DeadBrokerFire(b) PROVE Unscheduled'
  BY <1>28 DEF DeadBrokerFire, Publish
<1>29. ASSUME NEW b \in Brokers, DeadBrokerFireFails(b) PROVE Unscheduled'
  BY <1>29 DEF DeadBrokerFireFails, Fails
<1>30. ASSUME NEW b \in Brokers, DeadBrokerStep1(b) PROVE Unscheduled'
  BY <1>30 DEF DeadBrokerStep1, RowAfterStep1, RowFree
<1>31. ASSUME NEW b \in Brokers, DeadBrokerStep2(b) PROVE Unscheduled'
  BY <1>31 DEF DeadBrokerStep2, RowAfterStep2, DeadBrokerUnlock, RowFree
<1>32. ASSUME NEW b \in Brokers, DeadBrokerStepFails(b) PROVE Unscheduled'
  BY <1>32 DEF DeadBrokerStepFails, Fails, DeadBrokerUnlock
<1>33. ASSUME NEW b \in Brokers, DueWillSelect(b) PROVE Unscheduled'
  BY <1>33 DEF DueWillSelect, WillDue, JanitorIdle, RowFree
<1>34. ASSUME NEW b \in Brokers, DueWillPublish(b) PROVE Unscheduled'
  BY <1>34 DEF DueWillPublish, Publish
<1>35. ASSUME NEW b \in Brokers, DueWillPublishFails(b) PROVE Unscheduled'
  BY <1>35 DEF DueWillPublishFails, Fails
<1>36. ASSUME NEW b \in Brokers, DueWillClear(b) PROVE Unscheduled'
  BY <1>36 DEF DueWillClear
<1>37. ASSUME NEW b \in Brokers, DueWillClearFails(b) PROVE Unscheduled'
  BY <1>37 DEF DueWillClearFails, Fails
<1>38. ASSUME NEW b \in Brokers, ExpireSession(b) PROVE Unscheduled'
  BY <1>38 DEF ExpireSession, RowFree
<1>39. ASSUME WillFallsDue PROVE Unscheduled'
  BY <1>39 DEF WillFallsDue
<1>40. ASSUME ExpiryFallsDue PROVE Unscheduled'
  BY <1>40 DEF ExpiryFallsDue
<1>41. ASSUME NEW c \in Conns, ShutdownPrev(c) PROVE Unscheduled'
  BY <1>41 DEF ShutdownPrev
<1> HIDE DEF IInv, TypeOK, Core, Locks, DeadPods, Unscheduled, vars
<1> QED
  BY <1>1, <1>2, <1>3, <1>4, <1>5, <1>6, <1>7, <1>8, <1>9, <1>10, <1>11, <1>12, <1>13, <1>14,
     <1>15, <1>16, <1>17, <1>18, <1>19, <1>20, <1>21, <1>22, <1>23, <1>24, <1>25, <1>26, <1>27,
     <1>28, <1>29, <1>30, <1>31, <1>32, <1>33, <1>34, <1>35, <1>36, <1>37, <1>38, <1>39, <1>40, <1>41
     DEF Next, ConnStep, ClientStep, SweepStep, StopStep, ListenerStep, DeadBrokerStep, DueWillStep

\* The janitor that works on the row holds it.
LEMMA LockHolder ==
    ASSUME RowLocked, NEW j \in Brokers, jpc[j] \in {"publish", "clear"}
    PROVE  rowLock = j /\ row.fireAt = "due"
BY BrokersAssumption DEF RowLocked

\* Each publication of a will uses up the chance of the other.
LEMMA OnceStep ==
    ASSUME IInv, Locks, RowLocked, OnceInv, Next
    PROVE  OnceInv'
<1> USE DEF IInv, TypeOK, Core, Placed, Fresh, Locks, RowLocked, OnceInv, AllOnce, Once, Quiet,
            Row, NoRow, vars, connVars, podVars, lstVars, janVars, budgetVars
<1>1. ASSUME NEW c \in Conns, NotifyTakeover(c) PROVE OnceInv'
  BY <1>1 DEF NotifyTakeover
<1>2. ASSUME NEW c \in Conns, NotifyTakeoverFails(c) PROVE OnceInv'
  BY <1>2 DEF NotifyTakeoverFails, Fails
<1>3. ASSUME NEW c \in Conns, RegisterConn(c) PROVE OnceInv'
  BY <1>3 DEF RegisterConn
<1>4. ASSUME NEW c \in Conns, Cleanup(c) PROVE OnceInv'
  BY <1>4 DEF Cleanup, RowFree
<1>5. ASSUME NEW c \in Conns, CleanupFails(c) PROVE OnceInv'
  BY <1>5 DEF CleanupFails, Fails, Return
<1>6. ASSUME NEW c \in Conns, Decide(c) PROVE OnceInv'
  BY <1>6 DEF Decide, WillDecision
<1>7. ASSUME NEW c \in Conns, FireWill(c) PROVE OnceInv'
  BY <1>7 DEF FireWill, Publish
<1>8. ASSUME NEW c \in Conns, FireWillFails(c) PROVE OnceInv'
  BY <1>8 DEF FireWillFails, Fails
<1>9. ASSUME NEW c \in Conns, DisconnectWrite(c) PROVE OnceInv'
  BY <1>9 DEF DisconnectWrite, RowAfterDisconnect, Return, RowFree
<1>10. ASSUME NEW c \in Conns, DisconnectWriteFails(c) PROVE OnceInv'
  BY <1>10 DEF DisconnectWriteFails, Fails, Return
<1>11. ASSUME NEW c \in Conns, NEW b \in Brokers, NEW w \in Wills, NEW l \in Lives, TakeOwnership(c, b, w, l) PROVE OnceInv'
  <2>1. row'.token = c /\ row'.fireAt = row.fireAt
    <3>1. row' = [broker |-> b, connected |-> TRUE, token |-> c, will |-> w,
                  fireAt |-> row.fireAt, expAt |-> row.expAt]
      BY <1>11 DEF TakeOwnership, Previous
    <3> QED
      BY <3>1
  <2>2. /\ pc[c] = "idle" /\ pc'[c] \in {"register", "notify"} /\ prev'[c].token = row.token
        /\ \A d \in Conns \ {c} : pc'[d] = pc[d] /\ prev'[d] = prev[d]
    BY <1>11 DEF TakeOwnership, Previous
  <2>3. UNCHANGED <<fired, drops, errs, up, jpc, act>>
    BY <1>11 DEF TakeOwnership, Previous
  <2>4. row.token = None => row.fireAt = "null"
    <3>1. row \in Row => row.token \in Conns
      BY DEF Row
    <3>2. row \in Row \cup {NoRow}
      OBVIOUS
    <3> QED
      BY <3>1, <3>2, ConnsAssumption DEF NoRow
  <2> QED
    BY <2>1, <2>2, <2>3, <2>4
<1>12. ASSUME NEW c \in Conns, ConnectionLost(c) PROVE OnceInv'
  BY <1>12 DEF ConnectionLost
<1>13. ASSUME NEW c \in Conns, NEW keep \in BOOLEAN, NEW l \in Lives, GracefulDisconnect(c, keep, l) PROVE OnceInv'
  BY <1>13 DEF GracefulDisconnect
<1>14. ASSUME NEW b \in Brokers, SweepQuery(b) PROVE OnceInv'
  BY <1>14 DEF SweepQuery
<1>15. ASSUME NEW b \in Brokers, SweepClose(b) PROVE OnceInv'
  BY <1>15 DEF SweepClose, Shutdown
<1>16. ASSUME NEW b \in Brokers, QuotaKick(b) PROVE OnceInv'
  BY <1>16 DEF QuotaKick, Shutdown
<1>17. ASSUME NEW b \in Brokers, QuotaNotify(b) PROVE OnceInv'
  BY <1>17 DEF QuotaNotify
<1>18. ASSUME NEW b \in Brokers, StopBegin(b) PROVE OnceInv'
  BY <1>18 DEF StopBegin, Shutdown
<1>19. ASSUME NEW b \in Brokers, StopDetach(b) PROVE OnceInv'
  BY <1>19 DEF StopDetach, RowFree
<1>20. ASSUME NEW b \in Brokers, Exit(b) PROVE OnceInv'
  BY <1>20 DEF Exit
<1>21. ASSUME NEW b \in Brokers, ListenerDrop(b) PROVE OnceInv'
  BY <1>21 DEF ListenerDrop
<1>22. ASSUME NEW b \in Brokers, Reconnect(b) PROVE OnceInv'
  BY <1>22 DEF Reconnect
<1>23. ASSUME NEW b \in Brokers, AttestWrite(b) PROVE OnceInv'
  BY <1>23 DEF AttestWrite, RowAfterAttest, RowFree
<1>24. ASSUME NEW b \in Brokers, AttestWriteFails(b) PROVE OnceInv'
  BY <1>24 DEF AttestWriteFails, Fails
<1>25. ASSUME NEW b \in Brokers, NEW t \in Conns, DispatchTakeover(b, t) PROVE OnceInv'
  BY <1>25 DEF DispatchTakeover, Shutdown, Addressee
<1>26. ASSUME NEW b \in Brokers, NEW t \in Conns, DispatchQuota(b, t) PROVE OnceInv'
  BY <1>26 DEF DispatchQuota, Shutdown, Addressee
<1>27. ASSUME NEW b \in Brokers, NEW d \in Brokers, DeadBrokerLock(b, d) PROVE OnceInv'
  BY <1>27 DEF DeadBrokerLock, JanitorIdle
<1>28. ASSUME NEW b \in Brokers, DeadBrokerFire(b) PROVE OnceInv'
  BY <1>28 DEF DeadBrokerFire, Publish
<1>29. ASSUME NEW b \in Brokers, DeadBrokerFireFails(b) PROVE OnceInv'
  BY <1>29 DEF DeadBrokerFireFails, Fails
<1>30. ASSUME NEW b \in Brokers, DeadBrokerStep1(b) PROVE OnceInv'
  BY <1>30 DEF DeadBrokerStep1, RowAfterStep1, RowFree
<1>31. ASSUME NEW b \in Brokers, DeadBrokerStep2(b) PROVE OnceInv'
  BY <1>31 DEF DeadBrokerStep2, RowAfterStep2, DeadBrokerUnlock, RowFree
<1>32. ASSUME NEW b \in Brokers, DeadBrokerStepFails(b) PROVE OnceInv'
  BY <1>32 DEF DeadBrokerStepFails, Fails, DeadBrokerUnlock
<1>33. ASSUME NEW b \in Brokers, DueWillSelect(b) PROVE OnceInv'
  BY <1>33 DEF DueWillSelect, WillDue, JanitorIdle, RowFree
<1>34. ASSUME NEW b \in Brokers, DueWillPublish(b) PROVE OnceInv'
  <2> HIDE DEF Quiet, AllOnce
  <2> SUFFICES ASSUME Quiet' PROVE AllOnce'
    BY DEF OnceInv
  <2> USE DEF Quiet, AllOnce
  <2>1. /\ jpc[b] = "publish" /\ jpc'[b] = "clear"
        /\ UNCHANGED <<row, pc, prev, act>>
    BY <1>34 DEF DueWillPublish
  <2>2. rowLock = b /\ row.fireAt = "due"
    BY <2>1, LockHolder
  <2>3. Quiet
    BY <1>34 DEF DueWillPublish, Quiet
  <2>4. fired' = [d \in Conns |-> IF d = row.token /\ fired[d] < 2 THEN fired[d] + 1 ELSE fired[d]]
    BY <1>34 DEF DueWillPublish, Publish
  <2>5. \A d \in Conns : d # row.token => fired'[d] = fired[d]
    BY <2>4
  <2>6. \A j \in Brokers : jpc[j] # "clear"
    <3>1. \A j \in Brokers : jpc[j] = "clear" => j = b
      BY <2>2, LockHolder
    <3> QED
      BY <2>1, <3>1
  <2>7. \A d \in Conns : d = row.token => pc[d] # "idle"
    OBVIOUS
  <2>8. \A d \in Conns : d = row.token /\ prev[d].token = None => fired[d] = 0 /\ pc[d] = "closed"
    BY <2>1, <2>6, <2>3, <2>2
  <2>9. \A d \in Conns : d = row.token /\ prev[d].token = None => fired'[d] = 1
    BY <2>4, <2>8
  <2> QED
    BY <2>1, <2>5, <2>7, <2>8, <2>9, <2>3, <2>2
<1>35. ASSUME NEW b \in Brokers, DueWillPublishFails(b) PROVE OnceInv'
  BY <1>35 DEF DueWillPublishFails, Fails
<1>36. ASSUME NEW b \in Brokers, DueWillClear(b) PROVE OnceInv'
  BY <1>36 DEF DueWillClear
<1>37. ASSUME NEW b \in Brokers, DueWillClearFails(b) PROVE OnceInv'
  BY <1>37 DEF DueWillClearFails, Fails
<1>38. ASSUME NEW b \in Brokers, ExpireSession(b) PROVE OnceInv'
  BY <1>38 DEF ExpireSession, RowFree
<1>39. ASSUME WillFallsDue PROVE OnceInv'
  BY <1>39 DEF WillFallsDue
<1>40. ASSUME ExpiryFallsDue PROVE OnceInv'
  BY <1>40 DEF ExpiryFallsDue
<1>41. ASSUME NEW c \in Conns, ShutdownPrev(c) PROVE OnceInv'
  BY <1>41 DEF ShutdownPrev
<1> HIDE DEF IInv, TypeOK, Core, Locks, OnceInv, RowLocked, vars
<1> QED
  BY <1>1, <1>2, <1>3, <1>4, <1>5, <1>6, <1>7, <1>8, <1>9, <1>10, <1>11, <1>12, <1>13, <1>14,
     <1>15, <1>16, <1>17, <1>18, <1>19, <1>20, <1>21, <1>22, <1>23, <1>24, <1>25, <1>26, <1>27,
     <1>28, <1>29, <1>30, <1>31, <1>32, <1>33, <1>34, <1>35, <1>36, <1>37, <1>38, <1>39, <1>40, <1>41
     DEF Next, ConnStep, ClientStep, SweepStep, StopStep, ListenerStep, DeadBrokerStep, DueWillStep

-----------------------------------------------------------------------------
(* The theorems.                                                           *)

WillInv == RowLocked /\ DeadPods /\ Reaping /\ Unscheduled /\ OnceInv

LEMMA WillInit == Init => WillInv
<1> SUFFICES ASSUME Init PROVE WillInv
  OBVIOUS
<1>1. RowLocked
  BY BrokersAssumption DEF Init, RowLocked
<1>3. DeadPods /\ Reaping /\ Unscheduled
  BY DEF Init, DeadPods, Reaping, Unscheduled, NoRow
<1>2. OnceInv
  BY DEF Init, OnceInv, AllOnce, Once, NoRow
<1> QED
  BY <1>1, <1>2, <1>3 DEF WillInv

LEMMA WillStep == IInv /\ Locks /\ WillInv /\ [Next]_vars => WillInv'
<1> SUFFICES ASSUME IInv, Locks, WillInv, [Next]_vars PROVE WillInv'
  OBVIOUS
<1>1. CASE Next
  BY <1>1, RowLockedStep, DeadPodsStep, ReapingStep, UnscheduledStep, OnceStep DEF WillInv
<1>2. CASE UNCHANGED vars
  <2> USE <1>2 DEF vars, connVars, podVars, lstVars, janVars, budgetVars, WillInv
  <2>1. RowLocked' /\ DeadPods' /\ Reaping' /\ Unscheduled'
    BY DEF RowLocked, DeadPods, Reaping, Unscheduled
  <2>2. OnceInv'
    BY DEF OnceInv, AllOnce, Once, Quiet
  <2> QED
    BY <2>1, <2>2
<1> QED
  BY <1>1, <1>2

\* What the will theorems rest on holds in every reachable state.
THEOREM WillInvariance == Spec => []WillInv
<1>1. IInv /\ Locks /\ WillInv /\ [Next]_vars => WillInv'
  BY WillStep
<1> QED
  BY <1>1, WillInit, Invariance, PTL DEF Spec

\* handleDisconnect and the fireDueWills of all pods publish the will of a Conn that opened
\* a new session at most once.
THEOREM WillAlwaysAtMostOnce == Spec => []WillAtMostOnce
<1>1. WillInv => WillAtMostOnce
  BY DEF WillInv, OnceInv, AllOnce, Once, Quiet, WillAtMostOnce
<1> QED
  BY <1>1, WillInvariance, PTL

\* A step leaves the will of a running owner in the row and unpublished.
KeepsWill(c) ==
    /\ pc[c] = "running" /\ pc'[c] = "running" /\ row.token = c /\ row'.token = c
    => row'.will = row.will /\ fired'[c] = fired[c]

\* While no listener has dropped, handleDeadBroker works on a pod without running sockets.
LEMMA ReapedIsGone ==
    ASSUME IInv, Locks, DeadPods, drops = 0, NEW b \in Brokers, jdead[b] # None,
           NEW o \in Conns, pc[o] = "running"
    PROVE  at[o] \in Brokers /\ at[o] # jdead[b]
<1>1. at[o] \in Brokers
  BY DEF IInv, TypeOK, Core, Placed
<1>2. up[at[o]] # "gone"
  BY <1>1, BrokersAssumption DEF DeadPods
<1>3. lock[at[o]] = "own" /\ lock[jdead[b]] = "janitor"
  BY <1>1, <1>2 DEF Locks
<1> QED
  BY <1>1, <1>3

\* While no listener has dropped, only handleDisconnect publishes or takes out the will of an owner.
LEMMA KeepsWillStep ==
    ASSUME IInv, Locks, WillInv, drops = 0, NEW o \in Conns, Next
    PROVE  KeepsWill(o)
<1> USE DEF IInv, TypeOK, Core, Placed, RowPlaced, Fresh, Locks, WillInv, RowLocked, DeadPods,
            Reaping, Unscheduled, NoRow, KeepsWill, vars, connVars, podVars, lstVars, janVars,
            budgetVars
<1>1. ASSUME NEW c \in Conns, NotifyTakeover(c) PROVE KeepsWill(o)
  BY <1>1 DEF NotifyTakeover
<1>2. ASSUME NEW c \in Conns, NotifyTakeoverFails(c) PROVE KeepsWill(o)
  BY <1>2 DEF NotifyTakeoverFails, Fails
<1>3. ASSUME NEW c \in Conns, RegisterConn(c) PROVE KeepsWill(o)
  BY <1>3 DEF RegisterConn
<1>4. ASSUME NEW c \in Conns, Cleanup(c) PROVE KeepsWill(o)
  BY <1>4 DEF Cleanup, RowFree
<1>5. ASSUME NEW c \in Conns, CleanupFails(c) PROVE KeepsWill(o)
  BY <1>5 DEF CleanupFails, Fails, Return
<1>6. ASSUME NEW c \in Conns, Decide(c) PROVE KeepsWill(o)
  BY <1>6 DEF Decide, WillDecision
<1>7. ASSUME NEW c \in Conns, FireWill(c) PROVE KeepsWill(o)
  BY <1>7 DEF FireWill, Publish
<1>8. ASSUME NEW c \in Conns, FireWillFails(c) PROVE KeepsWill(o)
  BY <1>8 DEF FireWillFails, Fails
<1>9. ASSUME NEW c \in Conns, DisconnectWrite(c) PROVE KeepsWill(o)
  BY <1>9 DEF DisconnectWrite, RowAfterDisconnect, Return, RowFree
<1>10. ASSUME NEW c \in Conns, DisconnectWriteFails(c) PROVE KeepsWill(o)
  BY <1>10 DEF DisconnectWriteFails, Fails, Return
<1>11. ASSUME NEW c \in Conns, NEW b \in Brokers, NEW w \in Wills, NEW l \in Lives, TakeOwnership(c, b, w, l) PROVE KeepsWill(o)
  BY <1>11 DEF TakeOwnership, Previous, RowFree
<1>12. ASSUME NEW c \in Conns, ConnectionLost(c) PROVE KeepsWill(o)
  BY <1>12 DEF ConnectionLost
<1>13. ASSUME NEW c \in Conns, NEW keep \in BOOLEAN, NEW l \in Lives, GracefulDisconnect(c, keep, l) PROVE KeepsWill(o)
  BY <1>13 DEF GracefulDisconnect
<1>14. ASSUME NEW b \in Brokers, SweepQuery(b) PROVE KeepsWill(o)
  BY <1>14 DEF SweepQuery
<1>15. ASSUME NEW b \in Brokers, SweepClose(b) PROVE KeepsWill(o)
  BY <1>15 DEF SweepClose, Shutdown
<1>16. ASSUME NEW b \in Brokers, QuotaKick(b) PROVE KeepsWill(o)
  BY <1>16 DEF QuotaKick, Shutdown
<1>17. ASSUME NEW b \in Brokers, QuotaNotify(b) PROVE KeepsWill(o)
  BY <1>17 DEF QuotaNotify
<1>18. ASSUME NEW b \in Brokers, StopBegin(b) PROVE KeepsWill(o)
  BY <1>18 DEF StopBegin, Shutdown
<1>19. ASSUME NEW b \in Brokers, StopDetach(b) PROVE KeepsWill(o)
  BY <1>19 DEF StopDetach, RowFree
<1>20. ASSUME NEW b \in Brokers, Exit(b) PROVE KeepsWill(o)
  BY <1>20 DEF Exit
<1>21. ASSUME NEW b \in Brokers, ListenerDrop(b) PROVE KeepsWill(o)
  BY <1>21 DEF ListenerDrop
<1>22. ASSUME NEW b \in Brokers, Reconnect(b) PROVE KeepsWill(o)
  BY <1>22 DEF Reconnect
<1>23. ASSUME NEW b \in Brokers, AttestWrite(b) PROVE KeepsWill(o)
  BY <1>23 DEF AttestWrite, RowAfterAttest, RowFree
<1>24. ASSUME NEW b \in Brokers, AttestWriteFails(b) PROVE KeepsWill(o)
  BY <1>24 DEF AttestWriteFails, Fails
<1>25. ASSUME NEW b \in Brokers, NEW t \in Conns, DispatchTakeover(b, t) PROVE KeepsWill(o)
  BY <1>25 DEF DispatchTakeover, Shutdown, Addressee
<1>26. ASSUME NEW b \in Brokers, NEW t \in Conns, DispatchQuota(b, t) PROVE KeepsWill(o)
  BY <1>26 DEF DispatchQuota, Shutdown, Addressee
<1>27. ASSUME NEW b \in Brokers, NEW d \in Brokers, DeadBrokerLock(b, d) PROVE KeepsWill(o)
  BY <1>27 DEF DeadBrokerLock, JanitorIdle
<1>28. ASSUME NEW b \in Brokers, DeadBrokerFire(b) PROVE KeepsWill(o)
  <2>1. jpc[b] = "deadfire" /\ row' = row
    BY <1>28 DEF DeadBrokerFire
  <2>2. fired' = Publish(jwill[b])
    BY <1>28 DEF DeadBrokerFire
  <2>3. at[jwill[b]] = jdead[b] /\ jdead[b] # None
    BY <2>1
  <2>4. SUFFICES ASSUME pc[o] = "running"
                 PROVE  row'.will = row.will /\ fired'[o] = fired[o]
    BY DEF KeepsWill
  <2>5. at[o] # jdead[b]
    BY <2>3, <2>4, ReapedIsGone
  <2>6. jwill[b] # o
    BY <2>3, <2>5
  <2> QED
    BY <2>1, <2>2, <2>6 DEF Publish
<1>29. ASSUME NEW b \in Brokers, DeadBrokerFireFails(b) PROVE KeepsWill(o)
  BY <1>29 DEF DeadBrokerFireFails, Fails
<1>30. ASSUME NEW b \in Brokers, DeadBrokerStep1(b) PROVE KeepsWill(o)
  BY <1>30 DEF DeadBrokerStep1, RowAfterStep1, RowFree
<1>31. ASSUME NEW b \in Brokers, DeadBrokerStep2(b) PROVE KeepsWill(o)
  BY <1>31 DEF DeadBrokerStep2, RowAfterStep2, DeadBrokerUnlock, RowFree
<1>32. ASSUME NEW b \in Brokers, DeadBrokerStepFails(b) PROVE KeepsWill(o)
  BY <1>32 DEF DeadBrokerStepFails, Fails, DeadBrokerUnlock
<1>33. ASSUME NEW b \in Brokers, DueWillSelect(b) PROVE KeepsWill(o)
  BY <1>33 DEF DueWillSelect, WillDue, JanitorIdle, RowFree
<1>34. ASSUME NEW b \in Brokers, DueWillPublish(b) PROVE KeepsWill(o)
  <2>1. jpc[b] \in {"publish", "clear"}
    BY <1>34 DEF DueWillPublish
  <2>2. row.fireAt = "due"
    BY <2>1, LockHolder
  <2>3. ~(pc[o] = "running" /\ row.token = o)
    BY <2>2
  <2> QED
    BY <2>3
<1>35. ASSUME NEW b \in Brokers, DueWillPublishFails(b) PROVE KeepsWill(o)
  BY <1>35 DEF DueWillPublishFails, Fails
<1>36. ASSUME NEW b \in Brokers, DueWillClear(b) PROVE KeepsWill(o)
  <2>1. jpc[b] \in {"publish", "clear"}
    BY <1>36 DEF DueWillClear
  <2>2. row.fireAt = "due"
    BY <2>1, LockHolder
  <2>3. ~(pc[o] = "running" /\ row.token = o)
    BY <2>2
  <2> QED
    BY <2>3
<1>37. ASSUME NEW b \in Brokers, DueWillClearFails(b) PROVE KeepsWill(o)
  BY <1>37 DEF DueWillClearFails, Fails
<1>38. ASSUME NEW b \in Brokers, ExpireSession(b) PROVE KeepsWill(o)
  <2>1. row' = NoRow
    BY <1>38 DEF ExpireSession
  <2>2. row'.token # o
    BY <2>1, ConnsAssumption DEF NoRow
  <2> QED
    BY <2>2
<1>39. ASSUME WillFallsDue PROVE KeepsWill(o)
  BY <1>39 DEF WillFallsDue
<1>40. ASSUME ExpiryFallsDue PROVE KeepsWill(o)
  BY <1>40 DEF ExpiryFallsDue
<1>41. ASSUME NEW c \in Conns, ShutdownPrev(c) PROVE KeepsWill(o)
  BY <1>41 DEF ShutdownPrev
<1> HIDE DEF IInv, TypeOK, Core, Locks, WillInv, KeepsWill, vars
<1> QED
  BY <1>1, <1>2, <1>3, <1>4, <1>5, <1>6, <1>7, <1>8, <1>9, <1>10, <1>11, <1>12, <1>13, <1>14,
     <1>15, <1>16, <1>17, <1>18, <1>19, <1>20, <1>21, <1>22, <1>23, <1>24, <1>25, <1>26, <1>27,
     <1>28, <1>29, <1>30, <1>31, <1>32, <1>33, <1>34, <1>35, <1>36, <1>37, <1>38, <1>39, <1>40, <1>41
     DEF Next, ConnStep, ClientStep, SweepStep, StopStep, ListenerStep, DeadBrokerStep, DueWillStep

\* As long as no listener loses its Postgres session, nobody publishes or removes the will
\* of a client that is connected: the cleanup of CONNECT ends the timer of fireDueWills, and
\* handleDeadBroker keeps to pods that are gone.
THEOREM LiveWillAlwaysKept ==
    ASSUME MaxDrops = 0
    PROVE  Spec => LiveWillKept
<1>1. IInv /\ Locks /\ WillInv /\ [Next]_vars => \A c \in Conns : KeepsWill(c)
  <2> SUFFICES ASSUME IInv, Locks, WillInv, [Next]_vars, NEW c \in Conns PROVE KeepsWill(c)
    OBVIOUS
  <2>1. drops = 0
    BY DEF IInv, TypeOK
  <2>2. CASE Next
    BY <2>1, <2>2, KeepsWillStep
  <2>3. CASE UNCHANGED vars
    BY <2>3 DEF KeepsWill, vars, connVars
  <2> QED
    BY <2>2, <2>3
<1> DEFINE Keeps == \A c \in Conns : /\ pc[c] = "running" /\ pc'[c] = "running"
                                     /\ row.token = c /\ row'.token = c
                                     => row'.will = row.will /\ fired'[c] = fired[c]
<1>2. (\A c \in Conns : KeepsWill(c)) => Keeps
  BY DEF KeepsWill
<1>3. IInv /\ Locks /\ WillInv /\ [Next]_vars => [Keeps]_vars
  BY <1>1, <1>2
<1> QED
  BY <1>3, Invariance, WillInvariance, PTL DEF Spec, LiveWillKept
=============================================================================
