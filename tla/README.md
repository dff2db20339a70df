# TLA+ models of pgmqtt

pgmqtt is an MQTT 3.1.1 / 5 broker whose pods keep all durable state in one
Postgres database.  Pods talk to each other only through that database: rows,
advisory locks and `NOTIFY`.  This directory holds TLA+ models of the parts of
it that are hard to test, the TLC configurations that check them on small
instances, and TLAPS proofs of the most important results for instances of any
size.  `PROJECT.json` maps every definition to the lines it models and lists
the runs, mutants, hazards, findings and theorems.

    tlc -workers 2 -config MCSessionsTakeover.cfg MCSessions     # one run
    tlapm SessionsProofs.tla                                     # the proofs of a module

## The system and its parts

| Part | State | Operations | What is hard | What makes it correct |
|---|---|---|---|---|
| Session ownership (`engine/connect.go`, `engine/engine.go`) | the `sessions` row (`broker_id`, `connected`, `session_token`), `Engine.conns` on each pod | `takeOwnership`, `NotifyTakeover`, `registerConn`, cleanup, ownership sweep, graceful shutdown | CONNECTs of one client on several pods; late or lost NOTIFYs; a stale socket that writes last | one owner; a superseded socket never wins the row back, always gets closed, and never harms the owner |
| Disconnect and wills (`engine/conn.go`, `engine/will.go`) | will columns, `will_fire_at`, `session_expires_at` | `handleDisconnect`, `handleGracefulDisconnect`, `fireWill` | races with reconnects and with the janitors | a will is published at most once, and does not stay scheduled |
| Listener (`listener/`) | its Postgres session and the pod's advisory lock | dispatch of takeover, publish and quota NOTIFYs, reconnect, attestation, kick of all drain loops | NOTIFYs are lost while it is away; peers take the pod for dead | the pod repairs its rows and its queues when it is back |
| Janitor (`janitor/`) | locks only | dead brokers, due wills, session expiry, sweeps | runs on every pod at once, statement by statement | what a dead pod left is released, once |
| Publish (`engine/publish.go`, `mqtt_publish`) | `messages`, `deliveries`, `inbound_qos2`, `retained`, `Conn.inboundInflight` | `handlePublish`, `publishCore`, `handlePubrel`, quota kick | retransmission on a new socket while the old handler runs; failing transactions; caps | acknowledged means fanned out; a retransmission is not delivered again; healthy clients are not refused |
| Delivery (`engine/deliver.go`, `engine/conn.go`) | `deliveries` rows, `Conn.inflight`, packet ids, aliases | `Deliver`, resume, drain loop, acknowledgement handlers | three goroutines compete for a row | a row is sent as new once; the window is kept; nothing is left behind |
| Topics (`mqtt/topic.go`, `mqtt_topic_match`) | none | validation, matching | `#`, `+`, `$` | the loop matches what MQTT 4.7 says |
| Subscribe / retained (`engine/subscribe.go`) | `subscriptions`, `retained`, rows of `deliveries` | SUBSCRIBE, UNSUBSCRIBE, replay of retained messages, retained expiry, sweep of deliveries | replay races with publishes and with the drain loops of two sockets; the end of an old socket, and the cleanup of a superseded CONNECT, come late | a subscriber ends with the latest retained value; its subscription and its queue stay until the client or the end of the session takes them |
| Limits (`engine/iplimit.go`, `tryReserveConn`, `tryConsumeRateToken`) | penalty boxes, buckets, counters | admit, penalise, collect | collection races with a new penalty | a box is not lost while it is in force |
| User operator (`operator/`) | User resource, Secret, `users` table | `Reconcile`, leader election, watches | reads from a cache that lags; two managers around a change of the Lease; steps that fail half way and are retried | table, Secret and status agree in the end; a password once given out stays; no row of an old name stays |
| Migrations (`db/migrate.go`), start of a pod (`main.go`) | `schema_migrations`, an advisory lock | `Open`, `Migrate` | pods of two releases start together; crash, lost session, lost COMMIT answer | each migration runs once and in order; a pod that serves has its schema; every pod comes up |
| Authentication, wire codec, WebSocket adapter, configuration, metrics, soak rig | - | - | pure functions, I/O and wiring | not modelled |

## Modules

- `SessionOwner` - the abstract promise: one owner, never regained, attributed
  only to the owner's pod, ended only when the owner has ended or no pod holds
  the session.
- `Sessions` - one `client_id`: its row, its sockets on the pods, sweep, listener and
  janitor of every pod.  One action is one Postgres transaction or the code
  between two; `registerConn` and the shutdown of the Conn it displaced, which comes after the
  unlock, are two actions (`RegisterConn`, `ShutdownPrev`).  A session token is identified
  with the socket that created it, and a restarted pod with a new element of `Brokers` (it draws a new UUID).  Time
  is reduced to timestamps that are null, armed or due.
- `SessionsProofs`, `SessionsWillProofs`, `DeliveryProofs`, `PublishProofs`,
  `PublishClientProofs`, `SubscriptionsProofs`, `ClusterProofs` - TLAPS proofs about the
  module they are named after; `ClusterProofs` is also about `Migrate` and `Operator`.
- `Delivery` - one subscriber: its `deliveries` rows, its successive sockets, and the
  goroutines that take rows (listener, resume, drain loop).  One action is one
  statement of `deliverOneTracked` or of an acknowledgement handler, and every statement
  may fail, executed or not: `DeliverScanFails`, `ScanFails`, `AllocFails`, `ClaimFails`,
  `AckFails` (which ends the Conn, `EndOnError`) and the DELETE of `DropUndeliverable`.  The
  displaced Conn is closed in the same step as it is displaced; `Sessions` has the two apart.
- `Publish` - one MQTT 5 publisher on successive sockets: Receive Maximum,
  `inbound_qos2`, `publishCore`, `mqtt_publish` with its cap, PUBREL, the sweep.
- `Topics` - filters and names as sequences of levels, `mqtt_topic_match` and the
  reference definition of a match.
- `Subscriptions` - one client on successive sockets: its subscription, the retained table,
  the replay (commit of the row, claim, write), its queued rows, and who deletes them:
  cleanup of CONNECT, `handleDisconnect`, janitor.  Sockets are not closed in order: the
  goroutine of an abandoned one goes on, and none of its statements but those of
  `handleDisconnect` asks for the session token.  PUBACK and PUBCOMP (`Ack`) delete whatever
  row has the packet id, from any socket whose handler is running; whoever drains may also
  find a row expired or oversized and delete it (`DropUndeliverable`), or claim it and lose
  the answer (`ClaimUnanswered`).  A listener that drops, and the reap of its live
  pod, are in `Sessions` and not here.
- `Operator` - one User, its Secret and the table `users`; per pod a manager, an informer
  cache, a work queue and the reconcile at hand, one action per call to Kubernetes or
  Postgres.  A call works, fails, or works and loses its answer.  The API server, the Lease
  and those who edit the resources are external.
- `Migrate` - the start of the pods: lock, check, apply, unlock, with the Postgres session
  and the process dying separately.
- `Cluster` - composes the two: a manager starts when `Migrate` has returned, and a restart
  of a pod ends its manager and begins with `Migrate`.
- `MCSessions`, `MCDelivery`, `MCPublish`, `MCSubscriptions`, `MCCluster` - the instances for TLC.  `MCPublish` also
  compares `TopicMatch` with `Matches` on all valid filters and names of up to three
  levels, as an `ASSUME`.

State and actions carry the names of the code where they can.  Variables that do not
exist in the program record what a property needs: `fired` in `Sessions`;
`fresh`, `got`, `open`, `introduced`, `via`, `extra` in `Delivery`; `fanned`, `freed`, `stray`, `refused` in
`Publish`; `seen`, `sentFresh`, `granted`, `late`, `cutShort`, `lost` in `Subscriptions`; `ran` in
`Migrate`.  Definitions that a comment calls a mutant are plausible mistakes: each
property is violated when the named definition is replaced by its mutant.

Clients are external and behave.  In `Delivery` they acknowledge in order; in
`Publish` they resend what is open when they resume, reuse a packet id only when its
message is done, and keep to Receive Maximum.

## Runs

Bounds are given as constants in the `.cfg` files.

| Run | Instance | Checks |
|---|---|---|
| `takeover` | 3 sockets, 2 pods, one may crash, one may stop | `OpenConnsRegistered`, `OwnerAttached`, `TakeoverSparesOwner` |
| `faults` | 2 sockets, 2 pods, one failing statement, one listener drop, immediate and delayed wills, finite expiry | `TypeOK`, `RowConsistent`, `WillAtMostOnce`, `ImplementsOwner` |
| `live` | 2 sockets, a crash, a listener drop, fairness | `StaleSocketClosed`, `OwnerReattached`, `DeadBrokerReaped` |
| `will_live` | 2 sockets, wills, finite expiry, a crash, quota kicks, fairness | `ScheduledWillSettles`, `ScheduledExpirySettles`, `LiveWillKept` |
| `claims` | 2 rows, the first of QoS 0 or 2 and expiring, the second oversized; 2 sockets, two packet ids, a failing statement | `TypeOK`, `FreshAtMostOnce`, `SlotsMatchRows` |
| `flow` | 2 rows, of QoS 1 and of QoS 1 or 2; one socket, Receive Maximum 1, six packet ids, refusals, a listener drop, a failing statement, fairness | `SlotsMatchRows`, `AckedWasReceived`, `DeliveryCompletes` |
| `publish` | 3 messages in three QoS mixes, the third with the packet id of the first; 2 sockets, Receive Maximum 2, queue cap 1, one failing or unanswered transaction; five subscriptions of two clients | `TypeOK`, `DedupMatchesFanout`, `AcknowledgedWasFannedOut`, `QueueBounded`, `HealthyNotRefused`, `FanoutExact` |
| `subscriptions` | 2 sockets in three mixes of Clean Start, kept sessions, QoS 0 and 1 and Retain Handling; two topics; a publish and a request, two requests, or two retained messages with an undeliverable one and a failing statement | `TypeOK`, `ReplayOnce`, `LatestRetainedReached`, `GrantedSubscriptionKept`, `QueueKept` |
| `operator` | 2 pods of two releases, generated and brought Secret, two faults while a new cluster starts (one of them may kill a pod and leave its session), or one later together with a change of the Lease, a rollout with a higher cost, rotations, renames, deletion, up to two failing calls; fairness | `TypeOK`, `SchemaExact`, `MigrateAlone`, `ServesMigrated`, `ReadyIsTrue`, `PasswordStable`, `CredentialsConverge`, `NoStaleRow`, `EveryPodServes` |
| `register_race` | violation | `RegisterSparesOwner` |
| `operator_rename` | violation, fairness, no fault | `NoStaleRow` |
| `sweep` | violation | `SweepSparesResumable` |

What they show.  `takeover`: however late notices, sweeps and disconnects of old sockets
come, the owner of a session stays registered and attached.  `faults`: the same with
failing statements, as a refinement of `SessionOwner`.  `live` and `will_live`: what a
crash, a kick or a lost NOTIFY leaves behind is cleaned up, and nobody publishes or
removes the will of a client that is connected.  `claims`: a queued row is sent
as new by one goroutine, and every slot is accounted for, also where a statement fails
between taking it and giving it back.  `flow`: an acknowledgement hits the row it is about, and
nothing is stuck, unless a statement fails, and then until the next kick.  `publish`: what was acknowledged was fanned out, once, to whom
the filters say, and above QoS 0 to no client over its cap.
`subscriptions`: the replay neither doubles nor loses a row in the race with the drain
loops, and a connected client loses its subscription or a queued row only by its own packets
(a row also when it cannot be delivered).  `operator`:
after any mix of edits and faults from the list, credentials, Secret and status converge,
provided a rename waits for Ready; and the start of a cluster survives crashes.

Why the bounds are enough to be of use.  Three sockets on two pods are the fewest for a
client that moves away and comes back while a notice of its first visit is still under
way.  Two sockets are the fewest for a retransmission, or a resume, that races with the
abandoned handler.  One fault of each kind at every possible point is where the
recovery code differs; that the safety properties of the sessions hold for any number
of sockets, pods and faults is proved.  Two rows with one slot, or with two packet
ids, meet every limit of the window and of the id space; `flow` has more ids than PUBLISHes,
because `AckedWasReceived` is about ids that have not gone round.  One failing statement
(`MaxErrs`) at every point tells apart whether the slot, the kick and the row survive it; that
`SlotsMatchRows` holds with any number of them is proved.  Three messages, of which two
share a packet id, are the fewest for a reused id and for a counter that reaches -2.
`TypeOK` in `Delivery` includes that packet ids stay within 1..65535 after the wrap.
Two topics are the fewest for a replay that is given up half way, and one publish the
fewest for a replay that races with a replacement.  Two pods are the fewest for a Lease
that changes hands and for two releases; each kind of edit is checked with the failing calls
that can separate it from the status patch, not all kinds at once (`HandoverOrEdits` in
`MCCluster`).

`CHECK_DEADLOCK FALSE` is set everywhere: the sockets and messages of an instance are
finite, and the system rests when they are used up.

### Fairness

`FairSpec` of `Sessions` is weak fairness of each goroutine and ticker (a Conn's
goroutine, sweep, listener, the janitor's jobs, the shutdown in progress) and of
time.  The Go scheduler runs every goroutine, and the loops are tickers without an exit
other than shutdown.  The listener does not retry for ever: after `reconnectMaxAttempts` (5) it
exits the process (listener.go:205-227), which the model has as `Exit` of a pod in
`Crashable`; fairness says that a pod that does not exit reconnects.  Clients need not
connect, nothing needs to fail.  `FairSpec` of `Delivery` adds that a client that is
connected acknowledges; `DeliveryCompletes` ends its claim when the client
cuts the connection and when one more statement fails.

`ClusterFairSpec` is weak fairness of each step of a start (the kubelet starts a pod
that is down), of taking a free Lease, of a manager that lost the Lease noticing it, of the
informers, of the work queue (a reconcile that returns an error is queued again) and of
the server noticing a dead session; strong fairness of getting the advisory lock, which Postgres
grants in the order of the requests.  Faults and edits need not happen, and are bounded.
`Subscriptions` states safety only.

## Proofs

Each theorem holds for all values of the constants: any number of pods, sockets, messages,
rows, topics and faults, under the assumptions its module names.  These say of the constants
what their types say in the code (sets of ids that do not contain `None`, a Receive Maximum
of 1..65535, a positive number of retries) and that the instance has finitely many messages or
rows; `ReleaseAssumption` adds that `None` and the mark of a dead session are no pods.
Every invariant and action property of the passing runs is proved except `FanoutExact` and
`AckedWasReceived`; each inductive invariant was checked with TLC on the instance of the
runs before it was proved.  The preservation lemmas have one step per action, or one per
group of actions that leave the same variables alone.

### `SessionsProofs`

| Theorem | Statement |
|---|---|
| `TypeCorrect` | `Spec => []TypeOK` |
| `RowAlwaysConsistent` | `Spec => []RowConsistent` |
| `OpenConnsAlwaysRegistered` | `Spec => []OpenConnsRegistered` |
| `OwnerStaysAttached` | `Spec => []OwnerAttached` |
| `TakeoverSafe` | `Spec => TakeoverSparesOwner` |
| `Refinement` | `Spec => ImplementsOwner` |

The inductive invariant is `IInv`, the types together with `Core`: an attached row names
the pod of its owner (`RowPlaced`); `Engine.conns` and the attestation's copy hold the
pod's own sockets, and so does what `registerConn` returned (`Placed`); the token of a socket that has not connected is
nowhere (`Fresh`); every takeover notice, sent or about to be sent, names a
superseded token (`Stale`).  `Stale` is what makes `TakeoverSafe` true, and it needs
`Fresh`, because a token is drawn once.  `Refinement` needs `RowPlaced` for the
attestation and the token guards for the disconnects.  `OwnerStaysAttached` needs `Locks`
as well: handleDeadBroker holds the lock of the pod it works on, and as long as no
listener has dropped, a pod that is running holds its own.  `OpenConnsRegistered` allows for
the moment between the swap and the shutdown, in which the displaced Conn is open and not in
`Engine.conns`; whoever displaced it then closes it, whatever else happens.

### `SessionsWillProofs`

| Theorem | Statement |
|---|---|
| `WillAlwaysAtMostOnce` | `Spec => []WillAtMostOnce` |
| `LiveWillAlwaysKept` | `MaxDrops = 0` gives `Spec => LiveWillKept` |

`WillInv` rests on `IInv` and `Locks`.  `RowLocked`: one janitor at a time holds the row that
fireDueWills selected, and `will_fire_at` stays due under it.  `Once` says where the will of a
Conn that opened its session may already have been published: by its own handleDisconnect,
which then writes a row without a timer, or by a timer of its own write, and then the
janitor's transaction is at its last statement or has cleared the timer.  `Unscheduled` is the
heart of `LiveWillAlwaysKept`: the timer of a running owner is null, since its cleanup cleared
it and only handleDisconnect and handleDeadBroker set one; the latter works on pods that are
gone (`Locks`, `Reaping`), which have no running sockets (`DeadPods`).  Crashes, quota
kicks and failing statements are not excluded.  `MaxDrops = 0` is, because a listener that
loses its session makes its live pod look dead.

### `DeliveryProofs`

| Theorem | Statement |
|---|---|
| `DeliveryTypeCorrect` | `Spec => []TypeOK` |
| `AlwaysFreshAtMostOnce` | `Spec => []FreshAtMostOnce` |
| `SlotsAlwaysMatchRows` | `Spec => []SlotsMatchRows` |

The types need `WorkerOK`: a worker on its way has a row to deliver, what it read as sent has a
packet id, and what it is about to write with QoS > 0 has one by then.  `TypeOK` includes
that ids stay within 1..`PidMax` after the wrap.  `FreshInv` is the argument for one PUBLISH
without DUP: whoever is about to write a row as new has taken it out of state 0, alone, and
no row returns there.

`SlotsMatchRows` counts the slots of a Conn against the rows that were claimed on it and not
settled (`via`) and the claims under way, on every path: expiry, refusals, failed writes, failing
statements.  It has no hypotheses.  No slot is taken for nothing; those that were given back
without a row are counted by `extra`; and while a client's first connection serves it, a slot is
lost only with a row that was deleted as expired (deliver.go:140), and freed twice only by
PUBREC with a reason >= 0x80, which gives one back whether it found a row or not (conn.go:990),
after a failed statement, or after a failed write.  `SlotInv` adds what the count needs: a
client that refuses nothing has sent no refusal (`Accepts`); a Conn that has not connected takes
no part in anything (`Placed`); no two claimed rows share a packet id (`Distinct`, the unique
index), so that an acknowledgement ends one claim or none; a row that holds a slot has been
claimed on a Conn that has connected (`Owned`); and on a first connection on which nothing
has failed every claimed row holds one (`First`).  Every step then is one of the entries of
`Shift`: nothing, a slot taken, a slot given back by a claim that failed, a slot handed from the
claim to its row, a row settled, a slot freed once too often.

### `PublishProofs`

| Theorem | Statement |
|---|---|
| `PublishTypeCorrect` | `Spec => []TypeOK` |
| `DedupInStep` | `Spec => []DedupMatchesFanout` |
| `OneClaim` | `Spec => []KeyUnique` |
| `QueueAlwaysBounded` | `Spec => []QueueBounded` |

`DedupMatchesFanout` is not inductive: a commit would overwrite the row of another message,
or count a fan-out twice, if a second handler held a claim on the same packet id.  `IInv`
adds `KeyUnique`, what the primary key of `inbound_qos2` guarantees while transactions are
open (no two claims, no claim next to a committed row), and `Busy`, that a handler at work
has a message.  `CommitStep` and `DeleteStep` carry the argument, for both ways a commit can
end and for PUBREL and the janitor; the other actions are covered by `Untouched`.
`QueueInv` counts the rows that handlers are about to commit as if they were there:
together they stay below the cap plus the number of sockets, because mqtt_publish adds to a
queue only when it has read it below the cap.

### `PublishClientProofs`

| Theorem | Statement |
|---|---|
| `AcknowledgedWasAlwaysFannedOut` | `Spec => []AcknowledgedWasFannedOut` |
| `HealthyNeverRefused` | `Spec => []HealthyNotRefused` |

`ClientInv` says where the packets of a message can be: on which sockets, in which phase,
once.  `AckInv` then follows a message that was acknowledged without a fan-out to a row of an
old message with its packet id, and that one to a second fan-out of the old message
(`Twice`).  `SlotInv` bounds the in-flight counter by the messages that hold a slot
(`Held`), plus those whose row a PUBREL of another message deleted (`stray`); on a socket the
client has left it bounds the counter by what is still to be read.

### `SubscriptionsProofs`

| Theorem | Statement |
|---|---|
| `SubscriptionsTypeCorrect` | `Spec => []TypeOK` |
| `NeverReplayedTwice` | `Spec => []ReplayOnce` |
| `LatestRetainedAlwaysReached` | `Spec => []LatestRetainedReached` |
| `GrantedAlwaysKept` | `Spec => GrantedSubscriptionKept` |
| `QueueAlwaysKept` | `Spec => QueueKept` |

`Claimed` is to the replay what `FreshInv` is to delivery.  `Ended` says that a session is
marked disconnected only by its owner's goroutine, at its end; the two action properties need
it to know whose statement took a row or a subscription away.  `ReplayInv` generalises
`LatestRetainedReached` to a replay under way: what the client of the present subscription
lacks of the retained table is in the batch of its replay, in a row of QoS 1,
straddled the SUBSCRIBE (`late`), or went with a row that was deleted unsent (`lost`).
`QueueKept` says who empties a queue.  Its substance is in the statements of others: the
handleDisconnect of an old socket, expireSessions and sweepOrphanDeliveries never touch the queue
of a client whose owner is connected.  That an acknowledgement may be late, on an abandoned
socket, or for a row never sent is part of it, since conn.go:962 asks for the packet id only.

### `ClusterProofs`

| Theorem | Statement |
|---|---|
| `SchemaAlwaysExact` | `ClusterSpec => []SchemaExact` |
| `AlwaysMigratesAlone` | `ClusterSpec => []MigrateAlone` |
| `AlwaysServesMigrated` | `ClusterSpec => []ServesMigrated` |
| `OperatorTypeCorrect` | `ClusterSpec => []TypeOK` |
| `PasswordAlwaysStable` | `ClusterSpec => PasswordStable` |
| `ReadyAlwaysTrue` | `\A b \in Budgets : b.lose = 0 \/ b.rename <= 1` gives `ClusterSpec => []ReadyIsTrue` |

`MigrateInv`: a pod past the lock has found or put every migration before the one it looks
at (`Checked`), and what a live session found missing is still missing (`Missing`), since it
is alone (`MigrateAlone`).  `OperatorInv` adds to the types that a reconcile runs in a manager
and has a password by the time it writes one.  `ReadyInv` is about two kinds of histories.
Either the Lease is never lost, and then one manager reconciles from caches that are never newer
than the conditions it patches (`OneManager`); or the User is renamed at most once, and then no
stale manager has a reason to delete a row that the present name needs (`NoWayBack`).

Only model-checked: liveness under fairness (`StaleSocketClosed`, `OwnerReattached`,
`DeadBrokerReaped`, `ScheduledWillSettles`, `ScheduledExpirySettles`, `DeliveryCompletes`,
`CredentialsConverge`, `NoStaleRow`, `EveryPodServes`), which is out of the prover's reach;
`FanoutExact` and the agreement of `TopicMatch` with `Matches`, a recursive definition over
sequences; and `AckedWasReceived`, which does not hold for every `PidMax`: with very few
packet ids a second acknowledgement of one message meets the next row with its id.

## What the models found

The findings of `PROJECT.json`, each with a run that violates what the repository says:

1. `register_race` - `registerConn` displaces whichever socket is registered on the pod,
   without comparing tokens; of two CONNECTs on one pod the loser of the row may close the
   owner.
2. `operator_rename` - `Reconcile` learns from the cached User whether it was renamed; an
   edit of `spec.username` that is in the cache before the status patch of the reconcile
   that wrote the first row leaves that row, whose credentials go on working.
3. `sweep` - `sweepOrphanDeliveries` takes `clean_start` for "ends with the socket"; the
   queue of an MQTT 5 session that began with Clean Start = 1 and has an expiry interval
   is deleted while the client may still resume it.

Further behaviours that TLC shows and that bound what the properties say:

- Between `takeOwnership` and the cleanup the row still carries the old `will_fire_at`;
  `fireDueWills` does not ask for `connected = false` and publishes the will of the client
  that has just reconnected.  Hence `WillAtMostOnce` is about sockets that opened the
  session.
- `expireSessions` may delete a row whose will is due as well; `ScheduledWillSettles`
  counts this as settled.  A due will whose publish fails is cleared all the same
  (janitor.go:516).
- The sweep closes sockets from a query result that may be old: a client that moved
  away and back in between loses its healthy socket.
- `AttestOwnedSessions` misses a CONNECT that is between `takeOwnership` and
  `registerConn`; its row stays detached until it reconnects, so `OwnerReattached` is about
  running sockets whose listener has not reconnected yet.  It may also re-attach a
  row whose owner has just disconnected; the row then stays attached.
- A CONNECT that fails after `takeOwnership` returns without `handleDisconnect`, and a quota
  kick can do so too: the row stays connected.
- The cleanup of a superseded CONNECT (connect.go:272) is not scoped to its token: it may
  clear the timestamps, and with Clean Start delete the subscription, of the newer
  connection.  `GrantedSubscriptionKept` names it.
- Only `handleDisconnect` sets `session_expires_at`; a session whose pod crashed
  (janitor.go:815), was stopped or that was kicked for quota never expires, although conn.go:733
  says the session "persists with session_expires_at = now() + SessionExpiryInterval".
  `ScheduledExpirySettles` is therefore about expiries that are scheduled.
- handleDeadBroker's two UPDATEs (janitor.go:789) are separate: a client that reconnects to
  a pod that was wrongly taken for dead loses its will columns in the second.
- Rows in flight that a resume sends again hold no slot (deliver.go:196-199), so the client's
  Receive Maximum is exceeded after a resume, and even on a first connection when its resume sends
  again a row that the listener has claimed and not yet written: `WindowRespected` in
  `Delivery`, which no run keeps.
- A topic alias is recorded before the PUBLISH that introduces it is certain to be sent, or to
  be sent first (deliver.go:168-171): `AliasIntroduced`, likewise.
- A connection on which QoS 2 handshakes of the connection before are completed has a negative
  in-flight counter; from -2 on, the cast to `uint16` (publish.go:83) refuses the next
  PUBLISH with 0x93.
- A PUBREL of an abandoned socket that is handled late deletes the dedup row by client and
  packet id only (conn.go:1012): by then it may be the row of the next message with this
  packet id.  That message's own PUBREL finds no row and releases no slot, because "an unknown
  packet id consumed no slot" (conn.go:1026), and the slot stays taken until the connection
  ends.  It takes three sockets; the proof of `HealthyNotRefused` found it, no run did.  The ghost
  `stray` counts such messages; `HealthyNotRefused` says that nobody else but these two is
  refused.
- A manager that has lost the Lease with an old copy of the User (renamed from a to b) may delete
  row a after the User was renamed back to a and the next leader reported Ready: with
  one change of the Lease and two renames `ReadyIsTrue` does not hold.  No run combines
  them; the proof of `ReadyAlwaysTrue` needs the hypothesis.
- A slot leaks where a claimed row is deleted as expired, and is freed twice where PUBLISHes
  are refused or statements fail; see `DeliveryProofs`.
- A failing SELECT (deliver.go:54, conn.go:664) is logged and not repeated: the NOTIFY or the
  kick is used up, and the queued rows wait for the next kick or CONNECT.
  `DeliveryCompletes` is therefore about a row that no failure has met or for which a kick is
  pending after it.
- A claim that is executed and loses its answer (deliver.go:228) gives its slot back and leaves
  the row in state 1 without a PUBLISH; the drain loops take state 0 only, so it waits for the
  next resume.
- `drainOnce` ends its loop after an expired or oversized row, and the rows behind it wait
  for the next kick; `DeliveryCompletes` is checked without such rows, and ends its claim where
  an expired row has lost its slot.
- A listener that has claimed a row and stalls before writing it, while a resume sends the
  row again and completes the QoS 2 handshake, delivers it to the application a second
  time.
- A row claimed for a Conn that is closing, after the new Conn has read its rows, stays in
  flight until the next reconnect.
- An acknowledgement handler of an abandoned Conn that reaches Postgres late
  deletes whatever row carries its packet id by then, also one that was never sent:
  `AckedWasReceived` is about a client's first connection, and `QueueKept` allows it.
- A publish handler of an abandoned socket that starts its transaction after the PUBREL on
  the new socket fans the QoS 2 message out again and leaves a dedup row that swallows
  the next message with this packet id: the exception in `AcknowledgedWasFannedOut`.
- A retained publish whose fan-out ran before the commit of a SUBSCRIBE, and which commits after
  the replay's SELECT, reaches the subscriber on neither way (`late`).
- The replay is given up, for all further topics, when a drain loop takes the row it has
  just inserted (subscribe.go:318), although subscribe.go:184 says it "sends every retained
  message matching filter" (`cutShort`).
- A superseded Conn claims rows until its goroutines notice: with QoS 0 they are lost, with QoS > 0
  they wait for the next resume.
- A rename followed by a deletion before the next reconcile leaves the row of the old name:
  `reconcileDelete` knows only `spec.username`.
- A manager that lost the Lease and upserts late, while the password is rotated, or a Secret that
  goes back to an earlier password after a failed status patch, leaves a hash that does not match the
  Secret until the next event; user_controller.go:170 says it "always matches".  The
  `operator` run keeps these combinations apart.
- A pod whose manager lost the Lease never runs one again (main.go:163); when every pod
  has lost it once, nobody reconciles.

## Not modelled

Payloads, properties and packet layout; logging and metrics; authentication and the other
checks of a CONNECT before `takeOwnership`; malformed PUBLISHes and SUBSCRIBEs; back-off
times; the sweep of messages without deliveries; several Users that claim one username; the
per-IP limiter, connection cap and rate bucket (planned: they live on the clock, and
no other part reads their state); the other parts marked so in the first table.

## Plan

1. Done: `SessionOwner`, `Sessions`, `SessionsProofs`, `SessionsWillProofs`; `Delivery`,
   `DeliveryProofs`; `Topics`, `Publish`, `PublishProofs`, `PublishClientProofs`;
   `Subscriptions`, `SubscriptionsProofs`; `Operator`, `Migrate`, `Cluster`, `ClusterProofs`.
2. Proofs next: `FanoutExact` with `TopicMatch` left opaque; `AckedWasReceived` for a `PidMax`
   that exceeds the number of rows and retries.
3. An abstract at-least-once queue, and `Delivery` shown to implement it; an abstract dedup
   table for `Publish`.
4. Limits: penalty box and its garbage collection, connection cap, rate bucket.
