---------------------------- MODULE SessionOwner ----------------------------
(***************************************************************************)
(* What session ownership promises, without rows, locks and notifications: *)
(* a client's session has at most one owner, a connection that lost it     *)
(* never gets it back, the session is only ever attributed to the pod its  *)
(* owner is connected to, and it only ends when the owner has ended or no  *)
(* pod holds it.                                                           *)
(***************************************************************************)
CONSTANTS Brokers, Conns, None

VARIABLES
    owner,  \* the connection that owns the session, None when there is no session
    pod,    \* the pod the session is attributed to, None when detached
    home,   \* the pod of each connection that has claimed the session so far
    done    \* connections that have ended or started to end

avars == <<owner, pod, home, done>>

Init ==
    /\ owner = None
    /\ pod = None
    /\ home = [c \in Conns |-> None]
    /\ done = {}

\* A connection claims the session, once in its life.
Claim(c, b) ==
    /\ home[c] = None
    /\ owner' = c
    /\ pod' = b
    /\ home' = [home EXCEPT ![c] = b]
    /\ UNCHANGED done

\* The session is detached: by its owner's disconnect, by its pod's shutdown, or by
\* a janitor that takes the pod for dead.
Detach ==
    /\ pod # None
    /\ pod' = None
    /\ UNCHANGED <<owner, home, done>>

\* A pod that was taken for dead attests that it still holds the owner.
Reattach ==
    /\ owner # None
    /\ pod' = home[owner]
    /\ UNCHANGED <<owner, home, done>>

\* The session ends.
End ==
    /\ owner \in done \/ pod = None
    /\ owner' = None
    /\ pod' = None
    /\ UNCHANGED <<home, done>>

\* Connections end, for whatever reason.
Finish(S) ==
    /\ done' = done \cup S
    /\ UNCHANGED <<owner, pod, home>>

Next ==
    \/ \E c \in Conns, b \in Brokers : Claim(c, b)
    \/ Detach \/ Reattach \/ End
    \/ \E S \in SUBSET Conns : Finish(S)

Spec == Init /\ [][Next]_avars
=============================================================================
