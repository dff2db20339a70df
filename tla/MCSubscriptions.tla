-------------------------- MODULE MCSubscriptions --------------------------
(* Subscriptions instantiated for TLC.                                     *)
EXTENDS Subscriptions, TLC

Says(clean, keep, rh, qos) == [clean |-> clean, keep |-> keep, rh |-> rh, qos |-> qos]

CONSTANTS c1, c2, t1, t2

\* clean, keep, rh, qos: v5 clients that start clean and keep the session, resume it, or end
\* it with the socket; a v3.1.1 client with a clean session; QoS 0; Retain Handling 1.
Kept    == c1 :> Says(TRUE, TRUE, 0, 1)  @@ c2 :> Says(FALSE, TRUE, 0, 1)
Clean   == c1 :> Says(TRUE, FALSE, 0, 1) @@ c2 :> Says(TRUE, TRUE, 0, 0)
Resumed == c1 :> Says(FALSE, TRUE, 0, 1) @@ c2 :> Says(FALSE, FALSE, 1, 1)

Within(publish, request, drop, err) ==
    [publish |-> publish, request |-> request, drop |-> drop, err |-> err]

\* One retained message, which is replaced while the sockets change; two, an undeliverable
\* message and a failure.
Replaced == [prof : {Kept}, retained : {t1 :> 1 @@ t2 :> 0}, left : {Within(1, 1, 0, 0)}]
            \cup [prof : {Clean}, retained : {t1 :> 1 @@ t2 :> 0},
                  left : {Within(0, 2, 0, 0), Within(1, 1, 0, 0)}]
Failing  == [prof : {Kept, Resumed}, retained : {t1 :> 1 @@ t2 :> 2}, left : {Within(0, 1, 1, 1)}]
            \cup [prof : {Resumed}, retained : {t1 :> 0 @@ t2 :> 1}, left : {Within(1, 1, 0, 1)}]
AllScenarios == Replaced \cup Failing

\* A session that began with Clean Start and is kept.
CleanButKept == [prof : {[c \in {c1, c2} |-> Says(TRUE, TRUE, 0, 1)]}, retained : {t1 :> 0 @@ t2 :> 0},
                 left : {Within(1, 1, 0, 0)}]
=============================================================================
