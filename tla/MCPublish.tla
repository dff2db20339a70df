------------------------------ MODULE MCPublish ------------------------------
(* Publish for TLC: three messages, the third with the packet id of the    *)
(* first, at several QoS levels; a subscription table with overlapping     *)
(* filters, no_local, and wildcards against "$" topics.                    *)
EXTENDS Publish, TLC

MCPacketID == <<1, 2, 1>>
MCQoss     == {<<2, 2, 2>>, <<2, 1, 2>>, <<1, 0, 2>>}
MCTopic    == <<<<"a", "b">>, <<"a">>, <<"$SYS">>>>

Sub(cl, f, q, nl) == [client |-> cl, filter |-> f, qos |-> q, no_local |-> nl]

MCTables ==
    { {Sub("sub", <<"a", "#">>, 1, FALSE), Sub("sub", <<"+", "b">>, 2, FALSE),
       Sub("sub", <<"$SYS">>, 0, FALSE),
       Sub("pub", <<"a", "b">>, 2, TRUE), Sub("pub", <<"+">>, 1, FALSE)} }

ConnSymmetry == Permutations(Conns)

\* mqtt_topic_match and the reference definition agree on all valid filters and names
\* of up to three levels.
Levels == {"a", "b", "$SYS", "+", "#", "a+"}
Upto3  == UNION {[1..n -> Levels] : n \in 1..3}
ASSUME MatchAgrees ==
    \A f \in {x \in Upto3 : ValidTopicFilter(x)}, t \in {x \in Upto3 : ValidTopicName(x)} :
        TopicMatch(f, t) <=> Matches(f, t)
=============================================================================
