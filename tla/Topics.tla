------------------------------- MODULE Topics -------------------------------
(***************************************************************************)
(* Topic names and topic filters of pgmqtt, as sequences of levels         *)
(* (string_to_array(_, '/')): the validation of internal/mqtt/topic.go and *)
(* the SQL function mqtt_topic_match, next to what MQTT 4.7 says a filter  *)
(* matches.  The letters inside a level do not matter except for a leading *)
(* '$' and for wildcards; levels that begin with '$' are listed by         *)
(* DollarLevels, levels with a wildcard among other letters by MixedLevels.*)
(***************************************************************************)
EXTENDS Naturals, Sequences

DollarLevels == {"$SYS", "$x"}
MixedLevels  == {"a+", "#a"}

\* ValidateTopicName, ValidateTopicFilter.
ValidTopicName(t) ==
    /\ t # << >>
    /\ \A i \in DOMAIN t : t[i] \notin MixedLevels \cup {"+", "#"}

ValidTopicFilter(f) ==
    /\ f # << >>
    /\ \A i \in DOMAIN f : /\ f[i] \notin MixedLevels
                           /\ f[i] = "#" => i = Len(f)

\* The loop of mqtt_topic_match, from level i on.
MatchFrom(f, t) ==
    LET from[i \in 1..Len(f) + 1] ==
          IF i > Len(f) THEN Len(f) = Len(t)
          ELSE IF f[i] = "#" THEN TRUE
          ELSE IF i > Len(t) THEN FALSE
          ELSE IF f[i] # "+" /\ f[i] # t[i] THEN FALSE
          ELSE from[i + 1]
    IN  from[1]

TopicMatch(f, t) ==
    /\ f # << >> /\ t # << >>
    /\ ~(f[1] \in {"#", "+"} /\ t[1] \in DollarLevels)
    /\ MatchFrom(f, t)

\* The reference: the levels before a final "#" match one by one, and without "#" there
\* is no level left over.  A wildcard in front never stands for a "$" level.
Matches(f, t) ==
    LET multi == f[Len(f)] = "#"
        fixed == IF multi THEN Len(f) - 1 ELSE Len(f)
    IN  /\ IF multi THEN Len(t) >= fixed ELSE Len(t) = fixed
        /\ \A i \in 1..fixed : f[i] \in {"+", t[i]}
        /\ t[1] \in DollarLevels => f[1] \notin {"+", "#"}
=============================================================================
