----------------------------- MODULE TopicMatch -----------------------------
(***************************************************************************)
(* Which callbacks a message is for: doesTopicMatchPattern of Helper.cpp,  *)
(* and what MQTT says of topics and filters (MQTT 3.1.1, 4.7).             *)
(*                                                                         *)
(* A topic is the sequence of its levels, the parts between the slashes; a *)
(* level is a value of the model and may be empty ("a//b", "/a", "a/").    *)
(* Two topics are the same string exactly if their levels are the same.    *)
(***************************************************************************)
EXTENDS Positions

CONSTANTS
    Empty,      \* the empty level
    Single,     \* "+"
    Multi       \* "#"

ASSUME TopicAssumption == Single # Multi /\ Empty \notin {Single, Multi}

\* splitStringBySlash passes over a slash that ends an empty level; whatever
\* follows the last slash is a level, empty or not.
NamedLevels(levels) ==
    {i \in DOMAIN levels : levels[i] # Empty \/ i = Len(levels)}
splitStringBySlash(levels) == At(levels, NamedLevels(levels))

\* The first level that differs decides, a "#" like any other; or a "#" anywhere
\* in the pattern makes up for a level that differs.
StopMatchesMutant(pattern, i) == FALSE
StopMatchesAnyMutant(pattern, i) == \E j \in DOMAIN pattern : pattern[j] = Multi

\* The loop stops where the pattern has ended, and where the levels differ and
\* the pattern has no "+"; it matches if a "#" stopped it, or nothing did.
Stops(topic, pattern) ==
    {i \in DOMAIN topic : \/ i > Len(pattern)
                          \/ topic[i] # pattern[i] /\ pattern[i] # Single}
StopMatches(pattern, i) == i <= Len(pattern) /\ pattern[i] = Multi
LevelsMatch(topic, pattern) ==
    \A i \in Stops(topic, pattern) :
        (\A j \in Stops(topic, pattern) : i <= j) => StopMatches(pattern, i)

doesTopicMatchPattern(topic, pattern) ==
    \/ topic = pattern
    \/ LevelsMatch(splitStringBySlash(topic), splitStringBySlash(pattern))

isTopicAdvanced(topic) == \E i \in DOMAIN topic : topic[i] \in {Single, Multi}

-----------------------------------------------------------------------------
(* MQTT. *)

\* A topic of a message names no wildcard; "#" ends the filter it is in.
IsTopic(levels) == levels # <<>> /\ ~isTopicAdvanced(levels)
IsFilter(levels) ==
    /\ levels # <<>>
    /\ \A i \in DOMAIN levels : levels[i] = Multi => i = Len(levels)

\* The levels before a final "#" stand for themselves or are "+"; "#" stands for
\* any number of levels, the parent included.  The exception of 4.7.2, that a
\* wildcard in front matches no topic that begins with "$", is left out.
Agrees(topic, filter, n) == \A i \in 1 .. n : filter[i] \in {topic[i], Single}
Matches(topic, filter) ==
    LET n == Len(filter) IN
    IF filter[n] = Multi
    THEN Len(topic) >= n - 1 /\ Agrees(topic, filter, n - 1)
    ELSE Len(topic) = n /\ Agrees(topic, filter, n)

\* No level but the last is empty: splitStringBySlash leaves none out.
Plain(levels) == \A i \in DOMAIN levels : levels[i] = Empty => i = Len(levels)

=============================================================================
