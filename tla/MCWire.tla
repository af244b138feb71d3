------------------------------- MODULE MCWire -------------------------------
(***************************************************************************)
(* Wire for TLC.  With Base = 8 a byte of the remaining length carries two *)
(* bits: one byte counts to 3, two to 15, three to 63.                     *)
(***************************************************************************)
EXTENDS Wire

\* A string of one byte, and the longest that MQTT carries.
SomeStrings == {[len |-> 1, val |-> "x"], [len |-> 63, val |-> "long"]}
SomeNumbers == {0, 63}

\* PUBLISH packets: the longest with one byte of remaining length, a short
\* one with two, and the shortest with three and four.
SomePackets ==
    {[topic |-> <<"a">>, length |-> appendVarInt(3)],
     [topic |-> <<"a", "b">>, length |-> appendVarInt(16)],
     [topic |-> <<"b", "b">>, length |-> appendVarInt(5)],
     [topic |-> <<"a">>, length |-> appendVarInt(64)]}

SomeHandlers == {"simple", "one", "all"}
SomeFilters == [simple |-> <<"a">>, one |-> <<"+", "b">>, all |-> <<"a", "#">>]

=============================================================================
