---------------------------- MODULE MCMQTTSystem ----------------------------
(***************************************************************************)
(* MQTTSystem for TLC: values for its constants.                           *)
(***************************************************************************)
EXTENDS SubscriptionInvariant

\* Every subscribe() call names the same topic.
SameTopic == [s \in Subs |-> CHOOSE t \in Topics : TRUE]

\* How loop() is called: loop(0ms), loop(5ms, Yes), loop({}, Yes) and loop({}).
Zero == [timeout |-> "zero", select |-> FALSE]
Some == [timeout |-> "some", select |-> TRUE]
Forever == [timeout |-> "none", select |-> TRUE]
Busy == [timeout |-> "none", select |-> FALSE]

OnlyForever == {Forever}
AllModes == {Zero, Some, Forever, Busy}

\* MQTTConfigBuilder: a negative number of retries is no limit.
NoLimit == -1

\* The subscribe() calls are interchangeable: no definition tells them apart.
Calls == Permutations(Subs)

=============================================================================
