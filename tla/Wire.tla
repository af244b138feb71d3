-------------------------------- MODULE Wire --------------------------------
(***************************************************************************)
(* What one client's connection carries: the CONNECT packet made of its    *)
(* configuration, then the messages the broker sends to its callbacks.     *)
(***************************************************************************)
EXTENDS Configuration, Incoming

vars == <<configVars, incomingVars>>

Init == ConfigInit /\ IncomingInit

\* Bound: messages reach a client with the default configuration, the rest of
\* which no definition of Incoming reads.
Traffic == IncomingNext /\ wrote # NotWritten /\ options = 0

Next ==
    \/ Build /\ UNCHANGED incomingVars
    \/ wrote = NotWritten /\ WriteConnect /\ UNCHANGED incomingVars
    \/ Traffic /\ UNCHANGED configVars

Spec == Init /\ [][Next]_vars

TypeOK ==
    /\ ReaderTypeOK
    /\ mAdvancedCallbacks \in Seq(Handlers) /\ mSimpleCallbacks \subseteq Handlers
    /\ queued \in Seq(Handlers) /\ todo \in Seq(Handlers) /\ ran \in Seq(Handlers)
    /\ sent \subseteq Packets /\ handled \in Seq(Packets)

=============================================================================
