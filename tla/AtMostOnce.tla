----------------------------- MODULE AtMostOnce -----------------------------
(***************************************************************************)
(* What publish() promises: QoS 0.  Messages are delivered in the order in *)
(* which they were published, each of them at most once; any of those still *)
(* on their way may be lost.                                               *)
(***************************************************************************)
EXTENDS Naturals, Sequences

CONSTANT Messages

VARIABLES
    accepted,   \* the messages published so far, each once
    pending,    \* those on their way, in order
    delivered   \* those that arrived, in order

pipeVars == <<accepted, pending, delivered>>

Init == accepted = {} /\ pending = <<>> /\ delivered = <<>>

Publish(m) ==
    /\ m \notin accepted
    /\ accepted' = accepted \cup {m}
    /\ pending' = Append(pending, m)
    /\ UNCHANGED delivered

Deliver ==
    /\ pending # <<>>
    /\ delivered' = Append(delivered, Head(pending))
    /\ pending' = Tail(pending)
    /\ UNCHANGED accepted

\* The ways to keep n messages: the i-th kept is the f[i]-th, and they keep their
\* order.
Choices(n) ==
    {f \in [1 .. n -> DOMAIN pending] : \A i, j \in 1 .. n : i < j => f[i] < f[j]}

\* The others are lost.
Lose ==
    /\ UNCHANGED <<accepted, delivered>>
    /\ pending' # pending
    /\ \E f \in Choices(Len(pending')) :
          pending' = [i \in DOMAIN f |-> pending[f[i]]]

Next ==
    \/ \E m \in Messages : Publish(m)
    \/ Deliver
    \/ Lose

Spec == Init /\ [][Next]_pipeVars

=============================================================================
