------------------------ MODULE SubscriptionInvariant ------------------------
(***************************************************************************)
(* Why an idle client's callbacks are subscribed at the broker, and no     *)
(* other topic is (RegisteredIsSubscribed): an inductive invariant of      *)
(* MQTTSystem, proved in SubscriptionProofs.                               *)
(***************************************************************************)
EXTENDS StreamInvariant

-----------------------------------------------------------------------------
(* The queue. *)

\* What is subscribed was asked for, and what survives a reconnect is what was
\* not yet prepared.
FitCall(task, asked) ==
    /\ task.req.type = "SUBSCRIBE" => /\ task.req.arg \in asked
                                      /\ task.keep => task.kind = "prepare"
    /\ task.req.type = "UNSUBSCRIBE" => ~task.keep

\* Task b unsubscribes what a subscribes.
Revokes(b, a) == /\ a.req.type = "SUBSCRIBE" /\ b.req.type = "UNSUBSCRIBE"
                 /\ TopicOf[a.req.arg] = b.req.arg

\* Task a may be in front of task b: a SUBSCRIBE being sent waits for nothing but
\* packets nobody asked for, and an UNSUBSCRIBE revokes the calls before it.
InTurn(a, b, gone) ==
    /\ b.kind = "send" /\ b.req.type = "SUBSCRIBE" => a.req = NoPacket
    /\ Revokes(b, a) => a.req.arg \in gone

CallsInTurn(q, asked, gone) ==
    /\ \A i \in DOMAIN q : FitCall(q[i], asked)
    /\ \A i, j \in DOMAIN q : i < j => InTurn(q[i], q[j], gone)

Unsubscribes(t) ==
    {task \in Task : task.req.type = "UNSUBSCRIBE" /\ task.req.arg = t}

\* What is registered was asked for, and is not about to be unsubscribed unless
\* it was revoked; on a new connection nothing is registered at first.
Registered ==
    /\ callbacks \subseteq subscribed
    /\ \A s \in callbacks \ cancelled : ~Has(mTaskQueue, Unsubscribes(TopicOf[s]))
    /\ Replacing \/ Has(mTaskQueue, Joiners) => callbacks = {}

-----------------------------------------------------------------------------
(* The requests on their way to the broker. *)

Serving == mSocket = "up" /\ session /\ ~Replacing

Subscribers(s) ==
    {task \in Task : /\ task.kind = "send"
                     /\ task.req.type = "SUBSCRIBE" /\ task.req.arg = s}
SubscribesTo(s) == {p \in Outgoing : p.type = "SUBSCRIBE" /\ p.arg = s}
IsSubscribing(s) == Has(mTaskQueue, Subscribers(s)) \/ Has(outbox, SubscribesTo(s))

Leavers(t) == {task \in Unsubscribes(t) : task.kind \in {"prepare", "send"}}
Leaves(t) == {p \in Outgoing : p.type = "UNSUBSCRIBE" /\ p.arg = t}
IsLeaving(t) == Has(mTaskQueue, Leavers(t)) \/ Has(outbox, Leaves(t))

\* A reply the handler of the request will not accept is in hand, or on its way:
\* the connection is about to be replaced.
Spoilt == {task \in Task : /\ task.kind \in Receiving \cup {"handle"}
                           /\ task.req.type \in Requests /\ task.resp.type \in Replies
                           /\ Violates(task.req, task.resp)}
BadAnswers(p) == {e \in Answers : p.type \in Requests /\ Violates(p, e.pkt)}
IsSpoilt == \/ Has(mTaskQueue, Spoilt)
            \/ AwaitsReply /\ Has(inbox, BadAnswers(Head(mTaskQueue).req))

\* The broker has, or is going to have, a subscription for every callback ...
NoneMissing ==
    \A s \in callbacks \ cancelled :
        TopicOf[s] \in brokerSubs \/ IsSubscribing(s) \/ IsSpoilt

\* ... and for nothing else.
NoneLeft ==
    /\ \A t \in brokerSubs : Matching(t) # {} \/ IsLeaving(t)
    /\ \A s \in Subs : IsSubscribing(s) =>
          Matching(TopicOf[s]) # {} \/ IsLeaving(TopicOf[s])

\* No session is older than its connection.
StartsFresh == mSocket = "connecting" => ~session

Linked == Serving => /\ "suback" \notin Faults => NoneMissing
                     /\ CleanSession => NoneLeft

SubscriptionInv == /\ CallsInTurn(mTaskQueue, subscribed, cancelled)
                   /\ Registered /\ StartsFresh
                   /\ MaxRetries # 0 => Linked

=============================================================================
