----------------------------- MODULE MQTTSystem -----------------------------
(***************************************************************************)
(* A client, its connection and the broker, composed, and what they must   *)
(* guarantee together.  The actions of the client leave the broker alone,  *)
(* those of the broker and the network leave the client's own variables    *)
(* alone; they meet in the two streams.                                    *)
(***************************************************************************)
EXTENDS MQTTClient, Broker

vars == <<clientVars, tcpVars, brokerVars>>

Init == ClientInit /\ TcpInit /\ BrokerInit

Next ==
    \/ Application /\ UNCHANGED brokerVars
    \/ LoopCall /\ UNCHANGED brokerVars
    \/ Loop /\ UNCHANGED brokerVars
    \/ RunTask /\ UNCHANGED brokerVars
    \/ DelayElapses /\ UNCHANGED brokerVars
    \/ Network /\ UNCHANGED <<clientVars, brokerVars>>
    \/ BrokerStep /\ UNCHANGED clientVars

Spec == Init /\ [][Next]_vars

\* The application calls loop() again and again and its thread is scheduled;
\* time passes; the network ends handshakes and delivers what was sent; the
\* broker takes what it gets.  A call that may fail for now (EAGAIN, a timeout
\* that is over at once) succeeds if it is tried again and again.  Nothing is
\* assumed of the application's other calls and of faults.
Fairness ==
    /\ WF_vars(LoopCall /\ UNCHANGED brokerVars)
    /\ WF_vars(Loop /\ UNCHANGED brokerVars)
    /\ WF_vars(RunTask /\ UNCHANGED brokerVars)
    /\ WF_vars(DelayElapses /\ UNCHANGED brokerVars)
    /\ WF_vars(Establish /\ UNCHANGED <<clientVars, brokerVars>>)
    /\ WF_vars(Arrive /\ UNCHANGED <<clientVars, brokerVars>>)
    /\ WF_vars(Tick /\ UNCHANGED <<clientVars, brokerVars>>)
    /\ WF_vars(Take /\ UNCHANGED clientVars)
    /\ SF_vars(CheckConnectDone /\ UNCHANGED brokerVars)
    /\ SF_vars((SendAll \/ SendDisconnect) /\ UNCHANGED brokerVars)
    /\ SF_vars((BlockPoll \/ BlockIdle) /\ UNCHANGED brokerVars)

FairSpec == Spec /\ Fairness

-----------------------------------------------------------------------------
(* Safety. *)

\* Every variable holds a value of its type.
TypeOK == ClientTypeOK /\ TcpTypeOK /\ BrokerTypeOK

Incomplete(task) == task.kind \in Receiving /\ task.resp = NoPacket

\* Two lambdas of enqueueRecvPacketFront never read from the stream by turns:
\* one that still reads is the first task, and mCurrentlyReceivingPacket keeps
\* loop() from adding a second one (MQTTClient.cpp:199, 217, 227).
OneReceiver ==
    \A i \in DOMAIN mTaskQueue :
        Incomplete(mTaskQueue[i]) => i = 1 /\ mCurrentlyReceivingPacket

\* The tasks that use mClient without a test.
Dereferences(task) == task.kind \in {"checkConnect", "send"} \/ Incomplete(task)

\* No task runs into an empty mClient (an optional: undefined behaviour),
\* whatever order of violations, failures and reconnects led there.
NoNullDeref == pc = "run" /\ mSocket = "none" => ~Dereferences(Head(mTaskQueue))

Reconnecting == \E i \in DOMAIN mTaskQueue : mTaskQueue[i].kind = "tcpConnect"

\* The tasks that write to the stream.
Writers == {i \in DOMAIN mTaskQueue : mTaskQueue[i].kind \in {"prepare", "send"}}

\* A packet cut in two by send() is finished before any other byte is written,
\* and its rest is never written to another connection than its first part:
\* enqueueSendFront keeps the rest in front, and drops it on reconnect.
Framing ==
    /\ \A i \in DOMAIN mTaskQueue : mTaskQueue[i].rest => cut = mTaskQueue[i].req
    /\ cut # NoPacket /\ ~Reconnecting =>
          \E i \in Writers : /\ mTaskQueue[i].rest
                             /\ \A j \in Writers : i <= j

\* On every connection the client writes CONNECT first and once, and nothing
\* else before the broker has accepted it (the order connectMqtt sets up).
ConnectFirst ==
    [][Len(outbox') > Len(outbox)
          => (Last(outbox').type = "CONNECT" <=> ~session)]_vars

\* The reads a receiver has done are those done of the packet at the head of
\* the stream, so that no byte is taken for a type or a length that is not one.
ReadsDone == [recvType |-> 0, recvLength |-> 1, recvBody |-> 2]
Reader == IF mTaskQueue # <<>> /\ Incomplete(Head(mTaskQueue))
          THEN ReadsDone[Head(mTaskQueue).kind] ELSE 0
StreamInSync == inbox # <<>> /\ ~Reconnecting => Head(inbox).read = Reader

\* A request the broker has still to answer, and an answer still to be read,
\* is one the first task waits for: no receive without a handler swallows it
\* (the connection is lock-step: the reply is awaited before the next task).
AwaitsReply == /\ mTaskQueue # <<>>
               /\ Head(mTaskQueue).kind \in Receiving
               /\ Head(mTaskQueue).req # NoPacket
ReplyIsAwaited ==
    ~Reconnecting =>
        /\ \A i \in DOMAIN outbox : outbox[i].type \in Requests =>
              AwaitsReply /\ Head(mTaskQueue).req = outbox[i]
        /\ \A i \in DOMAIN inbox : inbox[i].pkt.type \in Replies => AwaitsReply

\* A subscribe() call that no unsubscribe() has revoked is always either
\* registered or queued, never both and never twice, across any number of
\* reconnects (hpp:79-81: all previously specified topics).
QueuedSubscribes(s) ==
    {i \in DOMAIN mTaskQueue : /\ mTaskQueue[i].kind = "prepare"
                               /\ mTaskQueue[i].req.type = "SUBSCRIBE"
                               /\ mTaskQueue[i].req.arg = s}
SubscriptionKept ==
    ~mDisconnected =>
        \A s \in subscribed \ cancelled :
            Cardinality(QueuedSubscribes(s)) = IF s \in callbacks THEN 0 ELSE 1

\* When nothing is left to do on a connection the broker has accepted, it holds
\* a subscription for every callback that is registered, and none for a topic
\* whose callbacks are gone: no UNSUBSCRIBE is lost but with its session
\* (MQTTClient.cpp:80-84, 119-138).
Quiescent == mTaskQueue = <<>> /\ mSocket = "up" /\ session
RegisteredIsSubscribed ==
    Quiescent => /\ \A s \in callbacks \ cancelled : TopicOf[s] \in brokerSubs
                 /\ \A t \in brokerSubs : Matching(t) # {}

\* After disconnect() has written its packet nothing is left that could fail:
\* loop() never reports EXCEPTION_AFTER_DISCONNECT.
DisconnectIsFinal ==
    /\ mDisconnected => mTaskQueue = <<>> /\ mSocket = "none"
    /\ ret # "EXCEPTION_AFTER_DISCONNECT"

\* At most one PINGREQ is queued, and mPingIsScheduled is set while it is,
\* whether or not the connection was replaced in between.
Pings == {i \in DOMAIN mTaskQueue : /\ mTaskQueue[i].kind \in {"prepare", "send"}
                                    /\ mTaskQueue[i].req.type = "PINGREQ"}
OnePing == /\ Cardinality(Pings) <= 1
           /\ Pings # {} => mPingIsScheduled

-----------------------------------------------------------------------------
(* Why OneReceiver, NoNullDeref and DisconnectIsFinal hold: an inductive       *)
(* invariant (proved in SafetyProofs).                                         *)

\* A task is run only when there is one.
QueueHasTask == pc \in {"run", "callback"} => mTaskQueue # <<>>

\* No receive outlives the connection it reads from.
ReceiversDropped ==
    \A i \in DOMAIN mTaskQueue :
        mTaskQueue[i].kind \in Receiving => ~mTaskQueue[i].keep

\* Without a socket there is nothing left to do, or the next task opens one,
\* or the reply that made the client drop the socket is still in front, because
\* the tries are used up, and is handled once more.
Reconnects(task) == \/ task.kind = "tcpConnect"
                    \/ task.kind = "handle" /\ Violates(task.req, task.resp)
NoSocketNoWork ==
    mSocket = "none" =>
        IF mTaskQueue = <<>> THEN mDisconnected ELSE Reconnects(Head(mTaskQueue))

\* Callbacks run on a connection.
CallbackHasSocket == pc = "callback" => mSocket # "none"

\* The five facts hold together from step to step.
SafetyInv == /\ QueueHasTask /\ OneReceiver /\ ReceiversDropped
             /\ NoSocketNoWork /\ CallbackHasSocket /\ DisconnectIsFinal

-----------------------------------------------------------------------------
(* Refinement: publish() promises what AtMostOnce says. *)

\* The messages of the PUBLISH packets among packets, in their order.
PublishAt(packets) == {i \in DOMAIN packets : packets[i].type = "PUBLISH"}
MessagesOf(packets) ==
    At([i \in DOMAIN packets |-> packets[i].arg], PublishAt(packets))

\* What has been written, then what the queue will write.
ToWrite(task) == IF task.kind \in {"prepare", "send"} THEN task.req ELSE NoPacket
OnTheWay ==
    MessagesOf(outbox \o [i \in DOMAIN mTaskQueue |-> ToWrite(mTaskQueue[i])])

Pipe == INSTANCE AtMostOnce WITH accepted <- Range(published),
                                 pending <- OnTheWay,
                                 delivered <- received

\* Whatever breaks and reconnects, messages arrive in the order of the
\* publish() calls, none of them twice (QoS 0, MQTTClient.cpp:35).
PipeSpec == Pipe!Spec

-----------------------------------------------------------------------------
(* Liveness. *)

\* A message published before disconnect() was called arrives, as long as no
\* connection breaks that was once established.
MessagesArrive ==
    \A m \in Messages :
        m \in Range(published) /\ ~disconnecting ~> m \in Range(received)

\* disconnect() is carried out in the end, however often connecting fails.
DisconnectEnds == disconnecting ~> mDisconnected

\* In the end, and for good, the broker holds every subscription the
\* application has made and not revoked, unless it disconnects: the client
\* resubscribes after each loss of the connection.
SubscriptionsLast ==
    \A s \in Subs :
        <>[](s \in subscribed \ cancelled /\ ~disconnecting
                => TopicOf[s] \in brokerSubs)

-----------------------------------------------------------------------------
(* What the documentation says, and the code does not do. *)

\* "you have to wait until MQTTClient::loop returns EVERYTHING_DONE ... until
\* you can safely destruct this object" (MQTTClient.hpp:149-152).
DoneMeansDisconnected ==
    [][pc # "out" /\ pc' = "out" /\ ret' = "EVERYTHING_DONE" /\ disconnecting
          => mDisconnected']_vars

\* "This will also delete all registered handlers for that topic immediately"
\* (MQTTClient.hpp:129-130).
UnsubscribeIsImmediate == callbacks \cap cancelled = {}

\* loop() accuses the server of a violation only when it has committed one
\* (MQTTClient.cpp:147, 245).
ViolationIsReal ==
    pc = "run" /\ Head(mTaskQueue).kind = "handle" /\ faults = 0
        => ~Violates(Head(mTaskQueue).req, Head(mTaskQueue).resp)

\* "we have KeepAliveInterval * 1.5 seconds to send the ping" and "ensure that we
\* never block longer than durationToNextPing" (MQTTClient.cpp:236, 179): a
\* connection in use that has been silent for the interval is not silent for ever.
KeptAlive ==
    (mSocket = "up" /\ session /\ ~disconnecting /\ sinceSend >= KeepAlive)
        ~> (mSocket # "up" \/ sinceSend < KeepAlive)

=============================================================================
