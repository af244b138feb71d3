----------------------------- MODULE MQTTClient -----------------------------
(***************************************************************************)
(* MQTTClient.cpp: the task queue, the calls of the application that fill  *)
(* it, and loop(), which empties it and reconnects.                        *)
(*                                                                         *)
(* A task is a lambda of the source.  Its kind says which one:             *)
(*   tcpConnect, checkConnect   the first two tasks of connectMqtt         *)
(*   prepare    builds the packet req and hands it to enqueueSendFront     *)
(*   send       the lambda of enqueueSendFront; rest: a prefix is written  *)
(*   recvType, recvLength, recvBody   the three lambdas of                 *)
(*              enqueueRecvPacketFront, expecting the reply to req, or     *)
(*              nothing (req = NoPacket); resp: the packet once complete   *)
(*   handle     the lambda that runs onDone on the reply resp to req       *)
(* keep is TRUE for OnDisconnect::KEEP_ME.                                 *)
(*                                                                         *)
(* loop() holds mMutex from entry to return, so the application can call   *)
(* only outside loop() or, the mutex being recursive, from a callback.     *)
(* Between two steps of loop() the network moves.  pc says where loop() is:*)
(*   out       not running                                                 *)
(*   enter     line 214, block   line 263: blockUntilThereIsSomethingToDo  *)
(*   poll      inside poll()                                               *)
(*   while     the head of the while loop, up to the task                  *)
(*   run       about to run the first task                                 *)
(*   callback  inside the application's callback run by the first task     *)
(***************************************************************************)
EXTENDS TcpUnix, Positions, SequencesExt

CONSTANTS
    MaxRetries,       \* mMaxRetries; negative: no limit
    LoopModes,        \* the arguments loop() is called with
    MaxUnsubscribes   \* bound: unsubscribe() calls in one behaviour

ASSUME ClientAssumption ==
    /\ MaxRetries \in Int
    /\ MaxUnsubscribes \in Nat
    /\ LoopModes \subseteq [timeout : {"zero", "some", "none"}, select : BOOLEAN]

VARIABLES
    mTaskQueue, callbacks, mCurrentlyReceivingPacket, mDisconnected, mTries,
    mPingIsScheduled, mPacketIdentifierCounter,
    waiting,      \* less than the retry delay since mLastReconnect
    pc, mode,     \* where loop() is, and its arguments
    forever,      \* poll() was given a negative timeout
    ret,          \* what the last loop() returned, or "THROWN"
    published,    \* the messages accepted by publish(), in order
    subscribed,   \* the subscribe() calls accepted
    cancelled,    \* those an unsubscribe() call has revoked since
    unsubscribes, \* number of unsubscribe() calls
    disconnecting \* disconnect() was accepted

taskVars == <<mTaskQueue, callbacks, mCurrentlyReceivingPacket, mDisconnected,
              mTries, mPingIsScheduled, mPacketIdentifierCounter, waiting>>
loopVars == <<pc, mode, forever, ret>>
callVars == <<published, subscribed, cancelled, unsubscribes, disconnecting>>
clientVars == <<taskVars, loopVars, callVars>>

Receiving == {"recvType", "recvLength", "recvBody"}
TaskKinds == Receiving \cup
             {"tcpConnect", "checkConnect", "prepare", "send", "handle"}
Task == [kind : TaskKinds, keep : BOOLEAN, req : Outgoing, resp : Packet,
         rest : BOOLEAN]

MakeTask(kind, keep, req) == [kind |-> kind, keep |-> keep, req |-> req,
                              resp |-> NoPacket, rest |-> FALSE]

Idle == [timeout |-> "none", select |-> FALSE]
Statuses == {"TIMEOUT", "EVERYTHING_DONE", "EXCEPTION_AFTER_DISCONNECT"}

ClientTypeOK ==
    /\ mTaskQueue \in Seq(Task)
    /\ callbacks \in SUBSET Subs /\ IsFiniteSet(callbacks)
    /\ mCurrentlyReceivingPacket \in BOOLEAN
    /\ mDisconnected \in BOOLEAN
    /\ mTries \in Nat
    /\ mPingIsScheduled \in BOOLEAN
    /\ mPacketIdentifierCounter \in PacketIds
    /\ waiting \in BOOLEAN
    /\ pc \in {"out", "enter", "block", "poll", "while", "run", "callback"}
    /\ mode \in LoopModes \cup {Idle}
    /\ forever \in BOOLEAN
    /\ ret \in Statuses \cup {"none", "THROWN"}
    /\ published \in Seq(Messages)
    /\ subscribed \in SUBSET Subs
    /\ cancelled \in SUBSET Subs
    /\ unsubscribes \in 0 .. MaxUnsubscribes
    /\ disconnecting \in BOOLEAN

-----------------------------------------------------------------------------
(* The tasks connectMqtt and the calls of the application enqueue. *)

\* Operators named ...Mutant change the operator that follows the way a slip in
\* the code would; no module uses them (README, "Mutants").
PublishTaskMutant(m) == MakeTask("prepare", FALSE, MakePacket("PUBLISH", 0, m))
SubscribeTaskMutant(s) == MakeTask("prepare", FALSE, MakePacket("SUBSCRIBE", 0, s))
DisconnectTaskMutant == MakeTask("prepare", FALSE, MakePacket("DISCONNECT", 0, "ok"))

PublishTask(m) == MakeTask("prepare", TRUE, MakePacket("PUBLISH", 0, m))
SubscribeTask(s) == MakeTask("prepare", TRUE, MakePacket("SUBSCRIBE", 0, s))
UnsubscribeTask(t) == MakeTask("prepare", FALSE, MakePacket("UNSUBSCRIBE", 0, t))
PingTask == MakeTask("prepare", FALSE, MakePacket("PINGREQ", 0, "ok"))
DisconnectTask == MakeTask("prepare", TRUE, MakePacket("DISCONNECT", 0, "ok"))

ConnectTasks == << MakeTask("tcpConnect", FALSE, NoPacket),
                   MakeTask("checkConnect", FALSE, NoPacket),
                   MakeTask("prepare", FALSE, MakePacket("CONNECT", 0, "ok")) >>

\* Only the packets of publish() and disconnect() are sent as KEEP_ME.
KeepSend(p) == p.type \in {"PUBLISH", "DISCONNECT"}

\* The rest is as KEEP_ME as the packet was.
KeepRemainderMutant(p) == KeepSend(p)

\* What is left of a packet must not open the next connection's stream.
KeepRemainder(p) == FALSE

SendTask(p) == MakeTask("send", KeepSend(p), p)
RestTask(p, written) == [kind |-> "send", keep |-> KeepRemainder(p), req |-> p,
                         resp |-> NoPacket, rest |-> written]
RecvTask(req) == MakeTask("recvType", FALSE, req)
Completed(task, p) == [task EXCEPT !.kind = "recvBody", !.resp = p]
HandleTask(task) == [task EXCEPT !.kind = "handle"]

\* The KEEP_ME tasks of a queue, in order (the loop over mTaskQueue at the top
\* of connectMqtt): SelectSeq, written without recursion.
KeptAtMutant(q) == DOMAIN q
KeptAt(q) == {i \in DOMAIN q : q[i].keep}
Kept(q) == [n \in 1 .. Cardinality(KeptAt(q)) |-> q[Nth(KeptAt(q), n)]]

ClientInit ==
    /\ mTaskQueue = ConnectTasks
    /\ callbacks = {}
    /\ mCurrentlyReceivingPacket = FALSE
    /\ mDisconnected = FALSE
    /\ mTries = 0
    /\ mPingIsScheduled = FALSE
    /\ mPacketIdentifierCounter = 1
    /\ waiting = FALSE
    /\ pc = "out" /\ mode = Idle /\ forever = FALSE /\ ret = "none"
    /\ published = <<>> /\ subscribed = {} /\ cancelled = {}
    /\ unsubscribes = 0 /\ disconnecting = FALSE

-----------------------------------------------------------------------------
(* Returning from loop(), going on with it, and its catch clause. *)

Return(status) ==
    /\ pc' = "out" /\ mode' = Idle /\ forever' = FALSE
    /\ ret' = status

Goto(label) == pc' = label /\ UNCHANGED <<mode, forever, ret>>

\* After a task that returned OK or REPEAT_ME: 0ms is always over, no timeout
\* never, any other timeout may be.
AfterTask ==
    \/ mode.timeout # "none" /\ Return("TIMEOUT")
    \/ mode.timeout # "zero" /\ Goto("block")

\* The new connection's tasks at the back; the callbacks not subscribed again.
ConnectBehindMutant ==
    /\ \E order \in SetToSeqs(callbacks) :
          mTaskQueue' = Kept(mTaskQueue) \o ConnectTasks \o
                        [i \in DOMAIN order |-> SubscribeTask(order[i])]
    /\ callbacks' = {}
NoResubscribeMutant ==
    /\ mTaskQueue' = ConnectTasks \o Kept(mTaskQueue)
    /\ UNCHANGED callbacks

\* connectMqtt.  callbacks stands for mSimpleCallbacks and mAdvancedCallbacks;
\* the order of resubscription is that of a hash table.
connectMqtt ==
    /\ \E order \in SetToSeqs(callbacks) :
          mTaskQueue' = ConnectTasks \o Kept(mTaskQueue) \o
                        [i \in DOMAIN order |-> SubscribeTask(order[i])]
    /\ callbacks' = {}

MayRetry(tries) == tries < MaxRetries \/ MaxRetries < 0

\* The catch clause of loop(); the task that threw is still in the queue.
Catch(tries) ==
    /\ mTries' = tries
    /\ IF mDisconnected
       THEN Return("EXCEPTION_AFTER_DISCONNECT") /\
            UNCHANGED <<waiting, mTaskQueue, callbacks>>
       ELSE /\ waiting' = TRUE
            /\ IF MayRetry(tries)
               THEN connectMqtt /\ Return("EVERYTHING_DONE")
               ELSE Return("THROWN") /\ UNCHANGED <<mTaskQueue, callbacks>>
    /\ UNCHANGED <<mCurrentlyReceivingPacket, mDisconnected, mPingIsScheduled,
                   mPacketIdentifierCounter, callVars>>

-----------------------------------------------------------------------------
(* The calls of the application. *)

\* The topic's callbacks that handlePublishReceived runs.
Matching(topic) == {s \in callbacks : TopicOf[s] = topic}

Received == Head(mTaskQueue).resp
InOnConnect == pc = "callback" /\ Head(mTaskQueue).kind = "handle"
InOnMessage == /\ pc = "callback"
               /\ Head(mTaskQueue).kind = "recvBody"
               /\ Matching(Received.arg) # {}

MayCallMutant == pc = "out" \/ InOnConnect \/ InOnMessage
MayCall == (pc = "out" \/ InOnConnect \/ InOnMessage) /\ ~mDisconnected

EnqueueMutant(task) ==
    /\ mTaskQueue' = <<task>> \o mTaskQueue
    /\ UNCHANGED <<mCurrentlyReceivingPacket, mDisconnected, mTries,
                   mPingIsScheduled, mPacketIdentifierCounter, waiting>>
    /\ UNCHANGED <<loopVars, tcpVars>>

Enqueue(task) ==
    /\ mTaskQueue' = Append(mTaskQueue, task)
    /\ UNCHANGED <<mCurrentlyReceivingPacket, mDisconnected, mTries,
                   mPingIsScheduled, mPacketIdentifierCounter, waiting>>
    /\ UNCHANGED <<loopVars, tcpVars>>

publish(m) ==
    /\ MayCall
    /\ m \notin Range(published)
    /\ published' = Append(published, m)
    /\ Enqueue(PublishTask(m))
    /\ UNCHANGED <<callbacks, subscribed, cancelled, unsubscribes, disconnecting>>

subscribe(s) ==
    /\ MayCall
    /\ s \notin subscribed
    /\ subscribed' = subscribed \cup {s}
    /\ Enqueue(SubscribeTask(s))
    /\ UNCHANGED <<callbacks, published, cancelled, unsubscribes, disconnecting>>

\* Erasing a callback from inside a message callback would erase from the
\* container handlePublishReceived iterates over: not called there.
unsubscribe(t) ==
    /\ MayCall
    /\ ~InOnMessage
    /\ unsubscribes < MaxUnsubscribes
    /\ unsubscribes' = unsubscribes + 1
    /\ cancelled' = cancelled \cup {s \in subscribed : TopicOf[s] = t}
    /\ callbacks' = callbacks \ Matching(t)
    /\ Enqueue(UnsubscribeTask(t))
    /\ UNCHANGED <<published, subscribed, disconnecting>>

disconnect ==
    /\ MayCall
    /\ ~disconnecting
    /\ disconnecting' = TRUE
    /\ Enqueue(DisconnectTask)
    /\ UNCHANGED <<callbacks, published, subscribed, cancelled, unsubscribes>>

Application ==
    \/ \E m \in Messages : publish(m)
    \/ \E s \in Subs : subscribe(s)
    \/ \E t \in Topics : unsubscribe(t)
    \/ disconnect

-----------------------------------------------------------------------------
(* loop() up to the task. *)

LoopCall ==
    /\ pc = "out"
    /\ pc' = "enter"
    /\ mode' \in LoopModes
    /\ ret' = "none"
    /\ UNCHANGED <<forever, taskVars, callVars, tcpVars>>

\* Data nobody waits for is probably a PUBLISH.
UnexpectedMutant == isDataAvailable
Unexpected == isDataAvailable /\ ~mCurrentlyReceivingPacket

PingDueMutant == mSocket # "none" /\ sinceSend >= KeepAlive
PingDue == /\ mSocket # "none"
           /\ sinceSend >= KeepAlive
           /\ ~mPingIsScheduled

WithReceive == IF Unexpected THEN <<RecvTask(NoPacket)>> \o mTaskQueue
                             ELSE mTaskQueue

FlagWithReceiveMutant == mCurrentlyReceivingPacket
FlagWithReceive == mCurrentlyReceivingPacket \/ Unexpected

\* Lines 197-208 and 225-239.
IdleWork ==
    /\ mTaskQueue' = IF PingDue THEN Append(WithReceive, PingTask)
                                ELSE WithReceive
    /\ mCurrentlyReceivingPacket' = FlagWithReceive
    /\ mPingIsScheduled' = (mPingIsScheduled \/ PingDue)
    /\ UNCHANGED <<callbacks, mDisconnected, mTries, mPacketIdentifierCounter,
                   waiting, callVars>>

\* The timeout is over when blockUntilThereIsSomethingToDo is called.  Before
\* the while loop a receive is still enqueued (lines 215-223), but no ping.
BlockSkip ==
    /\ pc \in {"enter", "block"}
    /\ mode.timeout # "none"
    /\ IF pc = "enter"
       THEN /\ mTaskQueue' = WithReceive
            /\ mCurrentlyReceivingPacket' = FlagWithReceive
       ELSE UNCHANGED <<mTaskQueue, mCurrentlyReceivingPacket>>
    /\ Goto("while")
    /\ UNCHANGED <<callbacks, mDisconnected, mTries, mPingIsScheduled,
                   mPacketIdentifierCounter, waiting, callVars, tcpVars>>

MayPoll == mSocket # "none" /\ mode.select /\ mTaskQueue = <<>>

BlockPoll ==
    /\ pc \in {"enter", "block"}
    /\ mode.timeout # "zero"
    /\ MayPoll /\ "CONNECTED" \in ConnectState
    /\ pc' = "poll"
    /\ forever' = (sinceSend > KeepAlive)
    /\ UNCHANGED <<mode, ret, taskVars, callVars, tcpVars>>

\* No poll().  getConnectState(), if it was called, has cleared the error.
BlockIdle ==
    /\ pc \in {"enter", "block"}
    /\ mode.timeout # "zero"
    /\ ~MayPoll \/ "CANT_CONNECT" \in ConnectState
    /\ IF MayPoll THEN TcpTakeError ELSE UNCHANGED tcpVars
    /\ IdleWork
    /\ Goto("while")

Polled == pc' = "while" /\ forever' = FALSE /\ UNCHANGED <<mode, ret>>

\* poll() reported data, and there is some.
PollData ==
    /\ pc = "poll"
    /\ blockUntilDataAvailable = "DATA_AVAILABLE" /\ Unexpected
    /\ IdleWork
    /\ Polled
    /\ UNCHANGED tcpVars

\* It threw, or reported data where there is none: the peer has closed.
PollThrows ==
    /\ pc = "poll"
    /\ \/ blockUntilDataAvailable = "throws"
       \/ blockUntilDataAvailable = "DATA_AVAILABLE" /\ ~Unexpected
    /\ Catch(mTries)
    /\ UNCHANGED tcpVars

\* Its timeout, the keep alive interval less the time since the last send cut
\* to what is left of the caller's, is over.
PollTimeout ==
    /\ pc = "poll"
    /\ ~forever
    /\ blockUntilDataAvailable = "TIMEOUT"
    /\ mode.timeout = "some" \/ sinceSend >= KeepAlive
    /\ IdleWork
    /\ Polled
    /\ UNCHANGED tcpVars

WhileDone ==
    /\ pc = "while"
    /\ mTaskQueue = <<>>
    /\ Return("EVERYTHING_DONE")
    /\ UNCHANGED <<taskVars, callVars, tcpVars>>

WhileTask ==
    /\ pc = "while"
    /\ mTaskQueue # <<>>
    /\ IdleWork
    /\ Goto("run")
    /\ UNCHANGED tcpVars

-----------------------------------------------------------------------------
(* The tasks.  Running(kind) is the call of the first task in loop(). *)

Running(kind) ==
    /\ pc = "run"
    /\ Head(mTaskQueue).kind = kind

This == Head(mTaskQueue)
Others == Tail(mTaskQueue)

\* REPEAT_ME: the task goes back to the front.
Repeat == UNCHANGED <<taskVars, callVars>> /\ AfterTask

\* OK: the task is erased; what it enqueued in front stays in front.
ReplaceBy(tasks) == mTaskQueue' = tasks \o Others

\* The lambda that opens the connection.
TcpConnectWaits == Running("tcpConnect") /\ waiting /\ Repeat /\ UNCHANGED tcpVars

TcpConnectOpens ==
    /\ Running("tcpConnect") /\ ~waiting
    /\ TcpOpen
    /\ waiting' = TRUE
    /\ mTries' = mTries + 1
    /\ ReplaceBy(<<>>)
    /\ AfterTask
    /\ UNCHANGED <<callbacks, mCurrentlyReceivingPacket, mDisconnected,
                   mPingIsScheduled, mPacketIdentifierCounter, callVars>>

TcpConnectThrows ==
    /\ Running("tcpConnect") /\ ~waiting
    /\ TcpOpenThrows
    /\ Catch(mTries + 1)

CheckConnectRepeats ==
    /\ Running("checkConnect")
    /\ "IN_PROGRESS" \in ConnectState
    /\ Repeat /\ UNCHANGED tcpVars

CheckConnectDone ==
    /\ Running("checkConnect")
    /\ "CONNECTED" \in ConnectState
    /\ ReplaceBy(<<>>)
    /\ AfterTask
    /\ UNCHANGED <<callbacks, mCurrentlyReceivingPacket, mDisconnected, mTries,
                   mPingIsScheduled, mPacketIdentifierCounter, waiting>>
    /\ UNCHANGED <<callVars, tcpVars>>

CheckConnectThrows ==
    /\ Running("checkConnect")
    /\ "CANT_CONNECT" \in ConnectState
    /\ TcpTakeError
    /\ Catch(mTries)

\* Building a packet: SUBSCRIBE and UNSUBSCRIBE take a packet identifier, and
\* only now does the callback of a subscribe() get registered.
Numbered(p) == p.type \in {"SUBSCRIBE", "UNSUBSCRIBE"}

Prepare ==
    /\ Running("prepare")
    /\ LET p == This.req IN
         IF Numbered(p)
         THEN /\ ReplaceBy(<<SendTask([p EXCEPT !.id = mPacketIdentifierCounter])>>)
              /\ mPacketIdentifierCounter' = NextId(mPacketIdentifierCounter)
              /\ callbacks' = callbacks \cup
                              IF p.type = "SUBSCRIBE" THEN {p.arg} ELSE {}
         ELSE /\ ReplaceBy(<<SendTask(p)>>)
              /\ UNCHANGED <<mPacketIdentifierCounter, callbacks>>
    /\ AfterTask
    /\ UNCHANGED <<mCurrentlyReceivingPacket, mDisconnected, mTries,
                   mPingIsScheduled, waiting, callVars, tcpVars>>

\* enqueueSendFront, all bytes written: onDone of the packet runs.
SendAll ==
    /\ Running("send")
    /\ This.req.type # "DISCONNECT"
    /\ TcpSendAll(This.req)
    /\ IF This.req.type \in Requests
       THEN ReplaceBy(<<RecvTask(This.req)>>) /\ mCurrentlyReceivingPacket' = TRUE
       ELSE ReplaceBy(<<>>) /\ UNCHANGED mCurrentlyReceivingPacket
    /\ mPingIsScheduled' = (mPingIsScheduled /\ This.req.type # "PINGREQ")
    /\ AfterTask
    /\ UNCHANGED <<callbacks, mDisconnected, mTries, mPacketIdentifierCounter,
                   waiting, callVars>>

\* onDone of DISCONNECT resets mClient and clears the queue.
SendDisconnect ==
    /\ Running("send")
    /\ This.req.type = "DISCONNECT"
    /\ TcpSendAllAndClose(This.req)
    /\ mDisconnected' = TRUE
    /\ mTaskQueue' = <<>>
    /\ Return("EVERYTHING_DONE")
    /\ UNCHANGED <<callbacks, mCurrentlyReceivingPacket, mTries, mPingIsScheduled,
                   mPacketIdentifierCounter, waiting, callVars>>

SendRest(written) ==
    /\ ReplaceBy(<<RestTask(This.req, written)>>)
    /\ AfterTask
    /\ UNCHANGED <<callbacks, mCurrentlyReceivingPacket, mDisconnected, mTries,
                   mPingIsScheduled, mPacketIdentifierCounter, waiting, callVars>>

SendPart == Running("send") /\ TcpSendPart(This.req) /\ SendRest(TRUE)
SendNone == Running("send") /\ TcpSendNone /\ SendRest(This.rest)
SendThrows == Running("send") /\ TcpSendThrows /\ Catch(mTries)

\* enqueueRecvPacketFront: a read that yields nothing repeats the task.
ReceiveNone ==
    /\ \E kind \in Receiving : Running(kind)
    /\ This.resp = NoPacket
    /\ TcpRecvNone
    /\ Repeat

ReceiveThrows ==
    /\ \E kind \in Receiving : Running(kind)
    /\ This.resp = NoPacket
    /\ TcpRecvThrows
    /\ Catch(mTries)

\* One more read succeeds.  The packet is complete once it leaves the inbox.
Receive ==
    /\ \E kind \in Receiving : Running(kind)
    /\ This.resp = NoPacket
    /\ TcpRecv
    /\ ReplaceBy(<< IF Len(inbox') < Len(inbox) THEN Completed(This, Head(inbox).pkt)
                    ELSE [This EXCEPT !.kind = IF @ = "recvType" THEN "recvLength"
                                                                 ELSE "recvBody"] >>)
    /\ AfterTask
    /\ UNCHANGED <<callbacks, mCurrentlyReceivingPacket, mDisconnected, mTries,
                   mPingIsScheduled, mPacketIdentifierCounter, waiting, callVars>>

\* All data received, a PUBLISH: handlePublishReceived runs its callbacks.
Dispatch ==
    /\ Running("recvBody")
    /\ This.resp.type = "PUBLISH"
    /\ mCurrentlyReceivingPacket' = FALSE
    /\ Goto("callback")
    /\ UNCHANGED <<mTaskQueue, callbacks, mDisconnected, mTries, mPingIsScheduled,
                   mPacketIdentifierCounter, waiting, callVars, tcpVars>>

\* ... and the packet that was expected is still to come.
Dispatched ==
    /\ pc = "callback" /\ This.kind = "recvBody"
    /\ IF This.req = NoPacket
       THEN ReplaceBy(<<>>) /\ UNCHANGED mCurrentlyReceivingPacket
       ELSE ReplaceBy(<<RecvTask(This.req)>>) /\ mCurrentlyReceivingPacket' = TRUE
    /\ AfterTask
    /\ UNCHANGED <<callbacks, mDisconnected, mTries, mPingIsScheduled,
                   mPacketIdentifierCounter, waiting, callVars, tcpVars>>

\* All data received, any other packet: onDone runs in a task of its own; a
\* packet nobody waits for is dropped.
Deliver ==
    /\ Running("recvBody")
    /\ This.resp # NoPacket /\ This.resp.type # "PUBLISH"
    /\ mCurrentlyReceivingPacket' = FALSE
    /\ ReplaceBy(IF This.req = NoPacket THEN <<>> ELSE <<HandleTask(This)>>)
    /\ AfterTask
    /\ UNCHANGED <<callbacks, mDisconnected, mTries, mPingIsScheduled,
                   mPacketIdentifierCounter, waiting, callVars, tcpVars>>

\* The tests the handlers of SUBACK and UNSUBACK make of the packet identifier:
\* only the first converts it from network order.
IdMatches(req, resp) ==
    CASE req.type = "SUBSCRIBE"   -> resp.id = req.id
      [] req.type = "UNSUBSCRIBE" -> ntohs(resp.id) = req.id
      [] OTHER                    -> TRUE

Violates(req, resp) ==
    \/ resp.type # ReplyTo[req.type]
    \/ ~IdMatches(req, resp)
    \/ resp.type = "CONNACK" /\ resp.arg = "badCode"

Refuses(req, resp) == resp.type = "CONNACK" /\ resp.arg = "refused"

\* The handler resets mClient, and loop() throws.
HandleViolation ==
    /\ Running("handle")
    /\ Violates(This.req, This.resp)
    /\ TcpClose
    /\ Catch(mTries)

\* Return codes 1..5 throw from the handler; the socket stays.
HandleRefusal ==
    /\ Running("handle")
    /\ ~Violates(This.req, This.resp) /\ Refuses(This.req, This.resp)
    /\ Catch(mTries)
    /\ UNCHANGED tcpVars

\* CONNACK accepted: the tries are over and the onConnect callback runs.
HandleConnack ==
    /\ Running("handle")
    /\ This.resp.type = "CONNACK"
    /\ ~Violates(This.req, This.resp) /\ ~Refuses(This.req, This.resp)
    /\ mTries' = 0
    /\ Goto("callback")
    /\ UNCHANGED <<mTaskQueue, callbacks, mCurrentlyReceivingPacket, mDisconnected,
                   mPingIsScheduled, mPacketIdentifierCounter, waiting, callVars,
                   tcpVars>>

Handled ==
    /\ \/ /\ Running("handle")
          /\ This.resp.type # "CONNACK"
          /\ ~Violates(This.req, This.resp)
       \/ InOnConnect
    /\ ReplaceBy(<<>>)
    /\ AfterTask
    /\ UNCHANGED <<callbacks, mCurrentlyReceivingPacket, mDisconnected, mTries,
                   mPingIsScheduled, mPacketIdentifierCounter, waiting, callVars,
                   tcpVars>>

\* The application's callback throws.
CallbackThrows ==
    /\ InOnConnect \/ InOnMessage
    /\ Inject("callback")
    /\ Catch(mTries)
    /\ UNCHANGED <<mSocket, again, sinceSend, inbox, outbox, cut, session>>

DelayElapses ==
    /\ waiting
    /\ waiting' = FALSE
    /\ UNCHANGED <<mTaskQueue, callbacks, mCurrentlyReceivingPacket, mDisconnected,
                   mTries, mPingIsScheduled, mPacketIdentifierCounter, loopVars,
                   callVars, tcpVars>>

Loop == \/ BlockSkip \/ BlockPoll \/ BlockIdle
        \/ PollData \/ PollThrows \/ PollTimeout
        \/ WhileDone \/ WhileTask

RunTask ==
    \/ TcpConnectWaits \/ TcpConnectOpens \/ TcpConnectThrows
    \/ CheckConnectRepeats \/ CheckConnectDone \/ CheckConnectThrows
    \/ Prepare
    \/ SendAll \/ SendDisconnect \/ SendPart \/ SendNone \/ SendThrows
    \/ ReceiveNone \/ ReceiveThrows \/ Receive
    \/ Dispatch \/ Dispatched \/ Deliver
    \/ HandleViolation \/ HandleRefusal \/ HandleConnack \/ Handled
    \/ CallbackThrows

=============================================================================
