------------------------------ MODULE CliProofs ------------------------------
(***************************************************************************)
(* What the command line client does is what an application of MQTTSystem  *)
(* may do: what is proved of the client holds inside main().               *)
(***************************************************************************)
EXTENDS CliInvariant, OnceProofs, SubscriptionProofs

\* There is a message, or a subscription, for every call to come.
CallsInv == /\ next \in Nat \ {0}
            /\ calls \in 0 .. Len(SubAt)

LEMMA CallsStep == CallsInv /\ [CliNext]_cliVars => CallsInv'
<1> SUFFICES ASSUME CallsInv, [CliNext]_cliVars PROVE CallsInv'
  OBVIOUS
<1>1. CASE UNCHANGED mainVars
  BY <1>1 DEF mainVars, CallsInv
<1>2. CASE UNCHANGED cliVars
  BY <1>1, <1>2 DEF cliVars
<1>3. CASE \/ (InsideLoop \/ Outside) /\ MainWaits
           \/ CallLoop
  BY <1>1, <1>3 DEF MainWaits, CallLoop
<1>4. CASE PrintHelp \/ NoTopic \/ NothingToDo \/ Exit
  BY <1>1, <1>4 DEF PrintHelp, NoTopic, NothingToDo, Stops, Exit
<1>5. CASE Build
  BY <1>5 DEF Build, CallsInv
<1>6. CASE StartSubscribing \/ StartPublishing
  BY <1>6 DEF StartSubscribing, StartPublishing, Enough, CallsInv
<1>7. CASE PublishNext \/ SubscribeNext
  BY <1>7 DEF PublishNext, SubscribeNext, Stay, CallsInv
<1>8. CASE Disconnect \/ Subscribed
  BY <1>8 DEF Disconnect, Subscribed, Forget, CallsInv
<1> QED BY <1>1, <1>2, <1>3, <1>4, <1>5, <1>6, <1>7, <1>8 DEF CliNext, Main

\* The calls of main() are calls of an application.
LEMMA MainStep ==
    ASSUME CallsInv, Main, UNCHANGED brokerVars
    PROVE  [Next]_vars
<1>1. CASE UNCHANGED <<clientVars, tcpVars>>
  BY <1>1 DEF vars
<1>2. CASE PublishNext
  <2>1. publish(MessageAt[next]) /\ MessageAt[next] \in Messages
    <3>1. next \in DOMAIN MessageAt
      BY <1>2, CliAssumption DEF PublishNext, CallsInv
    <3> QED BY <1>2, <3>1, CliAssumption DEF PublishNext, Range
  <2> QED BY <2>1 DEF Next, Application
<1>3. CASE Disconnect
  BY <1>3 DEF Disconnect, Next, Application
<1>4. CASE SubscribeNext
  <2>1. subscribe(SubAt[next]) /\ SubAt[next] \in Subs
    <3>1. next \in DOMAIN SubAt
      BY <1>4, CliAssumption DEF SubscribeNext, CallsInv
    <3> QED BY <1>4, <3>1, CliAssumption DEF SubscribeNext, Range
  <2> QED BY <2>1 DEF Next, Application
<1>5. CASE Subscribed \/ Exit
  BY <1>1, <1>5 DEF Subscribed, Exit
<1>6. CASE CallLoop
  BY <1>6 DEF CallLoop, Next
<1> QED BY <1>1, <1>2, <1>3, <1>4, <1>5, <1>6 DEF Main

LEMMA CliStep == CallsInv /\ [CliNext]_cliVars => [Next]_vars
<1> SUFFICES ASSUME CallsInv, [CliNext]_cliVars PROVE [Next]_vars
  OBVIOUS
<1>1. CASE UNCHANGED cliVars
  BY <1>1 DEF cliVars
<1>2. CASE Main /\ UNCHANGED brokerVars
  BY <1>2, MainStep
<1>3. CASE InsideLoop
  BY <1>3 DEF InsideLoop, Next
<1>4. CASE Outside
  BY <1>4 DEF Outside, Next
<1> QED BY <1>1, <1>2, <1>3, <1>4 DEF CliNext

\* main() uses the client as an application may: whatever the command line, its
\* calls and the loop around loop() are a behaviour of MQTTSystem
\* (main.cpp:61-91).
THEOREM CliImplements == CliSpec => Spec
<1>1. CliInit => Init /\ CallsInv
  BY CliAssumption DEF CliInit, CallsInv
<1> QED BY <1>1, CliStep, CallsStep, PTL DEF CliSpec, Spec

\* Inside main() no reader disturbs another, the client uses no socket it has
\* not got and does nothing after its disconnect, packets are not mixed, and the
\* reads stay in step with them.
THEOREM CliIsSafe ==
    CliSpec => [](/\ OneReceiver /\ NoNullDeref /\ DisconnectIsFinal
                  /\ Framing /\ StreamInSync)
BY CliImplements, OneReceiverCorrect, NoNullDerefCorrect, DisconnectIsFinalCorrect,
   FramingCorrect, StreamInSyncCorrect, PTL

\* A topic given with -t is queued for subscription once or registered, whatever
\* breaks while main() runs for ever (main.cpp:61-70).
THEOREM CliKeepsSubscriptions == CliSpec => []SubscriptionKept
BY CliImplements, SubscriptionKeptCorrect, PTL

\* The messages given with -p arrive in the order of the command line, each once
\* or not at all, whatever breaks (main.cpp:78-91).
THEOREM CliPublishesInOrder == CliSpec => PipeSpec
BY CliImplements, PipeImplements, PTL

-----------------------------------------------------------------------------
(* A client that only publishes, while nothing fails. *)

LEMMA FineType ==
    ASSUME NEW p \in Outgoing, p.type \in Requests
    PROVE  /\ Fine(p) \in Packet /\ Fine(p).type \in Replies
           /\ Fine(p).type = ReplyTo[p.type] /\ Fine(p).id = p.id /\ Fine(p).arg = "ok"
           /\ Fine(p) # NoPacket /\ Fine(p).type # "PUBLISH"
<1>1. p \in Packet
  BY PacketTypes
<1>2. ReplyTo[p.type] \in Replies
  BY DEF Requests, ReplyTo, Replies
<1> QED BY <1>1, <1>2
       DEF Fine, MakePacket, Packet, Verdicts, MessageType, Replies, NoPacket

LEMMA LeavesBack ==
    ASSUME NEW q \in Seq(Task), NEW t \in Task, LeavesLast(q),
           t \notin Publishing \/ ~Has(q, Leaving)
    PROVE  LeavesLast(Append(q, t))
<1> DEFINE r == Append(q, t)
           n == Len(q)
<1>1. /\ n \in Nat /\ DOMAIN q = 1 .. n /\ DOMAIN r = 1 .. n + 1
      /\ \A i \in 1 .. n : r[i] = q[i]
      /\ r[n + 1] = t
  BY QueueBack
<1> HIDE DEF r, n
<1> SUFFICES ASSUME NEW i \in DOMAIN r, NEW j \in DOMAIN r, i < j,
                    r[i] \in Leaving, r[j] \in Publishing
             PROVE  FALSE
  BY DEF LeavesLast, r
<1>2. i \in DOMAIN q /\ r[i] = q[i]
  BY <1>1
<1>3. \/ j \in DOMAIN q /\ r[j] = q[j]
      \/ j = n + 1 /\ r[j] = t
  BY <1>1
<1> QED BY <1>2, <1>3 DEF LeavesLast, Has

LEMMA LeavesFront ==
    ASSUME NEW q \in Seq(Task), NEW t \in Task, LeavesLast(q),
           t \in Leaving => ~Has(q, Publishing)
    PROVE  LeavesLast(<<t>> \o q)
<1> DEFINE r == <<t>> \o q
           n == Len(q)
<1>1. /\ n \in Nat /\ DOMAIN q = 1 .. n /\ DOMAIN r = 1 .. n + 1
      /\ r[1] = t
      /\ \A i \in 1 .. n : r[i + 1] = q[i]
  BY QueueFront
<1> HIDE DEF r, n
<1> SUFFICES ASSUME NEW i \in DOMAIN r, NEW j \in DOMAIN r, i < j,
                    r[i] \in Leaving, r[j] \in Publishing
             PROVE  FALSE
  BY DEF LeavesLast, r
<1>2. \A k \in DOMAIN r : k # 1 => k - 1 \in DOMAIN q /\ r[k] = q[k - 1]
  <2> SUFFICES ASSUME NEW k \in DOMAIN r, k # 1
               PROVE  k - 1 \in DOMAIN q /\ r[k] = q[k - 1]
    OBVIOUS
  <2>1. k - 1 \in 1 .. n /\ (k - 1) + 1 = k
    BY <1>1
  <2> QED BY <1>1, <2>1
<1>3. j # 1 /\ i \in Nat /\ j \in Nat
  BY <1>1
<1>4. CASE i = 1
  BY <1>1, <1>2, <1>3, <1>4 DEF Has
<1>5. CASE i # 1
  <2>1. i - 1 < j - 1
    BY <1>3
  <2> QED BY <1>2, <1>3, <1>5, <2>1 DEF LeavesLast
<1> QED BY <1>4, <1>5

LEMMA LeavesTail ==
    ASSUME NEW q \in Seq(Task), q # <<>>, LeavesLast(q)
    PROVE  /\ LeavesLast(Tail(q))
           /\ Head(q) \in Leaving => ~Has(Tail(q), Publishing)
<1> DEFINE r == Tail(q)
           n == Len(q)
<1>1. /\ n \in Nat /\ n >= 1 /\ DOMAIN q = 1 .. n /\ DOMAIN r = 1 .. n - 1
      /\ Head(q) = q[1]
      /\ \A i \in 1 .. n - 1 : r[i] = q[i + 1]
  BY QueueTail
<1> HIDE DEF r, n
<1>2. \A i \in DOMAIN r : i + 1 \in DOMAIN q /\ 1 < i + 1 /\ r[i] = q[i + 1] /\ i \in Nat
  BY <1>1
<1>3. 1 \in DOMAIN q
  BY <1>1
<1>4. LeavesLast(r)
  <2> SUFFICES ASSUME NEW i \in DOMAIN r, NEW j \in DOMAIN r, i < j,
                      r[i] \in Leaving, r[j] \in Publishing
               PROVE  FALSE
    BY DEF LeavesLast
  <2>1. i + 1 < j + 1
    BY <1>2
  <2> QED BY <1>2, <2>1 DEF LeavesLast
<1>5. q[1] \in Leaving => ~Has(r, Publishing)
  BY <1>2, <1>3 DEF LeavesLast, Has
<1> QED BY <1>1, <1>4, <1>5 DEF r

\* What the task in front is, and what the stream has for it.
Calm == /\ ClientTypeOK /\ TcpTypeOK /\ BrokerTypeOK /\ SafetyInv /\ StreamInv
        /\ Undisturbed

LEMMA CalmMeans ==
    ASSUME Calm
    PROVE  /\ mTaskQueue \in Seq(Task) /\ Ordered(mTaskQueue)
           /\ mTaskQueue # <<>> =>
                 /\ This \in PublisherTasks /\ Others \in Seq(Task) /\ ~mDisconnected
                 /\ ~Has(Others, Misfits) /\ LeavesLast(Others)
                 /\ This \in Leaving => ~Has(Others, Publishing)
                 /\ \A C : Has(mTaskQueue, C) <=> This \in C \/ Has(Others, C)
           /\ mTaskQueue = <<>> => mDisconnected
           /\ mDisconnected => mTaskQueue = <<>> /\ mSocket = "none"
<1>1. /\ mTaskQueue \in Seq(Task) /\ Ordered(mTaskQueue)
      /\ ~Has(mTaskQueue, Misfits) /\ LeavesLast(mTaskQueue)
      /\ mDisconnected \/ Has(mTaskQueue, Leaving)
  BY DEF Calm, ClientTypeOK, StreamInv, Undisturbed
<1>2. /\ mTaskQueue = <<>> => mDisconnected
      /\ mDisconnected => mTaskQueue = <<>> /\ mSocket = "none"
  BY <1>1, HasNone DEF Calm, SafetyInv, DisconnectIsFinal
<1>3. ASSUME mTaskQueue # <<>>
      PROVE  /\ This \in PublisherTasks /\ Others \in Seq(Task) /\ ~mDisconnected
             /\ ~Has(Others, Misfits) /\ LeavesLast(Others)
             /\ This \in Leaving => ~Has(Others, Publishing)
             /\ \A C : Has(mTaskQueue, C) <=> This \in C \/ Has(Others, C)
  <2>1. \A C : Has(mTaskQueue, C) <=> This \in C \/ Has(Others, C)
    BY <1>1, <1>3, HasTail DEF This, Others
  <2>2. This \in Task /\ Others \in Seq(Task)
    BY <1>1, <1>3, QueueTail DEF This, Others
  <2>3. This \notin Misfits /\ ~Has(Others, Misfits)
    BY <1>1, <2>1
  <2> QED BY <1>1, <1>2, <1>3, <2>1, <2>2, <2>3, LeavesTail DEF This, Others, Misfits
<1> QED BY <1>1, <1>2, <1>3

\* The broker's replies neither violate the protocol nor refuse.
LEMMA CalmHandles ==
    ASSUME Calm, mTaskQueue # <<>>, This.kind = "handle"
    PROVE  ~Violates(This.req, This.resp) /\ ~Refuses(This.req, This.resp)
<1>1. /\ This \in PublisherTasks /\ This \in Task
  BY CalmMeans DEF PublisherTasks
<1>2. /\ This.resp = Fine(This.req) /\ This.req.type \in Requests
      /\ This.req \in Outgoing /\ This.req.type # "UNSUBSCRIBE"
  <2>1. Rank(This) = 0 /\ This.req \in Outgoing
    BY <1>1, Ranks DEF Task
  <2> QED BY <1>1, <2>1 DEF PublisherTasks
<1> QED BY <1>2, FineType DEF Violates, IdMatches, Refuses

LEMMA CalmStream ==
    ASSUME Calm
    PROVE  /\ Replacing => mTaskQueue # <<>> /\ This.kind = "tcpConnect"
           /\ inbox # <<>> =>
                 /\ ~Replacing /\ mTaskQueue # <<>>
                 /\ This.kind \in Receiving /\ This.resp = NoPacket
                 /\ Len(inbox) = 1 /\ inbox[1].pkt = Fine(This.req)
                 /\ ~Has(outbox, Asked)
           /\ pc # "callback" => ~Unexpected
<1>1. /\ mTaskQueue \in Seq(Task)
      /\ Replacing => mTaskQueue # <<>> /\ mSocket = "none"
  BY CalmMeans, HasNone DEF Replacing, Calm, Undisturbed
<1>2. mTaskQueue # <<>> => /\ This \in Task /\ This.req \in Outgoing
                           /\ Rank(This) = 0 => This.req.type \in Requests
                           /\ This.kind = "handle" => This.resp = Fine(This.req)
  BY CalmMeans, Ranks DEF PublisherTasks, Task
<1>3. ASSUME Replacing PROVE mTaskQueue # <<>> /\ This.kind = "tcpConnect"
  <2>1. Reconnects(This)
    BY <1>1, <1>3 DEF Calm, SafetyInv, NoSocketNoWork, This
  <2> QED BY <1>1, <1>3, <2>1, CalmHandles DEF Reconnects
<1>4. ASSUME inbox # <<>>
      PROVE  /\ ~Replacing /\ mTaskQueue # <<>>
             /\ This.kind \in Receiving /\ This.resp = NoPacket
             /\ Len(inbox) = 1 /\ inbox[1].pkt = Fine(This.req)
             /\ ~Has(outbox, Asked)
             /\ pc # "callback" => mCurrentlyReceivingPacket
  <2>1. /\ Len(inbox) \in Nat /\ Len(inbox) >= 1 /\ DOMAIN inbox = 1 .. Len(inbox)
        /\ \A i \in DOMAIN inbox : inbox[i] \in InFlight
    BY <1>4 DEF Calm, TcpTypeOK
  <2>2. /\ mTaskQueue # <<>> /\ This.kind \in Receiving
        /\ \A i \in DOMAIN inbox : inbox[i].pkt = Fine(This.req)
    BY <2>1 DEF Calm, Undisturbed, AwaitsReply, This
  <2>3. This.req \in Outgoing /\ This.req.type \in Requests
    BY <1>2, <2>2, Ranks
  <2>4. \A i \in DOMAIN inbox : inbox[i] \in Answers
    BY <2>1, <2>2, <2>3, FineType DEF Answers
  <2>5. ~Replacing
    BY <1>1, <1>4 DEF Calm, StreamInv, InSession
  <2>6. LockStep /\ WillTake
    <3>1. Has(inbox, Answers) /\ MaxRetries # 0
      BY <2>1, <2>4, CliAssumption DEF Has
    <3> QED BY <2>5, <3>1 DEF Calm, StreamInv, Awaited
  <2>7. Len(inbox) = 1 /\ ~Has(outbox, Asked)
    <3>1. Has(inbox, Answers) /\ Sole(inbox, Answers)
      BY <2>1, <2>4, <2>6 DEF Has, LockStep
    <3>2. \A i \in DOMAIN inbox : i = 1
      BY <2>1, <2>4, <3>1 DEF Sole
    <3> QED BY <2>1, <2>6, <3>1, <3>2 DEF LockStep
  <2>8. This.resp = NoPacket
    <3>1. This.resp = NoPacket \/ This.resp = Fine(This.req)
      BY <2>2, CalmMeans, Ranks DEF PublisherTasks
    <3>2. Fine(This.req) # NoPacket /\ Fine(This.req).type # "PUBLISH"
      BY <2>3, FineType
    <3> QED BY <2>6, <3>1, <3>2 DEF WillTake, This
  <2> QED BY <2>1, <2>2, <2>5, <2>6, <2>7, <2>8 DEF WillTake
<1>5. pc # "callback" => ~Unexpected
  BY <1>4 DEF Unexpected, isDataAvailable
<1> QED BY <1>3, <1>4, <1>5

LEMMA UndisturbedStays ==
    ASSUME Undisturbed,
           UNCHANGED <<mTaskQueue, inbox, outbox, brokerSubs, received,
                       mDisconnected, calls>>,
           \/ mSocket' = mSocket
           \/ mSocket = "connecting" /\ mSocket' = "up",
           pc' # "poll", pc' = "callback" => Head(mTaskQueue).kind = "handle",
           \/ ret' \in {"none", "TIMEOUT", ret}
           \/ ret' = "EVERYTHING_DONE" /\ mDisconnected
    PROVE  Undisturbed'
<1>1. /\ Replacing' <=> Replacing
      /\ AwaitsReply' <=> AwaitsReply
      /\ \A m : Held(m)' <=> Held(m)
  BY DEF Replacing, AwaitsReply, Held
<1> QED BY <1>1 DEF Undisturbed

LEMMA UndisturbedGrows ==
    ASSUME Calm, mTaskQueue # <<>>, mTaskQueue' = Append(mTaskQueue, PingTask),
           UNCHANGED <<inbox, outbox, mSocket, brokerSubs, received, mDisconnected,
                       calls>>,
           pc' \notin {"poll", "callback"}, ret' \in {"none", "TIMEOUT", ret}
    PROVE  Undisturbed'
<1>1. mTaskQueue \in Seq(Task) /\ PingTask \in Task
  BY CalmMeans, TaskTypes
<1>2. /\ PingTask.kind = "prepare" /\ PingTask.req.type = "PINGREQ"
      /\ Rank(PingTask) = 4
    BY <1>1, Ranks DEF PingTask, MakeTask, MakePacket
<1>3. /\ PingTask \notin Misfits /\ PingTask \notin Publishing
      /\ PingTask \notin Openers
      /\ \A m : PingTask \notin Carrying(m)
  BY <1>1, <1>2 DEF Misfits, PublisherTasks, Publishing, Openers, Carrying
<1>4. /\ \A C : Has(mTaskQueue', C) <=> Has(mTaskQueue, C) \/ PingTask \in C
      /\ mTaskQueue' # <<>> /\ Head(mTaskQueue') = Head(mTaskQueue)
  BY <1>1, HasBack, QueueBack
<1>5. LeavesLast(mTaskQueue')
  BY <1>1, <1>3, LeavesBack DEF Calm, Undisturbed
<1>6. /\ Replacing' <=> Replacing
      /\ AwaitsReply => AwaitsReply'
      /\ \A m : Held(m) => Held(m)'
  BY <1>3, <1>4 DEF Replacing, AwaitsReply, Held
<1>7. ~Has(mTaskQueue', Misfits) /\ (mDisconnected' \/ Has(mTaskQueue', Leaving))
  BY <1>3, <1>4 DEF Calm, Undisturbed
<1> QED BY <1>4, <1>5, <1>6, <1>7 DEF Calm, Undisturbed

\* The task in front goes on as another, or is done, and nothing is to be read
\* that it does not wait for.
LEMMA UndisturbedRewrites ==
    ASSUME Calm, mTaskQueue # <<>>,
           inbox' = <<>> \/ \A i \in DOMAIN inbox' :
                               /\ AwaitsReply'
                               /\ inbox'[i].pkt = Fine(Head(mTaskQueue').req),
           UNCHANGED <<brokerSubs, received, mDisconnected, calls>>,
           \/ ReplaceBy(<<>>) /\ This \notin Leaving
           \/ \E t \in PublisherTasks : /\ ReplaceBy(<<t>>)
                                        /\ t \in Leaving <=> This \in Leaving,
           \A m : This \in Carrying(m) => \/ Has(outbox', MessagePackets(m))
                                          \/ Has(mTaskQueue', Carrying(m)),
           \A m : Has(outbox, MessagePackets(m)) => Has(outbox', MessagePackets(m)),
           ~Has(outbox', Calls), ~Has(mTaskQueue', Openers),
           mSocket' \in {"connecting", "up"},
           pc' \notin {"poll", "callback"}, ret' \in {"none", "TIMEOUT", ret}
    PROVE  Undisturbed'
<1>1. /\ mTaskQueue \in Seq(Task) /\ Others \in Seq(Task)
      /\ ~Has(Others, Misfits) /\ LeavesLast(Others)
      /\ This \in Leaving => ~Has(Others, Publishing)
      /\ \A C : Has(mTaskQueue, C) <=> This \in C \/ Has(Others, C)
      /\ ~mDisconnected
  BY CalmMeans
<1>2. /\ ~Has(mTaskQueue', Misfits) /\ LeavesLast(mTaskQueue')
      /\ Has(mTaskQueue', Leaving)
      /\ \A C : Has(Others, C) => Has(mTaskQueue', C)
  <2>1. Has(mTaskQueue, Leaving)
    BY <1>1 DEF Calm, Undisturbed
  <2>2. CASE ReplaceBy(<<>>) /\ This \notin Leaving
    <3>1. mTaskQueue' = Others
      BY <1>1, <2>2, QueueTail DEF ReplaceBy, Others
    <3> QED BY <1>1, <2>1, <2>2, <3>1
  <2>3. ASSUME NEW t \in PublisherTasks, ReplaceBy(<<t>>),
               t \in Leaving <=> This \in Leaving
        PROVE  /\ ~Has(mTaskQueue', Misfits) /\ LeavesLast(mTaskQueue')
               /\ Has(mTaskQueue', Leaving)
               /\ \A C : Has(Others, C) => Has(mTaskQueue', C)
    <3>1. t \in Task /\ t \notin Misfits
      BY DEF PublisherTasks, Misfits
    <3>2. mTaskQueue' = <<t>> \o Others
      BY <2>3 DEF ReplaceBy
    <3>3. \A C : Has(mTaskQueue', C) <=> t \in C \/ Has(Others, C)
      BY <1>1, <3>1, <3>2, HasFront
    <3>4. LeavesLast(mTaskQueue')
      BY <1>1, <2>3, <3>1, <3>2, LeavesFront
    <3> QED BY <1>1, <2>1, <2>3, <3>1, <3>3, <3>4
  <2> QED BY <2>2, <2>3
<1>3. \A m : Held(m) => Held(m)'
  BY <1>1, <1>2 DEF Held
<1>4. /\ ~Replacing'
      /\ \A i \in DOMAIN inbox' : /\ AwaitsReply'
                                  /\ inbox'[i].pkt = Fine(Head(mTaskQueue').req)
  BY DEF Replacing
<1> QED BY <1>2, <1>3, <1>4 DEF Calm, Undisturbed

-----------------------------------------------------------------------------
(* What loop() does. *)

LEMMA AfterTaskReturns ==
    ASSUME AfterTask
    PROVE  pc' \notin {"poll", "callback"} /\ ret' \in {"none", "TIMEOUT", ret}
BY DEF AfterTask, Return, Goto

LEMMA CalmIdles ==
    ASSUME Calm, pc \notin {"poll", "callback"}, pc' \notin {"poll", "callback"},
           \/ mTaskQueue' = WithReceive
           \/ mTaskQueue' = Append(WithReceive, PingTask) /\ PingDue,
           UNCHANGED <<tcpVars, brokerVars, mDisconnected, calls, ret>>
    PROVE  Undisturbed'
<1>1. WithReceive = mTaskQueue
  BY CalmStream DEF WithReceive
<1>2. CASE UNCHANGED mTaskQueue
  <2>1. /\ UNCHANGED <<mTaskQueue, inbox, outbox, brokerSubs, received, mDisconnected, calls>>
        /\ UNCHANGED mSocket
    BY <1>2 DEF tcpVars, brokerVars
  <2>2. Undisturbed
    BY DEF Calm
  <2>3. ret' \in {"none", "TIMEOUT", ret}
    OBVIOUS
  <2> QED BY <2>1, <2>2, <2>3, UndisturbedStays
<1>3. CASE mTaskQueue' = Append(mTaskQueue, PingTask) /\ PingDue
  <2>1. mTaskQueue # <<>>
    BY <1>3, CalmMeans DEF PingDue
  <2> QED BY <1>3, <2>1, UndisturbedGrows DEF tcpVars, brokerVars
<1> QED BY <1>1, <1>2, <1>3

LEMMA CalmLoop ==
    ASSUME Calm, Loop \/ LoopCall, UNCHANGED <<brokerVars, calls>>
    PROVE  Undisturbed'
<1>1. pc # "poll" /\ mSocket # "err" /\ Undisturbed
  BY DEF Calm, Undisturbed
<1>2. CASE LoopCall
  BY <1>1, <1>2, UndisturbedStays DEF LoopCall, taskVars, tcpVars, brokerVars
<1>3. CASE BlockSkip
  <2>1. mTaskQueue' \in {mTaskQueue, WithReceive} /\ WithReceive = mTaskQueue
    BY <1>3, CalmStream DEF BlockSkip, WithReceive
  <2> QED BY <1>1, <1>3, <2>1, UndisturbedStays DEF BlockSkip, Goto, tcpVars, brokerVars
<1>4. CASE BlockPoll
  BY <1>4, CalmMeans DEF BlockPoll, MayPoll
<1>5. CASE BlockIdle
  <2>1. ~MayPoll
    BY CalmMeans DEF MayPoll
  <2> QED BY <1>5, <2>1, CalmIdles DEF BlockIdle, IdleWork, Goto
<1>6. CASE PollData \/ PollThrows \/ PollTimeout
  BY <1>1, <1>6 DEF PollData, PollThrows, PollTimeout
<1>7. CASE WhileDone
  <2>1. mDisconnected
    BY <1>7, CalmMeans DEF WhileDone
  <2> QED BY <1>1, <1>7, <2>1, UndisturbedStays
           DEF WhileDone, Return, taskVars, tcpVars, brokerVars
<1>8. CASE WhileTask
  BY <1>8, CalmIdles DEF WhileTask, IdleWork, Goto
<1> QED BY <1>2, <1>3, <1>4, <1>5, <1>6, <1>7, <1>8 DEF Loop

-----------------------------------------------------------------------------
(* What the tasks do. *)

LEMMA CalmRuns ==
    ASSUME Calm, mTaskQueue # <<>>, This.kind # "tcpConnect"
    PROVE  /\ mSocket \in {"connecting", "up"} /\ ~Replacing /\ ~Has(Others, Openers)
           /\ This.kind \notin Receiving \/ This.resp # NoPacket => inbox = <<>>
<1>1. ~Replacing
  BY CalmStream
<1>2. ~Has(Others, Openers)
  BY <1>1, CalmMeans DEF Replacing
<1>3. ~Reconnects(This)
  BY CalmHandles DEF Reconnects
<1>4. mSocket # "none"
  BY <1>3 DEF Calm, SafetyInv, NoSocketNoWork, This
<1> QED BY <1>1, <1>2, <1>4, CalmStream DEF Calm, Undisturbed

LEMMA CalmOpens ==
    ASSUME Calm, TcpConnectOpens, UNCHANGED <<brokerVars, calls>>
    PROVE  Undisturbed'
<1>1. /\ pc = "run" /\ mTaskQueue # <<>> /\ This.kind = "tcpConnect"
  BY DEF TcpConnectOpens, Running, This, Calm, SafetyInv, QueueHasTask
<1>2. /\ This \in Task /\ Rank(This) = 1
      /\ ~Has(Others, Openers)
      /\ \A C : Has(mTaskQueue, C) <=> This \in C \/ Has(Others, C)
      /\ mTaskQueue' = Others
  <2>1. This \in Task /\ Rank(This) = 1
    BY <1>1, CalmMeans, Ranks DEF PublisherTasks
  <2>2. ~Has(Others, Openers)
    BY <1>1, <2>1, OthersFollow DEF Calm, StreamInv
  <2>3. mTaskQueue' = Others
    BY <1>1, QueueReplaced DEF TcpConnectOpens, Calm, StreamInv
  <2> QED BY <1>1, <2>1, <2>2, <2>3, CalmMeans
<1>3. outbox = <<>>
  <2>1. Replacing
    BY <1>2, Sorts DEF Replacing
  <2> QED BY <2>1 DEF Calm, Undisturbed
<1>4. /\ This \notin Leaving /\ \A m : This \notin Carrying(m)
  BY <1>2 DEF Leaving, Carrying, Publishing
<1>5. /\ inbox' = <<>> /\ outbox' = <<>> /\ mSocket' = "connecting"
      /\ UNCHANGED <<brokerSubs, received, mDisconnected, calls>>
      /\ ReplaceBy(<<>>) /\ AfterTask
  BY DEF TcpConnectOpens, TcpOpen, brokerVars
<1>6. pc' \notin {"poll", "callback"} /\ ret' \in {"none", "TIMEOUT", ret}
  BY <1>5, AfterTaskReturns
<1>7. ~Has(outbox', Calls)
  BY <1>5, HasNone
<1> QED BY <1>1, <1>2, <1>3, <1>4, <1>5, <1>6, <1>7, UndisturbedRewrites

LEMMA CalmChecks ==
    ASSUME Calm, CheckConnectDone \/ Handled, UNCHANGED <<brokerVars, calls>>
    PROVE  Undisturbed'
<1>1. /\ mTaskQueue # <<>> /\ This.kind \in {"checkConnect", "handle"}
  BY DEF CheckConnectDone, Handled, InOnConnect, Running, This, Calm, SafetyInv,
         QueueHasTask
<1>2. /\ mSocket \in {"connecting", "up"} /\ ~Has(Others, Openers) /\ inbox = <<>>
  BY <1>1, CalmRuns DEF Receiving
<1>3. /\ ReplaceBy(<<>>) /\ AfterTask
      /\ UNCHANGED <<inbox, outbox, mSocket, brokerSubs, received, mDisconnected,
                     calls>>
  BY DEF CheckConnectDone, Handled, tcpVars, brokerVars
<1>4. /\ This \in Task /\ mTaskQueue' = Others
  BY <1>1, <1>3, CalmMeans, QueueReplaced DEF PublisherTasks, Calm, StreamInv
<1>5. Rank(This) \in {0, 2}
  BY <1>1, <1>4, Ranks
<1>6. /\ This \notin Leaving /\ \A m : This \notin Carrying(m)
  BY <1>5 DEF Leaving, Carrying, Publishing
<1>7. pc' \notin {"poll", "callback"} /\ ret' \in {"none", "TIMEOUT", ret}
  BY <1>3, AfterTaskReturns
<1>8. ~Has(outbox', Calls)
  BY <1>3 DEF Calm, Undisturbed
<1> QED BY <1>1, <1>2, <1>3, <1>4, <1>6, <1>7, <1>8, UndisturbedRewrites

\* A task that writes goes on as another that writes the same.
LEMMA CalmRewrites ==
    ASSUME Calm, pc = "run", Head(mTaskQueue).kind \in {"prepare", "send"},
           NEW t \in Task, Rank(t) = Rank(This), t.req = This.req,
           ReplaceBy(<<t>>), AfterTask,
           UNCHANGED <<inbox, outbox, mSocket, brokerSubs, received, mDisconnected,
                       calls>>
    PROVE  Undisturbed'
<1>1. mTaskQueue # <<>> /\ Rank(This) \in {3, 4}
  BY Writing DEF Calm
<1>2. /\ mSocket \in {"connecting", "up"} /\ ~Has(Others, Openers) /\ inbox = <<>>
      /\ This \in PublisherTasks
  BY <1>1, CalmRuns, CalmMeans DEF Receiving, This
<1>3. /\ t \in PublisherTasks /\ (t \in Leaving <=> This \in Leaving)
      /\ \A m : t \in Carrying(m) <=> This \in Carrying(m)
      /\ t \notin Openers
  BY <1>1, <1>2 DEF PublisherTasks, Leaving, Carrying, Publishing, Openers
<1>4. \A C : Has(mTaskQueue', C) <=> t \in C \/ Has(Others, C)
  BY <1>1, QueueReplaced DEF Calm, StreamInv
<1>5. pc' \notin {"poll", "callback"} /\ ret' \in {"none", "TIMEOUT", ret}
  BY AfterTaskReturns
<1>6. ~Has(outbox', Calls) /\ ~Has(mTaskQueue', Openers)
  BY <1>2, <1>3, <1>4 DEF Calm, Undisturbed
<1>7. \A m : This \in Carrying(m) => Has(mTaskQueue', Carrying(m))
  BY <1>3, <1>4
<1> QED BY <1>1, <1>2, <1>3, <1>5, <1>6, <1>7, UndisturbedRewrites

LEMMA CalmPrepares ==
    ASSUME Calm, Prepare \/ SendPart \/ SendNone, UNCHANGED <<brokerVars, calls>>
    PROVE  Undisturbed'
<1>1. /\ pc = "run" /\ Head(mTaskQueue).kind \in {"prepare", "send"} /\ AfterTask
      /\ UNCHANGED <<inbox, outbox, mSocket, brokerSubs, received, mDisconnected,
                     calls>>
  BY DEF Prepare, SendPart, SendNone, SendRest, Running, TcpSendPart, TcpSendNone,
         tcpVars, brokerVars
<1>2. /\ mTaskQueue # <<>> /\ This \in Task /\ This.req \in Outgoing
      /\ Rank(This) \in {3, 4} /\ (Rank(This) = 3 <=> This.req.type = "CONNECT")
  BY <1>1, Writing DEF Calm
<1>3. PICK t \in Task : /\ Rank(t) = Rank(This) /\ t.req = This.req
                        /\ ReplaceBy(<<t>>)
  <2>1. CASE Prepare
    <3>1. This.req.type \notin {"SUBSCRIBE", "UNSUBSCRIBE"}
      BY <1>2, CalmMeans DEF PublisherTasks
    <3>2. ReplaceBy(<<SendTask(This.req)>>)
      BY <2>1, <3>1 DEF Prepare, Numbered
    <3> QED BY <1>2, <3>2, WriteTasks
  <2>2. CASE SendPart
    BY <1>2, <2>2, WriteTasks DEF SendPart, SendRest
  <2>3. CASE SendNone
    <3>1. This.rest \in BOOLEAN
      BY <1>2 DEF Task
    <3> QED BY <1>2, <2>3, <3>1, WriteTasks DEF SendNone, SendRest
  <2> QED BY <2>1, <2>2, <2>3
<1> QED BY <1>1, <1>3, CalmRewrites

LEMMA CalmSends ==
    ASSUME Calm, SendAll, UNCHANGED <<brokerVars, calls>>
    PROVE  Undisturbed'
<1> DEFINE p == This.req
<1>1. /\ pc = "run" /\ Head(mTaskQueue).kind \in {"prepare", "send"} /\ AfterTask
      /\ mSocket \in {"up", "fin"} /\ outbox' = Written(p) /\ p.type # "DISCONNECT"
      /\ UNCHANGED <<inbox, mSocket, brokerSubs, received, mDisconnected, calls>>
  BY DEF SendAll, Running, TcpSendAll, brokerVars
<1>2. /\ mTaskQueue # <<>> /\ This \in Task /\ p \in Outgoing
      /\ Rank(This) \in {3, 4}
  BY <1>1, Writing DEF Calm
<1>3. /\ mSocket = "up" /\ ~Has(Others, Openers) /\ inbox = <<>>
      /\ This \in PublisherTasks
  BY <1>1, <1>2, CalmRuns, CalmMeans DEF Receiving, This
<1>4. /\ outbox' = Append(outbox, p)
      /\ \A C : Has(outbox', C) <=> Has(outbox, C) \/ p \in C
  BY <1>1, <1>2, <1>3, HasBack DEF Written, Calm, TcpTypeOK
<1>5. /\ This \notin Leaving
      /\ \A m : This \in Carrying(m) => p \in MessagePackets(m)
      /\ p \notin Calls
  BY <1>1, <1>2, <1>3 DEF Leaving, Carrying, Publishing, MessagePackets, Calls,
                          PublisherTasks
<1>6. /\ ~Has(outbox', Calls)
      /\ \A m : This \in Carrying(m) => Has(outbox', MessagePackets(m))
      /\ \A m : Has(outbox, MessagePackets(m)) => Has(outbox', MessagePackets(m))
  BY <1>4, <1>5 DEF Calm, Undisturbed
<1>7. pc' \notin {"poll", "callback"} /\ ret' \in {"none", "TIMEOUT", ret}
  BY <1>1, AfterTaskReturns
<1>8. CASE ReplaceBy(<<>>)
  <2>1. ~Has(mTaskQueue', Openers)
    BY <1>2, <1>3, <1>8, QueueReplaced DEF Calm, StreamInv
  <2> QED BY <1>1, <1>2, <1>3, <1>5, <1>6, <1>7, <1>8, <2>1, UndisturbedRewrites
<1>9. CASE p.type \in Requests /\ ReplaceBy(<<RecvTask(p)>>)
  <2> DEFINE t == RecvTask(p)
  <2>1. /\ t \in Task /\ Rank(t) = 0 /\ t.kind = "recvType" /\ t.req = p
        /\ t.resp = NoPacket
    <3>1. p # NoPacket
      BY <1>9, NoPacketSorts DEF Requests
    <3> QED BY <1>2, <3>1, AwaitTask
  <2> HIDE DEF t
  <2>2. /\ t \in PublisherTasks /\ t \notin Leaving /\ t \notin Openers
    BY <1>3, <1>9, <2>1 DEF PublisherTasks, Leaving, Openers
  <2>3. ReplaceBy(<<t>>)
    BY <1>9 DEF t
  <2>4. ~Has(mTaskQueue', Openers)
    BY <1>2, <1>3, <2>1, <2>2, <2>3, QueueReplaced DEF Calm, StreamInv
  <2> QED BY <1>1, <1>2, <1>3, <1>5, <1>6, <1>7, <2>2, <2>3, <2>4, UndisturbedRewrites
<1> QED BY <1>8, <1>9 DEF SendAll

\* DISCONNECT is the last thing written, and everything before it is on its way.
LEMMA CalmEnds ==
    ASSUME Calm, SendDisconnect, UNCHANGED <<brokerVars, calls>>
    PROVE  Undisturbed'
<1> DEFINE p == This.req
<1>1. /\ pc = "run" /\ Head(mTaskQueue).kind \in {"prepare", "send"}
      /\ mSocket \in {"up", "fin"} /\ outbox' \in LeftOver(Written(p))
      /\ p.type = "DISCONNECT" /\ mSocket' = "none" /\ inbox' = <<>>
      /\ mTaskQueue' = <<>> /\ mDisconnected' = TRUE
      /\ pc' = "out" /\ ret' = "EVERYTHING_DONE"
      /\ UNCHANGED <<brokerSubs, received, calls>>
  BY DEF SendDisconnect, Running, TcpSendAllAndClose, brokerVars, Return
<1>2. /\ mTaskQueue # <<>> /\ This \in Task /\ p \in Outgoing
      /\ Rank(This) \in {3, 4} /\ (Rank(This) = 3 <=> p.type = "CONNECT")
      /\ \A C : Has(mTaskQueue, C) <=> This \in C \/ Has(Others, C)
  BY <1>1, Writing DEF Calm
<1>3. mSocket = "up" /\ inbox = <<>>
  BY <1>1, <1>2, CalmRuns DEF Receiving, This
<1>4. /\ outbox' = Append(outbox, p)
      /\ \A C : Has(outbox', C) <=> Has(outbox, C) \/ p \in C
  <2>1. outbox' = Append(outbox, p)
    BY <1>1, <1>3 DEF Written, LeftOver
  <2> QED BY <1>2, <2>1, HasBack DEF Calm, TcpTypeOK
<1>5. This \in Leaving /\ This \notin Publishing /\ p \notin Calls
  BY <1>1, <1>2 DEF Leaving, Publishing, Calls
<1>6. ~Has(mTaskQueue, Publishing)
  BY <1>2, <1>5, CalmMeans
<1>7. \A m : ~Has(mTaskQueue, Carrying(m))
  BY <1>6 DEF Has, Carrying
<1>8. \A m : Held(m) => Held(m)'
  BY <1>1, <1>4, <1>7 DEF Held
<1>9. ~Has(outbox', Calls)
  BY <1>4, <1>5 DEF Calm, Undisturbed
<1>10. /\ ~Has(mTaskQueue', Misfits) /\ LeavesLast(mTaskQueue') /\ ~Replacing'
  BY <1>1, HasNone DEF LeavesLast, Replacing
<1>11. \A i \in DOMAIN inbox' : /\ AwaitsReply'
                                /\ inbox'[i].pkt = Fine(Head(mTaskQueue').req)
  BY <1>1
<1> QED BY <1>1, <1>8, <1>9, <1>10, <1>11 DEF Calm, Undisturbed

LEMMA CalmReceives ==
    ASSUME Calm, TcpTypeOK', Receive, UNCHANGED <<brokerVars, calls>>
    PROVE  Undisturbed'
<1>1. /\ mTaskQueue # <<>> /\ This.kind \in Receiving /\ This.resp = NoPacket
      /\ inbox # <<>> /\ TcpRecv /\ AfterTask
      /\ UNCHANGED <<outbox, mSocket, brokerSubs, received, mDisconnected, calls>>
  BY DEF Receive, Running, This, Calm, SafetyInv, QueueHasTask, TcpRecv,
         isDataAvailable, brokerVars
<1>2. Len(inbox) = 1 /\ inbox[1].pkt = Fine(This.req)
  BY <1>1, CalmStream
<1>3. /\ This \in PublisherTasks /\ This \in Task /\ Rank(This) = 0
      /\ This.req \in Outgoing /\ This.req.type \in Requests
      /\ Fine(This.req) \in Packet
  <2>1. This \in PublisherTasks /\ This \in Task
    BY <1>1, CalmMeans DEF PublisherTasks
  <2>2. Rank(This) = 0 /\ This.req \in Outgoing
    BY <1>1, <2>1, Ranks DEF Task
  <2> QED BY <2>1, <2>2, FineType DEF PublisherTasks
<1>4. /\ mSocket \in {"connecting", "up"} /\ ~Has(Others, Openers)
  BY <1>1, CalmRuns DEF Receiving
<1>5. /\ pc' \notin {"poll", "callback"} /\ ret' \in {"none", "TIMEOUT", ret}
      /\ ~Has(outbox', Calls)
      /\ This \notin Leaving /\ \A m : This \notin Carrying(m)
  BY <1>1, <1>3, AfterTaskReturns
     DEF Calm, Undisturbed, Leaving, Carrying, Publishing
<1>6. ASSUME NEW t \in Task, t.kind \in Receiving, t.req = This.req,
             t.resp \in {NoPacket, Fine(This.req)}, ReplaceBy(<<t>>),
             \A i \in DOMAIN inbox' : inbox'[i].pkt = Fine(This.req)
      PROVE  Undisturbed'
  <2>1. Rank(t) = 0 /\ t.kind # "handle"
    BY <1>6, Ranks DEF Receiving
  <2>2. t \in PublisherTasks /\ t \notin Leaving /\ t \notin Openers
    BY <1>3, <1>6, <2>1 DEF PublisherTasks, Leaving, Openers
  <2>3. /\ ~Has(mTaskQueue', Openers) /\ mTaskQueue' # <<>> /\ Head(mTaskQueue') = t
    BY <1>1, <1>4, <1>6, <2>2, QueueReplaced DEF Calm, StreamInv
  <2>4. This.req # NoPacket
    BY <1>3, NoPacketSorts DEF Requests
  <2>5. \A i \in DOMAIN inbox' : /\ AwaitsReply'
                                 /\ inbox'[i].pkt = Fine(Head(mTaskQueue').req)
    BY <1>6, <2>3, <2>4 DEF AwaitsReply
  <2> QED BY <1>1, <1>4, <1>5, <1>6, <2>2, <2>3, <2>5, UndisturbedRewrites
<1>7. CASE inbox' = Tail(inbox)
  <2>1. inbox' = <<>> /\ Len(inbox') < Len(inbox) /\ Head(inbox) = inbox[1]
    BY <1>1, <1>2, <1>7 DEF Calm, TcpTypeOK
  <2> DEFINE t == Completed(This, Head(inbox).pkt)
  <2>2. ReplaceBy(<<t>>)
    BY <2>1 DEF Receive
  <2>3. /\ t \in Task /\ t.kind = "recvBody" /\ t.req = This.req
        /\ t.resp = Fine(This.req)
    <3>1. Head(inbox).pkt = Fine(This.req)
      BY <1>2, <2>1
    <3>2. ASSUME NEW p \in Packet
          PROVE  /\ Completed(This, p) \in Task
                 /\ Completed(This, p).kind = "recvBody"
                 /\ Completed(This, p).req = This.req /\ Completed(This, p).resp = p
      BY <1>3, TaskTypes DEF Completed, Task
    <3> QED BY <1>3, <3>1, <3>2
  <2> HIDE DEF t
  <2> QED BY <1>6, <2>1, <2>2, <2>3 DEF Receiving
<1>8. CASE inbox' = [inbox EXCEPT ![1].read = @ + 1]
  <2>1. /\ Len(inbox') = Len(inbox) /\ DOMAIN inbox' = DOMAIN inbox
        /\ \A i \in DOMAIN inbox : inbox'[i].pkt = inbox[i].pkt
    BY <1>1, <1>8, ReadsMore DEF Calm, TcpTypeOK
  <2>2. \A i \in DOMAIN inbox' : inbox'[i].pkt = Fine(This.req)
    BY <2>1 DEF Calm, Undisturbed, This
  <2> DEFINE t == [This EXCEPT !.kind = IF @ = "recvType" THEN "recvLength"
                                                          ELSE "recvBody"]
  <2>3. ReplaceBy(<<t>>)
    BY <1>2, <2>1 DEF Receive
  <2>4. t \in Task /\ t.kind \in Receiving /\ t.req = This.req /\ t.resp = NoPacket
    BY <1>1, <1>3 DEF Task, Receiving, TaskKinds
  <2> HIDE DEF t
  <2> QED BY <1>6, <2>2, <2>3, <2>4
<1> QED BY <1>1, <1>7, <1>8 DEF TcpRecv

LEMMA CalmDelivers ==
    ASSUME Calm, Deliver, UNCHANGED <<brokerVars, calls>>
    PROVE  Undisturbed'
<1>1. /\ mTaskQueue # <<>> /\ This.kind = "recvBody" /\ This.resp # NoPacket
      /\ AfterTask
      /\ UNCHANGED <<inbox, outbox, mSocket, brokerSubs, received, mDisconnected,
                     calls>>
  BY DEF Deliver, Running, This, Calm, SafetyInv, QueueHasTask, tcpVars, brokerVars
<1>2. /\ mSocket \in {"connecting", "up"} /\ ~Has(Others, Openers) /\ inbox = <<>>
  BY <1>1, CalmRuns DEF Receiving
<1>3. /\ This \in PublisherTasks /\ This \in Task /\ Rank(This) = 0
      /\ This.req.type \in Requests /\ This.resp = Fine(This.req)
  <2>1. This \in PublisherTasks /\ This \in Task
    BY <1>1, CalmMeans DEF PublisherTasks
  <2>2. Rank(This) = 0
    BY <1>1, <2>1, Ranks DEF Receiving
  <2> QED BY <1>1, <2>1, <2>2 DEF PublisherTasks
<1> DEFINE t == HandleTask(This)
<1>4. ReplaceBy(<<t>>)
  <2>1. This.req # NoPacket
    BY <1>3, NoPacketSorts DEF Requests
  <2> QED BY <2>1 DEF Deliver
<1>5. t \in Task /\ t.kind = "handle" /\ t.req = This.req /\ t.resp = This.resp
  BY <1>3, TaskTypes DEF HandleTask, Task
<1> HIDE DEF t
<1>6. Rank(t) = 0
  BY <1>5, Ranks
<1>7. /\ t \in PublisherTasks /\ t \notin Leaving /\ t \notin Openers
      /\ This \notin Leaving /\ \A m : This \notin Carrying(m)
  BY <1>3, <1>5, <1>6 DEF PublisherTasks, Leaving, Openers, Carrying, Publishing
<1>8. ~Has(mTaskQueue', Openers) /\ ~Has(outbox', Calls)
  BY <1>1, <1>2, <1>4, <1>5, <1>7, QueueReplaced
     DEF Calm, StreamInv, Undisturbed
<1>9. pc' \notin {"poll", "callback"} /\ ret' \in {"none", "TIMEOUT", ret}
  BY <1>1, AfterTaskReturns
<1> QED BY <1>1, <1>2, <1>4, <1>5, <1>7, <1>8, <1>9, UndisturbedRewrites

\* A task that is tried again, or whose callback runs.
LEMMA CalmRepeats ==
    ASSUME Calm, UNCHANGED <<brokerVars, calls>>,
           TcpConnectWaits \/ CheckConnectRepeats \/ ReceiveNone \/ HandleConnack
    PROVE  Undisturbed'
<1>1. /\ UNCHANGED <<mTaskQueue, inbox, outbox, brokerSubs, received, mDisconnected,
                     calls, mSocket>>
  BY DEF TcpConnectWaits, CheckConnectRepeats, ReceiveNone, HandleConnack, Repeat,
         TcpRecvNone, taskVars, tcpVars, brokerVars
<1>2. CASE HandleConnack
  <2>1. /\ pc' = "callback" /\ ret' = ret /\ Head(mTaskQueue).kind = "handle"
    BY <1>2 DEF HandleConnack, Running, Goto
  <2> QED BY <1>1, <2>1, UndisturbedStays DEF Calm
<1>3. CASE AfterTask
  BY <1>1, <1>3, AfterTaskReturns, UndisturbedStays DEF Calm
<1> QED BY <1>2, <1>3 DEF TcpConnectWaits, CheckConnectRepeats, ReceiveNone, Repeat

\* What needs a fault.
LEMMA CalmNever ==
    ASSUME Calm, RunTask, faults' = 0
    PROVE  /\ ~TcpConnectThrows /\ ~CheckConnectThrows /\ ~SendThrows
           /\ ~ReceiveThrows /\ ~Dispatch /\ ~Dispatched
           /\ ~HandleViolation /\ ~HandleRefusal /\ ~CallbackThrows
<1>1. /\ mTaskQueue # <<>> /\ This \in PublisherTasks /\ This \in Task
      /\ faults \in Nat /\ mSocket \in {"none", "connecting", "up"}
  BY RunsTask, CalmMeans
     DEF Calm, SafetyInv, TcpTypeOK, Undisturbed
<1>2. faults + 1 # 0
  BY <1>1
<1>3. ~TcpConnectThrows /\ ~CallbackThrows
  BY <1>2 DEF TcpConnectThrows, TcpOpenThrows, CallbackThrows, Inject
<1>4. ~CheckConnectThrows /\ ~SendThrows /\ ~ReceiveThrows
  BY <1>1 DEF CheckConnectThrows, ConnectState, SendThrows, TcpSendThrows,
              ReceiveThrows, TcpRecvThrows
<1>5. ~Dispatch /\ ~Dispatched
  <2>1. This.kind = "recvBody" => This.resp.type # "PUBLISH"
    <3> SUFFICES ASSUME This.kind = "recvBody" PROVE This.resp.type # "PUBLISH"
      OBVIOUS
    <3>1. /\ This.req \in Outgoing /\ This.req.type \in Requests
          /\ This.resp \in {Fine(This.req), NoPacket}
      <4>1. Rank(This) = 0 /\ This.req \in Outgoing
        BY <1>1, Ranks DEF Task, Receiving
      <4> QED BY <1>1, <4>1 DEF PublisherTasks
    <3> QED BY <3>1, FineType, NoPacketSorts
  <2>2. pc = "callback" => This.kind = "handle"
    BY DEF Calm, Undisturbed, This
  <2> QED BY <2>1, <2>2 DEF Dispatch, Dispatched, Running, This
<1>6. ~HandleViolation /\ ~HandleRefusal
  BY <1>1, CalmHandles DEF HandleViolation, HandleRefusal, Running, This
<1> QED BY <1>3, <1>4, <1>5, <1>6

LEMMA CalmTasks ==
    ASSUME Calm, TcpTypeOK', RunTask, faults' = 0, UNCHANGED <<brokerVars, calls>>
    PROVE  Undisturbed'
BY CalmNever, CalmOpens, CalmChecks, CalmPrepares, CalmSends, CalmEnds, CalmReceives,
   CalmDelivers, CalmRepeats DEF RunTask

-----------------------------------------------------------------------------
(* What happens outside the client. *)

LEMMA UndisturbedMoves ==
    ASSUME Calm, UNCHANGED <<clientVars, calls>>,
           mSocket' \in {"none", "connecting", "up"},
           Replacing => mSocket' = "none" /\ outbox' = <<>>,
           ~Has(outbox', Calls), brokerSubs' = {},
           \A i \in DOMAIN inbox' : /\ AwaitsReply
                                    /\ inbox'[i].pkt = Fine(Head(mTaskQueue).req),
           \A m : \/ Has(outbox, MessagePackets(m))
                  \/ m \in Range(received)
                  => \/ Has(outbox', MessagePackets(m))
                     \/ m \in Range(received')
    PROVE  Undisturbed'
<1>1. UNCHANGED <<mTaskQueue, mDisconnected, pc, ret>>
  BY DEF clientVars, taskVars, loopVars
<1>2. /\ Replacing' <=> Replacing
      /\ AwaitsReply' <=> AwaitsReply
      /\ \A m : Held(m) => Held(m)'
  BY <1>1 DEF Replacing, AwaitsReply, Held
<1> QED BY <1>1, <1>2 DEF Calm, Undisturbed

LEMMA CalmNetwork ==
    ASSUME Calm, TcpTypeOK', Network, faults' = 0,
           UNCHANGED <<clientVars, brokerVars, calls>>
    PROVE  Undisturbed'
<1>1. /\ faults \in Nat /\ mSocket \in {"none", "connecting", "up"}
      /\ ~Has(outbox, Calls) /\ brokerSubs = {}
      /\ Replacing => mSocket = "none" /\ outbox = <<>>
      /\ \A i \in DOMAIN inbox : /\ AwaitsReply
                                 /\ inbox[i].pkt = Fine(Head(mTaskQueue).req)
  BY DEF Calm, TcpTypeOK, Undisturbed
<1>2. ~Refuse /\ ~PeerCloses /\ ~Reset
  BY <1>1 DEF Refuse, PeerCloses, Reset, Inject
<1>3. CASE Establish \/ Tick
  <2>1. /\ UNCHANGED <<inbox, outbox, received, brokerSubs>>
        /\ \/ mSocket' = mSocket
           \/ mSocket = "connecting" /\ mSocket' = "up"
    BY <1>3 DEF Establish, Tick, brokerVars
  <2> QED BY <1>1, <2>1, UndisturbedMoves
<1>4. CASE Arrive
  <2>1. /\ UNCHANGED <<outbox, received, brokerSubs, mSocket>>
    BY <1>4 DEF Arrive, brokerVars
  <2>2. DOMAIN inbox' = DOMAIN inbox /\ \A i \in DOMAIN inbox : inbox'[i].pkt = inbox[i].pkt
    <3> DEFINE n == Len(inbox)
    <3>1. /\ inbox \in Seq(InFlight) /\ inbox # <<>>
          /\ inbox' = [inbox EXCEPT ![n].got = Reads(inbox[n].pkt)]
      BY <1>4 DEF Arrive, Calm, TcpTypeOK
    <3>2. n \in DOMAIN inbox /\ \A i \in DOMAIN inbox : inbox[i] \in InFlight
      BY <3>1
    <3>3. inbox[n] \in [pkt : Packet, got : 1 .. 3, read : 0 .. 2]
      BY <3>2 DEF InFlight
    <3>4. /\ DOMAIN inbox' = DOMAIN inbox
          /\ inbox'[n] = [inbox[n] EXCEPT !.got = Reads(inbox[n].pkt)]
          /\ \A i \in DOMAIN inbox : i # n => inbox'[i] = inbox[i]
      BY <3>1, <3>2
    <3>5. inbox'[n].pkt = inbox[n].pkt
      BY <3>3, <3>4
    <3> QED BY <3>4, <3>5
  <2> QED BY <1>1, <2>1, <2>2, UndisturbedMoves
<1> QED BY <1>2, <1>3, <1>4 DEF Network

\* The broker answers what the client waits for, as it should.
LEMMA CalmAnswers ==
    ASSUME Calm, TakeRequest, faults' = 0, UNCHANGED <<clientVars, calls>>
    PROVE  Undisturbed'
<1> DEFINE p == Head(outbox)
<1>1. /\ outbox # <<>> /\ p.type \in Requests /\ outbox' = Tail(outbox)
      /\ UNCHANGED <<mSocket, received>>
      /\ outbox \in Seq(Outgoing) /\ p \in Outgoing /\ faults \in Nat
      /\ ~Has(outbox, Calls) /\ brokerSubs = {} /\ ~Replacing
      /\ mSocket \in {"none", "connecting", "up"}
  BY DEF TakeRequest, Calm, TcpTypeOK, Undisturbed
<1>2. /\ \A C : Has(outbox, C) <=> p \in C \/ Has(outbox', C)
  BY <1>1, HasTail
<1>3. /\ p \in Asked /\ p \notin Calls /\ \A m : p \notin MessagePackets(m)
  <2>1. p \notin Calls
    BY <1>1, <1>2
  <2>2. p.type # "PUBLISH"
    BY <1>1 DEF Requests
  <2> QED BY <1>1, <2>1, <2>2 DEF Asked, MessagePackets
<1>4. /\ p.type \notin {"SUBSCRIBE", "UNSUBSCRIBE"}
  BY <1>1, <1>3 DEF Calls
<1>5. WillTake /\ Head(mTaskQueue).req = p
  <2>1. MaxRetries # 0
    BY CliAssumption, ClientAssumption
  <2>2. Has(outbox, Asked)
    BY <1>2, <1>3
  <2>3. WillTake /\ ~Has(outbox, Asked \ {Head(mTaskQueue).req})
    BY <1>1, <2>1, <2>2 DEF Calm, StreamInv, Awaited
  <2> QED BY <1>2, <1>3, <2>3
<1>6. inbox = <<>>
  BY <1>2, <1>3, CalmStream
<1>7. Transmit(Fine(p)) /\ brokerSubs' = {}
  <2>1. PICK fine \in BOOLEAN :
           /\ Reply(p, fine)
           /\ brokerSubs' =
                CASE p.type = "CONNECT" /\ fine /\ CleanSession -> {}
                  [] p.type = "SUBSCRIBE" /\ fine -> brokerSubs \cup {TopicOf[p.arg]}
                  [] p.type = "UNSUBSCRIBE"       -> brokerSubs \ {p.arg}
                  [] OTHER                        -> brokerSubs
    BY DEF TakeRequest
  <2>2. Transmit(Fine(p))
    <3>1. \A fault : ~Inject(fault)
      BY <1>1 DEF Inject
    <3> QED BY <2>1, <3>1 DEF Reply, Fine
  <2>3. brokerSubs' = {}
    BY <1>1, <1>4, <2>1
  <2> QED BY <2>2, <2>3
<1>8. Fine(p) \in Packet
  BY <1>1, FineType
<1>9. \A i \in DOMAIN inbox' : /\ AwaitsReply
                               /\ inbox'[i].pkt = Fine(Head(mTaskQueue).req)
  <2>1. CASE mSocket = "up"
    <3>1. PICK e \in InFlight : e.pkt = Fine(p) /\ inbox' = Append(inbox, e)
      BY <1>7, <1>8, <2>1, TransmitMeans
    <3>2. inbox' = <<e>>
      BY <1>6, <3>1
    <3>3. \A i \in DOMAIN inbox' : inbox'[i] = e
      BY <3>2
    <3> QED BY <1>5, <3>1, <3>3 DEF WillTake
  <2>2. CASE mSocket # "up"
    BY <1>6, <1>7, <1>8, <2>2, TransmitMeans
  <2> QED BY <2>1, <2>2
<1> QED BY <1>1, <1>2, <1>3, <1>7, <1>9, UndisturbedMoves

LEMMA CalmBroker ==
    ASSUME Calm, BrokerStep, faults' = 0, UNCHANGED <<clientVars, calls>>
    PROVE  Undisturbed'
<1>1. /\ outbox \in Seq(Outgoing) /\ received \in Seq(Messages)
      /\ mSocket \in {"none", "connecting", "up"}
      /\ ~Has(outbox, Calls) /\ brokerSubs = {}
      /\ Replacing => mSocket = "none" /\ outbox = <<>>
      /\ \A i \in DOMAIN inbox : /\ AwaitsReply
                                 /\ inbox[i].pkt = Fine(Head(mTaskQueue).req)
  BY DEF Calm, TcpTypeOK, BrokerTypeOK, Undisturbed
<1>2. CASE TakeRequest
  BY <1>2, CalmAnswers
<1>3. CASE TakePublish \/ TakeDisconnect
  <2> DEFINE p == Head(outbox)
  <2>1. /\ outbox # <<>> /\ outbox' = Tail(outbox) /\ p \in Outgoing
        /\ UNCHANGED <<mSocket, inbox, brokerSubs>>
        /\ \/ p.type = "PUBLISH" /\ received' = Append(received, p.arg)
           \/ p.type = "DISCONNECT" /\ UNCHANGED received
    BY <1>1, <1>3 DEF TakePublish, TakeDisconnect, brokerVars
  <2>2. /\ \A C : Has(outbox, C) <=> p \in C \/ Has(outbox', C)
    BY <1>1, <2>1, HasTail
  <2>3. /\ Range(received) \subseteq Range(received')
        /\ p.type = "PUBLISH" => p.arg \in Range(received')
    <3>1. CASE p.type = "PUBLISH"
      <4>1. p.arg \in Messages
        BY <2>1, <3>1 DEF Outgoing
      <4>2. \A m \in Messages : /\ Range(received) \subseteq Range(Append(received, m))
                                /\ m \in Range(Append(received, m))
        <5> TAKE m \in Messages
        <5> DEFINE r == Append(received, m)
                   n == Len(received)
        <5>1. /\ n \in Nat /\ DOMAIN received = 1 .. n /\ DOMAIN r = 1 .. n + 1
              /\ \A i \in 1 .. n : r[i] = received[i]
              /\ r[n + 1] = m
          BY <1>1, QueueBack
        <5> HIDE DEF r, n
        <5>2. n + 1 \in DOMAIN r /\ DOMAIN received \subseteq DOMAIN r
          BY <5>1
        <5>3. Range(received) \subseteq Range(r) /\ m \in Range(r)
          BY <5>1, <5>2 DEF Range
        <5> QED BY <5>3 DEF r
      <4> QED BY <2>1, <3>1, <4>1, <4>2
    <3>2. CASE p.type = "DISCONNECT"
      BY <2>1, <3>2
    <3> QED BY <2>1, <3>1, <3>2
  <2>4. \A m : p \in MessagePackets(m) => m \in Range(received')
    BY <2>3 DEF MessagePackets
  <2> QED BY <1>1, <2>1, <2>2, <2>3, <2>4, UndisturbedMoves
<1>4. ASSUME NEW t \in Topics, SendPublish(t) PROVE Undisturbed'
  BY <1>1, <1>4 DEF SendPublish
<1> QED BY <1>2, <1>3, <1>4 DEF BrokerStep, Take

-----------------------------------------------------------------------------
(* ExitInv, from the initial states and step by step. *)

\* Faults are counted, and only main() calls.
LEMMA InsideKeeps ==
    ASSUME InsideLoop
    PROVE  UNCHANGED callVars /\ faults' \in {faults, faults + 1}
<1>1. ASSUME NEW tries, Catch(tries) PROVE UNCHANGED callVars
  BY <1>1 DEF Catch
<1>2. CASE Loop
  <2>1. CASE BlockSkip \/ BlockPoll \/ BlockIdle
    BY <2>1 DEF BlockSkip, BlockPoll, BlockIdle, IdleWork, TcpTakeError, tcpVars
  <2>2. CASE PollData \/ PollThrows \/ PollTimeout
    BY <1>1, <2>2 DEF PollData, PollThrows, PollTimeout, IdleWork, tcpVars
  <2>3. CASE WhileDone \/ WhileTask
    BY <2>3 DEF WhileDone, WhileTask, IdleWork, tcpVars
  <2> QED BY <1>2, <2>1, <2>2, <2>3 DEF Loop
<1>3. CASE RunTask
  <2>1. CASE TcpConnectWaits \/ TcpConnectOpens \/ TcpConnectThrows
    BY <1>1, <2>1 DEF TcpConnectWaits, TcpConnectOpens, TcpConnectThrows, Repeat,
                      TcpOpen, TcpOpenThrows, Inject, tcpVars
  <2>2. CASE CheckConnectRepeats \/ CheckConnectDone \/ CheckConnectThrows
    BY <1>1, <2>2 DEF CheckConnectRepeats, CheckConnectDone, CheckConnectThrows,
                      Repeat, TcpTakeError, tcpVars
  <2>3. CASE Prepare
    BY <2>3 DEF Prepare, tcpVars
  <2>4. CASE SendAll \/ SendDisconnect \/ SendPart \/ SendNone \/ SendThrows
    BY <1>1, <2>4 DEF SendAll, SendDisconnect, SendPart, SendNone, SendThrows, SendRest,
                      TcpSendAll, TcpSendAllAndClose, TcpSendPart, TcpSendNone,
                      TcpSendThrows
  <2>5. CASE ReceiveNone \/ ReceiveThrows \/ Receive
    BY <1>1, <2>5 DEF ReceiveNone, ReceiveThrows, Receive, Repeat, TcpRecvNone,
                      TcpRecvThrows, TcpRecv
  <2>6. CASE Dispatch \/ Dispatched \/ Deliver
    BY <2>6 DEF Dispatch, Dispatched, Deliver, tcpVars
  <2>7. CASE HandleViolation \/ HandleRefusal \/ HandleConnack \/ Handled
    BY <1>1, <2>7 DEF HandleViolation, HandleRefusal, HandleConnack, Handled, TcpClose,
                      tcpVars
  <2>8. CASE CallbackThrows
    BY <1>1, <2>8 DEF CallbackThrows, Inject
  <2> QED BY <1>3, <2>1, <2>2, <2>3, <2>4, <2>5, <2>6, <2>7, <2>8 DEF RunTask
<1>4. CASE DelayElapses
  BY <1>4 DEF DelayElapses, tcpVars
<1> QED BY <1>2, <1>3, <1>4 DEF InsideLoop

LEMMA OutsideKeeps ==
    ASSUME Outside
    PROVE  UNCHANGED clientVars /\ faults' \in {faults, faults + 1}
<1>1. CASE Network /\ UNCHANGED <<clientVars, brokerVars>>
  BY <1>1 DEF Network, Establish, Refuse, PeerCloses, Reset, Arrive, Tick, Inject
<1>2. CASE BrokerStep /\ UNCHANGED clientVars
  BY <1>2 DEF BrokerStep, Take, TakeRequest, TakePublish, TakeDisconnect, SendPublish,
              Reply, Inject
<1> QED BY <1>1, <1>2 DEF Outside

\* Before main calls loop() nothing moves, and after it has returned for the
\* last time the client does not.
LEMMA NothingMoves ==
    ASSUME InsideLoop \/ Outside, pc = "out"
    PROVE  /\ UNCHANGED <<mTaskQueue, pc, ret>>
           /\ Untouched => Untouched'
<1>1. CASE InsideLoop
  <2>1. ~Loop
    BY DEF Loop, BlockSkip, BlockPoll, BlockIdle, PollData, PollThrows, PollTimeout,
           WhileDone, WhileTask
  <2>2. ~RunTask
    BY DEF RunTask, Running, InOnConnect, InOnMessage,
         TcpConnectWaits, TcpConnectOpens, TcpConnectThrows, CheckConnectRepeats,
         CheckConnectDone, CheckConnectThrows, Prepare, SendAll, SendDisconnect,
         SendPart, SendNone, SendThrows, ReceiveNone, ReceiveThrows, Receive,
         Dispatch, Dispatched, Deliver, HandleViolation, HandleRefusal,
         HandleConnack, Handled, CallbackThrows
  <2> QED BY <1>1, <2>1, <2>2
          DEF InsideLoop, DelayElapses, Untouched, loopVars, tcpVars, brokerVars
<1>2. CASE Outside
  <2>1. UNCHANGED <<mTaskQueue, pc, ret>>
    BY <1>2, OutsideKeeps DEF clientVars, taskVars, loopVars
  <2>2. Untouched => ~Network /\ ~BrokerStep
    BY DEF Untouched, Network, Establish, Refuse, PeerCloses, Reset, Arrive, Tick,
           BrokerStep, Take, TakeRequest, TakePublish, TakeDisconnect, SendPublish
  <2> QED BY <1>2, <2>1, <2>2 DEF Outside
<1> QED BY <1>1, <1>2

LEMMA ExitWaits ==
    ASSUME Calm \/ faults' # 0 \/ ~disconnecting, TypeInv, TypeInv', ExitInv,
           InsideLoop \/ Outside, MainWaits
    PROVE  ExitInv'
<1>1. /\ UNCHANGED <<phase, next, calls, disconnecting>>
      /\ faults' = 0 => faults = 0
  <2>1. faults \in Nat
    BY DEF TypeInv, TypeOK, TcpTypeOK
  <2> QED BY <2>1, InsideKeeps, OutsideKeeps
          DEF MainWaits, parserVars, mainVars, callVars, clientVars
<1>2. Filling'
  <2>1. \A n \in 1 .. next - 1 : Has(mTaskQueue, Carrying(MessageAt[n])) =>
           (pc = "out" => Has(mTaskQueue', Carrying(MessageAt[n])))
    BY NothingMoves
  <2>2. pc = "out" => UNCHANGED <<mTaskQueue, pc, ret>> /\ (Untouched => Untouched')
    BY NothingMoves
  <2>3. Untouched => pc = "out"
    BY DEF Untouched
  <2> QED BY <1>1, <2>1, <2>2, <2>3 DEF ExitInv, Filling
<1>3. ASSUME disconnecting', faults' = 0 PROVE Undisturbed'
  <2>1. Calm /\ TcpTypeOK'
    BY <1>1, <1>3 DEF TypeInv, TypeOK
  <2>2. CASE InsideLoop
    <3>1. CASE DelayElapses
      <4>1. /\ UNCHANGED <<mTaskQueue, inbox, outbox, brokerSubs, received,
                           mDisconnected, calls, mSocket, pc, ret>>
        BY <1>1, <2>2, <3>1 DEF InsideLoop, DelayElapses, loopVars, tcpVars, brokerVars
      <4>2. Undisturbed
        BY <2>1 DEF Calm
      <4>3. pc' # "poll" /\ (pc' = "callback" => Head(mTaskQueue).kind = "handle")
        BY <4>1, <4>2 DEF Undisturbed
      <4> QED BY <4>1, <4>2, <4>3, UndisturbedStays
    <3> QED BY <1>1, <1>3, <2>1, <2>2, <3>1, CalmLoop, CalmTasks DEF InsideLoop
  <2>3. CASE Outside
    BY <1>1, <1>3, <2>1, <2>3, CalmNetwork, CalmBroker DEF Outside
  <2> QED BY <2>2, <2>3
<1> QED BY <1>2, <1>3 DEF ExitInv

\* The tasks of the calls.
LEMMA CallTasks ==
    /\ \A m \in Messages : /\ PublishTask(m) \in Task /\ PublishTask(m) \notin Misfits
                           /\ PublishTask(m) \notin Leaving
                           /\ PublishTask(m) \in Carrying(m)
    /\ DisconnectTask \in Task /\ DisconnectTask \notin Misfits
    /\ DisconnectTask \in Leaving /\ DisconnectTask \notin Publishing
<1>1. ASSUME NEW m \in Messages
      PROVE  /\ PublishTask(m) \in Task /\ PublishTask(m) \notin Misfits
             /\ PublishTask(m) \notin Leaving
             /\ PublishTask(m) \in Carrying(m)
  <2> DEFINE t == PublishTask(m)
  <2>1. /\ t \in Task /\ t.kind = "prepare" /\ t.req.type = "PUBLISH" /\ t.req.arg = m
    BY TaskTypes DEF PublishTask, MakeTask, MakePacket
  <2> HIDE DEF t
  <2>2. Rank(t) = 4
    BY <2>1, Ranks
  <2>3. /\ t \notin Misfits /\ t \notin Leaving /\ t \in Carrying(m)
    BY <2>1, <2>2 DEF Misfits, PublisherTasks, Leaving, Carrying, Publishing
  <2> QED BY <2>1, <2>3 DEF t
<1>2. /\ DisconnectTask \in Task /\ DisconnectTask \notin Misfits
      /\ DisconnectTask \in Leaving /\ DisconnectTask \notin Publishing
  <2> DEFINE t == DisconnectTask
  <2>1. /\ t \in Task /\ t.kind = "prepare" /\ t.req.type = "DISCONNECT"
    BY TaskTypes DEF DisconnectTask, MakeTask, MakePacket
  <2> HIDE DEF t
  <2>2. Rank(t) = 4
    BY <2>1, Ranks
  <2>3. /\ t \notin Misfits /\ t \in Leaving /\ t \notin Publishing
    BY <2>1, <2>2 DEF Misfits, PublisherTasks, Leaving, Publishing
  <2> QED BY <2>1, <2>3 DEF t
<1> QED BY <1>1, <1>2

\* A new queue has no message, no DISCONNECT and nothing a publisher has not.
LEMMA FirstTasks == ~Has(ConnectTasks, Misfits) /\ ~Has(ConnectTasks, Leaving)
<1>1. /\ ConnectTasks[1].kind = "tcpConnect" /\ ConnectTasks[1].req = NoPacket
      /\ ConnectTasks[2].kind = "checkConnect" /\ ConnectTasks[2].req = NoPacket
      /\ ConnectTasks[3].kind = "prepare" /\ ConnectTasks[3].req.type = "CONNECT"
  BY DEF ConnectTasks, MakeTask, MakePacket
<1>2. \A i \in DOMAIN ConnectTasks : i \in 1 .. 3 /\ ConnectTasks[i] \in Task
  <2>1. ConnectTasks \in Seq(Task) /\ Len(ConnectTasks) = 3
    BY TaskTypes DEF ConnectTasks
  <2> QED BY <2>1
<1>3. ASSUME NEW i \in DOMAIN ConnectTasks
      PROVE  ConnectTasks[i] \notin Misfits /\ ConnectTasks[i] \notin Leaving
  <2>1. i \in 1 .. 3 /\ ConnectTasks[i] \in Task
    BY <1>2
  <2>2. /\ Rank(ConnectTasks[i]) \in 1 .. 3
        /\ ConnectTasks[i].req.type \in {"INVALID", "CONNECT"}
    BY <1>1, <2>1, Ranks, NoPacketSorts
  <2> QED BY <2>1, <2>2 DEF Misfits, PublisherTasks, Leaving
<1> QED BY <1>3 DEF Has

\* From the call of disconnect() on.
LEMMA ExitDisconnects ==
    ASSUME TypeInv, CallsInv, ExitInv, Disconnect, UNCHANGED brokerVars
    PROVE  ExitInv'
<1>1. /\ phase = "publish" /\ next > calls /\ phase' = "loop" /\ calls' = calls
      /\ mTaskQueue' = Append(mTaskQueue, DisconnectTask)
      /\ UNCHANGED <<mDisconnected, pc, ret, mSocket, inbox, outbox, brokerSubs, received>>
  BY DEF Disconnect, Forget, disconnect, Enqueue, loopVars, tcpVars, brokerVars
<1>2. /\ Untouched /\ ~Has(mTaskQueue, Misfits) /\ ~Has(mTaskQueue, Leaving)
      /\ \A n \in 1 .. next - 1 : Has(mTaskQueue, Carrying(MessageAt[n]))
  BY <1>1 DEF ExitInv, Filling
<1>3. /\ mTaskQueue \in Seq(Task)
      /\ \A C : Has(mTaskQueue', C) <=> Has(mTaskQueue, C) \/ DisconnectTask \in C
  BY <1>1, CallTasks, HasBack DEF TypeInv, TypeOK, ClientTypeOK
<1>4. LeavesLast(mTaskQueue')
  <2>1. LeavesLast(mTaskQueue)
    BY <1>2 DEF LeavesLast, Has
  <2> QED BY <1>1, <1>2, <1>3, <2>1, CallTasks, LeavesBack
<1>5. \A n \in 1 .. calls' : Held(MessageAt[n])'
  <2>1. \A n \in 1 .. calls : n \in 1 .. next - 1
    BY <1>1 DEF CallsInv
  <2> QED BY <1>1, <1>2, <1>3, <2>1 DEF Held
<1>6. Undisturbed'
  <2>1. /\ ~Has(mTaskQueue', Misfits) /\ Has(mTaskQueue', Leaving)
    BY <1>2, <1>3, CallTasks
  <2>2. /\ mSocket' = "none" /\ inbox' = <<>> /\ outbox' = <<>> /\ brokerSubs' = {}
        /\ pc' = "out" /\ ret' = "none"
    BY <1>1, <1>2 DEF Untouched
  <2>3. ~Has(outbox', Calls)
    BY <2>2, HasNone
  <2> QED BY <1>4, <1>5, <2>1, <2>2, <2>3 DEF Undisturbed
<1> QED BY <1>1, <1>6 DEF ExitInv, Filling

\* Parsing ends with a command line parsed, or main.
LEMMA ParsePhases == Parse => phase = "parse" /\ phase' \in {"parse", "parsed", "stopped"}
<1> SUFFICES ASSUME Parse PROVE phase = "parse" /\ phase' \in {"parse", "parsed", "stopped"}
  OBVIOUS
<1> DEFINE Fits == phase' \in {phase, "stopped"}
<1>1. ASSUME NEW o, NEW text, NEW argument, NEW l, parse_option(o, text, argument, l)
      PROVE  Fits
  BY <1>1 DEF parse_option, Throws, GoTo
<1>2. ASSUME NEW o, checked_parse_arg(o) PROVE Fits
  BY <1>1, <1>2 DEF checked_parse_arg, Throws
<1>3. CASE ParseLetter
  <2>1. phase = "parse"
    BY <1>3 DEF ParseLetter, Parsing
  <2>2. CASE Throws
    BY <2>1, <2>2 DEF Throws
  <2>3. CASE \E o : checked_parse_arg(o)
    BY <2>1, <1>2, <2>3
  <2>4. CASE \E o, text, argument, l : parse_option(o, text, argument, l)
    BY <2>1, <1>1, <2>4
  <2> QED BY <1>3, <2>2, <2>3, <2>4 DEF ParseLetter
<1>4. CASE ParseLong
  <2>1. phase = "parse"
    BY <1>4 DEF ParseLong, Parsing
  <2>2. CASE Throws
    BY <2>1, <2>2 DEF Throws
  <2>3. CASE \E o : checked_parse_arg(o)
    BY <2>1, <1>2, <2>3
  <2>4. CASE \E o, text, argument, l : parse_option(o, text, argument, l)
    BY <2>1, <1>1, <2>4
  <2> QED BY <1>4, <2>2, <2>3, <2>4 DEF ParseLong
<1>5. CASE SkipWord \/ SkipRest \/ RejectArgument \/ ParseDefaults
  BY <1>5 DEF SkipWord, SkipRest, RejectArgument, ParseDefaults, Parsing, GoTo, Throws
<1> QED BY <1>3, <1>4, <1>5 DEF Parse

LEMMA ExitMain ==
    ASSUME Calm \/ faults' # 0 \/ ~disconnecting, TypeInv, CallsInv, ExitInv, Main,
           UNCHANGED brokerVars
    PROVE  ExitInv'
<1>1. disconnecting => phase \in {"loop", "exit"}
  BY DEF ExitInv, Filling
<1>2. ASSUME UNCHANGED <<clientVars, tcpVars>>, ~disconnecting,
             phase' \in {"stopped", "subscribe", "forever"}
      PROVE  ExitInv'
  BY <1>2 DEF ExitInv, Filling, clientVars, callVars
<1>3. CASE Parse /\ UNCHANGED mainVars /\ UNCHANGED <<clientVars, tcpVars>>
  <2>1. phase = "parse" /\ phase' \in {"parse", "parsed", "stopped"}
    BY <1>3, ParsePhases
  <2>2. Untouched /\ mTaskQueue = ConnectTasks /\ next = 1
    BY <2>1 DEF ExitInv, Filling
  <2>3. Untouched' /\ mTaskQueue' = ConnectTasks /\ next' = 1 /\ ~disconnecting'
    BY <1>1, <1>3, <2>1, <2>2
       DEF Untouched, mainVars, clientVars, taskVars, loopVars, callVars, tcpVars, brokerVars
  <2> QED BY <2>1, <2>3 DEF ExitInv, Filling
<1>4. CASE /\ PrintHelp \/ NoTopic \/ NothingToDo \/ StartSubscribing
           /\ UNCHANGED <<clientVars, tcpVars>>
  BY <1>1, <1>2, <1>4 DEF PrintHelp, NoTopic, NothingToDo, Stops, StartSubscribing
<1>5. CASE Build /\ UNCHANGED <<clientVars, tcpVars>>
  <2>1. phase = "parsed" /\ phase' = "built" /\ next' = next
    BY <1>5 DEF Build
  <2>2. Untouched /\ mTaskQueue = ConnectTasks /\ next = 1
    BY <2>1 DEF ExitInv, Filling
  <2>3. Untouched' /\ mTaskQueue' = ConnectTasks /\ next' = 1 /\ ~disconnecting'
    BY <1>1, <1>5, <2>1, <2>2
       DEF Untouched, clientVars, taskVars, loopVars, callVars, tcpVars, brokerVars
  <2> QED BY <2>1, <2>3 DEF ExitInv, Filling
<1>6. CASE StartPublishing /\ UNCHANGED <<clientVars, tcpVars>>
  <2>1. phase = "built" /\ phase' = "publish" /\ next' = next
    BY <1>6 DEF StartPublishing
  <2>2. Untouched /\ mTaskQueue = ConnectTasks /\ next = 1
    BY <2>1 DEF ExitInv, Filling
  <2>3. Untouched' /\ mTaskQueue' = ConnectTasks /\ next' = 1 /\ ~disconnecting'
    BY <1>1, <1>6, <2>1, <2>2
       DEF Untouched, clientVars, taskVars, loopVars, callVars, tcpVars, brokerVars
  <2>4. 1 .. next' - 1 = {}
    BY <2>3
  <2> QED BY <2>1, <2>3, <2>4, FirstTasks DEF ExitInv, Filling
<1>7. CASE PublishNext
  <2> DEFINE m == MessageAt[next]
  <2>1. /\ phase = "publish" /\ phase' = "publish" /\ next' = next + 1
        /\ next \in Nat \ {0}
        /\ mTaskQueue' = Append(mTaskQueue, PublishTask(m))
        /\ UNCHANGED <<pc, ret, mSocket, inbox, outbox, brokerSubs, disconnecting>>
    BY <1>7 DEF PublishNext, publish, Enqueue, loopVars, tcpVars, brokerVars, CallsInv
  <2>2. m \in Messages
    <3>1. next \in DOMAIN MessageAt
      BY <1>7, CliAssumption DEF PublishNext, CallsInv
    <3> QED BY <3>1, CliAssumption
  <2>3. /\ mTaskQueue \in Seq(Task)
        /\ \A C : Has(mTaskQueue', C) <=> Has(mTaskQueue, C) \/ PublishTask(m) \in C
    BY <2>1, <2>2, CallTasks, HasBack DEF TypeInv, TypeOK, ClientTypeOK
  <2>4. /\ Untouched /\ ~Has(mTaskQueue, Misfits) /\ ~Has(mTaskQueue, Leaving)
        /\ \A n \in 1 .. next - 1 : Has(mTaskQueue, Carrying(MessageAt[n]))
    BY <2>1 DEF ExitInv, Filling
  <2>5. /\ Untouched' /\ ~Has(mTaskQueue', Misfits) /\ ~Has(mTaskQueue', Leaving)
        /\ ~disconnecting'
    BY <1>1, <2>1, <2>2, <2>3, <2>4, CallTasks DEF Untouched
  <2>6. \A n \in 1 .. next' - 1 : Has(mTaskQueue', Carrying(MessageAt[n]))
    <3> SUFFICES ASSUME NEW n \in 1 .. next' - 1
                 PROVE  Has(mTaskQueue', Carrying(MessageAt[n]))
      OBVIOUS
    <3>1. n \in 1 .. next - 1 \/ n = next
      BY <2>1
    <3> QED BY <2>2, <2>3, <2>4, <3>1, CallTasks
  <2> QED BY <2>1, <2>5, <2>6 DEF ExitInv, Filling
<1>8. CASE Disconnect
  BY <1>8, ExitDisconnects
<1>9. CASE SubscribeNext
  <2>1. /\ phase = "subscribe" /\ phase' = "subscribe" /\ UNCHANGED disconnecting
    BY <1>9 DEF SubscribeNext, subscribe
  <2> QED BY <1>1, <2>1 DEF ExitInv, Filling
<1>10. CASE Subscribed
  BY <1>1, <1>2, <1>10 DEF Subscribed
<1>11. CASE CallLoop
  <2>1. /\ phase \in {"loop", "forever"} /\ LoopCall
        /\ UNCHANGED <<phase, calls, disconnecting, faults>>
    BY <1>11 DEF CallLoop, LoopCall, MainWaits, parserVars, mainVars, callVars, tcpVars
  <2>2. Filling'
    BY <1>1, <2>1 DEF Filling
  <2>3. disconnecting' /\ faults' = 0 => Undisturbed'
    BY <2>1, CalmLoop
  <2> QED BY <2>2, <2>3 DEF ExitInv
<1>12. CASE Exit
  <2>1. /\ phase' = "exit" /\ phase \in {"loop", "forever"} /\ pc = "out"
        /\ ret \in {"EVERYTHING_DONE", "THROWN"}
        /\ UNCHANGED <<calls, clientVars, tcpVars, brokerVars>>
    BY <1>12 DEF Exit, LastStatus, mainVars
  <2>2. Filling'
    BY <2>1 DEF Filling, clientVars, loopVars
  <2>3. ASSUME disconnecting', faults' = 0 PROVE Undisturbed'
    <3>1. Undisturbed
      BY <2>1, <2>3 DEF Calm, clientVars, callVars
    <3>2. /\ UNCHANGED <<mTaskQueue, inbox, outbox, brokerSubs, received, mDisconnected,
                         calls, mSocket, pc, ret>>
      BY <2>1 DEF clientVars, taskVars, loopVars, tcpVars, brokerVars
    <3> QED BY <2>1, <3>1, <3>2, UndisturbedStays
  <2> QED BY <2>2, <2>3 DEF ExitInv
<1> QED BY <1>3, <1>4, <1>5, <1>6, <1>7, <1>8, <1>9, <1>10, <1>11, <1>12 DEF Main

LEMMA ExitStep ==
    ASSUME TypeInv, TypeInv', SafetyInv, StreamInv, CallsInv, ExitInv, [CliNext]_cliVars
    PROVE  ExitInv'
<1>1. Calm \/ faults' # 0 \/ ~disconnecting
  <2>1. Undisturbed => Calm
    BY DEF Calm, TypeInv, TypeOK
  <2>2. faults' = 0 => faults = 0
    <3>1. faults \in Nat
      BY DEF TypeInv, TypeOK, TcpTypeOK
    <3>2. faults' \in {faults, faults + 1}
      <4>1. CASE Main
        BY <4>1 DEF Main, PublishNext, publish, Disconnect, disconnect, SubscribeNext,
                    subscribe, Enqueue, Subscribed, CallLoop, LoopCall, Exit, tcpVars
      <4>2. CASE UNCHANGED cliVars
        BY <4>2 DEF cliVars, vars, tcpVars
      <4> QED BY <4>1, <4>2, InsideKeeps, OutsideKeeps DEF CliNext
    <3> QED BY <3>1, <3>2
  <2> QED BY <2>1, <2>2 DEF ExitInv
<1>2. CASE UNCHANGED cliVars
  <2>1. UNCHANGED <<phase, next, calls, disconnecting, faults, mTaskQueue, inbox, outbox,
                    brokerSubs, received, mDisconnected, mSocket, pc, ret>>
    BY <1>2 DEF cliVars, vars, parserVars, mainVars, clientVars, taskVars, loopVars,
                callVars, tcpVars, brokerVars
  <2>2. Filling'
    BY <2>1 DEF ExitInv, Filling, Untouched
  <2>3. Undisturbed => Undisturbed'
    <3> SUFFICES ASSUME Undisturbed PROVE Undisturbed'
      OBVIOUS
    <3>1. pc' # "poll" /\ (pc' = "callback" => Head(mTaskQueue).kind = "handle")
      BY <2>1 DEF Undisturbed
    <3> QED BY <2>1, <3>1, UndisturbedStays
  <2> QED BY <2>1, <2>2, <2>3 DEF ExitInv
<1>3. CASE Main /\ UNCHANGED brokerVars
  BY <1>1, <1>3, ExitMain
<1>4. CASE (InsideLoop \/ Outside) /\ MainWaits
  BY <1>1, <1>4, ExitWaits
<1> QED BY <1>2, <1>3, <1>4 DEF CliNext

LEMMA InitExit == CliInit => ExitInv
<1> SUFFICES ASSUME CliInit PROVE ExitInv
  OBVIOUS
<1>1. /\ phase = "parse" /\ next = 1 /\ mTaskQueue = ConnectTasks /\ ~disconnecting
      /\ pc = "out" /\ ret = "none" /\ mSocket = "none" /\ inbox = <<>> /\ outbox = <<>>
      /\ brokerSubs = {}
  BY DEF CliInit, Init, ParserInit, ClientInit, TcpInit, BrokerInit
<1> QED BY <1>1 DEF ExitInv, Filling, Untouched

\* From disconnect() until main() ends the client goes on towards its DISCONNECT
\* and holds every message, as long as nothing fails (main.cpp:83-91).
THEOREM ExitInvCorrect == CliSpec => []ExitInv
<1>1. CliInit => ExitInv /\ CallsInv
  <2>1. CliInit => CallsInv
    BY CliAssumption DEF CliInit, CallsInv
  <2> QED BY <2>1, InitExit
<1>2. /\ ExitInv /\ CallsInv /\ [CliNext]_cliVars
      /\ TypeInv /\ TypeInv' /\ SafetyInv /\ StreamInv
      => ExitInv' /\ CallsInv'
  BY ExitStep, CallsStep
<1>3. CliSpec => [](TypeInv /\ SafetyInv /\ StreamInv)
  BY CliImplements, TypeInvCorrect, SafetyInvCorrect, StreamInvCorrect, PTL
<1> QED BY <1>1, <1>2, <1>3, PTL DEF CliSpec

\* When main() ends and nothing has failed, it has disconnected, and every message
\* given with -p has been taken by the broker or is on its way to it
\* (main.cpp:83-88).
THEOREM ExitMeansSentCorrect == CliSpec => []ExitMeansSent
<1>1. ASSUME ExitInv, TypeInv, SafetyInv PROVE ExitMeansSent
  <2> SUFFICES ASSUME phase = "exit", disconnecting, faults = 0
               PROVE  /\ mDisconnected
                      /\ \A n \in 1 .. calls :
                            MessageAt[n] \in Range(received) \cup Range(MessagesOf(outbox))
    BY DEF ExitMeansSent
  <2>1. /\ mDisconnected /\ \A n \in 1 .. calls : Held(MessageAt[n])
    BY <1>1 DEF ExitInv, Filling, Undisturbed
  <2>2. \A C : ~Has(mTaskQueue, C)
    BY <1>1, <2>1, HasNone DEF SafetyInv, DisconnectIsFinal
  <2>3. ASSUME NEW m, Has(outbox, MessagePackets(m))
        PROVE  m \in Range(MessagesOf(outbox))
    <3>1. PICK i \in DOMAIN outbox : outbox[i] \in MessagePackets(m)
      BY <2>3 DEF Has
    <3> DEFINE args == ArgsOf(outbox)
               I == PublishAt(outbox)
    <3>2. /\ args \in Seq(Args) /\ I \in SUBSET DOMAIN args
          /\ i \in I /\ args[i] = m /\ MessagesOf(outbox) = At(args, I)
      BY <1>1, <3>1, ArgsType
         DEF TypeInv, TypeOK, TcpTypeOK, MessagePackets, PublishAt
    <3> HIDE DEF args, I
    <3>3. PICK n \in DOMAIN At(args, I) : At(args, I)[n] = m
      BY <3>2, AtElements
    <3> QED BY <3>2, <3>3 DEF Range
  <2> QED BY <2>1, <2>2, <2>3 DEF Held
<1>2. CliSpec => [](TypeInv /\ SafetyInv)
  BY CliImplements, TypeInvCorrect, SafetyInvCorrect, PTL
<1> QED BY <1>1, <1>2, ExitInvCorrect, PTL

=============================================================================
