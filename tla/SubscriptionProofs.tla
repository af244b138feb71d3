------------------------- MODULE SubscriptionProofs -------------------------
(***************************************************************************)
(* SubscriptionInv is inductive, and with it an idle client's callbacks    *)
(* are subscribed at the broker, and nothing else is                       *)
(* (RegisteredIsSubscribed), for all values of the constants.              *)
(***************************************************************************)
EXTENDS StreamProofs, SubscriptionInvariant

-----------------------------------------------------------------------------
(* The order of the calls in the queue. *)

\* More calls asked for, more revoked.
LEMMA TurnGrows ==
    ASSUME NEW q, NEW A, NEW G, NEW B, NEW H, CallsInTurn(q, A, G),
           A \subseteq B, G \subseteq H
    PROVE  CallsInTurn(q, B, H)
BY DEF CallsInTurn, FitCall, InTurn

\* A new call goes to the back: it revokes calls that are known to be revoked.
LEMMA TurnBack ==
    ASSUME NEW A, NEW G, NEW q \in Seq(Task), CallsInTurn(q, A, G),
           NEW t \in Task, FitCall(t, A), t.kind # "send",
           \A i \in DOMAIN q : Revokes(t, q[i]) => q[i].req.arg \in G
    PROVE  CallsInTurn(Append(q, t), A, G)
<1> DEFINE r == Append(q, t)
           n == Len(q)
<1>1. /\ n \in Nat /\ DOMAIN q = 1 .. n /\ DOMAIN r = 1 .. n + 1
      /\ \A i \in 1 .. n : r[i] = q[i]
      /\ r[n + 1] = t
  BY QueueBack
<1> HIDE DEF r, n
<1>2. \A i \in DOMAIN r : \/ i \in DOMAIN q /\ r[i] = q[i]
                          \/ i = n + 1 /\ r[i] = t
  BY <1>1
<1>3. ASSUME NEW i \in DOMAIN r PROVE FitCall(r[i], A)
  BY <1>2 DEF CallsInTurn
<1>4. ASSUME NEW i \in DOMAIN r, NEW j \in DOMAIN r, i < j PROVE InTurn(r[i], r[j], G)
  <2>1. i \in DOMAIN q /\ r[i] = q[i]
    BY <1>1, <1>4
  <2>2. CASE r[j] = t
    BY <2>1, <2>2 DEF InTurn
  <2>3. CASE j \in DOMAIN q /\ r[j] = q[j]
    BY <1>4, <2>1, <2>3 DEF CallsInTurn
  <2> QED BY <1>2, <2>2, <2>3
<1>5. CallsInTurn(r, A, G)
  BY <1>3, <1>4 DEF CallsInTurn
<1> QED BY <1>5 DEF r

LEMMA TurnFront ==
    ASSUME NEW A, NEW G, NEW q \in Seq(Task), CallsInTurn(q, A, G),
           NEW t \in Task, FitCall(t, A), \A i \in DOMAIN q : InTurn(t, q[i], G)
    PROVE  CallsInTurn(<<t>> \o q, A, G)
<1> DEFINE r == <<t>> \o q
           n == Len(q)
<1>1. /\ n \in Nat /\ DOMAIN q = 1 .. n /\ DOMAIN r = 1 .. n + 1
      /\ r[1] = t
      /\ \A i \in 1 .. n : r[i + 1] = q[i]
  BY QueueFront
<1> HIDE DEF r, n
<1>2. \A i \in DOMAIN r : i # 1 => i - 1 \in DOMAIN q /\ r[i] = q[i - 1]
  <2> SUFFICES ASSUME NEW i \in DOMAIN r, i # 1
               PROVE  i - 1 \in DOMAIN q /\ r[i] = q[i - 1]
    OBVIOUS
  <2>1. i - 1 \in 1 .. n /\ (i - 1) + 1 = i
    BY <1>1
  <2> QED BY <1>1, <2>1
<1>3. \A i \in DOMAIN r : FitCall(r[i], A)
  BY <1>1, <1>2 DEF CallsInTurn
<1>4. ASSUME NEW i \in DOMAIN r, NEW j \in DOMAIN r, i < j PROVE InTurn(r[i], r[j], G)
  <2>1. j # 1 /\ j - 1 \in DOMAIN q /\ r[j] = q[j - 1]
    BY <1>1, <1>2, <1>4
  <2>2. CASE i = 1
    BY <1>1, <2>1, <2>2
  <2>3. CASE i # 1
    <3>1. i - 1 \in DOMAIN q /\ r[i] = q[i - 1] /\ i - 1 < j - 1
      BY <1>1, <1>2, <1>4, <2>3
    <3> QED BY <2>1, <3>1 DEF CallsInTurn
  <2> QED BY <2>2, <2>3
<1>5. CallsInTurn(r, A, G)
  BY <1>3, <1>4 DEF CallsInTurn
<1> QED BY <1>5 DEF r

LEMMA TurnTail ==
    ASSUME NEW A, NEW G, NEW q \in Seq(Task), q # <<>>, CallsInTurn(q, A, G)
    PROVE  /\ CallsInTurn(Tail(q), A, G)
           /\ FitCall(Head(q), A)
           /\ \A i \in DOMAIN Tail(q) : InTurn(Head(q), Tail(q)[i], G)
<1> DEFINE r == Tail(q)
           n == Len(q)
<1>1. /\ n \in Nat /\ n >= 1 /\ DOMAIN q = 1 .. n /\ DOMAIN r = 1 .. n - 1
      /\ Head(q) = q[1]
      /\ \A i \in 1 .. n - 1 : r[i] = q[i + 1]
  BY QueueTail
<1> HIDE DEF r, n
<1>2. \A i \in DOMAIN r : i + 1 \in DOMAIN q /\ 1 < i + 1 /\ r[i] = q[i + 1] /\ i \in Nat
  BY <1>1
<1>3. 1 \in DOMAIN q
  BY <1>1
<1>4. \A i \in DOMAIN r : FitCall(r[i], A) /\ InTurn(q[1], r[i], G)
  BY <1>2, <1>3 DEF CallsInTurn
<1>5. ASSUME NEW i \in DOMAIN r, NEW j \in DOMAIN r, i < j PROVE InTurn(r[i], r[j], G)
  <2>1. i + 1 < j + 1
    BY <1>2, <1>5
  <2> QED BY <1>2, <2>1 DEF CallsInTurn
<1>6. CallsInTurn(r, A, G) /\ FitCall(q[1], A)
  BY <1>3, <1>4, <1>5 DEF CallsInTurn
<1> QED BY <1>1, <1>4, <1>6 DEF r

\* What the queue of a new connection holds was held before, or is new.
LEMMA ReconnectHas ==
    ASSUME ClientTypeOK, connectMqtt, NEW C, Has(mTaskQueue', C)
    PROVE  \/ Has(ConnectTasks, C)
           \/ \E i \in DOMAIN mTaskQueue : mTaskQueue[i].keep /\ mTaskQueue[i] \in C
           \/ \E s \in callbacks : SubscribeTask(s) \in C
<1>1. PICK order \in SetToSeqs(callbacks) :
         mTaskQueue' = ConnectTasks \o Kept(mTaskQueue) \o
                       [i \in DOMAIN order |-> SubscribeTask(order[i])]
  BY DEF connectMqtt
<1> DEFINE k == Kept(mTaskQueue)
           r == [i \in DOMAIN order |-> SubscribeTask(order[i])]
           ck == ConnectTasks \o k
<1>2. mTaskQueue \in Seq(Task) /\ callbacks \subseteq Subs /\ IsFiniteSet(callbacks)
  BY DEF ClientTypeOK
<1>3. /\ k \in Seq(Task)
      /\ \A n \in DOMAIN k : \E i \in DOMAIN mTaskQueue :
                                k[n] = mTaskQueue[i] /\ mTaskQueue[i].keep
  BY <1>2, KeptIsQueue
<1>4. order \in Seq(callbacks)
  BY <1>2, OrderIsSeq
<1>5. /\ r \in Seq(Task) /\ DOMAIN r = DOMAIN order
      /\ \A n \in DOMAIN r : order[n] \in callbacks /\ r[n] = SubscribeTask(order[n])
  <2>1. /\ DOMAIN order = 1 .. Len(order) /\ Len(order) \in Nat
        /\ \A i \in DOMAIN order : order[i] \in callbacks /\ order[i] \in Subs
    BY <1>2, <1>4
  <2>2. r \in [1 .. Len(order) -> Task]
    BY <2>1, TaskTypes
  <2> QED BY <2>1, <2>2
<1>6. mTaskQueue' = ck \o r
  BY <1>1
<1> HIDE DEF k, r
<1>7. /\ ck \in Seq(Task)
      /\ \A n \in DOMAIN ck :
            \/ n \in DOMAIN ConnectTasks /\ ck[n] = ConnectTasks[n]
            \/ n - Len(ConnectTasks) \in DOMAIN k /\ ck[n] = k[n - Len(ConnectTasks)]
  BY <1>3, TaskTypes, QueueConcat
<1> HIDE DEF ck
<1>8. \A n \in DOMAIN mTaskQueue' :
         \/ n \in DOMAIN ck /\ mTaskQueue'[n] = ck[n]
         \/ n - Len(ck) \in DOMAIN r /\ mTaskQueue'[n] = r[n - Len(ck)]
  BY <1>5, <1>6, <1>7, QueueConcat
<1>9. PICK n \in DOMAIN mTaskQueue' : mTaskQueue'[n] \in C
  BY DEF Has
<1>10. CASE n - Len(ck) \in DOMAIN r /\ mTaskQueue'[n] = r[n - Len(ck)]
  BY <1>5, <1>9, <1>10
<1>11. CASE n \in DOMAIN ck /\ mTaskQueue'[n] = ck[n]
  <2>1. CASE n \in DOMAIN ConnectTasks /\ ck[n] = ConnectTasks[n]
    BY <1>9, <1>11, <2>1 DEF Has
  <2>2. CASE n - Len(ConnectTasks) \in DOMAIN k /\ ck[n] = k[n - Len(ConnectTasks)]
    BY <1>3, <1>9, <1>11, <2>2
  <2> QED BY <1>7, <1>11, <2>1, <2>2
<1> QED BY <1>8, <1>10, <1>11

\* On a new connection nothing is being sent, and nothing is to be revoked.
LEMMA TurnReconnect ==
    ASSUME ClientTypeOK, connectMqtt, callbacks \subseteq subscribed,
           CallsInTurn(mTaskQueue, subscribed, cancelled)
    PROVE  CallsInTurn(mTaskQueue', subscribed, cancelled)
<1> DEFINE C == {task \in Task : \/ ~FitCall(task, subscribed)
                                 \/ task.req.type = "UNSUBSCRIBE"
                                 \/ task.kind = "send" /\ task.req.type = "SUBSCRIBE"}
<1>1. ~Has(ConnectTasks, C)
  BY DEF Has, ConnectTasks, MakeTask, MakePacket, NoPacket, FitCall
<1>2. \A i \in DOMAIN mTaskQueue : mTaskQueue[i].keep => mTaskQueue[i] \notin C
  BY DEF CallsInTurn, FitCall
<1>3. \A s \in callbacks : SubscribeTask(s) \notin C
  BY DEF SubscribeTask, MakeTask, MakePacket, FitCall
<1>4. ~Has(mTaskQueue', C)
  <2> HIDE DEF C
  <2> QED BY <1>1, <1>2, <1>3, ReconnectHas
<1>5. \A i \in DOMAIN mTaskQueue' : mTaskQueue'[i] \in Task
  BY ReconnectQueue
<1>6. \A i \in DOMAIN mTaskQueue' :
         /\ FitCall(mTaskQueue'[i], subscribed)
         /\ mTaskQueue'[i].req.type # "UNSUBSCRIBE"
         /\ ~(mTaskQueue'[i].kind = "send" /\ mTaskQueue'[i].req.type = "SUBSCRIBE")
  BY <1>4, <1>5 DEF Has
<1> QED BY <1>6 DEF CallsInTurn, InTurn, Revokes

\* The first task is replaced by one that asks for the same.
LEMMA TurnReplaced ==
    ASSUME ClientTypeOK, mTaskQueue # <<>>,
           CallsInTurn(mTaskQueue, subscribed, cancelled),
           NEW t \in Task, ReplaceBy(<<t>>),
           t.req.type = This.req.type, t.req.arg = This.req.arg,
           This.req = NoPacket => t.req = NoPacket,
           t.keep => t.req.type \notin {"SUBSCRIBE", "UNSUBSCRIBE"}
    PROVE  CallsInTurn(mTaskQueue', subscribed, cancelled)
<1>1. mTaskQueue \in Seq(Task) /\ Others \in Seq(Task)
  BY DEF ClientTypeOK, Others
<1>2. /\ CallsInTurn(Others, subscribed, cancelled) /\ FitCall(This, subscribed)
      /\ \A i \in DOMAIN Others : InTurn(This, Others[i], cancelled)
  BY <1>1, TurnTail DEF This, Others
<1>3. FitCall(t, subscribed)
  BY <1>2 DEF FitCall
<1>4. \A i \in DOMAIN Others : InTurn(t, Others[i], cancelled)
  BY <1>2 DEF InTurn, Revokes
<1> QED BY <1>1, <1>2, <1>3, <1>4, TurnFront DEF ReplaceBy

LEMMA TurnDropped ==
    ASSUME ClientTypeOK, mTaskQueue # <<>>, ReplaceBy(<<>>),
           CallsInTurn(mTaskQueue, subscribed, cancelled)
    PROVE  CallsInTurn(mTaskQueue', subscribed, cancelled)
<1>1. mTaskQueue \in Seq(Task) /\ Others \in Seq(Task)
  BY DEF ClientTypeOK, Others
<1>2. mTaskQueue' = Others
  BY <1>1 DEF ReplaceBy
<1> QED BY <1>1, <1>2, TurnTail DEF Others

-----------------------------------------------------------------------------
(* Steps that have much in common. *)

\* What holds the callbacks back is no more than it was.
HeldLess == /\ Replacing' => Replacing
            /\ Has(mTaskQueue', Joiners) => Has(mTaskQueue, Joiners) \/ Replacing
            /\ \A t \in Topics : Has(mTaskQueue', Unsubscribes(t))
                                   => Has(mTaskQueue, Unsubscribes(t))

LEMMA RegisteredStays ==
    ASSUME ClientTypeOK, Registered, HeldLess, callbacks' \subseteq callbacks,
           subscribed \subseteq subscribed', cancelled \subseteq cancelled'
    PROVE  Registered'
<1>1. callbacks \subseteq Subs /\ \A s \in Subs : TopicOf[s] \in Topics
  BY PacketsAssumption DEF ClientTypeOK
<1>2. callbacks' \subseteq subscribed'
  BY DEF Registered
<1>3. ASSUME NEW s \in callbacks' \ cancelled'
      PROVE  ~Has(mTaskQueue', Unsubscribes(TopicOf[s]))
  BY <1>1 DEF Registered, HeldLess
<1>4. Replacing' \/ Has(mTaskQueue', Joiners) => callbacks' = {}
  BY DEF Registered, HeldLess
<1> QED BY <1>2, <1>3, <1>4 DEF Registered

\* The requests on their way are the same.
SameRequests == /\ \A s \in Subs : IsSubscribing(s)' <=> IsSubscribing(s)
                /\ \A t \in Topics : IsLeaving(t) => IsLeaving(t)'

\* Neither the callbacks nor the broker's subscriptions change.
LEMMA SubscriptionQuiet ==
    ASSUME ClientTypeOK, BrokerTypeOK, SubscriptionInv,
           CallsInTurn(mTaskQueue', subscribed', cancelled'), HeldLess,
           UNCHANGED <<callbacks, brokerSubs>>,
           subscribed \subseteq subscribed', cancelled \subseteq cancelled',
           StartsFresh', Serving' => Serving /\ SameRequests,
           Serving' /\ MaxRetries # 0 /\ IsSpoilt => IsSpoilt'
    PROVE  SubscriptionInv'
<1>1. /\ callbacks \subseteq Subs /\ brokerSubs \subseteq Topics
      /\ \A s \in Subs : TopicOf[s] \in Topics
  BY PacketsAssumption DEF ClientTypeOK, BrokerTypeOK
<1>2. Registered'
  BY RegisteredStays DEF SubscriptionInv
<1>3. ASSUME MaxRetries # 0, Serving' PROVE "suback" \notin Faults => NoneMissing'
  <2>1. "suback" \notin Faults => NoneMissing
    BY <1>3 DEF SubscriptionInv, Linked
  <2>2. SameRequests /\ (IsSpoilt => IsSpoilt')
    BY <1>3
  <2> QED BY <1>1, <2>1, <2>2 DEF NoneMissing, SameRequests
<1>4. ASSUME MaxRetries # 0, Serving' PROVE CleanSession => NoneLeft'
  <2>1. CleanSession => NoneLeft
    BY <1>4 DEF SubscriptionInv, Linked
  <2>2. SameRequests
    BY <1>4
  <2>3. \A t : Matching(t)' = Matching(t)
    BY DEF Matching
  <2> QED BY <1>1, <2>1, <2>2, <2>3 DEF NoneLeft, SameRequests
<1> QED BY <1>2, <1>3, <1>4 DEF SubscriptionInv, Linked

\* There is no connection, or it is to be replaced, or not yet accepted.
LEMMA SubscriptionUnlinked ==
    ASSUME CallsInTurn(mTaskQueue', subscribed', cancelled'), Registered', StartsFresh',
           ~Serving'
    PROVE  SubscriptionInv'
BY DEF SubscriptionInv, Linked

\* The client reconnects.
LEMMA SubscriptionReconnects ==
    ASSUME ClientTypeOK, StreamInv, SubscriptionInv, connectMqtt, StartsFresh',
           UNCHANGED <<subscribed, cancelled>>
    PROVE  SubscriptionInv'
<1>1. CallsInTurn(mTaskQueue', subscribed', cancelled')
  BY TurnReconnect DEF SubscriptionInv, Registered
<1>2. Replacing'
  BY ReconnectOrdered DEF StreamInv, Replacing
<1>3. callbacks' = {}
  BY DEF connectMqtt
<1> QED BY <1>1, <1>2, <1>3, SubscriptionUnlinked DEF Registered, Serving

\* The queue is the same, and nothing on its way to the client is lost.
LEMMA SubscriptionStays ==
    ASSUME ClientTypeOK, BrokerTypeOK, SubscriptionInv,
           UNCHANGED <<mTaskQueue, callbacks, subscribed, cancelled, brokerSubs>>,
           StartsFresh', Serving' => /\ mSocket = "up" /\ session
                                     /\ \A s \in Subs : Has(outbox', SubscribesTo(s))
                                                     <=> Has(outbox, SubscribesTo(s))
                                     /\ \A t \in Topics : Has(outbox, Leaves(t))
                                                     => Has(outbox', Leaves(t))
                                     /\ \A p : Has(inbox, BadAnswers(p))
                                                     => Has(inbox', BadAnswers(p))
    PROVE  SubscriptionInv'
<1>1. Replacing' <=> Replacing
  BY DEF Replacing
<1>2. HeldLess
  BY DEF HeldLess, Replacing
<1>3. Serving' => Serving /\ SameRequests
  BY <1>1 DEF Serving, SameRequests, IsSubscribing, IsLeaving
<1>4. Serving' /\ IsSpoilt => IsSpoilt'
  BY DEF IsSpoilt, AwaitsReply
<1>5. CallsInTurn(mTaskQueue', subscribed', cancelled')
  BY DEF SubscriptionInv
<1> QED BY <1>2, <1>3, <1>4, <1>5, SubscriptionQuiet

\* A task throws; the client reconnects, or gives up and keeps the queue.
LEMMA SubscriptionCatch ==
    ASSUME ClientTypeOK, BrokerTypeOK, StreamInv, SubscriptionInv, ~mDisconnected,
           NEW tries, Catch(tries), StartsFresh', UNCHANGED brokerSubs,
           Serving' => mSocket = "up" /\ session /\ UNCHANGED <<inbox, outbox>>
    PROVE  SubscriptionInv'
<1>1. UNCHANGED <<subscribed, cancelled>>
  BY DEF Catch, callVars
<1>2. CASE connectMqtt
  BY <1>1, <1>2, SubscriptionReconnects
<1>3. CASE UNCHANGED <<mTaskQueue, callbacks>>
  <2>1. Serving' => /\ mSocket = "up" /\ session
                    /\ \A s \in Subs : Has(outbox', SubscribesTo(s))
                                       <=> Has(outbox, SubscribesTo(s))
                    /\ \A t \in Topics : Has(outbox, Leaves(t))
                                         => Has(outbox', Leaves(t))
                    /\ \A p : Has(inbox, BadAnswers(p)) => Has(inbox', BadAnswers(p))
    OBVIOUS
  <2> QED BY <1>1, <1>3, <2>1, SubscriptionStays
<1> QED BY <1>2, <1>3 DEF Catch

\* The sorts a task is of.
LEMMA CallSorts ==
    ASSUME NEW t \in Task
    PROVE  /\ t \in Openers <=> t.kind = "tcpConnect"
           /\ t \in Joiners <=> t.req.type = "CONNECT"
           /\ \A s : t \in Subscribers(s) <=> /\ t.kind = "send"
                                              /\ t.req.type = "SUBSCRIBE" /\ t.req.arg = s
           /\ \A u : t \in Unsubscribes(u) <=> /\ t.req.type = "UNSUBSCRIBE"
                                               /\ t.req.arg = u
           /\ \A u : t \in Leavers(u) <=> /\ t.kind \in {"prepare", "send"}
                                          /\ t.req.type = "UNSUBSCRIBE" /\ t.req.arg = u
           /\ t \in Spoilt <=> /\ t.kind \in Receiving \cup {"handle"}
                               /\ t.req.type \in Requests /\ t.resp.type \in Replies
                               /\ Violates(t.req, t.resp)
<1>1. /\ t \in Openers <=> t.kind = "tcpConnect"
      /\ t \in Joiners <=> t.req.type = "CONNECT"
  BY Sorts, Ranks
<1> QED BY <1>1 DEF Subscribers, Unsubscribes, Leavers, Spoilt

\* Two queues that ask for the same.
CallsAlike(r, q) ==
    /\ Has(r, Openers) <=> Has(q, Openers)
    /\ \A s \in Subs : Has(r, Subscribers(s)) <=> Has(q, Subscribers(s))
    /\ \A t \in Topics : /\ Has(r, Leavers(t)) <=> Has(q, Leavers(t))
                         /\ Has(r, Unsubscribes(t)) => Has(q, Unsubscribes(t))
    /\ Has(r, Joiners) => Has(q, Joiners)

LEMMA SubscriptionAlike ==
    ASSUME ClientTypeOK, BrokerTypeOK, SubscriptionInv,
           CallsInTurn(mTaskQueue', subscribed', cancelled'),
           CallsAlike(mTaskQueue', mTaskQueue),
           UNCHANGED <<callbacks, brokerSubs>>,
           subscribed \subseteq subscribed', cancelled \subseteq cancelled',
           StartsFresh', Serving' => /\ mSocket = "up" /\ session
                                     /\ \A s \in Subs : Has(outbox', SubscribesTo(s))
                                                     <=> Has(outbox, SubscribesTo(s))
                                     /\ \A t \in Topics : Has(outbox, Leaves(t))
                                                     => Has(outbox', Leaves(t)),
           Serving /\ MaxRetries # 0 /\ IsSpoilt => IsSpoilt'
    PROVE  SubscriptionInv'
<1>1. Replacing' <=> Replacing
  BY DEF Replacing, CallsAlike
<1>2. HeldLess
  BY <1>1 DEF HeldLess, CallsAlike
<1>3. Serving' => Serving /\ SameRequests
  BY <1>1 DEF Serving, SameRequests, IsSubscribing, IsLeaving, CallsAlike
<1> QED BY <1>2, <1>3, SubscriptionQuiet

-----------------------------------------------------------------------------
(* loop(), up to the task, and the calls of the application. *)

\* A reply that is on its way is awaited.
LEMMA AnswerAwaited ==
    ASSUME StreamInv, Serving, MaxRetries # 0, NEW p, Has(inbox, BadAnswers(p))
    PROVE  WillTake
<1>1. Has(inbox, Answers)
  BY DEF Has, BadAnswers
<1> QED BY <1>1 DEF StreamInv, Awaited, Serving

\* A task that neither subscribes nor unsubscribes nor connects.
LEMMA NoCall ==
    ASSUME NEW t \in Task, t.kind # "tcpConnect",
           t.req.type \notin {"SUBSCRIBE", "UNSUBSCRIBE", "CONNECT"}
    PROVE  /\ t \notin Openers /\ t \notin Joiners
           /\ \A s : t \notin Subscribers(s) /\ t \notin Leavers(s) /\ t \notin Unsubscribes(s)
           /\ \A A : FitCall(t, A)
           /\ \A a, G : t.req = NoPacket => InTurn(t, a, G)
           /\ \A a : ~Revokes(t, a)
<1>1. \A a, G : t.req = NoPacket => InTurn(t, a, G)
  BY DEF InTurn, Revokes
<1> QED BY <1>1, CallSorts DEF FitCall, Revokes

\* One more such task at the back.
LEMMA AlikeAtBack ==
    ASSUME NEW q \in Seq(Task), NEW t \in Task, t.kind # "tcpConnect",
           t.req.type \notin {"SUBSCRIBE", "UNSUBSCRIBE", "CONNECT"}, t.kind # "send"
    PROVE  /\ CallsAlike(Append(q, t), q)
           /\ \A A, G : CallsInTurn(q, A, G) => CallsInTurn(Append(q, t), A, G)
<1>1. \A C : Has(Append(q, t), C) <=> Has(q, C) \/ t \in C
  BY HasBack
<1>2. CallsAlike(Append(q, t), q)
  BY <1>1, NoCall DEF CallsAlike
<1>3. ASSUME NEW A, NEW G, CallsInTurn(q, A, G) PROVE CallsInTurn(Append(q, t), A, G)
  <2>1. FitCall(t, A) /\ \A i \in DOMAIN q : Revokes(t, q[i]) => q[i].req.arg \in G
    BY NoCall
  <2> QED BY <1>3, <2>1, TurnBack
<1> QED BY <1>2, <1>3

\* What loop() enqueues between two tasks.
LEMMA SubscriptionIdles ==
    ASSUME ClientTypeOK, TcpTypeOK, BrokerTypeOK, SafetyInv, StreamInv, SubscriptionInv,
           \/ mTaskQueue' = WithReceive
           \/ mTaskQueue' = Append(WithReceive, PingTask),
           pc # "callback", mSocket' = "up" => mSocket = "up", StartsFresh',
           UNCHANGED <<callbacks, subscribed, cancelled, brokerSubs, inbox, outbox, session>>
    PROVE  SubscriptionInv'
<1> DEFINE u == WithReceive
<1>1. mTaskQueue \in Seq(Task)
  BY DEF ClientTypeOK
<1>2. /\ u \in Seq(Task) /\ CallsAlike(u, mTaskQueue)
      /\ CallsInTurn(u, subscribed, cancelled)
      /\ \A C : Has(mTaskQueue, C) => Has(u, C)
      /\ ~Unexpected => u = mTaskQueue
  <2>1. CASE Unexpected
    <3> DEFINE t == RecvTask(NoPacket)
    <3>1. t \in Task /\ t.kind = "recvType" /\ t.req = NoPacket
      BY StrayReceiver
    <3> HIDE DEF t
    <3>2. t.req.type \notin {"SUBSCRIBE", "UNSUBSCRIBE", "CONNECT"}
      BY <3>1, NoPacketSorts
    <3>3. FitCall(t, subscribed) /\ \A i \in DOMAIN mTaskQueue :
                                       InTurn(t, mTaskQueue[i], cancelled)
      BY <3>1, <3>2, NoCall
    <3>4. u = <<t>> \o mTaskQueue
      BY <2>1 DEF WithReceive, t
    <3>5. \A C : Has(u, C) <=> t \in C \/ Has(mTaskQueue, C)
      BY <1>1, <3>1, <3>4, HasFront
    <3>6. CallsAlike(u, mTaskQueue)
      BY <3>1, <3>2, <3>5, NoCall DEF CallsAlike
    <3>7. CallsInTurn(<<t>> \o mTaskQueue, subscribed, cancelled)
      BY <1>1, <3>1, <3>3, TurnFront DEF SubscriptionInv
    <3>8. u \in Seq(Task)
      BY <1>1, <3>1, <3>4, QueueFront
    <3> QED BY <2>1, <3>4, <3>5, <3>6, <3>7, <3>8
  <2>2. CASE ~Unexpected
    BY <1>1, <2>2 DEF WithReceive, CallsAlike, SubscriptionInv
  <2> QED BY <2>1, <2>2
<1> HIDE DEF u
<1>3. /\ CallsAlike(mTaskQueue', u) /\ CallsInTurn(mTaskQueue', subscribed, cancelled)
      /\ \A C : Has(u, C) => Has(mTaskQueue', C)
      /\ u # <<>> => mTaskQueue' # <<>> /\ Head(mTaskQueue') = Head(u)
  <2>1. CASE mTaskQueue' = u
    BY <1>2, <2>1 DEF CallsAlike
  <2>2. CASE mTaskQueue' = Append(u, PingTask)
    <3>1. /\ PingTask \in Task /\ PingTask.kind = "prepare"
          /\ PingTask.req.type = "PINGREQ"
      BY TaskTypes DEF PingTask, MakeTask, MakePacket
    <3>2. /\ CallsAlike(Append(u, PingTask), u)
          /\ CallsInTurn(Append(u, PingTask), subscribed, cancelled)
      BY <1>2, <3>1, AlikeAtBack
    <3>3. \A C : Has(Append(u, PingTask), C) <=> Has(u, C) \/ PingTask \in C
      BY <1>2, <3>1, HasBack
    <3>4. u # <<>> => mTaskQueue' # <<>> /\ Head(mTaskQueue') = Head(u)
      BY <1>2, <2>2, <3>1, QueueBack
    <3> QED BY <2>2, <3>2, <3>3, <3>4
  <2> QED BY <2>1, <2>2 DEF u
<1>4. CallsAlike(mTaskQueue', mTaskQueue)
  BY <1>2, <1>3 DEF CallsAlike
<1>5. Serving /\ MaxRetries # 0 /\ IsSpoilt => IsSpoilt'
  <2> SUFFICES ASSUME Serving, MaxRetries # 0, AwaitsReply,
                      Has(inbox, BadAnswers(Head(mTaskQueue).req))
               PROVE  AwaitsReply' /\ Head(mTaskQueue') = Head(mTaskQueue)
    BY <1>2, <1>3 DEF IsSpoilt
  <2>1. WillTake
    BY AnswerAwaited
  <2>2. ~Unexpected
    BY <2>1 DEF WillTake, Unexpected
  <2> QED BY <1>2, <1>3, <2>2 DEF AwaitsReply
<1>6. CallsInTurn(mTaskQueue', subscribed', cancelled')
  BY <1>3
<1>7. Serving' => mSocket = "up" /\ session
  BY DEF Serving
<1> QED BY <1>4, <1>5, <1>6, <1>7, SubscriptionAlike

LEMMA SubscriptionLoop ==
    ASSUME ClientTypeOK, TcpTypeOK, BrokerTypeOK, SafetyInv, StreamInv, SubscriptionInv,
           LoopCall \/ Loop, UNCHANGED brokerVars
    PROVE  SubscriptionInv'
<1> DEFINE Still == UNCHANGED <<callbacks, subscribed, cancelled, brokerSubs>>
<1>1. UNCHANGED brokerSubs
  BY DEF brokerVars
<1>2. CASE LoopCall \/ BlockPoll \/ WhileDone
  <2>1. Still /\ UNCHANGED <<mTaskQueue, mSocket, session, inbox, outbox>>
    BY <1>1, <1>2 DEF LoopCall, BlockPoll, WhileDone, taskVars, callVars, tcpVars
  <2>2. StartsFresh' /\ (Serving' => mSocket = "up" /\ session)
    BY <2>1 DEF SubscriptionInv, StartsFresh, Serving
  <2> QED BY <2>1, <2>2, SubscriptionStays
<1>3. CASE BlockSkip
  <2>1. Still /\ UNCHANGED <<mSocket, session, inbox, outbox>> /\ pc # "callback"
    BY <1>1, <1>3 DEF BlockSkip, callVars, tcpVars
  <2>2. StartsFresh' /\ (Serving' => mSocket = "up" /\ session)
    BY <2>1 DEF SubscriptionInv, StartsFresh, Serving
  <2>3. CASE mTaskQueue' = WithReceive
    BY <2>1, <2>2, <2>3, SubscriptionIdles
  <2>4. CASE UNCHANGED mTaskQueue
    BY <2>1, <2>2, <2>4, SubscriptionStays
  <2> QED BY <1>3, <2>3, <2>4 DEF BlockSkip
<1>4. CASE BlockIdle \/ PollData \/ PollTimeout \/ WhileTask
  <2>1. IdleWork /\ pc # "callback"
    BY <1>4 DEF BlockIdle, PollData, PollTimeout, WhileTask
  <2>2. /\ Still
        /\ mTaskQueue' = WithReceive \/ mTaskQueue' = Append(WithReceive, PingTask)
    BY <1>1, <2>1 DEF IdleWork, callVars
  <2>3. /\ UNCHANGED <<session, inbox, outbox>>
        /\ mSocket' \in {"up", "connecting"} => mSocket' = mSocket
    BY <1>4 DEF BlockIdle, PollData, PollTimeout, WhileTask, TcpTakeError, tcpVars
  <2>4. StartsFresh'
    BY <2>3 DEF SubscriptionInv, StartsFresh
  <2> QED BY <2>1, <2>2, <2>3, <2>4, SubscriptionIdles
<1>5. CASE PollThrows
  <2>1. /\ pc = "poll" /\ Catch(mTries) /\ mSocket # "none"
        /\ UNCHANGED <<inbox, outbox, session, mSocket>>
    BY <1>5 DEF PollThrows, tcpVars, blockUntilDataAvailable, isDataAvailable
  <2>2. ~mDisconnected
    BY <2>1, RunningHasSocket
  <2>3. StartsFresh' /\ (Serving' => mSocket = "up" /\ session)
    BY <2>1 DEF SubscriptionInv, StartsFresh, Serving
  <2> QED BY <1>1, <2>1, <2>2, <2>3, SubscriptionCatch
<1> QED BY <1>2, <1>3, <1>4, <1>5 DEF Loop

\* A call goes to the back of the queue; the first task stays.
LEMMA CallKeeps ==
    ASSUME ClientTypeOK, NEW t \in Task, Enqueue(t)
    PROVE  /\ mTaskQueue \in Seq(Task) /\ mTaskQueue' = Append(mTaskQueue, t)
           /\ \A C : Has(mTaskQueue', C) <=> Has(mTaskQueue, C) \/ t \in C
           /\ UNCHANGED <<mSocket, session, inbox, outbox>>
           /\ IsSpoilt => IsSpoilt'
<1>1. /\ mTaskQueue \in Seq(Task) /\ mTaskQueue' = Append(mTaskQueue, t)
      /\ UNCHANGED <<mSocket, session, inbox, outbox>>
  BY DEF ClientTypeOK, Enqueue, tcpVars
<1>2. \A C : Has(mTaskQueue', C) <=> Has(mTaskQueue, C) \/ t \in C
  BY <1>1, HasBack
<1>3. mTaskQueue # <<>> => mTaskQueue' # <<>> /\ Head(mTaskQueue') = Head(mTaskQueue)
  BY <1>1, QueueBack
<1>4. IsSpoilt => IsSpoilt'
  BY <1>1, <1>2, <1>3 DEF IsSpoilt, AwaitsReply
<1> QED BY <1>1, <1>2, <1>4

\* Any call but unsubscribe().
LEMMA SubscriptionCalls ==
    ASSUME ClientTypeOK, BrokerTypeOK, SubscriptionInv, UNCHANGED brokerVars,
           \/ \E m \in Messages : publish(m)
           \/ \E s \in Subs : subscribe(s)
           \/ disconnect
    PROVE  SubscriptionInv'
<1>1. UNCHANGED <<callbacks, cancelled, brokerSubs>> /\ subscribed \subseteq subscribed'
  BY DEF publish, subscribe, disconnect, brokerVars
<1>2. PICK t \in Task : /\ t.kind = "prepare" /\ Enqueue(t)
                        /\ t.req.type \in {"PUBLISH", "SUBSCRIBE", "DISCONNECT"}
                        /\ t.req.type = "SUBSCRIBE" => t.req.arg \in subscribed'
  <2>1. CASE \E m \in Messages : publish(m)
    <3>1. PICK m \in Messages : publish(m)
      BY <2>1
    <3>2. /\ PublishTask(m) \in Task /\ PublishTask(m).kind = "prepare"
          /\ PublishTask(m).req.type = "PUBLISH"
      BY TaskTypes DEF PublishTask, MakeTask, MakePacket
    <3> QED BY <3>1, <3>2 DEF publish
  <2>2. CASE \E s \in Subs : subscribe(s)
    <3>1. PICK s \in Subs : subscribe(s)
      BY <2>2
    <3>2. /\ SubscribeTask(s) \in Task /\ SubscribeTask(s).kind = "prepare"
          /\ SubscribeTask(s).req.type = "SUBSCRIBE" /\ SubscribeTask(s).req.arg = s
      BY TaskTypes DEF SubscribeTask, MakeTask, MakePacket
    <3> QED BY <3>1, <3>2 DEF subscribe
  <2>3. CASE disconnect
    <3>1. /\ DisconnectTask \in Task /\ DisconnectTask.kind = "prepare"
          /\ DisconnectTask.req.type = "DISCONNECT"
      BY TaskTypes DEF DisconnectTask, MakeTask, MakePacket
    <3> QED BY <2>3, <3>1 DEF disconnect
  <2> QED BY <2>1, <2>2, <2>3
<1>3. /\ mTaskQueue \in Seq(Task) /\ mTaskQueue' = Append(mTaskQueue, t)
      /\ \A C : Has(mTaskQueue', C) <=> Has(mTaskQueue, C) \/ t \in C
      /\ UNCHANGED <<mSocket, session, inbox, outbox>>
      /\ IsSpoilt => IsSpoilt'
  BY <1>2, CallKeeps
<1>4. CallsInTurn(mTaskQueue', subscribed', cancelled')
  <2>1. CallsInTurn(mTaskQueue, subscribed', cancelled)
    BY <1>1, TurnGrows DEF SubscriptionInv
  <2>2. FitCall(t, subscribed') /\ t.kind # "send"
    BY <1>2 DEF FitCall
  <2>3. \A i \in DOMAIN mTaskQueue : ~Revokes(t, mTaskQueue[i])
    BY <1>2 DEF Revokes
  <2>4. CallsInTurn(Append(mTaskQueue, t), subscribed', cancelled)
    BY <1>3, <2>1, <2>2, <2>3, TurnBack
  <2> QED BY <1>1, <1>3, <2>4
<1>5. CallsAlike(mTaskQueue', mTaskQueue)
  <2>1. /\ t \notin Openers /\ t \notin Joiners
        /\ \A s : t \notin Subscribers(s) /\ t \notin Leavers(s) /\ t \notin Unsubscribes(s)
    BY <1>2, CallSorts
  <2> QED BY <1>3, <2>1 DEF CallsAlike
<1>6. StartsFresh' /\ (Serving' => mSocket = "up" /\ session)
  BY <1>3 DEF SubscriptionInv, StartsFresh, Serving
<1> QED BY <1>1, <1>3, <1>4, <1>5, <1>6, SubscriptionAlike

\* unsubscribe() revokes what was subscribed; the UNSUBSCRIBE is still to go out.
LEMMA SubscriptionRevoked ==
    ASSUME ClientTypeOK, BrokerTypeOK, SubscriptionInv, UNCHANGED brokerVars,
           NEW u \in Topics, unsubscribe(u)
    PROVE  SubscriptionInv'
<1> DEFINE t == UnsubscribeTask(u)
<1>1. /\ cancelled' = cancelled \cup {s \in subscribed : TopicOf[s] = u}
      /\ callbacks' = callbacks \ Matching(u)
      /\ UNCHANGED <<subscribed, brokerSubs>> /\ Enqueue(t)
  BY DEF unsubscribe, brokerVars
<1>2. /\ t \in Task /\ t.kind = "prepare" /\ ~t.keep
      /\ t.req.type = "UNSUBSCRIBE" /\ t.req.arg = u
  BY TaskTypes DEF UnsubscribeTask, MakeTask, MakePacket
<1> HIDE DEF t
<1>3. /\ mTaskQueue \in Seq(Task) /\ mTaskQueue' = Append(mTaskQueue, t)
      /\ \A C : Has(mTaskQueue', C) <=> Has(mTaskQueue, C) \/ t \in C
      /\ UNCHANGED <<mSocket, session, inbox, outbox>>
      /\ IsSpoilt => IsSpoilt'
  BY <1>1, <1>2, CallKeeps
<1>4. /\ t \notin Openers /\ t \notin Joiners
      /\ \A s : t \notin Subscribers(s)
      /\ \A v : (t \in Unsubscribes(v) <=> v = u) /\ (t \in Leavers(v) <=> v = u)
  BY <1>2, CallSorts
<1>5. CallsInTurn(mTaskQueue', subscribed', cancelled')
  <2>1. CallsInTurn(mTaskQueue, subscribed, cancelled')
    BY <1>1, TurnGrows DEF SubscriptionInv
  <2>2. FitCall(t, subscribed) /\ t.kind # "send"
    BY <1>2 DEF FitCall
  <2>3. \A i \in DOMAIN mTaskQueue :
           Revokes(t, mTaskQueue[i]) => mTaskQueue[i].req.arg \in cancelled'
    BY <1>1, <1>2 DEF Revokes, SubscriptionInv, CallsInTurn, FitCall
  <2>4. CallsInTurn(Append(mTaskQueue, t), subscribed, cancelled')
    BY <1>2, <1>3, <2>1, <2>2, <2>3, TurnBack
  <2> QED BY <1>1, <1>3, <2>4
<1>6. Registered'
  <2>1. callbacks' \subseteq subscribed'
    BY <1>1 DEF SubscriptionInv, Registered
  <2>2. ASSUME NEW s \in callbacks' \ cancelled'
        PROVE  ~Has(mTaskQueue', Unsubscribes(TopicOf[s]))
    <3>1. ~Has(mTaskQueue, Unsubscribes(TopicOf[s])) /\ TopicOf[s] # u
      BY <1>1, <2>2 DEF SubscriptionInv, Registered, Matching
    <3> QED BY <1>3, <1>4, <3>1
  <2>3. Replacing' \/ Has(mTaskQueue', Joiners) => callbacks' = {}
    <3>1. /\ Replacing' => Replacing
          /\ Has(mTaskQueue', Joiners) => Has(mTaskQueue, Joiners)
      BY <1>3, <1>4 DEF Replacing
    <3> QED BY <1>1, <3>1 DEF SubscriptionInv, Registered
  <2> QED BY <2>1, <2>2, <2>3 DEF Registered
<1>7. StartsFresh'
  BY <1>3 DEF SubscriptionInv, StartsFresh
<1>8. /\ \A s \in Subs : IsSubscribing(s)' <=> IsSubscribing(s)
      /\ \A v \in Topics : IsLeaving(v) \/ v = u => IsLeaving(v)'
  BY <1>3, <1>4 DEF IsSubscribing, IsLeaving
<1>9. ASSUME MaxRetries # 0 PROVE Linked'
  <2> SUFFICES ASSUME Serving'
               PROVE  /\ "suback" \notin Faults => NoneMissing'
                      /\ CleanSession => NoneLeft'
    BY DEF Linked
  <2>1. Serving
    BY <1>3, <1>4 DEF Serving, Replacing
  <2>2. /\ callbacks \subseteq Subs /\ brokerSubs \subseteq Topics
        /\ \A s \in Subs : TopicOf[s] \in Topics
    BY PacketsAssumption DEF ClientTypeOK, BrokerTypeOK
  <2>3. ASSUME "suback" \notin Faults PROVE NoneMissing'
    <3>1. NoneMissing
      BY <1>9, <2>1, <2>3 DEF SubscriptionInv, Linked
    <3>2. callbacks' \ cancelled' \subseteq callbacks \ cancelled
      BY <1>1
    <3> QED BY <1>1, <1>3, <1>8, <2>2, <3>1, <3>2 DEF NoneMissing
  <2>4. ASSUME CleanSession PROVE NoneLeft'
    <3>1. NoneLeft
      BY <1>9, <2>1, <2>4 DEF SubscriptionInv, Linked
    <3>2. \A v : v # u => Matching(v)' = Matching(v)
      BY <1>1 DEF Matching
    <3> QED BY <1>1, <1>8, <2>2, <3>1, <3>2 DEF NoneLeft
  <2> QED BY <2>3, <2>4
<1> QED BY <1>5, <1>6, <1>7, <1>9 DEF SubscriptionInv

-----------------------------------------------------------------------------
(* The tasks that fail, and those that open the connection. *)

LEMMA SubscriptionFails ==
    ASSUME ClientTypeOK, TcpTypeOK, BrokerTypeOK, SafetyInv, StreamInv, SubscriptionInv,
           UNCHANGED brokerVars,
           \/ CheckConnectThrows \/ SendThrows \/ ReceiveThrows \/ HandleRefusal
           \/ CallbackThrows \/ TcpConnectThrows \/ HandleViolation
    PROVE  SubscriptionInv'
<1>1. pc \in {"run", "callback"}
  BY DEF CheckConnectThrows, SendThrows, ReceiveThrows, HandleRefusal, CallbackThrows,
         TcpConnectThrows, HandleViolation, Running, InOnConnect, InOnMessage
<1>2. ~mDisconnected
  BY <1>1, RunningHasSocket
<1>3. \E tries \in {mTries, mTries + 1} : Catch(tries)
  BY DEF CheckConnectThrows, SendThrows, ReceiveThrows, HandleRefusal, CallbackThrows,
         TcpConnectThrows, HandleViolation
<1>4. /\ UNCHANGED session
      /\ \/ mSocket' \in {"none", "hup"}
         \/ UNCHANGED <<mSocket, inbox, outbox>>
  BY DEF CheckConnectThrows, SendThrows, ReceiveThrows, HandleRefusal, CallbackThrows,
         TcpConnectThrows, HandleViolation, TcpTakeError, TcpSendThrows, TcpRecvThrows,
         TcpOpenThrows, TcpClose, tcpVars
<1>5. StartsFresh' /\ UNCHANGED brokerSubs
  BY <1>4 DEF SubscriptionInv, StartsFresh, brokerVars
<1>6. Serving' => mSocket = "up" /\ session /\ UNCHANGED <<inbox, outbox>>
  BY <1>4 DEF Serving
<1> QED BY <1>2, <1>3, <1>5, <1>6, SubscriptionCatch

\* The first task is done; what is behind it is still to come.
LEMMA DroppedHas ==
    ASSUME ClientTypeOK, SafetyInv, StreamInv, mTaskQueue # <<>>, ReplaceBy(<<>>)
    PROVE  \A C : /\ Has(mTaskQueue', C) => Has(mTaskQueue, C)
                  /\ This \notin C => (Has(mTaskQueue', C) <=> Has(mTaskQueue, C))
<1>1. /\ mTaskQueue' = Others
      /\ \A C : Has(mTaskQueue, C) <=> This \in C \/ Has(Others, C)
  BY ThisRuns, QueueReplaced DEF StreamInv
<1> QED BY <1>1

LEMMA SubscriptionOpens ==
    ASSUME ClientTypeOK, TcpTypeOK, BrokerTypeOK, SafetyInv, StreamInv, SubscriptionInv,
           TcpConnectOpens \/ CheckConnectDone
    PROVE  SubscriptionInv'
<1>1. /\ pc = "run" /\ mTaskQueue # <<>> /\ ReplaceBy(<<>>)
      /\ UNCHANGED <<callbacks, subscribed, cancelled>>
  BY RunningHasSocket DEF TcpConnectOpens, CheckConnectDone, Running, callVars
<1>2. CallsInTurn(mTaskQueue', subscribed', cancelled')
  BY <1>1, TurnDropped DEF SubscriptionInv
<1>3. HeldLess
  BY <1>1, DroppedHas DEF HeldLess, Replacing
<1>4. Registered'
  BY <1>1, <1>3, RegisteredStays DEF SubscriptionInv
<1>5. CASE TcpConnectOpens
  <2>1. ~session'
    BY <1>5 DEF TcpConnectOpens, TcpOpen
  <2> QED BY <1>2, <1>4, <2>1, SubscriptionUnlinked DEF Serving, StartsFresh
<1>6. CASE CheckConnectDone
  <2>1. /\ This \in Task /\ This.kind = "checkConnect"
        /\ \A C : Has(mTaskQueue, C) <=> This \in C \/ Has(Others, C)
    BY <1>1, <1>6, ThisRuns DEF StreamInv, CheckConnectDone, Running, This
  <2>2. Rank(This) = 2
    BY <2>1, Ranks
  <2>3. This \in News /\ This \notin Openers /\ ~Has(Others, Openers)
    BY <1>1, <2>1, <2>2, Sorts, OthersFollow DEF StreamInv
  <2>4. ~session
    BY <2>1, <2>3 DEF StreamInv, NewConnection, Replacing
  <2>5. ~session'
    BY <1>6, <2>4 DEF CheckConnectDone, tcpVars
  <2> QED BY <1>2, <1>4, <2>5, SubscriptionUnlinked DEF Serving, StartsFresh
<1> QED BY <1>5, <1>6

LEMMA SubscriptionEnds ==
    ASSUME ClientTypeOK, SubscriptionInv, SendDisconnect
    PROVE  SubscriptionInv'
<1>1. /\ mTaskQueue' = <<>> /\ mSocket' = "none"
      /\ UNCHANGED <<callbacks, subscribed, cancelled>>
  BY DEF SendDisconnect, TcpSendAllAndClose, callVars
<1>2. CallsInTurn(mTaskQueue', subscribed', cancelled')
  BY <1>1 DEF CallsInTurn
<1>3. HeldLess
  BY <1>1, HasNone DEF HeldLess, Replacing
<1>4. Registered'
  BY <1>1, <1>3, RegisteredStays DEF SubscriptionInv
<1> QED BY <1>1, <1>2, <1>4, SubscriptionUnlinked DEF Serving, StartsFresh

-----------------------------------------------------------------------------
(* The first task is replaced, or done. *)

\* A task that asks for no more than the task it replaces, and on the same way.
AsksAlike(t, u) ==
    /\ t \in Openers <=> u \in Openers
    /\ \A s \in Subs : t \in Subscribers(s) <=> u \in Subscribers(s)
    /\ \A v \in Topics : /\ t \in Leavers(v) <=> u \in Leavers(v)
                         /\ t \in Unsubscribes(v) => u \in Unsubscribes(v)
    /\ t \in Joiners => u \in Joiners

LEMMA SubscriptionReplaces ==
    ASSUME ClientTypeOK, BrokerTypeOK, SafetyInv, StreamInv, SubscriptionInv,
           mTaskQueue # <<>>, NEW t \in Task, ReplaceBy(<<t>>), AsksAlike(t, This),
           t.req.type = This.req.type, t.req.arg = This.req.arg,
           This.req = NoPacket => t.req = NoPacket,
           t.keep => t.req.type \notin {"SUBSCRIBE", "UNSUBSCRIBE"},
           UNCHANGED <<callbacks, subscribed, cancelled, brokerSubs>>,
           UNCHANGED <<mSocket, session, outbox>>,
           Serving /\ MaxRetries # 0 /\ IsSpoilt => IsSpoilt'
    PROVE  SubscriptionInv'
<1>1. \A C : /\ Has(mTaskQueue, C) <=> This \in C \/ Has(Others, C)
             /\ Has(mTaskQueue', C) <=> t \in C \/ Has(Others, C)
  BY ThisRuns, QueueReplaced DEF StreamInv
<1>2. CallsAlike(mTaskQueue', mTaskQueue)
  BY <1>1 DEF CallsAlike, AsksAlike
<1>3. CallsInTurn(mTaskQueue', subscribed', cancelled')
  BY TurnReplaced DEF SubscriptionInv
<1>4. StartsFresh' /\ (Serving' => mSocket = "up" /\ session)
  BY DEF SubscriptionInv, StartsFresh, Serving
<1> QED BY <1>2, <1>3, <1>4, SubscriptionAlike

LEMMA SubscriptionDrops ==
    ASSUME ClientTypeOK, BrokerTypeOK, SafetyInv, StreamInv, SubscriptionInv,
           mTaskQueue # <<>>, ReplaceBy(<<>>), This \notin Openers,
           \A s : This \notin Subscribers(s) /\ This \notin Leavers(s),
           UNCHANGED <<callbacks, subscribed, cancelled, brokerSubs>>,
           UNCHANGED <<mSocket, session>>,
           \A s \in Subs : Has(outbox', SubscribesTo(s)) <=> Has(outbox, SubscribesTo(s)),
           \A v \in Topics : Has(outbox, Leaves(v)) => Has(outbox', Leaves(v)),
           Serving /\ MaxRetries # 0 /\ IsSpoilt => IsSpoilt'
    PROVE  SubscriptionInv'
<1>1. CallsAlike(mTaskQueue', mTaskQueue)
  BY DroppedHas DEF CallsAlike
<1>2. CallsInTurn(mTaskQueue', subscribed', cancelled')
  BY TurnDropped DEF SubscriptionInv
<1>3. StartsFresh' /\ (Serving' => mSocket = "up" /\ session)
  BY DEF SubscriptionInv, StartsFresh, Serving
<1> QED BY <1>1, <1>2, <1>3, SubscriptionAlike

-----------------------------------------------------------------------------
(* The tasks that write. *)

\* A task that writes has no reply in hand, and awaits none.
LEMMA WritingSpoilt ==
    ASSUME ClientTypeOK, SafetyInv, StreamInv, pc = "run",
           Head(mTaskQueue).kind \in {"prepare", "send"}, IsSpoilt
    PROVE  Has(Others, Spoilt)
<1>1. /\ This \in Task /\ ~AwaitsReply
      /\ \A C : Has(mTaskQueue, C) <=> This \in C \/ Has(Others, C)
  BY Writing
<1>2. This \notin Spoilt
  BY <1>1, CallSorts DEF This, Receiving
<1> QED BY <1>1, <1>2 DEF IsSpoilt

\* A task that is rewritten as one of a packet of the same type and argument.
LEMMA SubscriptionRewrites ==
    ASSUME ClientTypeOK, BrokerTypeOK, SafetyInv, StreamInv, SubscriptionInv, pc = "run",
           Head(mTaskQueue).kind \in {"prepare", "send"},
           NEW t \in Task, ReplaceBy(<<t>>), t.kind = "send",
           This.req.type = "SUBSCRIBE" => This.kind = "send",
           t.req.type = This.req.type, t.req.arg = This.req.arg,
           This.req = NoPacket => t.req = NoPacket,
           t.keep => t.req.type \notin {"SUBSCRIBE", "UNSUBSCRIBE"},
           UNCHANGED <<callbacks, subscribed, cancelled, brokerSubs>>,
           UNCHANGED <<mSocket, session, outbox>>
    PROVE  SubscriptionInv'
<1>1. mTaskQueue # <<>> /\ This \in Task /\ This.kind \in {"prepare", "send"}
  BY Writing DEF This
<1>2. AsksAlike(t, This)
  BY <1>1, CallSorts DEF AsksAlike
<1>3. IsSpoilt => IsSpoilt'
  <2>1. \A C : Has(mTaskQueue', C) <=> t \in C \/ Has(Others, C)
    BY <1>1, QueueReplaced DEF StreamInv
  <2> QED BY <2>1, WritingSpoilt DEF IsSpoilt
<1> QED BY <1>1, <1>2, <1>3, SubscriptionReplaces

\* A call of subscribe() is on its way, and its callback is registered.
LEMMA SubscriptionPrepared ==
    ASSUME ClientTypeOK, BrokerTypeOK, SafetyInv, StreamInv, SubscriptionInv,
           pc = "run", Head(mTaskQueue).kind = "prepare", This.req.type = "SUBSCRIBE",
           NEW t \in Task, ReplaceBy(<<t>>), t.kind = "send", ~t.keep,
           NEW s, s = This.req.arg, t.req.type = "SUBSCRIBE", t.req.arg = s,
           callbacks' = callbacks \cup {s},
           UNCHANGED <<subscribed, cancelled, brokerSubs, mSocket, session, outbox>>
    PROVE  SubscriptionInv'
<1>1. /\ mTaskQueue # <<>> /\ This \in Task /\ This.req \in Outgoing
      /\ \A C : Has(mTaskQueue, C) <=> This \in C \/ Has(Others, C)
      /\ \A C \in TaskSorts : ~Has(Others, C)
      /\ ~Replacing /\ This.kind = "prepare" /\ This.req # NoPacket
  BY Writing, NoPacketSorts DEF This
<1>2. s \in Subs /\ TopicOf[s] \in Topics
  BY <1>1, PacketsAssumption DEF Outgoing
<1>3. \A C : Has(mTaskQueue', C) <=> t \in C \/ Has(Others, C)
  BY <1>1, QueueReplaced DEF StreamInv
<1>4. CallsInTurn(mTaskQueue', subscribed', cancelled')
  BY <1>1, TurnReplaced DEF SubscriptionInv
<1>5. /\ t \notin Openers /\ t \notin Joiners
      /\ \A r : t \in Subscribers(r) <=> r = s
      /\ \A u : t \notin Unsubscribes(u) /\ t \notin Leavers(u)
      /\ This \notin Openers /\ This \notin Joiners
      /\ \A u : This \notin Subscribers(u) /\ This \notin Unsubscribes(u)
                /\ This \notin Leavers(u)
  BY <1>1, CallSorts
<1>6. ~Replacing' /\ ~Has(mTaskQueue', Joiners)
  BY <1>1, <1>3, <1>5 DEF Replacing, TaskSorts
<1>7. s \notin cancelled => ~Has(Others, Unsubscribes(TopicOf[s]))
  <2>1. mTaskQueue \in Seq(Task)
    BY DEF ClientTypeOK
  <2>2. \A i \in DOMAIN Others : InTurn(This, Others[i], cancelled)
    BY <1>1, <2>1, TurnTail DEF SubscriptionInv, This, Others
  <2> QED BY <1>1, <2>2 DEF Has, InTurn, Revokes, Unsubscribes
<1>8. Registered'
  <2>1. s \in subscribed
    <3>1. mTaskQueue \in Seq(Task)
      BY DEF ClientTypeOK
    <3>2. FitCall(This, subscribed)
      BY <1>1, <3>1, TurnTail DEF SubscriptionInv, This
    <3> QED BY <3>2 DEF FitCall
  <2>2. callbacks' \subseteq subscribed'
    BY <2>1 DEF SubscriptionInv, Registered
  <2>3. ASSUME NEW r \in callbacks' \ cancelled'
        PROVE  ~Has(mTaskQueue', Unsubscribes(TopicOf[r]))
    <3>1. ~Has(Others, Unsubscribes(TopicOf[r]))
      BY <1>1, <1>7, <2>3 DEF SubscriptionInv, Registered
    <3> QED BY <1>3, <1>5, <3>1
  <2> QED BY <1>6, <2>2, <2>3 DEF Registered
<1>9. StartsFresh'
  BY DEF SubscriptionInv, StartsFresh
<1>10. /\ \A r \in Subs : IsSubscribing(r)' <=> IsSubscribing(r) \/ r = s
       /\ \A v \in Topics : IsLeaving(v) => IsLeaving(v)'
  BY <1>1, <1>3, <1>5 DEF IsSubscribing, IsLeaving
<1>11. ASSUME MaxRetries # 0 PROVE Linked'
  <2> SUFFICES ASSUME Serving'
               PROVE  /\ "suback" \notin Faults => NoneMissing'
                      /\ CleanSession => NoneLeft'
    BY DEF Linked
  <2>1. Serving
    BY <1>1 DEF Serving
  <2>2. /\ callbacks \subseteq Subs /\ brokerSubs \subseteq Topics
        /\ \A r \in Subs : TopicOf[r] \in Topics
    BY PacketsAssumption DEF ClientTypeOK, BrokerTypeOK
  <2>3. ASSUME "suback" \notin Faults PROVE NoneMissing'
    <3>1. NoneMissing
      BY <1>11, <2>1, <2>3 DEF SubscriptionInv, Linked
    <3>2. IsSpoilt => IsSpoilt'
      BY <1>3, WritingSpoilt DEF IsSpoilt
    <3> QED BY <1>2, <1>10, <2>2, <3>1, <3>2 DEF NoneMissing
  <2>4. ASSUME CleanSession PROVE NoneLeft'
    <3>1. NoneLeft
      BY <1>11, <2>1, <2>4 DEF SubscriptionInv, Linked
    <3>2. /\ \A v : Matching(v) \subseteq Matching(v)'
          /\ s \in Matching(TopicOf[s])'
      BY DEF Matching
    <3>3. \A v \in brokerSubs' : Matching(v)' # {} \/ IsLeaving(v)'
      BY <1>10, <2>2, <3>1, <3>2 DEF NoneLeft
    <3>4. ASSUME NEW r \in Subs, IsSubscribing(r)'
          PROVE  Matching(TopicOf[r])' # {} \/ IsLeaving(TopicOf[r])'
      <4>1. CASE r = s
        BY <3>2, <4>1
      <4>2. CASE IsSubscribing(r)
        BY <1>10, <2>2, <3>1, <3>2, <4>2 DEF NoneLeft
      <4> QED BY <1>10, <3>4, <4>1, <4>2
    <3> QED BY <3>3, <3>4 DEF NoneLeft
  <2> QED BY <2>3, <2>4
<1> QED BY <1>4, <1>8, <1>9, <1>11 DEF SubscriptionInv

LEMMA SubscriptionPrepares ==
    ASSUME ClientTypeOK, TcpTypeOK, BrokerTypeOK, SafetyInv, StreamInv, SubscriptionInv,
           UNCHANGED brokerVars, Prepare \/ SendPart \/ SendNone
    PROVE  SubscriptionInv'
<1>1. /\ pc = "run" /\ Head(mTaskQueue).kind \in {"prepare", "send"}
      /\ UNCHANGED <<subscribed, cancelled, brokerSubs, mSocket, session, outbox>>
  BY DEF Prepare, SendPart, SendNone, SendRest, Running, TcpSendPart, TcpSendNone,
         callVars, tcpVars, brokerVars
<1>2. This \in Task /\ This.req \in Outgoing
  BY <1>1, Writing
<1>3. CASE SendPart \/ SendNone
  <2>1. PICK written \in BOOLEAN : ReplaceBy(<<RestTask(This.req, written)>>)
    BY <1>2, <1>3 DEF SendPart, SendNone, SendRest, Task
  <2>2. /\ UNCHANGED callbacks /\ This.kind = "send"
    BY <1>3 DEF SendPart, SendNone, SendRest, Running, This
  <2>3. /\ RestTask(This.req, written) \in Task /\ RestTask(This.req, written).kind = "send"
        /\ RestTask(This.req, written).req = This.req /\ ~RestTask(This.req, written).keep
    BY <1>2, WriteTasks DEF RestTask, KeepRemainder
  <2> QED BY <1>1, <2>1, <2>2, <2>3, SubscriptionRewrites
<1>4. CASE Prepare
  <2> DEFINE n == [This.req EXCEPT !.id = mPacketIdentifierCounter]
  <2>1. /\ n \in Outgoing /\ n.type = This.req.type /\ n.arg = This.req.arg
    <3>1. mPacketIdentifierCounter \in PacketIds
      BY DEF ClientTypeOK
    <3> QED BY <1>2, <3>1 DEF Outgoing, Packet
  <2> HIDE DEF n
  <2>2. \A p \in Outgoing : /\ SendTask(p) \in Task /\ SendTask(p).kind = "send"
                            /\ SendTask(p).req = p
                            /\ SendTask(p).keep => p.type \notin {"SUBSCRIBE", "UNSUBSCRIBE"}
    BY WriteTasks DEF SendTask, MakeTask, KeepSend
  <2>3. CASE ~Numbered(This.req)
    <3>1. ReplaceBy(<<SendTask(This.req)>>) /\ UNCHANGED callbacks
      BY <1>4, <2>3 DEF Prepare
    <3>2. This.req.type # "SUBSCRIBE"
      BY <2>3 DEF Numbered
    <3> QED BY <1>1, <1>2, <2>2, <3>1, <3>2, SubscriptionRewrites
  <2>4. CASE This.req.type = "UNSUBSCRIBE"
    <3>1. ReplaceBy(<<SendTask(n)>>) /\ UNCHANGED callbacks
      BY <1>4, <2>4 DEF Prepare, Numbered, n
    <3>2. This.req # NoPacket
      BY <2>4, NoPacketSorts
    <3> QED BY <1>1, <1>2, <2>1, <2>2, <2>4, <3>1, <3>2, SubscriptionRewrites
  <2>5. CASE This.req.type = "SUBSCRIBE"
    <3>1. /\ ReplaceBy(<<SendTask(n)>>) /\ callbacks' = callbacks \cup {This.req.arg}
          /\ Head(mTaskQueue).kind = "prepare"
      BY <1>4, <2>5 DEF Prepare, Numbered, Running, n
    <3> QED BY <1>1, <1>2, <2>1, <2>2, <2>5, <3>1, SubscriptionPrepared
  <2> QED BY <2>3, <2>4, <2>5 DEF Numbered
<1> QED BY <1>3, <1>4

\* A packet is written: what it asks for is in the stream, no more in the queue.
LEMMA SubscriptionWrites ==
    ASSUME ClientTypeOK, TcpTypeOK, BrokerTypeOK, SafetyInv, StreamInv, SubscriptionInv,
           UNCHANGED brokerVars, SendAll
    PROVE  SubscriptionInv'
<1> DEFINE p == This.req
<1>1. /\ pc = "run" /\ Head(mTaskQueue).kind = "send"
      /\ UNCHANGED <<callbacks, subscribed, cancelled, brokerSubs, mSocket, session, inbox>>
      /\ outbox' = Written(p)
  BY DEF SendAll, Running, TcpSendAll, callVars, brokerVars
<1>2. /\ mTaskQueue # <<>> /\ This \in Task /\ p \in Outgoing /\ This.kind = "send"
      /\ \A C : Has(mTaskQueue, C) <=> This \in C \/ Has(Others, C)
      /\ ~Replacing
  BY <1>1, Writing DEF This
<1>3. StartsFresh'
  BY <1>1 DEF SubscriptionInv, StartsFresh
<1>4. /\ CallsInTurn(mTaskQueue', subscribed', cancelled')
      /\ \/ \A C : Has(mTaskQueue', C) <=> Has(Others, C)
         \/ /\ p.type \in Requests
            /\ \A C : Has(mTaskQueue', C) <=> RecvTask(p) \in C \/ Has(Others, C)
  <2>1. CASE p.type \in Requests
    <3>1. p # NoPacket
      BY <2>1, NoPacketSorts DEF Requests
    <3>2. /\ RecvTask(p) \in Task /\ RecvTask(p).req = p /\ ~RecvTask(p).keep
      BY <1>2, <3>1, AwaitTask DEF RecvTask, MakeTask
    <3>3. ReplaceBy(<<RecvTask(p)>>)
      BY <2>1 DEF SendAll
    <3>4. CallsInTurn(mTaskQueue', subscribed, cancelled)
      BY <1>2, <3>2, <3>3, TurnReplaced DEF SubscriptionInv
    <3> QED BY <1>1, <1>2, <2>1, <3>2, <3>3, <3>4, QueueReplaced DEF StreamInv
  <2>2. CASE p.type \notin Requests
    <3>1. ReplaceBy(<<>>)
      BY <2>2 DEF SendAll
    <3> QED BY <1>1, <1>2, <3>1, TurnDropped, QueueReplaced DEF StreamInv, SubscriptionInv
  <2> QED BY <2>1, <2>2
<1>5. p.type \in Requests =>
         /\ RecvTask(p) \notin Openers
         /\ RecvTask(p) \in Joiners <=> p.type = "CONNECT"
         /\ \A s : RecvTask(p) \notin Subscribers(s) /\ RecvTask(p) \notin Leavers(s)
         /\ \A v : RecvTask(p) \in Unsubscribes(v) <=> p.type = "UNSUBSCRIBE" /\ p.arg = v
  <2> SUFFICES ASSUME p.type \in Requests
               PROVE  /\ RecvTask(p) \notin Openers
                      /\ RecvTask(p) \in Joiners <=> p.type = "CONNECT"
                      /\ \A s : RecvTask(p) \notin Subscribers(s)
                                /\ RecvTask(p) \notin Leavers(s)
                      /\ \A v : RecvTask(p) \in Unsubscribes(v)
                                <=> p.type = "UNSUBSCRIBE" /\ p.arg = v
    OBVIOUS
  <2>1. p # NoPacket
    BY NoPacketSorts DEF Requests
  <2>2. RecvTask(p) \in Task /\ RecvTask(p).req = p /\ RecvTask(p).kind = "recvType"
    BY <1>2, <2>1, AwaitTask
  <2> QED BY <2>2, CallSorts
<1>6. /\ This \notin Openers
      /\ This \in Joiners <=> p.type = "CONNECT"
      /\ \A s : This \in Subscribers(s) <=> p \in SubscribesTo(s)
      /\ \A v : This \in Leavers(v) <=> p \in Leaves(v)
      /\ \A v : This \in Unsubscribes(v) <=> p.type = "UNSUBSCRIBE" /\ p.arg = v
  BY <1>2, CallSorts DEF SubscribesTo, Leaves
<1>7. HeldLess /\ (Replacing' <=> Replacing)
  BY <1>2, <1>4, <1>5, <1>6 DEF HeldLess, Replacing
<1>8. Serving' => Serving /\ SameRequests
  <2> SUFFICES ASSUME Serving' PROVE Serving /\ SameRequests
    OBVIOUS
  <2>1. mSocket = "up" /\ session /\ Serving
    BY <1>1, <1>7 DEF Serving
  <2>2. \A C : Has(outbox', C) <=> Has(outbox, C) \/ p \in C
    BY <1>1, <1>2, <2>1, HasBack DEF TcpTypeOK, Written
  <2>3. /\ \A s : Has(mTaskQueue', Subscribers(s)) <=> Has(Others, Subscribers(s))
        /\ \A v : Has(mTaskQueue', Leavers(v)) <=> Has(Others, Leavers(v))
    BY <1>4, <1>5
  <2>4. /\ \A s : IsSubscribing(s)' <=> IsSubscribing(s)
        /\ \A v : IsLeaving(v)' <=> IsLeaving(v)
    BY <1>2, <1>6, <2>2, <2>3 DEF IsSubscribing, IsLeaving
  <2> QED BY <2>1, <2>4 DEF SameRequests
<1>9. IsSpoilt => IsSpoilt'
  BY <1>1, <1>4, WritingSpoilt DEF IsSpoilt
<1> QED BY <1>1, <1>3, <1>4, <1>7, <1>8, <1>9, SubscriptionQuiet

-----------------------------------------------------------------------------
(* The tasks that read. *)

\* The packets on their way to the client are the same.
LEMMA AnswersKept ==
    ASSUME inbox \in Seq(InFlight), inbox' \in Seq(InFlight), DOMAIN inbox' = DOMAIN inbox,
           \A i \in DOMAIN inbox : inbox'[i].pkt = inbox[i].pkt
    PROVE  \A p : Has(inbox, BadAnswers(p)) => Has(inbox', BadAnswers(p))
<1> SUFFICES ASSUME NEW p, NEW i \in DOMAIN inbox, inbox[i] \in BadAnswers(p)
             PROVE  inbox'[i] \in BadAnswers(p)
  BY DEF Has
<1>1. inbox'[i] \in InFlight
  OBVIOUS
<1> QED BY <1>1 DEF BadAnswers, Answers

\* A task that receives asks for nothing but what its request asks for.
LEMMA ReceiverAsks ==
    ASSUME NEW u \in Task, NEW t \in Task, t.req = u.req,
           u.kind \in Receiving \cup {"handle"}, t.kind \in Receiving \cup {"handle"}
    PROVE  AsksAlike(t, u)
BY CallSorts DEF AsksAlike, Receiving

LEMMA SubscriptionReceives ==
    ASSUME ClientTypeOK, TcpTypeOK, BrokerTypeOK, SafetyInv, StreamInv, SubscriptionInv,
           UNCHANGED brokerVars, Receive
    PROVE  SubscriptionInv'
<1> DEFINE p == Head(inbox).pkt
<1>1. /\ pc = "run" /\ mTaskQueue # <<>>
      /\ This.kind \in Receiving /\ This.resp = NoPacket
      /\ isDataAvailable /\ TcpRecv
      /\ UNCHANGED <<callbacks, subscribed, cancelled, brokerSubs>>
      /\ UNCHANGED <<mSocket, session, outbox>>
  BY RunningHasSocket DEF Receive, Running, This, TcpRecv, callVars, brokerVars
<1>2. /\ This \in Task /\ FitTask(This) /\ Rank(This) = 0
      /\ \A C : Has(mTaskQueue, C) <=> This \in C \/ Has(Others, C)
  BY <1>1, ThisRuns, Ranks DEF StreamInv
<1>3. /\ inbox \in Seq(InFlight) /\ inbox # <<>> /\ inbox' \in Seq(InFlight)
      /\ Head(inbox) \in InFlight /\ p \in Packet
  <2>1. inbox \in Seq(InFlight) /\ inbox # <<>> /\ inbox' \in Seq(InFlight)
    BY <1>1, InboxRead DEF TcpTypeOK, isDataAvailable, TcpRecv
  <2>2. Head(inbox) \in InFlight
    BY <2>1
  <2> QED BY <2>1, <2>2 DEF InFlight
<1>4. PICK t \in Task :
         /\ ReplaceBy(<<t>>) /\ t.kind \in Receiving
         /\ t.keep = This.keep /\ t.req = This.req
         /\ \/ inbox' = [inbox EXCEPT ![1].read = @ + 1]
            \/ inbox' = Tail(inbox) /\ t.resp = p
  <2>1. CASE inbox' = Tail(inbox)
    <3>1. Len(inbox') < Len(inbox)
      BY <1>3, <2>1
    <3>2. Completed(This, p) \in Task /\ ReplaceBy(<<Completed(This, p)>>)
      BY <1>2, <1>3, <3>1, TaskTypes DEF Receive
    <3>3. /\ Completed(This, p).kind = "recvBody" /\ Completed(This, p).resp = p
          /\ Completed(This, p).keep = This.keep /\ Completed(This, p).req = This.req
      BY <1>2 DEF Completed, Task
    <3> QED BY <2>1, <3>2, <3>3 DEF Receiving
  <2>2. CASE inbox' = [inbox EXCEPT ![1].read = @ + 1]
    <3> DEFINE k == IF This.kind = "recvType" THEN "recvLength" ELSE "recvBody"
               u == [This EXCEPT !.kind = k]
    <3>1. Len(inbox') = Len(inbox)
      BY <1>3, <2>2, ReadsMore
    <3>2. /\ u \in Task /\ u.kind = k /\ u.keep = This.keep /\ u.req = This.req
      BY <1>2 DEF Task, TaskKinds, Receiving
    <3>3. ReplaceBy(<<u>>)
      <4>1. ~(Len(inbox') < Len(inbox))
        BY <1>3, <3>1
      <4> QED BY <4>1 DEF Receive
    <3> QED BY <2>2, <3>2, <3>3 DEF Receiving
  <2> QED BY <1>1, <2>1, <2>2 DEF TcpRecv
<1>5. AsksAlike(t, This)
  BY <1>1, <1>2, <1>4, ReceiverAsks
<1>6. ~t.keep
  BY <1>2, <1>4 DEF FitTask
<1>7. IsSpoilt => IsSpoilt'
  <2>1. /\ mTaskQueue' # <<>> /\ Head(mTaskQueue') = t
        /\ \A C : Has(mTaskQueue', C) <=> t \in C \/ Has(Others, C)
    BY <1>1, <1>4, QueueReplaced DEF StreamInv
  <2>2. This \notin Spoilt
    BY <1>1, <1>2, CallSorts, NoPacketSorts DEF Replies
  <2>3. AwaitsReply => AwaitsReply'
    BY <1>1, <1>4, <2>1 DEF AwaitsReply, This
  <2>4. CASE inbox' = [inbox EXCEPT ![1].read = @ + 1]
    <3>1. \A q : Has(inbox, BadAnswers(q)) => Has(inbox', BadAnswers(q))
      BY <1>3, <2>4, ReadsMore, AnswersKept
    <3> QED BY <1>2, <1>4, <2>1, <2>2, <2>3, <3>1 DEF IsSpoilt, This
  <2>5. CASE inbox' = Tail(inbox) /\ t.resp = p
    <3>1. \A C : Has(inbox, C) <=> Head(inbox) \in C \/ Has(Tail(inbox), C)
      BY <1>3, HasTail
    <3>2. Head(inbox) \in BadAnswers(This.req) => t \in Spoilt
      BY <1>4, <2>5, CallSorts DEF BadAnswers, Answers
    <3> QED BY <1>2, <1>4, <2>1, <2>2, <2>3, <2>5, <3>1, <3>2 DEF IsSpoilt, This
  <2> QED BY <1>4, <2>4, <2>5
<1> QED BY <1>1, <1>4, <1>5, <1>6, <1>7, SubscriptionReplaces

\* A message has been dispatched.
LEMMA SubscriptionDispatched ==
    ASSUME ClientTypeOK, TcpTypeOK, BrokerTypeOK, SafetyInv, StreamInv, SubscriptionInv,
           UNCHANGED brokerVars, Dispatched
    PROVE  SubscriptionInv'
<1>1. /\ mTaskQueue # <<>> /\ This.kind = "recvBody" /\ This.resp.type = "PUBLISH"
      /\ UNCHANGED <<callbacks, subscribed, cancelled, brokerSubs>>
      /\ UNCHANGED <<mSocket, session, outbox, inbox>>
  BY RunningHasSocket
     DEF Dispatched, StreamInv, CallbackRuns, This, tcpVars, callVars, brokerVars
<1>2. /\ This \in Task /\ This.req \in Outgoing
      /\ \A C : Has(mTaskQueue, C) <=> This \in C \/ Has(Others, C)
  BY <1>1, ThisRuns DEF StreamInv, Task
<1>3. /\ This \notin Spoilt /\ This \notin Openers
      /\ \A s : This \notin Subscribers(s) /\ This \notin Leavers(s)
  BY <1>1, <1>2, CallSorts DEF Replies
<1>4. CASE This.req = NoPacket
  <2>1. ReplaceBy(<<>>)
    BY <1>4 DEF Dispatched
  <2>2. IsSpoilt => IsSpoilt'
    <3>1. \A C : This \notin C => (Has(mTaskQueue', C) <=> Has(mTaskQueue, C))
      BY <1>1, <2>1, DroppedHas
    <3>2. ~AwaitsReply
      BY <1>4 DEF AwaitsReply, This
    <3> QED BY <1>3, <3>1, <3>2 DEF IsSpoilt
  <2> QED BY <1>1, <1>3, <2>1, <2>2, SubscriptionDrops
<1>5. CASE This.req # NoPacket
  <2> DEFINE t == RecvTask(This.req)
  <2>1. ReplaceBy(<<t>>)
    BY <1>5 DEF Dispatched
  <2>2. /\ t \in Task /\ t.req = This.req /\ t.kind = "recvType" /\ ~t.keep
    BY <1>2, <1>5, AwaitTask DEF RecvTask, MakeTask
  <2> HIDE DEF t
  <2>3. AsksAlike(t, This)
    BY <1>1, <1>2, <2>2, ReceiverAsks DEF Receiving
  <2>4. IsSpoilt => IsSpoilt'
    <3>1. /\ mTaskQueue' # <<>> /\ Head(mTaskQueue') = t
          /\ \A C : Has(mTaskQueue', C) <=> t \in C \/ Has(Others, C)
      BY <1>1, <2>1, <2>2, QueueReplaced DEF StreamInv
    <3>2. AwaitsReply'
      BY <1>5, <2>2, <3>1 DEF AwaitsReply, Receiving
    <3> QED BY <1>1, <1>2, <1>3, <2>2, <3>1, <3>2 DEF IsSpoilt, This
  <2> QED BY <1>1, <2>1, <2>2, <2>3, <2>4, SubscriptionReplaces
<1> QED BY <1>4, <1>5

\* A packet that is no message goes to the handler, or nowhere.
LEMMA SubscriptionDelivers ==
    ASSUME ClientTypeOK, TcpTypeOK, BrokerTypeOK, SafetyInv, StreamInv, SubscriptionInv,
           UNCHANGED brokerVars, Deliver
    PROVE  SubscriptionInv'
<1>1. /\ mTaskQueue # <<>> /\ This.kind = "recvBody"
      /\ This.resp # NoPacket /\ This.resp.type # "PUBLISH"
      /\ UNCHANGED <<callbacks, subscribed, cancelled, brokerSubs>>
      /\ UNCHANGED <<mSocket, session, outbox, inbox>>
  BY RunningHasSocket DEF Deliver, Running, This, tcpVars, callVars, brokerVars
<1>2. /\ This \in Task /\ FitTask(This) /\ Rank(This) = 0
      /\ \A C : Has(mTaskQueue, C) <=> This \in C \/ Has(Others, C)
  BY <1>1, ThisRuns, Ranks DEF StreamInv, Receiving
<1>3. /\ This \notin Openers
      /\ \A s : This \notin Subscribers(s) /\ This \notin Leavers(s)
  BY <1>1, <1>2, CallSorts
<1>4. Serving /\ MaxRetries # 0 /\ IsSpoilt => Has(mTaskQueue, Spoilt)
  <2>1. ~WillTake
    BY <1>1 DEF WillTake, This
  <2> QED BY <2>1, AnswerAwaited DEF IsSpoilt
<1>5. CASE This.req = NoPacket
  <2>1. ReplaceBy(<<>>)
    BY <1>5 DEF Deliver
  <2>2. This \notin Spoilt
    BY <1>2, <1>5, CallSorts, NoPacketSorts DEF Requests
  <2>3. Serving /\ MaxRetries # 0 /\ IsSpoilt => IsSpoilt'
    BY <1>1, <1>4, <2>1, <2>2, DroppedHas DEF IsSpoilt
  <2> QED BY <1>1, <1>3, <2>1, <2>3, SubscriptionDrops
<1>6. CASE This.req # NoPacket
  <2> DEFINE t == HandleTask(This)
  <2>1. ReplaceBy(<<t>>)
    BY <1>6 DEF Deliver
  <2>2. /\ t \in Task /\ t.kind = "handle" /\ t.req = This.req /\ t.resp = This.resp
        /\ t.keep = This.keep
    BY <1>2, TaskTypes DEF HandleTask, Task
  <2> HIDE DEF t
  <2>3. AsksAlike(t, This)
    BY <1>1, <1>2, <2>2, ReceiverAsks DEF Receiving
  <2>4. Serving /\ MaxRetries # 0 /\ IsSpoilt => IsSpoilt'
    <3>1. \A C : Has(mTaskQueue', C) <=> t \in C \/ Has(Others, C)
      BY <1>1, <2>1, <2>2, QueueReplaced DEF StreamInv
    <3>2. This \in Spoilt => t \in Spoilt
      BY <1>2, <2>2, CallSorts
    <3> QED BY <1>2, <1>4, <3>1, <3>2 DEF IsSpoilt
  <2>5. ~t.keep
    BY <1>2, <2>2 DEF FitTask
  <2> QED BY <1>1, <2>1, <2>2, <2>3, <2>4, <2>5, SubscriptionReplaces
<1> QED BY <1>5, <1>6

\* A reply has been handled: it was one that the handler accepts.
LEMMA SubscriptionHandled ==
    ASSUME ClientTypeOK, TcpTypeOK, BrokerTypeOK, SafetyInv, StreamInv, SubscriptionInv,
           UNCHANGED brokerVars, Handled
    PROVE  SubscriptionInv'
<1>1. /\ mTaskQueue # <<>> /\ This.kind = "handle" /\ ReplaceBy(<<>>)
      /\ UNCHANGED <<callbacks, subscribed, cancelled, brokerSubs>>
      /\ UNCHANGED <<mSocket, session, outbox, inbox>>
  BY RunningHasSocket
     DEF Handled, Running, InOnConnect, This, tcpVars, callVars, brokerVars
<1>2. This \in Task
  BY <1>1, ThisRuns DEF StreamInv
<1>3. /\ This \notin Openers
      /\ \A s : This \notin Subscribers(s) /\ This \notin Leavers(s)
  BY <1>1, <1>2, CallSorts
<1>4. ~Violates(This.req, This.resp)
  BY <1>1 DEF Handled, InOnConnect, StreamInv, CallbackRuns, This
<1>5. This \notin Spoilt /\ ~AwaitsReply
  BY <1>1, <1>2, <1>4, CallSorts DEF AwaitsReply, Receiving, This
<1>6. IsSpoilt => IsSpoilt'
  BY <1>1, <1>5, DroppedHas DEF IsSpoilt
<1> QED BY <1>1, <1>3, <1>6, SubscriptionDrops

-----------------------------------------------------------------------------
(* The steps that leave the queue alone. *)

LEMMA SubscriptionRests ==
    ASSUME ClientTypeOK, BrokerTypeOK, SubscriptionInv, UNCHANGED brokerVars,
           \/ TcpConnectWaits \/ CheckConnectRepeats \/ ReceiveNone
           \/ Dispatch \/ HandleConnack \/ DelayElapses \/ UNCHANGED vars
    PROVE  SubscriptionInv'
<1>1. /\ UNCHANGED <<mTaskQueue, callbacks, subscribed, cancelled, brokerSubs>>
      /\ UNCHANGED <<mSocket, session, inbox, outbox>>
  BY DEF TcpConnectWaits, CheckConnectRepeats, ReceiveNone, Dispatch, HandleConnack,
         DelayElapses, Repeat, TcpRecvNone, vars, clientVars, taskVars, callVars,
         tcpVars, brokerVars
<1>2. StartsFresh' /\ (Serving' => mSocket = "up" /\ session)
  BY <1>1 DEF SubscriptionInv, StartsFresh, Serving
<1> QED BY <1>1, <1>2, SubscriptionStays

LEMMA SubscriptionNetwork ==
    ASSUME ClientTypeOK, TcpTypeOK, TcpTypeOK', BrokerTypeOK, SubscriptionInv,
           Network, UNCHANGED <<clientVars, brokerVars>>
    PROVE  SubscriptionInv'
<1>1. /\ UNCHANGED <<mTaskQueue, callbacks, subscribed, cancelled, brokerSubs>>
      /\ UNCHANGED session
  BY DEF clientVars, taskVars, callVars, brokerVars, Network, Establish, Refuse,
         PeerCloses, Reset, Arrive, Tick
<1>2. StartsFresh'
  BY <1>1 DEF SubscriptionInv, StartsFresh, Network, Establish, Refuse, PeerCloses,
              Reset, Arrive, Tick
<1>3. Serving' => mSocket = "up" /\ session /\ UNCHANGED outbox
  BY <1>1 DEF Serving, SubscriptionInv, StartsFresh, Network, Establish, Refuse,
              PeerCloses, Reset, Arrive, Tick
<1>4. \A p : Has(inbox, BadAnswers(p)) => Has(inbox', BadAnswers(p))
  <2>1. CASE Establish \/ Refuse \/ PeerCloses \/ Reset \/ Tick
    BY <2>1 DEF Establish, Refuse, PeerCloses, Reset, Tick
  <2>2. CASE Arrive
    <3> DEFINE n == Len(inbox)
    <3>1. /\ inbox \in Seq(InFlight) /\ inbox # <<>> /\ inbox' \in Seq(InFlight)
          /\ inbox' = [inbox EXCEPT ![n].got = Reads(inbox[n].pkt)]
      BY <2>2 DEF Arrive, TcpTypeOK
    <3>2. /\ n \in DOMAIN inbox /\ inbox[n] \in InFlight
      BY <3>1
    <3> HIDE DEF n
    <3>3. /\ DOMAIN inbox' = DOMAIN inbox
          /\ inbox'[n] = [inbox[n] EXCEPT !.got = Reads(inbox[n].pkt)]
          /\ \A i \in DOMAIN inbox : i # n => inbox'[i] = inbox[i]
      BY <3>1, <3>2
    <3>4. inbox'[n].pkt = inbox[n].pkt
      <4>1. inbox[n] \in [pkt : Packet, got : 1 .. 3, read : 0 .. 2]
        BY <3>2 DEF InFlight
      <4> QED BY <3>3, <4>1
    <3>5. \A i \in DOMAIN inbox : inbox'[i].pkt = inbox[i].pkt
      BY <3>3, <3>4
    <3> QED BY <3>1, <3>3, <3>5, AnswersKept
  <2> QED BY <2>1, <2>2 DEF Network
<1> QED BY <1>1, <1>2, <1>3, <1>4, SubscriptionStays

\* The broker takes a packet that has nothing to do with subscriptions, or sends
\* a message.
LEMMA SubscriptionPasses ==
    ASSUME ClientTypeOK, TcpTypeOK, BrokerTypeOK, SafetyInv, StreamInv, SubscriptionInv,
           UNCHANGED clientVars,
           TakePublish \/ TakeDisconnect \/ \E t \in Topics : SendPublish(t)
    PROVE  SubscriptionInv'
<1>1. /\ UNCHANGED <<mTaskQueue, callbacks, subscribed, cancelled, brokerSubs>>
      /\ UNCHANGED <<mSocket, mDisconnected>>
      /\ session' => session
  BY DEF clientVars, taskVars, callVars, brokerVars, TakePublish, TakeDisconnect,
         SendPublish
<1>2. StartsFresh' /\ (Serving' => mSocket = "up" /\ session)
  BY <1>1 DEF SubscriptionInv, StartsFresh, Serving
<1>3. CASE TakePublish \/ TakeDisconnect
  <2>1. /\ outbox # <<>> /\ outbox' = Tail(outbox) /\ UNCHANGED inbox
        /\ Head(outbox).type \in {"PUBLISH", "DISCONNECT"}
    BY <1>3 DEF TakePublish, TakeDisconnect
  <2>2. \A C : Has(outbox, C) <=> Head(outbox) \in C \/ Has(outbox', C)
    BY <2>1, HasTail DEF TcpTypeOK
  <2>3. \A s : Head(outbox) \notin SubscribesTo(s) /\ Head(outbox) \notin Leaves(s)
    BY <2>1 DEF SubscribesTo, Leaves
  <2> QED BY <1>1, <1>2, <2>1, <2>2, <2>3, SubscriptionStays
<1>4. ASSUME NEW t \in Topics, SendPublish(t) PROVE SubscriptionInv'
  <2> DEFINE p == MakePacket("PUBLISH", 0, t)
  <2>1. mSocket = "up" /\ UNCHANGED outbox /\ Transmit(p)
    BY <1>4 DEF SendPublish
  <2>2. p \in Packet
    BY IdsWrap DEF MakePacket, Packet, MessageType
  <2>3. PICK e \in InFlight : e.pkt = p /\ e.read = 0 /\ inbox' = Append(inbox, e)
    BY <2>1, <2>2, TransmitMeans
  <2>4. \A C : Has(inbox', C) <=> Has(inbox, C) \/ e \in C
    BY <2>3, HasBack DEF TcpTypeOK
  <2> QED BY <1>1, <1>2, <2>1, <2>4, SubscriptionStays
<1> QED BY <1>3, <1>4

-----------------------------------------------------------------------------
(* The broker takes a request. *)

\* An answer to SUBSCRIBE that breaks the protocol is seen to by the client.
LEMMA BadReplyShows ==
    ASSUME NEW p \in Packet, p.type = "SUBSCRIBE", NEW q \in BadReplies(p)
    PROVE  q.type \in Replies /\ Violates(p, q)
<1>1. p.id \in PacketIds
  BY DEF Packet
<1>2. NextId(p.id) # p.id
  <2>1. Base \in Nat /\ Base >= 2 /\ Base * Base \in Nat /\ Base * Base >= 2 * Base
    BY PacketsAssumption
  <2> DEFINE m == Base * Base
  <2>2. m \in Nat /\ m >= 4
    BY <2>1
  <2> HIDE DEF m
  <2>3. \A id \in 0 .. m - 1 : (IF id = m - 1 THEN 0 ELSE id + 1) # id
    BY <2>2
  <2> QED BY <1>1, <2>3 DEF PacketIds, NextId, m
<1>3. \/ q.type = "CONNACK"
      \/ q.type = "SUBACK" /\ q.id # p.id
  BY <1>2 DEF BadReplies, MakePacket, ReplyTo
<1> QED BY <1>3 DEF Violates, IdMatches, ReplyTo, Replies

\* What is on its way once a request has been taken: nothing but the reply.
LEMMA RequestTaken ==
    ASSUME ClientTypeOK, TcpTypeOK, SafetyInv, StreamInv, SubscriptionInv, TakeRequest,
           UNCHANGED clientVars, MaxRetries # 0, Serving',
           NEW p, p = Head(outbox)
    PROVE  /\ p \in Outgoing /\ p.type \in Requests
           /\ p.type # "CONNECT" => Serving
           /\ session => Serving
           /\ mTaskQueue # <<>> /\ This \in Task /\ This.req = p
           /\ \A C : Has(mTaskQueue, C) <=> This \in C \/ Has(Others, C)
           /\ \A s : ~IsSubscribing(s)' /\ (IsSubscribing(s) <=> p \in SubscribesTo(s))
           /\ \A t : IsLeaving(t) => IsLeaving(t)' \/ p \in Leaves(t)
           /\ \A q \in Packet : Transmit(q) /\ q.type \in Replies =>
                 /\ IsSpoilt => IsSpoilt'
                 /\ Violates(p, q) => IsSpoilt'
<1>1. /\ outbox # <<>> /\ p.type \in Requests /\ outbox' = Tail(outbox)
      /\ UNCHANGED <<mTaskQueue, mSocket>>
      /\ session' => session \/ p.type = "CONNECT"
  BY DEF TakeRequest, clientVars, taskVars
<1>2. mSocket = "up" /\ ~Replacing
  BY <1>1 DEF Serving, Replacing
<1>3. /\ outbox \in Seq(Outgoing) /\ p \in Asked
      /\ \A C : Has(outbox, C) <=> p \in C \/ Has(outbox', C)
      /\ Sole(outbox, Asked) => ~Has(outbox', Asked)
  <2>1. outbox \in Seq(Outgoing) /\ Head(outbox) \in Outgoing
    BY <1>1 DEF TcpTypeOK
  <2>2. p \in Asked
    BY <1>1, <2>1 DEF Asked
  <2> QED BY <1>1, <2>1, <2>2, HasTail
<1>4. WillTake /\ ~Has(outbox', Asked) /\ ~Has(outbox, Asked \ {This.req})
  BY <1>2, <1>3 DEF StreamInv, Awaited, LockStep, This
<1>5. /\ This.req = p /\ mTaskQueue # <<>> /\ This.kind \in Receiving /\ p # NoPacket
      /\ AwaitsReply
  BY <1>3, <1>4 DEF WillTake, AwaitsReply, This
<1>6. /\ This \in Task
      /\ \A C : Has(mTaskQueue, C) <=> This \in C \/ Has(Others, C)
      /\ \A i \in DOMAIN Others : Others[i] \in Task
  BY <1>5, ThisRuns DEF StreamInv
<1>7. \A s : ~Has(mTaskQueue, Subscribers(s))
  <2>1. mTaskQueue \in Seq(Task)
    BY DEF ClientTypeOK
  <2>2. \A i \in DOMAIN Others : InTurn(This, Others[i], cancelled)
    BY <1>5, <2>1, TurnTail DEF SubscriptionInv, This, Others
  <2>3. \A s : ~Has(Others, Subscribers(s))
    BY <1>5, <2>2 DEF Has, InTurn, Subscribers
  <2>4. \A s : This \notin Subscribers(s)
    BY <1>5, <1>6, CallSorts DEF Receiving
  <2> QED BY <1>6, <2>3, <2>4
<1>8. \A s : ~Has(outbox', SubscribesTo(s)) /\ ~Has(outbox', Leaves(s))
  <2>1. \A s : SubscribesTo(s) \subseteq Asked /\ Leaves(s) \subseteq Asked
    BY DEF SubscribesTo, Leaves, Asked, Requests
  <2> QED BY <1>4, <2>1, HasLess
<1>9. \A s : ~IsSubscribing(s)' /\ (IsSubscribing(s) <=> p \in SubscribesTo(s))
  BY <1>1, <1>3, <1>7, <1>8 DEF IsSubscribing
<1>10. \A t : IsLeaving(t) => IsLeaving(t)' \/ p \in Leaves(t)
  BY <1>1, <1>3, <1>8 DEF IsLeaving
<1>11. ASSUME NEW q \in Packet, Transmit(q), q.type \in Replies
       PROVE  /\ IsSpoilt => IsSpoilt'
              /\ Violates(p, q) => IsSpoilt'
  <2>1. PICK e \in InFlight : e.pkt = q /\ e.read = 0 /\ inbox' = Append(inbox, e)
    BY <1>2, <1>11, TransmitMeans
  <2>2. \A C : Has(inbox', C) <=> Has(inbox, C) \/ e \in C
    BY <2>1, HasBack DEF TcpTypeOK
  <2>3. Violates(p, q) => e \in BadAnswers(p)
    BY <1>1, <1>11, <2>1 DEF BadAnswers, Answers
  <2>4. AwaitsReply' /\ Head(mTaskQueue').req = p
    BY <1>1, <1>5 DEF AwaitsReply, This
  <2> QED BY <1>1, <1>5, <2>2, <2>3, <2>4 DEF IsSpoilt, This
<1>12. session => Serving
  BY <1>2 DEF Serving
<1>13. p.type # "CONNECT" => Serving
  BY <1>1, <1>12 DEF Serving
<1> QED BY <1>1, <1>3, <1>5, <1>6, <1>9, <1>10, <1>11, <1>12, <1>13 DEF Asked

\* Each kind of request, and both kinds of answer.
LEMMA AnswerLinked ==
    ASSUME ClientTypeOK, TcpTypeOK, BrokerTypeOK, SafetyInv, StreamInv, SubscriptionInv,
           TakeRequest, UNCHANGED clientVars, MaxRetries # 0, Serving'
    PROVE  /\ "suback" \notin Faults => NoneMissing'
           /\ CleanSession => NoneLeft'
<1>1. PICK p : p = Head(outbox)
  OBVIOUS
<1>2. PICK fine \in BOOLEAN :
         /\ Reply(p, fine)
         /\ session' = (session \/ (p.type = "CONNECT" /\ fine))
         /\ brokerSubs' =
              CASE p.type = "CONNECT" /\ fine /\ CleanSession -> {}
                [] p.type = "SUBSCRIBE" /\ fine -> brokerSubs \cup {TopicOf[p.arg]}
                [] p.type = "UNSUBSCRIBE"       -> brokerSubs \ {p.arg}
                [] OTHER                        -> brokerSubs
  BY <1>1 DEF TakeRequest
<1>3. /\ p \in Outgoing /\ p.type \in Requests
      /\ p.type # "CONNECT" => Serving
      /\ session => Serving
      /\ mTaskQueue # <<>> /\ This \in Task /\ This.req = p
      /\ \A C : Has(mTaskQueue, C) <=> This \in C \/ Has(Others, C)
      /\ \A s : ~IsSubscribing(s)' /\ (IsSubscribing(s) <=> p \in SubscribesTo(s))
      /\ \A t : IsLeaving(t) => IsLeaving(t)' \/ p \in Leaves(t)
      /\ \A q \in Packet : Transmit(q) /\ q.type \in Replies =>
            /\ IsSpoilt => IsSpoilt'
            /\ Violates(p, q) => IsSpoilt'
  BY <1>1, RequestTaken
<1>4. /\ p \in Packet
      /\ UNCHANGED <<callbacks, cancelled>>
      /\ callbacks \subseteq Subs /\ brokerSubs \subseteq Topics
      /\ \A s \in Subs : TopicOf[s] \in Topics
  BY <1>3, PacketTypes, PacketsAssumption
     DEF clientVars, taskVars, callVars, ClientTypeOK, BrokerTypeOK
<1>5. \A t : Matching(t)' = Matching(t)
  BY <1>4 DEF Matching
<1>6. IsSpoilt => IsSpoilt'
  BY <1>2, <1>3, <1>4, ReplyMeans
<1>7. Serving => /\ "suback" \notin Faults => NoneMissing
                 /\ CleanSession => NoneLeft
  BY DEF SubscriptionInv, Linked
<1>8. CASE p.type = "CONNECT"
  <2>1. callbacks = {}
    <3>1. Has(mTaskQueue, Joiners)
      BY <1>3, <1>8, CallSorts
    <3> QED BY <3>1 DEF SubscriptionInv, Registered
  <2>2. NoneMissing'
    BY <1>4, <2>1 DEF NoneMissing
  <2>3. ASSUME CleanSession PROVE NoneLeft'
    <3>1. CASE fine
      <4>1. brokerSubs' = {}
        BY <1>2, <1>8, <2>3, <3>1
      <4> QED BY <1>3, <4>1 DEF NoneLeft
    <3>2. CASE ~fine
      <4>1. brokerSubs' = brokerSubs
        BY <1>2, <1>8, <3>2
      <4>2. Serving
        BY <1>2, <1>3, <3>2 DEF Serving
      <4>3. \A t : p \notin Leaves(t)
        BY <1>8 DEF Leaves
      <4> QED BY <1>3, <1>5, <1>7, <2>3, <4>1, <4>2, <4>3 DEF NoneLeft
    <3> QED BY <3>1, <3>2
  <2> QED BY <2>2, <2>3
<1>9. CASE p.type = "SUBSCRIBE"
  <2>1. PICK s \in Subs : s = p.arg
    BY <1>3, <1>9 DEF Outgoing
  <2>2. /\ Serving
        /\ \A t : p \notin Leaves(t)
        /\ \A r : p \in SubscribesTo(r) <=> r = s
    BY <1>3, <1>9, <2>1 DEF Leaves, SubscribesTo
  <2>3. ASSUME CleanSession PROVE NoneLeft'
    <3>1. brokerSubs' \subseteq brokerSubs \cup {TopicOf[s]}
      BY <1>2, <1>9, <2>1
    <3>2. NoneLeft
      BY <1>7, <2>2, <2>3
    <3>3. ASSUME NEW t \in brokerSubs' PROVE Matching(t) # {} \/ IsLeaving(t)
      <4>1. IsSubscribing(s)
        BY <1>3, <2>2
      <4> QED BY <3>1, <3>2, <3>3, <4>1 DEF NoneLeft
    <3>4. \A t \in brokerSubs' : Matching(t)' # {} \/ IsLeaving(t)'
      BY <1>3, <1>5, <2>2, <3>3
    <3> QED BY <1>3, <3>4 DEF NoneLeft
  <2>4. ASSUME "suback" \notin Faults PROVE NoneMissing'
    <3>1. CASE fine
      <4>1. brokerSubs' = brokerSubs \cup {TopicOf[s]}
        BY <1>2, <1>9, <2>1, <3>1
      <4>2. NoneMissing
        BY <1>7, <2>2, <2>4
      <4>3. \A r \in callbacks \ cancelled : TopicOf[r] \in brokerSubs' \/ IsSpoilt'
        BY <1>3, <1>6, <2>2, <4>1, <4>2 DEF NoneMissing
      <4> QED BY <1>4, <4>3 DEF NoneMissing
    <3>2. CASE ~fine
      <4>1. PICK q \in BadReplies(p) : Transmit(q)
        BY <1>2, <1>9, <2>4, <3>2 DEF Reply, Inject
      <4>2. q \in Packet /\ q.type \in Replies /\ Violates(p, q)
        BY <1>3, <1>4, <1>9, <4>1, ReplyTypes, BadReplyShows
      <4>3. IsSpoilt'
        BY <1>3, <4>1, <4>2
      <4> QED BY <4>3 DEF NoneMissing
    <3> QED BY <3>1, <3>2
  <2> QED BY <2>3, <2>4
<1>10. CASE p.type = "UNSUBSCRIBE"
  <2>1. PICK u : u = p.arg
    OBVIOUS
  <2>2. /\ Serving
        /\ \A r : p \notin SubscribesTo(r)
        /\ \A t : p \in Leaves(t) => t = u
        /\ brokerSubs' = brokerSubs \ {u}
    BY <1>2, <1>3, <1>10, <2>1 DEF Leaves, SubscribesTo
  <2>3. \A s \in callbacks \ cancelled : TopicOf[s] # u
    <3>1. Has(mTaskQueue, Unsubscribes(u))
      BY <1>3, <1>10, <2>1, CallSorts
    <3> QED BY <3>1 DEF SubscriptionInv, Registered
  <2>4. ASSUME "suback" \notin Faults PROVE NoneMissing'
    <3>1. NoneMissing
      BY <1>7, <2>2, <2>4
    <3>2. \A r \in callbacks \ cancelled : TopicOf[r] \in brokerSubs' \/ IsSpoilt'
      BY <1>3, <1>6, <2>2, <2>3, <3>1 DEF NoneMissing
    <3> QED BY <1>4, <3>2 DEF NoneMissing
  <2>5. ASSUME CleanSession PROVE NoneLeft'
    <3>1. NoneLeft
      BY <1>7, <2>2, <2>5
    <3>2. \A t \in brokerSubs' : Matching(t)' # {} \/ IsLeaving(t)'
      BY <1>3, <1>5, <2>2, <3>1 DEF NoneLeft
    <3> QED BY <1>3, <3>2 DEF NoneLeft
  <2> QED BY <2>4, <2>5
<1>11. CASE p.type = "PINGREQ"
  <2>1. /\ Serving /\ brokerSubs' = brokerSubs
        /\ \A r : p \notin SubscribesTo(r) /\ p \notin Leaves(r)
    BY <1>2, <1>3, <1>11 DEF Leaves, SubscribesTo
  <2>2. ASSUME "suback" \notin Faults PROVE NoneMissing'
    <3>1. NoneMissing
      BY <1>7, <2>1, <2>2
    <3>2. \A r \in callbacks \ cancelled : TopicOf[r] \in brokerSubs' \/ IsSpoilt'
      BY <1>3, <1>6, <2>1, <3>1 DEF NoneMissing
    <3> QED BY <1>4, <3>2 DEF NoneMissing
  <2>3. ASSUME CleanSession PROVE NoneLeft'
    BY <1>3, <1>5, <1>7, <2>1, <2>3 DEF NoneLeft
  <2> QED BY <2>2, <2>3
<1> QED BY <1>3, <1>8, <1>9, <1>10, <1>11 DEF Requests

LEMMA SubscriptionAnswers ==
    ASSUME ClientTypeOK, TcpTypeOK, BrokerTypeOK, SafetyInv, StreamInv, SubscriptionInv,
           TakeRequest, UNCHANGED clientVars
    PROVE  SubscriptionInv'
<1>1. /\ UNCHANGED <<mTaskQueue, callbacks, subscribed, cancelled, mSocket>>
      /\ outbox # <<>>
  BY DEF TakeRequest, clientVars, taskVars, callVars
<1>2. CallsInTurn(mTaskQueue', subscribed', cancelled') /\ Registered'
  BY <1>1 DEF SubscriptionInv, Registered, Replacing
<1>3. StartsFresh'
  BY <1>1 DEF StreamInv, InSession, StartsFresh
<1>4. MaxRetries # 0 => Linked'
  BY AnswerLinked DEF Linked
<1> QED BY <1>2, <1>3, <1>4 DEF SubscriptionInv

-----------------------------------------------------------------------------
(* SubscriptionInv, from the initial states and step by step. *)

LEMMA SubscriptionTasks ==
    ASSUME ClientTypeOK, TcpTypeOK, BrokerTypeOK, SafetyInv, StreamInv, SubscriptionInv,
           RunTask, UNCHANGED brokerVars
    PROVE  SubscriptionInv'
<1>1. CASE TcpConnectWaits \/ CheckConnectRepeats \/ ReceiveNone \/ Dispatch \/ HandleConnack
  BY <1>1, SubscriptionRests
<1>2. CASE TcpConnectOpens \/ CheckConnectDone
  BY <1>2, SubscriptionOpens
<1>3. CASE \/ CheckConnectThrows \/ SendThrows \/ ReceiveThrows \/ HandleRefusal
           \/ CallbackThrows \/ TcpConnectThrows \/ HandleViolation
  BY <1>3, SubscriptionFails
<1>4. CASE Prepare \/ SendPart \/ SendNone
  BY <1>4, SubscriptionPrepares
<1>5. CASE SendAll
  BY <1>5, SubscriptionWrites
<1>6. CASE SendDisconnect
  BY <1>6, SubscriptionEnds
<1>7. CASE Receive
  BY <1>7, SubscriptionReceives
<1>8. CASE Dispatched
  BY <1>8, SubscriptionDispatched
<1>9. CASE Deliver
  BY <1>9, SubscriptionDelivers
<1>10. CASE Handled
  BY <1>10, SubscriptionHandled
<1> QED BY <1>1, <1>2, <1>3, <1>4, <1>5, <1>6, <1>7, <1>8, <1>9, <1>10 DEF RunTask

LEMMA InitSubscription == Init => SubscriptionInv
<1> SUFFICES ASSUME Init PROVE SubscriptionInv
  OBVIOUS
<1>1. /\ mTaskQueue = ConnectTasks /\ callbacks = {} /\ mSocket = "none"
      /\ subscribed = {} /\ cancelled = {}
  BY DEF Init, ClientInit, TcpInit
<1>2. CallsInTurn(ConnectTasks, {}, {})
  BY DEF CallsInTurn, FitCall, InTurn, Revokes, ConnectTasks, MakeTask, MakePacket,
         NoPacket
<1>3. Registered /\ StartsFresh /\ ~Serving
  BY <1>1 DEF Registered, StartsFresh, Serving
<1> QED BY <1>1, <1>2, <1>3 DEF SubscriptionInv, Linked

LEMMA StepSubscription ==
    ASSUME TypeInv, TypeInv', SafetyInv, StreamInv, SubscriptionInv, [Next]_vars
    PROVE  SubscriptionInv'
<1>1. ClientTypeOK /\ TcpTypeOK /\ TcpTypeOK' /\ BrokerTypeOK
  BY DEF TypeInv, TypeOK
<1>2. CASE (Application \/ LoopCall \/ Loop \/ RunTask) /\ UNCHANGED brokerVars
  BY <1>1, <1>2, SubscriptionCalls, SubscriptionRevoked, SubscriptionLoop,
     SubscriptionTasks DEF Application
<1>3. CASE (DelayElapses /\ UNCHANGED brokerVars) \/ UNCHANGED vars
  BY <1>1, <1>3, SubscriptionRests DEF vars
<1>4. CASE Network /\ UNCHANGED <<clientVars, brokerVars>>
  BY <1>1, <1>4, SubscriptionNetwork
<1>5. CASE BrokerStep /\ UNCHANGED clientVars
  BY <1>1, <1>5, SubscriptionPasses, SubscriptionAnswers DEF BrokerStep, Take
<1> QED BY <1>2, <1>3, <1>4, <1>5 DEF Next

\* What the client has registered, what it has asked for and what the broker has
\* subscribed are kept in step, by every step.
THEOREM SubscriptionInvCorrect == Spec => []SubscriptionInv
<1>1. Init => SubscriptionInv
  BY InitSubscription
<1>2. TypeInv /\ TypeInv' /\ SafetyInv /\ StreamInv /\ SubscriptionInv /\ [Next]_vars
         => SubscriptionInv'
  BY StepSubscription
<1> QED BY <1>1, <1>2, TypeInvCorrect, SafetyInvCorrect, StreamInvCorrect, PTL DEF Spec

\* When nothing is left to do on a connection the broker has accepted, it holds a
\* subscription for every callback, unless it has refused one, and for no other
\* topic, if the session was a new one: across any number of failures.
THEOREM RegisteredIsSubscribedCorrect ==
    MaxRetries # 0 /\ "suback" \notin Faults /\ CleanSession
        => (Spec => []RegisteredIsSubscribed)
<1> SUFFICES ASSUME MaxRetries # 0, "suback" \notin Faults, CleanSession
             PROVE  Spec => []RegisteredIsSubscribed
  OBVIOUS
<1>1. TypeInv /\ StreamInv /\ SubscriptionInv => RegisteredIsSubscribed
  <2> SUFFICES ASSUME TypeInv, StreamInv, SubscriptionInv, Quiescent
               PROVE  /\ \A s \in callbacks \ cancelled : TopicOf[s] \in brokerSubs
                      /\ \A t \in brokerSubs : Matching(t) # {}
    BY DEF RegisteredIsSubscribed
  <2>1. \A C : ~Has(mTaskQueue, C)
    BY HasNone DEF Quiescent
  <2>2. Serving /\ ~AwaitsReply
    BY <2>1 DEF Serving, Replacing, Quiescent, AwaitsReply
  <2>3. ~Has(outbox, Asked)
    BY <2>2 DEF StreamInv, Awaited, WillTake, Serving
  <2>4. \A s : ~Has(outbox, SubscribesTo(s)) /\ ~Has(outbox, Leaves(s))
    <3>1. \A s : SubscribesTo(s) \subseteq Asked /\ Leaves(s) \subseteq Asked
      BY DEF SubscribesTo, Leaves, Asked, Requests
    <3> QED BY <2>3, <3>1, HasLess
  <2>5. ~IsSpoilt /\ \A s : ~IsSubscribing(s) /\ ~IsLeaving(s)
    BY <2>1, <2>2, <2>4 DEF IsSpoilt, IsSubscribing, IsLeaving
  <2>6. NoneMissing /\ NoneLeft
    BY <2>2 DEF SubscriptionInv, Linked
  <2> QED BY <2>5, <2>6 DEF NoneMissing, NoneLeft
<1> QED BY <1>1, TypeInvCorrect, StreamInvCorrect, SubscriptionInvCorrect, PTL

=============================================================================
