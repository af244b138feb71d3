----------------------------- MODULE OnceProofs -----------------------------
(***************************************************************************)
(* What is queued is queued once: a PINGREQ (OnePing), the SUBSCRIBE of a  *)
(* subscribe() call (SubscriptionKept), and a message, which arrives once  *)
(* and in its turn or not at all (PipeSpec), for all values of the         *)
(* constants and across any number of reconnects.                          *)
(***************************************************************************)
EXTENDS SafetyProofs

-----------------------------------------------------------------------------
(* A class C of tasks, of which a queue holds one or none.                 *)

\* At most one, and all of them KEEP_ME, or none.
Once(q, C, keep) ==
    /\ \A i \in DOMAIN q : q[i] \in C => q[i].keep = keep
    /\ \A i, j \in DOMAIN q : q[i] \in C /\ q[j] \in C => i = j

\* One queue behind another.
LEMMA OnceConcat ==
    ASSUME NEW q \in Seq(Task), NEW r \in Seq(Task), NEW C, NEW keep,
           Once(q, C, keep), Once(r, C, keep)
    PROVE  /\ Has(q \o r, C) <=> Has(q, C) \/ Has(r, C)
           /\ ~(Has(q, C) /\ Has(r, C)) => Once(q \o r, C, keep)
<1> DEFINE m == Len(q)
           n == Len(r)
           w == q \o r
<1>1. /\ DOMAIN q = 1 .. m /\ DOMAIN r = 1 .. n /\ DOMAIN w = 1 .. m + n
      /\ m \in Nat /\ n \in Nat
      /\ \A i \in 1 .. m : w[i] = q[i]
      /\ \A i \in m + 1 .. m + n : w[i] = r[i - m]
  OBVIOUS
<1>2. \A j \in 1 .. n : j + m \in m + 1 .. m + n /\ (j + m) - m = j
  BY <1>1
<1>3. /\ \A i \in 1 .. m : i \in DOMAIN w
      /\ \A j \in 1 .. n : j + m \in DOMAIN w /\ w[j + m] = r[j]
  BY <1>1, <1>2
<1>4. \A i \in DOMAIN w : \/ i \in 1 .. m /\ w[i] = q[i]
                          \/ i \notin 1 .. m /\ i - m \in 1 .. n /\ w[i] = r[i - m]
  BY <1>1
<1> HIDE DEF m, n, w
<1>5. Has(w, C) <=> Has(q, C) \/ Has(r, C)
  BY <1>1, <1>3, <1>4 DEF Has
<1>6. ASSUME ~(Has(q, C) /\ Has(r, C)) PROVE Once(w, C, keep)
  <2>1. \A i \in DOMAIN w : w[i] \in C => w[i].keep = keep
    BY <1>1, <1>4 DEF Once
  <2>2. ASSUME NEW i \in DOMAIN w, NEW j \in DOMAIN w, w[i] \in C, w[j] \in C
        PROVE  i = j
    <3>1. CASE i \in 1 .. m
      <4>1. j \in 1 .. m
        BY <1>1, <1>4, <1>6, <2>2, <3>1 DEF Has
      <4> QED BY <1>1, <1>4, <2>2, <3>1, <4>1 DEF Once
    <3>2. CASE i \notin 1 .. m
      <4>1. j \notin 1 .. m
        BY <1>1, <1>4, <1>6, <2>2, <3>2 DEF Has
      <4>2. i - m = j - m
        BY <1>1, <1>4, <2>2, <3>2, <4>1 DEF Once
      <4>3. i \in Int /\ j \in Int
        BY <1>1
      <4> QED BY <1>1, <4>2, <4>3
    <3> QED BY <3>1, <3>2
  <2> QED BY <2>1, <2>2 DEF Once
<1> QED BY <1>5, <1>6 DEF w

\* One task.
LEMMA OnceSingle ==
    ASSUME NEW t, NEW C, NEW keep
    PROVE  /\ Has(<<t>>, C) <=> t \in C
           /\ (t \in C => t.keep = keep) => Once(<<t>>, C, keep)
BY DEF Has, Once

\* One more task at the back, or in front.
LEMMA OnceMore ==
    ASSUME NEW q \in Seq(Task), NEW t \in Task, NEW C, NEW keep, Once(q, C, keep),
           t \in C => t.keep = keep /\ ~Has(q, C)
    PROVE  /\ Once(Append(q, t), C, keep)
           /\ Has(Append(q, t), C) <=> Has(q, C) \/ t \in C
           /\ Once(<<t>> \o q, C, keep)
           /\ Has(<<t>> \o q, C) <=> Has(q, C) \/ t \in C
<1>1. <<t>> \in Seq(Task) /\ Append(q, t) = q \o <<t>>
  OBVIOUS
<1>2. Once(<<t>>, C, keep) /\ (Has(<<t>>, C) <=> t \in C)
  BY OnceSingle
<1>3. ~(Has(q, C) /\ Has(<<t>>, C)) /\ ~(Has(<<t>>, C) /\ Has(q, C))
  BY <1>2
<1>4. /\ Once(q \o <<t>>, C, keep)
      /\ Has(q \o <<t>>, C) <=> Has(q, C) \/ Has(<<t>>, C)
  BY <1>1, <1>2, <1>3, OnceConcat
<1>5. /\ Once(<<t>> \o q, C, keep)
      /\ Has(<<t>> \o q, C) <=> Has(<<t>>, C) \/ Has(q, C)
  BY <1>1, <1>2, <1>3, OnceConcat
<1> QED BY <1>1, <1>2, <1>4, <1>5

\* Without the first task.
LEMMA OnceTail ==
    ASSUME NEW q \in Seq(Task), q # <<>>, NEW C, NEW keep, Once(q, C, keep)
    PROVE  /\ Once(Tail(q), C, keep)
           /\ Has(q, C) <=> Head(q) \in C \/ Has(Tail(q), C)
           /\ Head(q) \in C => ~Has(Tail(q), C) /\ Head(q).keep = keep
<1>1. /\ Head(q) = q[1] /\ Len(q) \in Nat /\ 1 \in DOMAIN q
      /\ DOMAIN Tail(q) = 1 .. Len(q) - 1 /\ DOMAIN q = 1 .. Len(q)
      /\ \A i \in 1 .. Len(q) - 1 : Tail(q)[i] = q[i + 1]
  BY QueueTail
<1>2. /\ \A i \in DOMAIN Tail(q) :
            i + 1 \in DOMAIN q /\ i + 1 # 1 /\ Tail(q)[i] = q[i + 1] /\ i \in Int
      /\ \A i \in DOMAIN q : i # 1 => i - 1 \in DOMAIN Tail(q) /\ Tail(q)[i - 1] = q[i]
  <2>1. ASSUME NEW i \in DOMAIN q, i # 1
        PROVE  i - 1 \in DOMAIN Tail(q) /\ Tail(q)[i - 1] = q[i]
    <3>1. i - 1 \in 1 .. Len(q) - 1 /\ (i - 1) + 1 = i
      BY <1>1, <2>1
    <3> QED BY <1>1, <3>1
  <2>2. ASSUME NEW i \in DOMAIN Tail(q)
        PROVE  i + 1 \in DOMAIN q /\ i + 1 # 1 /\ Tail(q)[i] = q[i + 1] /\ i \in Int
    <3>1. i \in 1 .. Len(q) - 1
      BY <1>1
    <3>2. i + 1 \in 1 .. Len(q) /\ i + 1 # 1 /\ i \in Int
      BY <1>1, <3>1
    <3> QED BY <1>1, <3>1, <3>2
  <2> QED BY <2>1, <2>2
<1>3. Has(q, C) <=> Head(q) \in C \/ Has(Tail(q), C)
  BY <1>1, <1>2 DEF Has
<1>4. ASSUME NEW i \in DOMAIN Tail(q), NEW j \in DOMAIN Tail(q),
             Tail(q)[i] \in C, Tail(q)[j] \in C
      PROVE  i = j
  <2>1. i + 1 = j + 1
    BY <1>2, <1>4 DEF Once
  <2> QED BY <1>2, <2>1
<1>5. Once(Tail(q), C, keep)
  BY <1>2, <1>4 DEF Once
<1>6. Head(q) \in C => ~Has(Tail(q), C) /\ Head(q).keep = keep
  BY <1>1, <1>2 DEF Once, Has
<1> QED BY <1>3, <1>5, <1>6

\* What is kept of a queue: everything KEEP_ME, and nothing else.
LEMMA OnceKept ==
    ASSUME NEW q \in Seq(Task), NEW C, NEW keep \in BOOLEAN, Once(q, C, keep)
    PROVE  /\ Once(Kept(q), C, keep)
           /\ Has(Kept(q), C) <=> Has(q, C) /\ keep
<1> DEFINE k == Kept(q)
           at(n) == Nth(KeptAt(q), n)
<1>1. /\ \A n \in DOMAIN k : at(n) \in KeptAt(q) /\ k[n] = q[at(n)]
      /\ \A m, n \in DOMAIN k : at(m) = at(n) => m = n
      /\ \A i \in KeptAt(q) : \E n \in DOMAIN k : k[n] = q[i]
  BY KeptIsAll
<1>2. \A i : i \in KeptAt(q) <=> i \in DOMAIN q /\ q[i].keep
  BY DEF KeptAt
<1> HIDE DEF k, at
<1>3. Once(k, C, keep)
  BY <1>1, <1>2 DEF Once
<1>4. Has(k, C) => Has(q, C) /\ keep
  BY <1>1, <1>2 DEF Once, Has
<1>5. Has(q, C) /\ keep => Has(k, C)
  BY <1>1, <1>2 DEF Once, Has
<1> QED BY <1>3, <1>4, <1>5 DEF k

\* The first task makes room for one or none; whether the rest holds another.
LEMMA OnceReplace ==
    ASSUME ClientTypeOK, mTaskQueue # <<>>, NEW C, NEW keep,
           Once(mTaskQueue, C, keep)
    PROVE  /\ ReplaceBy(<<>>) => /\ Once(mTaskQueue', C, keep)
                                 /\ Has(mTaskQueue', C)
                                       <=> Has(mTaskQueue, C) /\ This \notin C
           /\ \A t \in Task :
                 ReplaceBy(<<t>>) /\ (t \in C => t.keep = keep /\ This \in C)
                 => /\ Once(mTaskQueue', C, keep)
                    /\ Has(mTaskQueue', C)
                          <=> (Has(mTaskQueue, C) /\ This \notin C) \/ t \in C
<1>1. mTaskQueue \in Seq(Task)
  BY DEF ClientTypeOK
<1>2. /\ Others \in Seq(Task) /\ <<>> \o Others = Others
      /\ Once(Others, C, keep)
      /\ Has(mTaskQueue, C) <=> This \in C \/ Has(Others, C)
      /\ This \in C => ~Has(Others, C)
  BY <1>1, QueueTail, OnceTail DEF Others, This
<1>3. ASSUME NEW t \in Task, ReplaceBy(<<t>>), t \in C => t.keep = keep /\ This \in C
      PROVE  /\ Once(mTaskQueue', C, keep)
             /\ Has(mTaskQueue', C)
                   <=> (Has(mTaskQueue, C) /\ This \notin C) \/ t \in C
  <2>1. mTaskQueue' = <<t>> \o Others
    BY <1>3 DEF ReplaceBy
  <2>2. /\ Once(<<t>> \o Others, C, keep)
        /\ Has(<<t>> \o Others, C) <=> Has(Others, C) \/ t \in C
    BY <1>2, <1>3, OnceMore
  <2> QED BY <1>2, <2>1, <2>2
<1>4. ReplaceBy(<<>>) => mTaskQueue' = Others
  BY <1>2 DEF ReplaceBy
<1> QED BY <1>2, <1>3, <1>4

\* The tasks of a new connection: none of the class is lost but those that are
\* not KEEP_ME, and none is doubled if no callback has one in the queue.
LEMMA OnceReconnect ==
    ASSUME ClientTypeOK, connectMqtt, NEW C, NEW keep \in BOOLEAN,
           Once(mTaskQueue, C, keep), ~Has(ConnectTasks, C),
           \A s, t \in Subs :
               SubscribeTask(s) \in C /\ SubscribeTask(t) \in C => s = t,
           \A s \in callbacks :
               SubscribeTask(s) \in C => keep /\ ~Has(mTaskQueue, C)
    PROVE  /\ Once(mTaskQueue', C, keep)
           /\ Has(mTaskQueue', C) <=> \/ Has(mTaskQueue, C) /\ keep
                                      \/ \E s \in callbacks : SubscribeTask(s) \in C
<1>1. PICK order \in SetToSeqs(callbacks) :
         mTaskQueue' = ConnectTasks \o Kept(mTaskQueue) \o
                       [i \in DOMAIN order |-> SubscribeTask(order[i])]
  BY DEF connectMqtt
<1> DEFINE k == Kept(mTaskQueue)
           r == [i \in DOMAIN order |-> SubscribeTask(order[i])]
<1>2. mTaskQueue \in Seq(Task) /\ callbacks \subseteq Subs /\ IsFiniteSet(callbacks)
  BY DEF ClientTypeOK
<1>3. /\ k \in Seq(Task) /\ Once(k, C, keep)
      /\ Has(k, C) <=> Has(mTaskQueue, C) /\ keep
  BY <1>2, KeptIsQueue, OnceKept
<1>4. /\ order \in Seq(callbacks)
      /\ \A i, j \in DOMAIN order : order[i] = order[j] => i = j
      /\ \A i \in DOMAIN order : order[i] \in callbacks
      /\ \A s \in callbacks : \E i \in DOMAIN order : order[i] = s
  BY <1>2, OrderIsSeq, OrderIsAll
<1>5. /\ DOMAIN r = DOMAIN order
      /\ \A i \in DOMAIN order : r[i] = SubscribeTask(order[i])
  OBVIOUS
<1>6. r \in Seq(Task)
  <2>1. DOMAIN order = 1 .. Len(order) /\ Len(order) \in Nat
    BY <1>4
  <2>2. r \in [1 .. Len(order) -> Task]
    BY <1>2, <1>4, <2>1, TaskTypes
  <2> QED BY <2>1, <2>2
<1>7. mTaskQueue' = ConnectTasks \o k \o r
  BY <1>1
<1> HIDE DEF k, r
<1>8. Has(r, C) <=> \E s \in callbacks : SubscribeTask(s) \in C
  BY <1>4, <1>5 DEF Has
<1>9. Once(r, C, keep)
  <2>1. \A s \in Subs : SubscribeTask(s).keep = TRUE
    BY DEF SubscribeTask, MakeTask
  <2>2. ASSUME NEW i \in DOMAIN r, r[i] \in C PROVE r[i].keep = keep
    <3>1. order[i] \in callbacks /\ order[i] \in Subs /\ r[i] = SubscribeTask(order[i])
      BY <1>2, <1>4, <1>5
    <3>2. keep = TRUE
      BY <2>2, <3>1
    <3> QED BY <2>1, <3>1, <3>2
  <2>3. \A i, j \in DOMAIN r : r[i] \in C /\ r[j] \in C => i = j
    BY <1>2, <1>4, <1>5
  <2> QED BY <2>2, <2>3 DEF Once
<1>10. ~(Has(k, C) /\ Has(r, C))
  BY <1>3, <1>8
<1>11. /\ ConnectTasks \in Seq(Task) /\ Once(ConnectTasks, C, keep)
       /\ ~(Has(ConnectTasks, C) /\ Has(k, C))
  BY TaskTypes DEF Has, Once
<1>12. /\ ConnectTasks \o k \in Seq(Task) /\ Once(ConnectTasks \o k, C, keep)
       /\ Has(ConnectTasks \o k, C) <=> Has(k, C)
  BY <1>3, <1>11, OnceConcat, QueueConcat
<1>13. /\ Once((ConnectTasks \o k) \o r, C, keep)
       /\ Has((ConnectTasks \o k) \o r, C) <=> Has(k, C) \/ Has(r, C)
  <2> DEFINE ck == ConnectTasks \o k
  <2>1. ck \in Seq(Task) /\ Once(ck, C, keep) /\ ~(Has(ck, C) /\ Has(r, C))
    BY <1>10, <1>12
  <2> HIDE DEF ck
  <2>2. /\ Once(ck \o r, C, keep)
        /\ Has(ck \o r, C) <=> Has(ck, C) \/ Has(r, C)
    BY <1>6, <1>9, <2>1, OnceConcat
  <2> QED BY <1>12, <2>2 DEF ck
<1> QED BY <1>3, <1>7, <1>8, <1>13

-----------------------------------------------------------------------------
(* OnePing: there is at most one ping, it is not KEEP_ME, and the flag is   *)
(* set while there is one.                                                  *)

Pinging == {t \in Task : /\ t.kind \in {"prepare", "send"}
                         /\ t.req.type = "PINGREQ"}

PingInv == /\ Once(mTaskQueue, Pinging, FALSE)
           /\ Has(mTaskQueue, Pinging) => mPingIsScheduled

LEMMA PingingTasks ==
    /\ PingTask \in Pinging /\ PingTask.keep = FALSE
    /\ ~Has(ConnectTasks, Pinging)
    /\ \A t \in Task : t.kind \notin {"prepare", "send"} => t \notin Pinging
    /\ \A m \in Messages : PublishTask(m) \notin Pinging
    /\ \A s \in Subs : SubscribeTask(s) \notin Pinging
    /\ \A t \in Topics : UnsubscribeTask(t) \notin Pinging
    /\ DisconnectTask \notin Pinging
<1>1. ~Has(ConnectTasks, Pinging)
  BY DEF Has, ConnectTasks, Pinging, MakeTask, MakePacket
<1>2. PingTask \in Pinging /\ PingTask.keep = FALSE
  BY TaskTypes DEF PingTask, Pinging, MakeTask, MakePacket
<1> QED BY <1>1, <1>2
        DEF Pinging, PublishTask, SubscribeTask, UnsubscribeTask, DisconnectTask,
            MakeTask, MakePacket

\* Nothing has changed.
LEMMA PingKept ==
    ASSUME PingInv, UNCHANGED <<mTaskQueue, mPingIsScheduled>>
    PROVE  PingInv'
BY DEF PingInv, Once, Has, Pinging

\* PingInv of the next state, of what is known of its queue and its flag.
LEMMA PingMeans ==
    ASSUME Once(mTaskQueue', Pinging, FALSE),
           Has(mTaskQueue', Pinging) => mPingIsScheduled'
    PROVE  PingInv'
BY DEF PingInv, Once, Has, Pinging

LEMMA IdlePing ==
    ASSUME ClientTypeOK, PingInv
    PROVE  /\ Once(WithReceive, Pinging, FALSE)
           /\ Has(WithReceive, Pinging) <=> Has(mTaskQueue, Pinging)
           /\ IdleWork => PingInv'
<1>1. /\ mTaskQueue \in Seq(Task) /\ TaskTypeOK /\ CallTypeOK
      /\ WithReceive \in Seq(Task)
  BY ClientTypeParts, IdleWorkTypes DEF ClientTypeOK
<1>2. /\ Once(WithReceive, Pinging, FALSE)
      /\ Has(WithReceive, Pinging) <=> Has(mTaskQueue, Pinging)
  <2>1. RecvTask(NoPacket) \in Task /\ RecvTask(NoPacket) \notin Pinging
    BY PacketTypes, TaskTypes DEF RecvTask, MakeTask, Pinging
  <2>2. /\ Once(<<RecvTask(NoPacket)>> \o mTaskQueue, Pinging, FALSE)
        /\ Has(<<RecvTask(NoPacket)>> \o mTaskQueue, Pinging)
              <=> Has(mTaskQueue, Pinging)
    BY <1>1, <2>1, OnceMore DEF PingInv
  <2> QED BY <2>2 DEF WithReceive, PingInv
<1>3. ASSUME IdleWork PROVE PingInv'
  <2>1. CASE PingDue
    <3>1. ~Has(WithReceive, Pinging)
      BY <1>2, <2>1 DEF PingDue, PingInv
    <3>2. Once(Append(WithReceive, PingTask), Pinging, FALSE)
      BY <1>1, <1>2, <3>1, TaskTypes, PingingTasks, OnceMore
    <3> QED BY <1>3, <2>1, <3>2, PingMeans DEF IdleWork
  <2>2. CASE ~PingDue
    <3>1. mTaskQueue' = WithReceive /\ mPingIsScheduled' = mPingIsScheduled
      BY <1>1, <1>3, <2>2 DEF IdleWork, TaskTypeOK
    <3> QED BY <1>2, <3>1, PingMeans DEF PingInv
  <2> QED BY <2>1, <2>2
<1> QED BY <1>2, <1>3

LEMMA CatchPing ==
    ASSUME ClientTypeOK, PingInv, NEW tries, Catch(tries)
    PROVE  PingInv'
<1>1. mPingIsScheduled' = mPingIsScheduled
  BY DEF Catch
<1>2. CASE UNCHANGED <<mTaskQueue, callbacks>>
  BY <1>1, <1>2, PingKept
<1>3. CASE connectMqtt
  <2>1. callbacks \subseteq Subs
    BY DEF ClientTypeOK
  <2>2. Once(mTaskQueue', Pinging, FALSE) /\ ~Has(mTaskQueue', Pinging)
    BY <1>3, <2>1, PingingTasks, OnceReconnect DEF PingInv
  <2> QED BY <2>2, PingMeans
<1> QED BY <1>2, <1>3 DEF Catch

\* What a lambda of enqueueRecvPacketFront leaves in front.
LEMMA ReceivesTask ==
    ASSUME ClientTypeOK, TcpTypeOK, This \in Task, Receive
    PROVE  \E t \in Task : t.kind \in Receiving /\ ReplaceBy(<<t>>)
<1>1. This.kind \in Receiving
  BY DEF Receive, Running, This
<1>2. Head(inbox).pkt \in Packet
  <2>1. inbox \in Seq(InFlight) /\ inbox # <<>>
    BY DEF Receive, TcpRecv, isDataAvailable, TcpTypeOK
  <2>2. Head(inbox) \in InFlight
    BY <2>1
  <2> QED BY <2>2 DEF InFlight
<1>3. Completed(This, Head(inbox).pkt) \in Task
      /\ Completed(This, Head(inbox).pkt).kind \in Receiving
  BY <1>2, TaskTypes DEF Completed, Task, Receiving
<1> DEFINE more == [This EXCEPT !.kind = IF @ = "recvType" THEN "recvLength"
                                                           ELSE "recvBody"]
<1>4. more \in Task /\ more.kind \in Receiving
  BY DEF Task, TaskKinds, Receiving
<1>5. ReplaceBy(<<Completed(This, Head(inbox).pkt)>>) \/ ReplaceBy(<<more>>)
  BY DEF Receive
<1> HIDE DEF more
<1> QED BY <1>3, <1>4, <1>5

LEMMA PingTasks ==
    ASSUME ClientTypeOK, TcpTypeOK, QueueHasTask, PingInv, RunTask
    PROVE  PingInv'
<1>1. mTaskQueue # <<>> /\ This \in Task /\ This.req \in Outgoing
  BY RunsTask
<1>2. /\ Once(mTaskQueue, Pinging, FALSE)
      /\ Has(mTaskQueue, Pinging) => mPingIsScheduled
  BY DEF PingInv
<1> DEFINE Lowered == mPingIsScheduled' = mPingIsScheduled \/ This \in Pinging
<1>3. ASSUME ReplaceBy(<<>>), Lowered PROVE PingInv'
  <2>1. /\ Once(mTaskQueue', Pinging, FALSE)
        /\ Has(mTaskQueue', Pinging) <=> Has(mTaskQueue, Pinging) /\ This \notin Pinging
    BY <1>1, <1>2, <1>3, OnceReplace
  <2>2. ASSUME Has(mTaskQueue', Pinging) PROVE mPingIsScheduled'
    <3>1. mPingIsScheduled /\ This \notin Pinging
      BY <1>2, <2>1, <2>2
    <3>2. mPingIsScheduled' = mPingIsScheduled
      BY <1>3, <3>1
    <3> QED BY <3>1, <3>2
  <2> QED BY <2>1, <2>2, PingMeans
<1>4. ASSUME NEW t \in Task, t \notin Pinging, ReplaceBy(<<t>>), Lowered
      PROVE  PingInv'
  <2>1. /\ Once(mTaskQueue', Pinging, FALSE)
        /\ Has(mTaskQueue', Pinging)
              <=> (Has(mTaskQueue, Pinging) /\ This \notin Pinging) \/ t \in Pinging
    BY <1>1, <1>2, <1>4, OnceReplace
  <2>2. Has(mTaskQueue', Pinging) => mPingIsScheduled'
    BY <1>2, <1>4, <2>1
  <2> QED BY <2>1, <2>2, PingMeans
<1>5. ASSUME NEW t \in Task, t.keep = FALSE, This \in Pinging, ReplaceBy(<<t>>),
             mPingIsScheduled' = mPingIsScheduled
      PROVE  PingInv'
  <2>1. Has(mTaskQueue, Pinging)
    BY <1>1, <1>5, QueueTail DEF Has, This, ClientTypeOK
  <2>2. Once(mTaskQueue', Pinging, FALSE)
    BY <1>1, <1>2, <1>5, OnceReplace
  <2> QED BY <1>2, <1>5, <2>1, <2>2, PingMeans
<1>6. \A t \in Task : t.kind \notin {"prepare", "send"} => t \notin Pinging
  BY PingingTasks
<1> HIDE DEF Lowered
<1>7. UNCHANGED mPingIsScheduled => Lowered
  BY DEF Lowered
<1>8. UNCHANGED <<mTaskQueue, mPingIsScheduled>> => PingInv'
  BY PingKept
<1>9. \A tries : Catch(tries) => PingInv'
  BY CatchPing
\* A packet that is prepared, or the rest of one that is sent, takes the place
\* of the ping it is.
<1>10. ASSUME NEW t \in Task, t.kind = "send", t.keep = KeepSend(t.req) \/ ~t.keep,
              t.req.type = This.req.type, This.kind \in {"prepare", "send"},
              ReplaceBy(<<t>>), UNCHANGED mPingIsScheduled
       PROVE  PingInv'
  <2>1. CASE This.req.type = "PINGREQ"
    <3>1. This \in Pinging
      BY <1>1, <1>10, <2>1 DEF Pinging
    <3>2. t.keep = FALSE
      BY <1>10, <2>1 DEF KeepSend, Task
    <3> QED BY <1>5, <1>10, <3>1, <3>2
  <2>2. CASE This.req.type # "PINGREQ"
    <3>1. t \notin Pinging
      BY <1>10, <2>2 DEF Pinging
    <3> QED BY <1>4, <1>7, <1>10, <3>1
  <2> QED BY <2>1, <2>2
<1>11. CASE Repeat
  BY <1>8, <1>11 DEF Repeat, taskVars
<1>12. CASE TcpConnectOpens \/ CheckConnectDone \/ Handled
  BY <1>3, <1>7, <1>12 DEF TcpConnectOpens, CheckConnectDone, Handled
<1>13. CASE Prepare
  <2>1. ASSUME NEW p \in Outgoing, p.type = This.req.type, ReplaceBy(<<SendTask(p)>>)
        PROVE  PingInv'
    <3>1. /\ SendTask(p) \in Task /\ SendTask(p).kind = "send"
          /\ SendTask(p).keep = KeepSend(SendTask(p).req) /\ SendTask(p).req = p
      BY TaskTypes DEF SendTask, MakeTask
    <3>2. This.kind = "prepare" /\ UNCHANGED mPingIsScheduled
      BY <1>13 DEF Prepare, Running, This
    <3> QED BY <1>10, <2>1, <3>1, <3>2
  <2>2. [This.req EXCEPT !.id = mPacketIdentifierCounter] \in Outgoing
        /\ [This.req EXCEPT !.id = mPacketIdentifierCounter].type = This.req.type
    BY <1>1 DEF ClientTypeOK, Outgoing, Packet
  <2> QED BY <1>1, <1>13, <2>1, <2>2 DEF Prepare
<1>14. CASE SendAll
  <2>1. Lowered
    <3>1. CASE This.req.type = "PINGREQ"
      BY <1>1, <1>14, <3>1 DEF Lowered, SendAll, Running, This, Pinging
    <3>2. CASE This.req.type # "PINGREQ"
      BY <1>14, <3>2 DEF Lowered, SendAll, ClientTypeOK
    <3> QED BY <3>1, <3>2
  <2>2. RecvTask(This.req) \in Task /\ RecvTask(This.req) \notin Pinging
    BY <1>1, TaskTypes DEF RecvTask, MakeTask, Pinging
  <2> QED BY <1>3, <1>4, <1>14, <2>1, <2>2 DEF SendAll
<1>15. CASE SendDisconnect
  <2>1. mTaskQueue' = <<>>
    BY <1>15 DEF SendDisconnect
  <2> QED BY <2>1, PingMeans DEF Once, Has
<1>16. CASE SendPart \/ SendNone
  <2>1. ASSUME NEW written \in BOOLEAN, SendRest(written), This.kind = "send"
        PROVE  PingInv'
    <3>1. /\ RestTask(This.req, written) \in Task
          /\ RestTask(This.req, written).kind = "send"
          /\ ~RestTask(This.req, written).keep
          /\ RestTask(This.req, written).req = This.req
      BY <1>1, TaskTypes DEF RestTask, KeepRemainder
    <3> QED BY <1>10, <2>1, <3>1 DEF SendRest
  <2> QED BY <1>1, <1>16, <2>1 DEF SendPart, SendNone, Task, Running, This
<1>17. CASE Receive
  <2>1. PICK t \in Task : t.kind \in Receiving /\ ReplaceBy(<<t>>)
    BY <1>1, <1>17, ReceivesTask
  <2>2. t \notin Pinging
    BY <2>1 DEF Pinging, Receiving
  <2> QED BY <1>4, <1>7, <1>17, <2>1, <2>2 DEF Receive
<1>18. CASE Dispatch \/ HandleConnack
  BY <1>8, <1>18 DEF Dispatch, HandleConnack
<1>19. CASE Dispatched
  <2>1. RecvTask(This.req) \in Task /\ RecvTask(This.req) \notin Pinging
    BY <1>1, TaskTypes DEF RecvTask, MakeTask, Pinging
  <2> QED BY <1>3, <1>4, <1>7, <1>19, <2>1 DEF Dispatched
<1>20. CASE Deliver
  <2>1. HandleTask(This) \in Task /\ HandleTask(This) \notin Pinging
    BY <1>1, TaskTypes DEF HandleTask, Task, Pinging
  <2> QED BY <1>3, <1>4, <1>7, <1>20, <2>1 DEF Deliver
<1>21. CASE \E tries : Catch(tries)
  BY <1>9, <1>21
<1> QED BY <1>11, <1>12, <1>13, <1>14, <1>15, <1>16, <1>17, <1>18, <1>19, <1>20,
           <1>21
        DEF RunTask, TcpConnectWaits, TcpConnectThrows, CheckConnectRepeats,
            CheckConnectThrows, SendThrows, ReceiveNone, ReceiveThrows,
            HandleViolation, HandleRefusal, CallbackThrows

LEMMA PingStep ==
    ASSUME TypeInv, PingInv, [Next]_vars
    PROVE  PingInv'
<1>1. /\ ClientTypeOK /\ TcpTypeOK /\ mTaskQueue \in Seq(Task) /\ QueueHasTask
      /\ Once(mTaskQueue, Pinging, FALSE)
      /\ Has(mTaskQueue, Pinging) => mPingIsScheduled
  BY DEF TypeInv, TypeOK, ClientTypeOK, PingInv
<1>2. UNCHANGED <<mTaskQueue, mPingIsScheduled>> => PingInv'
  BY PingKept
<1>3. CASE Application
  <2>1. ASSUME NEW task \in Task, task \notin Pinging, Enqueue(task)
        PROVE  PingInv'
    <3>1. /\ Once(Append(mTaskQueue, task), Pinging, FALSE)
          /\ Has(Append(mTaskQueue, task), Pinging) <=> Has(mTaskQueue, Pinging)
      BY <1>1, <2>1, OnceMore
    <3> QED BY <1>1, <2>1, <3>1, PingMeans DEF Enqueue
  <2> QED BY <1>3, <2>1, TaskTypes, PingingTasks
          DEF Application, publish, subscribe, unsubscribe, disconnect
<1>4. CASE LoopCall \/ BlockPoll \/ WhileDone
  BY <1>2, <1>4 DEF LoopCall, BlockPoll, WhileDone, taskVars
<1>5. CASE BlockSkip
  <2>1. CASE mTaskQueue' = WithReceive
    BY <1>1, <1>5, <2>1, IdlePing, PingMeans DEF BlockSkip, PingInv
  <2>2. CASE UNCHANGED mTaskQueue
    BY <1>2, <1>5, <2>2 DEF BlockSkip
  <2> QED BY <1>5, <2>1, <2>2 DEF BlockSkip
<1>6. CASE BlockIdle \/ PollData \/ PollTimeout \/ WhileTask
  BY <1>1, <1>6, IdlePing DEF BlockIdle, PollData, PollTimeout, WhileTask
<1>7. CASE PollThrows
  BY <1>1, <1>7, CatchPing DEF PollThrows
<1>8. CASE RunTask
  BY <1>1, <1>8, PingTasks
<1>9. CASE DelayElapses \/ UNCHANGED clientVars \/ UNCHANGED vars
  BY <1>2, <1>9 DEF DelayElapses, clientVars, taskVars, vars
<1> QED BY <1>3, <1>4, <1>5, <1>6, <1>7, <1>8, <1>9 DEF Next, Loop

\* At most one PINGREQ is queued, and mPingIsScheduled is set while it is,
\* however often the connection is replaced: the ping of the old connection is
\* DELETE_ME, and no second one is enqueued while the flag is set.
THEOREM OnePingCorrect == Spec => []OnePing
<1>1. Init => PingInv
  <2> SUFFICES ASSUME Init PROVE PingInv
    OBVIOUS
  <2>1. mTaskQueue = ConnectTasks
    BY DEF Init, ClientInit
  <2> QED BY <2>1, PingingTasks DEF PingInv, Once, Has
<1>2. TypeInv /\ PingInv /\ [Next]_vars => PingInv'
  BY PingStep
<1>3. TypeInv /\ PingInv => OnePing
  <2> SUFFICES ASSUME TypeInv, PingInv PROVE OnePing
    OBVIOUS
  <2>1. \A i \in DOMAIN mTaskQueue : mTaskQueue[i] \in Task
    BY DEF TypeInv, TypeOK, ClientTypeOK
  <2>2. Pings = {i \in DOMAIN mTaskQueue : mTaskQueue[i] \in Pinging}
    BY <2>1 DEF Pings, Pinging
  <2>3. CASE Pings = {}
    BY <2>3, FS_EmptySet DEF OnePing
  <2>4. CASE Pings # {}
    <3>1. PICK i : i \in Pings
      BY <2>4
    <3>2. Pings = {i}
      BY <2>2, <3>1 DEF PingInv, Once
    <3>3. Cardinality(Pings) = 1
      BY <3>2, FS_Singleton
    <3>4. mPingIsScheduled
      BY <2>2, <3>1 DEF PingInv, Has
    <3> QED BY <3>3, <3>4 DEF OnePing
  <2> QED BY <2>3, <2>4
<1> QED BY <1>1, <1>2, <1>3, TypeInvCorrect, PTL DEF Spec

-----------------------------------------------------------------------------
(* SubscriptionKept: the SUBSCRIBE of a subscribe() call is KEEP_ME, and it is *)
(* queued while the callback is not registered, and only then.                 *)

Subscribing(s) == {t \in Task : /\ t.kind = "prepare"
                                /\ t.req.type = "SUBSCRIBE"
                                /\ t.req.arg = s}

SubInv(s) ==
    /\ Once(mTaskQueue, Subscribing(s), TRUE)
    /\ s \in callbacks => s \in subscribed /\ ~Has(mTaskQueue, Subscribing(s))
    /\ Has(mTaskQueue, Subscribing(s)) => s \in subscribed
    /\ ~mDisconnected /\ s \in subscribed \ cancelled
          => s \in callbacks \/ Has(mTaskQueue, Subscribing(s))

LEMMA SubscribingTasks ==
    /\ \A s \in Subs : /\ SubscribeTask(s) \in Subscribing(s)
                       /\ ~Has(ConnectTasks, Subscribing(s))
                       /\ PingTask \notin Subscribing(s)
                       /\ DisconnectTask \notin Subscribing(s)
                       /\ \A m \in Messages : PublishTask(m) \notin Subscribing(s)
                       /\ \A t \in Topics : UnsubscribeTask(t) \notin Subscribing(s)
                       /\ \A t \in Task : t.kind # "prepare" => t \notin Subscribing(s)
    /\ \A s, t \in Subs : SubscribeTask(t) \in Subscribing(s) => t = s
    /\ \A s \in Subs : SubscribeTask(s).keep = TRUE
<1>1. \A s \in Subs : ~Has(ConnectTasks, Subscribing(s))
  BY DEF Has, ConnectTasks, Subscribing, MakeTask, MakePacket
<1>2. \A s \in Subs : SubscribeTask(s) \in Subscribing(s)
  BY TaskTypes DEF SubscribeTask, Subscribing, MakeTask, MakePacket
<1> QED BY <1>1, <1>2
        DEF Subscribing, PingTask, PublishTask, SubscribeTask, UnsubscribeTask,
            DisconnectTask, MakeTask, MakePacket

\* A step that changes nothing as far as the call s is concerned.
LEMMA SubSame ==
    ASSUME NEW s \in Subs, SubInv(s), Once(mTaskQueue', Subscribing(s), TRUE),
           Has(mTaskQueue', Subscribing(s)) <=> Has(mTaskQueue, Subscribing(s)),
           s \in callbacks' <=> s \in callbacks,
           s \in subscribed' <=> s \in subscribed,
           s \in cancelled => s \in cancelled',
           mDisconnected' = mDisconnected
    PROVE  SubInv(s)'
BY DEF SubInv, Once, Has, Subscribing

LEMMA SubKept ==
    ASSUME NEW s \in Subs, SubInv(s),
           UNCHANGED <<mTaskQueue, callbacks, subscribed, cancelled, mDisconnected>>
    PROVE  SubInv(s)'
BY DEF SubInv, Once, Has, Subscribing

\* SubInv of the next state, of what is known of its queue.
LEMMA SubMeans ==
    ASSUME NEW s \in Subs, Once(mTaskQueue', Subscribing(s), TRUE),
           s \in callbacks' => s \in subscribed' /\ ~Has(mTaskQueue', Subscribing(s)),
           Has(mTaskQueue', Subscribing(s)) => s \in subscribed',
           ~mDisconnected' /\ s \in subscribed' \ cancelled'
              => s \in callbacks' \/ Has(mTaskQueue', Subscribing(s))
    PROVE  SubInv(s)'
BY DEF SubInv, Once, Has, Subscribing

LEMMA IdleSub ==
    ASSUME ClientTypeOK, NEW s \in Subs, SubInv(s)
    PROVE  /\ Once(WithReceive, Subscribing(s), TRUE)
           /\ Has(WithReceive, Subscribing(s)) <=> Has(mTaskQueue, Subscribing(s))
           /\ IdleWork => SubInv(s)'
<1> DEFINE C == Subscribing(s)
<1>1. /\ mTaskQueue \in Seq(Task) /\ TaskTypeOK /\ CallTypeOK
      /\ WithReceive \in Seq(Task) /\ PingTask \in Task /\ PingTask \notin C
  BY ClientTypeParts, IdleWorkTypes, TaskTypes, SubscribingTasks DEF ClientTypeOK
<1>2. Once(WithReceive, C, TRUE) /\ (Has(WithReceive, C) <=> Has(mTaskQueue, C))
  <2>1. RecvTask(NoPacket) \in Task /\ RecvTask(NoPacket) \notin C
    BY PacketTypes, TaskTypes DEF RecvTask, MakeTask, Subscribing
  <2>2. /\ Once(<<RecvTask(NoPacket)>> \o mTaskQueue, C, TRUE)
        /\ Has(<<RecvTask(NoPacket)>> \o mTaskQueue, C) <=> Has(mTaskQueue, C)
    BY <1>1, <2>1, OnceMore DEF SubInv
  <2> QED BY <2>2 DEF WithReceive, SubInv
<1> HIDE DEF C
<1>3. ASSUME IdleWork PROVE SubInv(s)'
  <2>1. /\ Once(Append(WithReceive, PingTask), C, TRUE)
        /\ Has(Append(WithReceive, PingTask), C) <=> Has(mTaskQueue, C)
    BY <1>1, <1>2, OnceMore
  <2>2. mTaskQueue' = WithReceive \/ mTaskQueue' = Append(WithReceive, PingTask)
    BY <1>3 DEF IdleWork
  <2>3. Once(mTaskQueue', C, TRUE) /\ (Has(mTaskQueue', C) <=> Has(mTaskQueue, C))
    BY <1>2, <2>1, <2>2
  <2>4. UNCHANGED <<callbacks, subscribed, cancelled, mDisconnected>>
    BY <1>3 DEF IdleWork, callVars
  <2> QED BY <2>3, <2>4, SubSame DEF C
<1> QED BY <1>2, <1>3 DEF C

\* The call was registered or queued, and is queued for the new connection.
LEMMA CatchSub ==
    ASSUME ClientTypeOK, NEW s \in Subs, SubInv(s), NEW tries, Catch(tries)
    PROVE  SubInv(s)'
<1>1. UNCHANGED <<subscribed, cancelled, mDisconnected>>
  BY DEF Catch, callVars
<1>2. CASE UNCHANGED <<mTaskQueue, callbacks>>
  BY <1>1, <1>2, SubKept
<1>3. CASE connectMqtt
  <2> DEFINE C == Subscribing(s)
  <2>1. callbacks \subseteq Subs
    BY DEF ClientTypeOK
  <2>2. /\ Once(mTaskQueue, C, TRUE) /\ ~Has(ConnectTasks, C)
        /\ s \in callbacks => ~Has(mTaskQueue, C)
        /\ \A t \in Subs : SubscribeTask(t) \in C <=> t = s
    BY SubscribingTasks DEF SubInv
  <2> HIDE DEF C
  <2>3. /\ \A t, u \in Subs : SubscribeTask(t) \in C /\ SubscribeTask(u) \in C => t = u
        /\ \A t \in callbacks : SubscribeTask(t) \in C => TRUE /\ ~Has(mTaskQueue, C)
    BY <2>1, <2>2
  <2>4. /\ Once(mTaskQueue', C, TRUE)
        /\ Has(mTaskQueue', C) <=> \/ Has(mTaskQueue, C) /\ TRUE
                                   \/ \E t \in callbacks : SubscribeTask(t) \in C
    BY <1>3, <2>2, <2>3, OnceReconnect
  <2>5. Has(mTaskQueue', C) <=> Has(mTaskQueue, C) \/ s \in callbacks
    BY <2>1, <2>2, <2>4
  <2>6. callbacks' = {}
    BY <1>3 DEF connectMqtt
  <2>7. Has(mTaskQueue', C) => s \in subscribed'
    BY <1>1, <2>5 DEF SubInv, C
  <2>8. ~mDisconnected' /\ s \in subscribed' \ cancelled' => Has(mTaskQueue', C)
    BY <1>1, <2>5 DEF SubInv, C
  <2> QED BY <2>4, <2>6, <2>7, <2>8, SubMeans DEF C
<1> QED BY <1>2, <1>3 DEF Catch

LEMMA SubTasks ==
    ASSUME ClientTypeOK, TcpTypeOK, QueueHasTask, RunTask, NEW s \in Subs, SubInv(s)
    PROVE  SubInv(s)'
<1> DEFINE C == Subscribing(s)
<1>1. mTaskQueue # <<>> /\ This \in Task /\ This.req \in Outgoing
  BY RunsTask
<1>2. Once(mTaskQueue, C, TRUE)
  BY DEF SubInv
<1>3. \A t \in Task : t.kind # "prepare" => t \notin C
  BY SubscribingTasks
<1> DEFINE Same == UNCHANGED <<callbacks, subscribed, cancelled, mDisconnected>>
<1> HIDE DEF C
\* A task that is no SUBSCRIBE makes room for none, or for one that is none.
<1>4. ASSUME This.kind # "prepare", ReplaceBy(<<>>), Same PROVE SubInv(s)'
  <2>1. /\ Once(mTaskQueue', C, TRUE)
        /\ Has(mTaskQueue', C) <=> Has(mTaskQueue, C) /\ This \notin C
    BY <1>1, <1>2, <1>4, OnceReplace
  <2>2. This \notin C
    BY <1>1, <1>3, <1>4
  <2> QED BY <1>4, <2>1, <2>2, SubSame DEF C
<1>5. ASSUME NEW t \in Task, t.kind # "prepare", This \notin C, ReplaceBy(<<t>>), Same
      PROVE  SubInv(s)'
  <2>1. t \notin C
    BY <1>3, <1>5
  <2>2. /\ Once(mTaskQueue', C, TRUE)
        /\ Has(mTaskQueue', C) <=> (Has(mTaskQueue, C) /\ This \notin C) \/ t \in C
    BY <1>1, <1>2, <1>5, <2>1, OnceReplace
  <2> QED BY <1>5, <2>1, <2>2, SubSame DEF C
<1>6. UNCHANGED mTaskQueue /\ Same => SubInv(s)'
  BY SubKept
<1> HIDE DEF Same
<1>7. UNCHANGED <<callbacks, mDisconnected, callVars>> => Same
  BY DEF callVars, Same
<1>8. \A tries : Catch(tries) => SubInv(s)'
  BY CatchSub
<1>9. CASE Repeat
  BY <1>6, <1>7, <1>9 DEF Repeat, taskVars
<1>10. CASE TcpConnectOpens \/ CheckConnectDone \/ Handled
  <2>1. This.kind # "prepare"
    BY <1>10 DEF TcpConnectOpens, CheckConnectDone, Handled, Running, InOnConnect, This
  <2> QED BY <1>4, <1>7, <1>10, <2>1 DEF TcpConnectOpens, CheckConnectDone, Handled
\* The callback is registered when its SUBSCRIBE leaves the queue.
<1>11. CASE Prepare
  <2> DEFINE p == IF Numbered(This.req)
                  THEN [This.req EXCEPT !.id = mPacketIdentifierCounter] ELSE This.req
  <2>1. p \in Outgoing
    BY <1>1 DEF ClientTypeOK, Outgoing, Packet
  <2>2. ReplaceBy(<<SendTask(p)>>)
    BY <1>11 DEF Prepare
  <2>3. SendTask(p) \in Task /\ SendTask(p).kind # "prepare"
    <3> HIDE DEF p
    <3> QED BY <2>1, TaskTypes DEF SendTask, MakeTask
  <2> HIDE DEF p
  <2>4. This.kind = "prepare" /\ UNCHANGED <<callVars, mDisconnected>>
    BY <1>11 DEF Prepare, Running, This
  <2>5. CASE This \in C
    <3>1. This.req.type = "SUBSCRIBE" /\ This.req.arg = s
      BY <2>5 DEF C, Subscribing
    <3>2. callbacks' = callbacks \cup {s}
      BY <1>11, <3>1 DEF Prepare, Numbered
    <3>3. Has(mTaskQueue, C)
      BY <1>1, <2>5, QueueTail DEF Has, This, ClientTypeOK
    <3>4. Once(mTaskQueue', C, TRUE) /\ ~Has(mTaskQueue', C)
      BY <1>1, <1>2, <1>3, <2>2, <2>3, <2>5, OnceReplace
    <3>5. s \in callbacks' /\ s \in subscribed'
      BY <2>4, <3>2, <3>3 DEF SubInv, C, callVars
    <3> QED BY <3>4, <3>5, SubMeans DEF C
  <2>6. CASE This \notin C
    <3>1. ~(This.req.type = "SUBSCRIBE" /\ This.req.arg = s)
      BY <1>1, <2>4, <2>6 DEF C, Subscribing
    <3>2. s \in callbacks' <=> s \in callbacks
      BY <1>11, <3>1 DEF Prepare
    <3>3. SendTask(p) \notin C
      BY <1>3, <2>3
    <3>4. /\ Once(mTaskQueue', C, TRUE)
          /\ Has(mTaskQueue', C)
                <=> (Has(mTaskQueue, C) /\ This \notin C) \/ SendTask(p) \in C
      BY <1>1, <1>2, <2>2, <2>3, <3>3, OnceReplace
    <3>5. Has(mTaskQueue', C) <=> Has(mTaskQueue, C)
      BY <2>6, <3>3, <3>4
    <3> QED BY <2>4, <3>2, <3>4, <3>5, SubSame DEF C, callVars
  <2> QED BY <2>5, <2>6
<1>12. CASE SendAll
  <2>1. This.kind # "prepare" /\ This \notin C
    BY <1>1, <1>3, <1>12 DEF SendAll, Running, This
  <2>2. RecvTask(This.req) \in Task /\ RecvTask(This.req).kind # "prepare"
    BY <1>1, TaskTypes DEF RecvTask, MakeTask
  <2> QED BY <1>4, <1>5, <1>7, <1>12, <2>1, <2>2 DEF SendAll
<1>13. CASE SendDisconnect
  <2>1. /\ mTaskQueue' = <<>> /\ mDisconnected'
        /\ UNCHANGED <<callbacks, subscribed>>
    BY <1>13 DEF SendDisconnect, callVars
  <2>2. Once(mTaskQueue', C, TRUE) /\ ~Has(mTaskQueue', C)
    BY <2>1 DEF Once, Has
  <2>3. s \in callbacks' => s \in subscribed'
    BY <2>1 DEF SubInv
  <2> QED BY <2>1, <2>2, <2>3, SubMeans DEF C
<1>14. CASE SendPart \/ SendNone
  <2>1. This.kind # "prepare" /\ This \notin C /\ This.rest \in BOOLEAN
    BY <1>1, <1>3, <1>14 DEF SendPart, SendNone, Running, This, Task
  <2>2. ASSUME NEW written \in BOOLEAN, SendRest(written)
        PROVE  SubInv(s)'
    <3>1. /\ RestTask(This.req, written) \in Task
          /\ RestTask(This.req, written).kind # "prepare"
      BY <1>1, TaskTypes DEF RestTask
    <3> QED BY <1>5, <1>7, <2>1, <2>2, <3>1 DEF SendRest
  <2> QED BY <1>14, <2>1, <2>2 DEF SendPart, SendNone
<1>15. CASE Receive
  <2>1. PICK t \in Task : t.kind \in Receiving /\ ReplaceBy(<<t>>)
    BY <1>1, <1>15, ReceivesTask
  <2>2. t.kind # "prepare" /\ This.kind # "prepare" /\ This \notin C
    BY <1>1, <1>3, <1>15, <2>1 DEF Receive, Receiving, Running, This
  <2> QED BY <1>5, <1>7, <1>15, <2>1, <2>2 DEF Receive
<1>16. CASE Dispatch \/ HandleConnack
  BY <1>6, <1>7, <1>16 DEF Dispatch, HandleConnack
<1>17. CASE Dispatched
  <2>1. This.kind # "prepare" /\ This \notin C
    BY <1>1, <1>3, <1>17 DEF Dispatched, This
  <2>2. RecvTask(This.req) \in Task /\ RecvTask(This.req).kind # "prepare"
    BY <1>1, TaskTypes DEF RecvTask, MakeTask
  <2> QED BY <1>4, <1>5, <1>7, <1>17, <2>1, <2>2 DEF Dispatched
<1>18. CASE Deliver
  <2>1. This.kind # "prepare" /\ This \notin C
    BY <1>1, <1>3, <1>18 DEF Deliver, Running, This
  <2>2. HandleTask(This) \in Task /\ HandleTask(This).kind # "prepare"
    BY <1>1, TaskTypes DEF HandleTask, Task
  <2> QED BY <1>4, <1>5, <1>7, <1>18, <2>1, <2>2 DEF Deliver
<1>19. CASE \E tries : Catch(tries)
  BY <1>8, <1>19
<1> QED BY <1>9, <1>10, <1>11, <1>12, <1>13, <1>14, <1>15, <1>16, <1>17, <1>18,
           <1>19
        DEF RunTask, TcpConnectWaits, TcpConnectThrows, CheckConnectRepeats,
            CheckConnectThrows, SendThrows, ReceiveNone, ReceiveThrows,
            HandleViolation, HandleRefusal, CallbackThrows

\* A call of the application appends the SUBSCRIBE of one call, which was not
\* queued, or a task that is no SUBSCRIBE.
LEMMA SubCalls ==
    ASSUME ClientTypeOK, Application, NEW s \in Subs, SubInv(s)
    PROVE  SubInv(s)'
<1> DEFINE C == Subscribing(s)
<1>1. mTaskQueue \in Seq(Task) /\ Once(mTaskQueue, C, TRUE)
  BY DEF ClientTypeOK, SubInv
<1> HIDE DEF C
<1>2. ASSUME NEW task \in Task, task \notin C, Enqueue(task)
      PROVE  Once(mTaskQueue', C, TRUE) /\ (Has(mTaskQueue', C) <=> Has(mTaskQueue, C))
  <2>1. /\ Once(Append(mTaskQueue, task), C, TRUE)
        /\ Has(Append(mTaskQueue, task), C) <=> Has(mTaskQueue, C)
    BY <1>1, <1>2, OnceMore
  <2> QED BY <1>2, <2>1 DEF Enqueue
<1>3. ASSUME NEW m \in Messages, publish(m) PROVE SubInv(s)'
  <2>1. PublishTask(m) \in Task /\ PublishTask(m) \notin C /\ Enqueue(PublishTask(m))
    BY <1>3, TaskTypes, SubscribingTasks DEF publish, C
  <2> QED BY <1>2, <1>3, <2>1, SubSame DEF publish, Enqueue, C
<1>4. ASSUME NEW t \in Subs, subscribe(t) PROVE SubInv(s)'
  <2>1. SubscribeTask(t) \in Task /\ Enqueue(SubscribeTask(t))
    BY <1>4, TaskTypes DEF subscribe
  <2>2. CASE t # s
    <3>1. SubscribeTask(t) \notin C
      BY <2>2, SubscribingTasks DEF C
    <3> QED BY <1>2, <1>4, <2>1, <2>2, <3>1, SubSame DEF subscribe, Enqueue, C
  <2>3. CASE t = s
    <3>1. ~Has(mTaskQueue, C) /\ s \notin callbacks
      BY <1>4, <2>3 DEF subscribe, SubInv, C
    <3>2. SubscribeTask(s) \in C /\ SubscribeTask(s).keep = TRUE
      BY SubscribingTasks DEF C
    <3>3. /\ Once(Append(mTaskQueue, SubscribeTask(s)), C, TRUE)
          /\ Has(Append(mTaskQueue, SubscribeTask(s)), C)
      BY <1>1, <2>1, <2>3, <3>1, <3>2, OnceMore
    <3>4. /\ mTaskQueue' = Append(mTaskQueue, SubscribeTask(s))
          /\ UNCHANGED callbacks /\ s \in subscribed'
      BY <1>4, <2>1, <2>3 DEF subscribe, Enqueue
    <3> QED BY <3>1, <3>3, <3>4, SubMeans DEF C
  <2> QED BY <2>2, <2>3
<1>5. ASSUME NEW t \in Topics, unsubscribe(t) PROVE SubInv(s)'
  <2>1. /\ UnsubscribeTask(t) \in Task /\ UnsubscribeTask(t) \notin C
        /\ Enqueue(UnsubscribeTask(t))
    BY <1>5, TaskTypes, SubscribingTasks DEF unsubscribe, C
  <2>2. Once(mTaskQueue', C, TRUE) /\ (Has(mTaskQueue', C) <=> Has(mTaskQueue, C))
    BY <1>2, <2>1
  <2>3. /\ callbacks' = callbacks \ Matching(t) /\ UNCHANGED <<subscribed, mDisconnected>>
        /\ cancelled' = cancelled \cup {u \in subscribed : TopicOf[u] = t}
    BY <1>5 DEF unsubscribe, Enqueue
  <2>4. s \in callbacks' => s \in subscribed' /\ ~Has(mTaskQueue', C)
    BY <2>2, <2>3 DEF SubInv, C
  <2>5. Has(mTaskQueue', C) => s \in subscribed'
    BY <2>2, <2>3 DEF SubInv, C
  <2>6. ASSUME ~mDisconnected', s \in subscribed' \ cancelled'
        PROVE  s \in callbacks' \/ Has(mTaskQueue', C)
    <3>1. TopicOf[s] # t /\ s \in subscribed \ cancelled /\ ~mDisconnected
      BY <2>3, <2>6
    <3>2. s \in callbacks \/ Has(mTaskQueue, C)
      BY <3>1 DEF SubInv, C
    <3> QED BY <2>2, <2>3, <3>1, <3>2 DEF Matching
  <2> QED BY <2>2, <2>4, <2>5, <2>6, SubMeans DEF C
<1>6. CASE disconnect
  <2>1. /\ DisconnectTask \in Task /\ DisconnectTask \notin C
        /\ Enqueue(DisconnectTask)
    BY <1>6, TaskTypes, SubscribingTasks DEF disconnect, C
  <2> QED BY <1>2, <1>6, <2>1, SubSame DEF disconnect, Enqueue, C
<1> QED BY <1>3, <1>4, <1>5, <1>6 DEF Application

LEMMA SubStep ==
    ASSUME TypeInv, [Next]_vars, NEW s \in Subs, SubInv(s)
    PROVE  SubInv(s)'
<1>1. ClientTypeOK /\ TcpTypeOK /\ QueueHasTask
  BY DEF TypeInv, TypeOK
<1>2. UNCHANGED <<taskVars, callVars>> => SubInv(s)'
  BY SubKept DEF taskVars, callVars
<1>3. CASE Application
  BY <1>1, <1>3, SubCalls
<1>4. CASE LoopCall \/ BlockPoll \/ WhileDone
  BY <1>2, <1>4 DEF LoopCall, BlockPoll, WhileDone
<1>5. CASE BlockSkip
  <2>1. UNCHANGED <<callbacks, subscribed, cancelled, mDisconnected>>
    BY <1>5 DEF BlockSkip, callVars
  <2>2. CASE mTaskQueue' = WithReceive
    BY <1>1, <2>1, <2>2, IdleSub, SubSame
  <2>3. CASE UNCHANGED mTaskQueue
    BY <2>1, <2>3, SubKept
  <2> QED BY <1>5, <2>2, <2>3 DEF BlockSkip
<1>6. CASE BlockIdle \/ PollData \/ PollTimeout \/ WhileTask
  BY <1>1, <1>6, IdleSub DEF BlockIdle, PollData, PollTimeout, WhileTask
<1>7. CASE PollThrows
  BY <1>1, <1>7, CatchSub DEF PollThrows
<1>8. CASE RunTask
  BY <1>1, <1>8, SubTasks
<1>9. CASE DelayElapses
  BY <1>9, SubKept DEF DelayElapses, callVars
<1>10. CASE UNCHANGED clientVars \/ UNCHANGED vars
  BY <1>2, <1>10 DEF clientVars, vars
<1> QED BY <1>3, <1>4, <1>5, <1>6, <1>7, <1>8, <1>9, <1>10 DEF Next, Loop

\* Whatever breaks, and however often the client reconnects, a subscribe() call
\* that no unsubscribe() has revoked is registered or its SUBSCRIBE is queued,
\* never both, and the SUBSCRIBE never twice.
THEOREM SubscriptionKeptCorrect == Spec => []SubscriptionKept
<1> DEFINE Inv == \A s \in Subs : SubInv(s)
<1>1. Init => Inv
  <2> SUFFICES ASSUME Init, NEW s \in Subs PROVE SubInv(s)
    OBVIOUS
  <2>1. /\ mTaskQueue = ConnectTasks /\ callbacks = {} /\ subscribed = {}
    BY DEF Init, ClientInit
  <2> QED BY <2>1, SubscribingTasks DEF SubInv, Once, Has
<1>2. TypeInv /\ Inv /\ [Next]_vars => Inv'
  BY SubStep
<1>3. TypeInv /\ Inv => SubscriptionKept
  <2> SUFFICES ASSUME TypeInv, Inv, ~mDisconnected, NEW s \in subscribed \ cancelled
               PROVE  Cardinality(QueuedSubscribes(s)) = IF s \in callbacks THEN 0 ELSE 1
    BY DEF SubscriptionKept
  <2>1. /\ \A i \in DOMAIN mTaskQueue : mTaskQueue[i] \in Task
        /\ s \in Subs
    BY DEF TypeInv, TypeOK, ClientTypeOK
  <2>2. QueuedSubscribes(s) = {i \in DOMAIN mTaskQueue : mTaskQueue[i] \in Subscribing(s)}
    BY <2>1 DEF QueuedSubscribes, Subscribing
  <2>3. SubInv(s)
    BY <2>1
  <2>4. CASE s \in callbacks
    <3>1. QueuedSubscribes(s) = {}
      BY <2>2, <2>3, <2>4 DEF SubInv, Has
    <3> QED BY <2>4, <3>1, FS_EmptySet
  <2>5. CASE s \notin callbacks
    <3>1. PICK i \in DOMAIN mTaskQueue : mTaskQueue[i] \in Subscribing(s)
      BY <2>3, <2>5 DEF SubInv, Has
    <3>2. QueuedSubscribes(s) = {i}
      BY <2>2, <2>3, <3>1 DEF SubInv, Once
    <3> QED BY <2>5, <3>2, FS_Singleton
  <2> QED BY <2>4, <2>5
<1> HIDE DEF Inv
<1> QED BY <1>1, <1>2, <1>3, TypeInvCorrect, PTL DEF Spec

-----------------------------------------------------------------------------
(* Messages: what is on its way is accepted, and never in front of, or twice *)
(* beside, what it was published behind.                                     *)

\* The PUBLISH packets of r are among those of s, in the same order.
Thins(r, s) ==
    \E h \in [PublishAt(r) -> PublishAt(s)] :
        /\ \A i, j \in PublishAt(r) : i < j => h[i] < h[j]
        /\ \A i \in PublishAt(r) : s[h[i]] = r[i]

LEMMA ThinsSame ==
    ASSUME NEW s
    PROVE  Thins(s, s)
<1> DEFINE h == [i \in PublishAt(s) |-> i]
<1>1. /\ h \in [PublishAt(s) -> PublishAt(s)]
      /\ \A i, j \in PublishAt(s) : i < j => h[i] < h[j]
      /\ \A i \in PublishAt(s) : s[h[i]] = s[i]
  OBVIOUS
<1> HIDE DEF h
<1> QED BY <1>1 DEF Thins

LEMMA ThinsNone ==
    ASSUME NEW r, NEW s, \A i \in DOMAIN r : r[i].type # "PUBLISH"
    PROVE  Thins(r, s)
<1>1. PublishAt(r) = {}
  BY DEF PublishAt
<1> DEFINE h == [i \in {} |-> i]
<1>2. h \in [{} -> PublishAt(s)]
  OBVIOUS
<1> QED BY <1>1, <1>2 DEF Thins

LEMMA ThinsAgain ==
    ASSUME NEW r, NEW s, NEW t, Thins(r, s), Thins(s, t)
    PROVE  Thins(r, t)
<1>1. PICK g \in [PublishAt(r) -> PublishAt(s)] :
         /\ \A i, j \in PublishAt(r) : i < j => g[i] < g[j]
         /\ \A i \in PublishAt(r) : s[g[i]] = r[i]
  BY DEF Thins
<1>2. PICK h \in [PublishAt(s) -> PublishAt(t)] :
         /\ \A i, j \in PublishAt(s) : i < j => h[i] < h[j]
         /\ \A i \in PublishAt(s) : t[h[i]] = s[i]
  BY DEF Thins
<1> DEFINE f == [i \in PublishAt(r) |-> h[g[i]]]
<1>3. /\ f \in [PublishAt(r) -> PublishAt(t)]
      /\ \A i, j \in PublishAt(r) : i < j => f[i] < f[j]
      /\ \A i \in PublishAt(r) : t[f[i]] = r[i]
  BY <1>1, <1>2
<1> HIDE DEF f
<1> QED BY <1>3 DEF Thins

LEMMA ThinsConcat ==
    ASSUME NEW S, NEW a \in Seq(S), NEW b \in Seq(S), NEW c \in Seq(S), NEW d \in Seq(S),
           Thins(a, c), Thins(b, d)
    PROVE  Thins(a \o b, c \o d)
<1>1. PICK g \in [PublishAt(a) -> PublishAt(c)] :
         /\ \A i, j \in PublishAt(a) : i < j => g[i] < g[j]
         /\ \A i \in PublishAt(a) : c[g[i]] = a[i]
  BY DEF Thins
<1>2. PICK h \in [PublishAt(b) -> PublishAt(d)] :
         /\ \A i, j \in PublishAt(b) : i < j => h[i] < h[j]
         /\ \A i \in PublishAt(b) : d[h[i]] = b[i]
  BY DEF Thins
<1> DEFINE m == Len(a)
           k == Len(c)
           r == a \o b
           s == c \o d
           f == [i \in PublishAt(r) |-> IF i <= m THEN g[i] ELSE k + h[i - m]]
<1>3. /\ m \in Nat /\ k \in Nat /\ Len(b) \in Nat /\ Len(d) \in Nat
      /\ DOMAIN a = 1 .. m /\ DOMAIN b = 1 .. Len(b) /\ DOMAIN r = 1 .. m + Len(b)
      /\ DOMAIN c = 1 .. k /\ DOMAIN d = 1 .. Len(d) /\ DOMAIN s = 1 .. k + Len(d)
      /\ \A i \in 1 .. m : r[i] = a[i]
      /\ \A i \in m + 1 .. m + Len(b) : r[i] = b[i - m]
      /\ \A i \in 1 .. k : s[i] = c[i]
      /\ \A i \in k + 1 .. k + Len(d) : s[i] = d[i - k]
  OBVIOUS
<1> HIDE DEF m, k, r, s
<1>4. ASSUME NEW i \in PublishAt(r), i <= m
      PROVE  /\ i \in PublishAt(a) /\ r[i] = a[i] /\ g[i] \in PublishAt(c)
             /\ g[i] \in PublishAt(s) /\ g[i] \in 1 .. k /\ s[g[i]] = r[i]
  <2>1. i \in 1 .. m /\ r[i] = a[i] /\ r[i].type = "PUBLISH"
    BY <1>3, <1>4 DEF PublishAt
  <2>2. i \in PublishAt(a)
    BY <1>3, <2>1 DEF PublishAt
  <2>3. g[i] \in PublishAt(c) /\ c[g[i]] = a[i] /\ g[i] \in 1 .. k
    BY <1>1, <1>3, <2>2 DEF PublishAt
  <2>4. g[i] \in DOMAIN s /\ s[g[i]] = c[g[i]]
    BY <1>3, <2>3
  <2> QED BY <2>1, <2>2, <2>3, <2>4 DEF PublishAt
<1>5. ASSUME NEW i \in PublishAt(r), ~(i <= m)
      PROVE  /\ i - m \in PublishAt(b) /\ r[i] = b[i - m] /\ h[i - m] \in PublishAt(d)
             /\ h[i - m] \in 1 .. Len(d)
             /\ k + h[i - m] \in PublishAt(s) /\ s[k + h[i - m]] = r[i]
  <2>1. i \in 1 .. m + Len(b) /\ r[i].type = "PUBLISH"
    BY <1>3, <1>5 DEF PublishAt
  <2>2. i \in m + 1 .. m + Len(b)
    BY <1>3, <1>5, <2>1
  <2>3. i \in m + 1 .. m + Len(b) /\ r[i] = b[i - m] /\ r[i].type = "PUBLISH"
    BY <1>3, <2>1, <2>2
  <2>4. i - m \in 1 .. Len(b)
    BY <1>3, <2>3
  <2>5. i - m \in PublishAt(b)
    BY <1>3, <2>3, <2>4 DEF PublishAt
  <2>6. h[i - m] \in PublishAt(d) /\ d[h[i - m]] = b[i - m] /\ h[i - m] \in 1 .. Len(d)
    BY <1>2, <1>3, <2>5 DEF PublishAt
  <2>7. ASSUME NEW x \in 1 .. Len(d) PROVE k + x \in DOMAIN s /\ s[k + x] = d[x]
    <3>1. k + x \in k + 1 .. k + Len(d) /\ k + x \in 1 .. k + Len(d) /\ k + x - k = x
      BY <1>3
    <3>2. s[k + x] = d[k + x - k]
      BY <1>3, <3>1
    <3> QED BY <1>3, <3>1, <3>2
  <2>8. k + h[i - m] \in DOMAIN s /\ s[k + h[i - m]] = d[h[i - m]]
    BY <2>6, <2>7
  <2> QED BY <2>3, <2>5, <2>6, <2>8 DEF PublishAt
<1>6. f \in [PublishAt(r) -> PublishAt(s)] /\ \A i \in PublishAt(r) : s[f[i]] = r[i]
  BY <1>4, <1>5
<1>7. ASSUME NEW i \in PublishAt(r), NEW j \in PublishAt(r), i < j PROVE f[i] < f[j]
  <2>1. i \in Nat /\ j \in Nat
    BY <1>3 DEF PublishAt
  <2>2. CASE j <= m
    <3>1. i <= m
      BY <1>3, <1>7, <2>1, <2>2
    <3>2. g[i] < g[j]
      BY <1>1, <1>4, <1>7, <2>2, <3>1
    <3> QED BY <2>2, <3>1, <3>2
  <2>3. CASE ~(j <= m) /\ i <= m
    <3>1. g[i] \in 1 .. k /\ h[j - m] \in 1 .. Len(d)
      BY <1>4, <1>5, <2>3
    <3>2. g[i] < k + h[j - m]
      BY <1>3, <3>1
    <3> QED BY <2>3, <3>2
  <2>4. CASE ~(j <= m) /\ ~(i <= m)
    <3>1. i - m \in PublishAt(b) /\ j - m \in PublishAt(b) /\ i - m < j - m
      BY <1>3, <1>5, <1>7, <2>1, <2>4
    <3>2. h[i - m] < h[j - m] /\ h[i - m] \in 1 .. Len(d) /\ h[j - m] \in 1 .. Len(d)
      BY <1>2, <1>5, <2>4, <3>1
    <3>3. k + h[i - m] < k + h[j - m]
      BY <1>3, <3>2
    <3> QED BY <2>4, <3>3
  <2> QED BY <2>2, <2>3, <2>4
<1> HIDE DEF f
<1> QED BY <1>6, <1>7 DEF Thins, r, s

\* The packets a queue will write.
Writes(q) == [i \in DOMAIN q |-> ToWrite(q[i])]

LEMMA WritesType ==
    ASSUME NEW q \in Seq(Task)
    PROVE  /\ Writes(q) \in Seq(Outgoing)
           /\ Len(Writes(q)) = Len(q) /\ DOMAIN Writes(q) = DOMAIN q
           /\ \A i \in DOMAIN q : Writes(q)[i] = ToWrite(q[i])
<1>1. DOMAIN q = 1 .. Len(q) /\ Len(q) \in Nat /\ \A i \in DOMAIN q : q[i] \in Task
  OBVIOUS
<1>2. \A task \in Task : ToWrite(task) \in Outgoing
  BY PacketTypes DEF ToWrite, Task
<1>3. Writes(q) \in [1 .. Len(q) -> Outgoing]
  BY <1>1, <1>2 DEF Writes
<1> QED BY <1>1, <1>3 DEF Writes

LEMMA WritesConcat ==
    ASSUME NEW q \in Seq(Task), NEW r \in Seq(Task)
    PROVE  Writes(q \o r) = Writes(q) \o Writes(r)
<1> DEFINE a == Writes(q \o r)
           b == Writes(q) \o Writes(r)
<1>1. /\ q \o r \in Seq(Task) /\ Len(q \o r) = Len(q) + Len(r)
      /\ Len(q) \in Nat /\ Len(r) \in Nat
      /\ DOMAIN q = 1 .. Len(q) /\ DOMAIN r = 1 .. Len(r)
      /\ DOMAIN (q \o r) = 1 .. Len(q) + Len(r)
      /\ \A i \in 1 .. Len(q) : (q \o r)[i] = q[i]
      /\ \A i \in Len(q) + 1 .. Len(q) + Len(r) : (q \o r)[i] = r[i - Len(q)]
  OBVIOUS
<1>2. /\ Writes(q) \in Seq(Outgoing) /\ Len(Writes(q)) = Len(q)
      /\ Writes(r) \in Seq(Outgoing) /\ Len(Writes(r)) = Len(r)
      /\ a \in Seq(Outgoing) /\ Len(a) = Len(q \o r)
  BY <1>1, WritesType
<1>3. /\ b \in Seq(Outgoing) /\ Len(b) = Len(q) + Len(r)
      /\ \A i \in 1 .. Len(q) : b[i] = Writes(q)[i]
      /\ \A i \in Len(q) + 1 .. Len(q) + Len(r) : b[i] = Writes(r)[i - Len(q)]
  BY <1>2
<1> HIDE DEF b
<1>4. ASSUME NEW i \in 1 .. Len(q) + Len(r) PROVE a[i] = b[i]
  <2>1. a[i] = ToWrite((q \o r)[i])
    BY <1>1, WritesType
  <2>2. CASE i \in 1 .. Len(q)
    BY <1>1, <1>3, <2>1, <2>2, WritesType
  <2>3. CASE i \in Len(q) + 1 .. Len(q) + Len(r)
    <3>1. i - Len(q) \in DOMAIN r
      BY <1>1, <2>3
    <3> QED BY <1>1, <1>3, <2>1, <2>3, <3>1, WritesType
  <2> QED BY <1>1, <2>2, <2>3
<1> HIDE DEF a
<1>5. a = b
  BY <1>1, <1>2, <1>3, <1>4, SeqEqual
<1> QED BY <1>5 DEF a, b

LEMMA WritesOne ==
    ASSUME NEW t \in Task
    PROVE  <<t>> \in Seq(Task) /\ Writes(<<t>>) = <<ToWrite(t)>>
           /\ <<ToWrite(t)>> \in Seq(Outgoing)
<1>1. ToWrite(t) \in Outgoing
  BY PacketTypes DEF ToWrite, Task
<1> QED BY <1>1 DEF Writes

\* The kept tasks are some of the queue's, in its order.
LEMMA ThinsKept ==
    ASSUME NEW q \in Seq(Task)
    PROVE  Thins(Writes(Kept(q)), Writes(q))
<1> DEFINE I == KeptAt(q)
           k == Kept(q)
           P == PublishAt(Writes(k))
           h == [n \in P |-> Nth(I, n)]
<1>1. I \in SUBSET (1 .. Len(q)) /\ Len(q) \in Nat /\ DOMAIN q = 1 .. Len(q)
  BY DEF KeptAt
<1>2. k \in Seq(Task) /\ DOMAIN k = 1 .. Cardinality(I)
  BY KeptIsQueue DEF Kept
<1>3. ASSUME NEW n \in P
      PROVE  /\ n \in 1 .. Cardinality(I)
             /\ Nth(I, n) \in PublishAt(Writes(q))
             /\ Writes(q)[Nth(I, n)] = Writes(k)[n]
  <2>1. n \in DOMAIN k /\ Writes(k)[n] = ToWrite(k[n]) /\ Writes(k)[n].type = "PUBLISH"
    BY <1>2, WritesType DEF PublishAt
  <2>2. k[n] = q[Nth(I, n)] /\ Nth(I, n) \in I
    BY <2>1, KeptIsAll
  <2>3. Nth(I, n) \in DOMAIN q
    BY <1>1, <2>2
  <2>4. /\ Writes(q)[Nth(I, n)] = ToWrite(q[Nth(I, n)])
        /\ Nth(I, n) \in DOMAIN Writes(q)
    BY <2>3, WritesType
  <2> HIDE DEF k, I
  <2> QED BY <1>2, <2>1, <2>2, <2>4 DEF PublishAt
<1>4. ASSUME NEW m \in P, NEW n \in P, m < n PROVE Nth(I, m) < Nth(I, n)
  <2>1. m \in 1 .. Cardinality(I) /\ n \in 1 .. Cardinality(I)
    BY <1>3
  <2> HIDE DEF I, P
  <2> QED BY <1>1, <1>4, <2>1, NthGrows
<1> HIDE DEF I
<1>5. /\ h \in [P -> PublishAt(Writes(q))]
      /\ \A m, n \in P : m < n => h[m] < h[n]
      /\ \A n \in P : Writes(q)[h[n]] = Writes(k)[n]
  BY <1>3, <1>4
<1> HIDE DEF h
<1> QED BY <1>5 DEF Thins

-----------------------------------------------------------------------------
(* What is on its way, as AtMostOnce counts it. *)

ArgsOf(packets) == [i \in DOMAIN packets |-> packets[i].arg]
Args == {p.arg : p \in Outgoing}

LEMMA ArgsType ==
    ASSUME NEW s \in Seq(Outgoing)
    PROVE  /\ ArgsOf(s) \in Seq(Args) /\ DOMAIN ArgsOf(s) = DOMAIN s
           /\ \A i \in DOMAIN s : ArgsOf(s)[i] = s[i].arg
           /\ PublishAt(s) \in SUBSET DOMAIN s
           /\ MessagesOf(s) = At(ArgsOf(s), PublishAt(s))
<1>1. DOMAIN s = 1 .. Len(s) /\ Len(s) \in Nat /\ \A i \in 1 .. Len(s) : s[i] \in Outgoing
  OBVIOUS
<1>2. ArgsOf(s) \in [1 .. Len(s) -> Args]
  BY <1>1 DEF ArgsOf, Args
<1>3. ArgsOf(s) \in Seq(Args)
  BY <1>1, <1>2
<1>4. MessagesOf(s) = At(ArgsOf(s), PublishAt(s))
  BY DEF MessagesOf, ArgsOf
<1> QED BY <1>3, <1>4 DEF ArgsOf, PublishAt

LEMMA MessagesType ==
    ASSUME NEW s \in Seq(Outgoing)
    PROVE  /\ MessagesOf(s) \in Seq(Messages)
           /\ Len(MessagesOf(s)) = Cardinality(PublishAt(s))
           /\ Cardinality(PublishAt(s)) \in Nat
           /\ DOMAIN MessagesOf(s) = 1 .. Cardinality(PublishAt(s))
           /\ \A n \in 1 .. Cardinality(PublishAt(s)) :
                 MessagesOf(s)[n] = At(s, PublishAt(s))[n].arg
<1> DEFINE I == PublishAt(s)
           a == ArgsOf(s)
<1>1. I \in SUBSET DOMAIN s /\ \A i \in I : s[i] \in Outgoing /\ s[i].type = "PUBLISH"
  BY DEF PublishAt
<1>2. /\ a \in Seq(Args) /\ DOMAIN a = DOMAIN s /\ MessagesOf(s) = At(a, I)
      /\ \A i \in DOMAIN s : a[i] = s[i].arg
  BY ArgsType
<1> HIDE DEF I, a
<1>3. /\ Cardinality(I) \in Nat
      /\ \A n \in 1 .. Cardinality(I) : /\ Nth(I, n) \in I
                                       /\ At(s, I)[n] = s[Nth(I, n)]
  BY <1>1, AtElements
<1>4. /\ At(a, I) \in Seq(Args) /\ DOMAIN At(a, I) = 1 .. Cardinality(I)
      /\ Len(At(a, I)) = Cardinality(I)
      /\ \A n \in 1 .. Cardinality(I) : At(a, I)[n] = a[Nth(I, n)]
  <2>1. I \in SUBSET DOMAIN a
    BY <1>1, <1>2
  <2> QED BY <1>2, <2>1, AtElements
<1>5. ASSUME NEW n \in 1 .. Cardinality(I)
      PROVE  At(a, I)[n] = At(s, I)[n].arg /\ At(a, I)[n] \in Messages
  <2>1. Nth(I, n) \in I /\ At(s, I)[n] = s[Nth(I, n)] /\ At(a, I)[n] = a[Nth(I, n)]
    BY <1>3, <1>4
  <2>2. s[Nth(I, n)].arg \in Messages /\ a[Nth(I, n)] = s[Nth(I, n)].arg
    BY <1>1, <1>2, <2>1 DEF Outgoing
  <2> QED BY <2>1, <2>2
<1>6. At(a, I) \in Seq(Messages)
  <2>1. \A n \in 1 .. Len(At(a, I)) : At(a, I)[n] \in Messages
    BY <1>4, <1>5
  <2> QED BY <1>4, <2>1
<1> QED BY <1>2, <1>3, <1>4, <1>5, <1>6 DEF I

LEMMA ThinsMeans ==
    ASSUME NEW r \in Seq(Outgoing), NEW s \in Seq(Outgoing), Thins(r, s)
    PROVE  PartOf(MessagesOf(r), MessagesOf(s))
<1> DEFINE J == PublishAt(r)
           I == PublishAt(s)
           a == ArgsOf(r)
           b == ArgsOf(s)
<1>1. /\ a \in Seq(Args) /\ J \in SUBSET DOMAIN a /\ MessagesOf(r) = At(a, J)
      /\ \A i \in J : a[i] = r[i].arg
  BY ArgsType
<1>2. /\ b \in Seq(Args) /\ I \in SUBSET DOMAIN b /\ MessagesOf(s) = At(b, I)
      /\ \A i \in I : b[i] = s[i].arg
  BY ArgsType
<1>3. PICK h \in [J -> I] : /\ \A i, j \in J : i < j => h[i] < h[j]
                            /\ \A i \in J : s[h[i]] = r[i]
  BY DEF Thins
<1> HIDE DEF I, J, a, b
<1>4. \A i \in J : b[h[i]] = a[i]
  BY <1>1, <1>2, <1>3
<1>5. Finds(h, J, a, b)
  BY <1>3, <1>4 DEF Finds
<1> QED BY <1>1, <1>2, <1>5, AtPart

\* The elements a sequence of packets has at increasing positions, if they are
\* those of its PUBLISH packets.
LEMMA MessagesAt ==
    ASSUME NEW s \in Seq(Outgoing), NEW n \in Nat, NEW f \in [1 .. n -> DOMAIN s],
           \A i, j \in 1 .. n : i < j => f[i] < f[j],
           PublishAt(s) = {f[i] : i \in 1 .. n}
    PROVE  MessagesOf(s) = [i \in 1 .. n |-> s[f[i]].arg]
<1> DEFINE a == ArgsOf(s)
<1>1. /\ a \in Seq(Args) /\ DOMAIN a = DOMAIN s
      /\ MessagesOf(s) = At(a, PublishAt(s)) /\ \A i \in DOMAIN s : a[i] = s[i].arg
  BY ArgsType
<1> HIDE DEF a
<1>2. f \in [1 .. n -> DOMAIN a]
  BY <1>1
<1>3. At(a, {f[i] : i \in 1 .. n}) = [i \in 1 .. n |-> a[f[i]]]
  BY <1>1, <1>2, AtIncreasing
<1>4. \A i \in 1 .. n : a[f[i]] = s[f[i]].arg
  BY <1>1
<1> QED BY <1>1, <1>3, <1>4

LEMMA MessagesBack ==
    ASSUME NEW s \in Seq(Outgoing), NEW p \in Outgoing, p.type = "PUBLISH"
    PROVE  MessagesOf(Append(s, p)) = Append(MessagesOf(s), p.arg)
<1> DEFINE I == PublishAt(s)
           n == Cardinality(I)
           t == Append(s, p)
           f == [i \in 1 .. n + 1 |-> IF i <= n THEN Nth(I, i) ELSE Len(s) + 1]
<1>1. /\ I \in SUBSET (1 .. Len(s)) /\ Len(s) \in Nat /\ DOMAIN s = 1 .. Len(s)
      /\ t \in Seq(Outgoing) /\ DOMAIN t = 1 .. Len(s) + 1 /\ t[Len(s) + 1] = p
      /\ \A i \in 1 .. Len(s) : t[i] = s[i]
  BY DEF PublishAt
<1>2. PublishAt(t) = I \cup {Len(s) + 1}
  <2> HIDE DEF t
  <2>1. \A i : i \in 1 .. Len(s) + 1 <=> i \in 1 .. Len(s) \/ i = Len(s) + 1
    BY <1>1
  <2> QED BY <1>1, <2>1 DEF PublishAt
<1> HIDE DEF I, t
<1>3. n \in Nat /\ \A i \in 1 .. n : Nth(I, i) \in I
  BY <1>1, UpToEnds, NthExists
<1>4. \A i, j \in 1 .. n : i < j => Nth(I, i) < Nth(I, j)
  BY <1>1, NthGrows
<1>5. \A i \in I : \E k \in 1 .. n : Nth(I, k) = i
  BY <1>1, NthOnto
<1>6. /\ MessagesOf(s) \in Seq(Messages) /\ Len(MessagesOf(s)) = n
      /\ \A i \in 1 .. n : MessagesOf(s)[i] = s[Nth(I, i)].arg
  <2>1. I \in SUBSET DOMAIN s
    BY <1>1
  <2> QED BY <2>1, MessagesType, AtElements DEF I
<1> HIDE DEF n
<1>7. \A i \in 1 .. n : i \in 1 .. n + 1 /\ i <= n
  BY <1>3
<1>8. \A i \in 1 .. n + 1 : i \in 1 .. n \/ (i = n + 1 /\ ~(i <= n))
  BY <1>3
<1>9. /\ \A i \in 1 .. n : f[i] = Nth(I, i) /\ f[i] \in 1 .. Len(s)
      /\ n + 1 \in 1 .. n + 1 /\ f[n + 1] = Len(s) + 1
  <2>1. \A i \in 1 .. n : f[i] = Nth(I, i)
    BY <1>7
  <2>2. n + 1 \in 1 .. n + 1 /\ ~(n + 1 <= n)
    BY <1>3
  <2>3. f[n + 1] = Len(s) + 1
    BY <2>2
  <2> HIDE DEF f
  <2> QED BY <1>1, <1>3, <2>1, <2>2, <2>3
<1>10. f \in [1 .. n + 1 -> DOMAIN t]
  <2>1. ASSUME NEW i \in 1 .. n + 1 PROVE f[i] \in DOMAIN t
    <3> HIDE DEF f
    <3>1. CASE i \in 1 .. n
      <4>1. f[i] \in 1 .. Len(s)
        BY <1>9, <3>1
      <4> QED BY <1>1, <4>1
    <3>2. CASE i = n + 1
      BY <1>1, <1>9, <3>2
    <3> QED BY <1>8, <3>1, <3>2
  <2> QED BY <2>1
<1> HIDE DEF f
<1>11. ASSUME NEW i \in 1 .. n + 1, NEW j \in 1 .. n + 1, i < j PROVE f[i] < f[j]
  <2>1. i \in 1 .. n
    BY <1>3, <1>11
  <2>2. CASE j \in 1 .. n
    BY <1>4, <1>9, <1>11, <2>1, <2>2
  <2>3. CASE j = n + 1
    <3>1. f[i] \in 1 .. Len(s) /\ f[j] = Len(s) + 1
      BY <1>9, <2>1, <2>3
    <3> QED BY <1>1, <3>1
  <2> QED BY <1>8, <2>2, <2>3
<1>12. PublishAt(t) = {f[i] : i \in 1 .. n + 1}
  <2>1. ASSUME NEW x \in PublishAt(t) PROVE \E i \in 1 .. n + 1 : x = f[i]
    <3>1. CASE x \in I
      <4>1. PICK k \in 1 .. n : Nth(I, k) = x
        BY <1>5, <3>1
      <4> QED BY <1>7, <1>9, <4>1
    <3>2. CASE x = Len(s) + 1
      BY <1>9, <3>2
    <3> QED BY <1>2, <2>1, <3>1, <3>2
  <2>2. ASSUME NEW i \in 1 .. n + 1 PROVE f[i] \in PublishAt(t)
    BY <1>2, <1>3, <1>8, <1>9
  <2> QED BY <2>1, <2>2
<1>13. MessagesOf(t) = [i \in 1 .. n + 1 |-> t[f[i]].arg]
  <2>1. n + 1 \in Nat
    BY <1>3
  <2> QED BY <1>1, <1>10, <1>11, <1>12, <2>1, MessagesAt
<1>14. /\ \A i \in 1 .. n : t[f[i]].arg = MessagesOf(s)[i]
       /\ t[f[n + 1]].arg = p.arg
  BY <1>1, <1>6, <1>9
<1>15. p.arg \in Messages
  BY DEF Outgoing
<1>16. Append(MessagesOf(s), p.arg) = MessagesOf(t)
  <2> DEFINE a == Append(MessagesOf(s), p.arg)
  <2>1. /\ a \in Seq(Messages) /\ Len(a) = n + 1
        /\ \A i \in 1 .. n : a[i] = MessagesOf(s)[i]
        /\ a[n + 1] = p.arg
    BY <1>3, <1>6, <1>15
  <2>2. MessagesOf(t) \in Seq(Messages)
    BY <1>1, MessagesType
  <2>3. Len(MessagesOf(t)) = n + 1 /\ \A i \in 1 .. n + 1 : MessagesOf(t)[i] = t[f[i]].arg
    BY <1>3, <1>13, <2>2
  <2> HIDE DEF a
  <2>4. \A i \in 1 .. n + 1 : a[i] = MessagesOf(t)[i]
    BY <1>8, <1>14, <2>1, <2>3
  <2>5. a = MessagesOf(t)
    BY <2>1, <2>2, <2>3, <2>4, SeqEqual
  <2> QED BY <2>5 DEF a
<1> QED BY <1>16 DEF t

\* The first packet, a PUBLISH, is the first message.
LEMMA MessagesFront ==
    ASSUME NEW s \in Seq(Outgoing), NEW p \in Outgoing, p.type = "PUBLISH"
    PROVE  MessagesOf(<<p>> \o s) = <<p.arg>> \o MessagesOf(s)
<1> DEFINE I == PublishAt(s)
           n == Cardinality(I)
           t == <<p>> \o s
           f == [i \in 1 .. n + 1 |-> IF i = 1 THEN 1 ELSE Nth(I, i - 1) + 1]
<1>1. /\ I \in SUBSET (1 .. Len(s)) /\ Len(s) \in Nat /\ DOMAIN s = 1 .. Len(s)
      /\ t \in Seq(Outgoing) /\ DOMAIN t = 1 .. Len(s) + 1 /\ t[1] = p
      /\ \A i \in 1 .. Len(s) : t[i + 1] = s[i]
  BY DEF PublishAt
<1> HIDE DEF t
<1>2. \A i \in 1 .. Len(s) : i + 1 \in DOMAIN t /\ (i + 1 \in PublishAt(t) <=> i \in I)
  BY <1>1 DEF PublishAt
<1>3. \A i \in PublishAt(t) : i = 1 \/ (i - 1 \in 1 .. Len(s) /\ i = i - 1 + 1)
  BY <1>1 DEF PublishAt
<1>4. 1 \in PublishAt(t)
  BY <1>1 DEF PublishAt
<1> HIDE DEF I
<1>5. n \in Nat /\ \A i \in 1 .. n : Nth(I, i) \in I
  BY <1>1, UpToEnds, NthExists
<1>6. \A i, j \in 1 .. n : i < j => Nth(I, i) < Nth(I, j)
  BY <1>1, NthGrows
<1>7. \A i \in I : \E k \in 1 .. n : Nth(I, k) = i
  BY <1>1, NthOnto
<1>8. /\ MessagesOf(s) \in Seq(Messages) /\ Len(MessagesOf(s)) = n
      /\ \A i \in 1 .. n : MessagesOf(s)[i] = s[Nth(I, i)].arg
  <2>1. I \in SUBSET DOMAIN s
    BY <1>1
  <2> QED BY <2>1, MessagesType, AtElements DEF I
<1> HIDE DEF n
<1>9. /\ 1 \in 1 .. n + 1 /\ f[1] = 1
      /\ \A i \in 1 .. n : /\ i + 1 \in 1 .. n + 1 /\ f[i + 1] = Nth(I, i) + 1
                           /\ Nth(I, i) \in 1 .. Len(s)
  <2>1. /\ 1 \in 1 .. n + 1
        /\ \A i \in 1 .. n : i + 1 \in 1 .. n + 1 /\ i + 1 # 1 /\ i + 1 - 1 = i
    BY <1>5
  <2>2. f[1] = 1
    BY <2>1
  <2>3. \A i \in 1 .. n : f[i + 1] = Nth(I, i) + 1
    BY <2>1
  <2> HIDE DEF f
  <2> QED BY <1>1, <1>5, <2>1, <2>2, <2>3
<1>10. \A i \in 1 .. n + 1 : i = 1 \/ (i - 1 \in 1 .. n /\ i = i - 1 + 1)
  BY <1>5
<1>11. ASSUME NEW i \in 1 .. n + 1 PROVE f[i] \in PublishAt(t)
  <2>1. CASE i = 1
    BY <1>4, <1>9, <2>1
  <2>2. CASE i - 1 \in 1 .. n /\ i = i - 1 + 1
    <3>1. f[i] = Nth(I, i - 1) + 1 /\ Nth(I, i - 1) \in 1 .. Len(s) /\ Nth(I, i - 1) \in I
      BY <1>5, <1>9, <2>2
    <3> QED BY <1>2, <3>1
  <2> QED BY <1>10, <2>1, <2>2
<1>12. f \in [1 .. n + 1 -> DOMAIN t]
  <2>1. \A i \in 1 .. n + 1 : f[i] \in DOMAIN t
    BY <1>11 DEF PublishAt
  <2> QED BY <2>1
<1> HIDE DEF f
<1>13. ASSUME NEW i \in 1 .. n + 1, NEW j \in 1 .. n + 1, i < j PROVE f[i] < f[j]
  <2>1. j - 1 \in 1 .. n /\ j = j - 1 + 1
    BY <1>5, <1>13
  <2>2. f[j] = Nth(I, j - 1) + 1 /\ Nth(I, j - 1) \in 1 .. Len(s)
    BY <1>9, <2>1
  <2>3. CASE i = 1
    BY <1>1, <1>9, <2>2, <2>3
  <2>4. CASE i - 1 \in 1 .. n /\ i = i - 1 + 1
    <3>1. f[i] = Nth(I, i - 1) + 1 /\ Nth(I, i - 1) \in 1 .. Len(s)
      BY <1>9, <2>4
    <3>2. i - 1 < j - 1
      BY <1>5, <1>13
    <3>3. Nth(I, i - 1) < Nth(I, j - 1)
      BY <1>6, <2>1, <2>4, <3>2
    <3> QED BY <1>1, <2>2, <3>1, <3>3
  <2> QED BY <1>10, <2>3, <2>4
<1>14. PublishAt(t) = {f[i] : i \in 1 .. n + 1}
  <2>1. ASSUME NEW x \in PublishAt(t) PROVE \E i \in 1 .. n + 1 : x = f[i]
    <3>1. CASE x = 1
      BY <1>9, <3>1
    <3>2. CASE x - 1 \in 1 .. Len(s) /\ x = x - 1 + 1
      <4>1. x - 1 \in I
        BY <1>2, <2>1, <3>2
      <4>2. PICK k \in 1 .. n : Nth(I, k) = x - 1
        BY <1>7, <4>1
      <4>3. f[k + 1] = x /\ k + 1 \in 1 .. n + 1
        BY <1>9, <3>2, <4>2
      <4> QED BY <4>3
    <3> QED BY <1>3, <3>1, <3>2
  <2> QED BY <1>11, <2>1
<1>15. MessagesOf(t) = [i \in 1 .. n + 1 |-> t[f[i]].arg]
  <2>1. n + 1 \in Nat
    BY <1>5
  <2> QED BY <1>1, <1>12, <1>13, <1>14, <2>1, MessagesAt
<1>16. /\ t[f[1]].arg = p.arg
       /\ \A i \in 1 .. n : t[f[i + 1]].arg = MessagesOf(s)[i]
  BY <1>1, <1>8, <1>9
<1>17. <<p.arg>> \o MessagesOf(s) = MessagesOf(t)
  <2> DEFINE a == <<p.arg>> \o MessagesOf(s)
  <2>1. p.arg \in Messages
    BY DEF Outgoing
  <2>2. /\ a \in Seq(Messages) /\ Len(a) = n + 1 /\ a[1] = p.arg
        /\ \A i \in 1 .. n : a[i + 1] = MessagesOf(s)[i]
    BY <1>8, <2>1, QueueFront
  <2>3. MessagesOf(t) \in Seq(Messages)
    BY <1>1, MessagesType
  <2>4. Len(MessagesOf(t)) = n + 1 /\ \A i \in 1 .. n + 1 : MessagesOf(t)[i] = t[f[i]].arg
    BY <1>5, <1>15, <2>3
  <2> HIDE DEF a
  <2>5. ASSUME NEW i \in 1 .. n + 1 PROVE a[i] = MessagesOf(t)[i]
    <3>1. CASE i = 1
      BY <1>16, <2>2, <2>4, <3>1
    <3>2. CASE i - 1 \in 1 .. n /\ i = i - 1 + 1
      BY <1>16, <2>2, <2>4, <3>2
    <3> QED BY <1>10, <3>1, <3>2
  <2>6. a = MessagesOf(t)
    BY <2>2, <2>3, <2>4, <2>5, SeqEqual
  <2> QED BY <2>6 DEF a
<1> QED BY <1>17 DEF t


-----------------------------------------------------------------------------
(* Steps of the queue that put no message on its way. *)

Silent(task) == ToWrite(task).type # "PUBLISH"

LEMMA SilentTasks ==
    /\ \A task \in Task : task.kind \notin {"prepare", "send"} => Silent(task)
    /\ \A s \in Subs : Silent(SubscribeTask(s))
    /\ \A t \in Topics : Silent(UnsubscribeTask(t))
    /\ Silent(PingTask) /\ Silent(DisconnectTask)
    /\ \A p \in Outgoing : Silent(RecvTask(p))
    /\ \A i \in DOMAIN ConnectTasks : Silent(ConnectTasks[i])
<1>1. \A task \in Task : task.kind \notin {"prepare", "send"} => Silent(task)
  BY DEF Silent, ToWrite, NoPacket, MakePacket
<1>2. /\ \A s \in Subs : Silent(SubscribeTask(s))
      /\ \A t \in Topics : Silent(UnsubscribeTask(t))
      /\ Silent(PingTask) /\ Silent(DisconnectTask)
      /\ \A p \in Outgoing : Silent(RecvTask(p))
  BY DEF Silent, ToWrite, NoPacket, MakePacket, MakeTask, SubscribeTask,
         UnsubscribeTask, PingTask, DisconnectTask, RecvTask
<1>3. \A i \in DOMAIN ConnectTasks : Silent(ConnectTasks[i])
  BY DEF Silent, ToWrite, NoPacket, MakePacket, MakeTask, ConnectTasks
<1> QED BY <1>1, <1>2, <1>3

\* A queue of silent tasks writes no message.
LEMMA ThinsSilent ==
    ASSUME NEW q \in Seq(Task), \A i \in DOMAIN q : Silent(q[i]), NEW s
    PROVE  Thins(Writes(q), s)
<1>1. \A i \in DOMAIN Writes(q) : Writes(q)[i].type # "PUBLISH"
  BY WritesType DEF Silent
<1> QED BY <1>1, ThinsNone

LEMMA ThinsFront ==
    ASSUME NEW q \in Seq(Task), NEW t \in Task, Silent(t)
    PROVE  Thins(Writes(<<t>> \o q), Writes(q))
<1> DEFINE w == Writes(q)
           o == <<ToWrite(t)>>
<1>1. /\ o \in Seq(Outgoing) /\ w \in Seq(Outgoing)
      /\ Writes(<<t>> \o q) = o \o w
  BY WritesOne, WritesType, WritesConcat
<1>2. \A i \in DOMAIN o : o[i].type # "PUBLISH"
  BY DEF Silent
<1> HIDE DEF o, w
<1>3. <<>> \in Seq(Outgoing) /\ <<>> \o w = w
  BY <1>1
<1>4. Thins(o, <<>>) /\ Thins(w, w)
  BY <1>2, ThinsNone, ThinsSame
<1>5. Thins(o \o w, <<>> \o w)
  BY <1>1, <1>3, <1>4, ThinsConcat
<1> QED BY <1>1, <1>3, <1>5 DEF w

LEMMA ThinsBack ==
    ASSUME NEW q \in Seq(Task), NEW t \in Task, Silent(t)
    PROVE  Thins(Writes(Append(q, t)), Writes(q))
<1> DEFINE w == Writes(q)
           o == <<ToWrite(t)>>
<1>1. Append(q, t) = q \o <<t>>
  OBVIOUS
<1>2. /\ o \in Seq(Outgoing) /\ w \in Seq(Outgoing)
      /\ Writes(q \o <<t>>) = w \o o
  BY WritesOne, WritesType, WritesConcat
<1>3. \A i \in DOMAIN o : o[i].type # "PUBLISH"
  BY DEF Silent
<1> HIDE DEF o, w
<1>4. <<>> \in Seq(Outgoing) /\ w \o <<>> = w
  BY <1>2
<1>5. Thins(o, <<>>) /\ Thins(w, w)
  BY <1>3, ThinsNone, ThinsSame
<1>6. Thins(w \o o, w \o <<>>)
  BY <1>2, <1>4, <1>5, ThinsConcat
<1> QED BY <1>1, <1>2, <1>4, <1>6 DEF w

\* The first task and the rest.
LEMMA WritesHead ==
    ASSUME NEW q \in Seq(Task), q # <<>>
    PROVE  /\ Head(q) \in Task /\ Tail(q) \in Seq(Task)
           /\ Writes(q) = <<ToWrite(Head(q))>> \o Writes(Tail(q))
           /\ Writes(Tail(q)) \in Seq(Outgoing)
           /\ <<ToWrite(Head(q))>> \in Seq(Outgoing)
<1>1. Head(q) \in Task /\ Tail(q) \in Seq(Task) /\ q = <<Head(q)>> \o Tail(q)
  OBVIOUS
<1>2. /\ <<Head(q)>> \in Seq(Task) /\ Writes(<<Head(q)>>) = <<ToWrite(Head(q))>>
      /\ <<ToWrite(Head(q))>> \in Seq(Outgoing)
  BY <1>1, WritesOne
<1>3. Writes(<<Head(q)>> \o Tail(q)) = Writes(<<Head(q)>>) \o Writes(Tail(q))
  BY <1>1, <1>2, WritesConcat
<1>4. Writes(Tail(q)) \in Seq(Outgoing)
  BY <1>1, WritesType
<1> QED BY <1>1, <1>2, <1>3, <1>4

\* The first task is over.
LEMMA ThinsTail ==
    ASSUME NEW q \in Seq(Task), q # <<>>
    PROVE  Thins(Writes(Tail(q)), Writes(q))
<1> DEFINE w == Writes(Tail(q))
           o == <<ToWrite(Head(q))>>
<1>1. w \in Seq(Outgoing) /\ o \in Seq(Outgoing) /\ Writes(q) = o \o w
  BY WritesHead
<1> HIDE DEF o, w
<1>2. <<>> \in Seq(Outgoing) /\ <<>> \o w = w
  BY <1>1
<1>3. \A i \in DOMAIN <<>> : <<>>[i].type # "PUBLISH"
  OBVIOUS
<1>4. Thins(<<>>, o) /\ Thins(w, w)
  BY <1>3, ThinsNone, ThinsSame
<1>5. Thins(<<>> \o w, o \o w)
  BY <1>1, <1>2, <1>4, ThinsConcat
<1> QED BY <1>1, <1>2, <1>5 DEF w

\* Another takes its place, which has no message or the same packet to write.
LEMMA ThinsReplace ==
    ASSUME NEW q \in Seq(Task), q # <<>>, NEW t \in Task,
           Silent(t) \/ ToWrite(t) = ToWrite(Head(q))
    PROVE  Thins(Writes(<<t>> \o Tail(q)), Writes(q))
<1>1. /\ Tail(q) \in Seq(Task) /\ Writes(Tail(q)) \in Seq(Outgoing)
      /\ <<t>> \in Seq(Task) /\ Writes(<<t>>) = <<ToWrite(t)>>
      /\ Writes(q) = <<ToWrite(Head(q))>> \o Writes(Tail(q))
  BY WritesHead, WritesOne
<1>2. CASE Silent(t)
  <2> DEFINE x == Writes(<<t>> \o Tail(q))
             y == Writes(Tail(q))
             z == Writes(q)
  <2>1. Thins(x, y) /\ Thins(y, z)
    BY <1>1, <1>2, ThinsFront, ThinsTail
  <2> HIDE DEF x, y, z
  <2>2. Thins(x, z)
    BY <2>1, ThinsAgain
  <2> QED BY <2>2 DEF x, z
<1>3. CASE ToWrite(t) = ToWrite(Head(q))
  <2>1. Writes(<<t>> \o Tail(q)) = Writes(<<t>>) \o Writes(Tail(q))
    BY <1>1, WritesConcat
  <2>2. Writes(<<t>> \o Tail(q)) = Writes(q)
    BY <1>1, <1>3, <2>1
  <2> QED BY <2>2, ThinsSame
<1> QED BY <1>2, <1>3

\* A new connection keeps the messages, in their order, and adds none.
LEMMA ThinsReconnect ==
    ASSUME ClientTypeOK, connectMqtt
    PROVE  Thins(Writes(mTaskQueue'), Writes(mTaskQueue))
<1>1. PICK order \in SetToSeqs(callbacks) :
         mTaskQueue' = ConnectTasks \o Kept(mTaskQueue) \o
                       [i \in DOMAIN order |-> SubscribeTask(order[i])]
  BY DEF connectMqtt
<1> DEFINE c == ConnectTasks
           k == Kept(mTaskQueue)
           r == [i \in DOMAIN order |-> SubscribeTask(order[i])]
           w == Writes(mTaskQueue)
<1>2. mTaskQueue \in Seq(Task) /\ callbacks \subseteq Subs /\ IsFiniteSet(callbacks)
  BY DEF ClientTypeOK
<1>3. order \in Seq(callbacks)
  BY <1>2, OrderIsSeq
<1>4. r \in Seq(Task) /\ \A i \in DOMAIN r : Silent(r[i])
  <2>1. DOMAIN order = 1 .. Len(order) /\ Len(order) \in Nat
    BY <1>3
  <2>2. \A i \in DOMAIN order : order[i] \in Subs
    BY <1>2, <1>3
  <2>3. r \in [1 .. Len(order) -> Task]
    BY <2>1, <2>2, TaskTypes
  <2> QED BY <2>1, <2>2, <2>3, SilentTasks
<1>5. /\ c \in Seq(Task) /\ k \in Seq(Task) /\ w \in Seq(Outgoing)
      /\ \A i \in DOMAIN c : Silent(c[i])
      /\ Thins(Writes(k), w)
  BY <1>2, TaskTypes, SilentTasks, KeptIsQueue, ThinsKept, WritesType
<1>6. mTaskQueue' = c \o k \o r
  BY <1>1
<1> HIDE DEF c, k, r, w
<1>7. /\ c \o k \in Seq(Task)
      /\ Writes(c \o k) = Writes(c) \o Writes(k)
      /\ Writes(c) \in Seq(Outgoing) /\ Writes(k) \in Seq(Outgoing)
      /\ Writes(r) \in Seq(Outgoing)
  BY <1>4, <1>5, WritesType, WritesConcat
<1>8. Writes(c \o k \o r) = (Writes(c) \o Writes(k)) \o Writes(r)
  BY <1>4, <1>7, WritesConcat
<1>9. Thins(Writes(c), <<>>) /\ Thins(Writes(r), <<>>)
  BY <1>4, <1>5, ThinsSilent
<1>10. /\ <<>> \in Seq(Outgoing) /\ <<>> \o w = w /\ w \o <<>> = w
       /\ Writes(c) \o Writes(k) \in Seq(Outgoing)
  BY <1>5, <1>7
<1>11. Thins(Writes(c) \o Writes(k), w)
  <2>1. Thins(Writes(c) \o Writes(k), <<>> \o w)
    BY <1>5, <1>7, <1>9, <1>10, ThinsConcat
  <2> QED BY <1>10, <2>1
<1>12. Thins((Writes(c) \o Writes(k)) \o Writes(r), w)
  <2>1. Thins((Writes(c) \o Writes(k)) \o Writes(r), w \o <<>>)
    BY <1>5, <1>7, <1>9, <1>10, <1>11, ThinsConcat
  <2> QED BY <1>10, <2>1
<1> QED BY <1>6, <1>8, <1>12 DEF w

-----------------------------------------------------------------------------
(* Steps of the system that put no message on its way. *)

\* The packets written, then those the queue will write.
Way == outbox \o Writes(mTaskQueue)

QueueThins == Thins(Writes(mTaskQueue'), Writes(mTaskQueue))

LEMMA WayTypes ==
    ASSUME TypeInv
    PROVE  /\ outbox \in Seq(Outgoing) /\ mTaskQueue \in Seq(Task)
           /\ Writes(mTaskQueue) \in Seq(Outgoing) /\ Way \in Seq(Outgoing)
           /\ OnTheWay = MessagesOf(Way)
<1>1. outbox \in Seq(Outgoing) /\ mTaskQueue \in Seq(Task)
  BY DEF TypeInv, TypeOK, TcpTypeOK, ClientTypeOK
<1>2. Writes(mTaskQueue) \in Seq(Outgoing)
  BY <1>1, WritesType
<1>3. Way \in Seq(Outgoing)
  BY <1>1, <1>2 DEF Way
<1> QED BY <1>1, <1>2, <1>3 DEF OnTheWay, Way, Writes

LEMMA WayShrinks ==
    ASSUME TypeInv, TypeInv', Thins(outbox', outbox), QueueThins
    PROVE  Thins(Way', Way)
<1> DEFINE w == Writes(mTaskQueue)
           v == Writes(mTaskQueue')
           a == outbox
           b == outbox'
<1>1. a \in Seq(Outgoing) /\ w \in Seq(Outgoing)
  BY WayTypes
<1>2. b \in Seq(Outgoing) /\ v \in Seq(Outgoing)
  <2>1. b \in Seq(Outgoing) /\ mTaskQueue' \in Seq(Task)
    BY DEF TypeInv, TypeOK, TcpTypeOK, ClientTypeOK
  <2> QED BY <2>1, WritesType
<1>3. Thins(b, a) /\ Thins(v, w)
  BY DEF QueueThins
<1>4. Way = a \o w /\ Way' = b \o v
  BY DEF Way
<1> HIDE DEF a, b, v, w
<1> QED BY <1>1, <1>2, <1>3, <1>4, ThinsConcat

\* The stream of a new connection is empty, and close() may drop the old one's.
LEMMA OutboxShrinks ==
    ASSUME TcpTypeOK, NEW w \in Seq(Outgoing)
    PROVE  /\ \A left \in LeftOver(w) : Thins(left, w)
           /\ Thins(<<>>, w) /\ Thins(w, w)
           /\ w # <<>> => Thins(Tail(w), w)
<1>1. Thins(<<>>, w)
  <2>1. \A i \in DOMAIN <<>> : <<>>[i].type # "PUBLISH"
    OBVIOUS
  <2> QED BY <2>1, ThinsNone
<1>2. Thins(w, w)
  BY ThinsSame
<1>3. \A left \in LeftOver(w) : left = w \/ left = <<>>
  BY DEF LeftOver
<1>4. ASSUME w # <<>> PROVE Thins(Tail(w), w)
  <2> DEFINE o == <<Head(w)>>
             t == Tail(w)
  <2>1. o \in Seq(Outgoing) /\ t \in Seq(Outgoing) /\ w = o \o t /\ <<>> \o t = t
    BY <1>4
  <2> HIDE DEF o, t
  <2>2. Thins(<<>>, o) /\ Thins(t, t)
    <3>1. \A i \in DOMAIN <<>> : <<>>[i].type # "PUBLISH"
      OBVIOUS
    <3> QED BY <3>1, ThinsNone, ThinsSame
  <2>3. Thins(<<>> \o t, o \o t)
    <3>1. <<>> \in Seq(Outgoing)
      OBVIOUS
    <3> QED BY <2>1, <2>2, <3>1, ThinsConcat
  <2> QED BY <2>1, <2>3 DEF t
<1> QED BY <1>1, <1>2, <1>3, <1>4

LEMMA CatchThins ==
    ASSUME ClientTypeOK, NEW tries, Catch(tries)
    PROVE  QueueThins
<1>1. CASE UNCHANGED mTaskQueue
  BY <1>1, ThinsSame DEF QueueThins
<1>2. CASE connectMqtt
  BY <1>2, ThinsReconnect DEF QueueThins
<1> QED BY <1>1, <1>2 DEF Catch

\* What the first task leaves in front.
LEMMA ReplaceThins ==
    ASSUME mTaskQueue \in Seq(Task), mTaskQueue # <<>>
    PROVE  /\ ReplaceBy(<<>>) => QueueThins
           /\ \A t \in Task : /\ Silent(t) \/ ToWrite(t) = ToWrite(This)
                              /\ ReplaceBy(<<t>>)
                              => QueueThins
<1>1. ASSUME ReplaceBy(<<>>) PROVE QueueThins
  <2>1. mTaskQueue' = Tail(mTaskQueue)
    BY <1>1, QueueTail DEF ReplaceBy, Others
  <2> QED BY <2>1, ThinsTail DEF QueueThins
<1>2. ASSUME NEW t \in Task, Silent(t) \/ ToWrite(t) = ToWrite(This), ReplaceBy(<<t>>)
      PROVE  QueueThins
  <2>1. mTaskQueue' = <<t>> \o Tail(mTaskQueue)
    BY <1>2 DEF ReplaceBy, Others
  <2>2. Silent(t) \/ ToWrite(t) = ToWrite(Head(mTaskQueue))
    BY <1>2 DEF This
  <2> QED BY <2>1, <2>2, ThinsReplace DEF QueueThins
<1> QED BY <1>1, <1>2

\* send() moves the packet from the queue to the stream, or nowhere.
LEMMA SendThins ==
    ASSUME TypeInv, TypeInv', QueueHasTask, SendAll \/ SendDisconnect
    PROVE  Thins(Way', Way)
<1> DEFINE p == This.req
           o == outbox
           r == Writes(Others)
<1>1. /\ mTaskQueue \in Seq(Task) /\ mTaskQueue # <<>>
      /\ This \in Task /\ This.kind = "send" /\ p \in Outgoing
      /\ Others \in Seq(Task) /\ r \in Seq(Outgoing) /\ o \in Seq(Outgoing)
      /\ Way = o \o (<<p>> \o r) /\ <<p>> \in Seq(Outgoing)
  <2>1. mTaskQueue \in Seq(Task) /\ mTaskQueue # <<>> /\ This.kind = "send"
    BY WayTypes DEF SendAll, SendDisconnect, Running, This, QueueHasTask
  <2>2. This \in Task /\ Others \in Seq(Task) /\ r \in Seq(Outgoing)
        /\ Writes(mTaskQueue) = <<ToWrite(This)>> \o r
        /\ <<ToWrite(This)>> \in Seq(Outgoing)
    BY <2>1, WritesHead DEF This, Others
  <2>3. ToWrite(This) = p /\ p \in Outgoing
    BY <2>1, <2>2 DEF ToWrite, Task
  <2> QED BY <2>1, <2>2, <2>3, WayTypes DEF Way
<1>2. Way = (o \o <<p>>) \o r
  <2> HIDE DEF p, o, r
  <2> QED BY <1>1, ConcatAssociative
<1>3. Thins(Written(p), o \o <<p>>)
  <2>1. Append(o, p) = o \o <<p>>
    BY <1>1
  <2>2. Thins(o \o <<p>>, o \o <<p>>)
    BY ThinsSame
  <2>3. Thins(o, o \o <<p>>)
    <3> HIDE DEF o, p
    <3>1. o \o <<>> = o /\ <<>> \in Seq(Outgoing)
      BY <1>1
    <3>2. Thins(<<>>, <<p>>) /\ Thins(o, o)
      <4>1. \A i \in DOMAIN <<>> : <<>>[i].type # "PUBLISH"
        OBVIOUS
      <4> QED BY <4>1, ThinsNone, ThinsSame
    <3>3. Thins(o \o <<>>, o \o <<p>>)
      BY <1>1, <3>1, <3>2, ThinsConcat
    <3> QED BY <3>1, <3>3
  <2> QED BY <2>1, <2>2, <2>3 DEF Written
<1>4. Written(p) \in Seq(Outgoing)
  BY <1>1, WrittenType DEF TypeInv, TypeOK
<1>5. Thins(outbox', o \o <<p>>)
  <2>1. CASE SendAll
    <3>1. outbox' = Written(p)
      BY <2>1 DEF SendAll, TcpSendAll
    <3> QED BY <1>3, <3>1
  <2>2. CASE SendDisconnect
    <3>1. outbox' \in LeftOver(Written(p))
      BY <2>2 DEF SendDisconnect, TcpSendAllAndClose
    <3>2. Thins(outbox', Written(p))
      BY <1>4, <3>1, OutboxShrinks DEF TypeInv, TypeOK
    <3> DEFINE x == outbox'
               y == Written(p)
               z == o \o <<p>>
    <3>3. Thins(x, y) /\ Thins(y, z)
      BY <1>3, <3>2
    <3> HIDE DEF x, y, z
    <3>4. Thins(x, z)
      BY <3>3, ThinsAgain
    <3> QED BY <3>4 DEF x, z
  <2> QED BY <2>1, <2>2
<1>6. Thins(Writes(mTaskQueue'), r)
  <2>1. CASE SendAll
    <3>1. CASE ReplaceBy(<<>>)
      <4>1. mTaskQueue' = Others
        BY <1>1, <3>1, QueueTail DEF ReplaceBy, Others
      <4> QED BY <4>1, ThinsSame
    <3>2. CASE ReplaceBy(<<RecvTask(p)>>)
      <4>1. RecvTask(p) \in Task /\ Silent(RecvTask(p))
        BY <1>1, TaskTypes, SilentTasks
      <4>2. mTaskQueue' = <<RecvTask(p)>> \o Others
        BY <3>2 DEF ReplaceBy
      <4> QED BY <1>1, <4>1, <4>2, ThinsFront
    <3> QED BY <2>1, <3>1, <3>2 DEF SendAll
  <2>2. CASE SendDisconnect
    <3>1. mTaskQueue' = <<>> /\ <<>> \in Seq(Task)
      BY <2>2 DEF SendDisconnect
    <3>2. \A i \in DOMAIN <<>> : Silent(<<>>[i])
      OBVIOUS
    <3> QED BY <3>1, <3>2, ThinsSilent
  <2> QED BY <2>1, <2>2
<1>7. outbox' \in Seq(Outgoing) /\ Writes(mTaskQueue') \in Seq(Outgoing)
  <2>1. outbox' \in Seq(Outgoing) /\ mTaskQueue' \in Seq(Task)
    BY DEF TypeInv, TypeOK, TcpTypeOK, ClientTypeOK
  <2> QED BY <2>1, WritesType
<1> DEFINE b == outbox'
           v == Writes(mTaskQueue')
           a == o \o <<p>>
<1>8. a \in Seq(Outgoing)
  BY <1>1
<1>9. Way' = b \o v
  BY DEF Way
<1> HIDE DEF a, b, v, r
<1>10. Thins(b \o v, a \o r)
  BY <1>1, <1>5, <1>6, <1>7, <1>8, ThinsConcat DEF a, b, v
<1> QED BY <1>2, <1>9, <1>10 DEF a

\* The other tasks leave the stream alone, or drop it.
LEMMA TasksThin ==
    ASSUME TypeInv, RunTask, ~SendAll, ~SendDisconnect
    PROVE  QueueThins /\ Thins(outbox', outbox)
<1>1. /\ ClientTypeOK /\ TcpTypeOK /\ mTaskQueue \in Seq(Task) /\ outbox \in Seq(Outgoing)
  BY WayTypes DEF TypeInv, TypeOK
<1>2. mTaskQueue # <<>> /\ This \in Task /\ This.req \in Outgoing
  BY <1>1, RunsTask DEF TypeInv
<1>3. Thins(outbox', outbox)
  <2>1. /\ \A left \in LeftOver(outbox) : Thins(left, outbox)
        /\ Thins(<<>>, outbox) /\ Thins(outbox, outbox)
    BY <1>1, OutboxShrinks
  <2>2. outbox' = outbox \/ outbox' = <<>> \/ outbox' \in LeftOver(outbox)
    BY DEF RunTask, TcpConnectWaits, TcpConnectOpens, TcpConnectThrows,
           CheckConnectRepeats, CheckConnectDone, CheckConnectThrows, Prepare,
           SendPart, SendNone, SendThrows, ReceiveNone, ReceiveThrows, Receive,
           Dispatch, Dispatched, Deliver, HandleViolation, HandleRefusal,
           HandleConnack, Handled, CallbackThrows, tcpVars, TcpOpen, TcpOpenThrows,
           TcpTakeError, TcpSendPart, TcpSendNone, TcpSendThrows, TcpRecvNone,
           TcpRecvThrows, TcpRecv, TcpClose
  <2> QED BY <2>1, <2>2
<1> SUFFICES QueueThins
  BY <1>3
<1>4. UNCHANGED mTaskQueue => QueueThins
  BY ThinsSame DEF QueueThins
<1>5. ReplaceBy(<<>>) => QueueThins
  BY <1>1, <1>2, ReplaceThins
<1>6. ASSUME NEW t \in Task, Silent(t) \/ ToWrite(t) = ToWrite(This), ReplaceBy(<<t>>)
      PROVE  QueueThins
  BY <1>1, <1>2, <1>6, ReplaceThins
<1>7. CASE \E tries : Catch(tries)
  BY <1>1, <1>7, CatchThins
<1>8. CASE Repeat \/ Dispatch \/ HandleConnack
  BY <1>4, <1>8 DEF Repeat, taskVars, Dispatch, HandleConnack
<1>9. CASE TcpConnectOpens \/ CheckConnectDone \/ Handled
  BY <1>5, <1>9 DEF TcpConnectOpens, CheckConnectDone, Handled
\* The packet is numbered if it is no PUBLISH, and is the task's own if it is one.
<1>10. CASE Prepare
  <2>1. This.kind = "prepare"
    BY <1>10 DEF Prepare, Running, This
  <2>2. CASE Numbered(This.req)
    <3> DEFINE p == [This.req EXCEPT !.id = mPacketIdentifierCounter]
    <3>1. p \in Outgoing /\ p.type # "PUBLISH"
      BY <1>1, <1>2, <2>2 DEF ClientTypeOK, Outgoing, Packet, Numbered
    <3>2. ReplaceBy(<<SendTask(p)>>)
      BY <1>10, <2>2 DEF Prepare
    <3> HIDE DEF p
    <3>3. SendTask(p) \in Task /\ Silent(SendTask(p))
      BY <3>1, TaskTypes DEF Silent, ToWrite, SendTask, MakeTask
    <3> QED BY <1>6, <3>2, <3>3
  <2>3. CASE ~Numbered(This.req)
    <3>1. ReplaceBy(<<SendTask(This.req)>>)
      BY <1>10, <2>3 DEF Prepare
    <3>2. SendTask(This.req) \in Task
      BY <1>2, TaskTypes
    <3>3. ToWrite(SendTask(This.req)) = ToWrite(This)
      BY <2>1 DEF ToWrite, SendTask, MakeTask
    <3> QED BY <1>6, <3>1, <3>2, <3>3
  <2> QED BY <2>2, <2>3
<1>11. CASE SendPart \/ SendNone
  <2>1. This.kind = "send" /\ This.rest \in BOOLEAN
    BY <1>2, <1>11 DEF SendPart, SendNone, Running, This, Task
  <2>2. ASSUME NEW written \in BOOLEAN, SendRest(written) PROVE QueueThins
    <3>1. RestTask(This.req, written) \in Task
      BY <1>2, TaskTypes
    <3>2. ToWrite(RestTask(This.req, written)) = ToWrite(This)
      BY <2>1 DEF ToWrite, RestTask
    <3>3. ReplaceBy(<<RestTask(This.req, written)>>)
      BY <2>2 DEF SendRest
    <3> QED BY <1>6, <3>1, <3>2, <3>3
  <2> QED BY <1>11, <2>1, <2>2 DEF SendPart, SendNone
<1>12. CASE Receive
  <2>1. PICK t \in Task : t.kind \in Receiving /\ ReplaceBy(<<t>>)
    BY <1>1, <1>2, <1>12, ReceivesTask
  <2>2. Silent(t)
    BY <2>1, SilentTasks DEF Receiving
  <2> QED BY <1>6, <2>1, <2>2
<1>13. CASE Dispatched
  <2>1. RecvTask(This.req) \in Task /\ Silent(RecvTask(This.req))
    BY <1>2, TaskTypes, SilentTasks
  <2> QED BY <1>5, <1>6, <1>13, <2>1 DEF Dispatched
<1>14. CASE Deliver
  <2>1. HandleTask(This) \in Task /\ HandleTask(This).kind = "handle"
    BY <1>2, TaskTypes DEF HandleTask, Task
  <2>2. Silent(HandleTask(This))
    BY <2>1, SilentTasks
  <2> QED BY <1>5, <1>6, <1>14, <2>1, <2>2 DEF Deliver
<1> QED BY <1>7, <1>8, <1>9, <1>10, <1>11, <1>12, <1>13, <1>14
        DEF RunTask, TcpConnectWaits, TcpConnectThrows, CheckConnectRepeats,
            CheckConnectThrows, SendThrows, ReceiveNone, ReceiveThrows,
            HandleViolation, HandleRefusal, CallbackThrows

\* Every step but publish() and the broker's taking of a PUBLISH adds nothing.
LEMMA StepsThin ==
    ASSUME TypeInv, TypeInv', [Next]_vars
    PROVE  \/ \E m \in Messages : publish(m) /\ UNCHANGED brokerVars
           \/ TakePublish /\ UNCHANGED clientVars
           \/ Thins(Way', Way) /\ UNCHANGED <<published, received>>
<1> SUFFICES ASSUME \A m \in Messages : ~(publish(m) /\ UNCHANGED brokerVars),
                    ~(TakePublish /\ UNCHANGED clientVars)
             PROVE  Thins(Way', Way) /\ UNCHANGED <<published, received>>
  OBVIOUS
<1>1. /\ ClientTypeOK /\ TcpTypeOK /\ mTaskQueue \in Seq(Task) /\ outbox \in Seq(Outgoing)
  BY WayTypes DEF TypeInv, TypeOK
<1>2. /\ \A left \in LeftOver(outbox) : Thins(left, outbox)
      /\ Thins(<<>>, outbox) /\ Thins(outbox, outbox)
      /\ outbox # <<>> => Thins(Tail(outbox), outbox)
  BY <1>1, OutboxShrinks
<1>3. QueueThins /\ Thins(outbox', outbox) => Thins(Way', Way)
  BY WayShrinks
<1>4. UNCHANGED mTaskQueue => QueueThins
  BY ThinsSame DEF QueueThins
<1>5. CASE Application /\ UNCHANGED brokerVars
  <2>1. PICK task \in Task : Enqueue(task) /\ Silent(task) /\ UNCHANGED published
    BY <1>5, TaskTypes, SilentTasks
       DEF Application, subscribe, unsubscribe, disconnect
  <2>2. mTaskQueue' = Append(mTaskQueue, task) /\ UNCHANGED outbox
    BY <2>1 DEF Enqueue, tcpVars
  <2>3. QueueThins
    BY <1>1, <2>1, <2>2, ThinsBack DEF QueueThins
  <2> QED BY <1>2, <1>3, <1>5, <2>1, <2>2, <2>3 DEF brokerVars
<1>6. WithReceive \in Seq(Task) /\ Thins(Writes(WithReceive), Writes(mTaskQueue))
  <2>1. RecvTask(NoPacket) \in Task /\ Silent(RecvTask(NoPacket))
    BY PacketTypes, TaskTypes, SilentTasks
  <2>2. Thins(Writes(<<RecvTask(NoPacket)>> \o mTaskQueue), Writes(mTaskQueue))
    BY <1>1, <2>1, ThinsFront
  <2>3. <<RecvTask(NoPacket)>> \o mTaskQueue \in Seq(Task)
    BY <1>1, <2>1, QueueFront
  <2> QED BY <1>1, <2>2, <2>3, ThinsSame DEF WithReceive
<1>7. ASSUME IdleWork PROVE QueueThins
  <2>1. CASE mTaskQueue' = WithReceive
    BY <1>6, <2>1 DEF QueueThins
  <2>2. CASE mTaskQueue' = Append(WithReceive, PingTask)
    <3>1. PingTask \in Task /\ Silent(PingTask)
      BY TaskTypes, SilentTasks
    <3> DEFINE x == Writes(Append(WithReceive, PingTask))
               y == Writes(WithReceive)
               z == Writes(mTaskQueue)
    <3>2. Thins(x, y) /\ Thins(y, z)
      BY <1>6, <3>1, ThinsBack
    <3> HIDE DEF x, y, z
    <3>3. Thins(x, z)
      BY <3>2, ThinsAgain
    <3> QED BY <2>2, <3>3 DEF QueueThins, x, z
  <2> QED BY <1>7, <2>1, <2>2 DEF IdleWork
<1>8. CASE (LoopCall \/ Loop \/ DelayElapses) /\ UNCHANGED brokerVars
  <2>1. UNCHANGED <<outbox, published, received>>
    BY <1>8 DEF LoopCall, Loop, DelayElapses, BlockSkip, BlockPoll, BlockIdle, PollData,
                PollThrows, PollTimeout, WhileDone, WhileTask, IdleWork, Catch,
                TcpTakeError, tcpVars, callVars, brokerVars
  <2> SUFFICES QueueThins
    BY <1>2, <1>3, <2>1
  <2>2. CASE LoopCall \/ BlockPoll \/ WhileDone \/ DelayElapses
    BY <1>4, <2>2 DEF LoopCall, BlockPoll, WhileDone, DelayElapses, taskVars
  <2>3. CASE BlockSkip
    BY <1>4, <1>6, <2>3 DEF BlockSkip, QueueThins
  <2>4. CASE BlockIdle \/ PollData \/ PollTimeout \/ WhileTask
    BY <1>7, <2>4 DEF BlockIdle, PollData, PollTimeout, WhileTask
  <2>5. CASE PollThrows
    BY <1>1, <2>5, CatchThins DEF PollThrows
  <2> QED BY <1>8, <2>2, <2>3, <2>4, <2>5 DEF Loop
<1>9. CASE RunTask /\ UNCHANGED brokerVars
  <2>1. UNCHANGED <<published, received>>
    BY <1>9 DEF RunTask, TcpConnectWaits, TcpConnectOpens, TcpConnectThrows, Repeat,
           CheckConnectRepeats, CheckConnectDone, CheckConnectThrows, Prepare,
           SendAll, SendDisconnect, SendRest,
           SendPart, SendNone, SendThrows, ReceiveNone, ReceiveThrows, Receive,
           Dispatch, Dispatched, Deliver, HandleViolation, HandleRefusal,
           HandleConnack, Handled, CallbackThrows, Catch, callVars, brokerVars
  <2>2. CASE SendAll \/ SendDisconnect
    BY <2>1, <2>2, SendThins DEF TypeInv
  <2>3. CASE ~SendAll /\ ~SendDisconnect
    BY <1>3, <1>9, <2>1, <2>3, TasksThin
  <2> QED BY <2>2, <2>3
<1>10. CASE Network /\ UNCHANGED <<clientVars, brokerVars>>
  <2>1. UNCHANGED <<mTaskQueue, published, received>>
    BY <1>10 DEF clientVars, taskVars, callVars, brokerVars
  <2>2. outbox' = outbox \/ outbox' = <<>>
    BY <1>10 DEF Network, Establish, Refuse, PeerCloses, Reset, Arrive, Tick
  <2> QED BY <1>2, <1>3, <1>4, <2>1, <2>2
<1>11. CASE BrokerStep /\ UNCHANGED clientVars
  <2>1. UNCHANGED <<mTaskQueue, published>>
    BY <1>11 DEF clientVars, taskVars, callVars
  <2>2. /\ UNCHANGED received
        /\ outbox' = outbox \/ (outbox # <<>> /\ outbox' = Tail(outbox))
    BY <1>11 DEF BrokerStep, Take, TakeRequest, TakeDisconnect, SendPublish, brokerVars
  <2> QED BY <1>2, <1>3, <1>4, <2>1, <2>2
<1>12. CASE UNCHANGED vars
  <2>1. UNCHANGED <<mTaskQueue, outbox, published, received>>
    BY <1>12 DEF vars, clientVars, taskVars, callVars, tcpVars, brokerVars
  <2> QED BY <1>2, <1>3, <1>4, <2>1
<1> QED BY <1>5, <1>8, <1>9, <1>10, <1>11, <1>12 DEF Next

-----------------------------------------------------------------------------
(* The two steps AtMostOnce tells from a loss. *)

LEMMA PublishIsLast ==
    ASSUME TypeInv, TypeInv', NEW m \in Messages, publish(m)
    PROVE  /\ OnTheWay' = Append(OnTheWay, m)
           /\ m \notin Range(published) /\ Range(published)' = Range(published) \cup {m}
<1> DEFINE p == MakePacket("PUBLISH", 0, m)
<1>1. /\ outbox' = outbox /\ mTaskQueue' = Append(mTaskQueue, PublishTask(m))
      /\ m \notin Range(published) /\ published' = Append(published, m)
  BY DEF publish, Enqueue, tcpVars
<1>2. /\ outbox \in Seq(Outgoing) /\ mTaskQueue \in Seq(Task)
      /\ Writes(mTaskQueue) \in Seq(Outgoing) /\ Way \in Seq(Outgoing)
      /\ OnTheWay = MessagesOf(Way) /\ OnTheWay' = MessagesOf(Way')
  <2>1. OnTheWay' = MessagesOf(Way')
    BY DEF OnTheWay, Way, Writes
  <2> QED BY <2>1, WayTypes
<1>3. /\ PublishTask(m) \in Task /\ ToWrite(PublishTask(m)) = p
      /\ p \in Outgoing /\ p.type = "PUBLISH" /\ p.arg = m
  BY TaskTypes, PacketTypes DEF PublishTask, MakeTask, MakePacket, ToWrite
<1> HIDE DEF p
<1>4. Writes(mTaskQueue') = Writes(mTaskQueue) \o <<p>>
  <2>1. Append(mTaskQueue, PublishTask(m)) = mTaskQueue \o <<PublishTask(m)>>
    BY <1>2, <1>3
  <2>2. Writes(mTaskQueue \o <<PublishTask(m)>>) = Writes(mTaskQueue) \o <<p>>
    BY <1>2, <1>3, WritesOne, WritesConcat
  <2> QED BY <1>1, <2>1, <2>2
<1>5. Way' = Append(Way, p)
  <2> DEFINE w == Writes(mTaskQueue)
             o == outbox
  <2>1. Way = o \o w /\ Way' = o \o (w \o <<p>>)
    BY <1>1, <1>4 DEF Way
  <2>2. w \in Seq(Outgoing) /\ o \in Seq(Outgoing) /\ <<p>> \in Seq(Outgoing)
    BY <1>2, <1>3
  <2> HIDE DEF o, w
  <2>3. Way' = (o \o w) \o <<p>>
    BY <2>1, <2>2, ConcatAssociative
  <2>4. Append(o \o w, p) = (o \o w) \o <<p>>
    BY <1>3, <2>2
  <2> QED BY <2>1, <2>3, <2>4
<1>6. OnTheWay' = Append(OnTheWay, m)
  BY <1>2, <1>3, <1>5, MessagesBack
<1>7. Range(Append(published, m)) = Range(published) \cup {m}
  <2>1. published \in Seq(Messages)
    BY DEF TypeInv, TypeOK, ClientTypeOK
  <2>2. /\ DOMAIN published = 1 .. Len(published) /\ Len(published) \in Nat
        /\ DOMAIN Append(published, m) = 1 .. Len(published) + 1
        /\ \A i \in 1 .. Len(published) : Append(published, m)[i] = published[i]
        /\ Append(published, m)[Len(published) + 1] = m
    BY <2>1
  <2>3. \A i : i \in 1 .. Len(published) + 1
                  <=> i \in 1 .. Len(published) \/ i = Len(published) + 1
    BY <2>2
  <2> QED BY <2>2, <2>3 DEF Range
<1> QED BY <1>1, <1>6, <1>7

LEMMA TakenIsFirst ==
    ASSUME TypeInv, TypeInv', TakePublish, UNCHANGED clientVars
    PROVE  /\ OnTheWay # <<>> /\ received' = Append(received, Head(OnTheWay))
           /\ OnTheWay' = Tail(OnTheWay) /\ published' = published
<1> DEFINE p == Head(outbox)
           t == Tail(outbox)
           w == Writes(mTaskQueue)
<1>1. /\ outbox \in Seq(Outgoing) /\ outbox # <<>> /\ p.type = "PUBLISH"
      /\ outbox' = t /\ received' = Append(received, p.arg)
      /\ UNCHANGED <<mTaskQueue, published>>
  BY WayTypes DEF TakePublish, clientVars, taskVars, callVars
<1>2. /\ p \in Outgoing /\ t \in Seq(Outgoing) /\ outbox = <<p>> \o t
      /\ <<p>> \in Seq(Outgoing)
  BY <1>1
<1>3. /\ w \in Seq(Outgoing) /\ Way = outbox \o w /\ Way' = t \o w
      /\ OnTheWay = MessagesOf(Way) /\ OnTheWay' = MessagesOf(Way')
  <2>1. OnTheWay' = MessagesOf(Way')
    BY DEF OnTheWay, Way, Writes
  <2> QED BY <1>1, <2>1, WayTypes DEF Way
<1> HIDE DEF p, t, w
<1>4. Way = <<p>> \o (t \o w) /\ t \o w \in Seq(Outgoing)
  BY <1>2, <1>3, ConcatAssociative
<1>5. OnTheWay = <<p.arg>> \o OnTheWay' /\ OnTheWay' \in Seq(Messages)
  BY <1>1, <1>2, <1>3, <1>4, MessagesFront, MessagesType
<1>6. p.arg \in Messages
  BY <1>1, <1>2 DEF Outgoing
<1>7. OnTheWay # <<>> /\ Head(OnTheWay) = p.arg /\ Tail(OnTheWay) = OnTheWay'
  <2> DEFINE r == OnTheWay'
  <2>1. r \in Seq(Messages) /\ OnTheWay = <<p.arg>> \o r
    BY <1>5
  <2> HIDE DEF r
  <2>2. OnTheWay # <<>> /\ Head(OnTheWay) = p.arg /\ Tail(OnTheWay) = r
    BY <1>6, <2>1
  <2> QED BY <2>2 DEF r
<1> QED BY <1>1, <1>7

\* Whatever breaks and reconnects, the broker takes the messages in the order of
\* the publish() calls and none of them twice: each step of the client, the network
\* and the broker is a step of AtMostOnce, or none (QoS 0, MQTTClient.cpp:35-113).
THEOREM PipeImplements == Spec => PipeSpec
<1>1. Init => Pipe!Init
  <2> SUFFICES ASSUME Init PROVE Pipe!Init
    OBVIOUS
  <2>1. /\ outbox = <<>> /\ mTaskQueue = ConnectTasks /\ published = <<>>
        /\ received = <<>> /\ TypeInv
    BY InitTypes DEF Init, ClientInit, TcpInit, BrokerInit
  <2>2. OnTheWay = <<>>
    <3>1. Way = Writes(ConnectTasks) /\ Way \in Seq(Outgoing)
      <4>1. Writes(ConnectTasks) \in Seq(Outgoing)
        BY TaskTypes, WritesType
      <4>2. <<>> \o Writes(ConnectTasks) = Writes(ConnectTasks)
        BY <4>1
      <4> QED BY <2>1, <4>1, <4>2 DEF Way
    <3>2. PublishAt(Way) = {}
      BY <3>1, TaskTypes, SilentTasks, WritesType DEF PublishAt, Silent
    <3>3. Len(MessagesOf(Way)) = 0 /\ MessagesOf(Way) \in Seq(Messages)
      BY <3>1, <3>2, MessagesType, FS_EmptySet
    <3>4. MessagesOf(Way) = <<>>
      BY <3>3
    <3> QED BY <2>1, <3>4, WayTypes
  <2>3. Range(published) = {}
    BY <2>1 DEF Range
  <2> QED BY <2>1, <2>2, <2>3 DEF Pipe!Init
<1>2. ASSUME TypeInv, TypeInv', [Next]_vars
      PROVE  [Pipe!Next]_Pipe!pipeVars
  <2>1. CASE \E m \in Messages : publish(m) /\ UNCHANGED brokerVars
    <3>1. PICK m \in Messages : publish(m) /\ UNCHANGED brokerVars
      BY <2>1
    <3>2. OnTheWay' = Append(OnTheWay, m) /\ m \notin Range(published)
          /\ Range(published)' = Range(published) \cup {m}
      BY <1>2, <3>1, PublishIsLast
    <3>3. received' = received
      BY <3>1 DEF brokerVars
    <3>4. Pipe!Publish(m)
      BY <3>2, <3>3 DEF Pipe!Publish
    <3> QED BY <3>4 DEF Pipe!Next
  <2>2. CASE TakePublish /\ UNCHANGED clientVars
    <3>1. Pipe!Deliver
      BY <1>2, <2>2, TakenIsFirst DEF Pipe!Deliver
    <3> QED BY <3>1 DEF Pipe!Next
  <2>3. CASE Thins(Way', Way) /\ UNCHANGED <<published, received>>
    <3>1. Thins(Way', Way) /\ UNCHANGED <<published, received>>
      BY <2>3
    <3>2. PartOf(OnTheWay', OnTheWay)
      <4>1. OnTheWay' = MessagesOf(Way') /\ OnTheWay = MessagesOf(Way)
        BY DEF OnTheWay, Way, Writes
      <4>2. Way' \in Seq(Outgoing) /\ Way \in Seq(Outgoing)
        <5>1. outbox' \in Seq(Outgoing) /\ mTaskQueue' \in Seq(Task)
          BY <1>2 DEF TypeInv, TypeOK, TcpTypeOK, ClientTypeOK
        <5>2. Writes(mTaskQueue') \in Seq(Outgoing)
          BY <5>1, WritesType
        <5> QED BY <1>2, <5>1, <5>2, WayTypes DEF Way
      <4> QED BY <3>1, <4>1, <4>2, ThinsMeans
    <3>3. CASE OnTheWay' # OnTheWay
      <4>1. PICK f \in [1 .. Len(OnTheWay') -> DOMAIN OnTheWay] :
               /\ \A i, j \in 1 .. Len(OnTheWay') : i < j => f[i] < f[j]
               /\ OnTheWay' = [i \in DOMAIN f |-> OnTheWay[f[i]]]
        BY <3>2 DEF PartOf
      <4>2. f \in Pipe!Choices(Len(OnTheWay'))
        BY <4>1 DEF Pipe!Choices
      <4>3. Pipe!Lose
        BY <3>1, <3>3, <4>1, <4>2 DEF Pipe!Lose
      <4> QED BY <4>3 DEF Pipe!Next
    <3>4. CASE OnTheWay' = OnTheWay
      BY <3>1, <3>4 DEF Pipe!pipeVars
    <3> QED BY <3>3, <3>4
  <2> QED BY <1>2, <2>1, <2>2, <2>3, StepsThin
<1> QED BY <1>1, <1>2, TypeInvCorrect, PTL DEF Spec, PipeSpec, Pipe!Spec
=============================================================================
