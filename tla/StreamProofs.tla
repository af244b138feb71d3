---------------------------- MODULE StreamProofs ----------------------------
(***************************************************************************)
(* StreamInv is inductive, and with it the two streams stay in order:      *)
(* Framing, ConnectFirst, StreamInSync and ReplyIsAwaited, for all values  *)
(* of the constants.                                                       *)
(***************************************************************************)
EXTENDS SafetyProofs, StreamInvariant

-----------------------------------------------------------------------------
(* Has and Sole, as a sequence changes. *)

\* One more element at the back.
LEMMA HasBack ==
    ASSUME NEW S, NEW q \in Seq(S), NEW t \in S
    PROVE  /\ \A C : Has(Append(q, t), C) <=> Has(q, C) \/ t \in C
           /\ \A C : Sole(q, C) /\ (t \in C => ~Has(q, C)) => Sole(Append(q, t), C)
<1> DEFINE r == Append(q, t)
           n == Len(q)
<1>1. /\ n \in Nat /\ DOMAIN q = 1 .. n /\ DOMAIN r = 1 .. n + 1
      /\ \A i \in 1 .. n : r[i] = q[i]
      /\ r[n + 1] = t
  BY QueueBack
<1> HIDE DEF r, n
<1>2. /\ \A i \in DOMAIN r : \/ i \in DOMAIN q /\ r[i] = q[i]
                             \/ i = n + 1 /\ r[i] = t
      /\ \A i \in DOMAIN q : i \in DOMAIN r /\ r[i] = q[i]
      /\ n + 1 \in DOMAIN r
  BY <1>1
<1>3. ASSUME NEW C PROVE Has(r, C) <=> Has(q, C) \/ t \in C
  BY <1>1, <1>2 DEF Has
<1>4. ASSUME NEW C, Sole(q, C), t \in C => ~Has(q, C) PROVE Sole(r, C)
  <2> SUFFICES ASSUME NEW i \in DOMAIN r, NEW j \in DOMAIN r, r[i] \in C, r[j] \in C
               PROVE  i = j
    BY DEF Sole
  <2>1. CASE t \in C
    BY <1>2, <1>4, <2>1 DEF Has
  <2>2. CASE t \notin C
    BY <1>2, <1>4, <2>2 DEF Sole
  <2> QED BY <2>1, <2>2
<1> QED BY <1>3, <1>4 DEF r

\* One more in front.
LEMMA HasFront ==
    ASSUME NEW S, NEW q \in Seq(S), NEW t \in S
    PROVE  \A C : Has(<<t>> \o q, C) <=> t \in C \/ Has(q, C)
<1> DEFINE r == <<t>> \o q
           n == Len(q)
<1>1. /\ n \in Nat /\ DOMAIN q = 1 .. n /\ DOMAIN r = 1 .. n + 1
      /\ r[1] = t
      /\ \A i \in 1 .. n : r[i + 1] = q[i]
  BY QueueFront
<1> HIDE DEF r, n
<1>2. \A i \in DOMAIN r : i # 1 => i - 1 \in DOMAIN q /\ r[i] = q[i - 1]
  <2> SUFFICES ASSUME NEW i \in DOMAIN r, i # 1
               PROVE  i - 1 \in DOMAIN q /\ r[i] = q[i - 1]
    OBVIOUS
  <2>1. i - 1 \in 1 .. n /\ (i - 1) + 1 = i
    BY <1>1
  <2> QED BY <1>1, <2>1
<1>3. /\ \A i \in DOMAIN q : i + 1 \in DOMAIN r /\ r[i + 1] = q[i]
      /\ 1 \in DOMAIN r
  BY <1>1
<1> QED BY <1>1, <1>2, <1>3 DEF Has, r

\* Without the first.
LEMMA HasTail ==
    ASSUME NEW S, NEW q \in Seq(S), q # <<>>
    PROVE  /\ \A C : Has(q, C) <=> Head(q) \in C \/ Has(Tail(q), C)
           /\ \A C : Sole(q, C) => /\ Sole(Tail(q), C)
                                   /\ Head(q) \in C => ~Has(Tail(q), C)
<1> DEFINE r == Tail(q)
           n == Len(q)
<1>1. /\ n \in Nat /\ n >= 1 /\ DOMAIN q = 1 .. n /\ DOMAIN r = 1 .. n - 1
      /\ Head(q) = q[1]
      /\ \A i \in 1 .. n - 1 : r[i] = q[i + 1]
  BY QueueTail
<1> HIDE DEF r, n
<1>2. \A i \in DOMAIN q : i # 1 => i - 1 \in DOMAIN r /\ r[i - 1] = q[i]
  <2> SUFFICES ASSUME NEW i \in DOMAIN q, i # 1
               PROVE  i - 1 \in DOMAIN r /\ r[i - 1] = q[i]
    OBVIOUS
  <2>1. i - 1 \in 1 .. n - 1 /\ (i - 1) + 1 = i
    BY <1>1
  <2> QED BY <1>1, <2>1
<1>3. /\ \A i \in DOMAIN r : i + 1 \in DOMAIN q /\ i + 1 # 1 /\ r[i] = q[i + 1] /\ i \in Nat
      /\ 1 \in DOMAIN q
  BY <1>1
<1>4. ASSUME NEW C PROVE Has(q, C) <=> Head(q) \in C \/ Has(r, C)
  BY <1>1, <1>2, <1>3 DEF Has
<1>5. ASSUME NEW C, Sole(q, C) PROVE Sole(r, C) /\ (Head(q) \in C => ~Has(r, C))
  <2>1. ASSUME NEW i \in DOMAIN r, NEW j \in DOMAIN r, r[i] \in C, r[j] \in C
        PROVE  i = j
    <3>1. i + 1 = j + 1
      BY <1>3, <1>5, <2>1 DEF Sole
    <3> QED BY <1>3, <3>1
  <2>2. Head(q) \in C => ~Has(r, C)
    BY <1>1, <1>3, <1>5 DEF Sole, Has
  <2> QED BY <2>1, <2>2 DEF Sole
<1> QED BY <1>4, <1>5 DEF r

\* Nothing.
LEMMA HasNone ==
    /\ \A C : ~Has(<<>>, C)
    /\ \A C : Sole(<<>>, C)
BY DEF Has, Sole

\* A part of what there was.
LEMMA HasLess ==
    ASSUME NEW q, NEW C, NEW D, C \subseteq D, Has(q, C)
    PROVE  Has(q, D)
BY DEF Has

\* Other elements, of the same sorts.
LEMMA HasSame ==
    ASSUME NEW q, NEW r, NEW C, DOMAIN q = DOMAIN r,
           \A i \in DOMAIN q : q[i] \in C <=> r[i] \in C
    PROVE  (Has(q, C) <=> Has(r, C)) /\ (Sole(q, C) <=> Sole(r, C))
BY DEF Has, Sole

-----------------------------------------------------------------------------
(* Sorts of tasks. *)

\* The rank of a task, by its kind and its request.
LEMMA Ranks ==
    ASSUME NEW t \in Task
    PROVE  /\ Rank(t) \in 0 .. 4
           /\ Rank(t) = 0 <=> t.kind \in Receiving \cup {"handle"}
           /\ Rank(t) = 1 <=> t.kind = "tcpConnect"
           /\ Rank(t) = 2 <=> t.kind = "checkConnect"
           /\ Rank(t) = 3 <=> t.kind \in {"prepare", "send"} /\ t.req.type = "CONNECT"
           /\ Rank(t) = 4 <=> t.kind \in {"prepare", "send"} /\ t.req.type # "CONNECT"
<1>1. t.kind \in TaskKinds
  BY DEF Task
<1> QED BY <1>1 DEF Rank, TaskKinds, Receiving

LEMMA Sorts ==
    ASSUME NEW t \in Task
    PROVE  /\ t \in Openers <=> Rank(t) = 1
           /\ t \in Firsts <=> Rank(t) = 3
           /\ t \in News <=> Rank(t) \in {2, 3}
           /\ t \in Joiners <=> t.req.type = "CONNECT"
           /\ t \in Rests <=> t.rest
           /\ \A p : t \in RestsNotOf(p) <=> t.rest /\ t.req # p
           /\ t \in Accepted <=> Rank(t) = 0 /\ Accepts(t.resp)
           /\ t \in Messaged <=> /\ t.kind \in Receiving /\ t.req.type = "CONNECT"
                                 /\ t.resp.type = "PUBLISH"
           /\ t \in Unanswered <=> /\ t.kind \in Receiving /\ t.req.type = "CONNECT"
                                   /\ t.resp = NoPacket
BY DEF Openers, Firsts, News, Joiners, Rests, RestsNotOf, Accepted, Messaged,
       Unanswered, Connacks

LEMMA NoPacketSorts ==
    /\ NoPacket.type = "INVALID"
    /\ ~Accepts(NoPacket)
    /\ NoPacket \in Outgoing
BY PacketTypes DEF NoPacket, MakePacket, Accepts

\* What may be behind task a, and what may not.
LEMMA Behind ==
    ASSUME NEW a \in Task, NEW b \in Task, FitTask(a), FitTask(b), Before(a, b)
    PROVE  /\ Rank(a) <= Rank(b)
           /\ Rank(a) # 0 => /\ b \notin Openers /\ Rank(b) # 0 /\ b \notin Accepted
                             /\ b \notin Messaged /\ b \notin Unanswered
                             /\ b \notin Rests /\ \A p : b \notin RestsNotOf(p)
           /\ Rank(a) \in {3, 4} => b \notin News /\ b \notin Joiners /\ b \notin Firsts
           /\ a.req # NoPacket => b \notin Rests /\ \A p : b \notin RestsNotOf(p)
           /\ a.req # NoPacket /\ b \in Joiners => Rank(b) = 3
<1>1. /\ Rank(a) \in 0 .. 4 /\ Rank(b) \in 0 .. 4
      /\ Rank(a) <= Rank(b)
      /\ Rank(a) = Rank(b) => Rank(a) \in {0, 4}
      /\ Rank(b) = 0 => a.req = NoPacket \/ b.req = NoPacket
      /\ b.rest => Rank(a) = 0 /\ a.req = NoPacket
      /\ Rank(b) \in {1, 2} => b.req = NoPacket
  BY Ranks DEF Before, FitTask
<1>2. b.kind \in Receiving => Rank(b) = 0
  BY Ranks
<1>3. b.req.type = "CONNECT" => b.req # NoPacket /\ Rank(b) # 4
  BY Ranks, NoPacketSorts
<1>4. Rank(a) # 0 => Rank(b) # 0 /\ Rank(b) # 1 /\ ~b.rest
  BY <1>1
<1>5. Rank(a) \in {3, 4} => Rank(b) = 4
  BY <1>1
<1>6. a.req # NoPacket => ~b.rest
  BY <1>1
<1>7. a.req # NoPacket /\ b.req.type = "CONNECT" => Rank(b) = 3
  BY <1>1, <1>3
<1> QED BY <1>1, <1>2, <1>3, <1>4, <1>5, <1>6, <1>7, Sorts

\* All the sorts at once: two queues that have tasks of the same sorts.
TaskSorts == {Openers, Firsts, News, Joiners, Rests, Accepted, Messaged, Unanswered}
             \cup {RestsNotOf(p) : p \in Outgoing}
Alike(q, r) == \A C \in TaskSorts : Has(q, C) <=> Has(r, C)

LEMMA AlikeMeans ==
    ASSUME NEW q, NEW r, Alike(q, r)
    PROVE  /\ Has(q, Openers) <=> Has(r, Openers)
           /\ Has(q, Firsts) <=> Has(r, Firsts)
           /\ Has(q, News) <=> Has(r, News)
           /\ Has(q, Joiners) <=> Has(r, Joiners)
           /\ Has(q, Rests) <=> Has(r, Rests)
           /\ Has(q, Accepted) <=> Has(r, Accepted)
           /\ Has(q, Messaged) <=> Has(r, Messaged)
           /\ Has(q, Unanswered) <=> Has(r, Unanswered)
           /\ \A p \in Outgoing : Has(q, RestsNotOf(p)) <=> Has(r, RestsNotOf(p))
<1>1. /\ Openers \in TaskSorts /\ Firsts \in TaskSorts /\ News \in TaskSorts
      /\ Joiners \in TaskSorts /\ Rests \in TaskSorts /\ Accepted \in TaskSorts
      /\ Messaged \in TaskSorts /\ Unanswered \in TaskSorts
      /\ \A p \in Outgoing : RestsNotOf(p) \in TaskSorts
  BY DEF TaskSorts
<1> QED BY <1>1 DEF Alike

\* A task of none of the sorts: a packet the application wants written, or the
\* receiver of anything but the reply to CONNECT.
LEMMA NoSort ==
    ASSUME NEW t \in Task, Rank(t) \in {0, 4}, ~t.rest, t.req.type # "CONNECT",
           ~Accepts(t.resp)
    PROVE  \A C \in TaskSorts : t \notin C
<1>1. Rank(t) \notin {1, 2, 3}
  OBVIOUS
<1> QED BY <1>1, Sorts DEF TaskSorts

-----------------------------------------------------------------------------
(* The order of the queue. *)

\* A task that may be behind all others.
Late(t) == FitTask(t) /\ Rank(t) = 4 /\ ~t.rest

LEMMA LateIsBehind ==
    ASSUME NEW t \in Task, Late(t), NEW a \in Task
    PROVE  Before(a, t)
BY Ranks DEF Late, Before

LEMMA LateTasks ==
    /\ \A m \in Messages : Late(PublishTask(m))
    /\ \A s \in Subs : Late(SubscribeTask(s))
    /\ \A t \in Topics : Late(UnsubscribeTask(t))
    /\ Late(PingTask) /\ Late(DisconnectTask)
BY TaskTypes DEF Late, FitTask, Rank, Receiving, PublishTask, SubscribeTask,
       UnsubscribeTask, PingTask, DisconnectTask, MakeTask, MakePacket

LEMMA OrderedBack ==
    ASSUME NEW q \in Seq(Task), Ordered(q), NEW t \in Task, Late(t)
    PROVE  Ordered(Append(q, t))
<1> DEFINE r == Append(q, t)
           n == Len(q)
<1>1. /\ n \in Nat /\ DOMAIN q = 1 .. n /\ DOMAIN r = 1 .. n + 1
      /\ \A i \in 1 .. n : r[i] = q[i] /\ q[i] \in Task
      /\ r[n + 1] = t
  BY QueueBack
<1> HIDE DEF r, n
<1>2. ASSUME NEW i \in DOMAIN r PROVE FitTask(r[i]) /\ r[i] \in Task
  BY <1>1, <1>2 DEF Ordered, Late
<1>3. ASSUME NEW i \in DOMAIN r, NEW j \in DOMAIN r, i < j PROVE Before(r[i], r[j])
  <2>1. CASE j = n + 1
    BY <1>1, <1>2, <2>1, LateIsBehind
  <2>2. CASE j # n + 1
    <3>1. i \in DOMAIN q /\ j \in DOMAIN q /\ r[i] = q[i] /\ r[j] = q[j]
      BY <1>1, <1>3, <2>2
    <3> QED BY <1>3, <3>1 DEF Ordered
  <2> QED BY <2>1, <2>2
<1>4. Ordered(r)
  BY <1>2, <1>3 DEF Ordered
<1> QED BY <1>4 DEF r

LEMMA OrderedFront ==
    ASSUME NEW q \in Seq(Task), Ordered(q), NEW t \in Task, FitTask(t),
           \A i \in DOMAIN q : Before(t, q[i])
    PROVE  Ordered(<<t>> \o q)
<1> DEFINE r == <<t>> \o q
           n == Len(q)
<1>1. /\ n \in Nat /\ DOMAIN q = 1 .. n /\ DOMAIN r = 1 .. n + 1
      /\ r[1] = t
      /\ \A i \in 1 .. n : r[i + 1] = q[i]
  BY QueueFront
<1> HIDE DEF r, n
<1>2. \A i \in DOMAIN r : i # 1 => i - 1 \in DOMAIN q /\ r[i] = q[i - 1]
  <2> SUFFICES ASSUME NEW i \in DOMAIN r, i # 1
               PROVE  i - 1 \in DOMAIN q /\ r[i] = q[i - 1]
    OBVIOUS
  <2>1. i - 1 \in 1 .. n /\ (i - 1) + 1 = i
    BY <1>1
  <2> QED BY <1>1, <2>1
<1>3. \A i \in DOMAIN r : FitTask(r[i])
  BY <1>1, <1>2 DEF Ordered
<1>4. ASSUME NEW i \in DOMAIN r, NEW j \in DOMAIN r, i < j PROVE Before(r[i], r[j])
  <2>1. j # 1 /\ j - 1 \in DOMAIN q /\ r[j] = q[j - 1]
    BY <1>1, <1>2, <1>4
  <2>2. CASE i = 1
    BY <1>1, <2>1, <2>2
  <2>3. CASE i # 1
    <3>1. i - 1 \in DOMAIN q /\ r[i] = q[i - 1] /\ i - 1 < j - 1
      BY <1>1, <1>2, <1>4, <2>3
    <3> QED BY <2>1, <3>1 DEF Ordered
  <2> QED BY <2>2, <2>3
<1>5. Ordered(r)
  BY <1>3, <1>4 DEF Ordered
<1> QED BY <1>5 DEF r

LEMMA OrderedTail ==
    ASSUME NEW q \in Seq(Task), q # <<>>, Ordered(q)
    PROVE  /\ Ordered(Tail(q))
           /\ FitTask(Head(q)) /\ Head(q) \in Task
           /\ \A i \in DOMAIN Tail(q) : /\ Tail(q)[i] \in Task /\ FitTask(Tail(q)[i])
                                        /\ Before(Head(q), Tail(q)[i])
<1> DEFINE r == Tail(q)
           n == Len(q)
<1>1. /\ n \in Nat /\ n >= 1 /\ DOMAIN q = 1 .. n /\ DOMAIN r = 1 .. n - 1
      /\ Head(q) = q[1] /\ Head(q) \in Task /\ r \in Seq(Task)
      /\ \A i \in 1 .. n - 1 : r[i] = q[i + 1]
  BY QueueTail
<1> HIDE DEF r, n
<1>2. \A i \in DOMAIN r : /\ i + 1 \in DOMAIN q /\ 1 < i + 1 /\ r[i] = q[i + 1]
                          /\ i \in Nat /\ r[i] \in Task
  BY <1>1
<1>3. 1 \in DOMAIN q
  BY <1>1
<1>4. \A i \in DOMAIN r : FitTask(r[i]) /\ Before(q[1], r[i])
  BY <1>2, <1>3 DEF Ordered
<1>5. ASSUME NEW i \in DOMAIN r, NEW j \in DOMAIN r, i < j PROVE Before(r[i], r[j])
  <2>1. i + 1 < j + 1
    BY <1>2, <1>5
  <2> QED BY <1>2, <2>1 DEF Ordered
<1>6. Ordered(r) /\ FitTask(q[1])
  BY <1>3, <1>4, <1>5 DEF Ordered
<1> QED BY <1>1, <1>2, <1>4, <1>6 DEF r

LEMMA ConcatFront ==
    ASSUME NEW S, NEW q \in Seq(S), NEW r \in Seq(S)
    PROVE  /\ Len(q \o r) = Len(q) + Len(r) /\ Len(q) \in Nat /\ Len(r) \in Nat
           /\ \A i \in 1 .. Len(q) : (q \o r)[i] = q[i]
OBVIOUS

\* The tasks of a new connection, and behind them nothing that is not late.
LEMMA ConnectOrdered ==
    ASSUME NEW w \in Seq(Task), Len(w) >= 3,
           \A i \in 1 .. 3 : w[i] = ConnectTasks[i],
           \A i \in DOMAIN w : i \notin 1 .. 3 => Late(w[i])
    PROVE  /\ Ordered(w) /\ Has(w, Openers) /\ Has(w, Firsts)
           /\ ~Has(w, Accepted)
           /\ \A p : ~Has(w, RestsNotOf(p))
<1>1. /\ w \in Seq(Task) /\ DOMAIN w = 1 .. Len(w) /\ Len(w) \in Nat /\ Len(w) >= 3
      /\ \A i \in 1 .. 3 : w[i] = ConnectTasks[i]
      /\ \A i \in DOMAIN w : w[i] \in Task /\ (i \notin 1 .. 3 => Late(w[i]))
      /\ ConnectTasks[1] = MakeTask("tcpConnect", FALSE, NoPacket)
      /\ ConnectTasks[2] = MakeTask("checkConnect", FALSE, NoPacket)
      /\ ConnectTasks[3] = MakeTask("prepare", FALSE, MakePacket("CONNECT", 0, "ok"))
  <2>1. /\ ConnectTasks[1] = MakeTask("tcpConnect", FALSE, NoPacket)
        /\ ConnectTasks[2] = MakeTask("checkConnect", FALSE, NoPacket)
        /\ ConnectTasks[3] = MakeTask("prepare", FALSE, MakePacket("CONNECT", 0, "ok"))
    BY DEF ConnectTasks
  <2> QED BY <2>1
<1>2. /\ w[1].kind = "tcpConnect" /\ w[1].req = NoPacket
      /\ w[2].kind = "checkConnect" /\ w[2].req = NoPacket
      /\ w[3].kind = "prepare" /\ w[3].req.type = "CONNECT"
      /\ \A i \in 1 .. 3 : w[i] \in Task /\ ~w[i].keep /\ ~w[i].rest
  BY <1>1 DEF MakeTask, MakePacket
<1>3. Rank(w[1]) = 1 /\ Rank(w[2]) = 2 /\ Rank(w[3]) = 3
  BY <1>2, Ranks
<1>4. /\ \A i \in DOMAIN w : w[i] \in Task /\ ~w[i].rest /\ Rank(w[i]) # 0
      /\ \A i \in DOMAIN w : FitTask(w[i])
  <2> SUFFICES ASSUME NEW i \in DOMAIN w
               PROVE  w[i] \in Task /\ ~w[i].rest /\ Rank(w[i]) # 0 /\ FitTask(w[i])
    OBVIOUS
  <2>1. CASE i \in 1 .. 3
    <3>1. i = 1 \/ i = 2 \/ i = 3
      BY <2>1
    <3> QED BY <1>2, <1>3, <3>1 DEF FitTask
  <2>2. CASE i \notin 1 .. 3
    BY <1>1, <2>2 DEF Late
  <2> QED BY <2>1, <2>2
<1>5. ASSUME NEW i \in DOMAIN w, NEW j \in DOMAIN w, i < j PROVE Before(w[i], w[j])
  <2>1. CASE j \in 1 .. 3
    <3>1. \/ i = 1 /\ j = 2
          \/ i = 1 /\ j = 3
          \/ i = 2 /\ j = 3
      BY <1>1, <1>5, <2>1
    <3> QED BY <1>2, <1>3, <3>1 DEF Before
  <2>2. CASE j \notin 1 .. 3
    BY <1>1, <1>4, <2>2, LateIsBehind
  <2> QED BY <2>1, <2>2
<1>6. Ordered(w)
  BY <1>4, <1>5 DEF Ordered
<1>7. Has(w, Openers) /\ Has(w, Firsts)
  <2>1. 1 \in DOMAIN w /\ 3 \in DOMAIN w /\ w[1] \in Openers /\ w[3] \in Firsts
    BY <1>1, <1>2, <1>3, Sorts
  <2> QED BY <2>1 DEF Has
<1>8. ~Has(w, Accepted) /\ \A p : ~Has(w, RestsNotOf(p))
  BY <1>4, Sorts DEF Has
<1> QED BY <1>6, <1>7, <1>8

\* The tasks of a new connection, and behind them those that are kept.
LEMMA ReconnectOrdered ==
    ASSUME ClientTypeOK, Ordered(mTaskQueue), connectMqtt
    PROVE  /\ Ordered(mTaskQueue')
           /\ Has(mTaskQueue', Openers) /\ Has(mTaskQueue', Firsts)
           /\ ~Has(mTaskQueue', Accepted)
           /\ \A p : ~Has(mTaskQueue', RestsNotOf(p))
<1>1. PICK order \in SetToSeqs(callbacks) :
         mTaskQueue' = ConnectTasks \o Kept(mTaskQueue) \o
                       [i \in DOMAIN order |-> SubscribeTask(order[i])]
  BY DEF connectMqtt
<1> DEFINE k == Kept(mTaskQueue)
           r == [i \in DOMAIN order |-> SubscribeTask(order[i])]
           ck == ConnectTasks \o k
           w == mTaskQueue'
<1>2. mTaskQueue \in Seq(Task) /\ callbacks \subseteq Subs /\ IsFiniteSet(callbacks)
  BY DEF ClientTypeOK
<1>3. /\ k \in Seq(Task)
      /\ \A n \in DOMAIN k : k[n] \in Task /\ Late(k[n])
  <2>1. /\ k \in Seq(Task)
        /\ \A n \in DOMAIN k : \E i \in DOMAIN mTaskQueue :
                                  k[n] = mTaskQueue[i] /\ mTaskQueue[i].keep
    BY <1>2, KeptIsQueue
  <2>2. \A i \in DOMAIN mTaskQueue : mTaskQueue[i] \in Task /\ FitTask(mTaskQueue[i])
    BY <1>2 DEF Ordered
  <2> HIDE DEF k
  <2>3. \A t \in Task : FitTask(t) /\ t.keep => Late(t)
    BY DEF FitTask, Late, Task
  <2> QED BY <2>1, <2>2, <2>3
<1>4. /\ r \in Seq(Task)
      /\ \A n \in DOMAIN r : r[n] \in Task /\ Late(r[n])
  <2>1. order \in Seq(callbacks)
    BY <1>2, OrderIsSeq
  <2>2. /\ DOMAIN order = 1 .. Len(order) /\ Len(order) \in Nat
        /\ \A i \in DOMAIN order : order[i] \in Subs
    BY <1>2, <2>1
  <2>3. r \in [1 .. Len(order) -> Task]
    BY <2>2, TaskTypes
  <2> QED BY <2>2, <2>3, TaskTypes, LateTasks
<1>5. /\ ConnectTasks \in Seq(Task) /\ Len(ConnectTasks) = 3
      /\ DOMAIN ConnectTasks = 1 .. 3
      /\ ConnectTasks[1] = MakeTask("tcpConnect", FALSE, NoPacket)
      /\ ConnectTasks[2] = MakeTask("checkConnect", FALSE, NoPacket)
      /\ ConnectTasks[3] = MakeTask("prepare", FALSE, MakePacket("CONNECT", 0, "ok"))
  <2>1. /\ Len(ConnectTasks) = 3
        /\ ConnectTasks[1] = MakeTask("tcpConnect", FALSE, NoPacket)
        /\ ConnectTasks[2] = MakeTask("checkConnect", FALSE, NoPacket)
        /\ ConnectTasks[3] = MakeTask("prepare", FALSE, MakePacket("CONNECT", 0, "ok"))
    BY DEF ConnectTasks
  <2>2. DOMAIN ConnectTasks = 1 .. Len(ConnectTasks)
    BY TaskTypes
  <2> QED BY <2>1, <2>2, TaskTypes
<1>6. w = ck \o r
  BY <1>1
<1> HIDE DEF k, r
<1>7. /\ ck \in Seq(Task) /\ Len(ck) = 3 + Len(k) /\ Len(k) \in Nat
      /\ \A i \in 1 .. 3 : ck[i] = ConnectTasks[i]
      /\ \A i \in DOMAIN ck : i \notin 1 .. 3 => ck[i] \in Task /\ Late(ck[i])
  <2>1. /\ ck \in Seq(Task)
        /\ \A n \in DOMAIN ck :
              \/ n \in DOMAIN ConnectTasks /\ ck[n] = ConnectTasks[n]
              \/ n - Len(ConnectTasks) \in DOMAIN k /\ ck[n] = k[n - Len(ConnectTasks)]
    BY <1>3, <1>5, QueueConcat
  <2>2. /\ Len(ck) = 3 + Len(k) /\ Len(k) \in Nat
        /\ \A i \in 1 .. 3 : ck[i] = ConnectTasks[i]
    <3>1. /\ Len(ck) = Len(ConnectTasks) + Len(k) /\ Len(k) \in Nat
          /\ \A i \in 1 .. Len(ConnectTasks) : ck[i] = ConnectTasks[i]
      BY <1>3, <1>5, ConcatFront
    <3> HIDE DEF ck
    <3> QED BY <1>5, <3>1
  <2> HIDE DEF ck
  <2> QED BY <1>3, <1>5, <2>1, <2>2
<1> HIDE DEF ck
<1>8. /\ w \in Seq(Task) /\ DOMAIN w = 1 .. Len(w) /\ Len(w) \in Nat /\ Len(w) >= 3
      /\ \A i \in 1 .. 3 : w[i] = ConnectTasks[i]
      /\ \A i \in DOMAIN w : i \notin 1 .. 3 => w[i] \in Task /\ Late(w[i])
  <2>1. /\ w \in Seq(Task)
        /\ \A n \in DOMAIN w :
              \/ n \in DOMAIN ck /\ w[n] = ck[n]
              \/ n - Len(ck) \in DOMAIN r /\ w[n] = r[n - Len(ck)]
    BY <1>4, <1>6, <1>7, QueueConcat
  <2>2. /\ Len(w) = Len(ck) + Len(r) /\ Len(r) \in Nat
        /\ \A i \in 1 .. Len(ck) : w[i] = ck[i]
    BY <1>4, <1>6, <1>7, ConcatFront
  <2> HIDE DEF w
  <2> QED BY <1>4, <1>7, <2>1, <2>2
<1> HIDE DEF w
<1>9. /\ Ordered(w) /\ Has(w, Openers) /\ Has(w, Firsts)
      /\ ~Has(w, Accepted)
      /\ \A p : ~Has(w, RestsNotOf(p))
  BY <1>8, ConnectOrdered
<1> QED BY <1>9 DEF w

-----------------------------------------------------------------------------
(* The first task, and those behind it. *)

LEMMA ThisRuns ==
    ASSUME ClientTypeOK, SafetyInv, mTaskQueue # <<>>, Ordered(mTaskQueue)
    PROVE  /\ This \in Task /\ FitTask(This) /\ Rank(This) \in 0 .. 4
           /\ Others \in Seq(Task) /\ Ordered(Others)
           /\ \A C : Has(mTaskQueue, C) <=> This \in C \/ Has(Others, C)
           /\ ~Has(Others, Unanswered)
           /\ Others # <<>> => /\ Rank(Head(Others)) \in 0 .. 4
                               /\ Rank(This) <= Rank(Head(Others))
                               /\ ~Incomplete(Head(Others))
           /\ \A i \in DOMAIN Others : /\ Others[i] \in Task /\ FitTask(Others[i])
                                       /\ Before(This, Others[i])
<1>1. mTaskQueue \in Seq(Task)
  BY DEF ClientTypeOK
<1>2. /\ Ordered(Others) /\ FitTask(This) /\ This \in Task /\ Others \in Seq(Task)
      /\ \A i \in DOMAIN Others : /\ Others[i] \in Task /\ FitTask(Others[i])
                                  /\ Before(This, Others[i])
      /\ \A C : Has(mTaskQueue, C) <=> This \in C \/ Has(Others, C)
  BY <1>1, OrderedTail, HasTail, QueueTail DEF This, Others
<1>3. \A i \in DOMAIN Others : ~Incomplete(Others[i])
  <2>1. Receivers(Others, FALSE)
    BY <1>1, ReceiversMeans, ReceiversTail DEF SafetyInv, Others
  <2> QED BY <2>1 DEF Receivers
<1>4. ~Has(Others, Unanswered)
  BY <1>2, <1>3, Sorts DEF Has, Incomplete
<1>5. Others # <<>> => /\ Rank(Head(Others)) \in 0 .. 4
                       /\ Rank(This) <= Rank(Head(Others))
                       /\ ~Incomplete(Head(Others))
  <2>1. Others # <<>> => 1 \in DOMAIN Others /\ Head(Others) = Others[1]
    BY <1>2
  <2> QED BY <1>2, <1>3, <2>1, Ranks DEF Before
<1> QED BY <1>2, <1>4, <1>5, Ranks

LEMMA OthersFollow ==
    ASSUME ClientTypeOK, SafetyInv, mTaskQueue # <<>>, Ordered(mTaskQueue)
    PROVE  /\ Rank(This) # 0 => /\ ~Has(Others, Openers) /\ ~Has(Others, Accepted)
                                /\ ~Has(Others, Messaged) /\ ~Has(Others, Rests)
                                /\ \A p : ~Has(Others, RestsNotOf(p))
           /\ Rank(This) \in {3, 4} => /\ ~Has(Others, News) /\ ~Has(Others, Joiners)
                                       /\ ~Has(Others, Firsts)
           /\ This.req # NoPacket => /\ ~Has(Others, Rests)
                                     /\ \A p : ~Has(Others, RestsNotOf(p))
                                     /\ Has(Others, Joiners) => Has(Others, News)
<1>1. \A i \in DOMAIN Others : /\ Others[i] \in Task /\ FitTask(Others[i])
                               /\ Before(This, Others[i])
  BY ThisRuns
<1>2. This \in Task /\ FitTask(This)
  BY ThisRuns
<1>3. \A i \in DOMAIN Others :
         /\ Rank(This) # 0 => /\ Others[i] \notin Openers /\ Others[i] \notin Accepted
                              /\ Others[i] \notin Messaged /\ Others[i] \notin Rests
                              /\ \A p : Others[i] \notin RestsNotOf(p)
         /\ Rank(This) \in {3, 4} => /\ Others[i] \notin News
                                     /\ Others[i] \notin Joiners
                                     /\ Others[i] \notin Firsts
         /\ This.req # NoPacket => /\ Others[i] \notin Rests
                                   /\ \A p : Others[i] \notin RestsNotOf(p)
                                   /\ Others[i] \in Joiners => Others[i] \in News
  BY <1>1, <1>2, Behind, Sorts
<1> QED BY <1>3 DEF Has

LEMMA QueueReplaced ==
    ASSUME ClientTypeOK, SafetyInv, mTaskQueue # <<>>, Ordered(mTaskQueue)
    PROVE  /\ ReplaceBy(<<>>) => mTaskQueue' = Others
           /\ \A t \in Task : ReplaceBy(<<t>>) =>
                 /\ mTaskQueue' # <<>> /\ Head(mTaskQueue') = t
                 /\ \A C : Has(mTaskQueue', C) <=> t \in C \/ Has(Others, C)
                 /\ (FitTask(t) /\ Rank(t) = Rank(This) /\ t.req = This.req)
                       => Ordered(mTaskQueue')
                 /\ (FitTask(t) /\ Rank(This) \in {3, 4} /\ Rank(t) \in {0, Rank(This)})
                       => Ordered(mTaskQueue')
<1>1. /\ Others \in Seq(Task) /\ Ordered(Others) /\ This \in Task
      /\ \A i \in DOMAIN Others : Others[i] \in Task /\ Before(This, Others[i])
  BY ThisRuns
<1>2. ReplaceBy(<<>>) => mTaskQueue' = Others
  BY <1>1 DEF ReplaceBy
<1>3. ASSUME NEW t \in Task, ReplaceBy(<<t>>)
      PROVE  /\ mTaskQueue' # <<>> /\ Head(mTaskQueue') = t
             /\ \A C : Has(mTaskQueue', C) <=> t \in C \/ Has(Others, C)
  BY <1>1, <1>3, QueueFront, HasFront DEF ReplaceBy
<1>4. ASSUME NEW t \in Task, ReplaceBy(<<t>>), FitTask(t), Rank(t) = Rank(This),
             t.req = This.req
      PROVE  Ordered(mTaskQueue')
  <2>1. \A i \in DOMAIN Others : Before(t, Others[i])
    BY <1>1, <1>4 DEF Before
  <2> QED BY <1>1, <1>4, <2>1, OrderedFront DEF ReplaceBy
<1>5. ASSUME NEW t \in Task, ReplaceBy(<<t>>), FitTask(t), Rank(This) \in {3, 4},
             Rank(t) \in {0, Rank(This)}
      PROVE  Ordered(mTaskQueue')
  <2>1. ASSUME NEW i \in DOMAIN Others PROVE Before(t, Others[i])
    <3>1. /\ Before(This, Others[i]) /\ Rank(Others[i]) \in 0 .. 4
      BY <1>1, Ranks
    <3> QED BY <1>5, <3>1 DEF Before
  <2> QED BY <1>1, <1>5, <2>1, OrderedFront DEF ReplaceBy
<1> QED BY <1>2, <1>3, <1>4, <1>5

\* What loop() enqueues is of none of the sorts.
LEMMA StrayReceiver ==
    /\ RecvTask(NoPacket) \in Task /\ FitTask(RecvTask(NoPacket))
    /\ Rank(RecvTask(NoPacket)) = 0 /\ ~RecvTask(NoPacket).rest
    /\ RecvTask(NoPacket).req = NoPacket /\ RecvTask(NoPacket).resp = NoPacket
    /\ RecvTask(NoPacket).kind = "recvType"
    /\ \A b \in Task : Before(RecvTask(NoPacket), b)
<1> DEFINE t == RecvTask(NoPacket)
<1>1. /\ t \in Task /\ t.kind = "recvType" /\ ~t.keep /\ ~t.rest
      /\ t.req = NoPacket /\ t.resp = NoPacket
  BY PacketTypes, TaskTypes DEF RecvTask, MakeTask
<1> HIDE DEF t
<1>2. Rank(t) = 0
  BY <1>1, Ranks DEF Receiving
<1>3. FitTask(t) /\ \A b \in Task : Before(t, b)
  BY <1>1, <1>2, Ranks DEF FitTask, Before
<1> QED BY <1>1, <1>2, <1>3 DEF t

-----------------------------------------------------------------------------
(* Steps that have much in common. *)

\* Requests or replies are on their way, so that one must be awaited.
Outstanding == /\ MaxRetries # 0 /\ ~Replacing
               /\ Has(outbox, Asked) \/ Has(inbox, Answers)

\* The socket is no worse than it was.
SameSocket == /\ mSocket' = "none" <=> mSocket = "none"
              /\ mSocket \in {"up", "none"} => mSocket' = mSocket

\* The queue, and what is to be read, stay; what is to be taken is not more.
LEMMA StreamQuiet ==
    ASSUME StreamInv, UNCHANGED <<mTaskQueue, inbox, cut, session, mDisconnected>>,
           outbox' = outbox \/ outbox' = <<>>,
           outbox' # <<>> => mSocket' \in {"up", "none"},
           mSocket' = "none" <=> mSocket = "none",
           mTries' = mTries \/ mTries' = 0,
           CallbackRuns', Outstanding /\ Outstanding' => WillTake'
    PROVE  StreamInv'
<1>1. Ordered(mTaskQueue)' /\ CutIsQueued'
  BY DEF StreamInv, CutIsQueued, Replacing
<1>2. /\ Has(outbox', Farewells) => Has(outbox, Farewells)
      /\ Has(outbox', NotFirst) => Has(outbox, NotFirst)
      /\ Has(outbox', Asked) => Has(outbox, Asked)
      /\ \A C : Has(outbox', Asked \ C) => Has(outbox, Asked \ C)
      /\ Sole(outbox, Asked) => Sole(outbox', Asked)
  BY HasNone
<1>3. NewConnection' /\ JoinsFirst'
  BY DEF StreamInv, NewConnection, JoinsFirst, Replacing
<1>4. InSession' /\ AcceptedInSession' /\ ReadInOrder' /\ InSync'
  BY <1>2 DEF StreamInv, InSession, AcceptedInSession, ReadInOrder, InSync, Replacing,
              Reader, Incomplete
<1>5. ConnackFirst'
  BY DEF StreamInv, ConnackFirst, Replacing
<1>6. MaxRetries # 0 => Awaited'
  BY <1>2 DEF StreamInv, Awaited, LockStep, Replacing, Outstanding
<1> QED BY <1>1, <1>3, <1>4, <1>5, <1>6 DEF StreamInv

\* The client reconnects.
LEMMA StreamReconnects ==
    ASSUME ClientTypeOK, StreamInv, connectMqtt, pc' # "callback", InSession', ReadInOrder'
    PROVE  StreamInv'
<1>1. /\ Ordered(mTaskQueue')
      /\ Has(mTaskQueue', Openers) /\ Has(mTaskQueue', Firsts)
      /\ ~Has(mTaskQueue', Accepted)
      /\ \A p : ~Has(mTaskQueue', RestsNotOf(p))
  BY ReconnectOrdered DEF StreamInv
<1>2. Replacing'
  BY <1>1 DEF Replacing
<1> QED BY <1>1, <1>2 DEF StreamInv, CutIsQueued, NewConnection, JoinsFirst,
                          AcceptedInSession, InSync, CallbackRuns, ConnackFirst, Awaited

\* A task or poll() fails, and the streams stay.
LEMMA StreamCatch ==
    ASSUME ClientTypeOK, StreamInv, ~mDisconnected, Catch(mTries),
           UNCHANGED <<inbox, outbox, cut, session>>, SameSocket,
           pc = "callback" /\ ~MayRetry(mTries) => ~Outstanding
    PROVE  StreamInv'
<1>1. /\ pc' = "out"
      /\ UNCHANGED <<mDisconnected, mTries, mCurrentlyReceivingPacket>>
  BY DEF Catch, Return
<1>2. CASE connectMqtt
  <2>1. InSession' /\ ReadInOrder'
    BY <1>1 DEF StreamInv, InSession, ReadInOrder, SameSocket
  <2> QED BY <1>1, <1>2, <2>1, StreamReconnects
<1>3. CASE UNCHANGED <<mTaskQueue, callbacks>> /\ ~MayRetry(mTries)
  <2>1. outbox' # <<>> => mSocket' \in {"up", "none"}
    BY DEF StreamInv, InSession, SameSocket
  <2>2. CallbackRuns'
    BY <1>1 DEF CallbackRuns
  <2>3. Outstanding => WillTake'
    BY <1>1, <1>3 DEF StreamInv, Outstanding, Awaited, WillTake, AwaitsReply
  <2> QED BY <1>1, <1>3, <2>1, <2>2, <2>3, StreamQuiet DEF SameSocket
<1> QED BY <1>2, <1>3 DEF Catch

\* The queue changes, but not the sorts of what it holds.
LEMMA StreamAlike ==
    ASSUME TcpTypeOK, StreamInv, Ordered(mTaskQueue'), Alike(mTaskQueue', mTaskQueue),
           UNCHANGED <<inbox, outbox, cut, session, mDisconnected, mTries>>, SameSocket,
           Has(mTaskQueue, News) /\ ~Replacing => Rank(Head(mTaskQueue')) # 0,
           ~Replacing /\ Reader = 0 => Reader' = 0,
           ~Replacing => Reader = 0 \/ Reader' = Reader,
           CallbackRuns', Outstanding => WillTake' /\ UNCHANGED (Head(mTaskQueue).req)
    PROVE  StreamInv'
<1>1. /\ Has(mTaskQueue', Openers) <=> Has(mTaskQueue, Openers)
      /\ Has(mTaskQueue', Firsts) <=> Has(mTaskQueue, Firsts)
      /\ Has(mTaskQueue', News) <=> Has(mTaskQueue, News)
      /\ Has(mTaskQueue', Joiners) <=> Has(mTaskQueue, Joiners)
      /\ Has(mTaskQueue', Rests) <=> Has(mTaskQueue, Rests)
      /\ Has(mTaskQueue', Accepted) <=> Has(mTaskQueue, Accepted)
      /\ Has(mTaskQueue', Messaged) <=> Has(mTaskQueue, Messaged)
      /\ Has(mTaskQueue', Unanswered) <=> Has(mTaskQueue, Unanswered)
      /\ Has(mTaskQueue', RestsNotOf(cut)) <=> Has(mTaskQueue, RestsNotOf(cut))
  BY AlikeMeans DEF TcpTypeOK
<1>2. Replacing' <=> Replacing
  BY <1>1 DEF Replacing
<1>3. CutIsQueued' /\ NewConnection' /\ JoinsFirst'
  BY <1>1, <1>2 DEF StreamInv, CutIsQueued, NewConnection, JoinsFirst, SameSocket
<1>4. InSession' /\ AcceptedInSession' /\ ReadInOrder'
  BY <1>1 DEF StreamInv, InSession, AcceptedInSession, ReadInOrder, SameSocket
<1>5. InSync' /\ ConnackFirst'
  BY <1>1, <1>2 DEF StreamInv, InSync, ConnackFirst
<1>6. MaxRetries # 0 => Awaited'
  BY <1>2 DEF StreamInv, Awaited, LockStep, Outstanding
<1> QED BY <1>3, <1>4, <1>5, <1>6 DEF StreamInv

-----------------------------------------------------------------------------
(* More tasks in the queue. *)

LEMMA AlikeBack ==
    ASSUME NEW q \in Seq(Task), NEW t \in Task, Late(t), t.resp = NoPacket
    PROVE  Alike(Append(q, t), q)
<1>1. t.req.type # "CONNECT" /\ Rank(t) = 4 /\ ~t.rest
  BY Ranks DEF Late
<1>2. \A C \in TaskSorts : t \notin C
  BY <1>1, NoSort, NoPacketSorts
<1> QED BY <1>2, HasBack DEF Alike

LEMMA AlikeFront ==
    ASSUME NEW q \in Seq(Task)
    PROVE  Alike(<<RecvTask(NoPacket)>> \o q, q)
<1>1. \A C \in TaskSorts : RecvTask(NoPacket) \notin C
  BY StrayReceiver, NoSort, NoPacketSorts
<1> QED BY <1>1, StrayReceiver, HasFront DEF Alike

\* The first task stays where it is, and nothing else happens.
LEMMA StreamGrows ==
    ASSUME ClientTypeOK, TcpTypeOK, SafetyInv, StreamInv,
           Ordered(mTaskQueue'), Alike(mTaskQueue', mTaskQueue),
           UNCHANGED <<inbox, outbox, cut, session, mDisconnected, mTries,
                       mCurrentlyReceivingPacket>>, SameSocket,
           pc' = "callback" <=> pc = "callback",
           mTaskQueue # <<>> => /\ mTaskQueue' # <<>>
                                /\ Head(mTaskQueue') = Head(mTaskQueue),
           mTaskQueue = <<>> /\ mTaskQueue' # <<>>
               => Head(mTaskQueue').kind \notin Receiving
    PROVE  StreamInv'
<1>1. Has(mTaskQueue, News) => mTaskQueue # <<>>
  BY HasNone
<1>2. Has(mTaskQueue, News) /\ ~Replacing => Rank(Head(mTaskQueue')) # 0
  BY <1>1 DEF StreamInv, NewConnection
<1>3. Reader' = Reader
  BY DEF Reader, Incomplete
<1>4. CallbackRuns'
  BY DEF StreamInv, CallbackRuns, SafetyInv, QueueHasTask
<1>5. Outstanding => WillTake' /\ UNCHANGED (Head(mTaskQueue).req)
  BY DEF StreamInv, Outstanding, Awaited, WillTake, AwaitsReply
<1> QED BY <1>2, <1>3, <1>4, <1>5, StreamAlike

\* A receive for data nobody waits for goes in front.
LEMMA StreamUnexpected ==
    ASSUME ClientTypeOK, TcpTypeOK, SafetyInv, StreamInv, Unexpected,
           pc # "callback", pc' # "callback",
           Ordered(mTaskQueue'), Alike(mTaskQueue', mTaskQueue),
           UNCHANGED <<inbox, outbox, cut, session, mDisconnected, mTries>>, SameSocket,
           mTaskQueue' # <<>>, Head(mTaskQueue') = RecvTask(NoPacket)
    PROVE  StreamInv'
<1>1. inbox # <<>> /\ ~mCurrentlyReceivingPacket
  BY DEF Unexpected, isDataAvailable
<1>2. ~(Has(mTaskQueue, News) /\ ~Replacing)
  BY <1>1 DEF StreamInv, NewConnection
<1>3. Reader = 0
  <2>1. mTaskQueue # <<>> => ~Incomplete(Head(mTaskQueue))
    <3>1. mTaskQueue # <<>> => 1 \in DOMAIN mTaskQueue /\ Head(mTaskQueue) = mTaskQueue[1]
      BY DEF ClientTypeOK
    <3> QED BY <1>1, <3>1 DEF SafetyInv, OneReceiver
  <2> QED BY <2>1 DEF Reader
<1>4. Reader' = 0
  BY StrayReceiver DEF Reader, ReadsDone
<1>5. ~Outstanding
  BY <1>1 DEF StreamInv, Outstanding, Awaited, WillTake
<1>6. CallbackRuns'
  BY DEF CallbackRuns
<1> QED BY <1>2, <1>3, <1>4, <1>5, <1>6, StreamAlike

\* The calls of the application.
LEMMA StreamCalls ==
    ASSUME ClientTypeOK, TcpTypeOK, SafetyInv, StreamInv, Application
    PROVE  StreamInv'
<1>1. PICK t \in Task : Late(t) /\ t.kind = "prepare" /\ t.resp = NoPacket /\ Enqueue(t)
  <2>1. /\ \A m \in Messages : /\ PublishTask(m).kind = "prepare"
                                /\ PublishTask(m).resp = NoPacket
        /\ \A s \in Subs : /\ SubscribeTask(s).kind = "prepare"
                            /\ SubscribeTask(s).resp = NoPacket
        /\ \A t \in Topics : /\ UnsubscribeTask(t).kind = "prepare"
                             /\ UnsubscribeTask(t).resp = NoPacket
        /\ DisconnectTask.kind = "prepare" /\ DisconnectTask.resp = NoPacket
    BY DEF PublishTask, SubscribeTask, UnsubscribeTask, DisconnectTask, MakeTask
  <2> QED BY <2>1, TaskTypes, LateTasks
          DEF Application, publish, subscribe, unsubscribe, disconnect
<1>2. /\ mTaskQueue \in Seq(Task) /\ mTaskQueue' = Append(mTaskQueue, t)
      /\ UNCHANGED <<inbox, outbox, cut, session, mSocket, mDisconnected, mTries,
                     mCurrentlyReceivingPacket, pc>>
  BY <1>1 DEF ClientTypeOK, Enqueue, loopVars, tcpVars
<1>3. Ordered(mTaskQueue') /\ Alike(mTaskQueue', mTaskQueue)
  BY <1>1, <1>2, OrderedBack, AlikeBack DEF StreamInv
<1>4. /\ mTaskQueue' # <<>>
      /\ mTaskQueue # <<>> => Head(mTaskQueue') = Head(mTaskQueue)
      /\ mTaskQueue = <<>> => Head(mTaskQueue') = t
  BY <1>2, QueueBack
<1>5. t.kind \notin Receiving
  BY <1>1 DEF Receiving
<1> QED BY <1>2, <1>3, <1>4, <1>5, StreamGrows DEF SameSocket

\* What loop() enqueues between two tasks: a receive in front, a ping at the back.
LEMMA IdleQueue ==
    ASSUME ClientTypeOK, StreamInv,
           \/ mTaskQueue' = WithReceive
           \/ mTaskQueue' = Append(WithReceive, PingTask)
    PROVE  /\ Ordered(mTaskQueue') /\ Alike(mTaskQueue', mTaskQueue)
           /\ Unexpected => mTaskQueue' # <<>> /\ Head(mTaskQueue') = RecvTask(NoPacket)
           /\ ~Unexpected /\ mTaskQueue # <<>> =>
                 mTaskQueue' # <<>> /\ Head(mTaskQueue') = Head(mTaskQueue)
           /\ ~Unexpected /\ mTaskQueue = <<>> /\ mTaskQueue' # <<>> =>
                 Head(mTaskQueue').kind \notin Receiving
<1>1. mTaskQueue \in Seq(Task) /\ Ordered(mTaskQueue)
  BY DEF ClientTypeOK, StreamInv
<1>2. /\ WithReceive \in Seq(Task) /\ Ordered(WithReceive)
      /\ Alike(WithReceive, mTaskQueue)
      /\ Unexpected => WithReceive # <<>> /\ Head(WithReceive) = RecvTask(NoPacket)
      /\ ~Unexpected => WithReceive = mTaskQueue
  <2>1. CASE Unexpected
    <3>1. \A i \in DOMAIN mTaskQueue : Before(RecvTask(NoPacket), mTaskQueue[i])
      BY <1>1, StrayReceiver
    <3>2. /\ Ordered(<<RecvTask(NoPacket)>> \o mTaskQueue)
          /\ Alike(<<RecvTask(NoPacket)>> \o mTaskQueue, mTaskQueue)
      BY <1>1, <3>1, StrayReceiver, OrderedFront, AlikeFront
    <3> QED BY <1>1, <2>1, <3>2, StrayReceiver, QueueFront DEF WithReceive
  <2>2. CASE ~Unexpected
    BY <1>1, <2>2 DEF WithReceive, Alike
  <2> QED BY <2>1, <2>2
<1>3. CASE mTaskQueue' = WithReceive
  BY <1>2, <1>3
<1>4. CASE mTaskQueue' = Append(WithReceive, PingTask)
  <2>1. /\ PingTask \in Task /\ Late(PingTask) /\ PingTask.resp = NoPacket
        /\ PingTask.kind \notin Receiving
    BY TaskTypes, LateTasks DEF PingTask, MakeTask, Receiving
  <2>2. Ordered(mTaskQueue') /\ Alike(mTaskQueue', WithReceive)
    BY <1>2, <1>4, <2>1, OrderedBack, AlikeBack
  <2>3. /\ mTaskQueue' # <<>>
        /\ WithReceive # <<>> => Head(mTaskQueue') = Head(WithReceive)
        /\ WithReceive = <<>> => Head(mTaskQueue') = PingTask
    BY <1>2, <1>4, <2>1, QueueBack
  <2>4. Alike(mTaskQueue', mTaskQueue)
    BY <1>2, <2>2 DEF Alike
  <2> QED BY <1>2, <2>1, <2>2, <2>3, <2>4
<1> QED BY <1>3, <1>4

LEMMA StreamIdles ==
    ASSUME ClientTypeOK, TcpTypeOK, SafetyInv, StreamInv,
           \/ mTaskQueue' = WithReceive
           \/ mTaskQueue' = Append(WithReceive, PingTask),
           mCurrentlyReceivingPacket' = FlagWithReceive,
           pc # "callback", pc' # "callback",
           UNCHANGED <<inbox, outbox, cut, session, mDisconnected, mTries>>, SameSocket
    PROVE  StreamInv'
<1>1. CASE Unexpected
  BY <1>1, IdleQueue, StreamUnexpected
<1>2. CASE ~Unexpected
  <2>1. UNCHANGED mCurrentlyReceivingPacket
    BY <1>2 DEF FlagWithReceive, ClientTypeOK
  <2> QED BY <1>2, <2>1, IdleQueue, StreamGrows
<1> QED BY <1>1, <1>2

\* loop(), up to the task.
LEMMA StreamLoop ==
    ASSUME ClientTypeOK, TcpTypeOK, SafetyInv, StreamInv, LoopCall \/ Loop
    PROVE  StreamInv'
<1> DEFINE Still == UNCHANGED <<inbox, outbox, cut, session, mDisconnected, mTries>>
           Outside == pc # "callback" /\ pc' # "callback"
           Idled == /\ mCurrentlyReceivingPacket' = FlagWithReceive
                    /\ \/ mTaskQueue' = WithReceive
                       \/ mTaskQueue' = Append(WithReceive, PingTask)
<1>1. ASSUME Still, Outside, UNCHANGED <<mTaskQueue, mCurrentlyReceivingPacket, mSocket>>
      PROVE  StreamInv'
  <2>1. outbox' # <<>> => mSocket' \in {"up", "none"}
    BY <1>1 DEF StreamInv, InSession
  <2>2. CallbackRuns'
    BY <1>1 DEF CallbackRuns
  <2>3. Outstanding => WillTake'
    BY <1>1 DEF StreamInv, Outstanding, Awaited, WillTake, AwaitsReply
  <2> QED BY <1>1, <2>1, <2>2, <2>3, StreamQuiet
<1>2. CASE LoopCall \/ BlockPoll \/ WhileDone
  BY <1>1, <1>2 DEF LoopCall, BlockPoll, WhileDone, Return, taskVars, tcpVars
<1>3. CASE BlockSkip
  <2>1. /\ Still /\ Outside /\ UNCHANGED mSocket
        /\ Idled \/ UNCHANGED <<mTaskQueue, mCurrentlyReceivingPacket>>
    BY <1>3 DEF BlockSkip, Goto, tcpVars
  <2> QED BY <1>1, <2>1, StreamIdles DEF SameSocket
<1>4. CASE BlockIdle \/ PollData \/ PollTimeout \/ WhileTask
  <2>1. Idled /\ UNCHANGED <<mDisconnected, mTries>>
    BY <1>4 DEF BlockIdle, PollData, PollTimeout, WhileTask, IdleWork
  <2>2. UNCHANGED <<inbox, outbox, cut, session>> /\ SameSocket
    BY <1>4 DEF BlockIdle, PollData, PollTimeout, WhileTask, TcpTakeError, SameSocket,
                tcpVars
  <2>3. Outside
    BY <1>4 DEF BlockIdle, PollData, PollTimeout, WhileTask, Polled, Goto
  <2> QED BY <2>1, <2>2, <2>3, StreamIdles
<1>5. CASE PollThrows
  <2>1. /\ pc = "poll" /\ Catch(mTries) /\ mSocket # "none"
        /\ UNCHANGED <<inbox, outbox, cut, session, mSocket>>
    BY <1>5 DEF PollThrows, tcpVars, blockUntilDataAvailable, isDataAvailable
  <2>2. ~mDisconnected
    BY <2>1, RunningHasSocket
  <2> QED BY <2>1, <2>2, StreamCatch DEF SameSocket
<1> QED BY <1>2, <1>3, <1>4, <1>5 DEF Loop

-----------------------------------------------------------------------------
(* The tasks that fail. *)

\* The task stays the first, and the streams stay.
LEMMA StreamRepeats ==
    ASSUME ClientTypeOK, TcpTypeOK, SafetyInv, StreamInv,
           TcpConnectWaits \/ CheckConnectRepeats \/ ReceiveNone
    PROVE  StreamInv'
<1>1. /\ UNCHANGED <<inbox, outbox, cut, session, mSocket, mTaskQueue, mDisconnected,
                     mTries, mCurrentlyReceivingPacket>>
      /\ pc = "run" /\ pc' # "callback"
  BY DEF TcpConnectWaits, CheckConnectRepeats, ReceiveNone, Running, Repeat, AfterTask,
         Return, Goto, TcpRecvNone, taskVars, tcpVars
<1>2. outbox' # <<>> => mSocket' \in {"up", "none"}
  BY <1>1 DEF StreamInv, InSession
<1>3. CallbackRuns'
  BY <1>1 DEF CallbackRuns
<1>4. Outstanding => WillTake'
  BY <1>1 DEF StreamInv, Outstanding, Awaited, WillTake, AwaitsReply
<1> QED BY <1>1, <1>2, <1>3, <1>4, StreamQuiet

\* A callback that throws when no try is left leaves nothing outstanding: CONNACK
\* would have made the tries start again.
LEMMA NothingOutstanding ==
    ASSUME ClientTypeOK, SafetyInv, StreamInv, pc = "callback", ~MayRetry(mTries)
    PROVE  ~Outstanding
<1> SUFFICES ASSUME MaxRetries # 0, ~Replacing, WillTake
             PROVE  FALSE
  BY DEF Outstanding, StreamInv, Awaited
<1>1. mTaskQueue # <<>>
  BY RunningHasSocket
<1>2. mTries # 0
  <2>1. mTries \in Nat /\ MaxRetries \in Int
    BY ClientAssumption DEF ClientTypeOK
  <2> QED BY <2>1 DEF MayRetry
<1>3. This.req # NoPacket /\ Rank(This) = 0 /\ This \in Task
  <2>1. This \in Task
    BY <1>1, ThisRuns DEF StreamInv
  <2> QED BY <2>1, Ranks DEF WillTake, AwaitsReply, This
<1>4. Has(mTaskQueue, Joiners)
  BY <1>2 DEF StreamInv, JoinsFirst
<1>5. This.kind = "recvBody" /\ This.resp.type = "PUBLISH"
  BY <1>2 DEF StreamInv, CallbackRuns, This
<1>6. This \notin Joiners
  <2>1. ~Has(mTaskQueue, Messaged)
    BY DEF StreamInv, ConnackFirst
  <2>2. This \notin Messaged
    BY <1>1, <2>1, ThisRuns DEF StreamInv
  <2> QED BY <1>3, <1>5, <2>2, Sorts DEF Receiving
<1>7. Has(Others, Joiners)
  BY <1>1, <1>4, <1>6, ThisRuns DEF StreamInv
<1>8. Has(Others, News)
  BY <1>1, <1>3, <1>7, OthersFollow DEF StreamInv
<1>9. Has(mTaskQueue, News)
  BY <1>1, <1>8, ThisRuns DEF StreamInv
<1> QED BY <1>3, <1>9 DEF StreamInv, NewConnection, This

\* A task throws, and the connection stays until the client reconnects.
LEMMA StreamFails ==
    ASSUME ClientTypeOK, TcpTypeOK, SafetyInv, StreamInv,
           CheckConnectThrows \/ SendThrows \/ ReceiveThrows \/ HandleRefusal
              \/ CallbackThrows
    PROVE  StreamInv'
<1>1. pc \in {"run", "callback"}
  BY DEF CheckConnectThrows, SendThrows, ReceiveThrows, HandleRefusal, CallbackThrows,
         Running, InOnConnect, InOnMessage
<1>2. ~mDisconnected
  BY <1>1, RunningHasSocket
<1>3. Catch(mTries)
  BY DEF CheckConnectThrows, SendThrows, ReceiveThrows, HandleRefusal, CallbackThrows
<1>4. UNCHANGED <<inbox, outbox, cut, session>> /\ SameSocket
  BY DEF CheckConnectThrows, SendThrows, ReceiveThrows, HandleRefusal, CallbackThrows,
         TcpTakeError, TcpSendThrows, TcpRecvThrows, SameSocket, tcpVars
<1> QED BY <1>2, <1>3, <1>4, NothingOutstanding, StreamCatch

\* A task throws, and the connection is closed.
LEMMA StreamCloses ==
    ASSUME ClientTypeOK, StreamInv, ~mDisconnected, NEW tries, Catch(tries),
           mSocket' = "none", inbox' = <<>>, outbox' \in {outbox, <<>>},
           cut' = NoPacket, UNCHANGED session,
           ~Has(mTaskQueue, Rests),
           ~Replacing => /\ tries = mTries
                         /\ ~Has(mTaskQueue, Unanswered)
                         /\ ~Outstanding
                         /\ Reader = 0
    PROVE  StreamInv'
<1>1. pc' = "out" /\ UNCHANGED mDisconnected /\ mTries' = tries
  BY DEF Catch, Return
<1>2. InSession' /\ ReadInOrder'
  <2>1. /\ Has(outbox', Farewells) => Has(outbox, Farewells)
        /\ \A C : ~Has(inbox', C)
    BY HasNone
  <2> QED BY <1>1, <2>1 DEF StreamInv, InSession, ReadInOrder
<1>3. CASE connectMqtt
  BY <1>1, <1>2, <1>3, StreamReconnects
<1>4. CASE UNCHANGED <<mTaskQueue, callbacks>>
  <2>1. ~Has(mTaskQueue, RestsNotOf(NoPacket))
    BY HasLess DEF RestsNotOf
  <2>2. /\ Has(outbox', Asked) => Has(outbox, Asked)
        /\ Sole(outbox, Asked) => Sole(outbox', Asked)
        /\ ~Has(inbox', Answers) /\ Sole(inbox', Answers)
    BY HasNone
  <2>3. Ordered(mTaskQueue)' /\ CutIsQueued' /\ NewConnection' /\ JoinsFirst'
    <3>1. outbox = <<>> => outbox' = <<>>
      OBVIOUS
    <3> QED BY <1>1, <1>4, <2>1, <3>1
            DEF StreamInv, CutIsQueued, NewConnection, JoinsFirst, Replacing
  <2>4. AcceptedInSession' /\ InSync' /\ CallbackRuns' /\ ConnackFirst'
    BY <1>1, <1>4 DEF StreamInv, AcceptedInSession, InSync, CallbackRuns, ConnackFirst,
                      Replacing, Reader, Incomplete
  <2>5. MaxRetries # 0 => Awaited'
    BY <1>4, <2>2 DEF StreamInv, Outstanding, Awaited, LockStep, Replacing
  <2> QED BY <1>2, <2>3, <2>4, <2>5 DEF StreamInv
<1> QED BY <1>3, <1>4 DEF Catch

LEMMA StreamLost ==
    ASSUME ClientTypeOK, TcpTypeOK, SafetyInv, StreamInv,
           TcpConnectThrows \/ HandleViolation
    PROVE  StreamInv'
<1>1. pc = "run" /\ mTaskQueue # <<>> /\ ~mDisconnected
  BY RunningHasSocket DEF TcpConnectThrows, HandleViolation, Running
<1>2. /\ mSocket' = "none" /\ inbox' = <<>> /\ outbox' \in {outbox, <<>>}
      /\ cut' = NoPacket /\ UNCHANGED session
  BY DEF TcpConnectThrows, HandleViolation, TcpOpenThrows, TcpClose, LeftOver
<1>3. /\ This \in Task /\ FitTask(This) /\ Ordered(mTaskQueue)
      /\ \A C : Has(mTaskQueue, C) <=> This \in C \/ Has(Others, C)
      /\ ~Has(Others, Unanswered)
  BY <1>1, ThisRuns DEF StreamInv
<1>4. CASE TcpConnectThrows
  <2>1. This.kind = "tcpConnect" /\ Catch(mTries + 1)
    BY <1>4 DEF TcpConnectThrows, Running, This
  <2>2. Rank(This) = 1 /\ ~This.rest
    BY <1>3, <2>1, Ranks DEF FitTask
  <2>3. Replacing /\ ~Has(mTaskQueue, Rests)
    BY <1>1, <1>3, <2>2, Sorts, OthersFollow DEF Replacing
  <2> QED BY <1>1, <1>2, <2>1, <2>3, StreamCloses
<1>5. CASE HandleViolation
  <2>1. This.kind = "handle" /\ Catch(mTries)
    BY <1>5 DEF HandleViolation, Running, This
  <2>2. This.req # NoPacket /\ ~This.rest /\ This.kind \notin Receiving
    BY <1>3, <2>1 DEF FitTask, Receiving
  <2>3. ~Has(mTaskQueue, Rests) /\ ~Has(mTaskQueue, Unanswered)
    BY <1>1, <1>3, <2>2, Sorts, OthersFollow
  <2>4. ~Outstanding /\ Reader = 0
    BY <2>2 DEF StreamInv, Outstanding, Awaited, WillTake, AwaitsReply, Reader,
                Incomplete, This
  <2> QED BY <1>1, <1>2, <2>1, <2>3, <2>4, StreamCloses
<1> QED BY <1>4, <1>5

-----------------------------------------------------------------------------
(* The tasks that connect and write. *)

LEMMA FirstsJoin == Firsts \subseteq Joiners /\ Firsts \subseteq News
<1>1. \A t \in Firsts : t \in Task /\ t \in Joiners /\ t \in News
  <2>1. \A t \in Firsts : t \in Task
    BY DEF Firsts
  <2> QED BY <2>1, Sorts, Ranks
<1> QED BY <1>1

\* A task of the first rank or above is no receiver.
LEMMA NoReader ==
    ASSUME NEW t \in Task, Rank(t) # 0
    PROVE  t.kind \notin Receiving /\ t.kind # "handle" /\ ~Incomplete(t)
BY Ranks DEF Incomplete

LEMMA StreamOpens ==
    ASSUME ClientTypeOK, TcpTypeOK, SafetyInv, StreamInv, TcpConnectOpens
    PROVE  StreamInv'
<1>1. pc = "run" /\ mTaskQueue # <<>> /\ pc' # "callback"
  BY RunningHasSocket, ReturnsFine DEF TcpConnectOpens, Running
<1>2. /\ This \in Task /\ FitTask(This) /\ Others \in Seq(Task) /\ Ordered(Others)
      /\ \A C : Has(mTaskQueue, C) <=> This \in C \/ Has(Others, C)
      /\ ~Has(Others, Unanswered)
      /\ mTaskQueue' = Others
  BY <1>1, ThisRuns, QueueReplaced DEF StreamInv, TcpConnectOpens
<1>3. Rank(This) = 1
  BY <1>2, Ranks DEF TcpConnectOpens, Running, This
<1>4. /\ ~Has(Others, Openers) /\ ~Has(Others, Accepted) /\ ~Has(Others, Messaged)
      /\ ~Has(Others, Rests) /\ \A p : ~Has(Others, RestsNotOf(p))
  BY <1>1, <1>3, OthersFollow DEF StreamInv
<1>5. Has(Others, Firsts) /\ Has(Others, Joiners) /\ Others # <<>>
  <2>1. Replacing
    BY <1>2, <1>3, Sorts DEF Replacing
  <2>2. Has(mTaskQueue, Firsts)
    BY <2>1 DEF StreamInv, NewConnection
  <2>3. Has(Others, Firsts)
    BY <1>2, <1>3, <2>2, Sorts
  <2> QED BY <2>3, FirstsJoin, HasLess, HasNone
<1>6. Rank(Head(Others)) # 0 /\ Head(Others).kind \notin Receiving
  <2>1. Head(Others) \in Task
    BY <1>2, <1>5
  <2>2. Rank(Head(Others)) # 0
    BY <1>1, <1>3, <1>5, ThisRuns DEF StreamInv
  <2> QED BY <2>1, <2>2, NoReader
<1>7. /\ mSocket' = "connecting" /\ inbox' = <<>> /\ outbox' = <<>>
      /\ cut' = NoPacket /\ session' = FALSE /\ UNCHANGED mDisconnected
  BY DEF TcpConnectOpens, TcpOpen
<1>8. ~Replacing'
  BY <1>2, <1>4 DEF Replacing
<1>9. Ordered(mTaskQueue)' /\ CutIsQueued' /\ NewConnection' /\ JoinsFirst'
  BY <1>2, <1>4, <1>5, <1>6, <1>7
     DEF CutIsQueued, NewConnection, JoinsFirst
<1>10. InSession' /\ AcceptedInSession' /\ ReadInOrder'
  BY <1>2, <1>4, <1>7, HasNone DEF InSession, AcceptedInSession, ReadInOrder
<1>11. InSync' /\ CallbackRuns' /\ ConnackFirst'
  BY <1>1, <1>2, <1>4, <1>6, <1>7
     DEF InSync, Reader, Incomplete, CallbackRuns, ConnackFirst
<1>12. Awaited'
  BY <1>7, HasNone DEF Awaited, LockStep
<1> QED BY <1>9, <1>10, <1>11, <1>12 DEF StreamInv

LEMMA StreamConnects ==
    ASSUME ClientTypeOK, TcpTypeOK, SafetyInv, StreamInv, CheckConnectDone
    PROVE  StreamInv'
<1>1. pc = "run" /\ mTaskQueue # <<>> /\ pc' # "callback" /\ mSocket # "none"
  BY RunningHasSocket, ReturnsFine DEF CheckConnectDone, Running, Reconnects
<1>2. /\ This \in Task /\ FitTask(This) /\ Others \in Seq(Task) /\ Ordered(Others)
      /\ \A C : Has(mTaskQueue, C) <=> This \in C \/ Has(Others, C)
      /\ ~Has(Others, Unanswered)
      /\ mTaskQueue' = Others
  BY <1>1, ThisRuns, QueueReplaced DEF StreamInv, CheckConnectDone
<1>3. Rank(This) = 2
  BY <1>2, Ranks DEF CheckConnectDone, Running, This
<1>4. /\ ~Has(Others, Openers) /\ ~Has(Others, Accepted) /\ ~Has(Others, Messaged)
      /\ ~Has(Others, Rests) /\ \A p : ~Has(Others, RestsNotOf(p))
  BY <1>1, <1>3, OthersFollow DEF StreamInv
<1>5. /\ This \notin Openers /\ This \in News /\ ~This.rest /\ This \notin Joiners
      /\ This \notin Rests
  <2>1. ~This.rest /\ This.req.type # "CONNECT"
    BY <1>2, <1>3, Ranks, NoPacketSorts DEF FitTask
  <2> QED BY <1>2, <1>3, <2>1, Sorts
<1>6. ~Replacing /\ ~Replacing'
  BY <1>2, <1>4, <1>5 DEF Replacing
<1>7. /\ inbox = <<>> /\ outbox = <<>> /\ ~session
      /\ cut = NoPacket
      /\ Has(Others, Joiners)
  BY <1>1, <1>2, <1>4, <1>5, <1>6
     DEF StreamInv, NewConnection, CutIsQueued, JoinsFirst
<1>8. Others # <<>> /\ Rank(Head(Others)) # 0 /\ Head(Others).kind \notin Receiving
  <2>1. Others # <<>>
    BY <1>7, HasNone
  <2>2. Head(Others) \in Task
    BY <1>2, <2>1
  <2>3. Rank(Head(Others)) # 0
    BY <1>1, <1>3, <2>1, ThisRuns DEF StreamInv
  <2> QED BY <2>1, <2>2, <2>3, NoReader
<1>9. UNCHANGED <<inbox, outbox, cut, session, mSocket, mDisconnected, mTries>>
  BY DEF CheckConnectDone, tcpVars
<1>10. Ordered(mTaskQueue)' /\ CutIsQueued' /\ NewConnection' /\ JoinsFirst'
  BY <1>2, <1>4, <1>6, <1>7, <1>8, <1>9
     DEF CutIsQueued, NewConnection, JoinsFirst
<1>11. InSession' /\ AcceptedInSession' /\ ReadInOrder'
  BY <1>2, <1>4, <1>7, <1>9, HasNone DEF InSession, AcceptedInSession, ReadInOrder
<1>12. InSync' /\ CallbackRuns' /\ ConnackFirst'
  BY <1>1, <1>2, <1>4, <1>7, <1>8, <1>9
     DEF InSync, Reader, Incomplete, CallbackRuns, ConnackFirst
<1>13. Awaited'
  BY <1>7, <1>9, HasNone DEF Awaited, LockStep
<1> QED BY <1>10, <1>11, <1>12, <1>13 DEF StreamInv

\* The first task is one that writes.
LEMMA Writing ==
    ASSUME ClientTypeOK, SafetyInv, StreamInv, pc = "run",
           Head(mTaskQueue).kind \in {"prepare", "send"}
    PROVE  /\ mTaskQueue # <<>> /\ mSocket # "none"
           /\ This \in Task /\ This.req \in Outgoing /\ FitTask(This)
           /\ Rank(This) \in {3, 4} /\ (Rank(This) = 3 <=> This.req.type = "CONNECT")
           /\ Others \in Seq(Task) /\ Ordered(Others)
           /\ \A C : Has(mTaskQueue, C) <=> This \in C \/ Has(Others, C)
           /\ \A C \in TaskSorts : ~Has(Others, C)
           /\ Others # <<>> => ~Incomplete(Head(Others))
           /\ ~Replacing /\ Reader = 0 /\ ~AwaitsReply
           /\ This.req.type = "CONNECT" =>
                 /\ inbox = <<>> /\ outbox = <<>> /\ ~session
           /\ This.req.type # "CONNECT" => session /\ mTries = 0
<1>1. mTaskQueue # <<>> /\ mSocket # "none"
  BY RunningHasSocket DEF Reconnects
<1>2. /\ This \in Task /\ FitTask(This) /\ Others \in Seq(Task) /\ Ordered(Others)
      /\ \A C : Has(mTaskQueue, C) <=> This \in C \/ Has(Others, C)
      /\ ~Has(Others, Unanswered)
      /\ Others # <<>> => ~Incomplete(Head(Others))
  BY <1>1, ThisRuns DEF StreamInv
<1>3. /\ This.req \in Outgoing
      /\ Rank(This) \in {3, 4} /\ (Rank(This) = 3 <=> This.req.type = "CONNECT")
      /\ This.kind \notin Receiving
  BY <1>2, Ranks DEF Task, This, Receiving
<1>4. \A C \in TaskSorts : ~Has(Others, C)
  BY <1>1, <1>2, <1>3, OthersFollow DEF StreamInv, TaskSorts
<1>5. /\ ~Has(Others, Openers) /\ ~Has(Others, Joiners)
  BY <1>4 DEF TaskSorts
<1>6. ~Replacing
  BY <1>2, <1>3, <1>5, Sorts DEF Replacing
<1>7. Reader = 0 /\ ~AwaitsReply
  BY <1>3 DEF Reader, AwaitsReply, Incomplete, This
<1>8. ASSUME This.req.type = "CONNECT" PROVE inbox = <<>> /\ outbox = <<>> /\ ~session
  <2>1. Has(mTaskQueue, News)
    BY <1>2, <1>3, <1>8, Sorts
  <2> QED BY <1>6, <2>1 DEF StreamInv, NewConnection
<1>9. ASSUME This.req.type # "CONNECT" PROVE session /\ mTries = 0
  <2>1. ~Has(mTaskQueue, Joiners)
    BY <1>2, <1>5, <1>9, Sorts
  <2> QED BY <1>1, <1>6, <2>1 DEF StreamInv, JoinsFirst
<1> QED BY <1>1, <1>2, <1>3, <1>4, <1>6, <1>7, <1>8, <1>9

\* Two tasks that write the same are of the same sorts.
LEMMA WriteAlike ==
    ASSUME NEW t \in Task, NEW u \in Task, Rank(t) \in {3, 4}, Rank(u) = Rank(t),
           t.rest = u.rest, t.rest => t.req = u.req
    PROVE  \A C \in TaskSorts : t \in C <=> u \in C
<1>1. /\ t.kind \notin Receiving /\ u.kind \notin Receiving
      /\ t.req.type = "CONNECT" <=> u.req.type = "CONNECT"
  BY NoReader, Ranks
<1> QED BY <1>1, Sorts DEF TaskSorts

\* The lambdas of enqueueSendFront.
LEMMA WriteTasks ==
    ASSUME NEW p \in Outgoing, NEW written \in BOOLEAN
    PROVE  /\ SendTask(p) \in Task /\ RestTask(p, written) \in Task
           /\ FitTask(SendTask(p)) /\ FitTask(RestTask(p, written))
           /\ Rank(SendTask(p)) = (IF p.type = "CONNECT" THEN 3 ELSE 4)
           /\ Rank(RestTask(p, written)) = (IF p.type = "CONNECT" THEN 3 ELSE 4)
           /\ SendTask(p).req = p /\ RestTask(p, written).req = p
           /\ ~SendTask(p).rest /\ RestTask(p, written).rest = written
<1> DEFINE s == SendTask(p)
           r == RestTask(p, written)
<1>1. /\ s \in Task /\ s.kind = "send" /\ s.req = p /\ ~s.rest
      /\ s.keep => p.type # "CONNECT"
  BY TaskTypes DEF SendTask, MakeTask, KeepSend
<1>2. /\ r \in Task /\ r.kind = "send" /\ r.req = p /\ r.rest = written /\ ~r.keep
  BY TaskTypes DEF RestTask, KeepRemainder
<1> HIDE DEF s, r
<1>3. /\ Rank(s) = IF p.type = "CONNECT" THEN 3 ELSE 4
      /\ Rank(r) = IF p.type = "CONNECT" THEN 3 ELSE 4
  BY <1>1, <1>2, Ranks
<1>4. FitTask(s) /\ FitTask(r)
  BY <1>1, <1>2, <1>3 DEF FitTask
<1> QED BY <1>1, <1>2, <1>3, <1>4 DEF s, r

\* The first task is replaced by one of its sorts that writes as it does.
LEMMA StreamRewrites ==
    ASSUME ClientTypeOK, TcpTypeOK, SafetyInv, StreamInv, pc = "run", pc' # "callback",
           Head(mTaskQueue).kind \in {"prepare", "send"},
           NEW t \in Task, ReplaceBy(<<t>>), FitTask(t), Rank(t) = Rank(This),
           t.rest = This.rest, t.rest => t.req = This.req,
           UNCHANGED <<inbox, outbox, cut, session, mSocket, mDisconnected, mTries>>
    PROVE  StreamInv'
<1>1. /\ mTaskQueue # <<>> /\ This \in Task /\ Rank(This) \in {3, 4}
      /\ \A C : Has(mTaskQueue, C) <=> This \in C \/ Has(Others, C)
      /\ ~Replacing /\ Reader = 0 /\ ~AwaitsReply
  BY Writing
<1>2. /\ mTaskQueue' # <<>> /\ Head(mTaskQueue') = t /\ Ordered(mTaskQueue')
      /\ \A C : Has(mTaskQueue', C) <=> t \in C \/ Has(Others, C)
  BY <1>1, QueueReplaced DEF StreamInv
<1>3. Alike(mTaskQueue', mTaskQueue)
  BY <1>1, <1>2, WriteAlike DEF Alike
<1>4. Rank(Head(mTaskQueue')) # 0 /\ Reader' = 0
  <2>1. ~Incomplete(t)
    BY <1>1, NoReader
  <2> QED BY <1>1, <1>2, <2>1 DEF Reader, Incomplete
<1>5. ~Outstanding
  BY <1>1 DEF StreamInv, Outstanding, Awaited, WillTake
<1>6. CallbackRuns'
  BY DEF CallbackRuns
<1> QED BY <1>1, <1>2, <1>3, <1>4, <1>5, <1>6, StreamAlike DEF SameSocket

LEMMA StreamPrepares ==
    ASSUME ClientTypeOK, TcpTypeOK, SafetyInv, StreamInv, Prepare \/ SendNone
    PROVE  StreamInv'
<1>1. /\ pc = "run" /\ pc' # "callback" /\ Head(mTaskQueue).kind \in {"prepare", "send"}
      /\ UNCHANGED <<inbox, outbox, cut, session, mSocket, mDisconnected, mTries>>
  BY ReturnsFine DEF Prepare, SendNone, SendRest, Running, TcpSendNone, tcpVars
<1>2. /\ mTaskQueue # <<>> /\ This \in Task /\ FitTask(This)
      /\ This.req \in Outgoing /\ Rank(This) \in {3, 4}
      /\ Rank(This) = 3 <=> This.req.type = "CONNECT"
  BY <1>1, Writing
<1>3. CASE Prepare
  <2>1. PICK p \in Outgoing : /\ ReplaceBy(<<SendTask(p)>>) /\ p.type = This.req.type
    <3>1. mPacketIdentifierCounter \in PacketIds
      BY DEF ClientTypeOK
    <3>2. /\ [This.req EXCEPT !.id = mPacketIdentifierCounter] \in Outgoing
          /\ [This.req EXCEPT !.id = mPacketIdentifierCounter].type = This.req.type
      BY <1>2, <3>1 DEF Outgoing, Packet
    <3> QED BY <1>2, <1>3, <3>2 DEF Prepare
  <2>2. ~This.rest /\ This.kind = "prepare"
    BY <1>2, <1>3 DEF FitTask, Prepare, Running, This
  <2>3. /\ SendTask(p) \in Task /\ FitTask(SendTask(p)) /\ Rank(SendTask(p)) = Rank(This)
        /\ ~SendTask(p).rest
    BY <1>2, <2>1, WriteTasks
  <2>4. SendTask(p).rest = This.rest
    BY <1>2, <2>2 DEF SendTask, MakeTask, Task
  <2> QED BY <1>1, <1>2, <2>1, <2>2, <2>3, <2>4, StreamRewrites
<1>4. CASE SendNone
  <2>1. ReplaceBy(<<RestTask(This.req, This.rest)>>)
    BY <1>4 DEF SendNone, SendRest
  <2>2. This.rest \in BOOLEAN
    BY <1>2 DEF Task
  <2> QED BY <1>1, <1>2, <2>1, <2>2, WriteTasks, StreamRewrites
<1> QED BY <1>3, <1>4

LEMMA StreamCuts ==
    ASSUME ClientTypeOK, TcpTypeOK, SafetyInv, StreamInv, SendPart
    PROVE  StreamInv'
<1>1. /\ pc = "run" /\ pc' # "callback" /\ Head(mTaskQueue).kind \in {"prepare", "send"}
      /\ UNCHANGED <<inbox, outbox, session, mSocket, mDisconnected, mTries>>
      /\ cut' = This.req
  BY ReturnsFine DEF SendPart, SendRest, Running, TcpSendPart
<1> DEFINE p == This.req
           t == RestTask(p, TRUE)
<1>2. /\ mTaskQueue # <<>> /\ This \in Task /\ p \in Outgoing /\ Rank(This) \in {3, 4}
      /\ Rank(This) = 3 <=> p.type = "CONNECT"
      /\ \A C : Has(mTaskQueue, C) <=> This \in C \/ Has(Others, C)
      /\ \A C \in TaskSorts : ~Has(Others, C)
      /\ ~Replacing /\ Reader = 0 /\ ~AwaitsReply
      /\ p.type = "CONNECT" => inbox = <<>> /\ outbox = <<>> /\ ~session
      /\ p.type # "CONNECT" => session /\ mTries = 0
  BY <1>1, Writing
<1>3. /\ t \in Task /\ FitTask(t) /\ Rank(t) = Rank(This) /\ t.req = p /\ t.rest
  BY <1>2, WriteTasks
<1>4. ReplaceBy(<<t>>)
  BY DEF SendPart, SendRest
<1> HIDE DEF t
<1>5. /\ mTaskQueue' # <<>> /\ Head(mTaskQueue') = t /\ Ordered(mTaskQueue')
      /\ \A C : Has(mTaskQueue', C) <=> t \in C \/ Has(Others, C)
  BY <1>2, <1>3, <1>4, QueueReplaced DEF StreamInv
<1>6. /\ t \notin Openers /\ t \in Rests /\ t \notin RestsNotOf(p) /\ t \notin Accepted
      /\ t \notin Messaged /\ t \notin Unanswered
      /\ t \in News <=> p.type = "CONNECT"
      /\ t \in Joiners <=> p.type = "CONNECT"
      /\ ~Incomplete(t)
  BY <1>2, <1>3, NoReader, Sorts
<1>7. /\ ~Has(mTaskQueue', Openers) /\ Has(mTaskQueue', Rests)
      /\ ~Has(mTaskQueue', RestsNotOf(p))
      /\ ~Has(mTaskQueue', Accepted) /\ ~Has(mTaskQueue', Messaged)
      /\ ~Has(mTaskQueue', Unanswered)
      /\ Has(mTaskQueue', News) <=> p.type = "CONNECT"
      /\ Has(mTaskQueue', Joiners) <=> p.type = "CONNECT"
  BY <1>2, <1>5, <1>6 DEF TaskSorts
<1>8. Ordered(mTaskQueue)' /\ CutIsQueued' /\ NewConnection' /\ JoinsFirst'
  BY <1>1, <1>2, <1>3, <1>5, <1>7
     DEF StreamInv, CutIsQueued, Replacing, NewConnection, JoinsFirst
<1>9. InSession' /\ AcceptedInSession' /\ ReadInOrder'
  BY <1>1, <1>7 DEF StreamInv, InSession, AcceptedInSession, ReadInOrder
<1>10. InSync' /\ CallbackRuns' /\ ConnackFirst'
  BY <1>1, <1>2, <1>5, <1>6, <1>7
     DEF StreamInv, InSync, Reader, Incomplete, CallbackRuns, ConnackFirst
<1>11. MaxRetries # 0 => Awaited'
  BY <1>1, <1>2 DEF StreamInv, Awaited, LockStep, WillTake
<1> QED BY <1>8, <1>9, <1>10, <1>11 DEF StreamInv

\* What a written packet adds to the stream.
LEMMA WrittenHas ==
    ASSUME TcpTypeOK, NEW p \in Outgoing
    PROVE  /\ \A C : Has(Written(p), C) => Has(outbox, C) \/ p \in C
           /\ \A C : /\ Sole(outbox, C)
                     /\ p \in C => ~Has(outbox, C)
                     => Sole(Written(p), C)
           /\ mSocket # "up" => Written(p) = outbox
BY HasBack DEF TcpTypeOK, Written

\* The receiver of the reply to p.
LEMMA AwaitTask ==
    ASSUME NEW p \in Outgoing, p # NoPacket
    PROVE  /\ RecvTask(p) \in Task /\ FitTask(RecvTask(p)) /\ Rank(RecvTask(p)) = 0
           /\ RecvTask(p).kind = "recvType" /\ RecvTask(p).req = p
           /\ RecvTask(p).resp = NoPacket
           /\ \A C \in TaskSorts :
                 RecvTask(p) \in C <=> p.type = "CONNECT" /\ C \in {Joiners, Unanswered}
<1> DEFINE t == RecvTask(p)
<1>1. /\ t \in Task /\ t.kind = "recvType" /\ ~t.keep /\ ~t.rest
      /\ t.req = p /\ t.resp = NoPacket
  BY TaskTypes DEF RecvTask, MakeTask
<1> HIDE DEF t
<1>2. Rank(t) = 0
  BY <1>1, Ranks DEF Receiving
<1>3. FitTask(t)
  BY <1>1, <1>2 DEF FitTask
<1>4. CASE p.type # "CONNECT"
  BY <1>1, <1>2, <1>3, <1>4, NoSort, NoPacketSorts DEF t
<1>5. CASE p.type = "CONNECT"
  <2>1. /\ t \notin Openers /\ t \notin Firsts /\ t \notin News /\ t \in Joiners
        /\ t \notin Rests /\ t \notin Accepted /\ t \notin Messaged /\ t \in Unanswered
        /\ \A q : t \notin RestsNotOf(q)
    BY <1>1, <1>2, <1>5, Sorts, NoPacketSorts DEF Receiving
  <2>2. \A C \in TaskSorts : t \in C <=> C \in {Joiners, Unanswered}
    BY <2>1 DEF TaskSorts
  <2> QED BY <1>1, <1>2, <1>3, <1>5, <2>2 DEF t
<1> QED BY <1>4, <1>5

\* What is the same whether a reply is awaited or not.
LEMMA SendAllFacts ==
    ASSUME ClientTypeOK, TcpTypeOK, SafetyInv, StreamInv, SendAll
    PROVE  /\ pc' # "callback" /\ cut' = NoPacket
           /\ UNCHANGED <<inbox, session, mSocket, mDisconnected, mTries>>
           /\ outbox' = Written(This.req) /\ mSocket # "none"
           /\ InSession' /\ ReadInOrder' /\ CallbackRuns'
<1> DEFINE p == This.req
<1>1. /\ pc = "run" /\ Head(mTaskQueue).kind \in {"prepare", "send"}
      /\ pc' # "callback" /\ cut' = NoPacket /\ p.type # "DISCONNECT"
      /\ UNCHANGED <<inbox, session, mSocket, mDisconnected, mTries>>
      /\ outbox' = Written(p) /\ mSocket \in {"up", "fin"}
  BY ReturnsFine DEF SendAll, Running, TcpSendAll
<1>2. /\ p \in Outgoing
      /\ p.type # "CONNECT" => session
  BY <1>1, Writing
<1>3. /\ p \notin Farewells
      /\ p \in NotFirst => session
  BY <1>1, <1>2 DEF Farewells, NotFirst
<1>4. /\ Has(outbox', Farewells) => Has(outbox, Farewells)
      /\ Has(outbox', NotFirst) => Has(outbox, NotFirst) \/ session
      /\ outbox' # <<>> => mSocket = "up"
  BY <1>1, <1>2, <1>3, WrittenHas DEF StreamInv, InSession
<1>5. InSession' /\ ReadInOrder' /\ CallbackRuns'
  BY <1>1, <1>4 DEF StreamInv, InSession, ReadInOrder, CallbackRuns
<1> QED BY <1>1, <1>5

\* A request is written: the reply is the next thing to receive.
LEMMA StreamAsks ==
    ASSUME ClientTypeOK, TcpTypeOK, SafetyInv, StreamInv, SendAll,
           This.req.type \in Requests
    PROVE  StreamInv'
<1> DEFINE p == This.req
           t == RecvTask(p)
<1>1. /\ pc' # "callback" /\ cut' = NoPacket
      /\ UNCHANGED <<inbox, session, mSocket, mDisconnected, mTries>>
      /\ outbox' = Written(p) /\ mSocket # "none"
      /\ InSession' /\ ReadInOrder' /\ CallbackRuns'
  BY SendAllFacts
<1>2. /\ pc = "run" /\ Head(mTaskQueue).kind \in {"prepare", "send"}
      /\ ReplaceBy(<<t>>) /\ mCurrentlyReceivingPacket' = TRUE
  BY DEF SendAll, Running
<1>3. /\ mTaskQueue # <<>> /\ p \in Outgoing /\ Rank(This) \in {3, 4}
      /\ \A C : Has(mTaskQueue, C) <=> This \in C \/ Has(Others, C)
      /\ \A C \in TaskSorts : ~Has(Others, C)
      /\ ~Replacing /\ Reader = 0 /\ ~AwaitsReply
      /\ p.type = "CONNECT" => inbox = <<>> /\ outbox = <<>> /\ ~session
      /\ p.type # "CONNECT" => session /\ mTries = 0
  BY <1>2, Writing
<1>4. p # NoPacket /\ p \in Asked
  BY <1>3, NoPacketSorts DEF Requests, Asked
<1>5. /\ t \in Task /\ FitTask(t) /\ Rank(t) = 0 /\ t.req = p /\ t.resp = NoPacket
      /\ t.kind = "recvType"
      /\ \A C \in TaskSorts : t \in C <=> p.type = "CONNECT" /\ C \in {Joiners, Unanswered}
  BY <1>3, <1>4, AwaitTask
<1> HIDE DEF t
<1>6. /\ mTaskQueue' # <<>> /\ Head(mTaskQueue') = t /\ Ordered(mTaskQueue')
      /\ \A C : Has(mTaskQueue', C) <=> t \in C \/ Has(Others, C)
  BY <1>2, <1>3, <1>5, QueueReplaced DEF StreamInv
<1>7. /\ t \notin Openers /\ t \notin News /\ t \notin Accepted /\ t \notin Messaged
      /\ ~t.rest
      /\ \A q : t \notin RestsNotOf(q)
      /\ t \in Joiners <=> p.type = "CONNECT"
      /\ t \in Unanswered => p.type = "CONNECT"
  <2>1. ~t.rest
    BY <1>5 DEF FitTask
  <2>2. ~Accepts(t.resp) /\ t.resp.type # "PUBLISH"
    BY <1>5, NoPacketSorts
  <2> QED BY <1>5, <2>1, <2>2, Sorts
<1>8. /\ ~Has(Others, Openers) /\ ~Has(Others, News) /\ ~Has(Others, Accepted)
      /\ ~Has(Others, Messaged) /\ ~Has(Others, Unanswered) /\ ~Has(Others, Joiners)
      /\ ~Has(Others, RestsNotOf(NoPacket))
  BY <1>3, NoPacketSorts DEF TaskSorts
<1>9. /\ ~Has(mTaskQueue', Openers) /\ ~Has(mTaskQueue', News)
      /\ ~Has(mTaskQueue', Accepted) /\ ~Has(mTaskQueue', Messaged)
      /\ ~Has(mTaskQueue', RestsNotOf(NoPacket))
      /\ Has(mTaskQueue', Joiners) <=> p.type = "CONNECT"
      /\ Has(mTaskQueue', Unanswered) => p.type = "CONNECT"
  BY <1>6, <1>7, <1>8
<1>10. Ordered(mTaskQueue)' /\ CutIsQueued' /\ NewConnection' /\ JoinsFirst'
  BY <1>1, <1>3, <1>6, <1>9
     DEF CutIsQueued, Replacing, NewConnection, JoinsFirst
<1>11. AcceptedInSession' /\ InSync' /\ ConnackFirst'
  BY <1>1, <1>3, <1>5, <1>6, <1>9
     DEF StreamInv, AcceptedInSession, InSync, Reader, ReadsDone, Incomplete, ConnackFirst
<1>12. ASSUME MaxRetries # 0 PROVE Awaited'
  <2>1. ~Has(outbox, Asked) /\ ~Has(inbox, Answers) /\ Sole(outbox, Asked)
        /\ Sole(inbox, Answers)
    BY <1>3, <1>12 DEF StreamInv, Awaited, WillTake, LockStep
  <2>2. Sole(outbox', Asked) /\ ~Has(outbox', Asked \ {p})
    <3>1. ~Has(outbox, Asked \ {p})
      BY <2>1, HasLess
    <3> QED BY <1>1, <1>3, <2>1, <3>1, WrittenHas
  <2>3. WillTake'
    BY <1>2, <1>4, <1>5, <1>6 DEF WillTake, AwaitsReply, Receiving
  <2> QED BY <1>1, <1>5, <1>6, <2>1, <2>2, <2>3 DEF Awaited, LockStep
<1> QED BY <1>1, <1>10, <1>11, <1>12 DEF StreamInv

\* A packet nobody answers is written.
LEMMA StreamTells ==
    ASSUME ClientTypeOK, TcpTypeOK, SafetyInv, StreamInv, SendAll,
           This.req.type \notin Requests
    PROVE  StreamInv'
<1> DEFINE p == This.req
<1>1. /\ pc' # "callback" /\ cut' = NoPacket
      /\ UNCHANGED <<inbox, session, mSocket, mDisconnected, mTries>>
      /\ outbox' = Written(p) /\ mSocket # "none"
      /\ InSession' /\ ReadInOrder' /\ CallbackRuns'
  BY SendAllFacts
<1>2. /\ pc = "run" /\ Head(mTaskQueue).kind \in {"prepare", "send"}
      /\ ReplaceBy(<<>>) /\ p.type # "CONNECT"
  BY DEF SendAll, Running, Requests
<1>3. /\ mTaskQueue # <<>> /\ p \in Outgoing
      /\ Ordered(Others)
      /\ \A C \in TaskSorts : ~Has(Others, C)
      /\ Others # <<>> => ~Incomplete(Head(Others))
      /\ ~Replacing /\ Reader = 0 /\ ~AwaitsReply
      /\ session /\ mTries = 0
  BY <1>2, Writing
<1>4. mTaskQueue' = Others
  BY <1>2, <1>3, QueueReplaced DEF StreamInv
<1>5. /\ ~Has(mTaskQueue', Openers) /\ ~Has(mTaskQueue', News)
      /\ ~Has(mTaskQueue', Accepted) /\ ~Has(mTaskQueue', Messaged)
      /\ ~Has(mTaskQueue', Unanswered) /\ ~Has(mTaskQueue', RestsNotOf(NoPacket))
  BY <1>3, <1>4, NoPacketSorts DEF TaskSorts
<1>6. Ordered(mTaskQueue)' /\ CutIsQueued' /\ NewConnection' /\ JoinsFirst'
  BY <1>1, <1>3, <1>4, <1>5 DEF CutIsQueued, Replacing, NewConnection, JoinsFirst
<1>7. AcceptedInSession' /\ InSync' /\ ConnackFirst'
  BY <1>1, <1>3, <1>4, <1>5
     DEF StreamInv, AcceptedInSession, InSync, Reader, Incomplete, ConnackFirst
<1>8. ASSUME MaxRetries # 0 PROVE Awaited'
  <2>1. ~Has(outbox, Asked) /\ ~Has(inbox, Answers) /\ Sole(outbox, Asked)
        /\ Sole(inbox, Answers)
    BY <1>3, <1>8 DEF StreamInv, Awaited, WillTake, LockStep
  <2>2. p \notin Asked
    BY DEF Asked
  <2>3. Sole(outbox', Asked) /\ ~Has(outbox', Asked)
    BY <1>1, <1>3, <2>1, <2>2, WrittenHas
  <2> QED BY <1>1, <2>1, <2>3 DEF Awaited, LockStep
<1> QED BY <1>1, <1>6, <1>7, <1>8 DEF StreamInv

\* DISCONNECT is written, and the socket closed.
LEMMA StreamEnds ==
    ASSUME ClientTypeOK, TcpTypeOK, SafetyInv, StreamInv, SendDisconnect
    PROVE  StreamInv'
<1> DEFINE p == This.req
<1>1. /\ pc = "run" /\ Head(mTaskQueue).kind \in {"prepare", "send"}
      /\ pc' # "callback" /\ mTaskQueue' = <<>> /\ mSocket' = "none" /\ inbox' = <<>>
      /\ outbox' \in LeftOver(Written(p)) /\ cut' = NoPacket
      /\ mDisconnected' = TRUE /\ UNCHANGED <<session, mTries>>
      /\ p.type = "DISCONNECT"
  BY DEF SendDisconnect, Running, TcpSendAllAndClose, Return
<1>2. /\ p \in Outgoing /\ ~Replacing /\ ~AwaitsReply /\ mTries = 0
  BY <1>1, Writing
<1>3. Ordered(mTaskQueue)'
  BY <1>1 DEF Ordered
<1>4. CutIsQueued' /\ NewConnection' /\ JoinsFirst'
  <2>1. \A C : ~Has(mTaskQueue', C)
    BY <1>1, HasNone
  <2>2. ~Replacing'
    BY <2>1 DEF Replacing
  <2>3. CutIsQueued'
    BY <1>1, <2>1 DEF CutIsQueued
  <2>4. NewConnection'
    BY <2>1, <2>2 DEF NewConnection
  <2>5. JoinsFirst'
    BY <1>1, <1>2 DEF JoinsFirst
  <2> QED BY <2>3, <2>4, <2>5
<1>5. InSession' /\ AcceptedInSession' /\ ReadInOrder'
  BY <1>1, HasNone DEF InSession, AcceptedInSession, ReadInOrder
<1>6. InSync' /\ CallbackRuns' /\ ConnackFirst'
  BY <1>1, HasNone DEF InSync, Reader, CallbackRuns, ConnackFirst
<1>7. ASSUME MaxRetries # 0 PROVE Awaited'
  <2>1. ~Has(outbox, Asked) /\ Sole(outbox, Asked)
    BY <1>2, <1>7 DEF StreamInv, Awaited, WillTake, LockStep
  <2>2. p \notin Asked
    BY <1>1 DEF Asked, Requests
  <2>3. Sole(outbox', Asked) /\ ~Has(outbox', Asked)
    <3>1. outbox' = Written(p) \/ outbox' = <<>>
      BY <1>1 DEF LeftOver
    <3> QED BY <1>2, <2>1, <2>2, <3>1, WrittenHas, HasNone
  <2> QED BY <1>1, <2>3, HasNone DEF Awaited, LockStep
<1> QED BY <1>3, <1>4, <1>5, <1>6, <1>7 DEF StreamInv

-----------------------------------------------------------------------------
(* The task that reads. *)

\* A receiver, whatever it has read, and its sorts.
LEMMA ReceiverSorts ==
    ASSUME NEW u \in Task, FitTask(u), u.kind \in Receiving,
           NEW t \in Task, t.kind \in Receiving,
           t.keep = u.keep, t.req = u.req, t.rest = u.rest
    PROVE  /\ FitTask(t) /\ Rank(t) = 0 /\ Rank(u) = 0
           /\ t \notin Openers /\ t \notin News /\ t \notin Firsts /\ t \notin Rests
           /\ u \notin Openers /\ u \notin News /\ u \notin Firsts /\ u \notin Rests
           /\ \A p : t \notin RestsNotOf(p) /\ u \notin RestsNotOf(p)
           /\ t \in Joiners <=> u \in Joiners
           /\ t \in Accepted <=> Accepts(t.resp)
           /\ u \in Accepted <=> Accepts(u.resp)
           /\ t \in Messaged <=> u \in Joiners /\ t.resp.type = "PUBLISH"
           /\ u \in Messaged <=> u \in Joiners /\ u.resp.type = "PUBLISH"
           /\ t \in Unanswered <=> u \in Joiners /\ t.resp = NoPacket
           /\ u \in Unanswered <=> u \in Joiners /\ u.resp = NoPacket
<1>1. /\ Rank(t) = 0 /\ Rank(u) = 0
  BY Ranks
<1>2. t.kind # "send" /\ u.kind # "send" /\ t.kind # "handle"
  BY DEF Receiving
<1>3. ~t.rest /\ ~u.rest /\ ~t.keep
  BY <1>1, <1>2 DEF FitTask
<1>4. FitTask(t)
  BY <1>1, <1>2, <1>3 DEF FitTask
<1> QED BY <1>1, <1>3, <1>4, Sorts

\* A read that does not end a packet ...
LEMMA ReadsMore ==
    ASSUME inbox \in Seq(InFlight), inbox # <<>>, inbox' \in Seq(InFlight),
           inbox' = [inbox EXCEPT ![1].read = @ + 1]
    PROVE  /\ DOMAIN inbox' = DOMAIN inbox /\ Len(inbox') = Len(inbox)
           /\ 1 \in DOMAIN inbox /\ inbox' # <<>>
           /\ Head(inbox) = inbox[1] /\ Head(inbox') = inbox'[1]
           /\ inbox'[1].read = inbox[1].read + 1
           /\ \A i \in DOMAIN inbox : /\ inbox'[i].pkt = inbox[i].pkt
                                      /\ i # 1 => inbox'[i] = inbox[i]
<1>1. /\ Len(inbox) \in Nat /\ Len(inbox) >= 1 /\ DOMAIN inbox = 1 .. Len(inbox)
      /\ \A i \in DOMAIN inbox : inbox[i] \in InFlight
      /\ Head(inbox) = inbox[1]
  OBVIOUS
<1>2. 1 \in DOMAIN inbox
  BY <1>1
<1>3. inbox[1] \in [pkt : Packet, got : 1 .. 3, read : 0 .. 2]
  BY <1>1, <1>2 DEF InFlight
<1>4. /\ DOMAIN inbox' = DOMAIN inbox
      /\ inbox'[1] = [inbox[1] EXCEPT !.read = @ + 1]
      /\ \A i \in DOMAIN inbox : i # 1 => inbox'[i] = inbox[i]
  BY <1>2
<1>5. inbox'[1].pkt = inbox[1].pkt /\ inbox'[1].read = inbox[1].read + 1
  BY <1>3, <1>4
<1>6. Len(inbox') = Len(inbox) /\ inbox' # <<>> /\ Head(inbox') = inbox'[1]
  <2>1. /\ DOMAIN inbox' = 1 .. Len(inbox') /\ Len(inbox') \in Nat
        /\ inbox' # <<>> => Head(inbox') = inbox'[1]
    OBVIOUS
  <2>2. Len(inbox') = Len(inbox)
    BY <1>1, <1>4, <2>1
  <2> QED BY <1>1, <2>1, <2>2
<1> QED BY <1>1, <1>2, <1>4, <1>5, <1>6

\* ... and what both kinds of reads leave.
LEMMA StreamReads ==
    ASSUME inbox \in Seq(InFlight), isDataAvailable, ReadInOrder, TcpRecv
    PROVE  /\ inbox # <<>> /\ ReadInOrder'
           /\ \A C \in {Strays, Granted, Answers} :
                 /\ Has(inbox', C) => Has(inbox, C)
                 /\ Sole(inbox, C) => Sole(inbox', C)
           /\ \/ /\ inbox' = [inbox EXCEPT ![1].read = @ + 1]
                 /\ Len(inbox') = Len(inbox) /\ inbox' # <<>>
                 /\ Head(inbox').pkt = Head(inbox).pkt
                 /\ Head(inbox').read = Head(inbox).read + 1
                 /\ Head(inbox).read + 1 \in {1, 2}
              \/ /\ inbox' = Tail(inbox) /\ Len(inbox') < Len(inbox)
                 /\ inbox' # <<>> => Head(inbox').read = 0
<1>1. /\ inbox # <<>> /\ Len(inbox) \in Nat /\ Len(inbox) >= 1
      /\ DOMAIN inbox = 1 .. Len(inbox) /\ Head(inbox) = inbox[1]
      /\ \A i \in DOMAIN inbox : inbox[i] \in InFlight
  BY DEF isDataAvailable
<1>2. \A e \in InFlight : e.read \in 0 .. 2 /\ Reads(e.pkt) \in {2, 3}
  BY ReadsType DEF InFlight
<1>3. inbox' \in Seq(InFlight)
  BY InboxRead DEF TcpRecv
<1>4. CASE Head(inbox).read + 1 = Reads(Head(inbox).pkt)
  <2>1. inbox' = Tail(inbox)
    BY <1>4 DEF TcpRecv
  <2>2. /\ Len(inbox') = Len(inbox) - 1 /\ DOMAIN inbox' = 1 .. Len(inbox) - 1
        /\ \A i \in DOMAIN inbox' : inbox'[i] = inbox[i + 1]
        /\ inbox' # <<>> => 1 \in DOMAIN inbox' /\ Head(inbox') = inbox'[1]
    BY <1>1, <1>3, <2>1, QueueTail
  <2>3. \A i \in DOMAIN inbox' : i + 1 \in DOMAIN inbox /\ i + 1 # 1
    BY <1>1, <2>2
  <2>4. \A i \in DOMAIN inbox' : inbox'[i].read = 0 /\ 0 < Reads(inbox'[i].pkt)
    BY <1>1, <1>2, <2>2, <2>3 DEF ReadInOrder
  <2>5. ReadInOrder'
    BY <2>4 DEF ReadInOrder
  <2>6. \A C : /\ Has(inbox', C) => Has(inbox, C)
               /\ Sole(inbox, C) => Sole(inbox', C)
    BY <1>1, <2>1, HasTail
  <2>7. Len(inbox') < Len(inbox) /\ (inbox' # <<>> => Head(inbox').read = 0)
    BY <1>1, <2>2, <2>4
  <2> QED BY <1>1, <2>1, <2>5, <2>6, <2>7
<1>5. CASE Head(inbox).read + 1 # Reads(Head(inbox).pkt)
  <2>1. inbox' = [inbox EXCEPT ![1].read = @ + 1]
    BY <1>5 DEF TcpRecv
  <2>2. /\ DOMAIN inbox' = DOMAIN inbox /\ Len(inbox') = Len(inbox)
        /\ 1 \in DOMAIN inbox /\ inbox' # <<>>
        /\ Head(inbox) = inbox[1] /\ Head(inbox') = inbox'[1]
        /\ inbox'[1].read = inbox[1].read + 1
        /\ \A i \in DOMAIN inbox : /\ inbox'[i].pkt = inbox[i].pkt
                                   /\ i # 1 => inbox'[i] = inbox[i]
    BY <1>1, <1>3, <2>1, ReadsMore
  <2>3. /\ inbox[1].read \in 0 .. 2 /\ Reads(inbox[1].pkt) \in {2, 3}
        /\ inbox[1].read < Reads(inbox[1].pkt)
    BY <1>1, <1>2, <2>2 DEF ReadInOrder
  <2>4. inbox[1].read + 1 \in {1, 2} /\ inbox[1].read + 1 < Reads(inbox[1].pkt)
    BY <1>5, <2>2, <2>3
  <2>5. ReadInOrder'
    BY <2>2, <2>4 DEF ReadInOrder
  <2>6. \A i \in DOMAIN inbox : inbox'[i] \in InFlight /\ inbox[i] \in InFlight
    BY <1>1, <1>3, <2>2
  <2>7. \A C \in {Strays, Granted, Answers} :
           \A i \in DOMAIN inbox : inbox[i] \in C <=> inbox'[i] \in C
    BY <2>2, <2>6 DEF Strays, Granted, Answers
  <2>8. \A C \in {Strays, Granted, Answers} :
           (Has(inbox, C) <=> Has(inbox', C)) /\ (Sole(inbox, C) <=> Sole(inbox', C))
    BY <2>2, <2>7, HasSame
  <2> QED BY <1>1, <2>1, <2>2, <2>4, <2>5, <2>8
<1> QED BY <1>4, <1>5

\* The first task reads.
LEMMA StreamReceives ==
    ASSUME ClientTypeOK, TcpTypeOK, SafetyInv, StreamInv, Receive
    PROVE  StreamInv'
<1> DEFINE p == Head(inbox).pkt
<1>1. /\ pc = "run" /\ pc' # "callback" /\ mTaskQueue # <<>>
      /\ This.kind \in Receiving /\ This.resp = NoPacket
      /\ isDataAvailable /\ TcpRecv
      /\ UNCHANGED <<outbox, cut, session, mSocket, mDisconnected, mTries,
                     mCurrentlyReceivingPacket>>
  BY RunningHasSocket, ReturnsFine DEF Receive, Running, This, TcpRecv
<1>2. /\ This \in Task /\ FitTask(This) /\ This.req \in Outgoing
      /\ \A C : Has(mTaskQueue, C) <=> This \in C \/ Has(Others, C)
      /\ ~Has(Others, Unanswered)
  BY <1>1, ThisRuns DEF StreamInv, Task
<1>3. inbox \in Seq(InFlight) /\ inbox # <<>> /\ Head(inbox) \in InFlight /\ p \in Packet
  <2>1. inbox \in Seq(InFlight) /\ inbox # <<>>
    BY <1>1 DEF TcpTypeOK, isDataAvailable
  <2>2. Head(inbox) \in InFlight
    BY <2>1
  <2> QED BY <2>1, <2>2 DEF InFlight
<1>4. /\ ReadInOrder'
      /\ \A C \in {Strays, Granted, Answers} :
            /\ Has(inbox', C) => Has(inbox, C)
            /\ Sole(inbox, C) => Sole(inbox', C)
  BY <1>1, <1>3, StreamReads DEF StreamInv
<1>5. PICK t \in Task :
         /\ ReplaceBy(<<t>>) /\ t.kind \in Receiving
         /\ t.keep = This.keep /\ t.req = This.req /\ t.rest = This.rest
         /\ \/ /\ inbox' # <<>> /\ Head(inbox').pkt = p
               /\ Head(inbox').read = Head(inbox).read + 1
               /\ Head(inbox).read + 1 \in {1, 2}
               /\ t.resp = NoPacket
               /\ t.kind = IF This.kind = "recvType" THEN "recvLength" ELSE "recvBody"
            \/ /\ inbox' = Tail(inbox)
               /\ inbox' # <<>> => Head(inbox').read = 0
               /\ t.resp = p /\ t.kind = "recvBody"
  <2>1. CASE inbox' = Tail(inbox) /\ Len(inbox') < Len(inbox)
    <3>1. Completed(This, p) \in Task /\ ReplaceBy(<<Completed(This, p)>>)
      BY <1>2, <1>3, <2>1, TaskTypes DEF Receive
    <3>2. /\ Completed(This, p).kind = "recvBody" /\ Completed(This, p).resp = p
          /\ Completed(This, p).keep = This.keep /\ Completed(This, p).req = This.req
          /\ Completed(This, p).rest = This.rest
      BY <1>2 DEF Completed, Task
    <3>3. inbox' # <<>> => Head(inbox').read = 0
      <4>1. Len(inbox') # Len(inbox)
        BY <1>3, <2>1
      <4> QED BY <1>1, <1>3, <4>1, StreamReads DEF StreamInv
    <3> QED BY <2>1, <3>1, <3>2, <3>3 DEF Receiving
  <2>2. CASE ~(inbox' = Tail(inbox) /\ Len(inbox') < Len(inbox))
    <3> DEFINE k == IF This.kind = "recvType" THEN "recvLength" ELSE "recvBody"
               u == [This EXCEPT !.kind = k]
    <3>1. /\ Len(inbox') = Len(inbox) /\ inbox' # <<>> /\ Head(inbox').pkt = p
          /\ Head(inbox').read = Head(inbox).read + 1
          /\ Head(inbox).read + 1 \in {1, 2}
      BY <1>1, <1>3, <2>2, StreamReads DEF StreamInv
    <3>2. /\ u \in Task /\ u.kind = k /\ u.resp = This.resp /\ u.keep = This.keep
          /\ u.req = This.req /\ u.rest = This.rest
      BY <1>2 DEF Task, TaskKinds, Receiving
    <3>3. ReplaceBy(<<u>>)
      <4>1. ~(Len(inbox') < Len(inbox))
        BY <1>3, <3>1
      <4> QED BY <4>1 DEF Receive
    <3> QED BY <1>1, <3>1, <3>2, <3>3 DEF Receiving
  <2> QED BY <2>1, <2>2
<1>6. /\ FitTask(t) /\ Rank(t) = 0 /\ Rank(This) = 0
      /\ t \notin Openers /\ t \notin News /\ t \notin Firsts /\ t \notin Rests
      /\ This \notin Openers /\ This \notin News /\ This \notin Firsts
      /\ This \notin Rests
      /\ \A q : t \notin RestsNotOf(q) /\ This \notin RestsNotOf(q)
      /\ t \in Joiners <=> This \in Joiners
      /\ t \in Accepted <=> Accepts(t.resp)
      /\ t \in Messaged <=> This \in Joiners /\ t.resp.type = "PUBLISH"
      /\ t \in Unanswered <=> This \in Joiners /\ t.resp = NoPacket
      /\ This \in Unanswered <=> This \in Joiners /\ This.resp = NoPacket
  BY <1>1, <1>2, <1>5, ReceiverSorts
<1>7. /\ mTaskQueue' # <<>> /\ Head(mTaskQueue') = t /\ Ordered(mTaskQueue')
      /\ \A C : Has(mTaskQueue', C) <=> t \in C \/ Has(Others, C)
  BY <1>1, <1>5, <1>6, QueueReplaced DEF StreamInv
<1>8. /\ Has(mTaskQueue', Openers) <=> Has(mTaskQueue, Openers)
      /\ Has(mTaskQueue', Firsts) <=> Has(mTaskQueue, Firsts)
      /\ Has(mTaskQueue', News) <=> Has(mTaskQueue, News)
      /\ Has(mTaskQueue', Rests) <=> Has(mTaskQueue, Rests)
      /\ Has(mTaskQueue', RestsNotOf(cut)) <=> Has(mTaskQueue, RestsNotOf(cut))
      /\ Has(mTaskQueue', Joiners) <=> Has(mTaskQueue, Joiners)
      /\ Has(mTaskQueue', Accepted) => Has(mTaskQueue, Accepted) \/ Accepts(t.resp)
      /\ Has(mTaskQueue', Messaged) =>
            \/ Has(mTaskQueue, Messaged)
            \/ Has(mTaskQueue, Unanswered) /\ t.resp.type = "PUBLISH"
      /\ Has(mTaskQueue', Unanswered) => t.resp = NoPacket /\ Has(mTaskQueue, Unanswered)
  BY <1>1, <1>2, <1>6, <1>7
<1>9. Replacing' <=> Replacing
  BY <1>8 DEF Replacing
<1>10. Ordered(mTaskQueue)' /\ CutIsQueued' /\ JoinsFirst'
  BY <1>1, <1>7, <1>8, <1>9 DEF StreamInv, CutIsQueued, JoinsFirst
<1>11. NewConnection'
  BY <1>1, <1>3, <1>8, <1>9 DEF StreamInv, NewConnection
<1>12. InSession'
  <2>1. inbox' # <<>> => mSocket # "none"
    BY <1>1 DEF isDataAvailable
  <2> QED BY <1>1, <1>4, <2>1 DEF StreamInv, InSession
<1>13. p.type \in Replies \cup {"PUBLISH"} /\ (Accepts(p) => session)
  <2>1. 1 \in DOMAIN inbox /\ Head(inbox) = inbox[1]
    BY <1>3
  <2>2. Head(inbox) \notin Strays /\ (Head(inbox) \in Granted => session)
    BY <2>1 DEF StreamInv, InSession, Has
  <2> QED BY <1>3, <2>2 DEF Strays, Granted
<1>14. AcceptedInSession'
  BY <1>1, <1>5, <1>8, <1>13, NoPacketSorts DEF StreamInv, AcceptedInSession
<1>15. InSync'
  <2> SUFFICES ASSUME ~Replacing
               PROVE  Reader' = IF inbox' = <<>> THEN 0 ELSE Head(inbox').read
    BY <1>9 DEF InSync
  <2>1. ReadsDone[This.kind] = Head(inbox).read
    BY <1>1, <1>3 DEF StreamInv, InSync, Reader, Incomplete, This
  <2>2. CASE t.resp = NoPacket
    <3>1. p # NoPacket
      BY <1>13, NoPacketSorts DEF Replies
    <3>2. /\ inbox' # <<>> /\ Head(inbox').read = Head(inbox).read + 1
          /\ Head(inbox).read + 1 \in {1, 2} /\ Head(inbox).read \in 0 .. 2
          /\ t.kind = IF This.kind = "recvType" THEN "recvLength" ELSE "recvBody"
      BY <1>3, <1>5, <2>2, <3>1 DEF InFlight
    <3>3. Reader' = ReadsDone[t.kind]
      BY <1>5, <1>7, <2>2 DEF Reader, Incomplete
    <3>4. ReadsDone[t.kind] = Head(inbox).read + 1
      BY <1>1, <2>1, <3>2 DEF ReadsDone, Receiving
    <3> QED BY <3>2, <3>3, <3>4
  <2>3. CASE t.resp # NoPacket
    <3>1. Reader' = 0
      BY <1>7, <2>3 DEF Reader, Incomplete
    <3> QED BY <1>5, <2>3, <3>1
  <2> QED BY <2>2, <2>3
<1>16. CallbackRuns'
  BY <1>1 DEF CallbackRuns
<1>17. ConnackFirst'
  <2> SUFFICES ASSUME ~Replacing
               PROVE  /\ ~Has(mTaskQueue', Messaged)
                      /\ Has(mTaskQueue', Unanswered) =>
                            IF inbox' = <<>> THEN ~session'
                            ELSE Head(inbox').pkt.type # "PUBLISH"
    BY <1>9 DEF ConnackFirst
  <2>1. ~Has(mTaskQueue, Messaged) /\ (Has(mTaskQueue, Unanswered) => p.type # "PUBLISH")
    BY <1>3 DEF StreamInv, ConnackFirst
  <2>2. t.resp.type = "PUBLISH" => t.resp = p
    BY <1>5, NoPacketSorts
  <2>3. p # NoPacket
    BY <1>13, NoPacketSorts DEF Replies
  <2> QED BY <1>5, <1>8, <2>1, <2>2, <2>3
<1>18. ASSUME MaxRetries # 0 PROVE Awaited'
  <2> SUFFICES ASSUME ~Replacing
               PROVE  /\ LockStep'
                      /\ Has(outbox', Asked) =>
                            WillTake' /\ ~Has(outbox', Asked \ {Head(mTaskQueue').req})
                      /\ Has(inbox', Answers) => WillTake'
    BY <1>9 DEF Awaited
  <2>1. /\ LockStep
        /\ Has(outbox, Asked) => WillTake /\ ~Has(outbox, Asked \ {This.req})
        /\ Has(inbox, Answers) => WillTake
    BY <1>18 DEF StreamInv, Awaited, This
  <2>2. LockStep'
    BY <1>1, <1>4, <2>1 DEF LockStep
  <2>3. WillTake /\ (t.resp = NoPacket \/ t.resp.type = "PUBLISH") => WillTake'
    BY <1>1, <1>5, <1>7 DEF WillTake, AwaitsReply, This
  <2>4. Has(outbox', Asked) \/ Has(inbox', Answers) =>
           t.resp = NoPacket \/ t.resp.type = "PUBLISH"
    <3> SUFFICES ASSUME Has(outbox', Asked) \/ Has(inbox', Answers),
                        inbox' = Tail(inbox), t.resp = p
                 PROVE  t.resp.type = "PUBLISH"
      BY <1>5
    <3>1. Head(inbox) \notin Answers
      <4>1. /\ Has(inbox, Answers) <=> Head(inbox) \in Answers \/ Has(Tail(inbox), Answers)
            /\ Sole(inbox, Answers) /\ Head(inbox) \in Answers => ~Has(Tail(inbox), Answers)
        BY <1>3, HasTail
      <4> QED BY <1>1, <2>1, <4>1 DEF LockStep
    <3> QED BY <1>3, <1>13, <3>1 DEF Answers
  <2> QED BY <1>1, <1>4, <1>5, <1>7, <2>1, <2>2, <2>3, <2>4
<1> QED BY <1>4, <1>10, <1>11, <1>12, <1>14, <1>15, <1>16, <1>17, <1>18 DEF StreamInv

\* The callbacks of a message are about to run.
LEMMA StreamDispatches ==
    ASSUME ClientTypeOK, TcpTypeOK, SafetyInv, StreamInv, Dispatch \/ HandleConnack
    PROVE  StreamInv'
<1>1. /\ UNCHANGED <<mTaskQueue, inbox, outbox, cut, session, mSocket, mDisconnected>>
      /\ mTries' = mTries \/ mTries' = 0
  BY DEF Dispatch, HandleConnack, tcpVars
<1>2. outbox' # <<>> => mSocket' \in {"up", "none"}
  BY <1>1 DEF StreamInv, InSession
<1>3. CallbackRuns'
  <2>1. CASE Dispatch
    BY <1>1, <2>1 DEF Dispatch, Running, This, CallbackRuns
  <2>2. CASE HandleConnack
    <3>1. Accepts(This.resp)
      BY <2>2 DEF HandleConnack, Violates, Refuses, Accepts
    <3> QED BY <1>1, <2>2, <3>1 DEF HandleConnack, Running, This, CallbackRuns
  <2> QED BY <2>1, <2>2
<1>4. Outstanding => WillTake'
  <2> SUFFICES ASSUME Outstanding PROVE WillTake'
    OBVIOUS
  <2>1. WillTake
    BY DEF StreamInv, Outstanding, Awaited
  <2>2. pc' = "callback"
    BY DEF Dispatch, HandleConnack, Goto
  <2>3. Dispatch
    BY <2>1 DEF HandleConnack, Running, WillTake, AwaitsReply, Receiving
  <2> QED BY <1>1, <2>1, <2>2, <2>3 DEF Dispatch, This, WillTake, AwaitsReply
<1> QED BY <1>1, <1>2, <1>3, <1>4, StreamQuiet

\* The first task had something in hand and is done.
LEMMA StreamShrinks ==
    ASSUME ClientTypeOK, TcpTypeOK, SafetyInv, StreamInv, mTaskQueue # <<>>,
           pc' # "callback", ReplaceBy(<<>>), Rank(This) = 0, ~Incomplete(This),
           This \in Joiners => Replacing \/ (session /\ mTries = 0),
           UNCHANGED <<inbox, outbox, cut, session, mSocket, mDisconnected, mTries>>,
           ~Outstanding
    PROVE  StreamInv'
<1>1. /\ This \in Task /\ FitTask(This) /\ Ordered(Others)
      /\ \A C : Has(mTaskQueue, C) <=> This \in C \/ Has(Others, C)
      /\ ~Has(Others, Unanswered)
      /\ Others # <<>> => ~Incomplete(Head(Others))
      /\ mTaskQueue' = Others
  BY ThisRuns, QueueReplaced DEF StreamInv
<1>2. ~This.rest
  BY <1>1, Ranks DEF FitTask
<1>3. /\ This \notin Openers /\ This \notin Firsts /\ This \notin News
      /\ This \notin Rests /\ \A p : This \notin RestsNotOf(p)
  BY <1>1, <1>2, Sorts
<1>4. /\ Has(mTaskQueue', Openers) <=> Has(mTaskQueue, Openers)
      /\ Has(mTaskQueue', Firsts) <=> Has(mTaskQueue, Firsts)
      /\ Has(mTaskQueue', News) <=> Has(mTaskQueue, News)
      /\ Has(mTaskQueue', Rests) <=> Has(mTaskQueue, Rests)
      /\ Has(mTaskQueue', RestsNotOf(cut)) <=> Has(mTaskQueue, RestsNotOf(cut))
      /\ Has(mTaskQueue, Joiners) => Has(mTaskQueue', Joiners) \/ This \in Joiners
      /\ Has(mTaskQueue', Accepted) => Has(mTaskQueue, Accepted)
      /\ Has(mTaskQueue', Messaged) => Has(mTaskQueue, Messaged)
      /\ ~Has(mTaskQueue', Unanswered)
  BY <1>1, <1>3
<1>5. Replacing' <=> Replacing
  BY <1>4 DEF Replacing
<1>6. Ordered(mTaskQueue)' /\ CutIsQueued'
  BY <1>1, <1>4, <1>5 DEF StreamInv, CutIsQueued
<1>7. NewConnection' /\ JoinsFirst'
  BY <1>4, <1>5 DEF StreamInv, NewConnection, JoinsFirst, This
<1>8. InSession' /\ AcceptedInSession' /\ ReadInOrder'
  BY <1>4 DEF StreamInv, InSession, AcceptedInSession, ReadInOrder
<1>9. Reader = 0 /\ Reader' = 0
  BY <1>1 DEF Reader, Incomplete, This
<1>10. InSync' /\ CallbackRuns' /\ ConnackFirst'
  BY <1>4, <1>5, <1>9 DEF StreamInv, InSync, CallbackRuns, ConnackFirst
<1>11. MaxRetries # 0 => Awaited'
  BY <1>5 DEF StreamInv, Awaited, LockStep, Outstanding
<1> QED BY <1>6, <1>7, <1>8, <1>10, <1>11 DEF StreamInv

\* While the connection is to be replaced little has to hold.
LEMMA StreamReplacing ==
    ASSUME StreamInv, Ordered(mTaskQueue'), Replacing, pc' # "callback",
           Has(mTaskQueue', Openers), Has(mTaskQueue', Firsts),
           Has(mTaskQueue', RestsNotOf(cut)) => Has(mTaskQueue, RestsNotOf(cut)),
           Has(mTaskQueue', Accepted) => Has(mTaskQueue, Accepted),
           UNCHANGED <<inbox, outbox, cut, session, mSocket, mDisconnected>>
    PROVE  StreamInv'
<1>1. Replacing'
  BY DEF Replacing
<1>2. Ordered(mTaskQueue)' /\ CutIsQueued' /\ NewConnection' /\ JoinsFirst'
  BY <1>1 DEF StreamInv, CutIsQueued, NewConnection, JoinsFirst
<1>3. InSession' /\ AcceptedInSession' /\ ReadInOrder'
  BY DEF StreamInv, InSession, AcceptedInSession, ReadInOrder
<1>4. InSync' /\ CallbackRuns' /\ ConnackFirst' /\ Awaited'
  BY <1>1 DEF InSync, CallbackRuns, ConnackFirst, Awaited
<1> QED BY <1>2, <1>3, <1>4 DEF StreamInv

\* A message has been dispatched while a reply is awaited: back to receiving.
LEMMA StreamDispatched ==
    ASSUME ClientTypeOK, TcpTypeOK, SafetyInv, StreamInv, Dispatched
    PROVE  StreamInv'
<1>1. /\ pc = "callback" /\ pc' # "callback" /\ mTaskQueue # <<>>
      /\ This.kind = "recvBody" /\ This.resp.type = "PUBLISH"
      /\ UNCHANGED <<inbox, outbox, cut, session, mSocket, mDisconnected, mTries>>
  BY RunningHasSocket, ReturnsFine
     DEF Dispatched, StreamInv, CallbackRuns, This, tcpVars
<1>2. /\ This \in Task /\ FitTask(This) /\ This.req \in Outgoing
      /\ \A C : Has(mTaskQueue, C) <=> This \in C \/ Has(Others, C)
  BY <1>1, ThisRuns DEF StreamInv, Task
<1>3. /\ Rank(This) = 0 /\ ~This.rest /\ This.resp # NoPacket /\ ~Accepts(This.resp)
      /\ ~Incomplete(This)
  BY <1>1, <1>2, Ranks, NoPacketSorts DEF FitTask, Receiving, Accepts, Incomplete
<1>4. CASE This.req = NoPacket
  <2>1. ReplaceBy(<<>>)
    BY <1>4 DEF Dispatched
  <2>2. This \notin Joiners
    BY <1>2, <1>4, Sorts, NoPacketSorts
  <2>3. ~Outstanding
    BY <1>4 DEF StreamInv, Outstanding, Awaited, WillTake, AwaitsReply, This
  <2> QED BY <1>1, <1>3, <2>1, <2>2, <2>3, StreamShrinks
<1>5. CASE This.req # NoPacket
  <2> DEFINE t == RecvTask(This.req)
  <2>1. ReplaceBy(<<t>>) /\ mCurrentlyReceivingPacket' = TRUE
    BY <1>5 DEF Dispatched
  <2>2. /\ t \in Task /\ FitTask(t) /\ Rank(t) = 0 /\ t.req = This.req
        /\ t.kind = "recvType" /\ t.resp = NoPacket
        /\ \A C \in TaskSorts :
              t \in C <=> This.req.type = "CONNECT" /\ C \in {Joiners, Unanswered}
    BY <1>2, <1>5, AwaitTask
  <2> HIDE DEF t
  <2>3. /\ mTaskQueue' # <<>> /\ Head(mTaskQueue') = t /\ Ordered(mTaskQueue')
        /\ \A C : Has(mTaskQueue', C) <=> t \in C \/ Has(Others, C)
    BY <1>1, <1>3, <2>1, <2>2, QueueReplaced DEF StreamInv
  <2>4. CASE This.req.type = "CONNECT"
    <3>1. Replacing
      <4>1. This \in Messaged
        BY <1>1, <1>2, <2>4, Sorts DEF Receiving
      <4> QED BY <1>2, <4>1 DEF StreamInv, ConnackFirst
    <3>2. /\ t \notin Openers /\ t \notin Accepted /\ t \notin Firsts
          /\ \A p : t \notin RestsNotOf(p)
      BY <2>2, Sorts, Ranks, NoPacketSorts DEF FitTask
    <3>3. This \notin Openers /\ This \notin Firsts
      BY <1>2, <1>3, Sorts
    <3>4. Has(mTaskQueue, Openers) /\ Has(mTaskQueue, Firsts)
      BY <3>1 DEF Replacing, StreamInv, NewConnection
    <3> QED BY <1>1, <1>2, <2>3, <3>1, <3>2, <3>3, <3>4, StreamReplacing
  <2>5. CASE This.req.type # "CONNECT"
    <3>1. \A C \in TaskSorts : This \notin C
      BY <1>2, <1>3, <2>5, NoSort
    <3>2. Alike(mTaskQueue', mTaskQueue)
      BY <1>2, <2>2, <2>3, <2>5, <3>1 DEF Alike
    <3>3. ~(Has(mTaskQueue, News) /\ ~Replacing)
      BY <1>3 DEF StreamInv, NewConnection, This
    <3>4. Reader = 0 /\ Reader' = 0
      BY <1>3, <2>2, <2>3 DEF Reader, ReadsDone, Incomplete, This
    <3>5. Outstanding => WillTake' /\ UNCHANGED (Head(mTaskQueue).req)
      BY <1>5, <2>1, <2>2, <2>3 DEF WillTake, AwaitsReply, Receiving, This
    <3>6. CallbackRuns'
      BY <1>1 DEF CallbackRuns
    <3> QED BY <1>1, <2>3, <3>2, <3>3, <3>4, <3>5, <3>6, StreamAlike DEF SameSocket
  <2> QED BY <2>4, <2>5
<1> QED BY <1>4, <1>5

\* A packet that is no message goes to the handler, or nowhere.
LEMMA StreamDelivers ==
    ASSUME ClientTypeOK, TcpTypeOK, SafetyInv, StreamInv, Deliver
    PROVE  StreamInv'
<1>1. /\ pc = "run" /\ pc' # "callback" /\ mTaskQueue # <<>>
      /\ This.kind = "recvBody" /\ This.resp # NoPacket /\ This.resp.type # "PUBLISH"
      /\ UNCHANGED <<inbox, outbox, cut, session, mSocket, mDisconnected, mTries>>
  BY RunningHasSocket, ReturnsFine DEF Deliver, Running, This, tcpVars
<1>2. /\ This \in Task /\ FitTask(This)
      /\ \A C : Has(mTaskQueue, C) <=> This \in C \/ Has(Others, C)
  BY <1>1, ThisRuns DEF StreamInv
<1>3. Rank(This) = 0 /\ ~This.rest /\ ~This.keep /\ ~Incomplete(This)
  BY <1>1, <1>2, Ranks DEF FitTask, Receiving, Incomplete
<1>4. ~Outstanding
  BY <1>1 DEF StreamInv, Outstanding, Awaited, WillTake, This
<1>5. CASE This.req = NoPacket
  <2>1. ReplaceBy(<<>>)
    BY <1>5 DEF Deliver
  <2>2. This \notin Joiners
    BY <1>2, <1>5, Sorts, NoPacketSorts
  <2> QED BY <1>1, <1>3, <1>4, <2>1, <2>2, StreamShrinks
<1>6. CASE This.req # NoPacket
  <2> DEFINE t == HandleTask(This)
  <2>1. ReplaceBy(<<t>>)
    BY <1>6 DEF Deliver
  <2>2. /\ t \in Task /\ t.kind = "handle" /\ t.req = This.req /\ t.resp = This.resp
        /\ t.rest = This.rest /\ t.keep = This.keep
    BY <1>2, TaskTypes DEF HandleTask, Task
  <2> HIDE DEF t
  <2>3. Rank(t) = 0 /\ FitTask(t) /\ ~Incomplete(t)
    <3>1. Rank(t) = 0 /\ t.kind \notin Receiving
      BY <2>2, Ranks DEF Receiving
    <3> QED BY <1>3, <1>6, <2>2, <3>1 DEF FitTask, Incomplete
  <2>4. \A C \in TaskSorts : t \in C <=> This \in C
    <3>1. t.kind \notin Receiving
      BY <2>2 DEF Receiving
    <3> QED BY <1>1, <1>2, <1>3, <2>2, <2>3, <3>1, Sorts DEF TaskSorts
  <2>5. /\ mTaskQueue' # <<>> /\ Head(mTaskQueue') = t /\ Ordered(mTaskQueue')
        /\ \A C : Has(mTaskQueue', C) <=> t \in C \/ Has(Others, C)
    BY <1>1, <1>3, <2>1, <2>2, <2>3, QueueReplaced DEF StreamInv
  <2>6. Alike(mTaskQueue', mTaskQueue)
    BY <1>2, <2>4, <2>5 DEF Alike
  <2>7. ~(Has(mTaskQueue, News) /\ ~Replacing)
    BY <1>3 DEF StreamInv, NewConnection, This
  <2>8. Reader = 0 /\ Reader' = 0
    BY <1>3, <2>3, <2>5 DEF Reader, Incomplete, This
  <2>9. CallbackRuns'
    BY <1>1 DEF CallbackRuns
  <2> QED BY <1>1, <1>4, <2>5, <2>6, <2>7, <2>8, <2>9, StreamAlike DEF SameSocket
<1> QED BY <1>5, <1>6

\* A reply has been handled.
LEMMA StreamHandled ==
    ASSUME ClientTypeOK, TcpTypeOK, SafetyInv, StreamInv, Handled
    PROVE  StreamInv'
<1>1. /\ pc \in {"run", "callback"} /\ pc' # "callback" /\ mTaskQueue # <<>>
      /\ This.kind = "handle" /\ ReplaceBy(<<>>)
      /\ UNCHANGED <<inbox, outbox, cut, session, mSocket, mDisconnected, mTries>>
  BY RunningHasSocket, ReturnsFine DEF Handled, Running, InOnConnect, This, tcpVars
<1>2. /\ This \in Task
      /\ \A C : Has(mTaskQueue, C) <=> This \in C \/ Has(Others, C)
  BY <1>1, ThisRuns DEF StreamInv
<1>3. Rank(This) = 0 /\ ~Incomplete(This) /\ This.kind \notin Receiving
  BY <1>1, <1>2, Ranks DEF Receiving, Incomplete
<1>4. ~Outstanding
  BY <1>3 DEF StreamInv, Outstanding, Awaited, WillTake, AwaitsReply, This
<1>5. This \in Joiners => session /\ mTries = 0
  <2>1. CASE InOnConnect
    <3>1. Accepts(This.resp) /\ mTries = 0
      BY <1>1, <2>1 DEF InOnConnect, StreamInv, CallbackRuns, This
    <3>2. Has(mTaskQueue, Accepted)
      BY <1>2, <1>3, <3>1, Sorts
    <3> QED BY <3>1, <3>2 DEF StreamInv, AcceptedInSession
  <2>2. CASE This.resp.type # "CONNACK" /\ ~Violates(This.req, This.resp)
    <3>1. This.req.type # "CONNECT"
      BY <2>2 DEF Violates, ReplyTo
    <3> QED BY <1>2, <3>1, Sorts
  <2> QED BY <2>1, <2>2 DEF Handled
<1> QED BY <1>1, <1>3, <1>4, <1>5, StreamShrinks

\* All the tasks.
LEMMA StreamTasks ==
    ASSUME ClientTypeOK, TcpTypeOK, SafetyInv, StreamInv, RunTask
    PROVE  StreamInv'
<1>1. CASE TcpConnectWaits \/ CheckConnectRepeats \/ ReceiveNone
  BY <1>1, StreamRepeats
<1>2. CASE TcpConnectOpens
  BY <1>2, StreamOpens
<1>3. CASE TcpConnectThrows \/ HandleViolation
  BY <1>3, StreamLost
<1>4. CASE CheckConnectDone
  BY <1>4, StreamConnects
<1>5. CASE \/ CheckConnectThrows \/ SendThrows \/ ReceiveThrows \/ HandleRefusal
           \/ CallbackThrows
  BY <1>5, StreamFails
<1>6. CASE Prepare \/ SendNone
  BY <1>6, StreamPrepares
<1>7. CASE SendPart
  BY <1>7, StreamCuts
<1>8. CASE SendAll
  BY <1>8, StreamAsks, StreamTells
<1>9. CASE SendDisconnect
  BY <1>9, StreamEnds
<1>10. CASE Receive
  BY <1>10, StreamReceives
<1>11. CASE Dispatch \/ HandleConnack
  BY <1>11, StreamDispatches
<1>12. CASE Dispatched
  BY <1>12, StreamDispatched
<1>13. CASE Deliver
  BY <1>13, StreamDelivers
<1>14. CASE Handled
  BY <1>14, StreamHandled
<1> QED BY <1>1, <1>2, <1>3, <1>4, <1>5, <1>6, <1>7, <1>8, <1>9, <1>10, <1>11, <1>12,
           <1>13, <1>14 DEF RunTask

-----------------------------------------------------------------------------
(* The network and the broker. *)

\* What arrives completes a packet; its place in the stream stays.
LEMMA ArriveKeeps ==
    ASSUME TcpTypeOK, TcpTypeOK', ReadInOrder, Arrive
    PROVE  /\ ReadInOrder' /\ inbox # <<>> /\ inbox' # <<>>
           /\ Head(inbox').pkt = Head(inbox).pkt /\ Head(inbox').read = Head(inbox).read
           /\ \A C \in {Strays, Granted, Answers} :
                 (Has(inbox, C) <=> Has(inbox', C)) /\ (Sole(inbox, C) <=> Sole(inbox', C))
<1> DEFINE n == Len(inbox)
<1>1. /\ inbox \in Seq(InFlight) /\ inbox # <<>> /\ inbox' \in Seq(InFlight)
      /\ inbox' = [inbox EXCEPT ![n].got = Reads(inbox[n].pkt)]
  BY DEF Arrive, TcpTypeOK
<1>2. /\ n \in Nat /\ n >= 1 /\ DOMAIN inbox = 1 .. n
      /\ \A i \in DOMAIN inbox : inbox[i] \in InFlight
      /\ Head(inbox) = inbox[1]
  BY <1>1
<1> HIDE DEF n
<1>3. 1 \in DOMAIN inbox /\ n \in DOMAIN inbox
  BY <1>2
<1>4. /\ DOMAIN inbox' = DOMAIN inbox
      /\ inbox'[n] = [inbox[n] EXCEPT !.got = Reads(inbox[n].pkt)]
      /\ \A i \in DOMAIN inbox : i # n => inbox'[i] = inbox[i]
  BY <1>1, <1>3
<1>5. inbox'[n].pkt = inbox[n].pkt /\ inbox'[n].read = inbox[n].read
  <2>1. inbox[n] \in [pkt : Packet, got : 1 .. 3, read : 0 .. 2]
    BY <1>2, <1>3 DEF InFlight
  <2> QED BY <1>4, <2>1
<1>6. \A i \in DOMAIN inbox : /\ inbox'[i].pkt = inbox[i].pkt
                              /\ inbox'[i].read = inbox[i].read
  BY <1>4, <1>5
<1>7. inbox' # <<>> /\ Head(inbox') = inbox'[1]
  <2>1. /\ DOMAIN inbox' = 1 .. Len(inbox') /\ Len(inbox') \in Nat
        /\ inbox' # <<>> => Head(inbox') = inbox'[1]
    BY <1>1
  <2>2. DOMAIN inbox' # {}
    BY <1>3, <1>4
  <2>3. inbox' # <<>>
    BY <2>2
  <2> QED BY <2>1, <2>3
<1>8. ReadInOrder'
  BY <1>4, <1>6 DEF ReadInOrder
<1>9. \A i \in DOMAIN inbox : inbox'[i] \in InFlight
  BY <1>1, <1>4
<1>10. \A C \in {Strays, Granted, Answers} :
          \A i \in DOMAIN inbox : inbox[i] \in C <=> inbox'[i] \in C
  BY <1>2, <1>6, <1>9 DEF Strays, Granted, Answers
<1>11. \A C \in {Strays, Granted, Answers} :
          (Has(inbox, C) <=> Has(inbox', C)) /\ (Sole(inbox, C) <=> Sole(inbox', C))
  BY <1>4, <1>10, HasSame
<1> QED BY <1>1, <1>2, <1>3, <1>6, <1>7, <1>8, <1>11

LEMMA StreamNetwork ==
    ASSUME TcpTypeOK, TcpTypeOK', StreamInv, Network, UNCHANGED clientVars
    PROVE  StreamInv'
<1>1. UNCHANGED <<mTaskQueue, mDisconnected, mTries, pc, mCurrentlyReceivingPacket>>
  BY DEF clientVars, taskVars, loopVars
<1>2. CallbackRuns' /\ (Outstanding => WillTake')
  BY <1>1 DEF StreamInv, CallbackRuns, Outstanding, Awaited, WillTake, AwaitsReply
<1>3. CASE Establish \/ Refuse \/ PeerCloses \/ Reset \/ Tick
  <2>1. /\ UNCHANGED <<inbox, cut, session>>
        /\ outbox' = outbox \/ outbox' = <<>>
        /\ mSocket' = "none" <=> mSocket = "none"
    BY <1>3 DEF Establish, Refuse, PeerCloses, Reset, Tick
  <2>2. outbox' # <<>> => mSocket' \in {"up", "none"}
    BY <1>3 DEF Establish, Refuse, PeerCloses, Reset, Tick, StreamInv, InSession
  <2> QED BY <1>1, <1>2, <2>1, <2>2, StreamQuiet
<1>4. CASE Arrive
  <2>1. /\ UNCHANGED <<mSocket, outbox, cut, session>> /\ mSocket = "up"
    BY <1>4 DEF Arrive
  <2>2. /\ ReadInOrder' /\ inbox # <<>> /\ inbox' # <<>>
        /\ Head(inbox').pkt = Head(inbox).pkt /\ Head(inbox').read = Head(inbox).read
        /\ Has(inbox, Strays) <=> Has(inbox', Strays)
        /\ Has(inbox, Granted) <=> Has(inbox', Granted)
        /\ Has(inbox, Answers) <=> Has(inbox', Answers)
        /\ Sole(inbox, Answers) <=> Sole(inbox', Answers)
    BY <1>4, ArriveKeeps DEF StreamInv
  <2>3. Ordered(mTaskQueue)' /\ CutIsQueued' /\ NewConnection' /\ JoinsFirst'
    BY <1>1, <2>1, <2>2
       DEF StreamInv, CutIsQueued, NewConnection, JoinsFirst, Replacing
  <2>4. InSession' /\ AcceptedInSession' /\ InSync' /\ ConnackFirst'
    BY <1>1, <2>1, <2>2 DEF StreamInv, InSession, AcceptedInSession, InSync, ConnackFirst,
                            Replacing, Reader, Incomplete
  <2>5. MaxRetries # 0 => Awaited'
    BY <1>1, <2>1, <2>2 DEF StreamInv, Awaited, LockStep, WillTake, AwaitsReply, Replacing
  <2> QED BY <1>2, <2>2, <2>3, <2>4, <2>5 DEF StreamInv
<1> QED BY <1>3, <1>4 DEF Network

\* The broker sends a packet.
LEMMA StreamArrives ==
    ASSUME TcpTypeOK, StreamInv, UNCHANGED clientVars, UNCHANGED <<cut, mSocket>>,
           mSocket = "up", NEW e \in InFlight, e.read = 0, inbox' = Append(inbox, e),
           e \notin Strays, e \in Granted => session', session => session',
           outbox' # outbox => outbox # <<>> /\ outbox' = Tail(outbox),
           ~(Has(mTaskQueue, News) /\ ~Replacing),
           Has(mTaskQueue, Unanswered) /\ ~Replacing /\ inbox = <<>>
               => e.pkt.type # "PUBLISH",
           MaxRetries # 0 /\ ~Replacing /\ e \in Answers
               => WillTake /\ ~Has(inbox, Answers) /\ ~Has(outbox', Asked)
    PROVE  StreamInv'
<1>1. UNCHANGED <<mTaskQueue, mDisconnected, mTries, pc, mCurrentlyReceivingPacket>>
  BY DEF clientVars, taskVars, loopVars
<1>2. /\ inbox \in Seq(InFlight) /\ outbox \in Seq(Outgoing)
  BY DEF TcpTypeOK
<1>3. /\ inbox' # <<>>
      /\ inbox # <<>> => Head(inbox') = Head(inbox)
      /\ inbox = <<>> => Head(inbox') = e
      /\ \A C : Has(inbox', C) <=> Has(inbox, C) \/ e \in C
      /\ \A C : Sole(inbox, C) /\ (e \in C => ~Has(inbox, C)) => Sole(inbox', C)
  BY <1>2, QueueBack, HasBack
<1>4. /\ \A C : Has(outbox', C) => Has(outbox, C)
      /\ \A C : Sole(outbox, C) => Sole(outbox', C)
      /\ outbox = <<>> => outbox' = <<>>
  <2>1. CASE outbox' = outbox
    BY <2>1
  <2>2. CASE outbox # <<>> /\ outbox' = Tail(outbox)
    BY <1>2, <2>2, HasTail
  <2> QED BY <2>1, <2>2
<1>5. ReadInOrder'
  <2> DEFINE m == Len(inbox)
  <2>1. /\ m \in Nat /\ DOMAIN inbox = 1 .. m /\ DOMAIN inbox' = 1 .. m + 1
        /\ \A i \in 1 .. m : inbox'[i] = inbox[i]
        /\ inbox'[m + 1] = e
    BY <1>2, QueueBack
  <2>2. 0 < Reads(e.pkt)
    BY ReadsType
  <2> HIDE DEF m
  <2>3. \A i \in DOMAIN inbox' : \/ i \in DOMAIN inbox /\ inbox'[i] = inbox[i]
                                 \/ inbox'[i] = e
    BY <2>1
  <2> QED BY <2>2, <2>3 DEF StreamInv, ReadInOrder
<1>6. Ordered(mTaskQueue)' /\ CutIsQueued' /\ NewConnection' /\ JoinsFirst'
  BY <1>1, <1>4 DEF StreamInv, CutIsQueued, NewConnection, JoinsFirst, Replacing
<1>7. InSession' /\ AcceptedInSession'
  BY <1>1, <1>3, <1>4 DEF StreamInv, InSession, AcceptedInSession
<1>8. InSync' /\ CallbackRuns' /\ ConnackFirst'
  BY <1>1, <1>3 DEF StreamInv, InSync, CallbackRuns, ConnackFirst, Replacing, Reader,
                    Incomplete
<1>9. ASSUME MaxRetries # 0 PROVE Awaited'
  <2> SUFFICES ASSUME ~Replacing
               PROVE  /\ LockStep'
                      /\ Has(outbox', Asked) =>
                            /\ WillTake'
                            /\ ~Has(outbox', Asked \ {Head(mTaskQueue').req})
                      /\ Has(inbox', Answers) => WillTake'
    BY <1>1 DEF Awaited, Replacing
  <2>1. /\ LockStep
        /\ Has(outbox, Asked) => WillTake /\ ~Has(outbox, Asked \ {Head(mTaskQueue).req})
        /\ Has(inbox, Answers) => WillTake
    BY <1>9 DEF StreamInv, Awaited
  <2>2. WillTake' <=> WillTake
    BY <1>1 DEF WillTake, AwaitsReply
  <2>3. LockStep'
    BY <1>3, <1>4, <1>9, <2>1 DEF LockStep
  <2> QED BY <1>1, <1>3, <1>4, <1>9, <2>1, <2>2, <2>3
<1> QED BY <1>5, <1>6, <1>7, <1>8, <1>9 DEF StreamInv

\* The broker takes a packet and sends none.
LEMMA StreamTakes ==
    ASSUME TcpTypeOK, StreamInv, UNCHANGED clientVars, UNCHANGED <<inbox, cut, mSocket>>,
           outbox # <<>>, outbox' = Tail(outbox),
           session' # session =>
              /\ mSocket = "none"
              /\ ~Has(mTaskQueue, Unanswered)
              /\ ~session' => ~Has(mTaskQueue, Accepted)
    PROVE  StreamInv'
<1>1. UNCHANGED <<mTaskQueue, mDisconnected, mTries, pc, mCurrentlyReceivingPacket>>
  BY DEF clientVars, taskVars, loopVars
<1>2. outbox \in Seq(Outgoing)
  BY DEF TcpTypeOK
<1>3. /\ \A C : Has(outbox', C) => Has(outbox, C)
      /\ \A C : Sole(outbox, C) => Sole(outbox', C)
  BY <1>2, HasTail
<1>4. Ordered(mTaskQueue)' /\ CutIsQueued' /\ NewConnection' /\ JoinsFirst'
  BY <1>1 DEF StreamInv, CutIsQueued, NewConnection, JoinsFirst, Replacing
<1>5. InSession' /\ AcceptedInSession' /\ ReadInOrder'
  BY <1>1, <1>3, HasNone DEF StreamInv, InSession, AcceptedInSession, ReadInOrder
<1>6. InSync' /\ CallbackRuns' /\ ConnackFirst'
  BY <1>1 DEF StreamInv, InSync, CallbackRuns, ConnackFirst, Replacing, Reader, Incomplete
<1>7. MaxRetries # 0 => Awaited'
  BY <1>1, <1>3 DEF StreamInv, Awaited, LockStep, Replacing, WillTake, AwaitsReply
<1> QED BY <1>4, <1>5, <1>6, <1>7 DEF StreamInv

\* What Transmit does while there is a connection.
LEMMA TransmitMeans ==
    ASSUME NEW p \in Packet, Transmit(p)
    PROVE  /\ mSocket = "up" => \E e \in InFlight : /\ e.pkt = p /\ e.read = 0
                                                    /\ inbox' = Append(inbox, e)
           /\ mSocket # "up" => UNCHANGED inbox
<1>1. CASE mSocket = "up"
  <2>1. PICK n \in 1 .. Reads(p) :
           inbox' = Append(inbox, [pkt |-> p, got |-> n, read |-> 0])
    BY <1>1 DEF Transmit
  <2>2. n \in 1 .. 3 /\ n <= Reads(p)
    BY ReadsType
  <2>3. [pkt |-> p, got |-> n, read |-> 0] \in InFlight
    BY <2>2 DEF InFlight
  <2> QED BY <1>1, <2>1, <2>3
<1>2. CASE mSocket # "up"
  BY <1>2 DEF Transmit
<1> QED BY <1>1, <1>2

\* Whatever the broker answers is a reply, and accepts only a CONNECT.
LEMMA ReplyMeans ==
    ASSUME NEW p \in Packet, p.type \in Requests, NEW fine \in BOOLEAN, Reply(p, fine)
    PROVE  \E q \in Packet : /\ Transmit(q) /\ q.type \in Replies
                             /\ Accepts(q) => \/ fine /\ p.type = "CONNECT"
                                              \/ p.type # "CONNECT"
<1>1. /\ ReplyTo[p.type] \in Replies
      /\ ReplyTo[p.type] = "CONNACK" => p.type = "CONNECT"
  BY DEF ReplyTo, Requests, Replies
<1>2. /\ MakePacket(ReplyTo[p.type], p.id, "ok") \in Packet
      /\ BadReplies(p) \subseteq Packet
      /\ \A v \in Verdicts : MakePacket("CONNACK", 0, v) \in Packet
      /\ MakePacket("SUBACK", p.id, "refused") \in Packet
  BY ReplyTypes
<1>3. CASE fine /\ Transmit(MakePacket(ReplyTo[p.type], p.id, "ok"))
  BY <1>1, <1>2, <1>3 DEF MakePacket, Accepts
<1>4. CASE \E q \in BadReplies(p) : Transmit(q)
  <2>1. PICK q \in BadReplies(p) : Transmit(q)
    BY <1>4
  <2>2. /\ q.type \in Replies
        /\ p.type = "CONNECT" => q.type # "CONNACK"
    BY <1>1, <2>1 DEF BadReplies, MakePacket, Replies
  <2> QED BY <1>2, <2>1, <2>2 DEF Accepts
<1>5. CASE \E v \in {"refused", "badCode"} : Transmit(MakePacket("CONNACK", 0, v))
  <2>1. PICK v \in {"refused", "badCode"} : Transmit(MakePacket("CONNACK", 0, v))
    BY <1>5
  <2>2. v \in Verdicts
    BY DEF Verdicts
  <2> QED BY <1>2, <2>1, <2>2 DEF MakePacket, Accepts, Replies
<1>6. CASE Transmit(MakePacket("SUBACK", p.id, "refused"))
  BY <1>2, <1>6 DEF MakePacket, Accepts, Replies
<1> QED BY <1>3, <1>4, <1>5, <1>6 DEF Reply

LEMMA StreamAnswers ==
    ASSUME ClientTypeOK, TcpTypeOK, SafetyInv, StreamInv, TakeRequest, UNCHANGED clientVars
    PROVE  StreamInv'
<1> DEFINE p == Head(outbox)
<1>1. /\ outbox # <<>> /\ p.type \in Requests /\ outbox' = Tail(outbox)
      /\ UNCHANGED <<cut, mSocket>>
  BY DEF TakeRequest
<1>2. PICK fine \in BOOLEAN : /\ Reply(p, fine)
                              /\ session' = (session \/ (p.type = "CONNECT" /\ fine))
  BY DEF TakeRequest
<1>3. /\ outbox \in Seq(Outgoing) /\ p \in Outgoing /\ p \in Packet
      /\ 1 \in DOMAIN outbox /\ p = outbox[1]
  BY <1>1, PacketTypes DEF TcpTypeOK
<1>4. /\ Has(outbox, Asked)
      /\ p.type # "CONNECT" /\ mSocket # "none" => session
      /\ mSocket \in {"up", "none"}
  <2>1. p \in Asked /\ (p.type # "CONNECT" => p \in NotFirst)
    BY <1>1, <1>3 DEF Asked, NotFirst
  <2> QED BY <1>1, <1>3, <2>1 DEF StreamInv, InSession, Has
<1>5. ~(Has(mTaskQueue, News) /\ ~Replacing)
  BY <1>1 DEF StreamInv, NewConnection
<1>6. PICK q \in Packet : /\ Transmit(q) /\ q.type \in Replies
                          /\ Accepts(q) => \/ fine /\ p.type = "CONNECT"
                                           \/ p.type # "CONNECT"
  BY <1>1, <1>2, <1>3, ReplyMeans
<1>7. CASE mSocket = "up"
  <2>1. PICK e \in InFlight : e.pkt = q /\ e.read = 0 /\ inbox' = Append(inbox, e)
    BY <1>6, <1>7, TransmitMeans
  <2>2. e \notin Strays /\ (e \in Granted => session') /\ e.pkt.type # "PUBLISH"
    <3>1. Accepts(q) => session'
      BY <1>2, <1>4, <1>6, <1>7
    <3>2. q.type # "PUBLISH"
      BY <1>6 DEF Replies
    <3> QED BY <1>6, <2>1, <3>1, <3>2 DEF Strays, Granted
  <2>3. ASSUME MaxRetries # 0, ~Replacing
        PROVE  WillTake /\ ~Has(inbox, Answers) /\ ~Has(outbox', Asked)
    <3>1. WillTake /\ ~Has(inbox, Answers) /\ Sole(outbox, Asked)
      BY <1>4, <2>3 DEF StreamInv, Awaited, LockStep
    <3>2. p \in Asked
      BY <1>1, <1>3 DEF Asked
    <3>3. ~Has(outbox', Asked)
      BY <1>1, <1>3, <3>1, <3>2, HasTail
    <3> QED BY <3>1, <3>3
  <2>4. session => session'
    BY <1>2
  <2> QED BY <1>1, <1>5, <1>7, <2>1, <2>2, <2>3, <2>4, StreamArrives
<1>8. CASE mSocket = "none"
  <2>1. UNCHANGED inbox
    BY <1>6, <1>8, TransmitMeans
  <2>2. ~Has(mTaskQueue, Unanswered)
    <3>1. CASE mTaskQueue = <<>>
      BY <3>1, HasNone
    <3>2. CASE mTaskQueue # <<>>
      <4>1. Reconnects(This)
        BY <1>8, <3>2 DEF SafetyInv, NoSocketNoWork, This
      <4>2. /\ This \in Task
            /\ \A C : Has(mTaskQueue, C) <=> This \in C \/ Has(Others, C)
            /\ ~Has(Others, Unanswered)
        BY <3>2, ThisRuns DEF StreamInv
      <4>3. This \notin Unanswered
        BY <4>1, <4>2, Sorts DEF Reconnects, Receiving
      <4> QED BY <4>2, <4>3
    <3> QED BY <3>1, <3>2
  <2>3. session' # session => session'
    BY <1>2 DEF TcpTypeOK
  <2> QED BY <1>1, <1>8, <2>1, <2>2, <2>3, StreamTakes
<1> QED BY <1>4, <1>7, <1>8

LEMMA StreamBroker ==
    ASSUME ClientTypeOK, TcpTypeOK, SafetyInv, StreamInv, BrokerStep, UNCHANGED clientVars
    PROVE  StreamInv'
<1>1. CASE TakeRequest
  BY <1>1, StreamAnswers
<1>2. CASE TakePublish
  BY <1>2, StreamTakes DEF TakePublish
<1>3. CASE TakeDisconnect
  <2>1. /\ outbox # <<>> /\ outbox' = Tail(outbox) /\ UNCHANGED <<inbox, cut, mSocket>>
        /\ Head(outbox).type = "DISCONNECT"
    BY <1>3 DEF TakeDisconnect
  <2>2. Has(outbox, Farewells)
    <3>1. 1 \in DOMAIN outbox /\ Head(outbox) = outbox[1] /\ Head(outbox) \in Outgoing
      BY <2>1 DEF TcpTypeOK
    <3> QED BY <2>1, <3>1 DEF Farewells, Has
  <2>3. mTaskQueue = <<>> /\ mSocket = "none"
    BY <2>2 DEF StreamInv, InSession, SafetyInv, DisconnectIsFinal
  <2>4. ~Has(mTaskQueue, Unanswered) /\ ~Has(mTaskQueue, Accepted)
    BY <2>3, HasNone
  <2>5. session' # session =>
           /\ mSocket = "none"
           /\ ~Has(mTaskQueue, Unanswered)
           /\ ~session' => ~Has(mTaskQueue, Accepted)
    BY <2>3, <2>4
  <2> QED BY <2>1, <2>5, StreamTakes
<1>4. ASSUME NEW t \in Topics, SendPublish(t) PROVE StreamInv'
  <2> DEFINE p == MakePacket("PUBLISH", 0, t)
  <2>1. /\ mSocket = "up" /\ session /\ UNCHANGED <<cut, mSocket, outbox, session>>
        /\ Transmit(p)
    BY <1>4 DEF SendPublish
  <2>2. p \in Packet /\ p.type = "PUBLISH"
    BY IdsWrap DEF MakePacket, Packet, MessageType
  <2>3. PICK e \in InFlight : e.pkt = p /\ e.read = 0 /\ inbox' = Append(inbox, e)
    BY <2>1, <2>2, TransmitMeans
  <2>4. e \notin Strays /\ e \notin Answers
    BY <2>2, <2>3 DEF Strays, Answers, Replies
  <2>5. ~(Has(mTaskQueue, News) /\ ~Replacing)
    BY <2>1 DEF StreamInv, NewConnection
  <2>6. ~(Has(mTaskQueue, Unanswered) /\ ~Replacing /\ inbox = <<>>)
    BY <2>1 DEF StreamInv, ConnackFirst
  <2>7. session' /\ outbox' = outbox
    BY <2>1
  <2> QED BY <2>1, <2>3, <2>4, <2>5, <2>6, <2>7, StreamArrives
<1> QED BY <1>1, <1>2, <1>3, <1>4 DEF BrokerStep, Take

-----------------------------------------------------------------------------
(* StreamInv, from the initial states and step by step. *)

LEMMA InitStream == Init => StreamInv
<1> SUFFICES ASSUME Init PROVE StreamInv
  OBVIOUS
<1>1. /\ mTaskQueue = ConnectTasks /\ inbox = <<>> /\ outbox = <<>> /\ cut = NoPacket
      /\ mSocket = "none" /\ pc = "out" /\ session = FALSE
  BY DEF Init, ClientInit, TcpInit
<1>2. /\ Ordered(ConnectTasks) /\ Has(ConnectTasks, Openers) /\ Has(ConnectTasks, Firsts)
      /\ ~Has(ConnectTasks, Accepted)
      /\ \A p : ~Has(ConnectTasks, RestsNotOf(p))
  <2>1. ConnectTasks \in Seq(Task) /\ Len(ConnectTasks) = 3
    BY TaskTypes DEF ConnectTasks
  <2>2. \A i \in DOMAIN ConnectTasks : i \in 1 .. 3
    BY <2>1
  <2>3. \A i \in DOMAIN ConnectTasks : i \notin 1 .. 3 => Late(ConnectTasks[i])
    BY <2>2
  <2> DEFINE w == ConnectTasks
  <2>4. /\ w \in Seq(Task) /\ Len(w) >= 3
        /\ \A i \in 1 .. 3 : w[i] = ConnectTasks[i]
        /\ \A i \in DOMAIN w : i \notin 1 .. 3 => Late(w[i])
    BY <2>1, <2>3
  <2> HIDE DEF w
  <2>5. /\ Ordered(w) /\ Has(w, Openers) /\ Has(w, Firsts) /\ ~Has(w, Accepted)
        /\ \A p : ~Has(w, RestsNotOf(p))
    BY <2>4, ConnectOrdered
  <2> QED BY <2>5 DEF w
<1>3. Replacing
  BY <1>1, <1>2 DEF Replacing
<1>4. Ordered(mTaskQueue) /\ CutIsQueued /\ NewConnection /\ JoinsFirst
  BY <1>1, <1>2, <1>3 DEF CutIsQueued, NewConnection, JoinsFirst
<1>5. InSession /\ AcceptedInSession /\ ReadInOrder
  BY <1>1, <1>2, HasNone DEF InSession, AcceptedInSession, ReadInOrder
<1>6. InSync /\ CallbackRuns /\ ConnackFirst /\ Awaited
  BY <1>1, <1>3 DEF InSync, CallbackRuns, ConnackFirst, Awaited
<1> QED BY <1>4, <1>5, <1>6 DEF StreamInv

LEMMA StepStream ==
    ASSUME TypeInv, TypeInv', SafetyInv, StreamInv, [Next]_vars
    PROVE  StreamInv'
<1>1. ClientTypeOK /\ TcpTypeOK /\ TcpTypeOK'
  BY DEF TypeInv, TypeOK
<1>2. CASE Application \/ LoopCall \/ Loop \/ RunTask
  BY <1>1, <1>2, StreamCalls, StreamLoop, StreamTasks
<1>3. CASE DelayElapses \/ UNCHANGED vars
  <2>1. UNCHANGED <<mTaskQueue, inbox, outbox, cut, session, mDisconnected, mSocket,
                    mTries, pc, mCurrentlyReceivingPacket>>
    BY <1>3 DEF DelayElapses, vars, clientVars, taskVars, loopVars, tcpVars
  <2>2. outbox' # <<>> => mSocket' \in {"up", "none"}
    BY <2>1 DEF StreamInv, InSession
  <2>3. CallbackRuns' /\ (Outstanding => WillTake')
    BY <2>1 DEF StreamInv, CallbackRuns, Outstanding, Awaited, WillTake, AwaitsReply
  <2> QED BY <2>1, <2>2, <2>3, StreamQuiet
<1>4. CASE Network /\ UNCHANGED <<clientVars, brokerVars>>
  BY <1>1, <1>4, StreamNetwork
<1>5. CASE BrokerStep /\ UNCHANGED clientVars
  BY <1>1, <1>5, StreamBroker
<1> QED BY <1>2, <1>3, <1>4, <1>5 DEF Next

\* The order of the queue and of the two streams is kept by every step, with
\* any limit of retries, bounds and faults.
THEOREM StreamInvCorrect == Spec => []StreamInv
<1>1. Init => StreamInv
  BY InitStream
<1>2. TypeInv /\ TypeInv' /\ SafetyInv /\ StreamInv /\ [Next]_vars => StreamInv'
  BY StepStream
<1> QED BY <1>1, <1>2, TypeInvCorrect, SafetyInvCorrect, PTL DEF Spec

\* The rest of a packet that send() cut in two is written next, and to the
\* connection its first part was written to.
THEOREM FramingCorrect == Spec => []Framing
<1>1. TypeInv /\ StreamInv => Framing
  <2> SUFFICES ASSUME TypeInv, StreamInv PROVE Framing
    OBVIOUS
  <2>1. /\ mTaskQueue \in Seq(Task)
        /\ \A i \in DOMAIN mTaskQueue : mTaskQueue[i] \in Task /\ FitTask(mTaskQueue[i])
    BY DEF TypeInv, TypeOK, ClientTypeOK, StreamInv, Ordered
  <2>2. \A i \in DOMAIN mTaskQueue : mTaskQueue[i].rest => cut = mTaskQueue[i].req
    BY <2>1, Sorts DEF StreamInv, CutIsQueued, Has
  <2>3. ASSUME cut # NoPacket, ~Reconnecting
        PROVE  \E i \in Writers : mTaskQueue[i].rest /\ \A j \in Writers : i <= j
    <3>1. ~Replacing
      BY <2>1, <2>3, Sorts, Ranks DEF Reconnecting, Replacing, Has
    <3>2. PICK i \in DOMAIN mTaskQueue : mTaskQueue[i] \in Rests
      BY <2>3, <3>1 DEF StreamInv, CutIsQueued, Has
    <3>3. mTaskQueue[i].rest /\ mTaskQueue[i].kind = "send" /\ i \in Writers
      BY <2>1, <3>2, Sorts DEF FitTask, Writers
    <3>4. ASSUME NEW j \in Writers PROVE i <= j
      <4>1. j \in DOMAIN mTaskQueue /\ Rank(mTaskQueue[j]) # 0
        BY <2>1, Ranks DEF Writers, Receiving
      <4>2. ~(j < i)
        BY <3>2, <3>3, <4>1 DEF StreamInv, Ordered, Before
      <4>3. i \in Int /\ j \in Int
        BY <2>1, <4>1
      <4> QED BY <4>2, <4>3
    <3> QED BY <3>3, <3>4
  <2> QED BY <2>2, <2>3 DEF Framing
<1> QED BY <1>1, TypeInvCorrect, StreamInvCorrect, PTL

\* The receiver has read of the packet at the head of the stream what the stream
\* says: no byte is ever taken for another.
THEOREM StreamInSyncCorrect == Spec => []StreamInSync
<1>1. TypeInv /\ StreamInv => StreamInSync
  <2> SUFFICES ASSUME TypeInv, StreamInv, ~Reconnecting PROVE ~Replacing
    BY DEF StreamInv, InSync, StreamInSync
  <2>1. \A i \in DOMAIN mTaskQueue : mTaskQueue[i] \in Task
    BY DEF TypeInv, TypeOK, ClientTypeOK
  <2> QED BY <2>1, Sorts, Ranks DEF Reconnecting, Replacing, Has
<1> QED BY <1>1, TypeInvCorrect, StreamInvCorrect, PTL

\* As long as the client tries again at all, each request on its way and each
\* reply to it has the first task waiting for it: never two at once, and no
\* receiver without a handler swallows one.
THEOREM ReplyIsAwaitedCorrect == MaxRetries # 0 => (Spec => []ReplyIsAwaited)
<1> SUFFICES ASSUME MaxRetries # 0 PROVE Spec => []ReplyIsAwaited
  OBVIOUS
<1>1. TypeInv /\ StreamInv => ReplyIsAwaited
  <2> SUFFICES ASSUME TypeInv, StreamInv, ~Reconnecting
               PROVE  /\ \A i \in DOMAIN outbox : outbox[i].type \in Requests =>
                            AwaitsReply /\ Head(mTaskQueue).req = outbox[i]
                      /\ \A i \in DOMAIN inbox :
                            inbox[i].pkt.type \in Replies => AwaitsReply
    BY DEF ReplyIsAwaited
  <2>1. /\ \A i \in DOMAIN mTaskQueue : mTaskQueue[i] \in Task
        /\ \A i \in DOMAIN outbox : outbox[i] \in Outgoing
        /\ \A i \in DOMAIN inbox : inbox[i] \in InFlight
    BY DEF TypeInv, TypeOK, ClientTypeOK, TcpTypeOK
  <2>2. ~Replacing
    BY <2>1, Sorts, Ranks DEF Reconnecting, Replacing, Has
  <2>3. /\ Has(outbox, Asked) =>
              AwaitsReply /\ ~Has(outbox, Asked \ {Head(mTaskQueue).req})
        /\ Has(inbox, Answers) => AwaitsReply
    BY <2>2 DEF StreamInv, Awaited, WillTake
  <2>4. ASSUME NEW i \in DOMAIN outbox, outbox[i].type \in Requests
        PROVE  AwaitsReply /\ Head(mTaskQueue).req = outbox[i]
    <3>1. outbox[i] \in Asked
      BY <2>1, <2>4 DEF Asked
    <3> QED BY <2>3, <3>1 DEF Has
  <2>5. ASSUME NEW i \in DOMAIN inbox, inbox[i].pkt.type \in Replies PROVE AwaitsReply
    <3>1. inbox[i] \in Answers
      BY <2>1, <2>5 DEF Answers
    <3> QED BY <2>3, <3>1 DEF Has
  <2> QED BY <2>4, <2>5
<1> QED BY <1>1, TypeInvCorrect, StreamInvCorrect, PTL

\* Only a task that has written a packet whole makes the stream to the broker
\* longer.
LEMMA OutboxGrows ==
    ASSUME TcpTypeOK, [Next]_vars, ~SendAll, ~SendDisconnect
    PROVE  Len(outbox') <= Len(outbox)
<1>1. outbox' = outbox \/ outbox' = <<>> \/ (outbox # <<>> /\ outbox' = Tail(outbox))
  <2>1. CASE Application \/ LoopCall \/ Loop \/ DelayElapses \/ UNCHANGED vars
    BY <2>1 DEF Application, publish, subscribe, unsubscribe, disconnect, Enqueue,
                LoopCall, Loop, BlockSkip, BlockPoll, BlockIdle, PollData, PollThrows,
                PollTimeout, WhileDone, WhileTask, DelayElapses, TcpTakeError, vars,
                tcpVars
  <2>2. CASE RunTask
    <3>1. \/ UNCHANGED tcpVars \/ UNCHANGED outbox
          \/ TcpOpen \/ TcpOpenThrows \/ TcpClose \/ TcpTakeError
          \/ TcpSendPart(This.req) \/ TcpSendNone \/ TcpSendThrows
          \/ TcpRecv \/ TcpRecvNone \/ TcpRecvThrows
      BY <2>2 DEF RunTask, TcpConnectWaits, TcpConnectOpens, TcpConnectThrows,
                  CheckConnectRepeats, CheckConnectDone, CheckConnectThrows, Prepare,
                  SendPart, SendNone, SendThrows, ReceiveNone, ReceiveThrows, Receive,
                  Dispatch, Dispatched, Deliver, HandleViolation, HandleRefusal,
                  HandleConnack, Handled, CallbackThrows
    <3> QED BY <3>1 DEF tcpVars, TcpOpen, TcpOpenThrows, TcpClose, LeftOver, TcpTakeError,
                        TcpSendPart, TcpSendNone, TcpSendThrows, TcpRecv, TcpRecvNone,
                        TcpRecvThrows
  <2>3. CASE Network
    BY <2>3 DEF Network, Establish, Refuse, PeerCloses, Reset, Arrive, Tick
  <2>4. CASE BrokerStep
    BY <2>4 DEF BrokerStep, Take, TakeRequest, TakePublish, TakeDisconnect, SendPublish
  <2> QED BY <2>1, <2>2, <2>3, <2>4 DEF Next
<1>2. outbox \in Seq(Outgoing)
  BY DEF TcpTypeOK
<1>3. Len(outbox) \in Nat /\ Len(<<>>) = 0
  BY <1>2
<1>4. CASE outbox # <<>> /\ outbox' = Tail(outbox)
  BY <1>2, <1>3, <1>4, QueueTail
<1> QED BY <1>1, <1>3, <1>4

\* On every connection, after any number of failures, CONNECT is written first
\* and once, and nothing else before the broker has accepted it.
THEOREM ConnectFirstCorrect == Spec => ConnectFirst
<1> DEFINE Fits == Len(outbox') > Len(outbox) =>
                      (Last(outbox').type = "CONNECT" <=> ~session)
<1>1. TypeInv /\ SafetyInv /\ StreamInv /\ [Next]_vars => [Fits]_vars
  <2> SUFFICES ASSUME TypeInv, SafetyInv, StreamInv, [Next]_vars,
                      Len(outbox') > Len(outbox)
               PROVE  Last(outbox').type = "CONNECT" <=> ~session
    OBVIOUS
  <2>1. ClientTypeOK /\ TcpTypeOK /\ outbox \in Seq(Outgoing)
    BY DEF TypeInv, TypeOK, TcpTypeOK
  <2>2. Len(outbox) \in Nat
    BY <2>1
  <2>3. SendAll \/ SendDisconnect
    <3>1. Len(outbox') <= Len(outbox) => ~(Len(outbox') > Len(outbox))
      <4>1. CASE outbox' \in Seq(Outgoing)
        BY <2>2, <4>1
      <4>2. outbox' \in Seq(Outgoing)
        BY <2>1, StepTypes DEF TypeInv, TypeOK, TcpTypeOK
      <4> QED BY <4>1, <4>2
    <3> QED BY <2>1, <3>1, OutboxGrows
  <2>4. /\ pc = "run" /\ Head(mTaskQueue).kind \in {"prepare", "send"}
        /\ outbox' = Written(This.req) \/ outbox' = <<>>
    BY <2>3 DEF SendAll, SendDisconnect, Running, TcpSendAll, TcpSendAllAndClose, LeftOver
  <2>5. /\ This.req \in Outgoing
        /\ This.req.type = "CONNECT" <=> ~session
    BY <2>1, <2>4, Writing
  <2>6. outbox' = Append(outbox, This.req)
    BY <2>2, <2>4 DEF Written
  <2>7. Last(outbox') = This.req
    BY <2>1, <2>5, <2>6, QueueBack DEF Last
  <2> QED BY <2>5, <2>7
<1>2. ConnectFirst <=> [][Fits]_vars
  BY DEF ConnectFirst
<1> QED BY <1>1, <1>2, TypeInvCorrect, SafetyInvCorrect, StreamInvCorrect, PTL DEF Spec

=============================================================================
