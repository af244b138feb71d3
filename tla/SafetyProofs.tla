---------------------------- MODULE SafetyProofs ----------------------------
(***************************************************************************)
(* Every step of the system keeps every variable in its type, and          *)
(* SafetyInv is inductive: with it OneReceiver, NoNullDeref and            *)
(* DisconnectIsFinal hold for all values of the constants.                 *)
(***************************************************************************)
EXTENDS MQTTSystem, PositionLemmas, SequenceTheorems

-----------------------------------------------------------------------------
(* The operators the queue is rebuilt with on a reconnect: Kept, which filters *)
(* it, and SetToSeqs, which orders the callbacks.                              *)

\* Kept(q) is a queue of KEEP_ME tasks of q.
LEMMA KeptIsQueue ==
    ASSUME NEW q \in Seq(Task)
    PROVE  /\ Kept(q) \in Seq(Task)
           /\ \A n \in DOMAIN Kept(q) :
                 \E i \in DOMAIN q : Kept(q)[n] = q[i] /\ q[i].keep
<1> DEFINE I == KeptAt(q)
<1>1. /\ I \in SUBSET (1 .. Len(q)) /\ Len(q) \in Nat
      /\ \A i \in I : i \in DOMAIN q /\ q[i] \in Task /\ q[i].keep
  BY DEF KeptAt
<1>2. Cardinality(I) \in Nat
  <2>1. IsFiniteSet(1 .. Len(q))
    BY <1>1, FS_Interval
  <2> QED BY <1>1, <2>1, FS_Subset, FS_CardinalityType
<1>3. \A n \in 1 .. Cardinality(I) : Nth(I, n) \in I
  BY <1>1, NthExists
<1> HIDE DEF I
<1>4. Kept(q) = [n \in 1 .. Cardinality(I) |-> q[Nth(I, n)]]
  BY DEF Kept, I
<1>5. Kept(q) \in [1 .. Cardinality(I) -> Task]
  BY <1>1, <1>3, <1>4
<1>6. Kept(q) \in Seq(Task)
  BY <1>2, <1>5
<1> QED BY <1>1, <1>3, <1>4, <1>6

\* No task of q is kept twice, and every KEEP_ME task is kept.
LEMMA KeptIsAll ==
    ASSUME NEW q \in Seq(Task)
    PROVE  /\ \A n \in DOMAIN Kept(q) :
                 Nth(KeptAt(q), n) \in KeptAt(q) /\ Kept(q)[n] = q[Nth(KeptAt(q), n)]
           /\ \A m, n \in DOMAIN Kept(q) :
                 Nth(KeptAt(q), m) = Nth(KeptAt(q), n) => m = n
           /\ \A i \in KeptAt(q) : \E n \in DOMAIN Kept(q) : Kept(q)[n] = q[i]
<1> DEFINE I == KeptAt(q)
<1>1. I \in SUBSET (1 .. Len(q)) /\ Len(q) \in Nat
  BY DEF KeptAt
<1>2. \A n \in 1 .. Cardinality(I) :
         Nth(I, n) \in I /\ Cardinality(UpTo(I, Nth(I, n))) = n
  BY <1>1, NthExists
<1>3. \A i \in I : \E n \in 1 .. Cardinality(I) : Nth(I, n) = i
  BY <1>1, NthOnto
<1> HIDE DEF I
<1>4. Kept(q) = [n \in 1 .. Cardinality(I) |-> q[Nth(I, n)]]
  BY DEF Kept, I
<1>5. /\ DOMAIN Kept(q) = 1 .. Cardinality(I)
      /\ \A n \in 1 .. Cardinality(I) : Kept(q)[n] = q[Nth(I, n)]
  BY <1>4
<1>6. ASSUME NEW m \in 1 .. Cardinality(I), NEW n \in 1 .. Cardinality(I),
             Nth(I, m) = Nth(I, n)
      PROVE  m = n
  <2>1. Cardinality(UpTo(I, Nth(I, m))) = m /\ Cardinality(UpTo(I, Nth(I, n))) = n
    BY <1>2
  <2> QED BY <2>1, <1>6
<1> QED BY <1>2, <1>3, <1>5, <1>6 DEF I

USE PacketsAssumption, TcpAssumption, ClientAssumption, BrokerAssumption

-----------------------------------------------------------------------------
(* Packets and tasks. *)

LEMMA IdsWrap == 0 \in PacketIds /\ 1 \in PacketIds /\ \A id \in PacketIds : NextId(id) \in PacketIds
<1>1. Base \in Nat /\ Base >= 2 /\ Base * Base \in Nat /\ Base * Base >= 2 * Base
  OBVIOUS
<1> DEFINE m == Base * Base
<1>2. m \in Nat /\ m >= 4
  BY <1>1
<1> HIDE DEF m
<1>3. /\ 0 \in 0 .. m - 1 /\ 1 \in 0 .. m - 1
      /\ \A id \in 0 .. m - 1 : (IF id = m - 1 THEN 0 ELSE id + 1) \in 0 .. m - 1
  BY <1>2
<1> QED BY <1>3 DEF PacketIds, NextId, m

LEMMA PacketTypes ==
    /\ NoPacket \in Outgoing /\ Outgoing \subseteq Packet
    /\ \A m \in Messages : MakePacket("PUBLISH", 0, m) \in Outgoing
    /\ \A s \in Subs : MakePacket("SUBSCRIBE", 0, s) \in Outgoing
    /\ \A t \in Topics : MakePacket("UNSUBSCRIBE", 0, t) \in Outgoing
    /\ \A type \in {"PINGREQ", "DISCONNECT", "CONNECT"} :
          MakePacket(type, 0, "ok") \in Outgoing
BY IdsWrap DEF NoPacket, MakePacket, Outgoing, Packet, Verdicts, MessageType,
               Requests, Replies

LEMMA MakeTaskType ==
    ASSUME NEW kind \in TaskKinds, NEW keep \in BOOLEAN, NEW req \in Outgoing
    PROVE  MakeTask(kind, keep, req) \in Task
BY PacketTypes DEF MakeTask, Task

LEMMA TaskTypes ==
    /\ \A m \in Messages : PublishTask(m) \in Task
    /\ \A s \in Subs : SubscribeTask(s) \in Task
    /\ \A t \in Topics : UnsubscribeTask(t) \in Task
    /\ PingTask \in Task /\ DisconnectTask \in Task
    /\ ConnectTasks \in Seq(Task)
    /\ \A p \in Outgoing : SendTask(p) \in Task /\ RecvTask(p) \in Task
    /\ \A p \in Outgoing, written \in BOOLEAN : RestTask(p, written) \in Task
    /\ \A task \in Task, p \in Packet : Completed(task, p) \in Task
    /\ \A task \in Task : HandleTask(task) \in Task
<1>1. /\ "prepare" \in TaskKinds /\ "send" \in TaskKinds /\ "recvType" \in TaskKinds
      /\ "tcpConnect" \in TaskKinds /\ "checkConnect" \in TaskKinds
      /\ "recvBody" \in TaskKinds /\ "handle" \in TaskKinds
  BY DEF TaskKinds, Receiving
<1>2. /\ \A m \in Messages : PublishTask(m) \in Task
      /\ \A s \in Subs : SubscribeTask(s) \in Task
      /\ \A t \in Topics : UnsubscribeTask(t) \in Task
      /\ PingTask \in Task /\ DisconnectTask \in Task
  BY <1>1, PacketTypes, MakeTaskType
     DEF PublishTask, SubscribeTask, UnsubscribeTask, PingTask, DisconnectTask
<1>3. ConnectTasks \in Seq(Task)
  <2>1. /\ MakeTask("tcpConnect", FALSE, NoPacket) \in Task
        /\ MakeTask("checkConnect", FALSE, NoPacket) \in Task
        /\ MakeTask("prepare", FALSE, MakePacket("CONNECT", 0, "ok")) \in Task
    BY <1>1, PacketTypes, MakeTaskType
  <2>2. \A a, b, c \in Task : <<a, b, c>> \in Seq(Task)
    OBVIOUS
  <2> QED BY <2>1, <2>2 DEF ConnectTasks
<1>4. \A p \in Outgoing : SendTask(p) \in Task /\ RecvTask(p) \in Task
  <2> TAKE p \in Outgoing
  <2>1. KeepSend(p) \in BOOLEAN /\ FALSE \in BOOLEAN
    BY DEF KeepSend
  <2>2. /\ MakeTask("send", KeepSend(p), p) \in Task
        /\ MakeTask("recvType", FALSE, p) \in Task
    BY <1>1, <2>1, MakeTaskType
  <2> QED BY <2>2 DEF SendTask, RecvTask
<1>5. \A p \in Outgoing, written \in BOOLEAN : RestTask(p, written) \in Task
  BY <1>1, PacketTypes DEF RestTask, KeepRemainder, Task
<1>6. \A task \in Task, p \in Packet : Completed(task, p) \in Task
  BY <1>1 DEF Completed, Task
<1>7. \A task \in Task : HandleTask(task) \in Task
  BY <1>1 DEF HandleTask, Task
<1> QED BY <1>2, <1>3, <1>4, <1>5, <1>6, <1>7

-----------------------------------------------------------------------------
(* Queues. *)

\* What the lambdas of the client do to the queue, element by element.
LEMMA QueueFront ==
    ASSUME NEW S, NEW q \in Seq(S), NEW t \in S
    PROVE  /\ <<t>> \o q \in Seq(S) /\ Len(<<t>> \o q) = Len(q) + 1
           /\ <<t>> \o q # <<>> /\ Head(<<t>> \o q) = t /\ (<<t>> \o q)[1] = t
           /\ \A i \in 1 .. Len(q) : (<<t>> \o q)[i + 1] = q[i]
OBVIOUS

LEMMA QueueBack ==
    ASSUME NEW S, NEW q \in Seq(S), NEW t \in S
    PROVE  /\ Append(q, t) \in Seq(S) /\ Len(Append(q, t)) = Len(q) + 1
           /\ \A i \in 1 .. Len(q) : Append(q, t)[i] = q[i]
           /\ Append(q, t)[Len(q) + 1] = t
           /\ Append(q, t) # <<>>
           /\ q # <<>> => Head(Append(q, t)) = Head(q)
OBVIOUS

LEMMA QueueTail ==
    ASSUME NEW S, NEW q \in Seq(S), q # <<>>
    PROVE  /\ Head(q) \in S /\ Head(q) = q[1] /\ Len(q) >= 1 /\ Len(q) \in Nat
           /\ Tail(q) \in Seq(S) /\ Len(Tail(q)) = Len(q) - 1
           /\ \A i \in 1 .. Len(q) - 1 : Tail(q)[i] = q[i + 1]
           /\ <<>> \o Tail(q) = Tail(q)
OBVIOUS

LEMMA QueueConcat ==
    ASSUME NEW S, NEW q \in Seq(S), NEW r \in Seq(S)
    PROVE  /\ q \o r \in Seq(S)
           /\ q # <<>> => q \o r # <<>> /\ Head(q \o r) = Head(q)
           /\ \A n \in DOMAIN (q \o r) :
                 \/ n \in DOMAIN q /\ (q \o r)[n] = q[n]
                 \/ n - Len(q) \in DOMAIN r /\ (q \o r)[n] = r[n - Len(q)]
<1>1. /\ q \o r \in Seq(S) /\ Len(q \o r) = Len(q) + Len(r)
      /\ DOMAIN (q \o r) = 1 .. Len(q) + Len(r)
      /\ DOMAIN q = 1 .. Len(q) /\ DOMAIN r = 1 .. Len(r)
      /\ Len(q) \in Nat /\ Len(r) \in Nat
  OBVIOUS
<1>2. /\ \A n \in 1 .. Len(q) : (q \o r)[n] = q[n]
      /\ \A n \in Len(q) + 1 .. Len(q) + Len(r) : (q \o r)[n] = r[n - Len(q)]
  OBVIOUS
<1>3. ASSUME NEW n \in DOMAIN (q \o r)
      PROVE  \/ n \in DOMAIN q /\ (q \o r)[n] = q[n]
             \/ n - Len(q) \in DOMAIN r /\ (q \o r)[n] = r[n - Len(q)]
  <2>1. n \in 1 .. Len(q) \/ n \in Len(q) + 1 .. Len(q) + Len(r)
    BY <1>1
  <2> QED BY <2>1, <1>1, <1>2
<1>4. q # <<>> => q \o r # <<>> /\ Head(q \o r) = Head(q)
  OBVIOUS
<1> QED BY <1>1, <1>3, <1>4

\* connectMqtt puts the connection's tasks first, then some KEEP_ME tasks of
\* the old queue, then one SUBSCRIBE for each callback.
LEMMA ReconnectQueue ==
    ASSUME ClientTypeOK, connectMqtt
    PROVE  /\ mTaskQueue' \in Seq(Task) /\ mTaskQueue' # <<>>
           /\ Head(mTaskQueue').kind = "tcpConnect"
           /\ \A i \in DOMAIN mTaskQueue' :
                 \/ mTaskQueue'[i].kind \in {"tcpConnect", "checkConnect", "prepare"}
                 \/ \E j \in DOMAIN mTaskQueue :
                       mTaskQueue'[i] = mTaskQueue[j] /\ mTaskQueue[j].keep
           /\ callbacks' = {}
<1>1. PICK order \in SetToSeqs(callbacks) :
         mTaskQueue' = ConnectTasks \o Kept(mTaskQueue) \o
                       [i \in DOMAIN order |-> SubscribeTask(order[i])]
  BY DEF connectMqtt
<1> DEFINE k == Kept(mTaskQueue)
           r == [i \in DOMAIN order |-> SubscribeTask(order[i])]
<1>2. mTaskQueue \in Seq(Task) /\ callbacks \subseteq Subs /\ IsFiniteSet(callbacks)
  BY DEF ClientTypeOK
<1>3. /\ k \in Seq(Task)
      /\ \A n \in DOMAIN k : \E j \in DOMAIN mTaskQueue :
            k[n] = mTaskQueue[j] /\ mTaskQueue[j].keep
  BY <1>2, KeptIsQueue
<1>4. order \in Seq(callbacks)
  BY <1>2, OrderIsSeq
<1>5. r \in Seq(Task) /\ \A n \in DOMAIN r : r[n].kind = "prepare"
  <2>1. \A i \in DOMAIN order : order[i] \in Subs
    BY <1>2, <1>4
  <2>2. \A s \in Subs : SubscribeTask(s).kind = "prepare"
    BY DEF SubscribeTask, MakeTask
  <2>3. DOMAIN order = 1 .. Len(order) /\ Len(order) \in Nat
    BY <1>4
  <2>4. r \in [1 .. Len(order) -> Task]
    BY <2>1, <2>3, TaskTypes
  <2> QED BY <2>1, <2>2, <2>3, <2>4
<1>6. /\ ConnectTasks \in Seq(Task) /\ ConnectTasks # <<>>
      /\ Head(ConnectTasks).kind = "tcpConnect"
      /\ \A n \in DOMAIN ConnectTasks :
            ConnectTasks[n].kind \in {"tcpConnect", "checkConnect", "prepare"}
  BY TaskTypes DEF ConnectTasks, MakeTask
<1> DEFINE ck == ConnectTasks \o k
           Fine(task) ==
               \/ task.kind \in {"tcpConnect", "checkConnect", "prepare"}
               \/ \E j \in DOMAIN mTaskQueue : task = mTaskQueue[j] /\ mTaskQueue[j].keep
<1>7. mTaskQueue' = ck \o r
  BY <1>1
<1> HIDE DEF k, r
<1>8. /\ ck \in Seq(Task) /\ ck # <<>> /\ Head(ck) = Head(ConnectTasks)
      /\ \A n \in DOMAIN ck :
            \/ n \in DOMAIN ConnectTasks /\ ck[n] = ConnectTasks[n]
            \/ n - Len(ConnectTasks) \in DOMAIN k /\ ck[n] = k[n - Len(ConnectTasks)]
  BY <1>3, <1>6, QueueConcat
<1> HIDE DEF ck
<1>9. ASSUME NEW n \in DOMAIN ck PROVE Fine(ck[n])
  <2>1. CASE n \in DOMAIN ConnectTasks /\ ck[n] = ConnectTasks[n]
    BY <2>1, <1>6
  <2>2. CASE n - Len(ConnectTasks) \in DOMAIN k /\ ck[n] = k[n - Len(ConnectTasks)]
    BY <2>2, <1>3
  <2> QED BY <2>1, <2>2, <1>8
<1>10. /\ ck \o r \in Seq(Task) /\ ck \o r # <<>> /\ Head(ck \o r) = Head(ck)
       /\ \A n \in DOMAIN (ck \o r) :
             \/ n \in DOMAIN ck /\ (ck \o r)[n] = ck[n]
             \/ n - Len(ck) \in DOMAIN r /\ (ck \o r)[n] = r[n - Len(ck)]
  BY <1>5, <1>8, QueueConcat
<1>11. \A n \in DOMAIN mTaskQueue' : Fine(mTaskQueue'[n])
  BY <1>5, <1>7, <1>9, <1>10
<1> QED BY <1>6, <1>7, <1>8, <1>10, <1>11 DEF connectMqtt

-----------------------------------------------------------------------------
(* The connection. *)

LEMMA WrittenType == ASSUME TcpTypeOK, NEW p \in Outgoing
                     PROVE  Written(p) \in Seq(Outgoing)
BY DEF TcpTypeOK, Written

LEMMA LeftOverType == ASSUME NEW w \in Seq(Outgoing), NEW left \in LeftOver(w)
                      PROVE  left \in Seq(Outgoing)
<1>1. left = w \/ left = <<>>
  BY DEF LeftOver
<1>2. <<>> \in Seq(Outgoing)
  OBVIOUS
<1> QED BY <1>1, <1>2

LEMMA ReadsType == ASSUME NEW p PROVE Reads(p) \in {2, 3}
BY DEF Reads

\* What one read leaves in the inbox.
LEMMA InboxRead ==
    ASSUME inbox \in Seq(InFlight), isDataAvailable
    PROVE  (IF Head(inbox).read + 1 = Reads(Head(inbox).pkt)
            THEN Tail(inbox) ELSE [inbox EXCEPT ![1].read = @ + 1]) \in Seq(InFlight)
<1>1. inbox # <<>> /\ Head(inbox) \in InFlight /\ Head(inbox) = inbox[1] /\ Len(inbox) >= 1
  BY DEF isDataAvailable
<1>2. Tail(inbox) \in Seq(InFlight)
  BY <1>1
<1>3. CASE Head(inbox).read + 1 # Reads(Head(inbox).pkt)
  <2>1. /\ Head(inbox).read \in 0 .. 2 /\ Head(inbox).got <= Reads(Head(inbox).pkt)
        /\ Head(inbox).got > Head(inbox).read /\ Head(inbox).got \in 1 .. 3
    BY <1>1 DEF InFlight, isDataAvailable
  <2>2. Head(inbox).read + 1 \in 0 .. 2
    BY <2>1, <1>3, ReadsType
  <2>3. [inbox[1] EXCEPT !.read = @ + 1] \in InFlight
    BY <1>1, <2>2 DEF InFlight
  <2>4. [inbox EXCEPT ![1] = [inbox[1] EXCEPT !.read = @ + 1]] \in Seq(InFlight)
    BY <1>1, <2>3
  <2>5. [inbox EXCEPT ![1].read = @ + 1]
           = [inbox EXCEPT ![1] = [inbox[1] EXCEPT !.read = @ + 1]]
    OBVIOUS
  <2> QED BY <1>3, <2>4, <2>5
<1> QED BY <1>2, <1>3

\* The calls of the client keep the connection well typed.
LEMMA TcpCalls ==
    ASSUME TcpTypeOK
    PROVE  /\ TcpOpen => TcpTypeOK'
           /\ TcpOpenThrows => TcpTypeOK'
           /\ TcpClose => TcpTypeOK'
           /\ TcpTakeError => TcpTypeOK'
           /\ \A p \in Outgoing : TcpSendAll(p) => TcpTypeOK'
           /\ \A p \in Outgoing : TcpSendAllAndClose(p) => TcpTypeOK'
           /\ \A p \in Outgoing : TcpSendPart(p) => TcpTypeOK'
           /\ TcpSendNone => TcpTypeOK'
           /\ TcpSendThrows => TcpTypeOK'
           /\ TcpRecv => TcpTypeOK'
           /\ TcpRecvNone => TcpTypeOK'
           /\ TcpRecvThrows => TcpTypeOK'
           /\ UNCHANGED tcpVars => TcpTypeOK'
<1> USE DEF TcpTypeOK, SocketStates
<1>0. /\ NoPacket \in Outgoing /\ 0 \in 0 .. MaxIdle
      /\ <<>> \in Seq(InFlight) /\ <<>> \in Seq(Outgoing)
  BY PacketTypes DEF MaxIdle
<1>1. ASSUME TcpOpen PROVE TcpTypeOK'
  <2>1. again' \in BOOLEAN
    BY <1>1 DEF TcpOpen
  <2> QED BY <1>0, <1>1, <2>1 DEF TcpOpen
<1>2. ASSUME TcpOpenThrows PROVE TcpTypeOK'
  <2>1. faults' \in 0 .. MaxFaults
    BY <1>2 DEF TcpOpenThrows, Inject
  <2>2. outbox' \in Seq(Outgoing)
    BY <1>2, LeftOverType DEF TcpOpenThrows
  <2> QED BY <1>0, <1>2, <2>1, <2>2 DEF TcpOpenThrows
<1>3. TcpClose => TcpTypeOK'
  BY <1>0, LeftOverType DEF TcpClose
<1>4. TcpTakeError => TcpTypeOK'
  BY DEF TcpTakeError
<1>5. ASSUME NEW p \in Outgoing, TcpSendAll(p) PROVE TcpTypeOK'
  BY <1>0, <1>5, WrittenType DEF TcpSendAll
<1>6. ASSUME NEW p \in Outgoing, TcpSendAllAndClose(p) PROVE TcpTypeOK'
  BY <1>0, <1>6, WrittenType, LeftOverType DEF TcpSendAllAndClose
<1>7. ASSUME NEW p \in Outgoing, TcpSendPart(p) PROVE TcpTypeOK'
  BY <1>0, <1>7 DEF TcpSendPart
<1>8. TcpSendNone => TcpTypeOK'
  BY <1>0 DEF TcpSendNone
<1>9. TcpSendThrows => TcpTypeOK'
  BY DEF TcpSendThrows
<1>10. TcpRecv => TcpTypeOK'
  <2> SUFFICES ASSUME TcpRecv PROVE TcpTypeOK'
    OBVIOUS
  <2>1. inbox' \in Seq(InFlight)
    BY InboxRead DEF TcpRecv
  <2> QED BY <2>1 DEF TcpRecv
<1>11. TcpRecvNone => TcpTypeOK'
  BY DEF TcpRecvNone, EofIsTakenForEagain
<1>12. TcpRecvThrows => TcpTypeOK'
  BY DEF TcpRecvThrows
<1>13. UNCHANGED tcpVars => TcpTypeOK'
  BY DEF tcpVars
<1> QED BY <1>1, <1>2, <1>3, <1>4, <1>5, <1>6, <1>7, <1>8, <1>9, <1>10, <1>11,
           <1>12, <1>13

LEMMA NetworkTypes == ASSUME TcpTypeOK, Network PROVE TcpTypeOK'
<1> USE DEF TcpTypeOK, SocketStates
<1>1. CASE Establish
  BY <1>1 DEF Establish
<1>2. CASE Refuse
  BY <1>2 DEF Refuse, Inject
<1>3. CASE PeerCloses
  BY <1>3 DEF PeerCloses, Inject
<1>4. CASE Reset
  BY <1>4 DEF Reset, Inject
<1>5. CASE Arrive
  <2> DEFINE n == Len(inbox)
  <2>1. n \in 1 .. Len(inbox) /\ inbox[n] \in InFlight
    <3>1. inbox \in Seq(InFlight) /\ inbox # <<>>
      BY <1>5 DEF Arrive
    <3> QED BY <3>1
  <2>2. [inbox[n] EXCEPT !.got = Reads(inbox[n].pkt)] \in InFlight
    <3> DEFINE e == inbox[n]
    <3>1. e \in InFlight
      BY <2>1
    <3>2. Reads(e.pkt) \in 1 .. 3 /\ Reads(e.pkt) <= Reads(e.pkt)
      BY ReadsType
    <3> HIDE DEF e
    <3>3. [e EXCEPT !.got = Reads(e.pkt)] \in InFlight
      BY <3>1, <3>2 DEF InFlight
    <3> QED BY <3>3 DEF e
  <2>3. inbox' = [inbox EXCEPT ![n] = [inbox[n] EXCEPT !.got = Reads(inbox[n].pkt)]]
    BY <1>5 DEF Arrive
  <2> HIDE DEF n
  <2>4. inbox' \in Seq(InFlight)
    BY <2>1, <2>2, <2>3
  <2> QED BY <1>5, <2>4 DEF Arrive
<1>6. CASE Tick
  BY <1>6 DEF Tick, MaxIdle
<1> QED BY <1>1, <1>2, <1>3, <1>4, <1>5, <1>6 DEF Network

-----------------------------------------------------------------------------
(* The client. *)

TaskTypeOK ==
    /\ mTaskQueue \in Seq(Task)
    /\ callbacks \in SUBSET Subs /\ IsFiniteSet(callbacks)
    /\ mCurrentlyReceivingPacket \in BOOLEAN /\ mDisconnected \in BOOLEAN
    /\ mTries \in Nat /\ mPingIsScheduled \in BOOLEAN
    /\ mPacketIdentifierCounter \in PacketIds /\ waiting \in BOOLEAN

LoopTypeOK ==
    /\ pc \in {"out", "enter", "block", "poll", "while", "run", "callback"}
    /\ mode \in LoopModes \cup {Idle} /\ forever \in BOOLEAN
    /\ ret \in Statuses \cup {"none", "THROWN"}

CallTypeOK ==
    /\ published \in Seq(Messages) /\ subscribed \in SUBSET Subs
    /\ cancelled \in SUBSET Subs /\ unsubscribes \in 0 .. MaxUnsubscribes
    /\ disconnecting \in BOOLEAN

LEMMA ClientTypeParts == ClientTypeOK <=> TaskTypeOK /\ LoopTypeOK /\ CallTypeOK
BY DEF ClientTypeOK, TaskTypeOK, LoopTypeOK, CallTypeOK

LEMMA ClientTypePartsPrimed ==
    ClientTypeOK' <=> TaskTypeOK' /\ LoopTypeOK' /\ CallTypeOK'
BY DEF ClientTypeOK, TaskTypeOK, LoopTypeOK, CallTypeOK

LEMMA LoopTypes ==
    ASSUME LoopTypeOK
    PROVE  /\ \A status \in Statuses \cup {"THROWN"} : Return(status) => LoopTypeOK'
           /\ \A label \in {"block", "while", "run", "callback"} :
                 Goto(label) => LoopTypeOK'
           /\ AfterTask => LoopTypeOK'
           /\ Polled => LoopTypeOK'
           /\ UNCHANGED loopVars => LoopTypeOK'
<1>1. ASSUME NEW status \in Statuses \cup {"THROWN"}, Return(status) PROVE LoopTypeOK'
  BY <1>1 DEF Return, LoopTypeOK
<1>2. ASSUME NEW label \in {"block", "while", "run", "callback"}, Goto(label)
      PROVE  LoopTypeOK'
  BY <1>2 DEF Goto, LoopTypeOK
<1>3. AfterTask => LoopTypeOK'
  BY <1>1, <1>2 DEF AfterTask, Statuses
<1>4. Polled => LoopTypeOK'
  BY DEF Polled, LoopTypeOK
<1>5. UNCHANGED loopVars => LoopTypeOK'
  BY DEF loopVars, LoopTypeOK
<1> QED BY <1>1, <1>2, <1>3, <1>4, <1>5

LEMMA UnchangedTypes ==
    /\ TaskTypeOK /\ UNCHANGED taskVars => TaskTypeOK'
    /\ CallTypeOK /\ UNCHANGED callVars => CallTypeOK'
BY DEF TaskTypeOK, CallTypeOK, taskVars, callVars

LEMMA CatchTypes ==
    ASSUME ClientTypeOK, NEW tries \in Nat, Catch(tries)
    PROVE  ClientTypeOK'
<1>1. TaskTypeOK /\ LoopTypeOK /\ CallTypeOK
  BY ClientTypeParts
<1>2. LoopTypeOK'
  BY <1>1, LoopTypes DEF Catch, Statuses
<1>3. CallTypeOK'
  BY <1>1, UnchangedTypes DEF Catch
<1>4. CASE UNCHANGED <<mTaskQueue, callbacks>>
  BY <1>1, <1>2, <1>3, <1>4, ClientTypePartsPrimed DEF Catch, TaskTypeOK
<1>5. CASE connectMqtt
  <2>1. mTaskQueue' \in Seq(Task) /\ callbacks' = {}
    BY <1>5, ReconnectQueue
  <2>2. IsFiniteSet({})
    BY FS_EmptySet
  <2> QED BY <1>1, <1>2, <1>3, <2>1, <2>2, ClientTypePartsPrimed DEF Catch, TaskTypeOK
<1> QED BY <1>4, <1>5 DEF Catch

LEMMA ApplicationTypes == ASSUME ClientTypeOK, Application PROVE ClientTypeOK'
<1>1. TaskTypeOK /\ LoopTypeOK /\ CallTypeOK
  BY ClientTypeParts
<1>2. ASSUME NEW task \in Task, Enqueue(task), callbacks' \subseteq callbacks
      PROVE  TaskTypeOK' /\ LoopTypeOK'
  <2>1. LoopTypeOK'
    BY <1>1, <1>2, LoopTypes DEF Enqueue
  <2>2. callbacks' \in SUBSET Subs /\ IsFiniteSet(callbacks')
    BY <1>1, <1>2, FS_Subset DEF TaskTypeOK
  <2> QED BY <1>1, <1>2, <2>1, <2>2 DEF Enqueue, TaskTypeOK
<1>3. ASSUME NEW m \in Messages, publish(m) PROVE ClientTypeOK'
  <2>1. CallTypeOK'
    BY <1>1, <1>3 DEF publish, CallTypeOK
  <2> QED BY <1>2, <1>3, <2>1, TaskTypes, ClientTypePartsPrimed DEF publish
<1>4. ASSUME NEW s \in Subs, subscribe(s) PROVE ClientTypeOK'
  <2>1. CallTypeOK'
    BY <1>1, <1>4 DEF subscribe, CallTypeOK
  <2> QED BY <1>2, <1>4, <2>1, TaskTypes, ClientTypePartsPrimed DEF subscribe
<1>5. ASSUME NEW t \in Topics, unsubscribe(t) PROVE ClientTypeOK'
  <2>1. CallTypeOK'
    BY <1>1, <1>5 DEF unsubscribe, CallTypeOK
  <2> QED BY <1>2, <1>5, <2>1, TaskTypes, ClientTypePartsPrimed DEF unsubscribe
<1>6. CASE disconnect
  <2>1. CallTypeOK'
    BY <1>1, <1>6 DEF disconnect, CallTypeOK
  <2> QED BY <1>2, <1>6, <2>1, TaskTypes, ClientTypePartsPrimed DEF disconnect
<1> QED BY <1>3, <1>4, <1>5, <1>6 DEF Application

LEMMA IdleWorkTypes ==
    ASSUME TaskTypeOK, CallTypeOK
    PROVE  /\ WithReceive \in Seq(Task) /\ FlagWithReceive \in BOOLEAN
           /\ IdleWork => TaskTypeOK' /\ CallTypeOK'
<1>1. NoPacket \in Outgoing /\ RecvTask(NoPacket) \in Task /\ PingTask \in Task
  BY PacketTypes, TaskTypes
<1>2. mTaskQueue \in Seq(Task)
  BY DEF TaskTypeOK
<1>3. WithReceive \in Seq(Task)
  <2>1. <<RecvTask(NoPacket)>> \o mTaskQueue \in Seq(Task)
    BY <1>1, <1>2, QueueFront
  <2> QED BY <1>2, <2>1 DEF WithReceive
<1>4. FlagWithReceive \in BOOLEAN
  BY DEF FlagWithReceive, TaskTypeOK
<1>5. ASSUME IdleWork PROVE TaskTypeOK' /\ CallTypeOK'
  <2>1. mTaskQueue' \in Seq(Task)
    <3>1. Append(WithReceive, PingTask) \in Seq(Task)
      BY <1>1, <1>3, QueueBack
    <3> QED BY <1>3, <1>5, <3>1 DEF IdleWork
  <2>2. mPingIsScheduled' \in BOOLEAN
    BY <1>5 DEF IdleWork, TaskTypeOK
  <2>3. CallTypeOK'
    BY <1>5, UnchangedTypes DEF IdleWork
  <2> QED BY <1>4, <1>5, <2>1, <2>2, <2>3 DEF IdleWork, TaskTypeOK
<1> QED BY <1>3, <1>4, <1>5

LEMMA LoopStepTypes ==
    ASSUME ClientTypeOK, TcpTypeOK, LoopCall \/ Loop
    PROVE  ClientTypeOK' /\ TcpTypeOK'
<1>1. TaskTypeOK /\ LoopTypeOK /\ CallTypeOK
  BY ClientTypeParts
<1>2. CASE LoopCall
  <2>1. LoopTypeOK'
    BY <1>1, <1>2 DEF LoopCall, LoopTypeOK
  <2> QED BY <1>1, <1>2, <2>1, UnchangedTypes, TcpCalls, ClientTypePartsPrimed
          DEF LoopCall
<1>3. CASE BlockSkip
  <2>1. TaskTypeOK'
    BY <1>1, <1>3, IdleWorkTypes DEF BlockSkip, TaskTypeOK
  <2>2. LoopTypeOK' /\ CallTypeOK' /\ TcpTypeOK'
    BY <1>1, <1>3, LoopTypes, UnchangedTypes, TcpCalls DEF BlockSkip
  <2> QED BY <2>1, <2>2, ClientTypePartsPrimed
<1>4. CASE BlockPoll
  <2>1. LoopTypeOK'
    BY <1>1, <1>4 DEF BlockPoll, LoopTypeOK
  <2> QED BY <1>1, <1>4, <2>1, UnchangedTypes, TcpCalls, ClientTypePartsPrimed
          DEF BlockPoll
<1>5. CASE BlockIdle
  <2>1. TcpTypeOK'
    BY <1>5, TcpCalls DEF BlockIdle
  <2> QED BY <1>1, <1>5, <2>1, LoopTypes, IdleWorkTypes, ClientTypePartsPrimed
          DEF BlockIdle
<1>6. CASE PollData
  BY <1>1, <1>6, LoopTypes, IdleWorkTypes, TcpCalls, ClientTypePartsPrimed DEF PollData
<1>7. CASE PollThrows
  <2>1. mTries \in Nat
    BY <1>1 DEF TaskTypeOK
  <2> QED BY <1>7, <2>1, CatchTypes, TcpCalls DEF PollThrows
<1>8. CASE PollTimeout
  BY <1>1, <1>8, LoopTypes, IdleWorkTypes, TcpCalls, ClientTypePartsPrimed
     DEF PollTimeout
<1>9. CASE WhileDone
  BY <1>1, <1>9, LoopTypes, UnchangedTypes, TcpCalls, ClientTypePartsPrimed
     DEF WhileDone, Statuses
<1>10. CASE WhileTask
  BY <1>1, <1>10, LoopTypes, IdleWorkTypes, TcpCalls, ClientTypePartsPrimed
     DEF WhileTask
<1> QED BY <1>2, <1>3, <1>4, <1>5, <1>6, <1>7, <1>8, <1>9, <1>10 DEF Loop

LEMMA ReplaceByTypes ==
    ASSUME TaskTypeOK, mTaskQueue # <<>>
    PROVE  /\ This \in Task /\ Others \in Seq(Task)
           /\ ReplaceBy(<<>>) => mTaskQueue' \in Seq(Task)
           /\ \A task \in Task : ReplaceBy(<<task>>) => mTaskQueue' \in Seq(Task)
<1>1. mTaskQueue \in Seq(Task)
  BY DEF TaskTypeOK
<1>2. This \in Task /\ Others \in Seq(Task) /\ <<>> \o Others = Others
  BY <1>1, QueueTail DEF This, Others
<1>3. ASSUME NEW task \in Task PROVE <<task>> \o Others \in Seq(Task)
  BY <1>2, QueueFront
<1> QED BY <1>2, <1>3 DEF ReplaceBy

\* Every task keeps the client and the connection well typed.
LEMMA RunTaskTypes ==
    ASSUME ClientTypeOK, TcpTypeOK, QueueHasTask, RunTask
    PROVE  ClientTypeOK' /\ TcpTypeOK'
<1>1. TaskTypeOK /\ LoopTypeOK /\ CallTypeOK
  BY ClientTypeParts
<1>2. pc \in {"run", "callback"} /\ mTaskQueue # <<>>
  BY DEF RunTask, QueueHasTask, Running, InOnConnect, InOnMessage, TcpConnectWaits,
         TcpConnectOpens, TcpConnectThrows, CheckConnectRepeats, CheckConnectDone,
         CheckConnectThrows, Prepare, SendAll, SendDisconnect, SendPart, SendNone,
         SendThrows, ReceiveNone, ReceiveThrows, Receive, Dispatch, Dispatched,
         Deliver, HandleViolation, HandleRefusal, HandleConnack, Handled,
         CallbackThrows
<1>3. /\ This \in Task /\ Others \in Seq(Task)
      /\ ReplaceBy(<<>>) => mTaskQueue' \in Seq(Task)
      /\ \A task \in Task : ReplaceBy(<<task>>) => mTaskQueue' \in Seq(Task)
  BY <1>1, <1>2, ReplaceByTypes
<1>4. This.req \in Outgoing /\ This.resp \in Packet /\ This.rest \in BOOLEAN
  BY <1>3 DEF Task
<1>5. mTries \in Nat /\ mTries + 1 \in Nat
  BY <1>1 DEF TaskTypeOK
\* A task that goes on: only the parts of the state below have to be looked at.
<1>6. ASSUME mTaskQueue' \in Seq(Task),
             callbacks' \in SUBSET Subs /\ IsFiniteSet(callbacks'),
             mCurrentlyReceivingPacket' \in BOOLEAN,
             mDisconnected' \in BOOLEAN,
             mTries' \in Nat,
             mPingIsScheduled' \in BOOLEAN,
             mPacketIdentifierCounter' \in PacketIds,
             waiting' \in BOOLEAN,
             LoopTypeOK', UNCHANGED callVars
      PROVE  ClientTypeOK'
  <2>1. TaskTypeOK'
    BY <1>6 DEF TaskTypeOK
  <2> QED BY <1>1, <1>6, <2>1, UnchangedTypes, ClientTypePartsPrimed
<1>7. AfterTask \/ Goto("callback") \/ Return("EVERYTHING_DONE") => LoopTypeOK'
  BY <1>1, LoopTypes DEF Statuses
<1>8. ASSUME Repeat PROVE ClientTypeOK'
  BY <1>1, <1>7, <1>8, UnchangedTypes, ClientTypePartsPrimed DEF Repeat
<1>9. CASE TcpConnectWaits
  BY <1>8, <1>9, TcpCalls DEF TcpConnectWaits
<1>10. CASE TcpConnectOpens
  <2>1. TcpTypeOK'
    BY <1>10, TcpCalls DEF TcpConnectOpens
  <2>2. ClientTypeOK'
    BY <1>1, <1>3, <1>5, <1>6, <1>7, <1>10 DEF TcpConnectOpens, TaskTypeOK
  <2> QED BY <2>1, <2>2
<1>11. CASE TcpConnectThrows
  BY <1>5, <1>11, CatchTypes, TcpCalls DEF TcpConnectThrows
<1>12. CASE CheckConnectRepeats
  BY <1>8, <1>12, TcpCalls DEF CheckConnectRepeats
<1>13. CASE CheckConnectDone
  <2>1. TcpTypeOK'
    BY <1>13, TcpCalls DEF CheckConnectDone
  <2>2. ClientTypeOK'
    BY <1>1, <1>3, <1>6, <1>7, <1>13 DEF CheckConnectDone, TaskTypeOK
  <2> QED BY <2>1, <2>2
<1>14. CASE CheckConnectThrows
  BY <1>5, <1>14, CatchTypes, TcpCalls DEF CheckConnectThrows
<1>15. CASE Prepare
  <2>1. TcpTypeOK'
    BY <1>15, TcpCalls DEF Prepare
  <2>2. /\ mPacketIdentifierCounter \in PacketIds
        /\ NextId(mPacketIdentifierCounter) \in PacketIds
    BY <1>1, IdsWrap DEF TaskTypeOK
  <2>3. [This.req EXCEPT !.id = mPacketIdentifierCounter] \in Outgoing
    BY <1>4, <2>2 DEF Outgoing, Packet
  <2>4. mTaskQueue' \in Seq(Task)
    <3>1. SendTask([This.req EXCEPT !.id = mPacketIdentifierCounter]) \in Task
      BY <2>3, TaskTypes
    <3>2. SendTask(This.req) \in Task
      BY <1>4, TaskTypes
    <3> QED BY <1>3, <1>15, <3>1, <3>2 DEF Prepare
  <2>5. mPacketIdentifierCounter' \in PacketIds
    BY <1>15, <2>2 DEF Prepare
  <2>6. callbacks' \in SUBSET Subs /\ IsFiniteSet(callbacks')
    <3>1. callbacks \in SUBSET Subs /\ IsFiniteSet(callbacks)
      BY <1>1 DEF TaskTypeOK
    <3>2. CASE callbacks' = callbacks
      BY <3>1, <3>2
    <3>3. CASE This.req.type = "SUBSCRIBE" /\ callbacks' = callbacks \cup {This.req.arg}
      <4>1. This.req.arg \in Subs
        BY <1>4, <3>3 DEF Outgoing
      <4>2. IsFiniteSet(callbacks \cup {This.req.arg})
        BY <3>1, FS_AddElement
      <4> QED BY <3>1, <3>3, <4>1, <4>2
    <3> QED BY <1>15, <3>2, <3>3 DEF Prepare
  <2>7. /\ mCurrentlyReceivingPacket' \in BOOLEAN /\ mDisconnected' \in BOOLEAN
        /\ mTries' \in Nat /\ mPingIsScheduled' \in BOOLEAN /\ waiting' \in BOOLEAN
        /\ LoopTypeOK' /\ UNCHANGED callVars
    BY <1>1, <1>7, <1>15 DEF Prepare, TaskTypeOK
  <2>8. ClientTypeOK'
    BY <1>6, <2>4, <2>5, <2>6, <2>7
  <2> QED BY <2>1, <2>8
<1>16. CASE SendAll
  <2>1. TcpTypeOK'
    BY <1>4, <1>16, TcpCalls DEF SendAll
  <2>2. RecvTask(This.req) \in Task
    BY <1>4, TaskTypes
  <2>3. mTaskQueue' \in Seq(Task) /\ mCurrentlyReceivingPacket' \in BOOLEAN
    BY <1>1, <1>3, <1>16, <2>2 DEF SendAll, TaskTypeOK
  <2>4. mPingIsScheduled' \in BOOLEAN
    BY <1>1, <1>16 DEF SendAll, TaskTypeOK
  <2>5. ClientTypeOK'
    BY <1>1, <1>6, <1>7, <1>16, <2>3, <2>4 DEF SendAll, TaskTypeOK
  <2> QED BY <2>1, <2>5
<1>17. CASE SendDisconnect
  <2>1. TcpTypeOK'
    BY <1>4, <1>17, TcpCalls DEF SendDisconnect
  <2>2. mTaskQueue' \in Seq(Task)
    <3>1. <<>> \in Seq(Task)
      OBVIOUS
    <3> QED BY <1>17, <3>1 DEF SendDisconnect
  <2>3. ClientTypeOK'
    BY <1>1, <1>6, <1>7, <1>17, <2>2 DEF SendDisconnect, TaskTypeOK
  <2> QED BY <2>1, <2>3
<1>18. CASE SendPart \/ SendNone
  <2>1. TcpTypeOK'
    BY <1>4, <1>18, TcpCalls DEF SendPart, SendNone
  <2>2. ASSUME NEW written \in BOOLEAN, SendRest(written) PROVE ClientTypeOK'
    <3>1. RestTask(This.req, written) \in Task
      BY <1>4, TaskTypes
    <3> QED BY <1>1, <1>3, <1>6, <1>7, <2>2, <3>1 DEF SendRest, TaskTypeOK
  <2> QED BY <1>4, <1>18, <2>1, <2>2 DEF SendPart, SendNone
<1>19. CASE SendThrows
  BY <1>5, <1>19, CatchTypes, TcpCalls DEF SendThrows
<1>20. CASE ReceiveNone
  BY <1>8, <1>20, TcpCalls DEF ReceiveNone
<1>21. CASE ReceiveThrows
  BY <1>5, <1>21, CatchTypes, TcpCalls DEF ReceiveThrows
<1>22. CASE Receive
  <2>1. TcpTypeOK'
    BY <1>22, TcpCalls DEF Receive
  <2>2. Head(inbox).pkt \in Packet
    <3>1. inbox \in Seq(InFlight) /\ inbox # <<>>
      BY <1>22 DEF Receive, TcpRecv, isDataAvailable, TcpTypeOK
    <3>2. Head(inbox) \in InFlight
      BY <3>1
    <3> QED BY <3>2 DEF InFlight
  <2>3. Completed(This, Head(inbox).pkt) \in Task
    BY <1>3, <2>2, TaskTypes
  <2>4. [This EXCEPT !.kind = IF @ = "recvType" THEN "recvLength" ELSE "recvBody"] \in Task
    BY <1>3 DEF Task, TaskKinds, Receiving
  <2>5. mTaskQueue' \in Seq(Task)
    BY <1>3, <1>22, <2>3, <2>4 DEF Receive
  <2>6. ClientTypeOK'
    BY <1>1, <1>6, <1>7, <1>22, <2>5 DEF Receive, TaskTypeOK
  <2> QED BY <2>1, <2>6
<1>23. CASE Dispatch
  <2>1. TcpTypeOK'
    BY <1>23, TcpCalls DEF Dispatch
  <2>2. ClientTypeOK'
    BY <1>1, <1>6, <1>7, <1>23 DEF Dispatch, TaskTypeOK
  <2> QED BY <2>1, <2>2
<1>24. CASE Dispatched
  <2>1. TcpTypeOK'
    BY <1>24, TcpCalls DEF Dispatched
  <2>2. RecvTask(This.req) \in Task
    BY <1>4, TaskTypes
  <2>3. mTaskQueue' \in Seq(Task) /\ mCurrentlyReceivingPacket' \in BOOLEAN
    BY <1>1, <1>3, <1>24, <2>2 DEF Dispatched, TaskTypeOK
  <2>4. ClientTypeOK'
    BY <1>1, <1>6, <1>7, <1>24, <2>3 DEF Dispatched, TaskTypeOK
  <2> QED BY <2>1, <2>4
<1>25. CASE Deliver
  <2>1. TcpTypeOK'
    BY <1>25, TcpCalls DEF Deliver
  <2>2. HandleTask(This) \in Task
    BY <1>3, TaskTypes
  <2>3. mTaskQueue' \in Seq(Task)
    BY <1>3, <1>25, <2>2 DEF Deliver
  <2>4. ClientTypeOK'
    BY <1>1, <1>6, <1>7, <1>25, <2>3 DEF Deliver, TaskTypeOK
  <2> QED BY <2>1, <2>4
<1>26. CASE HandleViolation
  BY <1>5, <1>26, CatchTypes, TcpCalls DEF HandleViolation
<1>27. CASE HandleRefusal
  BY <1>5, <1>27, CatchTypes, TcpCalls DEF HandleRefusal
<1>28. CASE HandleConnack
  <2>1. TcpTypeOK'
    BY <1>28, TcpCalls DEF HandleConnack
  <2>2. ClientTypeOK'
    BY <1>1, <1>6, <1>7, <1>28 DEF HandleConnack, TaskTypeOK
  <2> QED BY <2>1, <2>2
<1>29. CASE Handled
  <2>1. TcpTypeOK'
    BY <1>29, TcpCalls DEF Handled
  <2>2. ClientTypeOK'
    BY <1>1, <1>3, <1>6, <1>7, <1>29 DEF Handled, TaskTypeOK
  <2> QED BY <2>1, <2>2
<1>30. CASE CallbackThrows
  <2>1. TcpTypeOK'
    BY <1>30 DEF CallbackThrows, Inject, TcpTypeOK
  <2> QED BY <1>5, <1>30, <2>1, CatchTypes DEF CallbackThrows
<1> QED BY <1>9, <1>10, <1>11, <1>12, <1>13, <1>14, <1>15, <1>16, <1>17, <1>18,
           <1>19, <1>20, <1>21, <1>22, <1>23, <1>24, <1>25, <1>26, <1>27, <1>28,
           <1>29, <1>30 DEF RunTask

-----------------------------------------------------------------------------
(* The broker. *)

LEMMA ReplyTypes ==
    ASSUME NEW p \in Packet, p.type \in Requests
    PROVE  /\ MakePacket(ReplyTo[p.type], p.id, "ok") \in Packet
           /\ BadReplies(p) \subseteq Packet
           /\ \A v \in Verdicts : MakePacket("CONNACK", 0, v) \in Packet
           /\ MakePacket("SUBACK", p.id, "refused") \in Packet
<1>1. p.id \in PacketIds /\ NextId(p.id) \in PacketIds /\ 0 \in PacketIds
  BY IdsWrap DEF Packet
<1>2. /\ ReplyTo[p.type] \in MessageType
      /\ "SUBACK" \in MessageType /\ "CONNACK" \in MessageType
  BY DEF ReplyTo, Requests, Replies, MessageType
<1>3. ASSUME NEW type \in MessageType, NEW id \in PacketIds, NEW v \in Verdicts
      PROVE  MakePacket(type, id, v) \in Packet
  BY DEF MakePacket, Packet
<1>4. "ok" \in Verdicts /\ "refused" \in Verdicts
  BY DEF Verdicts
<1>5. BadReplies(p) \subseteq Packet
  BY <1>1, <1>2, <1>3, <1>4 DEF BadReplies
<1> QED BY <1>1, <1>2, <1>3, <1>4, <1>5

LEMMA TransmitType ==
    ASSUME inbox \in Seq(InFlight), NEW p \in Packet, Transmit(p)
    PROVE  inbox' \in Seq(InFlight)
<1>1. CASE mSocket = "up"
  <2>1. PICK n \in 1 .. Reads(p) :
           inbox' = Append(inbox, [pkt |-> p, got |-> n, read |-> 0])
    BY <1>1 DEF Transmit
  <2>2. Reads(p) \in {2, 3}
    BY ReadsType
  <2>3. n \in 1 .. 3 /\ n <= Reads(p) /\ 0 \in 0 .. 2
    BY <2>2
  <2>4. [pkt |-> p, got |-> n, read |-> 0] \in InFlight
    BY <2>3 DEF InFlight
  <2> QED BY <2>1, <2>4
<1>2. CASE mSocket # "up"
  BY <1>2 DEF Transmit
<1> QED BY <1>1, <1>2

LEMMA BrokerStepTypes ==
    ASSUME TcpTypeOK, BrokerTypeOK, BrokerStep
    PROVE  TcpTypeOK' /\ BrokerTypeOK'
<1>1. ASSUME outbox # <<>>
      PROVE  Head(outbox) \in Outgoing /\ Tail(outbox) \in Seq(Outgoing)
  BY <1>1 DEF TcpTypeOK
<1>2. CASE TakeRequest
  <2> DEFINE p == Head(outbox)
  <2>1. p \in Outgoing /\ p \in Packet /\ p.type \in Requests
    BY <1>1, <1>2, PacketTypes DEF TakeRequest
  <2>2. PICK fine \in BOOLEAN :
           /\ Reply(p, fine)
           /\ session' = (session \/ (p.type = "CONNECT" /\ fine))
           /\ brokerSubs' =
                CASE p.type = "CONNECT" /\ fine /\ CleanSession -> {}
                  [] p.type = "SUBSCRIBE" /\ fine -> brokerSubs \cup {TopicOf[p.arg]}
                  [] p.type = "UNSUBSCRIBE"       -> brokerSubs \ {p.arg}
                  [] OTHER                        -> brokerSubs
    BY <1>2 DEF TakeRequest
  <2>3. p.type = "SUBSCRIBE" => TopicOf[p.arg] \in Topics
    BY <2>1 DEF Outgoing
  <2> HIDE DEF p
  <2>4. faults' \in 0 .. MaxFaults
    BY <2>2 DEF Reply, Inject, TcpTypeOK
  <2>5. inbox' \in Seq(InFlight)
    <3>1. inbox \in Seq(InFlight)
      BY DEF TcpTypeOK
    <3>2. \A q \in Packet : Transmit(q) => inbox' \in Seq(InFlight)
      BY <3>1, TransmitType
    <3>3. \E q \in Packet : Transmit(q)
      BY <2>1, <2>2, ReplyTypes DEF Reply, Verdicts
    <3> QED BY <3>2, <3>3
  <2>6. brokerSubs' \in SUBSET Topics
    BY <2>2, <2>3 DEF BrokerTypeOK
  <2>7. session' \in BOOLEAN
    BY <2>2 DEF TcpTypeOK
  <2>8. outbox' \in Seq(Outgoing)
    BY <1>1, <1>2 DEF TakeRequest
  <2> QED BY <1>2, <2>4, <2>5, <2>6, <2>7, <2>8
          DEF TakeRequest, TcpTypeOK, BrokerTypeOK
<1>3. CASE TakePublish
  <2>1. Head(outbox).arg \in Messages /\ Tail(outbox) \in Seq(Outgoing)
    BY <1>1, <1>3 DEF TakePublish, Outgoing
  <2> QED BY <1>3, <2>1 DEF TakePublish, TcpTypeOK, BrokerTypeOK
<1>4. CASE TakeDisconnect
  BY <1>1, <1>4 DEF TakeDisconnect, TcpTypeOK, BrokerTypeOK, brokerVars
<1>5. ASSUME NEW t \in Topics, SendPublish(t) PROVE TcpTypeOK' /\ BrokerTypeOK'
  <2>1. MakePacket("PUBLISH", 0, t) \in Packet
    BY IdsWrap DEF MakePacket, Packet, MessageType
  <2>2. inbox' \in Seq(InFlight)
    BY <1>5, <2>1, TransmitType DEF SendPublish, TcpTypeOK
  <2>3. incoming' \in 0 .. MaxIncoming
    BY <1>5 DEF SendPublish, BrokerTypeOK
  <2> QED BY <1>5, <2>2, <2>3 DEF SendPublish, TcpTypeOK, BrokerTypeOK
<1> QED BY <1>2, <1>3, <1>4, <1>5 DEF BrokerStep, Take

-----------------------------------------------------------------------------
(* The system. *)

\* TypeOK is inductive together with QueueHasTask.
TypeInv == TypeOK /\ QueueHasTask

LEMMA InitTypes == Init => TypeInv
<1> SUFFICES ASSUME Init PROVE TypeInv
  OBVIOUS
<1>1. ClientTypeOK
  <2>1. mTaskQueue \in Seq(Task) /\ 1 \in PacketIds /\ IsFiniteSet({})
    BY TaskTypes, IdsWrap, FS_EmptySet DEF Init, ClientInit
  <2>2. <<>> \in Seq(Messages) /\ 0 \in 0 .. MaxUnsubscribes
    OBVIOUS
  <2> QED BY <2>1, <2>2 DEF Init, ClientInit, ClientTypeOK
<1>2. TcpTypeOK
  <2>1. /\ <<>> \in Seq(InFlight) /\ <<>> \in Seq(Outgoing)
        /\ 0 \in 0 .. MaxFaults /\ 0 \in 0 .. MaxIdle
    BY DEF MaxIdle
  <2> QED BY <2>1, PacketTypes DEF Init, TcpInit, TcpTypeOK, SocketStates
<1>3. BrokerTypeOK
  BY DEF Init, BrokerInit, BrokerTypeOK
<1>4. QueueHasTask
  BY DEF Init, ClientInit, QueueHasTask
<1> QED BY <1>1, <1>2, <1>3, <1>4 DEF TypeInv, TypeOK

\* Only WhileTask enters a task, and it has found one; a task that is left for
\* a callback stays in the queue, and calls from callbacks only append.
LEMMA QueueHasTaskStep ==
    ASSUME TypeInv, Next
    PROVE  QueueHasTask'
<1> USE DEF QueueHasTask
<1>1. mTaskQueue \in Seq(Task) /\ QueueHasTask
  BY DEF TypeInv, TypeOK, ClientTypeOK
<1>2. ASSUME NEW status, Return(status) PROVE QueueHasTask'
  BY <1>2 DEF Return
<1>3. ASSUME NEW label \in {"block", "while"}, Goto(label) PROVE QueueHasTask'
  BY <1>3 DEF Goto
<1>4. AfterTask => QueueHasTask'
  BY <1>2, <1>3 DEF AfterTask
<1>5. \A tries : Catch(tries) => QueueHasTask'
  BY <1>2 DEF Catch
<1>6. UNCHANGED <<pc, mTaskQueue>> => QueueHasTask'
  BY <1>1
<1>7. CASE Application
  <2>1. ASSUME NEW task \in Task, Enqueue(task) PROVE QueueHasTask'
    BY <1>1, <2>1, QueueBack DEF Enqueue
  <2> QED BY <1>7, <2>1, TaskTypes
          DEF Application, publish, subscribe, unsubscribe, disconnect
<1>8. CASE LoopCall \/ Loop
  <2>1. CASE WhileTask
    <3>1. WithReceive \in Seq(Task) /\ PingTask \in Task
      BY IdleWorkTypes, ClientTypeParts, TaskTypes DEF TypeInv, TypeOK
    <3>2. WithReceive # <<>>
      <4>1. RecvTask(NoPacket) \in Task
        BY PacketTypes, TaskTypes
      <4>2. <<RecvTask(NoPacket)>> \o mTaskQueue # <<>>
        BY <1>1, <4>1, QueueFront
      <4> QED BY <2>1, <4>2 DEF WhileTask, WithReceive
    <3>3. Append(WithReceive, PingTask) # <<>>
      BY <3>1, QueueBack
    <3> QED BY <2>1, <3>2, <3>3 DEF WhileTask, IdleWork
  <2>2. CASE Loop /\ ~WhileTask
    BY <1>2, <1>3, <1>5, <2>2
       DEF Loop, BlockSkip, BlockPoll, BlockIdle, PollData, PollThrows, PollTimeout,
           WhileDone, Polled
  <2> QED BY <1>8, <2>1, <2>2 DEF LoopCall
<1>9. CASE RunTask
  <2>1. CASE Dispatch \/ HandleConnack
    <3>1. UNCHANGED mTaskQueue /\ mTaskQueue # <<>>
      BY <1>1, <2>1 DEF Dispatch, HandleConnack, Running
    <3> QED BY <3>1
  <2>2. CASE AfterTask \/ (\E tries : Catch(tries)) \/ Return("EVERYTHING_DONE")
    BY <1>2, <1>4, <1>5, <2>2
  <2> QED BY <1>9, <2>1, <2>2
          DEF RunTask, Repeat, SendRest, TcpConnectWaits, TcpConnectOpens,
              TcpConnectThrows, CheckConnectRepeats, CheckConnectDone,
              CheckConnectThrows, Prepare, SendAll, SendDisconnect, SendPart,
              SendNone, SendThrows, ReceiveNone, ReceiveThrows, Receive, Dispatched,
              Deliver, HandleViolation, HandleRefusal, Handled, CallbackThrows
<1>10. CASE DelayElapses \/ UNCHANGED clientVars
  BY <1>6, <1>10 DEF DelayElapses, clientVars, taskVars, loopVars
<1> QED BY <1>7, <1>8, <1>9, <1>10 DEF Next

LEMMA StepTypes ==
    ASSUME TypeInv, [Next]_vars
    PROVE  TypeInv'
<1>1. ClientTypeOK /\ TcpTypeOK /\ BrokerTypeOK /\ QueueHasTask
  BY DEF TypeInv, TypeOK
<1>2. UNCHANGED brokerVars => BrokerTypeOK'
  BY <1>1 DEF brokerVars, BrokerTypeOK
<1>3. UNCHANGED clientVars => ClientTypeOK'
  BY <1>1, UnchangedTypes, LoopTypes, ClientTypeParts, ClientTypePartsPrimed
     DEF clientVars
<1>4. ASSUME Next PROVE TypeOK'
  <2>1. CASE Application /\ UNCHANGED brokerVars
    <3>1. UNCHANGED tcpVars
      BY <2>1 DEF Application, publish, subscribe, unsubscribe, disconnect, Enqueue
    <3> QED BY <1>1, <1>2, <2>1, <3>1, ApplicationTypes, TcpCalls DEF TypeOK
  <2>2. CASE (LoopCall \/ Loop) /\ UNCHANGED brokerVars
    BY <1>1, <1>2, <2>2, LoopStepTypes DEF TypeOK
  <2>3. CASE RunTask /\ UNCHANGED brokerVars
    BY <1>1, <1>2, <2>3, RunTaskTypes DEF TypeOK
  <2>4. CASE DelayElapses /\ UNCHANGED brokerVars
    <3>1. ClientTypeOK'
      <4>1. TaskTypeOK /\ LoopTypeOK /\ CallTypeOK
        BY <1>1, ClientTypeParts
      <4>2. TaskTypeOK'
        BY <2>4, <4>1 DEF DelayElapses, TaskTypeOK
      <4>3. LoopTypeOK' /\ CallTypeOK'
        BY <2>4, <4>1, LoopTypes, UnchangedTypes DEF DelayElapses
      <4> QED BY <4>2, <4>3, ClientTypePartsPrimed
    <3>2. TcpTypeOK'
      BY <1>1, <2>4, TcpCalls DEF DelayElapses
    <3> QED BY <1>2, <2>4, <3>1, <3>2 DEF TypeOK
  <2>5. CASE Network /\ UNCHANGED <<clientVars, brokerVars>>
    BY <1>1, <1>2, <1>3, <2>5, NetworkTypes DEF TypeOK
  <2>6. CASE BrokerStep /\ UNCHANGED clientVars
    BY <1>1, <1>3, <2>6, BrokerStepTypes DEF TypeOK
  <2> QED BY <1>4, <2>1, <2>2, <2>3, <2>4, <2>5, <2>6 DEF Next
<1>5. ASSUME UNCHANGED vars PROVE TypeInv'
  <2>1. UNCHANGED <<clientVars, tcpVars, brokerVars>>
    BY <1>5 DEF vars
  <2>2. QueueHasTask'
    BY <1>1, <2>1 DEF clientVars, taskVars, loopVars, QueueHasTask
  <2> QED BY <1>1, <1>2, <1>3, <2>1, <2>2, TcpCalls DEF TypeInv, TypeOK
<1> QED BY <1>4, <1>5, QueueHasTaskStep DEF TypeInv

\* No step of the client, the network or the broker leaves a variable outside
\* its type: the queue holds tasks, an identifier fits its two bytes, and a
\* packet sent is one the client may send.
THEOREM TypeCorrect == Spec => []TypeOK
<1>1. Init => TypeInv
  BY InitTypes
<1>2. TypeInv /\ [Next]_vars => TypeInv'
  BY StepTypes
<1>3. TypeInv => TypeOK
  BY DEF TypeInv
<1> QED BY <1>1, <1>2, <1>3, PTL DEF Spec

\* The inductive invariant itself, for the proofs that build on it.
THEOREM TypeInvCorrect == Spec => []TypeInv
<1>1. Init => TypeInv
  BY InitTypes
<1>2. TypeInv /\ [Next]_vars => TypeInv'
  BY StepTypes
<1> QED BY <1>1, <1>2, PTL DEF Spec

-----------------------------------------------------------------------------
(* The receivers of a queue. *)

\* OneReceiver and ReceiversDropped, of a queue and the flag.
Receivers(q, flag) ==
    \A i \in DOMAIN q : /\ q[i].kind \in Receiving => ~q[i].keep
                        /\ Incomplete(q[i]) => i = 1 /\ flag

LEMMA ReceiversMeans ==
    /\ OneReceiver /\ ReceiversDropped
          <=> Receivers(mTaskQueue, mCurrentlyReceivingPacket)
    /\ OneReceiver' /\ ReceiversDropped'
          <=> Receivers(mTaskQueue, mCurrentlyReceivingPacket)'
BY DEF OneReceiver, ReceiversDropped, Receivers, Incomplete

\* A task at the back that receives nothing.
LEMMA ReceiversBack ==
    ASSUME NEW q \in Seq(Task), NEW flag, Receivers(q, flag),
           NEW t \in Task, t.kind \notin Receiving
    PROVE  Receivers(Append(q, t), flag)
<1>1. /\ DOMAIN Append(q, t) = 1 .. Len(q) + 1 /\ DOMAIN q = 1 .. Len(q)
      /\ Len(q) \in Nat
  BY QueueBack
<1>2. /\ \A i \in 1 .. Len(q) : Append(q, t)[i] = q[i]
      /\ Append(q, t)[Len(q) + 1] = t
  BY QueueBack
<1> SUFFICES ASSUME NEW i \in DOMAIN Append(q, t)
             PROVE  /\ Append(q, t)[i].kind \in Receiving => ~Append(q, t)[i].keep
                    /\ Incomplete(Append(q, t)[i]) => i = 1 /\ flag
  BY DEF Receivers
<1>3. CASE i \in 1 .. Len(q)
  BY <1>1, <1>2, <1>3 DEF Receivers
<1>4. CASE i = Len(q) + 1
  BY <1>2, <1>4 DEF Incomplete
<1> QED BY <1>1, <1>3, <1>4

\* A task in front of a queue in which nothing is incomplete.
LEMMA ReceiversFront ==
    ASSUME NEW q \in Seq(Task), NEW flag \in BOOLEAN, Receivers(q, FALSE),
           NEW t \in Task, t.kind \in Receiving => ~t.keep, Incomplete(t) => flag
    PROVE  Receivers(<<t>> \o q, flag)
<1> DEFINE r == <<t>> \o q
<1>1. /\ r \in Seq(Task) /\ Len(r) = Len(q) + 1 /\ Len(q) \in Nat
      /\ DOMAIN r = 1 .. Len(r) /\ DOMAIN q = 1 .. Len(q)
      /\ r[1] = t
      /\ \A i \in 1 .. Len(q) : r[i + 1] = q[i]
  BY QueueFront
<1> HIDE DEF r
<1> SUFFICES ASSUME NEW i \in DOMAIN r
             PROVE  /\ r[i].kind \in Receiving => ~r[i].keep
                    /\ Incomplete(r[i]) => i = 1 /\ flag
  BY DEF Receivers, r
<1>2. CASE i = 1
  BY <1>1, <1>2
<1>3. CASE i # 1
  <2>1. i - 1 \in 1 .. Len(q) /\ i = (i - 1) + 1
    BY <1>1, <1>3
  <2>2. r[i] = q[i - 1] /\ i - 1 \in DOMAIN q
    BY <1>1, <2>1
  <2> QED BY <2>2 DEF Receivers
<1> QED BY <1>2, <1>3

\* Behind the first task nothing is incomplete.
LEMMA ReceiversTail ==
    ASSUME NEW q \in Seq(Task), q # <<>>, NEW flag, Receivers(q, flag)
    PROVE  Receivers(Tail(q), FALSE)
<1>1. /\ Len(Tail(q)) = Len(q) - 1 /\ Len(q) \in Nat
      /\ DOMAIN Tail(q) = 1 .. Len(q) - 1 /\ DOMAIN q = 1 .. Len(q)
      /\ \A i \in 1 .. Len(q) - 1 : Tail(q)[i] = q[i + 1]
  BY QueueTail
<1> SUFFICES ASSUME NEW i \in DOMAIN Tail(q)
             PROVE  /\ Tail(q)[i].kind \in Receiving => ~Tail(q)[i].keep
                    /\ ~Incomplete(Tail(q)[i])
  BY DEF Receivers
<1>2. i + 1 \in DOMAIN q /\ i + 1 # 1 /\ Tail(q)[i] = q[i + 1]
  BY <1>1
<1> QED BY <1>2 DEF Receivers

LEMMA ReceiversFlag ==
    ASSUME NEW q, NEW flag \in BOOLEAN, Receivers(q, FALSE)
    PROVE  Receivers(q, flag)
BY DEF Receivers

\* Replacing the first task.
LEMMA ReceiversReplace ==
    ASSUME ClientTypeOK, mTaskQueue # <<>>, OneReceiver, ReceiversDropped,
           mCurrentlyReceivingPacket' \in BOOLEAN
    PROVE  /\ ReplaceBy(<<>>) => Receivers(mTaskQueue, mCurrentlyReceivingPacket)'
           /\ \A t \in Task :
                 /\ ReplaceBy(<<t>>)
                 /\ t.kind \in Receiving => ~t.keep
                 /\ Incomplete(t) => mCurrentlyReceivingPacket'
                 => Receivers(mTaskQueue, mCurrentlyReceivingPacket)'
<1>1. mTaskQueue \in Seq(Task)
  BY DEF ClientTypeOK
<1>2. /\ Others \in Seq(Task) /\ <<>> \o Others = Others
      /\ Receivers(Others, FALSE)
  BY <1>1, QueueTail, ReceiversTail, ReceiversMeans DEF Others
<1>3. ASSUME ReplaceBy(<<>>) PROVE Receivers(mTaskQueue, mCurrentlyReceivingPacket)'
  <2>1. Receivers(Others, mCurrentlyReceivingPacket')
    BY <1>2, ReceiversFlag
  <2>2. mTaskQueue' = Others
    BY <1>2, <1>3 DEF ReplaceBy
  <2> QED BY <2>1, <2>2 DEF Receivers, Incomplete
<1>4. ASSUME NEW t \in Task, ReplaceBy(<<t>>), t.kind \in Receiving => ~t.keep,
             Incomplete(t) => mCurrentlyReceivingPacket'
      PROVE  Receivers(mTaskQueue, mCurrentlyReceivingPacket)'
  <2>1. Receivers(<<t>> \o Others, mCurrentlyReceivingPacket')
    BY <1>2, <1>4, ReceiversFront
  <2>2. mTaskQueue' = <<t>> \o Others
    BY <1>4 DEF ReplaceBy
  <2> QED BY <2>1, <2>2 DEF Receivers, Incomplete
<1> QED BY <1>3, <1>4

-----------------------------------------------------------------------------
(* The parts of the steps. *)

\* What loop() enqueues between two tasks: a receive only if there is none.
LEMMA IdleReceivers ==
    ASSUME ClientTypeOK, OneReceiver, ReceiversDropped
    PROVE  /\ Receivers(WithReceive, FlagWithReceive)
           /\ IdleWork => Receivers(mTaskQueue, mCurrentlyReceivingPacket)'
<1>1. /\ mTaskQueue \in Seq(Task) /\ mCurrentlyReceivingPacket \in BOOLEAN
      /\ Receivers(mTaskQueue, mCurrentlyReceivingPacket)
      /\ TaskTypeOK /\ CallTypeOK
  BY ReceiversMeans, ClientTypeParts DEF ClientTypeOK
<1>2. Receivers(WithReceive, FlagWithReceive)
  <2>1. CASE Unexpected
    <3>1. Receivers(mTaskQueue, FALSE)
      BY <1>1, <2>1 DEF Unexpected
    <3>2. RecvTask(NoPacket) \in Task
      BY PacketTypes, TaskTypes
    <3>3. RecvTask(NoPacket).keep = FALSE
      BY DEF RecvTask, MakeTask
    <3>4. Receivers(<<RecvTask(NoPacket)>> \o mTaskQueue, TRUE)
      BY <1>1, <3>1, <3>2, <3>3, ReceiversFront
    <3> QED BY <2>1, <3>4 DEF WithReceive, FlagWithReceive
  <2>2. CASE ~Unexpected
    BY <1>1, <2>2 DEF WithReceive, FlagWithReceive, Receivers
  <2> QED BY <2>1, <2>2
<1>3. ASSUME IdleWork PROVE Receivers(mTaskQueue, mCurrentlyReceivingPacket)'
  <2>1. WithReceive \in Seq(Task) /\ PingTask \in Task
    BY <1>1, IdleWorkTypes, TaskTypes
  <2>2. PingTask.kind \notin Receiving
    BY DEF PingTask, MakeTask, Receiving
  <2>3. Receivers(Append(WithReceive, PingTask), FlagWithReceive)
    BY <1>2, <2>1, <2>2, ReceiversBack
  <2>4. Receivers(mTaskQueue', mCurrentlyReceivingPacket')
    BY <1>2, <1>3, <2>3 DEF IdleWork
  <2> QED BY <2>4 DEF Receivers, Incomplete
<1> QED BY <1>2, <1>3

\* The catch clause: the receivers are dropped when the client reconnects.
LEMMA CatchReceivers ==
    ASSUME ClientTypeOK, OneReceiver, ReceiversDropped, NEW tries, Catch(tries)
    PROVE  Receivers(mTaskQueue, mCurrentlyReceivingPacket)'
<1>1. Receivers(mTaskQueue, mCurrentlyReceivingPacket)
  BY ReceiversMeans
<1>2. CASE UNCHANGED <<mTaskQueue, callbacks>>
  BY <1>1, <1>2 DEF Catch, Receivers, Incomplete
<1>3. CASE connectMqtt
  <2>1. \A i \in DOMAIN mTaskQueue' :
           \/ mTaskQueue'[i].kind \in {"tcpConnect", "checkConnect", "prepare"}
           \/ \E j \in DOMAIN mTaskQueue :
                 mTaskQueue'[i] = mTaskQueue[j] /\ mTaskQueue[j].keep
    BY <1>3, ReconnectQueue
  <2>2. \A i \in DOMAIN mTaskQueue' : mTaskQueue'[i].kind \notin Receiving
    BY <2>1 DEF ReceiversDropped, Receiving
  <2> QED BY <2>2 DEF Receivers, Incomplete
<1> QED BY <1>2, <1>3 DEF Catch

\* A failure before disconnect() was carried out: the client keeps its socket,
\* or its next task replaces it.
LEMMA CatchSocket ==
    ASSUME ClientTypeOK, ~mDisconnected, NEW tries, Catch(tries),
           \/ mSocket' # "none"
           \/ mTaskQueue # <<>> /\ Reconnects(Head(mTaskQueue))
    PROVE  NoSocketNoWork' /\ CallbackHasSocket' /\ DisconnectIsFinal'
<1>1. pc' = "out" /\ ret' # "EXCEPTION_AFTER_DISCONNECT" /\ ~mDisconnected'
  BY DEF Catch, Return
<1>2. NoSocketNoWork'
  <2>1. CASE connectMqtt
    <3>1. mTaskQueue' # <<>> /\ Head(mTaskQueue').kind = "tcpConnect"
      BY <2>1, ReconnectQueue
    <3> QED BY <3>1 DEF NoSocketNoWork, Reconnects
  <2>2. CASE UNCHANGED <<mTaskQueue, callbacks>>
    BY <2>2 DEF NoSocketNoWork, Reconnects, Violates, IdMatches, ntohs
  <2> QED BY <2>1, <2>2 DEF Catch
<1> QED BY <1>1, <1>2 DEF CallbackHasSocket, DisconnectIsFinal

\* A step that keeps the socket and does not disconnect.
LEMMA WithSocket ==
    ASSUME mSocket' # "none", ~mDisconnected', ret' # "EXCEPTION_AFTER_DISCONNECT"
    PROVE  NoSocketNoWork' /\ CallbackHasSocket' /\ DisconnectIsFinal'
BY DEF NoSocketNoWork, CallbackHasSocket, DisconnectIsFinal

\* A task that is not one that reconnects has a socket, and was not disconnected.
LEMMA RunningHasSocket ==
    ASSUME SafetyInv
    PROVE  /\ mTaskQueue # <<>> => ~mDisconnected
           /\ mTaskQueue # <<>> /\ ~Reconnects(Head(mTaskQueue)) => mSocket # "none"
           /\ mSocket # "none" => ~mDisconnected
           /\ pc \in {"run", "callback"} => mTaskQueue # <<>>
BY DEF SafetyInv, DisconnectIsFinal, NoSocketNoWork, QueueHasTask

\* When a task runs there is one.
LEMMA RunsTask ==
    ASSUME ClientTypeOK, QueueHasTask, RunTask
    PROVE  mTaskQueue # <<>> /\ This \in Task /\ This.req \in Outgoing
<1>1. pc \in {"run", "callback"} /\ mTaskQueue # <<>>
  BY DEF RunTask, QueueHasTask, Running, InOnConnect, InOnMessage,
         TcpConnectWaits, TcpConnectOpens, TcpConnectThrows, CheckConnectRepeats,
         CheckConnectDone, CheckConnectThrows, Prepare, SendAll, SendDisconnect,
         SendPart, SendNone, SendThrows, ReceiveNone, ReceiveThrows, Receive,
         Dispatch, Dispatched, Deliver, HandleViolation, HandleRefusal,
         HandleConnack, Handled, CallbackThrows
<1>2. This \in Task
  BY <1>1, QueueTail DEF This, ClientTypeOK
<1> QED BY <1>1, <1>2 DEF Task

-----------------------------------------------------------------------------
(* OneReceiver and ReceiversDropped, step by step. *)

LEMMA ReceiversTasks ==
    ASSUME ClientTypeOK, ClientTypeOK', TcpTypeOK, SafetyInv, RunTask
    PROVE  Receivers(mTaskQueue, mCurrentlyReceivingPacket)'
<1>1. /\ OneReceiver /\ ReceiversDropped
      /\ Receivers(mTaskQueue, mCurrentlyReceivingPacket)
  BY ReceiversMeans DEF SafetyInv
<1>2. pc \in {"run", "callback"} /\ mTaskQueue # <<>>
  BY DEF SafetyInv, RunTask, QueueHasTask, Running, InOnConnect, InOnMessage,
         TcpConnectWaits, TcpConnectOpens, TcpConnectThrows, CheckConnectRepeats,
         CheckConnectDone, CheckConnectThrows, Prepare, SendAll, SendDisconnect,
         SendPart, SendNone, SendThrows, ReceiveNone, ReceiveThrows, Receive,
         Dispatch, Dispatched, Deliver, HandleViolation, HandleRefusal,
         HandleConnack, Handled, CallbackThrows
<1>3. mCurrentlyReceivingPacket' \in BOOLEAN /\ This \in Task /\ This.req \in Outgoing
  <2>1. mTaskQueue \in Seq(Task) /\ mCurrentlyReceivingPacket' \in BOOLEAN
    BY DEF ClientTypeOK
  <2>2. This \in Task
    BY <1>2, <2>1, QueueTail DEF This
  <2> QED BY <2>1, <2>2 DEF Task
<1>4. /\ ReplaceBy(<<>>) => Receivers(mTaskQueue, mCurrentlyReceivingPacket)'
      /\ \A t \in Task :
            /\ ReplaceBy(<<t>>)
            /\ t.kind \in Receiving => ~t.keep
            /\ Incomplete(t) => mCurrentlyReceivingPacket'
            => Receivers(mTaskQueue, mCurrentlyReceivingPacket)'
  BY <1>1, <1>2, <1>3, ReceiversReplace
<1>5. UNCHANGED <<mTaskQueue, mCurrentlyReceivingPacket>>
         => Receivers(mTaskQueue, mCurrentlyReceivingPacket)'
  BY <1>1 DEF Receivers, Incomplete
<1>6. \A tries : Catch(tries) => Receivers(mTaskQueue, mCurrentlyReceivingPacket)'
  BY <1>1, CatchReceivers
<1>7. /\ This.kind \in Receiving => ~This.keep
      /\ Incomplete(This) => mCurrentlyReceivingPacket
  <2>1. 1 \in DOMAIN mTaskQueue /\ mTaskQueue[1] = This
    BY <1>2, QueueTail DEF This, ClientTypeOK
  <2> QED BY <1>1, <2>1 DEF Receivers
<1>8. CASE Repeat
  BY <1>5, <1>8 DEF Repeat, taskVars
<1>9. CASE TcpConnectOpens \/ CheckConnectDone \/ Handled
  BY <1>4, <1>9 DEF TcpConnectOpens, CheckConnectDone, Handled
<1>10. ASSUME NEW p \in Outgoing, ReplaceBy(<<SendTask(p)>>)
       PROVE  Receivers(mTaskQueue, mCurrentlyReceivingPacket)'
  <2>1. SendTask(p) \in Task /\ SendTask(p).kind \notin Receiving
    BY TaskTypes DEF SendTask, MakeTask, Receiving
  <2> QED BY <1>4, <1>10, <2>1 DEF Incomplete
<1>11. CASE Prepare
  <2>1. mPacketIdentifierCounter \in PacketIds
    BY DEF ClientTypeOK
  <2>2. [This.req EXCEPT !.id = mPacketIdentifierCounter] \in Outgoing
    BY <1>3, <2>1 DEF Outgoing, Packet
  <2> QED BY <1>3, <1>10, <1>11, <2>2 DEF Prepare
<1>12. ASSUME NEW p \in Outgoing, ReplaceBy(<<RecvTask(p)>>),
              mCurrentlyReceivingPacket'
       PROVE  Receivers(mTaskQueue, mCurrentlyReceivingPacket)'
  <2>1. RecvTask(p) \in Task /\ RecvTask(p).keep = FALSE
    BY TaskTypes DEF RecvTask, MakeTask
  <2> QED BY <1>4, <1>12, <2>1
<1>13. CASE SendAll
  BY <1>3, <1>4, <1>12, <1>13 DEF SendAll
<1>14. CASE SendDisconnect
  <2>1. mTaskQueue' = <<>>
    BY <1>14 DEF SendDisconnect
  <2> QED BY <2>1 DEF Receivers
<1>15. CASE SendPart \/ SendNone
  <2>1. ASSUME NEW written \in BOOLEAN, SendRest(written)
        PROVE  Receivers(mTaskQueue, mCurrentlyReceivingPacket)'
    <3>1. /\ RestTask(This.req, written) \in Task
          /\ RestTask(This.req, written).kind \notin Receiving
      BY <1>3, TaskTypes DEF RestTask, Receiving
    <3> QED BY <1>4, <2>1, <3>1 DEF SendRest, Incomplete
  <2> QED BY <1>3, <1>15, <2>1 DEF SendPart, SendNone, Task
<1>16. CASE Receive
  <2>1. This.kind \in Receiving /\ Incomplete(This)
    BY <1>16 DEF Receive, Running, This, Incomplete
  <2>2. mCurrentlyReceivingPacket' /\ ~This.keep
    BY <1>7, <1>16, <2>1 DEF Receive
  <2>3. Head(inbox).pkt \in Packet
    <3>1. inbox \in Seq(InFlight) /\ inbox # <<>>
      BY <1>16 DEF Receive, TcpRecv, isDataAvailable, TcpTypeOK
    <3>2. Head(inbox) \in InFlight
      BY <3>1
    <3> QED BY <3>2 DEF InFlight
  <2>4. /\ Completed(This, Head(inbox).pkt) \in Task
        /\ ~Completed(This, Head(inbox).pkt).keep
    BY <1>3, <2>2, <2>3, TaskTypes DEF Completed, Task
  <2> DEFINE next == [This EXCEPT !.kind = IF @ = "recvType" THEN "recvLength"
                                                             ELSE "recvBody"]
  <2>5. next \in Task /\ ~next.keep
    BY <1>3, <2>2 DEF Task, TaskKinds, Receiving
  <2>6. ReplaceBy(<<Completed(This, Head(inbox).pkt)>>) \/ ReplaceBy(<<next>>)
    BY <1>16 DEF Receive
  <2> HIDE DEF next
  <2> QED BY <1>4, <2>2, <2>4, <2>5, <2>6
<1>17. CASE Dispatch
  <2>1. ~Incomplete(This)
    BY <1>17 DEF Dispatch, This, Incomplete, NoPacket, MakePacket
  <2>2. \A i \in DOMAIN mTaskQueue : ~Incomplete(mTaskQueue[i])
    <3>1. mTaskQueue[1] = This
      BY <1>2, QueueTail DEF This, ClientTypeOK
    <3> QED BY <1>1, <2>1, <3>1 DEF Receivers
  <2> QED BY <1>1, <1>17, <2>2 DEF Dispatch, Receivers, Incomplete
<1>18. CASE Dispatched
  BY <1>3, <1>4, <1>12, <1>18 DEF Dispatched
<1>19. CASE Deliver
  <2>1. HandleTask(This) \in Task /\ HandleTask(This).kind \notin Receiving
    BY <1>3, TaskTypes DEF HandleTask, Task, Receiving
  <2> QED BY <1>4, <1>19, <2>1 DEF Deliver, Incomplete
<1>20. CASE HandleConnack
  BY <1>5, <1>20 DEF HandleConnack
<1>21. CASE \E tries : Catch(tries)
  BY <1>6, <1>21
<1> QED BY <1>8, <1>9, <1>11, <1>13, <1>14, <1>15, <1>16, <1>17, <1>18, <1>19,
           <1>20, <1>21
        DEF RunTask, TcpConnectWaits, TcpConnectThrows, CheckConnectRepeats,
            CheckConnectThrows, SendThrows, ReceiveNone, ReceiveThrows,
            HandleViolation, HandleRefusal, CallbackThrows

LEMMA ReceiversStep ==
    ASSUME TypeInv, TypeInv', SafetyInv, Next
    PROVE  OneReceiver' /\ ReceiversDropped'
<1>1. /\ ClientTypeOK /\ ClientTypeOK' /\ TcpTypeOK
      /\ mTaskQueue \in Seq(Task) /\ OneReceiver /\ ReceiversDropped
      /\ Receivers(mTaskQueue, mCurrentlyReceivingPacket)
  BY ReceiversMeans DEF TypeInv, TypeOK, ClientTypeOK, SafetyInv
<1> SUFFICES Receivers(mTaskQueue, mCurrentlyReceivingPacket)'
  BY ReceiversMeans
<1>2. UNCHANGED <<mTaskQueue, mCurrentlyReceivingPacket>>
         => Receivers(mTaskQueue, mCurrentlyReceivingPacket)'
  BY <1>1 DEF Receivers, Incomplete
<1>3. CASE Application
  <2>1. ASSUME NEW task \in Task, task.kind = "prepare", Enqueue(task)
        PROVE  Receivers(mTaskQueue, mCurrentlyReceivingPacket)'
    <3>1. Receivers(Append(mTaskQueue, task), mCurrentlyReceivingPacket)
      BY <1>1, <2>1, ReceiversBack DEF Receiving
    <3> QED BY <2>1, <3>1 DEF Enqueue, Receivers, Incomplete
  <2>2. /\ \A m \in Messages : PublishTask(m).kind = "prepare"
        /\ \A s \in Subs : SubscribeTask(s).kind = "prepare"
        /\ \A t \in Topics : UnsubscribeTask(t).kind = "prepare"
        /\ DisconnectTask.kind = "prepare"
    BY DEF PublishTask, SubscribeTask, UnsubscribeTask, DisconnectTask, MakeTask
  <2> QED BY <1>3, <2>1, <2>2, TaskTypes
          DEF Application, publish, subscribe, unsubscribe, disconnect
<1>4. CASE LoopCall \/ BlockPoll \/ WhileDone
  BY <1>2, <1>4 DEF LoopCall, BlockPoll, WhileDone, taskVars
<1>5. CASE BlockSkip
  <2>1. Receivers(WithReceive, FlagWithReceive)
    BY <1>1, IdleReceivers
  <2> QED BY <1>2, <1>5, <2>1 DEF BlockSkip, Receivers, Incomplete
<1>6. CASE BlockIdle \/ PollData \/ PollTimeout \/ WhileTask
  <2>1. IdleWork
    BY <1>6 DEF BlockIdle, PollData, PollTimeout, WhileTask
  <2> QED BY <1>1, <2>1, IdleReceivers
<1>7. CASE PollThrows
  BY <1>1, <1>7, CatchReceivers DEF PollThrows
<1>8. CASE RunTask
  BY <1>1, <1>8, ReceiversTasks
<1>9. CASE DelayElapses \/ UNCHANGED clientVars
  BY <1>2, <1>9 DEF DelayElapses, clientVars, taskVars
<1> QED BY <1>3, <1>4, <1>5, <1>6, <1>7, <1>8, <1>9 DEF Next, Loop

-----------------------------------------------------------------------------
(* NoSocketNoWork, CallbackHasSocket and DisconnectIsFinal, step by step. *)

LEMMA ReturnsFine ==
    ASSUME SafetyInv
    PROVE  /\ AfterTask => ret' # "EXCEPTION_AFTER_DISCONNECT" /\ pc' # "callback"
           /\ \A label : Goto(label) => ret' # "EXCEPTION_AFTER_DISCONNECT"
           /\ UNCHANGED ret => ret' # "EXCEPTION_AFTER_DISCONNECT"
BY DEF AfterTask, Return, Goto, SafetyInv, DisconnectIsFinal

LEMMA SocketTasks ==
    ASSUME ClientTypeOK, SafetyInv, RunTask
    PROVE  NoSocketNoWork' /\ CallbackHasSocket' /\ DisconnectIsFinal'
<1> DEFINE Goal == NoSocketNoWork' /\ CallbackHasSocket' /\ DisconnectIsFinal'
<1> USE RunningHasSocket, ReturnsFine
<1>1. CASE TcpConnectWaits
  <2>1. /\ UNCHANGED <<mSocket, mTaskQueue, mDisconnected>>
        /\ ret' # "EXCEPTION_AFTER_DISCONNECT" /\ pc' # "callback"
    BY <1>1 DEF TcpConnectWaits, Repeat, taskVars, tcpVars
  <2> QED BY <2>1 DEF SafetyInv, NoSocketNoWork, Reconnects, Violates, IdMatches,
                      ntohs, CallbackHasSocket, DisconnectIsFinal
<1>2. CASE TcpConnectOpens
  <2>1. /\ mSocket' # "none" /\ ~mDisconnected'
        /\ ret' # "EXCEPTION_AFTER_DISCONNECT"
    BY <1>2 DEF TcpConnectOpens, TcpOpen, Running
  <2> QED BY <2>1, WithSocket
<1>3. CASE TcpConnectThrows
  <2>1. mTaskQueue # <<>> /\ ~mDisconnected /\ Reconnects(Head(mTaskQueue))
    BY <1>3 DEF TcpConnectThrows, Running, Reconnects
  <2> QED BY <1>3, <2>1, CatchSocket DEF TcpConnectThrows
\* Any other task but a violating reply has a socket, and keeps it.
<1>4. ASSUME mTaskQueue # <<>>, ~Reconnects(Head(mTaskQueue))
      PROVE  mSocket # "none" /\ ~mDisconnected
  BY <1>4
<1>5. ASSUME mSocket' # "none", ~mDisconnected, UNCHANGED mDisconnected,
             AfterTask \/ Goto("callback")
      PROVE  Goal
  BY <1>5, WithSocket
<1>6. ASSUME mSocket' # "none", ~mDisconnected, NEW tries, Catch(tries)
      PROVE  Goal
  BY <1>6, CatchSocket
<1>7. CASE CheckConnectRepeats \/ CheckConnectDone \/ CheckConnectThrows
  <2>1. mSocket # "none" /\ ~mDisconnected
    BY <1>4, <1>7 DEF CheckConnectRepeats, CheckConnectDone, CheckConnectThrows,
                      Running, Reconnects
  <2>2. mSocket' # "none"
    BY <1>7, <2>1 DEF CheckConnectRepeats, CheckConnectDone, CheckConnectThrows,
                      TcpTakeError, tcpVars
  <2> QED BY <1>5, <1>6, <1>7, <2>1, <2>2
          DEF CheckConnectRepeats, CheckConnectDone, CheckConnectThrows, Repeat,
              taskVars
<1>8. CASE Prepare
  <2>1. mSocket # "none" /\ ~mDisconnected
    BY <1>4, <1>8 DEF Prepare, Running, Reconnects
  <2> QED BY <1>5, <1>8, <2>1 DEF Prepare, tcpVars
<1>9. CASE SendAll \/ SendPart \/ SendNone \/ SendThrows
  <2>1. mSocket # "none" /\ ~mDisconnected
    BY <1>4, <1>9 DEF SendAll, SendPart, SendNone, SendThrows, Running, Reconnects
  <2>2. mSocket' # "none"
    BY <1>9, <2>1 DEF SendAll, SendPart, SendNone, SendThrows,
                      TcpSendAll, TcpSendPart, TcpSendNone, TcpSendThrows
  <2> QED BY <1>5, <1>6, <1>9, <2>1, <2>2
          DEF SendAll, SendPart, SendNone, SendThrows, SendRest
<1>10. CASE SendDisconnect
  <2>1. /\ mTaskQueue' = <<>> /\ mDisconnected' /\ mSocket' = "none"
        /\ pc' = "out" /\ ret' = "EVERYTHING_DONE"
    BY <1>10 DEF SendDisconnect, TcpSendAllAndClose, Return
  <2> QED BY <2>1 DEF NoSocketNoWork, CallbackHasSocket, DisconnectIsFinal
<1>11. CASE ReceiveNone \/ ReceiveThrows \/ Receive
  <2>1. mSocket # "none" /\ ~mDisconnected
    BY <1>4, <1>11 DEF ReceiveNone, ReceiveThrows, Receive, Running, Receiving,
                       Reconnects
  <2>2. mSocket' # "none"
    BY <1>11, <2>1 DEF ReceiveNone, ReceiveThrows, Receive, TcpRecvNone,
                       TcpRecvThrows, TcpRecv
  <2> QED BY <1>5, <1>6, <1>11, <2>1, <2>2
          DEF ReceiveNone, ReceiveThrows, Receive, Repeat, taskVars
<1>12. CASE Dispatch \/ Dispatched \/ Deliver
  <2>1. mTaskQueue # <<>> /\ Head(mTaskQueue).kind = "recvBody"
    BY <1>12 DEF Dispatch, Dispatched, Deliver, Running, This
  <2>2. mSocket # "none" /\ ~mDisconnected
    BY <1>4, <2>1 DEF Reconnects
  <2> QED BY <1>5, <1>12, <2>2 DEF Dispatch, Dispatched, Deliver, tcpVars
<1>13. CASE HandleViolation
  <2>1. mTaskQueue # <<>> /\ ~mDisconnected /\ Reconnects(Head(mTaskQueue))
    BY <1>13 DEF HandleViolation, Running, Reconnects, This
  <2> QED BY <1>13, <2>1, CatchSocket DEF HandleViolation
<1>14. CASE HandleRefusal \/ HandleConnack
  <2>1. mSocket # "none" /\ ~mDisconnected
    BY <1>4, <1>14 DEF HandleRefusal, HandleConnack, Running, Reconnects, This
  <2> QED BY <1>5, <1>6, <1>14, <2>1 DEF HandleRefusal, HandleConnack, tcpVars
<1>15. CASE Handled
  <2>1. mSocket # "none" /\ ~mDisconnected
    <3>1. CASE InOnConnect
      BY <3>1 DEF InOnConnect, SafetyInv, CallbackHasSocket
    <3>2. CASE Running("handle") /\ ~Violates(This.req, This.resp)
      BY <1>4, <3>2 DEF Running, Reconnects, This
    <3> QED BY <1>15, <3>1, <3>2 DEF Handled
  <2> QED BY <1>5, <1>15, <2>1 DEF Handled, tcpVars
<1>16. CASE CallbackThrows
  <2>1. mSocket # "none" /\ ~mDisconnected
    BY <1>16 DEF CallbackThrows, InOnConnect, InOnMessage, SafetyInv,
                 CallbackHasSocket
  <2> QED BY <1>6, <1>16, <2>1 DEF CallbackThrows
<1> QED BY <1>1, <1>2, <1>3, <1>7, <1>8, <1>9, <1>10, <1>11, <1>12, <1>13, <1>14,
           <1>15, <1>16 DEF RunTask

LEMMA SocketStep ==
    ASSUME TypeInv, SafetyInv, Next
    PROVE  NoSocketNoWork' /\ CallbackHasSocket' /\ DisconnectIsFinal'
<1>1. ClientTypeOK /\ mTaskQueue \in Seq(Task) /\ TaskTypeOK /\ CallTypeOK
  BY ClientTypeParts DEF TypeInv, TypeOK, ClientTypeOK
<1> DEFINE Goal == NoSocketNoWork' /\ CallbackHasSocket' /\ DisconnectIsFinal'
<1> USE RunningHasSocket, ReturnsFine
\* A step that keeps the socket, or its absence, and the queue.
<1>2. ASSUME mSocket' = "none" <=> mSocket = "none", UNCHANGED mDisconnected,
             ret' # "EXCEPTION_AFTER_DISCONNECT",
             pc' = "callback" => pc = "callback",
             mSocket = "none" => UNCHANGED mTaskQueue
      PROVE  Goal
  <2>1. CASE mSocket = "none"
    BY <1>2, <2>1 DEF SafetyInv, NoSocketNoWork, Reconnects, Violates, IdMatches,
                      ntohs, CallbackHasSocket, DisconnectIsFinal
  <2>2. CASE mSocket # "none"
    BY <1>2, <2>2, WithSocket
  <2> QED BY <2>1, <2>2
<1>3. CASE Application
  <2>1. MayCall /\ UNCHANGED <<mSocket, mDisconnected, pc, ret>>
    BY <1>3 DEF Application, publish, subscribe, unsubscribe, disconnect, Enqueue,
                loopVars, tcpVars
  <2>2. \E task \in Task : mTaskQueue' = Append(mTaskQueue, task)
    BY <1>3, TaskTypes DEF Application, publish, subscribe, unsubscribe,
                           disconnect, Enqueue
  <2>3. ~mDisconnected
    BY <2>1 DEF MayCall
  <2>4. CASE mSocket = "none"
    <3>1. mTaskQueue # <<>> /\ Reconnects(Head(mTaskQueue))
      BY <2>3, <2>4 DEF SafetyInv, NoSocketNoWork
    <3>2. mTaskQueue' # <<>> /\ Head(mTaskQueue') = Head(mTaskQueue)
      BY <1>1, <2>2, <3>1, QueueBack
    <3>3. NoSocketNoWork'
      BY <3>1, <3>2 DEF NoSocketNoWork, Reconnects, Violates, IdMatches, ntohs
    <3> QED BY <2>1, <2>3, <2>4, <3>3
            DEF SafetyInv, CallbackHasSocket, DisconnectIsFinal
  <2>5. CASE mSocket # "none"
    BY <2>1, <2>3, <2>5, WithSocket
  <2> QED BY <2>4, <2>5
<1>4. WithReceive = mTaskQueue \/ mSocket # "none"
  BY DEF WithReceive, Unexpected, isDataAvailable
<1>5. IdleWork /\ mSocket = "none" => UNCHANGED mTaskQueue
  BY <1>4 DEF IdleWork, PingDue
<1>6. CASE LoopCall
  BY <1>2, <1>6 DEF LoopCall, taskVars, tcpVars
<1>7. CASE BlockSkip
  BY <1>2, <1>4, <1>7 DEF BlockSkip, Goto, tcpVars
<1>8. CASE BlockPoll
  BY <1>2, <1>8 DEF BlockPoll, taskVars, tcpVars
<1>9. CASE BlockIdle
  <2>1. /\ mSocket' = "none" <=> mSocket = "none"
        /\ pc' = "while" /\ UNCHANGED <<ret, mDisconnected>>
    BY <1>9 DEF BlockIdle, TcpTakeError, tcpVars, Goto, IdleWork
  <2> QED BY <1>2, <1>5, <1>9, <2>1 DEF BlockIdle
<1>10. CASE PollData \/ PollTimeout \/ WhileTask
  <2>1. /\ UNCHANGED <<mSocket, ret, mDisconnected>> /\ pc' # "callback" /\ IdleWork
    BY <1>10 DEF PollData, PollTimeout, WhileTask, Polled, Goto, tcpVars, IdleWork
  <2> QED BY <1>2, <1>5, <2>1
<1>11. CASE PollThrows
  <2>1. mSocket # "none" /\ mSocket' # "none"
    BY <1>11 DEF PollThrows, blockUntilDataAvailable, isDataAvailable, tcpVars
  <2> QED BY <1>1, <1>11, <2>1, CatchSocket DEF PollThrows
<1>12. CASE WhileDone
  BY <1>2, <1>12 DEF WhileDone, Return, taskVars, tcpVars
<1>13. CASE RunTask
  BY <1>1, <1>13, SocketTasks
<1>14. CASE DelayElapses
  BY <1>2, <1>14 DEF DelayElapses, loopVars, tcpVars
<1>15. CASE Network /\ UNCHANGED clientVars
  <2>1. mSocket' = "none" <=> mSocket = "none"
    BY <1>15 DEF Network, Establish, Refuse, PeerCloses, Reset, Arrive, Tick
  <2> QED BY <1>2, <1>15, <2>1 DEF clientVars, taskVars, loopVars
<1>16. CASE BrokerStep /\ UNCHANGED clientVars
  <2>1. UNCHANGED mSocket
    BY <1>16 DEF BrokerStep, Take, TakeRequest, TakePublish, TakeDisconnect,
                 SendPublish
  <2> QED BY <1>2, <1>16, <2>1 DEF clientVars, taskVars, loopVars
<1> QED BY <1>3, <1>6, <1>7, <1>8, <1>9, <1>10, <1>11, <1>12, <1>13, <1>14, <1>15,
           <1>16 DEF Next, Loop

-----------------------------------------------------------------------------
(* The theorems. *)

LEMMA InitSafe == Init => SafetyInv
<1> SUFFICES ASSUME Init PROVE SafetyInv
  OBVIOUS
<1>1. /\ mTaskQueue = ConnectTasks /\ mSocket = "none" /\ ~mDisconnected
      /\ pc = "out" /\ ret = "none"
  BY DEF Init, ClientInit, TcpInit
<1>2. /\ ConnectTasks # <<>> /\ Head(ConnectTasks).kind = "tcpConnect"
      /\ \A i \in DOMAIN ConnectTasks : ConnectTasks[i].kind \notin Receiving
  BY DEF ConnectTasks, MakeTask, Receiving
<1> QED BY <1>1, <1>2
        DEF SafetyInv, QueueHasTask, OneReceiver, ReceiversDropped, NoSocketNoWork,
            CallbackHasSocket, DisconnectIsFinal, Incomplete, Reconnects

LEMMA StepSafe ==
    ASSUME TypeInv, TypeInv', SafetyInv, [Next]_vars
    PROVE  SafetyInv'
<1>1. CASE Next
  BY <1>1, ReceiversStep, SocketStep DEF SafetyInv, TypeInv
<1>2. CASE UNCHANGED vars
  <2>1. UNCHANGED <<mTaskQueue, mCurrentlyReceivingPacket, mDisconnected, pc, ret,
                    mSocket>>
    BY <1>2 DEF vars, clientVars, taskVars, loopVars, tcpVars
  <2> QED BY <2>1 DEF SafetyInv, QueueHasTask, OneReceiver, ReceiversDropped,
                      NoSocketNoWork, CallbackHasSocket, DisconnectIsFinal,
                      Incomplete, Reconnects, Violates, IdMatches, ntohs
<1> QED BY <1>1, <1>2

\* The inductive invariant holds in every reachable state.
THEOREM SafetyInvCorrect == Spec => []SafetyInv
<1>1. Init => SafetyInv
  BY InitSafe
<1>2. TypeInv /\ TypeInv' /\ SafetyInv /\ [Next]_vars => SafetyInv'
  BY StepSafe
<1> QED BY <1>1, <1>2, TypeInvCorrect, PTL DEF Spec

\* At most one lambda of enqueueRecvPacketFront is reading, it is the task at
\* the front, and mCurrentlyReceivingPacket is set while it reads.
THEOREM OneReceiverCorrect == Spec => []OneReceiver
<1>1. SafetyInv => OneReceiver
  BY DEF SafetyInv
<1> QED BY <1>1, SafetyInvCorrect, PTL

\* No task dereferences an empty mClient, after any sequence of faults,
\* violations, retries and calls, with any limit of retries.
THEOREM NoNullDerefCorrect == Spec => []NoNullDeref
<1>1. SafetyInv => NoNullDeref
  BY DEF SafetyInv, QueueHasTask, NoSocketNoWork, NoNullDeref, Reconnects,
         Dereferences, Incomplete, Receiving
<1> QED BY <1>1, SafetyInvCorrect, PTL

\* After disconnect() was carried out the queue stays empty and the socket
\* closed, and loop() never returns EXCEPTION_AFTER_DISCONNECT.
THEOREM DisconnectIsFinalCorrect == Spec => []DisconnectIsFinal
<1>1. SafetyInv => DisconnectIsFinal
  BY DEF SafetyInv
<1> QED BY <1>1, SafetyInvCorrect, PTL

=============================================================================
