-------------------------- MODULE StreamInvariant --------------------------
(***************************************************************************)
(* Why the two streams of a connection stay in order (Framing,             *)
(* ConnectFirst, StreamInSync, ReplyIsAwaited): an inductive invariant of  *)
(* MQTTSystem, proved in StreamProofs.                                     *)
(***************************************************************************)
EXTENDS MQTTSystem

\* The order of the tasks: those of a packet being received, those of a new
\* connection as connectMqtt lists them, and whatever else is to be written.
Rank(task) ==
    CASE task.kind \in Receiving \cup {"handle"} -> 0
      [] task.kind = "tcpConnect"                -> 1
      [] task.kind = "checkConnect"              -> 2
      [] task.kind \in {"prepare", "send"} /\ task.req.type = "CONNECT" -> 3
      [] task.kind \in {"prepare", "send"} /\ task.req.type # "CONNECT" -> 4

Accepts(p) == p.type = "CONNACK" /\ p.arg \notin {"refused", "badCode"}

\* Sorts of tasks: what opens a connection, what is done on it before anything
\* has been written, what has to do with CONNECT, the rests of packets (and those
\* of another packet than p), an accepted CONNACK, and the receivers of CONNACK
\* that have a message in hand or nothing yet.
Openers == {task \in Task : Rank(task) = 1}
Firsts == {task \in Task : Rank(task) = 3}
News == {task \in Task : Rank(task) \in {2, 3}}
Joiners == {task \in Task : task.req.type = "CONNECT"}
Rests == {task \in Task : task.rest}
RestsNotOf(p) == {task \in Rests : task.req # p}
Accepted == {task \in Task : Rank(task) = 0 /\ Accepts(task.resp)}
Connacks == {task \in Joiners : task.kind \in Receiving}
Messaged == {task \in Connacks : task.resp.type = "PUBLISH"}
Unanswered == {task \in Connacks : task.resp = NoPacket}

\* Sorts of packets on their way.
Farewells == {p \in Outgoing : p.type = "DISCONNECT"}
NotFirst == {p \in Outgoing : p.type # "CONNECT"}
Asked == {p \in Outgoing : p.type \in Requests}
Strays == {e \in InFlight : e.pkt.type \notin Replies \cup {"PUBLISH"}}
Granted == {e \in InFlight : e.pkt.type = "PUBLISH" \/ Accepts(e.pkt)}
Answers == {e \in InFlight : e.pkt.type \in Replies}

-----------------------------------------------------------------------------
(* The queue. *)

\* Only what is still to be written survives a reconnect, and of that no rest.
FitTask(task) == /\ task.keep => Rank(task) = 4
                 /\ task.rest => task.kind = "send" /\ ~task.keep
                 /\ task.kind = "handle" => task.req # NoPacket
                 /\ Rank(task) \in {1, 2} => task.req = NoPacket

\* Task a may be in front of task b.  One reply is awaited at most, and the rest
\* of a packet is behind nothing but the receivers of packets nobody asked for.
Before(a, b) == /\ Rank(a) <= Rank(b)
                /\ Rank(a) = Rank(b) => Rank(a) \in {0, 4}
                /\ Rank(b) = 0 => a.req = NoPacket \/ b.req = NoPacket
                /\ b.rest => Rank(a) = 0 /\ a.req = NoPacket

Ordered(q) == /\ \A i \in DOMAIN q : FitTask(q[i])
              /\ \A i, j \in DOMAIN q : i < j => Before(q[i], q[j])

\* The connection is to be replaced.
Replacing == Has(mTaskQueue, Openers)

\* cut is what the rest in the queue, if any, is the rest of.
CutIsQueued == /\ ~Has(mTaskQueue, RestsNotOf(cut))
               /\ cut # NoPacket /\ ~Replacing => Has(mTaskQueue, Rests)

\* A connection starts with CONNECT, and nothing moves before.
NewConnection ==
    /\ Replacing => Has(mTaskQueue, Firsts)
    /\ Has(mTaskQueue, News) /\ ~Replacing =>
          /\ Rank(Head(mTaskQueue)) # 0
          /\ inbox = <<>> /\ outbox = <<>> /\ ~session

\* Until the client has seen that the broker accepted it, it is joining.
JoinsFirst == ~Replacing /\ ~Has(mTaskQueue, Joiners) =>
                 /\ mSocket # "none" => session
                 /\ mTries = 0

-----------------------------------------------------------------------------
(* The streams. *)

\* What is on its way was sent in a session, and what moves is read in order.
InSession ==
    /\ mSocket = "none" => inbox = <<>>
    /\ outbox # <<>> => mSocket \in {"up", "none"}
    /\ Has(outbox, Farewells) => mDisconnected
    /\ Has(outbox, NotFirst) /\ mSocket # "none" => session
    /\ ~Has(inbox, Strays)
    /\ Has(inbox, Granted) => session

\* So was what has been received.
AcceptedInSession == Has(mTaskQueue, Accepted) => session

\* No packet is read before the one in front of it, nor beyond its end.
ReadInOrder ==
    \A i \in DOMAIN inbox : /\ inbox[i].read < Reads(inbox[i].pkt)
                            /\ i # 1 => inbox[i].read = 0

\* The receiver's place in the stream.
InSync == ~Replacing => Reader = IF inbox = <<>> THEN 0 ELSE Head(inbox).read

\* What the callbacks run for.
CallbackRuns ==
    pc = "callback" =>
        \/ /\ Head(mTaskQueue).kind = "handle"
           /\ Accepts(Head(mTaskQueue).resp)
           /\ ~Violates(Head(mTaskQueue).req, Head(mTaskQueue).resp)
           /\ mTries = 0
        \/ /\ Head(mTaskQueue).kind = "recvBody"
           /\ Head(mTaskQueue).resp.type = "PUBLISH"

\* CONNACK comes before any message.
ConnackFirst ==
    ~Replacing =>
        /\ ~Has(mTaskQueue, Messaged)
        /\ Has(mTaskQueue, Unanswered) =>
              IF inbox = <<>> THEN ~session ELSE Head(inbox).pkt.type # "PUBLISH"

\* One request is on its way, or its reply is, or none ...
LockStep == /\ Sole(outbox, Asked) /\ Sole(inbox, Answers)
            /\ ~(Has(outbox, Asked) /\ Has(inbox, Answers))

\* ... and the first task will take it.
WillTake == /\ AwaitsReply
            /\ Head(mTaskQueue).resp = NoPacket \/ Head(mTaskQueue).resp.type = "PUBLISH"
            /\ mCurrentlyReceivingPacket \/ pc = "callback"
Awaited ==
    ~Replacing =>
        /\ LockStep
        /\ Has(outbox, Asked) => /\ WillTake
                                 /\ ~Has(outbox, Asked \ {Head(mTaskQueue).req})
        /\ Has(inbox, Answers) => WillTake

StreamInv ==
    /\ Ordered(mTaskQueue) /\ CutIsQueued /\ NewConnection /\ JoinsFirst
    /\ InSession /\ AcceptedInSession /\ ReadInOrder /\ InSync
    /\ CallbackRuns /\ ConnackFirst
    /\ MaxRetries # 0 => Awaited

=============================================================================
