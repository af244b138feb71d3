----------------------------- MODULE CliInvariant -----------------------------
(***************************************************************************)
(* Why main() does what the command line says (ParseInv), and has sent its *)
(* messages when it ends (ExitInv): inductive invariants of Cli, proved in *)
(* CliProofs.                                                              *)
(***************************************************************************)
EXTENDS Cli, StreamInvariant

-----------------------------------------------------------------------------
(* The parser. *)

\* What is kept of an option that was given with these texts.
Keeps(kept, o, texts) ==
    /\ kept.count = Len(texts) /\ kept.stored = (texts # <<>>)
    /\ texts = <<>> => kept.value = <<>>
    /\ texts # <<>> =>
          /\ TypeOf[o] = "string" => kept.value = <<Last(texts)>>
          /\ TypeOf[o] = "bool" => kept.value = <<Last(texts).truth>>
          /\ TypeOf[o] = "uint16_t" /\ IsPort(Last(texts)) =>
                kept.value = <<Meant(Last(texts))>>
          /\ TypeOf[o] = "vector" => kept.value = ItemsIn(texts)

\* The first n of these sequences laid end to end.
JoinUpTo(parts, n) == FlattenSeq(SubSeq(parts, 1, n))

\* The command line is one of units.
TypedIn ==
    /\ typed \in Seq(Units) /\ typed # <<>>
    /\ \A k \in 1 .. Len(typed) - 1 : IsPiece(typed[k])
    /\ IsEnding(Last(typed))
    /\ argv = FlattenSeq(ArgsIn(typed))

\* Arguments and entries of the units before the k-th.
ArgsBefore(k) == Len(JoinUpTo(ArgsIn(typed), k - 1))
SaysBefore(k) == Len(JoinUpTo(SaysIn(typed), k - 1))

\* The first n entries have been read.
HasRead(n) == \A o \in Options : Keeps(parsed[o], o, TextsIn(SubSeq(Said, 1, n), o))

\* The parser is at the k-th unit, and has read what comes before it and the
\* letters before this one.
ReadUpTo(k) ==
    /\ current = ArgsBefore(k) + 1
    /\ letter = 1 \/ (k <= Len(typed) /\ letter \in 1 .. Len(typed[k].says))
    /\ HasRead(SaysBefore(k) + letter - 1)

Reading == /\ TypedIn /\ DOMAIN parsed = Options
           /\ \E k \in 1 .. Len(typed) + 1 : ReadUpTo(k)

\* Every option has been read, and has its default if it was not given.
DefaultIs(o) == CASE o = "H" -> Text("localhost") [] o = "P" -> 1883
                  [] OTHER -> "false"
AllKept ==
    \A o \in Options :
       IF HasDefault(o) /\ ~Says(o)
       THEN parsed[o] = [count |-> 0, stored |-> TRUE, value |-> <<DefaultIs(o)>>]
       ELSE Keeps(parsed[o], o, TextsOf(o))

ParseInv ==
    /\ phase = "parse" => Reading
    /\ phase \in {"parsed", "built"} => TypedIn /\ AllKept
    /\ ConfigAsGiven /\ MessagesAsGiven /\ SoundIsObeyed

-----------------------------------------------------------------------------
(* The end of main(). *)

\* The reply of a broker without a fault.
Fine(p) == MakePacket(ReplyTo[p.type], p.id, "ok")

\* Sorts of tasks: those a client has that only publishes, if nothing fails;
\* those that write a message (and the message m), and DISCONNECT.
PublisherTasks ==
    {task \in Task :
        /\ task.req.type \notin {"SUBSCRIBE", "UNSUBSCRIBE"}
        /\ Rank(task) = 0 => /\ task.req.type \in Requests
                             /\ \/ task.resp = Fine(task.req)
                                \/ task.resp = NoPacket /\ task.kind # "handle"}
Misfits == Task \ PublisherTasks
Publishing == {task \in Task : Rank(task) = 4 /\ task.req.type = "PUBLISH"}
Carrying(m) == {task \in Publishing : task.req.arg = m}
Leaving == {task \in Task : Rank(task) = 4 /\ task.req.type = "DISCONNECT"}

\* Sorts of packets.
MessagePackets(m) == {p \in Outgoing : p.type = "PUBLISH" /\ p.arg = m}
Calls == {p \in Outgoing : p.type \in {"SUBSCRIBE", "UNSUBSCRIBE"}}

\* Message m has arrived, or is going to.
Held(m) == \/ Has(mTaskQueue, Carrying(m))
           \/ Has(outbox, MessagePackets(m))
           \/ m \in Range(received)

-----------------------------------------------------------------------------
\* Until main calls loop() nothing has moved ...
Untouched ==
    /\ pc = "out" /\ ret = "none" /\ mSocket = "none"
    /\ inbox = <<>> /\ outbox = <<>> /\ brokerSubs = {}

\* ... and the queue holds what main has called for.
Filling ==
    /\ phase \in {"parse", "parsed", "built"} =>
          Untouched /\ mTaskQueue = ConnectTasks /\ next = 1
    /\ phase = "publish" =>
          /\ Untouched
          /\ ~Has(mTaskQueue, Misfits) /\ ~Has(mTaskQueue, Leaving)
          /\ \A n \in 1 .. next - 1 : Has(mTaskQueue, Carrying(MessageAt[n]))
    /\ disconnecting => phase \in {"loop", "exit"}
    /\ phase = "exit" => pc = "out" /\ ret \in {"EVERYTHING_DONE", "THROWN"}

\* DISCONNECT is behind every message.
LeavesLast(q) == \A i, j \in DOMAIN q :
                    i < j => ~(q[i] \in Leaving /\ q[j] \in Publishing)

\* While nothing has failed the client goes on towards its DISCONNECT, and what
\* comes in is the reply it waits for.
Undisturbed ==
    /\ ~Has(mTaskQueue, Misfits) /\ LeavesLast(mTaskQueue)
    /\ mDisconnected \/ Has(mTaskQueue, Leaving)
    /\ mSocket \in {"none", "connecting", "up"}
    /\ Replacing => mSocket = "none" /\ outbox = <<>>
    /\ ~Has(outbox, Calls) /\ brokerSubs = {}
    /\ \A i \in DOMAIN inbox : /\ AwaitsReply
                               /\ inbox[i].pkt = Fine(Head(mTaskQueue).req)
    /\ pc # "poll" /\ (pc = "callback" => Head(mTaskQueue).kind = "handle")
    /\ \/ ret \in {"none", "TIMEOUT"}
       \/ ret = "EVERYTHING_DONE" /\ mDisconnected
    /\ \A n \in 1 .. calls : Held(MessageAt[n])

ExitInv == Filling /\ (disconnecting /\ faults = 0 => Undisturbed)

=============================================================================
