------------------------------- MODULE Broker -------------------------------
(***************************************************************************)
(* The MQTT broker at the other end.  It is not part of the repository:    *)
(* this is what the client relies on, a broker that takes the packets of a *)
(* connection in order, answers each request, and sends a PUBLISH on a     *)
(* subscribed topic whenever it likes.  Its faults are those the client's  *)
(* handlers test for.                                                      *)
(***************************************************************************)
EXTENDS TcpUnix

CONSTANTS
    CleanSession,   \* the flag of the CONNECT packet
    MaxIncoming     \* bound: PUBLISH packets the broker sends

ASSUME BrokerAssumption == CleanSession \in BOOLEAN /\ MaxIncoming \in Nat

VARIABLES
    brokerSubs,   \* the topics of the session
    received,     \* the messages taken, in order
    incoming      \* number of PUBLISH packets sent

brokerVars == <<brokerSubs, received, incoming>>

BrokerTypeOK ==
    /\ brokerSubs \in SUBSET Topics
    /\ received \in Seq(Messages)
    /\ incoming \in 0 .. MaxIncoming

BrokerInit ==
    /\ brokerSubs = {}
    /\ received = <<>>
    /\ incoming = 0

\* The stream arrives in order: nothing follows a packet still arriving.
StreamFree == inbox # <<>> => LET e == inbox[Len(inbox)] IN e.got = Reads(e.pkt)

\* A packet enters the stream; some or all of it has arrived already.
Transmit(p) ==
    IF mSocket = "up"
    THEN \E n \in 1 .. Reads(p) :
            inbox' = Append(inbox, [pkt |-> p, got |-> n, read |-> 0])
    ELSE UNCHANGED inbox

\* Answers to request p that break the protocol: the wrong type, or the
\* identifier of another request.
BadReplies(p) ==
    {MakePacket(IF p.type = "CONNECT" THEN "SUBACK" ELSE "CONNACK", p.id, "ok")}
    \cup IF p.type \in {"SUBSCRIBE", "UNSUBSCRIBE"}
         THEN {MakePacket(ReplyTo[p.type], NextId(p.id), "ok")} ELSE {}

\* The broker answers request p, as it should or with one of its faults.
Reply(p, fine) ==
    \/ fine /\ UNCHANGED faults
       /\ Transmit(MakePacket(ReplyTo[p.type], p.id, "ok"))
    \/ ~fine /\ Inject("badReply")
       /\ \E reply \in BadReplies(p) : Transmit(reply)
    \/ ~fine /\ Inject("connack") /\ p.type = "CONNECT"
       /\ \E v \in {"refused", "badCode"} : Transmit(MakePacket("CONNACK", 0, v))
    \/ ~fine /\ Inject("suback") /\ p.type = "SUBSCRIBE"
       /\ Transmit(MakePacket("SUBACK", p.id, "refused"))

TakeRequest ==
    /\ outbox # <<>> /\ StreamFree
    /\ LET p == Head(outbox) IN
         /\ p.type \in Requests
         /\ \E fine \in BOOLEAN :
              /\ Reply(p, fine)
              /\ session' = (session \/ (p.type = "CONNECT" /\ fine))
              /\ brokerSubs' =
                   CASE p.type = "CONNECT" /\ fine /\ CleanSession -> {}
                     [] p.type = "SUBSCRIBE" /\ fine -> brokerSubs \cup {TopicOf[p.arg]}
                     [] p.type = "UNSUBSCRIBE"       -> brokerSubs \ {p.arg}
                     [] OTHER                        -> brokerSubs
    /\ outbox' = Tail(outbox)
    /\ UNCHANGED <<mSocket, again, sinceSend, cut, received, incoming>>

TakePublish ==
    /\ outbox # <<>>
    /\ Head(outbox).type = "PUBLISH"
    /\ received' = Append(received, Head(outbox).arg)
    /\ outbox' = Tail(outbox)
    /\ UNCHANGED <<mSocket, again, sinceSend, inbox, cut, session, faults,
                   brokerSubs, incoming>>

TakeDisconnect ==
    /\ outbox # <<>>
    /\ Head(outbox).type = "DISCONNECT"
    /\ outbox' = Tail(outbox)
    /\ session' = FALSE
    /\ UNCHANGED <<mSocket, again, sinceSend, inbox, cut, faults, brokerVars>>

SendPublish(t) ==
    /\ mSocket = "up" /\ session /\ t \in brokerSubs /\ StreamFree
    /\ incoming < MaxIncoming
    /\ incoming' = incoming + 1
    /\ Transmit(MakePacket("PUBLISH", 0, t))
    /\ UNCHANGED <<mSocket, again, sinceSend, outbox, cut, session, faults,
                   brokerSubs, received>>

Take == TakeRequest \/ TakePublish \/ TakeDisconnect
BrokerStep == Take \/ \E t \in Topics : SendPublish(t)

=============================================================================
