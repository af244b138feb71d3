------------------------------ MODULE Packets ------------------------------
(***************************************************************************)
(* The MQTT control packets the client writes and reads, reduced to what   *)
(* decides control: the type, the packet identifier, and one argument (the *)
(* message of an outgoing PUBLISH, the subscribe call of a SUBSCRIBE, the  *)
(* topic of an UNSUBSCRIBE or of an incoming PUBLISH, the verdict of an    *)
(* acknowledgement).  Lengths, flags and payload bytes are left out.       *)
(***************************************************************************)
EXTENDS Integers, Sequences

CONSTANTS
    Messages,   \* the MQTTMessage values the application publishes
    Subs,       \* the subscribe() calls: one per registered callback
    Topics,     \* topics, opaque
    TopicOf,    \* [Subs -> Topics], the topic a subscribe() call names
    Base        \* the number of values of one byte: 256 in the program

ASSUME PacketsAssumption ==
    /\ TopicOf \in [Subs -> Topics]
    /\ Base \in Nat \ {0, 1}

\* uint16_t: two bytes
PacketIds == 0 .. Base * Base - 1

\* mPacketIdentifierCounter++ on a uint16_t; the mutant does not wrap.
NextIdMutant(id) == id + 1
NextId(id) == IF id = Base * Base - 1 THEN 0 ELSE id + 1

\* ntohs/htons on a little-endian host: swap the two bytes
ntohs(id) == (id % Base) * Base + id \div Base

Requests == {"CONNECT", "SUBSCRIBE", "UNSUBSCRIBE", "PINGREQ"}
Replies == {"CONNACK", "SUBACK", "UNSUBACK", "PINGRESP"}
MessageType == Requests \cup Replies \cup {"PUBLISH", "DISCONNECT", "INVALID"}

\* CONNACK codes 1..5 are "refused"; any other non-zero code is "badCode".
\* A SUBACK with status 0x80 is "refused".
Verdicts == {"ok", "refused", "badCode"}

Packet == [type : MessageType, id : PacketIds,
           arg : Messages \cup Subs \cup Topics \cup Verdicts]

\* What the client sends: the argument is of the kind the type calls for.
Outgoing == {p \in Packet : /\ p.type = "PUBLISH" => p.arg \in Messages
                            /\ p.type = "SUBSCRIBE" => p.arg \in Subs}

MakePacket(type, id, arg) == [type |-> type, id |-> id, arg |-> arg]
NoPacket == MakePacket("INVALID", 0, "ok")

\* The packet that answers a request.
ReplyTo == [CONNECT     |-> "CONNACK",  SUBSCRIBE |-> "SUBACK",
            UNSUBSCRIBE |-> "UNSUBACK", PINGREQ   |-> "PINGRESP"]

\* The three reads enqueueRecvPacketFront makes of a packet: type byte,
\* remaining length, body.  A PINGRESP has no body.
Reads(p) == IF p.type = "PINGRESP" THEN 2 ELSE 3

=============================================================================
