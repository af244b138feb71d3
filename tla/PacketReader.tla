---------------------------- MODULE PacketReader ----------------------------
(***************************************************************************)
(* enqueueRecvPacketFront, byte by byte: the three lambdas that read a     *)
(* packet's type, its remaining length and its body from the stream, in    *)
(* as many calls of recv() as the network makes of it.  A call that finds  *)
(* nothing repeats the lambda and changes nothing: it is a stuttering step.*)
(*                                                                         *)
(* A packet is what the broker wrote: the bytes of its remaining length,   *)
(* and contents this module does not look at.  The type is one byte, so a  *)
(* packet has 1 + Len(length) + Remaining bytes.                           *)
(***************************************************************************)
EXTENDS Encoding

CONSTANT Packets    \* the packets the broker may send, each of them once

ASSUME ReaderAssumption ==
    \A p \in Packets : /\ p.length \in Seq(0 .. Base - 1)
                       /\ WellFormed(p.length)

VARIABLES
    stream,         \* the packets of which bytes are still to be taken
    taken,          \* the bytes taken of the first of them
    phase,          \* the lambda at the front of the queue
    buffer,         \* the packet whose bytes are in the buffer, or none yet
    multiplier, packetLength, offset

readerVars == <<stream, taken, phase, buffer, multiplier, packetLength, offset>>

Remaining(p) == ValueOf(p.length)
Size(p) == 1 + Len(p.length) + Remaining(p)

ReaderInit ==
    /\ stream = <<>> /\ taken = 0
    /\ phase = "type" /\ buffer = <<>>
    /\ multiplier = 1 /\ packetLength = 0 /\ offset = 1

\* n bytes of the first packet are taken from the stream.
TakeBytes(n) ==
    IF taken + n = Size(Head(stream))
    THEN stream' = Tail(stream) /\ taken' = 0
    ELSE taken' = taken + n /\ UNCHANGED stream

ReadType ==
    /\ phase = "type" /\ stream # <<>>
    /\ TakeBytes(1)
    /\ phase' = "length"
    /\ buffer' = <<Head(stream)>>
    /\ multiplier' = 1 /\ packetLength' = 0
    /\ UNCHANGED offset

\* The upper bit of encodedByte.
ContinuesMutant(byte) == byte > Radix
Continues(byte) == byte >= Radix

TooLongMutant == multiplier * Radix >= Radix * Radix * Radix

\* The test made after the multiplication: the fourth byte is one too many.
TooLong == multiplier * Radix > Radix * Radix * Radix

ReadLength ==
    /\ phase = "length" /\ stream # <<>>
    /\ taken \in DOMAIN Head(stream).length
    /\ TakeBytes(1)
    /\ LET byte == Head(stream).length[taken] IN
         /\ packetLength' = packetLength + (byte % Radix) * multiplier
         /\ multiplier' = multiplier * Radix
         /\ phase' = IF TooLong THEN "malformed"
                     ELSE IF Continues(byte) THEN "length" ELSE "body"
    /\ offset' = 1
    /\ UNCHANGED buffer

\* The offset is taken off what is missing, not the bytes received.
ReadBodyMutant(n) ==
    /\ phase = "body" /\ packetLength > 0 /\ stream # <<>>
    /\ n <= packetLength /\ taken + n <= Size(Head(stream))
    /\ TakeBytes(n)
    /\ offset' = offset + n
    /\ packetLength' = packetLength - offset'
    /\ UNCHANGED <<phase, buffer, multiplier>>

\* recv() put n bytes behind those already in the buffer.
ReadBody(n) ==
    /\ phase = "body" /\ packetLength > 0 /\ stream # <<>>
    /\ n <= packetLength /\ taken + n <= Size(Head(stream))
    /\ TakeBytes(n)
    /\ offset' = offset + n
    /\ packetLength' = packetLength - n
    /\ UNCHANGED <<phase, buffer, multiplier>>

\* All data received: the lambda hands the packet on and is done.
Complete == phase = "body" /\ packetLength = 0

\* The last lambda repeats itself.
ReadNextMutant ==
    /\ phase' = "body"
    /\ UNCHANGED <<stream, taken, buffer, multiplier, packetLength, offset>>

\* The next packet is read by a new first lambda.
ReadNext == /\ phase' = "type"
            /\ UNCHANGED <<stream, taken, buffer, multiplier, packetLength, offset>>

\* A new connection: the lambdas of the old one are dropped (DELETE_ME).
ReaderReset ==
    /\ stream' = <<>> /\ taken' = 0
    /\ phase' = "type" /\ buffer' = <<>>
    /\ multiplier' = 1 /\ packetLength' = 0 /\ offset' = 1

Read == ReadType \/ ReadLength \/ \E n \in 1 .. packetLength : ReadBody(n)

\* The broker sends p behind whatever it has sent.
Arrives(p) == /\ stream' = Append(stream, p)
              /\ UNCHANGED <<taken, phase, buffer, multiplier, packetLength, offset>>

-----------------------------------------------------------------------------
(* What the reader guarantees. *)

ReaderTypeOK ==
    /\ stream \in Seq(Packets)
    /\ taken \in Nat
    /\ phase \in {"type", "length", "body", "callbacks", "malformed"}
    /\ buffer \in {<<>>} \cup {<<p>> : p \in Packets}
    /\ multiplier \in Nat /\ packetLength \in Nat /\ offset \in Nat

\* The number that the bytes from the i-th on stand for.
ValueFrom(bytes, i) ==
    LET digit(j) == IF j <= Len(bytes) THEN bytes[j] % Radix ELSE 0
    IN  CASE i = 1 -> ValueOf(bytes)
          [] i = 2 -> digit(2) + Radix * (digit(3) + Radix * digit(4))
          [] i = 3 -> digit(3) + Radix * digit(4)
          [] i = 4 -> digit(4)
          [] OTHER -> 0
Powers == <<1, Radix, Radix * Radix, Radix * Radix * Radix>>

\* A packet is read from its first byte on; the digits read and those to come
\* make its length; what is missing in the buffer is what is left of it in the
\* stream, so that the next packet is again read from its first byte, however
\* recv() cuts the bytes (cpp:299-342).
InStep ==
    /\ phase = "type" => taken = 0
    /\ phase = "length" =>
          /\ stream # <<>> /\ buffer = <<Head(stream)>>
          /\ taken \in DOMAIN Head(stream).length
          /\ multiplier = Powers[taken]
          /\ packetLength + multiplier * ValueFrom(Head(stream).length, taken)
               = Remaining(Head(stream))
    /\ phase = "body" =>
          /\ buffer # <<>>
          /\ offset + packetLength = Remaining(buffer[1]) + 1
          /\ IF packetLength = 0 THEN taken = 0
             ELSE /\ stream # <<>> /\ buffer = <<Head(stream)>>
                  /\ taken + packetLength = Size(Head(stream))
    /\ phase = "callbacks" => taken = 0 /\ buffer # <<>>

\* Only a length of four bytes is refused, not every length that MQTT allows
\* is read (cpp:322).
OnlyLongIsMalformed ==
    phase = "malformed" => Len(buffer[1].length) = 4

=============================================================================
