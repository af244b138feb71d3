----------------------------- MODULE WireProofs -----------------------------
(***************************************************************************)
(* From the bytes to the callbacks.  The reader stays in step with the     *)
(* stream, for every size of a byte, all lengths and every way of cutting  *)
(* the stream; doesTopicMatchPattern agrees with the definition of MQTT;   *)
(* the tables and the callbacks that run are the right ones; messages are  *)
(* handled as AtMostOnce says, for any topics, filters, callbacks and      *)
(* messages; and the CONNECT packet carries the configuration.             *)
(***************************************************************************)
EXTENDS Wire, PositionLemmas, SequenceTheorems

-----------------------------------------------------------------------------
(* The reader. *)

LEMMA RadixType == Radix \in Nat \ {0, 1}
BY EncodingAssumption DEF Radix

LEMMA DigitType ==
    ASSUME NEW x \in Nat
    PROVE  x % Radix \in Nat
<1>1. Radix \in Nat /\ Radix > 0
  BY RadixType
<1> QED BY <1>1

LEMMA ProductType ==
    ASSUME NEW a \in Nat, NEW b \in Nat
    PROVE  a * b \in Nat
OBVIOUS

\* The digits of a remaining length.
DigitAt(bytes, j) == IF j <= Len(bytes) THEN bytes[j] % Radix ELSE 0

LEMMA DigitsType ==
    ASSUME NEW bytes \in Seq(0 .. Base - 1), NEW j \in Nat \ {0}
    PROVE  DigitAt(bytes, j) \in Nat
<1>1. CASE j <= Len(bytes)
  <2>1. bytes[j] \in 0 .. Base - 1
    <3>1. j \in 1 .. Len(bytes)
      BY <1>1
    <3> QED BY <3>1, ElementOfSeq
  <2>2. bytes[j] \in Nat
    BY <2>1, EncodingAssumption
  <2> QED BY <1>1, <2>2, DigitType DEF DigitAt
<1>2. CASE ~ (j <= Len(bytes))
  BY <1>2 DEF DigitAt
<1> QED BY <1>1, <1>2

\* What the bytes from one position on stand for is its digit and Radix times
\* what the bytes behind it stand for.
LEMMA ValueStep ==
    ASSUME NEW bytes \in Seq(0 .. Base - 1), WellFormed(bytes)
    PROVE  /\ \A i \in 1 .. 5 : ValueFrom(bytes, i) \in Nat
           /\ \A i \in 1 .. 4 : ValueFrom(bytes, i) =
                 DigitAt(bytes, i) + Radix * ValueFrom(bytes, i + 1)
           /\ ValueFrom(bytes, 1) = ValueOf(bytes)
           /\ ValueFrom(bytes, Len(bytes) + 1) = 0
<1> DEFINE d1 == DigitAt(bytes, 1)
           d2 == DigitAt(bytes, 2)
           d3 == DigitAt(bytes, 3)
           d4 == DigitAt(bytes, 4)
<1>1. d1 \in Nat /\ d2 \in Nat /\ d3 \in Nat /\ d4 \in Nat /\ Radix \in Nat
  BY DigitsType, RadixType
<1>2. /\ ValueFrom(bytes, 1) = d1 + Radix * (d2 + Radix * (d3 + Radix * d4))
      /\ ValueFrom(bytes, 2) = d2 + Radix * (d3 + Radix * d4)
      /\ ValueFrom(bytes, 3) = d3 + Radix * d4
      /\ ValueFrom(bytes, 4) = d4
      /\ ValueFrom(bytes, 5) = 0
      /\ ValueFrom(bytes, 1) = ValueOf(bytes)
  BY DEF ValueFrom, ValueOf, DigitAt
<1>3. Len(bytes) \in 1 .. 4
  BY DEF WellFormed
<1>4. \A j \in 2 .. 4 : j > Len(bytes) => DigitAt(bytes, j) = 0
  BY <1>3 DEF DigitAt
<1>5. Radix * 0 = 0
  BY <1>1
<1> HIDE DEF d1, d2, d3, d4
<1>6. \A i \in 1 .. 5 : ValueFrom(bytes, i) \in Nat
  <2>1. ValueFrom(bytes, 4) \in Nat /\ ValueFrom(bytes, 5) \in Nat
    BY <1>1, <1>2
  <2>2. ValueFrom(bytes, 3) \in Nat
    BY <1>1, <1>2, ProductType
  <2>3. ValueFrom(bytes, 2) = d2 + Radix * ValueFrom(bytes, 3)
    BY <1>2
  <2>4. ValueFrom(bytes, 2) \in Nat
    BY <1>1, <2>2, <2>3, ProductType
  <2>5. ValueFrom(bytes, 1) = d1 + Radix * ValueFrom(bytes, 2)
    BY <1>2
  <2>6. ValueFrom(bytes, 1) \in Nat
    BY <1>1, <2>4, <2>5, ProductType
  <2>7. \A i \in 1 .. 5 : i = 1 \/ i = 2 \/ i = 3 \/ i = 4 \/ i = 5
    OBVIOUS
  <2> QED BY <2>1, <2>2, <2>4, <2>6, <2>7
<1>7. \A i \in 1 .. 4 : ValueFrom(bytes, i) =
         DigitAt(bytes, i) + Radix * ValueFrom(bytes, i + 1)
  <2>1. ValueFrom(bytes, 1) = d1 + Radix * ValueFrom(bytes, 2)
    BY <1>2
  <2>2. ValueFrom(bytes, 2) = d2 + Radix * ValueFrom(bytes, 3)
    BY <1>2
  <2>3. ValueFrom(bytes, 3) = d3 + Radix * ValueFrom(bytes, 4)
    BY <1>2
  <2>4. ValueFrom(bytes, 4) = d4 + Radix * ValueFrom(bytes, 5)
    BY <1>1, <1>2, <1>5
  <2>5. \A i \in 1 .. 4 : i = 1 \/ i = 2 \/ i = 3 \/ i = 4
    OBVIOUS
  <2> QED BY <2>1, <2>2, <2>3, <2>4, <2>5 DEF d1, d2, d3, d4
<1>8. ValueFrom(bytes, Len(bytes) + 1) = 0
  <2>1. CASE Len(bytes) = 4
    BY <2>1, <1>2
  <2>2. CASE Len(bytes) = 3
    BY <2>2, <1>2, <1>4 DEF d4
  <2>3. CASE Len(bytes) = 2
    BY <2>3, <1>2, <1>4, <1>5 DEF d3, d4
  <2>4. CASE Len(bytes) = 1
    BY <2>4, <1>2, <1>4, <1>5 DEF d2, d3, d4
  <2> QED BY <1>3, <2>1, <2>2, <2>3, <2>4
<1> QED BY <1>2, <1>6, <1>7, <1>8

\* The size of a packet of l length bytes and r further ones.
LEMMA SizeType ==
    ASSUME NEW l \in 1 .. 4, NEW r \in Nat
    PROVE  1 + l + r \in Nat /\ 1 + l + r >= 2
OBVIOUS

LEMMA PacketFacts ==
    ASSUME NEW p \in Packets
    PROVE  /\ p.length \in Seq(0 .. Base - 1) /\ WellFormed(p.length)
           /\ Len(p.length) \in 1 .. 4
           /\ Remaining(p) \in Nat
           /\ Size(p) = 1 + Len(p.length) + Remaining(p)
           /\ Size(p) \in Nat /\ Size(p) >= 2
<1>1. p.length \in Seq(0 .. Base - 1) /\ WellFormed(p.length)
  BY ReaderAssumption
<1>2. Remaining(p) \in Nat
  <2>1. ValueFrom(p.length, 1) \in Nat /\ ValueFrom(p.length, 1) = ValueOf(p.length)
    BY <1>1, ValueStep
  <2> QED BY <2>1 DEF Remaining
<1>3. Len(p.length) \in 1 .. 4 /\ Size(p) = 1 + Len(p.length) + Remaining(p)
  BY <1>1 DEF WellFormed, Size
<1>4. /\ 1 + Len(p.length) + Remaining(p) \in Nat
      /\ 1 + Len(p.length) + Remaining(p) >= 2
  BY <1>2, <1>3, SizeType
<1>5. Size(p) \in Nat /\ Size(p) >= 2
  BY <1>3, <1>4
<1> QED BY <1>1, <1>2, <1>3, <1>5

ReaderInv == ReaderTypeOK /\ InStep

LEMMA HeadOfStream ==
    ASSUME ReaderTypeOK, stream # <<>>
    PROVE  /\ Head(stream) \in Packets
           /\ Tail(stream) \in Seq(Packets)
           /\ \A p \in Packets : /\ Append(stream, p) \in Seq(Packets)
                                 /\ Append(stream, p) # <<>>
                                 /\ Head(Append(stream, p)) = Head(stream)
BY DEF ReaderTypeOK

LEMMA InitInv == ASSUME Init PROVE ReaderInv
<1>1. ReaderInit
  BY DEF Init, IncomingInit
<1> QED BY <1>1 DEF ReaderInit, ReaderInv, ReaderTypeOK, InStep

LEMMA KeepsInv ==
    ASSUME ReaderInv, UNCHANGED readerVars
    PROVE  ReaderInv'
BY DEF readerVars, ReaderInv, ReaderTypeOK, InStep

LEMMA ArrivesInv ==
    ASSUME ReaderInv, NEW p \in Packets, Arrives(p)
    PROVE  ReaderInv'
<1>1. CASE stream = <<>>
  <2>1. stream' \in Seq(Packets) /\ stream' # <<>>
    BY <1>1 DEF Arrives, ReaderInv, ReaderTypeOK
  <2> QED BY <1>1, <2>1 DEF Arrives, ReaderInv, ReaderTypeOK, InStep
<1>2. CASE stream # <<>>
  <2>1. /\ stream' \in Seq(Packets) /\ stream' # <<>>
        /\ Head(stream') = Head(stream)
    BY <1>2, HeadOfStream DEF Arrives, ReaderInv
  <2> QED BY <1>2, <2>1 DEF Arrives, ReaderInv, ReaderTypeOK, InStep
<1> QED BY <1>1, <1>2

LEMMA ResetInv ==
    ASSUME ReaderReset
    PROVE  ReaderInv'
BY DEF ReaderReset, ReaderInv, ReaderTypeOK, InStep

LEMMA ReadTypeInv ==
    ASSUME ReaderInv, ReadType
    PROVE  ReaderInv'
<1> DEFINE p == Head(stream)
<1>1. phase = "type" /\ stream # <<>> /\ taken = 0 /\ stream \in Seq(Packets)
  BY DEF ReadType, ReaderInv, ReaderTypeOK, InStep
<1>2. p \in Packets
  BY <1>1, HeadOfStream DEF ReaderInv
<1>3. /\ p.length \in Seq(0 .. Base - 1) /\ WellFormed(p.length)
      /\ Len(p.length) \in 1 .. 4 /\ Remaining(p) \in Nat
      /\ Size(p) \in Nat /\ Size(p) >= 2
  BY <1>2, PacketFacts
<1>4. taken + 1 # Size(p)
  BY <1>1, <1>3
<1>5. stream' = stream /\ taken' = 1
  BY <1>1, <1>4 DEF ReadType, TakeBytes
<1>6. /\ phase' = "length" /\ buffer' = <<p>> /\ multiplier' = 1
      /\ packetLength' = 0 /\ offset' = offset
  BY DEF ReadType
<1>7. ReaderTypeOK'
  BY <1>1, <1>2, <1>5, <1>6 DEF ReaderInv, ReaderTypeOK
<1>8. ValueFrom(p.length, 1) = Remaining(p) /\ Remaining(p) \in Nat
  BY <1>3, ValueStep DEF Remaining
<1>9. 1 \in DOMAIN p.length
  BY <1>3
<1>10. Powers[1] = 1
  BY DEF Powers
<1>11. 0 + 1 * ValueFrom(p.length, 1) = Remaining(p)
  BY <1>8
<1>12. InStep'
  <2> HIDE DEF p
  <2> QED BY <1>1, <1>5, <1>6, <1>9, <1>10, <1>11 DEF InStep, p
<1> QED BY <1>7, <1>12 DEF ReaderInv

LEMMA ReadBodyInv ==
    ASSUME ReaderInv, NEW n \in 1 .. packetLength, ReadBody(n)
    PROVE  ReaderInv'
<1> DEFINE p == Head(stream)
<1>1. /\ phase = "body" /\ packetLength \in Nat /\ packetLength > 0
      /\ stream # <<>> /\ buffer = <<p>> /\ taken \in Nat /\ offset \in Nat
      /\ taken + packetLength = Size(p)
      /\ offset + packetLength = Remaining(p) + 1
      /\ stream \in Seq(Packets)
  BY DEF ReadBody, ReaderInv, ReaderTypeOK, InStep
<1>2. p \in Packets /\ Tail(stream) \in Seq(Packets)
  BY <1>1, HeadOfStream DEF ReaderInv
<1>3. Remaining(p) \in Nat /\ Size(p) \in Nat
  BY <1>2, PacketFacts
<1>4. /\ phase' = "body" /\ buffer' = <<p>> /\ multiplier' = multiplier
      /\ packetLength' = packetLength - n /\ offset' = offset + n
  BY <1>1 DEF ReadBody
<1>5. TakeBytes(n)
  BY DEF ReadBody
<1> HIDE DEF p
<1>6. n \in Nat /\ n <= packetLength
  BY <1>1
<1>7. CASE n = packetLength
  <2>1. taken + n = Size(p) /\ packetLength' = 0
    BY <1>1, <1>4, <1>7
  <2>2. stream' = Tail(stream) /\ taken' = 0
    BY <1>5, <2>1 DEF TakeBytes, p
  <2>3. offset' + packetLength' = Remaining(p) + 1 /\ offset' \in Nat
    BY <1>1, <1>4, <1>6, <1>7, <2>1
  <2> QED BY <1>2, <1>4, <2>1, <2>2, <2>3 DEF ReaderInv, ReaderTypeOK, InStep
<1>8. CASE n # packetLength
  <2>1. taken + n # Size(p) /\ packetLength' \in Nat /\ packetLength' # 0
    BY <1>1, <1>3, <1>4, <1>6, <1>8
  <2>2. stream' = stream /\ taken' = taken + n
    BY <1>5, <2>1 DEF TakeBytes, p
  <2>3. /\ offset' + packetLength' = Remaining(p) + 1 /\ offset' \in Nat
        /\ taken' + packetLength' = Size(p) /\ taken' \in Nat
    BY <1>1, <1>3, <1>4, <1>6, <2>2
  <2> QED BY <1>1, <1>2, <1>4, <2>1, <2>2, <2>3
          DEF ReaderInv, ReaderTypeOK, InStep, p
<1> QED BY <1>7, <1>8

\* The four powers, and what stands for a digit of weight 1, Radix, ...
LEMMA PowerStep ==
    ASSUME NEW k \in 1 .. 4
    PROVE  /\ Powers[k] \in Nat
           /\ k < 4 => Powers[k] * Radix = Powers[k + 1]
           /\ ~ (k < 4) <=> Powers[k] * Radix > Radix * Radix * Radix
<1>1. Radix \in Nat /\ Radix > 1
  BY RadixType
<1>2. Radix * Radix \in Nat /\ Radix * Radix >= 2 * Radix
  BY <1>1
<1>3. Radix * Radix * Radix \in Nat /\ Radix * Radix * Radix >= 2 * (Radix * Radix)
  BY <1>1, <1>2
<1>4. /\ Radix * Radix * Radix * Radix \in Nat
      /\ Radix * Radix * Radix * Radix >= 2 * (Radix * Radix * Radix)
  BY <1>1, <1>3
<1>5. /\ Powers[1] = 1 /\ Powers[2] = Radix /\ Powers[3] = Radix * Radix
      /\ Powers[4] = Radix * Radix * Radix
  BY DEF Powers
<1>6. 1 * Radix = Radix
  BY <1>1
<1>7. k = 1 \/ k = 2 \/ k = 3 \/ k = 4
  OBVIOUS
<1>8. ~ (Radix > Radix * Radix * Radix)
  BY <1>1, <1>2, <1>3
<1>9. ~ (Radix * Radix > Radix * Radix * Radix)
  BY <1>1, <1>2, <1>3
<1>10. ~ (Radix * Radix * Radix > Radix * Radix * Radix)
  BY <1>3
<1>11. Radix * Radix * Radix * Radix > Radix * Radix * Radix
  BY <1>1, <1>2, <1>3, <1>4
<1>12. CASE k = 1
  BY <1>1, <1>5, <1>6, <1>8, <1>12
<1>13. CASE k = 2
  BY <1>1, <1>5, <1>9, <1>13
<1>14. CASE k = 3
  BY <1>2, <1>5, <1>10, <1>14
<1>15. CASE k = 4
  BY <1>3, <1>5, <1>11, <1>15
<1> QED BY <1>7, <1>12, <1>13, <1>14, <1>15

\* Reading a digit d of weight m leaves the same number to read.
LEMMA ReadDigit ==
    ASSUME NEW m \in Nat, NEW d \in Nat, NEW v \in Nat, NEW len \in Nat,
           NEW total \in Nat, len + m * (d + Radix * v) = total
    PROVE  (len + d * m) + (m * Radix) * v = total
<1>1. Radix \in Nat
  BY RadixType
<1>2. m * (d + Radix * v) = d * m + (m * Radix) * v
  BY <1>1
<1> QED BY <1>1, <1>2

LEMMA LessThanFour ==
    ASSUME NEW i \in Nat, NEW n \in 1 .. 4, i < n
    PROVE  i < 4
OBVIOUS

LEMMA ReadLengthInv ==
    ASSUME ReaderInv, ReadLength
    PROVE  ReaderInv'
<1> DEFINE p == Head(stream)
           k == taken
           byte == p.length[k]
           v == ValueFrom(p.length, k + 1)
<1>1. /\ phase = "length" /\ stream # <<>> /\ stream \in Seq(Packets)
      /\ buffer = <<p>> /\ taken \in DOMAIN p.length
      /\ multiplier = Powers[taken] /\ packetLength \in Nat
      /\ packetLength + multiplier * ValueFrom(p.length, taken) = Remaining(p)
  BY DEF ReadLength, ReaderInv, ReaderTypeOK, InStep
<1>2. p \in Packets /\ Tail(stream) \in Seq(Packets)
  BY <1>1, HeadOfStream DEF ReaderInv
<1>3. /\ p.length \in Seq(0 .. Base - 1) /\ WellFormed(p.length)
      /\ Len(p.length) \in 1 .. 4 /\ Remaining(p) \in Nat
      /\ Size(p) = 1 + Len(p.length) + Remaining(p)
  BY <1>2, PacketFacts
<1>4. TakeBytes(1)
  BY DEF ReadLength
<1>17. /\ packetLength' = packetLength + (byte % Radix) * multiplier
       /\ multiplier' = multiplier * Radix
  BY DEF ReadLength
<1>18. phase' = IF TooLong THEN "malformed"
                ELSE IF Continues(byte) THEN "length" ELSE "body"
  BY DEF ReadLength
<1>19. buffer' = buffer /\ offset' = 1
  BY DEF ReadLength
<1> HIDE DEF p
<1>5. k \in 1 .. 4 /\ k \in 1 .. Len(p.length)
  BY <1>1, <1>3
<1>6. byte \in Nat /\ byte % Radix \in Nat /\ byte % Radix = DigitAt(p.length, k)
  <2>1. byte \in 0 .. Base - 1
    BY <1>3, <1>5, ElementOfSeq
  <2>2. byte \in Nat
    BY <2>1, EncodingAssumption
  <2>3. k <= Len(p.length)
    BY <1>5
  <2>4. byte % Radix = DigitAt(p.length, k)
    BY <2>3 DEF DigitAt
  <2>5. byte % Radix \in Nat
    BY <2>2, DigitType
  <2> QED BY <2>2, <2>4, <2>5
<1>7. /\ v \in Nat
      /\ ValueFrom(p.length, k) = DigitAt(p.length, k) + Radix * v
      /\ ValueFrom(p.length, Len(p.length) + 1) = 0
  BY <1>3, <1>5, ValueStep
<1>8. /\ multiplier \in Nat
      /\ k < 4 => multiplier * Radix = Powers[k + 1]
      /\ ~ (k < 4) <=> TooLong
  BY <1>1, <1>5, PowerStep DEF TooLong
<1>9. Continues(byte) <=> k < Len(p.length)
  BY <1>3, <1>5 DEF WellFormed, Continues
<1>10. packetLength' + multiplier' * v = Remaining(p)
  <2> DEFINE d == DigitAt(p.length, k)
             total == Remaining(p)
  <2>1. packetLength + multiplier * (d + Radix * v) = total
    BY <1>1, <1>7
  <2>2. /\ d \in Nat /\ total \in Nat /\ v \in Nat
        /\ packetLength \in Nat /\ multiplier \in Nat
    BY <1>1, <1>3, <1>6, <1>7, <1>8
  <2>4. packetLength' = packetLength + d * multiplier
    BY <1>6, <1>17
  <2> HIDE DEF byte, v, d, total
  <2>3. (packetLength + d * multiplier) + (multiplier * Radix) * v = total
    BY <2>1, <2>2, ReadDigit
  <2> QED BY <1>17, <2>3, <2>4 DEF total
<1>11. packetLength' \in Nat /\ multiplier' \in Nat /\ offset' \in Nat
  <2>1. (byte % Radix) * multiplier \in Nat /\ multiplier * Radix \in Nat
    BY <1>6, <1>8, RadixType, ProductType
  <2> HIDE DEF byte
  <2> QED BY <1>1, <1>17, <1>19, <2>1
<1>12. stream' \in Seq(Packets) /\ taken' \in Nat
  <2>1. taken \in Nat
    BY <1>5
  <2>2. CASE taken + 1 = Size(Head(stream))
    BY <1>2, <1>4, <2>2 DEF TakeBytes
  <2>3. CASE taken + 1 # Size(Head(stream))
    BY <1>1, <1>4, <2>1, <2>3 DEF TakeBytes
  <2> QED BY <2>2, <2>3
<1>13. ReaderTypeOK'
  BY <1>1, <1>2, <1>11, <1>12, <1>18, <1>19 DEF ReaderTypeOK
<1> HIDE DEF v, byte
<1>14. CASE k < Len(p.length)
  <2>1. taken + 1 # Size(p) /\ taken + 1 \in 1 .. Len(p.length)
    BY <1>3, <1>5, <1>14
  <2>2. stream' = stream /\ taken' = taken + 1
    BY <1>4, <2>1 DEF TakeBytes, p
  <2>3. k < 4
    <3>1. Len(p.length) \in 1 .. 4
      BY <1>3
    <3>2. k \in Nat
      BY <1>5
    <3> QED BY <3>1, <3>2, <1>14, LessThanFour
  <2>4. phase' = "length" /\ multiplier' = Powers[taken']
    BY <1>8, <1>9, <1>14, <1>17, <1>18, <2>2, <2>3
  <2>5. taken' \in DOMAIN p.length
    BY <1>3, <2>1, <2>2
  <2>6. packetLength' + multiplier' * ValueFrom(p.length, taken') = Remaining(p)
    BY <1>10, <2>2 DEF v
  <2>7. InStep'
    BY <1>1, <1>19, <2>2, <2>4, <2>5, <2>6 DEF InStep, p
  <2> QED BY <1>13, <2>7 DEF ReaderInv
<1>15. CASE k = Len(p.length)
  <2>1. v = 0
    BY <1>7, <1>15 DEF v
  <2>2. packetLength' = Remaining(p)
    BY <1>10, <1>11, <2>1
  <2>3. CASE TooLong
    BY <1>13, <1>18, <2>3 DEF ReaderInv, InStep
  <2>4. CASE ~TooLong
    <3>1. phase' = "body"
      BY <1>5, <1>9, <1>15, <1>18, <2>4
    <3>2. CASE Remaining(p) = 0
      <4>1. taken' = 0
        BY <1>3, <1>4, <1>15, <3>2 DEF TakeBytes, p
      <4> QED BY <1>1, <1>3, <1>13, <1>19, <2>2, <3>1, <3>2, <4>1
              DEF ReaderInv, InStep
    <3>3. CASE Remaining(p) # 0
      <4>1. taken + 1 # Size(p)
        BY <1>3, <1>5, <1>15, <3>3
      <4>2. stream' = stream /\ taken' = taken + 1
        BY <1>4, <4>1 DEF TakeBytes, p
      <4>3. taken' + packetLength' = Size(p)
        BY <1>3, <1>15, <2>2, <4>2
      <4>4. offset' + packetLength' = Remaining(p) + 1
        BY <1>3, <1>19, <2>2
      <4> QED BY <1>1, <1>13, <1>19, <2>2, <3>1, <3>3, <4>2, <4>3, <4>4
              DEF ReaderInv, InStep, p
    <3> QED BY <3>2, <3>3
  <2> QED BY <2>3, <2>4
<1>16. k < Len(p.length) \/ k = Len(p.length)
  BY <1>3, <1>5
<1> QED BY <1>14, <1>15, <1>16

-----------------------------------------------------------------------------
(* The steps of Wire, as steps of the reader. *)

LEMMA FourOfFour ==
    ASSUME NEW i \in 1 .. 4, NEW n \in 1 .. 4, i <= n, ~ (i < 4)
    PROVE  n = 4
OBVIOUS

\* Only the fourth byte of a length is one too many.
LEMMA FourthIsTooLong ==
    ASSUME ReaderInv, ReadLength, TooLong
    PROVE  buffer # <<>> /\ Len(buffer[1].length) = 4
<1> DEFINE p == Head(stream)
<1>1. /\ stream # <<>> /\ buffer = <<p>> /\ taken \in DOMAIN p.length
      /\ multiplier = Powers[taken]
  BY DEF ReadLength, ReaderInv, InStep
<1>2. p \in Packets
  BY <1>1, HeadOfStream DEF ReaderInv
<1>3. p.length \in Seq(0 .. Base - 1) /\ Len(p.length) \in 1 .. 4
  BY <1>2, PacketFacts
<1> HIDE DEF p
<1>4. taken \in 1 .. 4 /\ taken <= Len(p.length)
  BY <1>1, <1>3
<1>5. ~ (taken < 4)
  BY <1>1, <1>4, PowerStep DEF TooLong
<1>6. Len(p.length) = 4
  BY <1>3, <1>4, <1>5, FourOfFour
<1> QED BY <1>1, <1>6

LEMMA HandInv ==
    ASSUME ReaderInv, handlePublishReceived
    PROVE  ReaderInv'
<1>1. /\ phase = "body" /\ packetLength = 0 /\ phase' = "callbacks"
      /\ UNCHANGED <<stream, taken, buffer, multiplier, packetLength, offset>>
  BY DEF handlePublishReceived, Complete
<1> QED BY <1>1 DEF ReaderInv, ReaderTypeOK, InStep

LEMMA NextInv ==
    ASSUME ReaderInv, phase = "callbacks", ReadNext
    PROVE  ReaderInv'
BY DEF ReadNext, ReaderInv, ReaderTypeOK, InStep

\* Every step reads, hands on, resets or leaves the reader alone.
LEMMA StepIsRead ==
    ASSUME [Next]_vars
    PROVE  \/ UNCHANGED readerVars
           \/ ReadType \/ ReadLength \/ \E n \in 1 .. packetLength : ReadBody(n)
           \/ \E p \in Packets : Arrives(p)
           \/ handlePublishReceived
           \/ phase = "callbacks" /\ ReadNext
           \/ ReaderReset
<1>1. CASE UNCHANGED vars
  BY <1>1 DEF vars, incomingVars, readerVars
<1>2. CASE UNCHANGED incomingVars
  BY <1>2 DEF incomingVars
<1>3. CASE IncomingNext
  <2>1. CASE \E h \in Handlers : subscribe(h) \/ unsubscribe(FilterOf[h])
    BY <2>1 DEF subscribe, unsubscribe
  <2>2. CASE Register
    BY <2>2 DEF Register
  <2>3. CASE \E p \in Packets : BrokerPublishes(p)
    BY <2>3 DEF BrokerPublishes
  <2>4. CASE Read
    BY <2>4 DEF Read
  <2>5. CASE handlePublishReceived
    BY <2>5
  <2>6. CASE RunCallback
    BY <2>6 DEF RunCallback
  <2>7. CASE CallbacksDone
    BY <2>7 DEF CallbacksDone
  <2>8. CASE Malformed \/ Lost
    BY <2>8 DEF Malformed, Lost, Reconnect
  <2> QED BY <1>3, <2>1, <2>2, <2>3, <2>4, <2>5, <2>6, <2>7, <2>8 DEF IncomingNext
<1> QED BY <1>1, <1>2, <1>3 DEF Next, Traffic

LEMMA ReaderStep ==
    ASSUME ReaderInv, OnlyLongIsMalformed, [Next]_vars
    PROVE  ReaderInv' /\ OnlyLongIsMalformed'
<1>1. CASE UNCHANGED readerVars
  <2>1. OnlyLongIsMalformed'
    BY <1>1 DEF readerVars, OnlyLongIsMalformed
  <2> QED BY <1>1, <2>1, KeepsInv
<1>2. CASE ReadType
  <2>1. phase' = "length"
    BY <1>2 DEF ReadType
  <2> QED BY <1>2, <2>1, ReadTypeInv DEF OnlyLongIsMalformed
<1>3. CASE ReadLength
  <2>1. buffer' = buffer /\ (phase' = "malformed" => TooLong)
    BY <1>3 DEF ReadLength
  <2>2. OnlyLongIsMalformed'
    BY <1>3, <2>1, FourthIsTooLong DEF OnlyLongIsMalformed
  <2> QED BY <1>3, <2>2, ReadLengthInv
<1>4. CASE \E n \in 1 .. packetLength : ReadBody(n)
  <2>1. PICK n \in 1 .. packetLength : ReadBody(n)
    BY <1>4
  <2>2. phase' = "body"
    BY <2>1 DEF ReadBody
  <2> QED BY <2>1, <2>2, ReadBodyInv DEF OnlyLongIsMalformed
<1>5. CASE \E p \in Packets : Arrives(p)
  <2>1. phase' = phase /\ buffer' = buffer
    BY <1>5 DEF Arrives
  <2> QED BY <1>5, <2>1, ArrivesInv DEF OnlyLongIsMalformed
<1>6. CASE handlePublishReceived
  <2>1. phase' = "callbacks"
    BY <1>6 DEF handlePublishReceived
  <2> QED BY <1>6, <2>1, HandInv DEF OnlyLongIsMalformed
<1>7. CASE phase = "callbacks" /\ ReadNext
  <2>1. phase' = "type"
    BY <1>7 DEF ReadNext
  <2> QED BY <1>7, <2>1, NextInv DEF OnlyLongIsMalformed
<1>8. CASE ReaderReset
  <2>1. phase' = "type"
    BY <1>8 DEF ReaderReset
  <2> QED BY <1>8, <2>1, ResetInv DEF OnlyLongIsMalformed
<1> QED BY <1>1, <1>2, <1>3, <1>4, <1>5, <1>6, <1>7, <1>8, StepIsRead

LEMMA ReaderAlways == Spec => [](ReaderInv /\ OnlyLongIsMalformed)
<1>1. Init => ReaderInv /\ OnlyLongIsMalformed
  <2>1. Init => phase = "type"
    BY DEF Init, IncomingInit, ReaderInit
  <2> QED BY <2>1, InitInv DEF OnlyLongIsMalformed
<1>2. ReaderInv /\ OnlyLongIsMalformed /\ [Next]_vars
        => ReaderInv' /\ OnlyLongIsMalformed'
  BY ReaderStep
<1> QED BY <1>1, <1>2, PTL DEF Spec

\* Whatever the broker sends, however the network cuts it, and however often
\* the connection is lost: each packet is read from its first byte to its last,
\* and the decoded length is the encoded one (MQTTClient.cpp:299-342).
THEOREM ReaderInStep == Spec => []InStep
<1>1. ReaderInv => InStep
  BY DEF ReaderInv
<1> QED BY <1>1, ReaderAlways, PTL

\* The limit on the remaining length refuses four bytes and nothing shorter
\* (MQTTClient.cpp:322).
THEOREM ShortIsRead == Spec => []OnlyLongIsMalformed
BY ReaderAlways, PTL

-----------------------------------------------------------------------------
(* Topics and filters. *)

\* splitStringBySlash leaves a topic without empty levels as it is.
LEMMA SplitIsIdentity ==
    ASSUME NEW Level, NEW levels \in Seq(Level), Plain(levels)
    PROVE  splitStringBySlash(levels) = levels
<1>1. NamedLevels(levels) = 1 .. Len(levels) /\ Len(levels) \in Nat
  BY DEF NamedLevels, Plain
<1>2. Cardinality(1 .. Len(levels)) = Len(levels)
  <2> DEFINE n == Len(levels)
  <2>1. n \in Int /\ 1 \in Int /\ n >= 0
    BY <1>1
  <2> HIDE DEF n
  <2>2. Cardinality(1 .. n) = IF 1 > n THEN 0 ELSE n - 1 + 1
    BY <2>1, FS_Interval
  <2>3. Cardinality(1 .. n) = n
    BY <2>1, <2>2
  <2> QED BY <2>3 DEF n
<1>3. splitStringBySlash(levels) =
        [n \in 1 .. Len(levels) |-> levels[Nth(1 .. Len(levels), n)]]
  BY <1>1, <1>2 DEF splitStringBySlash, At
<1>4. \A n \in 1 .. Len(levels) : Nth(1 .. Len(levels), n) = n
  BY <1>1, NthOfAll
<1> QED BY <1>1, <1>3, <1>4

\* No message is kept from a callback whose filter it matches: if no level but
\* the last is empty, what MQTT matches the code matches.
THEOREM MatchComplete ==
    ASSUME NEW Level, NEW topic \in Seq(Level), NEW filter \in Seq(Level),
           IsTopic(topic), IsFilter(filter), Plain(topic), Plain(filter),
           Matches(topic, filter)
    PROVE  doesTopicMatchPattern(topic, filter)
<1> DEFINE n == Len(filter)
<1>1. n \in Nat \ {0} /\ Len(topic) \in Nat
  BY DEF IsFilter
<1>2. splitStringBySlash(topic) = topic /\ splitStringBySlash(filter) = filter
  BY SplitIsIdentity
<1>3. \A i \in DOMAIN topic : topic[i] # Multi
  BY DEF IsTopic, isTopicAdvanced
<1>4. CASE filter[n] = Multi
  <2>1. Agrees(topic, filter, n - 1)
    BY <1>4 DEF Matches
  <2>2. \A i \in Stops(topic, filter) : i \in DOMAIN topic /\ i >= n
    BY <2>1, <1>1 DEF Stops, Agrees
  <2>3. n \in DOMAIN topic => n \in Stops(topic, filter)
    BY <1>3, <1>4, TopicAssumption DEF Stops
  <2>4. ASSUME NEW i \in Stops(topic, filter),
               \A j \in Stops(topic, filter) : i <= j
        PROVE  StopMatches(filter, i)
    <3>1. n \in DOMAIN topic
      BY <2>2, <1>1
    <3>2. i <= n /\ i >= n /\ i \in Nat
      BY <3>1, <2>2, <2>3, <2>4
    <3>3. i = n
      BY <3>2, <1>1
    <3> QED BY <3>3, <1>1, <1>4 DEF StopMatches
  <2> QED BY <2>4, <1>2 DEF doesTopicMatchPattern, LevelsMatch
<1>5. CASE filter[n] # Multi
  <2>1. Len(topic) = n /\ Agrees(topic, filter, n)
    BY <1>5 DEF Matches
  <2>2. Stops(topic, filter) = {}
    BY <2>1, <1>1 DEF Stops, Agrees
  <2> QED BY <2>2, <1>2 DEF doesTopicMatchPattern, LevelsMatch
<1> QED BY <1>4, <1>5

\* No callback gets a message of another topic, if the topic has at least as many
\* levels as the filter: what the code matches MQTT matches.
THEOREM MatchSound ==
    ASSUME NEW Level, NEW topic \in Seq(Level), NEW filter \in Seq(Level),
           IsTopic(topic), IsFilter(filter), Plain(topic), Plain(filter),
           Len(topic) >= Len(filter), doesTopicMatchPattern(topic, filter)
    PROVE  Matches(topic, filter)
<1> DEFINE n == Len(filter)
           S == Stops(topic, filter)
<1>1. n \in Nat \ {0} /\ Len(topic) \in Nat
  BY DEF IsFilter
<1>2. splitStringBySlash(topic) = topic /\ splitStringBySlash(filter) = filter
  BY SplitIsIdentity
<1>3. \A i \in DOMAIN topic : topic[i] # Multi
  BY DEF IsTopic, isTopicAdvanced
<1>4. CASE topic = filter
  <2>1. filter[n] # Multi
    BY <1>1, <1>3, <1>4
  <2> QED BY <1>1, <1>4, <2>1 DEF Matches, Agrees
<1>5. CASE topic # filter /\ S = {}
  <2>1. \A i \in DOMAIN topic : i <= n /\ filter[i] \in {topic[i], Single}
    BY <1>1, <1>5 DEF Stops
  <2>2. Len(topic) = n
    BY <1>1, <2>1
  <2>3. filter[n] # Multi
    BY <1>1, <1>3, <2>1, <2>2, TopicAssumption
  <2> QED BY <1>1, <2>1, <2>2, <2>3 DEF Matches, Agrees
<1>6. CASE topic # filter /\ S # {}
  <2>1. PICK i \in S : \A j \in S : i <= j
    <3>1. S \subseteq Nat
      BY <1>1 DEF Stops
    <3> HIDE DEF S
    <3> QED BY <3>1, <1>6, LeastNatural
  <2>2. i \in DOMAIN topic /\ i \in Nat
    BY <2>1, <1>1 DEF Stops
  <2>3. i <= n /\ filter[i] = Multi
    BY <2>1, <1>2, <1>6 DEF doesTopicMatchPattern, LevelsMatch, StopMatches
  <2>4. i = n
    BY <2>2, <2>3, <1>1 DEF IsFilter
  <2>5. ASSUME NEW j \in 1 .. n - 1 PROVE filter[j] \in {topic[j], Single}
    <3>1. j \notin S /\ j \in DOMAIN topic /\ j <= n
      <4>1. ~ (n <= j)
        BY <1>1
      <4> HIDE DEF S
      <4> QED BY <4>1, <2>1, <2>4, <1>1
    <3> QED BY <3>1, <1>1 DEF Stops
  <2> QED BY <1>1, <2>3, <2>4, <2>5 DEF Matches, Agrees
<1> QED BY <1>4, <1>5, <1>6

-----------------------------------------------------------------------------
(* Sequences without repetition, and what is in them. *)

LEMMA MembersOfSeq ==
    ASSUME NEW S, NEW s \in Seq(S)
    PROVE  /\ Range(s) \subseteq S
           /\ \A x : x \in Range(s) <=> \E i \in 1 .. Len(s) : s[i] = x
<1>1. DOMAIN s = 1 .. Len(s) /\ \A i \in 1 .. Len(s) : s[i] \in S
  OBVIOUS
<1>2. Range(s) = {s[i] : i \in 1 .. Len(s)}
  BY <1>1 DEF Range
<1> QED BY <1>1, <1>2

LEMMA MembersOfAppend ==
    ASSUME NEW S, NEW s \in Seq(S), NEW x \in S
    PROVE  /\ Append(s, x) \in Seq(S)
           /\ Range(Append(s, x)) = Range(s) \cup {x}
           /\ IsInjective(s) /\ x \notin Range(s) => IsInjective(Append(s, x))
<1>1. /\ Append(s, x) \in Seq(S) /\ Len(s) \in Nat
      /\ DOMAIN s = 1 .. Len(s)
      /\ DOMAIN Append(s, x) = 1 .. Len(s) + 1
      /\ \A i \in 1 .. Len(s) : i \in DOMAIN Append(s, x) /\ Append(s, x)[i] = s[i]
      /\ Append(s, x)[Len(s) + 1] = x
  OBVIOUS
<1>2. \A i \in 1 .. Len(s) + 1 : i \in 1 .. Len(s) \/ i = Len(s) + 1
  BY <1>1
<1>3. Len(s) + 1 \in 1 .. Len(s) + 1
  BY <1>1
<1>4. Range(Append(s, x)) = Range(s) \cup {x}
  BY <1>1, <1>2, <1>3 DEF Range
<1>5. ASSUME IsInjective(s), x \notin Range(s) PROVE IsInjective(Append(s, x))
  BY <1>1, <1>2, <1>5 DEF IsInjective, Range
<1> QED BY <1>1, <1>4, <1>5

LEMMA MembersOfConcat ==
    ASSUME NEW S, NEW s \in Seq(S), NEW t \in Seq(S)
    PROVE  /\ s \o t \in Seq(S)
           /\ Range(s \o t) = Range(s) \cup Range(t)
           /\ IsInjective(s \o t) <=> /\ IsInjective(s) /\ IsInjective(t)
                                     /\ Range(s) \cap Range(t) = {}
<1> DEFINE m == Len(s)
           n == Len(t)
<1>1. /\ s \o t \in Seq(S) /\ m \in Nat /\ n \in Nat
      /\ DOMAIN s = 1 .. m /\ DOMAIN t = 1 .. n /\ DOMAIN (s \o t) = 1 .. m + n
      /\ \A i \in 1 .. m : (s \o t)[i] = s[i]
      /\ \A i \in 1 .. n : (s \o t)[m + i] = t[i]
  OBVIOUS
<1> HIDE DEF m, n
<1>2. /\ \A i \in 1 .. m : i \in 1 .. m + n
      /\ \A i \in 1 .. n : m + i \in 1 .. m + n /\ m + i \notin 1 .. m
      /\ \A i \in 1 .. m + n : i \in 1 .. m \/ \E j \in 1 .. n : i = m + j
  <2>1. ASSUME NEW i \in 1 .. m + n, i \notin 1 .. m PROVE \E j \in 1 .. n : i = m + j
    <3>1. i - m \in 1 .. n /\ i = m + (i - m)
      BY <1>1, <2>1
    <3> QED BY <3>1
  <2> QED BY <1>1, <2>1
<1> DEFINE st == s \o t
<1>7. /\ Range(s) = {s[i] : i \in 1 .. m} /\ Range(t) = {t[i] : i \in 1 .. n}
      /\ Range(st) = {st[i] : i \in 1 .. m + n}
  BY <1>1 DEF Range
<1>3. Range(s \o t) = Range(s) \cup Range(t)
  <2> HIDE DEF st
  <2>0. /\ \A i \in 1 .. m : st[i] = s[i]
        /\ \A i \in 1 .. n : st[m + i] = t[i]
    BY <1>1 DEF st
  <2>1. \A x \in Range(st) : x \in Range(s) \cup Range(t)
    BY <1>2, <1>7, <2>0
  <2>2. \A x \in Range(s) : x \in Range(st)
    BY <1>2, <1>7, <2>0
  <2>3. \A x \in Range(t) : x \in Range(st)
    BY <1>2, <1>7, <2>0
  <2>4. Range(st) = Range(s) \cup Range(t)
    BY <2>1, <2>2, <2>3
  <2> QED BY <2>4 DEF st
<1>4. ASSUME IsInjective(s \o t)
      PROVE  IsInjective(s) /\ IsInjective(t) /\ Range(s) \cap Range(t) = {}
  <2>1. IsInjective(s)
    BY <1>1, <1>2, <1>4 DEF IsInjective
  <2>2. IsInjective(t)
    <3> SUFFICES ASSUME NEW i \in 1 .. n, NEW j \in 1 .. n, t[i] = t[j] PROVE i = j
      BY <1>1 DEF IsInjective
    <3>1. (s \o t)[m + i] = (s \o t)[m + j]
      BY <1>1
    <3>2. m + i = m + j
      BY <1>1, <1>2, <1>4, <3>1 DEF IsInjective
    <3> QED BY <1>1, <3>2
  <2>3. Range(s) \cap Range(t) = {}
    <3> SUFFICES ASSUME NEW i \in 1 .. m, NEW j \in 1 .. n, s[i] = t[j] PROVE FALSE
      BY <1>1 DEF Range
    <3>1. (s \o t)[i] = (s \o t)[m + j]
      BY <1>1
    <3>2. i = m + j
      BY <1>1, <1>2, <1>4, <3>1 DEF IsInjective
    <3> QED BY <1>2, <3>2
  <2> QED BY <2>1, <2>2, <2>3
<1>5. ASSUME IsInjective(s), IsInjective(t), Range(s) \cap Range(t) = {},
             NEW i \in 1 .. m + n, NEW j \in 1 .. m + n, (s \o t)[i] = (s \o t)[j]
      PROVE  i = j
  <2>1. CASE i \in 1 .. m /\ j \in 1 .. m
    BY <1>1, <1>5, <2>1 DEF IsInjective
  <2>2. CASE i \in 1 .. m /\ j \notin 1 .. m
    <3>1. PICK k \in 1 .. n : j = m + k
      BY <1>2, <2>2
    <3>2. s[i] = t[k]
      BY <1>1, <1>5, <2>2, <3>1
    <3> QED BY <1>5, <1>7, <2>2, <3>2
  <2>3. CASE i \notin 1 .. m /\ j \in 1 .. m
    <3>1. PICK k \in 1 .. n : i = m + k
      BY <1>2, <2>3
    <3>2. s[j] = t[k]
      BY <1>1, <1>5, <2>3, <3>1
    <3> QED BY <1>5, <1>7, <2>3, <3>2
  <2>4. CASE i \notin 1 .. m /\ j \notin 1 .. m
    <3>1. PICK k \in 1 .. n, l \in 1 .. n : i = m + k /\ j = m + l
      BY <1>2, <2>4
    <3>2. t[k] = t[l]
      BY <1>1, <1>5, <3>1
    <3>3. k = l
      BY <1>1, <1>5, <3>2 DEF IsInjective
    <3> QED BY <3>1, <3>3
  <2> QED BY <2>1, <2>2, <2>3, <2>4
<1>6. IsInjective(s) /\ IsInjective(t) /\ Range(s) \cap Range(t) = {}
         => IsInjective(s \o t)
  BY <1>1, <1>5 DEF IsInjective
<1> QED BY <1>1, <1>3, <1>4, <1>6

LEMMA MembersOfTail ==
    ASSUME NEW S, NEW s \in Seq(S), s # <<>>
    PROVE  /\ Head(s) \in S /\ Tail(s) \in Seq(S)
           /\ Head(s) \in Range(s) /\ Range(s) = Range(Tail(s)) \cup {Head(s)}
           /\ IsInjective(s) => IsInjective(Tail(s)) /\ Head(s) \notin Range(Tail(s))
<1>1. /\ Head(s) \in S /\ Tail(s) \in Seq(S) /\ <<Head(s)>> \in Seq(S)
      /\ s = <<Head(s)>> \o Tail(s)
  OBVIOUS
<1> DEFINE h == <<Head(s)>>
           t == Tail(s)
<1>2. Range(h) = {Head(s)}
  BY DEF Range
<1> HIDE DEF h, t
<1>3. h \in Seq(S) /\ t \in Seq(S) /\ s = h \o t
  BY <1>1 DEF h, t
<1>4. /\ Range(s) = Range(h) \cup Range(t)
      /\ IsInjective(s) => IsInjective(t) /\ Range(h) \cap Range(t) = {}
  BY <1>3, MembersOfConcat
<1> QED BY <1>1, <1>2, <1>4 DEF t

LEMMA MembersOfAt ==
    ASSUME NEW S, NEW s \in Seq(S), NEW I \in SUBSET DOMAIN s
    PROVE  /\ At(s, I) \in Seq(S)
           /\ Range(At(s, I)) = {s[i] : i \in I}
           /\ IsInjective(s) => IsInjective(At(s, I))
<1> DEFINE a == At(s, I)
           n == Cardinality(I)
<1>1. /\ a \in Seq(S) /\ DOMAIN a = 1 .. n
      /\ \A k \in 1 .. n : Nth(I, k) \in I /\ a[k] = s[Nth(I, k)]
      /\ \A k, l \in 1 .. n : Nth(I, k) = Nth(I, l) => k = l
      /\ \A i \in I : \E k \in 1 .. n : Nth(I, k) = i
  BY AtElements
<1> HIDE DEF a, n
<1>2. Range(a) = {a[k] : k \in 1 .. n}
  BY <1>1 DEF Range
<1>3. Range(a) = {s[i] : i \in I}
  BY <1>1, <1>2
<1>4. IsInjective(s) => IsInjective(a)
  BY <1>1 DEF IsInjective
<1> QED BY <1>1, <1>3, <1>4 DEF a

LEMMA MembersOfOrder ==
    ASSUME NEW S, IsFiniteSet(S), NEW order \in SetToSeqs(S)
    PROVE  order \in Seq(S) /\ IsInjective(order) /\ Range(order) = S
BY OrderIsSeq, OrderIsAll DEF Range, IsInjective

\* What is in such a sequence is in it once.
LEMMA InjectiveOnce ==
    ASSUME NEW S, NEW s \in Seq(S), IsInjective(s), NEW x \in Range(s)
    PROVE  Cardinality({i \in DOMAIN s : s[i] = x}) = 1
<1>1. PICK j \in DOMAIN s : s[j] = x
  BY DEF Range
<1>2. {i \in DOMAIN s : s[i] = x} = {j}
  BY <1>1 DEF IsInjective
<1> QED BY <1>2, FS_Singleton

-----------------------------------------------------------------------------
(* The tables of callbacks. *)

\* q is queued, a and s are the tables: they hold the callbacks of w, none is in
\* two of them, none is twice in one, and each is in the table of its kind.
Tables(q, a, s, w) ==
    /\ Range(a) \cup s \cup Range(q) = w
    /\ q \in Seq(Handlers) /\ a \in Seq(Handlers)
    /\ s \in SUBSET Handlers /\ IsFiniteSet(s)
    /\ IsInjective(q) /\ IsInjective(a) /\ Range(q) \cap (Range(a) \cup s) = {}
    /\ \A h \in Range(a) : isTopicAdvanced(FilterOf[h])
    /\ \A h \in s : ~isTopicAdvanced(FilterOf[h])

TableTypes == /\ queued \in Seq(Handlers) /\ mAdvancedCallbacks \in Seq(Handlers)
              /\ mSimpleCallbacks \in SUBSET Handlers

\* That is what TablesInv says.
LEMMA TablesMean ==
    ASSUME TableTypes
    PROVE  Tables(queued, mAdvancedCallbacks, mSimpleCallbacks, wanted) <=>
              /\ RegisteredOnce /\ IsFiniteSet(mSimpleCallbacks)
              /\ \A h \in Range(mAdvancedCallbacks) : isTopicAdvanced(FilterOf[h])
<1>1. IsInjective(queued \o mAdvancedCallbacks) <=>
         /\ IsInjective(queued) /\ IsInjective(mAdvancedCallbacks)
         /\ Range(queued) \cap Range(mAdvancedCallbacks) = {}
  BY MembersOfConcat DEF TableTypes
<1> QED BY <1>1 DEF TableTypes, Tables, RegisteredOnce, Registered, Known

LEMMA SubscribeTables ==
    ASSUME NEW q, NEW a, NEW s, NEW w, Tables(q, a, s, w),
           NEW h \in Handlers, h \notin w
    PROVE  Tables(Append(q, h), a, s, w \cup {h})
<1>1. /\ Append(q, h) \in Seq(Handlers) /\ Range(Append(q, h)) = Range(q) \cup {h}
      /\ IsInjective(Append(q, h))
  BY MembersOfAppend DEF Tables
<1> QED BY <1>1 DEF Tables

LEMMA RegisterTables ==
    ASSUME NEW q, NEW a, NEW s, NEW w, Tables(q, a, s, w), q # <<>>
    PROVE  /\ Head(q) \in Handlers
           /\ isTopicAdvanced(FilterOf[Head(q)])
                 => Tables(Tail(q), Append(a, Head(q)), s, w)
           /\ ~isTopicAdvanced(FilterOf[Head(q)])
                 => Tables(Tail(q), a, s \cup {Head(q)}, w)
<1>1. /\ Head(q) \in Handlers /\ Tail(q) \in Seq(Handlers) /\ Head(q) \in Range(q)
      /\ Range(q) = Range(Tail(q)) \cup {Head(q)}
      /\ IsInjective(Tail(q)) /\ Head(q) \notin Range(Tail(q))
  BY MembersOfTail DEF Tables
<1>2. /\ Append(a, Head(q)) \in Seq(Handlers)
      /\ Range(Append(a, Head(q))) = Range(a) \cup {Head(q)}
      /\ IsInjective(Append(a, Head(q)))
  <2>1. Head(q) \notin Range(a)
    BY <1>1 DEF Tables
  <2> QED BY <1>1, <2>1, MembersOfAppend DEF Tables
<1>3. IsFiniteSet(s \cup {Head(q)})
  BY FS_AddElement DEF Tables
<1> QED BY <1>1, <1>2, <1>3 DEF Tables

\* The callbacks of a filter leave the tables, those that are queued stay.
LEMMA UnsubscribeTables ==
    ASSUME NEW q, NEW a, NEW s, NEW w, Tables(q, a, s, w), NEW filter
    PROVE  Tables(q, At(a, {i \in DOMAIN a : FilterOf[a[i]] # filter}),
                  {h \in s : FilterOf[h] # filter},
                  {h \in w : FilterOf[h] # filter \/ h \in Range(q)})
<1> DEFINE I == {i \in DOMAIN a : FilterOf[a[i]] # filter}
           T == {h \in s : FilterOf[h] # filter}
           W == {h \in w : FilterOf[h] # filter \/ h \in Range(q)}
<1>1. /\ At(a, I) \in Seq(Handlers) /\ Range(At(a, I)) = {a[i] : i \in I}
      /\ IsInjective(At(a, I))
  <2>1. I \in SUBSET DOMAIN a /\ a \in Seq(Handlers) /\ IsInjective(a)
    BY DEF Tables
  <2> HIDE DEF I
  <2> QED BY <2>1, MembersOfAt
<1>2. {a[i] : i \in I} = {h \in Range(a) : FilterOf[h] # filter}
  BY DEF Range
<1>3. T \in SUBSET s /\ IsFiniteSet(T)
  BY FS_Subset DEF Tables
<1>4. Range(At(a, I)) \cup T \cup Range(q) = W
  BY <1>1, <1>2 DEF Tables
<1>5. Range(At(a, I)) \subseteq Range(a)
  BY <1>1, <1>2
<1> HIDE DEF I, T, W
<1>6. Tables(q, At(a, I), T, W)
  BY <1>1, <1>3, <1>4, <1>5 DEF Tables
<1> QED BY <1>6 DEF I, T, W

LEMMA RequeueTables ==
    ASSUME NEW q, NEW a, NEW s, NEW w, Tables(q, a, s, w),
           NEW order \in SetToSeqs(s)
    PROVE  Tables(q \o a \o order, <<>>, {}, w)
<1>1. order \in Seq(Handlers) /\ IsInjective(order) /\ Range(order) = s
  BY MembersOfOrder DEF Tables
<1>2. q \o a \in Seq(Handlers) /\ Range(q \o a) = Range(q) \cup Range(a) /\ IsInjective(q \o a)
  BY MembersOfConcat DEF Tables
<1>3. Range(a) \cap s = {}
  BY DEF Tables
<1>4. Range(q \o a) \cap Range(order) = {}
  BY <1>1, <1>2, <1>3 DEF Tables
<1> DEFINE qa == q \o a
<1> HIDE DEF qa
<1>5. /\ qa \o order \in Seq(Handlers) /\ IsInjective(qa \o order)
      /\ Range(qa \o order) = Range(qa) \cup Range(order)
  BY <1>1, <1>2, <1>4, MembersOfConcat DEF qa
<1>6. Range(<<>>) = {} /\ <<>> \in Seq(Handlers) /\ IsInjective(<<>>) /\ IsFiniteSet({})
  BY FS_EmptySet DEF Range, IsInjective
<1>7. Range(qa \o order) = w
  <2>1. Range(qa) = Range(q) \cup Range(a)
    BY <1>2 DEF qa
  <2> QED BY <1>1, <1>5, <2>1 DEF Tables
<1>8. Tables(qa \o order, <<>>, {}, w)
  BY <1>5, <1>6, <1>7 DEF Tables
<1> QED BY <1>8 DEF qa

-----------------------------------------------------------------------------
(* The callbacks that run for a message. *)

LEMMA CallbacksAre ==
    ASSUME NEW topic, NEW c \in CallbacksFor(topic),
           Tables(queued, mAdvancedCallbacks, mSimpleCallbacks, wanted)
    PROVE  /\ c \in Seq(Handlers) /\ IsInjective(c)
           /\ Range(c) = {h \in Range(mAdvancedCallbacks) :
                              doesTopicMatchPattern(topic, FilterOf[h])}
                         \cup {h \in mSimpleCallbacks : FilterOf[h] = topic}
<1> DEFINE a == mAdvancedCallbacks
           I == {i \in DOMAIN a : doesTopicMatchPattern(topic, FilterOf[a[i]])}
           s == SimpleFor(topic)
<1>1. PICK order \in SetToSeqs(s) : c = At(a, I) \o order
  BY DEF CallbacksFor, AdvancedFor
<1>2. s \in SUBSET mSimpleCallbacks /\ IsFiniteSet(s) /\ s \in SUBSET Handlers
  BY FS_Subset DEF Tables, SimpleFor
<1>3. order \in Seq(Handlers) /\ IsInjective(order) /\ Range(order) = s
  <2> HIDE DEF s
  <2>1. order \in Seq(s) /\ IsInjective(order) /\ Range(order) = s
    BY <1>2, MembersOfOrder
  <2> QED BY <1>2, <2>1
<1>4. /\ At(a, I) \in Seq(Handlers) /\ IsInjective(At(a, I))
      /\ Range(At(a, I)) = {a[i] : i \in I}
  <2>1. I \in SUBSET DOMAIN a /\ a \in Seq(Handlers) /\ IsInjective(a)
    BY DEF Tables
  <2> HIDE DEF I, a
  <2> QED BY <2>1, MembersOfAt
<1>5. {a[i] : i \in I} = {h \in Range(a) : doesTopicMatchPattern(topic, FilterOf[h])}
  BY DEF Range
<1>6. Range(a) \cap mSimpleCallbacks = {}
  BY DEF Tables
<1>7. Range(At(a, I)) \cap Range(order) = {}
  BY <1>2, <1>3, <1>4, <1>5, <1>6
<1>8. c \in Seq(Handlers) /\ IsInjective(c) /\ Range(c) = Range(At(a, I)) \cup Range(order)
  <2> HIDE DEF a, I, s
  <2> QED BY <1>1, <1>3, <1>4, <1>7, MembersOfConcat
<1> QED BY <1>3, <1>4, <1>5, <1>8 DEF SimpleFor

-----------------------------------------------------------------------------
(* The tables and the callbacks, step by step. *)

MessageTypes == /\ todo \in Seq(Handlers) /\ ran \in Seq(Handlers)
                /\ sent \subseteq Packets /\ handled \in Seq(Packets)
CallbacksInOrder ==
    phase = "callbacks" => ran \o todo \in CallbacksFor(buffer[1].topic)
IncomingInv == /\ MessageTypes /\ CallbacksInOrder
               /\ Tables(queued, mAdvancedCallbacks, mSimpleCallbacks, wanted)

\* The callbacks of a message stay those of its topic while the tables do.
LEMMA CallbacksStay ==
    ASSUME CallbacksInOrder, ran' \o todo' = ran \o todo,
           UNCHANGED <<mAdvancedCallbacks, mSimpleCallbacks>>,
           phase' = "callbacks" => phase = "callbacks" /\ buffer' = buffer
    PROVE  CallbacksInOrder'
<1>1. \A topic : CallbacksFor(topic)' = CallbacksFor(topic)
  BY DEF CallbacksFor, AdvancedFor, SimpleFor
<1> QED BY <1>1 DEF CallbacksInOrder

LEMMA InitIncoming == ASSUME Init PROVE IncomingInv
<1>1. /\ queued = <<>> /\ mAdvancedCallbacks = <<>> /\ mSimpleCallbacks = {}
      /\ wanted = {}
      /\ todo = <<>> /\ ran = <<>> /\ sent = {} /\ handled = <<>> /\ phase = "type"
  BY DEF Init, IncomingInit, ReaderInit
<1>2. Range(<<>>) = {} /\ <<>> \in Seq(Handlers) /\ IsInjective(<<>>) /\ IsFiniteSet({})
  BY FS_EmptySet DEF Range, IsInjective
<1>3. Tables(<<>>, <<>>, {}, {})
  BY <1>2 DEF Tables
<1> QED BY <1>1, <1>3 DEF IncomingInv, MessageTypes, CallbacksInOrder

LEMMA SubscribeInv ==
    ASSUME IncomingInv, NEW h \in Handlers, subscribe(h)
    PROVE  IncomingInv'
<1>1. /\ queued' = Append(queued, h)
      /\ h \notin wanted /\ wanted' = wanted \cup {h}
      /\ UNCHANGED <<mAdvancedCallbacks, mSimpleCallbacks, phase, buffer,
                     todo, ran, sent, handled>>
  BY DEF subscribe, readerVars, messageVars
<1>2. Tables(queued', mAdvancedCallbacks', mSimpleCallbacks', wanted')
  BY <1>1, SubscribeTables DEF IncomingInv
<1>3. CallbacksInOrder'
  BY <1>1, CallbacksStay DEF IncomingInv
<1> QED BY <1>1, <1>2, <1>3 DEF IncomingInv, MessageTypes

LEMMA RegisterInv ==
    ASSUME IncomingInv, Register
    PROVE  IncomingInv'
<1> DEFINE h == Head(queued)
<1>1. /\ queued # <<>> /\ queued' = Tail(queued) /\ phase = "type"
      /\ UNCHANGED <<phase, todo, ran, sent, handled, wanted>>
      /\ IF isTopicAdvanced(FilterOf[h])
         THEN /\ mAdvancedCallbacks' = Append(mAdvancedCallbacks, h)
              /\ UNCHANGED mSimpleCallbacks
         ELSE /\ mSimpleCallbacks' = mSimpleCallbacks \cup {h}
              /\ UNCHANGED mAdvancedCallbacks
  BY DEF Register, readerVars, messageVars
<1>2. Tables(queued', mAdvancedCallbacks', mSimpleCallbacks', wanted')
  BY <1>1, RegisterTables DEF IncomingInv
<1> QED BY <1>1, <1>2 DEF IncomingInv, MessageTypes, CallbacksInOrder

LEMMA UnsubscribeInv ==
    ASSUME IncomingInv, NEW filter, unsubscribe(filter)
    PROVE  IncomingInv'
<1>1. /\ mAdvancedCallbacks' =
            At(mAdvancedCallbacks, {i \in DOMAIN mAdvancedCallbacks :
                                       FilterOf[mAdvancedCallbacks[i]] # filter})
      /\ mSimpleCallbacks' = {h \in mSimpleCallbacks : FilterOf[h] # filter}
      /\ wanted' = {h \in wanted : FilterOf[h] # filter \/ h \in Range(queued)}
      /\ phase # "callbacks" /\ UNCHANGED <<queued, phase, todo, ran, sent, handled>>
  BY DEF unsubscribe, readerVars, messageVars
<1>2. Tables(queued', mAdvancedCallbacks', mSimpleCallbacks', wanted')
  <2>1. Tables(queued, mAdvancedCallbacks, mSimpleCallbacks, wanted)
    BY DEF IncomingInv
  <2> DEFINE I == {i \in DOMAIN mAdvancedCallbacks :
                       FilterOf[mAdvancedCallbacks[i]] # filter}
             T == {h \in mSimpleCallbacks : FilterOf[h] # filter}
             W == {h \in wanted : FilterOf[h] # filter \/ h \in Range(queued)}
  <2>2. Tables(queued, At(mAdvancedCallbacks, I), T, W)
    BY <2>1, UnsubscribeTables
  <2>3. /\ queued' = queued /\ mAdvancedCallbacks' = At(mAdvancedCallbacks, I)
        /\ mSimpleCallbacks' = T /\ wanted' = W
    BY <1>1
  <2> HIDE DEF I, T, W
  <2> QED BY <2>2, <2>3
<1> QED BY <1>1, <1>2 DEF IncomingInv, MessageTypes, CallbacksInOrder

LEMMA PublishesInv ==
    ASSUME IncomingInv, NEW p \in Packets, BrokerPublishes(p)
    PROVE  IncomingInv'
<1>1. /\ sent' = sent \cup {p} /\ UNCHANGED <<todo, ran, handled, phase, buffer>>
      /\ UNCHANGED <<queued, mAdvancedCallbacks, mSimpleCallbacks, wanted>>
  BY DEF BrokerPublishes, Arrives, tableVars
<1>2. CallbacksInOrder'
  BY <1>1, CallbacksStay DEF IncomingInv
<1> QED BY <1>1, <1>2 DEF IncomingInv, MessageTypes

LEMMA ReadKeeps ==
    ASSUME IncomingInv, Read,
           UNCHANGED <<tableVars, asked, messageVars, losses, removals>>
    PROVE  IncomingInv'
<1>1. UNCHANGED <<queued, mAdvancedCallbacks, mSimpleCallbacks, wanted, todo, ran, sent,
                    handled>>
  BY DEF tableVars, messageVars
<1>2. phase' # "callbacks"
  <2>1. CASE ReadType
    BY <2>1 DEF ReadType
  <2>2. CASE ReadLength
    BY <2>2 DEF ReadLength
  <2>3. CASE \E n \in 1 .. packetLength : ReadBody(n)
    BY <2>3 DEF ReadBody
  <2> QED BY <2>1, <2>2, <2>3 DEF Read
<1> QED BY <1>1, <1>2 DEF IncomingInv, MessageTypes, CallbacksInOrder

LEMMA HandleInv ==
    ASSUME ReaderInv, IncomingInv, handlePublishReceived
    PROVE  IncomingInv'
<1>1. /\ todo' \in CallbacksFor(buffer[1].topic) /\ ran' = <<>>
      /\ handled' = Append(handled, buffer[1]) /\ phase = "body"
      /\ UNCHANGED <<queued, mAdvancedCallbacks, mSimpleCallbacks, wanted, buffer, sent>>
  BY DEF handlePublishReceived, Complete, tableVars
<1>2. todo' \in Seq(Handlers)
  BY <1>1, CallbacksAre DEF IncomingInv
<1>3. ran' \o todo' = todo'
  BY <1>1, <1>2
<1>4. \A topic : CallbacksFor(topic)' = CallbacksFor(topic)
  BY <1>1 DEF CallbacksFor, AdvancedFor, SimpleFor
<1>5. CallbacksInOrder'
  BY <1>1, <1>3, <1>4 DEF CallbacksInOrder
<1>6. buffer[1] \in Packets
  BY <1>1 DEF ReaderInv, ReaderTypeOK, InStep
<1> QED BY <1>1, <1>2, <1>5, <1>6 DEF IncomingInv, MessageTypes

LEMMA RunInv ==
    ASSUME IncomingInv, RunCallback
    PROVE  IncomingInv'
<1>1. /\ phase = "callbacks" /\ todo # <<>> /\ todo' = Tail(todo)
      /\ ran' = Append(ran, Head(todo))
      /\ UNCHANGED <<queued, mAdvancedCallbacks, mSimpleCallbacks, wanted, phase, buffer,
                     sent, handled>>
  BY DEF RunCallback, readerVars, tableVars
<1>2. todo' \in Seq(Handlers) /\ ran' \in Seq(Handlers) /\ ran' \o todo' = ran \o todo
  <2>1. todo \in Seq(Handlers) /\ ran \in Seq(Handlers)
    BY DEF IncomingInv, MessageTypes
  <2>2. /\ Head(todo) \in Handlers /\ Tail(todo) \in Seq(Handlers)
        /\ <<Head(todo)>> \in Seq(Handlers) /\ todo = <<Head(todo)>> \o Tail(todo)
        /\ Append(ran, Head(todo)) = ran \o <<Head(todo)>>
    BY <1>1, <2>1
  <2>3. (ran \o <<Head(todo)>>) \o Tail(todo) = ran \o (<<Head(todo)>> \o Tail(todo))
    BY <2>1, <2>2, ConcatAssociative
  <2> QED BY <1>1, <2>1, <2>2, <2>3
<1>3. CallbacksInOrder'
  BY <1>1, <1>2, CallbacksStay DEF IncomingInv
<1> QED BY <1>1, <1>2, <1>3 DEF IncomingInv, MessageTypes

LEMMA DoneInv ==
    ASSUME IncomingInv, CallbacksDone
    PROVE  IncomingInv'
<1>1. /\ phase' = "type"
      /\ UNCHANGED <<queued, mAdvancedCallbacks, mSimpleCallbacks, wanted, todo, ran, sent,
                    handled>>
  BY DEF CallbacksDone, ReadNext, tableVars, messageVars
<1> QED BY <1>1 DEF IncomingInv, MessageTypes, CallbacksInOrder

LEMMA ReconnectInv ==
    ASSUME IncomingInv, Reconnect
    PROVE  IncomingInv'
<1>1. PICK order \in SetToSeqs(mSimpleCallbacks) :
         queued' = queued \o mAdvancedCallbacks \o order
  BY DEF Reconnect, Requeue
<1>2. /\ phase' = "type" /\ mAdvancedCallbacks' = <<>> /\ mSimpleCallbacks' = {}
      /\ todo' = <<>> /\ ran' = <<>> /\ UNCHANGED <<sent, handled, wanted>>
  BY DEF Reconnect, Requeue, ReaderReset
<1>3. Tables(queued', mAdvancedCallbacks', mSimpleCallbacks', wanted')
  BY <1>1, <1>2, RequeueTables DEF IncomingInv
<1> QED BY <1>2, <1>3 DEF IncomingInv, MessageTypes, CallbacksInOrder

LEMMA StepIncoming ==
    ASSUME ReaderInv, IncomingInv, [Next]_vars
    PROVE  IncomingInv'
<1>1. CASE UNCHANGED incomingVars
  <2>1. UNCHANGED <<queued, mAdvancedCallbacks, mSimpleCallbacks, wanted, todo, ran,
                    sent, handled, phase, buffer>>
    BY <1>1 DEF incomingVars, readerVars, tableVars, messageVars
  <2>2. CallbacksInOrder'
    BY <2>1, CallbacksStay DEF IncomingInv
  <2> QED BY <2>1, <2>2 DEF IncomingInv, MessageTypes
<1>2. CASE IncomingNext
  <2>1. CASE \E h \in Handlers : subscribe(h)
    BY <2>1, SubscribeInv
  <2>2. CASE \E h \in Handlers : unsubscribe(FilterOf[h])
    BY <2>2, UnsubscribeInv
  <2>3. CASE Register
    BY <2>3, RegisterInv
  <2>4. CASE \E p \in Packets : BrokerPublishes(p)
    BY <2>4, PublishesInv
  <2>5. CASE Read /\ UNCHANGED <<tableVars, asked, messageVars, losses, removals>>
    BY <2>5, ReadKeeps
  <2>6. CASE handlePublishReceived
    BY <2>6, HandleInv
  <2>7. CASE RunCallback
    BY <2>7, RunInv
  <2>8. CASE CallbacksDone
    BY <2>8, DoneInv
  <2>9. CASE Malformed \/ Lost
    BY <2>9, ReconnectInv DEF Malformed, Lost
  <2> QED BY <1>2, <2>1, <2>2, <2>3, <2>4, <2>5, <2>6, <2>7, <2>8, <2>9 DEF IncomingNext
<1>3. CASE UNCHANGED vars
  BY <1>1, <1>3 DEF vars
<1> QED BY <1>1, <1>2, <1>3 DEF Next, Traffic

LEMMA IncomingAlways == Spec => [](ReaderInv /\ IncomingInv)
<1>1. Init => IncomingInv
  BY InitIncoming
<1>2. ReaderInv /\ IncomingInv /\ [Next]_vars => IncomingInv'
  BY StepIncoming
<1> QED BY <1>1, <1>2, ReaderAlways, PTL DEF Spec

\* The variables of the reader, the tables and the messages keep their types.
THEOREM WireTypeCorrect == Spec => []TypeOK
<1>1. ReaderInv /\ IncomingInv => TypeOK
  BY DEF ReaderInv, IncomingInv, Tables, MessageTypes, TypeOK
<1> QED BY <1>1, IncomingAlways, PTL

\* A callback that was subscribed and not revoked is registered once, or queued
\* once, in the table of its kind, and no other is; the callbacks of a message are
\* those handlePublishReceived found (MQTTClient.cpp:80-84, 119-132, 364-388, 436-449).
THEOREM TablesInvCorrect == Spec => []TablesInv
<1>1. ReaderInv /\ IncomingInv => TablesInv
  BY TablesMean DEF IncomingInv, Tables, TableTypes, CallbacksInOrder, TablesInv
<1> QED BY <1>1, IncomingAlways, PTL

\* Through any number of lost connections, also in the middle of a message, and
\* of calls of unsubscribe(), what is registered or queued is what was subscribed
\* and not revoked: no callback is lost or doubled (MQTTClient.cpp:80-84, 119-132,
\* 436-449).
THEOREM RegisteredOnceCorrect == Spec => []RegisteredOnce
<1>1. TablesInv => RegisteredOnce
  BY DEF TablesInv
<1> QED BY <1>1, TablesInvCorrect, PTL

\* A filter without a wildcard matches the topic that it is.
LEMMA PlainFilter ==
    ASSUME NEW topic \in Seq(Levels), NEW filter \in Seq(Levels),
           IsTopic(topic), IsFilter(filter), ~isTopicAdvanced(filter)
    PROVE  Matches(topic, filter) <=> filter = topic
<1>1. /\ Len(filter) \in Nat \ {0} /\ DOMAIN filter = 1 .. Len(filter)
      /\ Len(topic) \in Nat /\ DOMAIN topic = 1 .. Len(topic)
  BY DEF IsFilter
<1>2. \A i \in 1 .. Len(filter) : filter[i] # Single /\ filter[i] # Multi
  BY <1>1 DEF isTopicAdvanced
<1>3. filter[Len(filter)] # Multi
  BY <1>1, <1>2
<1>4. Matches(topic, filter) <=> Len(topic) = Len(filter) /\ Agrees(topic, filter, Len(filter))
  BY <1>3 DEF Matches
<1>5. Agrees(topic, filter, Len(filter)) <=>
         \A i \in 1 .. Len(filter) : filter[i] = topic[i]
  BY <1>2 DEF Agrees
<1> DEFINE Same == /\ Len(topic) = Len(filter)
                   /\ \A i \in 1 .. Len(filter) : filter[i] = topic[i]
<1>6. Same <=> filter = topic
  <2>1. ASSUME Len(topic) = Len(filter), \A i \in 1 .. Len(filter) : filter[i] = topic[i]
        PROVE  filter = topic
    <3>1. Len(filter) = Len(topic)
      BY <2>1
    <3> QED BY <2>1, <3>1, SeqEqual
  <2> QED BY <2>1
<1> QED BY <1>4, <1>5, <1>6

\* When the callbacks of a message have run, those of every matching filter have
\* run once, whichever table they are in, for plain topics and filters.
THEOREM NoCallbackMissedCorrect == Spec => []NoCallbackMissed
<1>1. ReaderInv /\ IncomingInv => NoCallbackMissed
  <2> SUFFICES ASSUME ReaderInv, IncomingInv, phase = "callbacks", todo = <<>>,
                      NEW h \in Registered, Plain(buffer[1].topic), Plain(FilterOf[h]),
                      Matches(buffer[1].topic, FilterOf[h])
               PROVE  Cardinality({i \in DOMAIN ran : ran[i] = h}) = 1
    BY DEF NoCallbackMissed, AllRan
  <2> DEFINE topic == buffer[1].topic
  <2>1. buffer[1] \in Packets
    BY DEF ReaderInv, ReaderTypeOK, InStep
  <2>2. topic \in Seq(Levels) /\ IsTopic(topic)
    BY <2>1, IncomingAssumption
  <2>3. h \in Handlers
    BY DEF IncomingInv, Tables, Registered, Range
  <2>4. FilterOf[h] \in Seq(Levels) /\ IsFilter(FilterOf[h])
    BY <2>3, IncomingAssumption
  <2>5. ran \in Seq(Handlers) /\ ran \in CallbacksFor(topic)
    BY DEF IncomingInv, MessageTypes, CallbacksInOrder
  <2> HIDE DEF topic
  <2>6. /\ IsInjective(ran)
        /\ Range(ran) = {g \in Range(mAdvancedCallbacks) :
                              doesTopicMatchPattern(topic, FilterOf[g])}
                        \cup {g \in mSimpleCallbacks : FilterOf[g] = topic}
    BY <2>5, CallbacksAre DEF IncomingInv
  <2>7. Plain(topic) /\ Matches(topic, FilterOf[h])
    BY DEF topic
  <2>8. h \in Range(ran)
    <3>1. CASE h \in Range(mAdvancedCallbacks)
      <4>1. doesTopicMatchPattern(topic, FilterOf[h])
        BY <2>2, <2>4, <2>7, MatchComplete
      <4> QED BY <2>6, <3>1, <4>1
    <3>2. CASE h \in mSimpleCallbacks
      <4>1. ~isTopicAdvanced(FilterOf[h])
        BY <3>2 DEF IncomingInv, Tables
      <4>2. FilterOf[h] = topic
        BY <2>2, <2>4, <2>7, <4>1, PlainFilter
      <4> QED BY <2>6, <3>2, <4>2
    <3> QED BY <3>1, <3>2 DEF Registered
  <2> QED BY <2>5, <2>6, <2>8, InjectiveOnce
<1> QED BY <1>1, IncomingAlways, PTL

\* A callback that runs is registered, and its filter matches the topic, for plain
\* topics and filters with no more levels than the topic.
THEOREM NoStrayCallbackCorrect == Spec => []NoStrayCallback
<1>1. ReaderInv /\ IncomingInv => NoStrayCallback
  <2> SUFFICES ASSUME ReaderInv, IncomingInv, phase = "callbacks", NEW i \in DOMAIN ran
               PROVE  /\ ran[i] \in Registered
                      /\ Plain(buffer[1].topic) /\ Plain(FilterOf[ran[i]])
                         /\ Len(buffer[1].topic) >= Len(FilterOf[ran[i]])
                            => Matches(buffer[1].topic, FilterOf[ran[i]])
    BY DEF NoStrayCallback
  <2> DEFINE topic == buffer[1].topic
             h == ran[i]
  <2>1. buffer[1] \in Packets
    BY DEF ReaderInv, ReaderTypeOK, InStep
  <2>2. topic \in Seq(Levels) /\ IsTopic(topic)
    BY <2>1, IncomingAssumption
  <2>3. ran \in Seq(Handlers) /\ todo \in Seq(Handlers) /\ ran \o todo \in CallbacksFor(topic)
    BY DEF IncomingInv, MessageTypes, CallbacksInOrder
  <2>4. h \in Handlers /\ h \in Range(ran)
    BY <2>3 DEF Range
  <2>5. FilterOf[h] \in Seq(Levels) /\ IsFilter(FilterOf[h])
    BY <2>4, IncomingAssumption
  <2> HIDE DEF topic, h
  <2>6. h \in Range(ran \o todo)
    BY <2>3, <2>4, MembersOfConcat
  <2>7. \/ h \in Range(mAdvancedCallbacks) /\ doesTopicMatchPattern(topic, FilterOf[h])
        \/ h \in mSimpleCallbacks /\ FilterOf[h] = topic
    BY <2>3, <2>6, CallbacksAre DEF IncomingInv
  <2>8. CASE h \in Range(mAdvancedCallbacks) /\ doesTopicMatchPattern(topic, FilterOf[h])
    BY <2>2, <2>5, <2>8, MatchSound DEF Registered, topic, h
  <2>9. CASE h \in mSimpleCallbacks /\ FilterOf[h] = topic
    <3>1. ~isTopicAdvanced(FilterOf[h])
      BY <2>9 DEF IncomingInv, Tables
    <3>2. Matches(topic, FilterOf[h])
      BY <2>2, <2>5, <2>9, <3>1, PlainFilter
    <3> QED BY <2>9, <3>2 DEF Registered, topic, h
  <2> QED BY <2>7, <2>8, <2>9
<1> QED BY <1>1, IncomingAlways, PTL

-----------------------------------------------------------------------------
(* Messages that come in are handled as AtMostOnce says. *)

Pending == IF Complete THEN buffer \o stream ELSE stream
Stutters == UNCHANGED <<sent, handled, Pending>>

LEMMA PendingType ==
    ASSUME ReaderInv
    PROVE  /\ stream \in Seq(Packets) /\ buffer \in Seq(Packets)
           /\ Pending \in Seq(Packets)
<1>1. stream \in Seq(Packets) /\ buffer \in {<<>>} \cup {<<p>> : p \in Packets}
  BY DEF ReaderInv, ReaderTypeOK
<1>2. buffer \in Seq(Packets)
  <2>1. CASE buffer = <<>>
    BY <2>1
  <2>2. CASE \E p \in Packets : buffer = <<p>>
    BY <2>2
  <2> QED BY <1>1, <2>1, <2>2
<1>3. buffer \o stream \in Seq(Packets)
  BY <1>1, <1>2
<1> QED BY <1>1, <1>2, <1>3 DEF Pending

LEMMA ReadTypeStutters ==
    ASSUME ReaderInv, ReadType
    PROVE  Pending' = Pending
<1>1. /\ phase = "type" /\ stream # <<>> /\ taken = 0 /\ phase' = "length"
      /\ TakeBytes(1)
  BY DEF ReadType, ReaderInv, InStep
<1>2. Size(Head(stream)) \in Nat /\ Size(Head(stream)) >= 2
  BY <1>1, HeadOfStream, PacketFacts DEF ReaderInv
<1>3. stream' = stream
  BY <1>1, <1>2 DEF TakeBytes
<1> QED BY <1>1, <1>3 DEF Pending, Complete

\* The last byte of a packet without a body: it is in the buffer now, or it is
\* refused and lost.
LEMMA ReadLengthStutters ==
    ASSUME ReaderInv, ReaderInv', ReadLength
    PROVE  Pending' = Pending \/ (Pending' = Tail(Pending) /\ Pending # <<>>)
<1>1. /\ phase = "length" /\ stream # <<>> /\ buffer = <<Head(stream)>> /\ taken \in Nat
      /\ buffer' = buffer /\ offset' = 1 /\ TakeBytes(1) /\ stream \in Seq(Packets)
      /\ phase' \in {"malformed", "length", "body"}
  BY DEF ReadLength, ReaderInv, ReaderTypeOK, InStep
<1>2. Pending = stream
  BY <1>1 DEF Pending, Complete
<1>3. CASE stream' = stream /\ taken' = taken + 1
  <2>1. taken' # 0
    BY <1>1, <1>3
  <2>2. ~(phase' = "body" /\ packetLength' = 0)
    BY <2>1 DEF ReaderInv, InStep
  <2> QED BY <1>2, <1>3, <2>2 DEF Pending, Complete
<1>4. CASE stream' = Tail(stream) /\ taken' = 0
  <2>1. CASE phase' = "malformed"
    BY <1>1, <1>2, <1>4, <2>1 DEF Pending, Complete
  <2>2. CASE phase' = "length"
    <3>1. stream' # <<>> /\ 0 \in DOMAIN Head(stream').length
      BY <1>4, <2>2 DEF ReaderInv, InStep
    <3>2. Head(stream') \in Packets
      BY <3>1 DEF ReaderInv, ReaderTypeOK
    <3>3. Head(stream').length \in Seq(0 .. Base - 1)
      BY <3>2, PacketFacts
    <3>4. ~(0 \in DOMAIN Head(stream').length)
      BY <3>3
    <3> QED BY <3>1, <3>4
  <2>3. CASE phase' = "body"
    <3>1. packetLength' = 0
      <4> SUFFICES ASSUME packetLength' # 0 PROVE FALSE
        OBVIOUS
      <4>1. /\ stream' # <<>> /\ buffer' = <<Head(stream')>>
            /\ 0 + packetLength' = Size(Head(stream'))
            /\ 1 + packetLength' = Remaining(Head(stream')) + 1
            /\ packetLength' \in Nat
        BY <1>1, <1>4, <2>3 DEF ReaderInv, ReaderTypeOK, InStep
      <4>2. Head(stream') \in Packets
        BY <4>1 DEF ReaderInv, ReaderTypeOK
      <4> DEFINE p == Head(stream')
      <4> HIDE DEF p
      <4>3. /\ Remaining(p) \in Nat /\ Len(p.length) \in 1 .. 4
            /\ Size(p) = 1 + Len(p.length) + Remaining(p)
        BY <4>2, PacketFacts DEF p
      <4>4. 0 + packetLength' = Size(p) /\ 1 + packetLength' = Remaining(p) + 1
        BY <4>1 DEF p
      <4> QED BY <4>1, <4>3, <4>4
    <3>2. Pending' = <<Head(stream)>> \o Tail(stream)
      BY <1>1, <1>4, <2>3, <3>1 DEF Pending, Complete
    <3> QED BY <1>1, <1>2, <3>2
  <2> QED BY <1>1, <2>1, <2>2, <2>3
<1> QED BY <1>1, <1>3, <1>4 DEF TakeBytes

LEMMA ReadBodyStutters ==
    ASSUME ReaderInv, ReaderInv', NEW n \in 1 .. packetLength, ReadBody(n)
    PROVE  Pending' = Pending
<1>1. /\ phase = "body" /\ packetLength \in Nat /\ packetLength > 0
      /\ stream # <<>> /\ buffer = <<Head(stream)>> /\ taken \in Nat
      /\ taken + packetLength = Size(Head(stream)) /\ stream \in Seq(Packets)
      /\ phase' = "body" /\ buffer' = buffer /\ packetLength' = packetLength - n
      /\ TakeBytes(n)
  BY DEF ReadBody, ReaderInv, ReaderTypeOK, InStep
<1>2. Pending = stream
  BY <1>1 DEF Pending, Complete
<1>3. CASE taken + n = Size(Head(stream))
  <2>1. packetLength' = 0
    BY <1>1, <1>3
  <2>2. stream' = Tail(stream)
    BY <1>1, <1>3 DEF TakeBytes
  <2>3. Pending' = <<Head(stream)>> \o Tail(stream)
    BY <1>1, <2>1, <2>2 DEF Pending, Complete
  <2> QED BY <1>1, <1>2, <2>3
<1>4. CASE taken + n # Size(Head(stream))
  <2>1. packetLength' # 0
    BY <1>1, <1>4
  <2>2. stream' = stream
    BY <1>1, <1>4 DEF TakeBytes
  <2> QED BY <1>2, <2>1, <2>2 DEF Pending, Complete
<1> QED BY <1>3, <1>4

\* Handing the message on is its delivery.
LEMMA HandleDelivers ==
    ASSUME ReaderInv, IncomingInv, handlePublishReceived
    PROVE  /\ Pending # <<>> /\ handled' = Append(handled, Head(Pending))
           /\ Pending' = Tail(Pending) /\ sent' = sent
<1>1. /\ Complete /\ phase = "body" /\ packetLength = 0 /\ phase' = "callbacks"
      /\ stream' = stream /\ handled' = Append(handled, buffer[1]) /\ sent' = sent
  BY DEF handlePublishReceived, Complete
<1>2. PICK p \in Packets : buffer = <<p>>
  BY <1>1 DEF ReaderInv, ReaderTypeOK, InStep
<1>3. stream \in Seq(Packets)
  BY DEF ReaderInv, ReaderTypeOK
<1>4. Pending = <<p>> \o stream /\ Pending' = stream
  BY <1>1, <1>2 DEF Pending, Complete
<1> QED BY <1>1, <1>2, <1>3, <1>4

LEMMA ArrivalIsPublished ==
    ASSUME ReaderInv, NEW p \in Packets, BrokerPublishes(p)
    PROVE  /\ p \notin sent /\ sent' = sent \cup {p} /\ handled' = handled
           /\ Pending' = Append(Pending, p)
<1>1. /\ p \notin sent /\ sent' = sent \cup {p} /\ handled' = handled
      /\ stream' = Append(stream, p) /\ UNCHANGED <<phase, buffer, packetLength>>
  BY DEF BrokerPublishes, Arrives
<1>2. stream \in Seq(Packets) /\ buffer \in Seq(Packets)
  BY PendingType
<1>3. buffer \o Append(stream, p) = Append(buffer \o stream, p)
  BY <1>2
<1> QED BY <1>1, <1>3 DEF Pending, Complete

\* What each step is to AtMostOnce.
LEMMA StepInbound ==
    ASSUME ReaderInv, ReaderInv', IncomingInv, [Next]_vars
    PROVE  \/ Stutters
           \/ \E p \in Packets : BrokerPublishes(p)
           \/ handlePublishReceived
           \/ /\ Pending' = Tail(Pending) /\ Pending # <<>> /\ UNCHANGED <<sent, handled>>
           \/ /\ Pending' = <<>> /\ UNCHANGED <<sent, handled>>
<1>1. ASSUME UNCHANGED <<readerVars, sent, handled>> PROVE Stutters
  BY <1>1 DEF readerVars, Stutters, Pending, Complete
<1>2. CASE UNCHANGED incomingVars
  BY <1>1, <1>2 DEF incomingVars, messageVars
<1>3. CASE IncomingNext
  <2>1. CASE \E h \in Handlers : subscribe(h) \/ unsubscribe(FilterOf[h])
    BY <1>1, <2>1 DEF subscribe, unsubscribe, messageVars
  <2>2. CASE Register
    BY <1>1, <2>2 DEF Register, messageVars
  <2>3. CASE \E p \in Packets : BrokerPublishes(p)
    BY <2>3
  <2>4. CASE Read /\ UNCHANGED <<tableVars, asked, messageVars, losses, removals>>
    <3>1. UNCHANGED <<sent, handled>>
      BY <2>4 DEF messageVars
    <3>2. CASE ReadType
      BY <3>1, <3>2, ReadTypeStutters DEF Stutters
    <3>3. CASE ReadLength
      BY <3>1, <3>3, ReadLengthStutters DEF Stutters
    <3>4. CASE \E n \in 1 .. packetLength : ReadBody(n)
      BY <3>1, <3>4, ReadBodyStutters DEF Stutters
    <3> QED BY <2>4, <3>2, <3>3, <3>4 DEF Read
  <2>5. CASE handlePublishReceived
    BY <2>5
  <2>6. CASE RunCallback
    BY <1>1, <2>6 DEF RunCallback
  <2>7. CASE CallbacksDone
    <3>1. UNCHANGED <<sent, handled, stream>> /\ phase = "callbacks" /\ phase' = "type"
      BY <2>7 DEF CallbacksDone, ReadNext, messageVars
    <3> QED BY <3>1 DEF Stutters, Pending, Complete
  <2>8. CASE Malformed \/ Lost
    <3>1. UNCHANGED <<sent, handled>> /\ stream' = <<>> /\ phase' = "type"
      BY <2>8 DEF Malformed, Lost, Reconnect, ReaderReset
    <3> QED BY <3>1 DEF Pending, Complete
  <2> QED BY <1>3, <2>1, <2>2, <2>3, <2>4, <2>5, <2>6, <2>7, <2>8 DEF IncomingNext
<1>4. CASE UNCHANGED vars
  BY <1>2, <1>4 DEF vars
<1> QED BY <1>2, <1>3, <1>4 DEF Next, Traffic

\* All but the first stay, or none does: a message is lost.
LEMMA LoseFirst ==
    ASSUME NEW s \in Seq(Packets), s # <<>>
    PROVE  PartOf(Tail(s), s)
<1> DEFINE n == Len(s) - 1
           f == [i \in 1 .. n |-> i + 1]
           r == [i \in 1 .. n |-> s[f[i]]]
<1>1. Len(s) \in Nat /\ Len(s) # 0 /\ DOMAIN s = 1 .. Len(s)
  OBVIOUS
<1>2. n \in Nat /\ n + 1 = Len(s)
  BY <1>1
<1>3. /\ Tail(s) \in Seq(Packets) /\ Len(Tail(s)) = n
      /\ \A i \in 1 .. n : Tail(s)[i] = s[i + 1]
  OBVIOUS
<1> HIDE DEF n
<1>4. f \in [1 .. n -> DOMAIN s] /\ \A i, j \in 1 .. n : i < j => f[i] < f[j]
  BY <1>1, <1>2
<1>5. DOMAIN f = 1 .. n /\ \A i \in 1 .. n : f[i] = i + 1
  OBVIOUS
<1> HIDE DEF f
<1>6. r \in Seq(Packets) /\ Len(r) = n /\ \A i \in 1 .. n : r[i] = s[f[i]]
  BY <1>2, <1>4
<1> HIDE DEF r
<1>7. Tail(s) = r
  BY <1>3, <1>5, <1>6, SeqEqual
<1>8. Tail(s) = [i \in DOMAIN f |-> s[f[i]]]
  BY <1>5, <1>7 DEF r
<1> QED BY <1>3, <1>4, <1>8 DEF PartOf

LEMMA LoseEvery ==
    ASSUME NEW s \in Seq(Packets)
    PROVE  PartOf(<<>>, s)
<1> DEFINE f == [i \in 1 .. 0 |-> i]
<1>1. f \in [1 .. 0 -> DOMAIN s] /\ \A i, j \in 1 .. 0 : i < j => f[i] < f[j]
  OBVIOUS
<1>2. <<>> = [i \in DOMAIN f |-> s[f[i]]] /\ Len(<<>>) = 0
  OBVIOUS
<1> QED BY <1>1, <1>2 DEF PartOf

\* The broker's messages reach the callbacks in its order, and none of them twice,
\* whatever is lost: each step of the reader and of the tables is a step of
\* AtMostOnce, or none (MQTTClient.cpp:299-388).
THEOREM InboundImplements == Spec => InboundSpec
<1>1. Init => Inbound!Init
  <2>1. Init => sent = {} /\ handled = <<>> /\ stream = <<>> /\ phase = "type"
    BY DEF Init, IncomingInit, ReaderInit
  <2> QED BY <2>1 DEF Inbound!Init, Complete
<1>2. ASSUME ReaderInv, ReaderInv', IncomingInv, [Next]_vars
      PROVE  [Inbound!Next]_Inbound!pipeVars
  <2>1. CASE Stutters
    BY <2>1 DEF Stutters, Pending, Inbound!pipeVars
  <2>2. CASE \E p \in Packets : BrokerPublishes(p)
    <3>1. PICK p \in Packets : BrokerPublishes(p)
      BY <2>2
    <3>2. Inbound!Publish(p)
      BY <1>2, <3>1, ArrivalIsPublished DEF Inbound!Publish, Pending
    <3> QED BY <3>2 DEF Inbound!Next
  <2>3. CASE handlePublishReceived
    <3>1. Inbound!Deliver
      BY <1>2, <2>3, HandleDelivers DEF Inbound!Deliver, Pending
    <3> QED BY <3>1 DEF Inbound!Next
  <2>4. CASE /\ Pending' = <<>> \/ (Pending' = Tail(Pending) /\ Pending # <<>>)
             /\ UNCHANGED <<sent, handled>>
    <3>1. Pending \in Seq(Packets)
      BY <1>2, PendingType
    <3>2. PartOf(Pending', Pending)
      BY <2>4, <3>1, LoseFirst, LoseEvery
    <3>3. CASE Pending' # Pending
      <4>1. PICK f \in [1 .. Len(Pending') -> DOMAIN Pending] :
               /\ \A i, j \in 1 .. Len(Pending') : i < j => f[i] < f[j]
               /\ Pending' = [i \in DOMAIN f |-> Pending[f[i]]]
        BY <3>2 DEF PartOf
      <4>2. f \in Inbound!Choices(Len(Pending'))
        BY <4>1 DEF Inbound!Choices, Pending
      <4>3. Inbound!Lose
        BY <2>4, <3>3, <4>1, <4>2 DEF Inbound!Lose, Pending
      <4> QED BY <4>3 DEF Inbound!Next
    <3>4. CASE Pending' = Pending
      BY <2>4, <3>4 DEF Pending, Inbound!pipeVars
    <3> QED BY <3>3, <3>4
  <2> QED BY <1>2, <2>1, <2>2, <2>3, <2>4, StepInbound
<1> QED BY <1>1, <1>2, IncomingAlways, PTL DEF Spec, InboundSpec, Inbound!Spec

-----------------------------------------------------------------------------
(* The CONNECT packet. *)

\* Numbers on the wire: a digit and the rest.
LEMMA DivideType ==
    ASSUME NEW x \in Nat
    PROVE  /\ x \div Radix \in Nat /\ x % Radix \in 0 .. Radix - 1
           /\ x = Radix * (x \div Radix) + (x % Radix)
           /\ x >= Radix => x \div Radix < x
<1>1. Radix \in Nat /\ Radix > 1
  BY RadixType
<1>2. x \div Radix \in Nat /\ x % Radix \in 0 .. Radix - 1
  BY <1>1
<1>3. x - Radix * (x \div Radix) = x % Radix
  BY <1>1
<1>4. Radix * (x \div Radix) \in Nat
  BY <1>1, <1>2
<1>5. x >= Radix => x \div Radix < x
  BY <1>1
<1>6. x = Radix * (x \div Radix) + (x % Radix)
  <2> DEFINE m == Radix * (x \div Radix)
             r == x % Radix
  <2>1. m \in Nat /\ r \in Nat /\ x - m = r
    BY <1>1, <1>2, <1>3, <1>4
  <2> HIDE DEF m, r
  <2>2. x = m + r
    BY <2>1
  <2> QED BY <2>2 DEF m, r
<1> QED BY <1>2, <1>5, <1>6

\* What appendVarIntToBuffer writes, one turn of its loop at a time.
LEMMA VarIntStep ==
    ASSUME NEW x \in Nat
    PROVE  /\ appendVarInt(x) \in Seq(Nat)
           /\ appendVarInt(x) =
                 IF x < Radix THEN <<x>>
                 ELSE <<Radix + (x % Radix)>> \o appendVarInt(x \div Radix)
<1> DEFINE B == {n \in Nat : n < Radix}
           d == [n \in Nat |-> n \div Radix]
           b == [n \in Nat |-> <<n>>]
           h == [p \in Nat \X Seq(Nat) |-> <<Radix + (p[1] % Radix)>> \o p[2]]
           F(f) == [n \in Nat |-> IF n < Radix THEN <<n>>
                                  ELSE <<Radix + (n % Radix)>> \o f[n \div Radix]]
<1>1. Radix \in Nat
  BY RadixType
<1>2. d \in [Nat -> Nat] /\ \A n \in Nat \ B : d[n] < n
  <2>1. \A n \in Nat : n \div Radix \in Nat
    BY DivideType
  <2>2. \A n \in Nat \ B : n >= Radix
    BY <1>1
  <2> QED BY <2>1, <2>2, DivideType
<1>3. b \in [Nat -> Seq(Nat)]
  OBVIOUS
<1>4. h \in [Nat \X Seq(Nat) -> Seq(Nat)]
  <2>1. ASSUME NEW n \in Nat, NEW s \in Seq(Nat) PROVE <<Radix + (n % Radix)>> \o s \in Seq(Nat)
    <3>1. Radix + (n % Radix) \in Nat
      BY <1>1, DigitType
    <3>2. <<Radix + (n % Radix)>> \in Seq(Nat)
      BY <3>1
    <3> QED BY <3>2, ConcatProperties
  <2> QED BY <2>1
<1>5. PICK f \in [Nat -> Seq(Nat)] :
         \A n \in Nat : f[n] = IF n \in B THEN b[n] ELSE h[<<n, f[d[n]]>>]
  <2>1. Recursion(Seq(Nat), Nat, B, d, b, h)
    <3> HIDE DEF d, b, h
    <3> QED BY <1>2, <1>3, <1>4 DEF Recursion
  <2>2. \E f \in [Nat -> Seq(Nat)] : Solves(f, Nat, B, d, b, h)
    <3> HIDE DEF B, d, b, h
    <3> QED BY <2>1, RecursionEnds
  <2> QED BY <2>2 DEF Solves
<1>6. f = F(f)
  <2>1. ASSUME NEW n \in Nat
        PROVE  f[n] = IF n < Radix THEN <<n>>
                      ELSE <<Radix + (n % Radix)>> \o f[n \div Radix]
    <3>1. n \div Radix \in Nat /\ f[n \div Radix] \in Seq(Nat)
      BY DivideType
    <3>2. d[n] = n \div Radix /\ b[n] = <<n>> /\ (n \in B <=> n < Radix)
      OBVIOUS
    <3>3. h[<<n, f[n \div Radix]>>] = <<Radix + (n % Radix)>> \o f[n \div Radix]
      BY <3>1
    <3> HIDE DEF B, d, b, h
    <3> QED BY <1>5, <3>2, <3>3
  <2> HIDE DEF B, d, b, h
  <2> QED BY <2>1, <1>5
<1> DEFINE D == CHOOSE g : g = F(g)
<1>7. D = F(D)
  <2> HIDE DEF F
  <2> QED BY <1>6
<1>8. \A n \in Nat : appendVarInt(n) = D[n]
  BY DEF appendVarInt
<1> HIDE DEF D
<1>9. \A n \in Nat : D[n] = IF n < Radix THEN <<n>>
                            ELSE <<Radix + (n % Radix)>> \o D[n \div Radix]
  BY <1>7
<1>10. \A n \in Nat : D[n] \in Seq(Nat)
  <2> DEFINE T == {n \in Nat : D[n] \notin Seq(Nat)}
  <2> SUFFICES ASSUME T # {} PROVE FALSE
    OBVIOUS
  <2>1. PICK n \in T : \A k \in T : n <= k
    <3>1. T \subseteq Nat
      OBVIOUS
    <3> HIDE DEF T
    <3> QED BY <3>1, LeastNatural
  <2>2. n \in Nat /\ D[n] \notin Seq(Nat)
    BY <2>1
  <2> HIDE DEF T
  <2>3. CASE n < Radix
    <3>1. D[n] = <<n>>
      BY <1>9, <2>2, <2>3
    <3>2. <<n>> \in Seq(Nat)
      BY <2>2
    <3> QED BY <2>2, <3>1, <3>2
  <2>4. CASE n >= Radix
    <3>1. n \div Radix \in Nat /\ n \div Radix < n
      BY <2>2, <2>4, DivideType
    <3>2. D[n \div Radix] \in Seq(Nat)
      <4> DEFINE k == n \div Radix
      <4>1. k \in Nat /\ k < n
        BY <3>1
      <4> HIDE DEF k
      <4>2. k \notin T
        BY <2>1, <2>2, <4>1
      <4>3. D[k] \in Seq(Nat)
        BY <4>1, <4>2 DEF T
      <4> QED BY <4>3 DEF k
    <3>3. <<Radix + (n % Radix)>> \in Seq(Nat)
      <4>1. Radix + (n % Radix) \in Nat
        <5>1. n % Radix \in Nat
          BY <2>2, DigitType
        <5> QED BY <1>1, <5>1
      <4> QED BY <4>1
    <3>4. D[n] = <<Radix + (n % Radix)>> \o D[n \div Radix]
      <4>1. ~ (n < Radix)
        BY <1>1, <2>2, <2>4
      <4> QED BY <1>9, <2>2, <4>1
    <3> QED BY <2>2, <3>2, <3>3, <3>4, ConcatProperties
  <2> QED BY <1>1, <2>2, <2>3, <2>4
<1>11. x \div Radix \in Nat
  BY DivideType
<1> QED BY <1>8, <1>9, <1>10, <1>11

\* The size of fields whose strings fit, one field at a time.
LEMMA SizeBound ==
    ASSUME NEW F, NEW fields \in Seq(F), \A x \in F : x.str.len \in 0 .. TwoBytes - 1
    PROVE  /\ SizeOfFields(fields) \in Nat
           /\ SizeOfFields(fields) <= Len(fields) * (TwoBytes + 1)
<1> DEFINE D == 0 .. Len(fields)
           B == {0}
           d == [n \in D |-> IF n = 0 THEN 0 ELSE n - 1]
           b == [n \in D |-> 0]
           h == [p \in D \X Nat |-> IF p[1] = 0 THEN 0 ELSE p[2] + SizeOf(fields[p[1]])]
           G(f) == [n \in D |-> IF n = 0 THEN 0 ELSE f[n - 1] + SizeOf(fields[n])]
           size == CHOOSE g : g = G(g)
<1>1. TwoBytes \in Nat
  BY EncodingAssumption DEF TwoBytes
<1>2. ASSUME NEW n \in D, n # 0
      PROVE  /\ SizeOf(fields[n]) \in Nat /\ SizeOf(fields[n]) <= TwoBytes + 1
             /\ n - 1 \in D /\ n - 1 \in Nat
  <2>1. fields[n] \in F
    <3>1. n \in 1 .. Len(fields)
      BY <1>2
    <3> QED BY <3>1, ElementOfSeq
  <2>2. fields[n].str.len \in 0 .. TwoBytes - 1
    BY <2>1
  <2>3. n - 1 \in D /\ n - 1 \in Nat
    BY <1>2
  <2> QED BY <1>1, <2>2, <2>3 DEF SizeOf
<1>3. Recursion(Nat, D, B, d, b, h)
  <2>1. D \in SUBSET Nat /\ B \in SUBSET D /\ b \in [D -> Nat]
    OBVIOUS
  <2>2. d \in [D -> D] /\ \A n \in D \ B : d[n] < n
    BY <1>2
  <2>3. h \in [D \X Nat -> Nat]
    <3>1. \A n \in D, s \in Nat : (IF n = 0 THEN 0 ELSE s + SizeOf(fields[n])) \in Nat
      BY <1>2
    <3> HIDE DEF D
    <3> QED BY <3>1
  <2> HIDE DEF D, B, d, b, h
  <2> QED BY <2>1, <2>2, <2>3 DEF Recursion
<1>4. PICK f \in [D -> Nat] : Solves(f, D, B, d, b, h)
  <2> HIDE DEF D, B, d, b, h
  <2> QED BY <1>3, RecursionEnds
<1>5. f = G(f)
  <2>1. ASSUME NEW n \in D
        PROVE  f[n] = IF n = 0 THEN 0 ELSE f[n - 1] + SizeOf(fields[n])
    <3>1. CASE n = 0
      <4>1. f[n] = b[n]
        BY <1>4, <3>1 DEF Solves
      <4> QED BY <3>1, <4>1
    <3>2. CASE n # 0
      <4>1. n - 1 \in D /\ f[n - 1] \in Nat /\ d[n] = n - 1 /\ n \notin B
        BY <1>2, <3>2
      <4>2. f[n] = h[<<n, f[n - 1]>>]
        <5> HIDE DEF D, B, d, h
        <5> QED BY <1>4, <4>1 DEF Solves
      <4>3. h[<<n, f[n - 1]>>] = f[n - 1] + SizeOf(fields[n])
        <5> HIDE DEF D
        <5> QED BY <3>2, <4>1
      <4> QED BY <3>2, <4>2, <4>3
    <3> QED BY <3>1, <3>2
  <2> HIDE DEF D
  <2> QED BY <2>1
<1>6. size = G(size)
  <2> HIDE DEF G
  <2> QED BY <1>5
<1>7. SizeOfFields(fields) = size[Len(fields)]
  BY DEF SizeOfFields
<1> HIDE DEF size
<1>8. \A n \in D : size[n] = IF n = 0 THEN 0 ELSE size[n - 1] + SizeOf(fields[n])
  BY <1>6
<1>9. \A n \in D : size[n] \in Nat /\ size[n] <= n * (TwoBytes + 1)
  <2> DEFINE T == {n \in D : ~ (size[n] \in Nat /\ size[n] <= n * (TwoBytes + 1))}
  <2> SUFFICES ASSUME T # {} PROVE FALSE
    OBVIOUS
  <2>1. PICK n \in T : \A k \in T : n <= k
    <3>1. T \subseteq Nat
      OBVIOUS
    <3> HIDE DEF T
    <3> QED BY <3>1, LeastNatural
  <2>2. n \in D /\ n \in Nat /\ ~ (size[n] \in Nat /\ size[n] <= n * (TwoBytes + 1))
    BY <2>1
  <2> HIDE DEF T
  <2>3. CASE n = 0
    <3>1. size[n] = 0 /\ n * (TwoBytes + 1) = 0
      BY <1>1, <1>8, <2>2, <2>3
    <3> QED BY <2>2, <3>1
  <2>4. CASE n # 0
    <3>1. /\ SizeOf(fields[n]) \in Nat /\ SizeOf(fields[n]) <= TwoBytes + 1
          /\ n - 1 \in D /\ n - 1 \in Nat
      BY <1>2, <2>2, <2>4
    <3>2. n - 1 \notin T
      <4>1. ~ (n <= n - 1)
        BY <2>2
      <4> QED BY <2>1, <4>1
    <3>3. size[n - 1] \in Nat /\ size[n - 1] <= (n - 1) * (TwoBytes + 1)
      BY <3>1, <3>2 DEF T
    <3>4. (n - 1) * (TwoBytes + 1) + (TwoBytes + 1) = n * (TwoBytes + 1)
      BY <1>1, <2>2
    <3>5. (n - 1) * (TwoBytes + 1) \in Nat /\ n * (TwoBytes + 1) \in Nat
      <4>1. TwoBytes + 1 \in Nat
        BY <1>1
      <4> QED BY <2>2, <3>1, <4>1, ProductType
    <3>6. size[n] = size[n - 1] + SizeOf(fields[n])
      BY <1>8, <2>2, <2>4
    <3>7. size[n] \in Nat /\ size[n] <= n * (TwoBytes + 1)
      <4> DEFINE lo == (n - 1) * (TwoBytes + 1)
                 hi == n * (TwoBytes + 1)
                 x == SizeOf(fields[n])
                 t == TwoBytes + 1
      <4>1. /\ lo \in Nat /\ hi \in Nat /\ lo + t = hi /\ x \in Nat /\ x <= t /\ t \in Nat
            /\ size[n - 1] \in Nat /\ size[n - 1] <= lo /\ size[n] = size[n - 1] + x
        BY <1>1, <3>1, <3>3, <3>4, <3>5, <3>6
      <4> HIDE DEF lo, hi, x, t
      <4>2. size[n] \in Nat /\ size[n] <= hi
        BY <4>1
      <4> QED BY <4>2 DEF hi
    <3> QED BY <2>2, <3>7
  <2> QED BY <2>3, <2>4
<1>10. Len(fields) \in D
  OBVIOUS
<1> HIDE DEF D
<1> QED BY <1>7, <1>9, <1>10

\* A byte in front of a remaining length that is well formed and short enough.
LEMMA ByteInFront ==
    ASSUME NEW s \in Seq(Nat), WellFormed(s), Len(s) <= 3, NEW r \in 0 .. Radix - 1
    PROVE  LET t == <<Radix + r>> \o s
           IN  /\ WellFormed(t) /\ Len(t) = Len(s) + 1
               /\ ValueOf(t) = r + Radix * ValueOf(s)
<1> DEFINE t == <<Radix + r>> \o s
<1>1. Radix \in Nat /\ Radix > 1 /\ r \in Nat /\ Len(s) \in 1 .. 3
  <2>1. Radix \in Nat /\ Radix > 1
    BY RadixType
  <2>2. Len(s) \in 1 .. 4
    BY DEF WellFormed
  <2>3. r \in Nat
    BY <2>1
  <2>4. Len(s) \in 1 .. 3
    <3>1. \A n \in 1 .. 4 : n <= 3 => n \in 1 .. 3
      OBVIOUS
    <3> QED BY <2>2, <3>1
  <2> QED BY <2>1, <2>3, <2>4
<1>2. /\ t \in Seq(Nat) /\ Len(t) = Len(s) + 1 /\ t[1] = Radix + r
      /\ \A i \in 1 .. Len(s) : t[i + 1] = s[i]
  BY <1>1
<1>3. (Radix + r) % Radix = r
  BY <1>1
<1> HIDE DEF t
<1>4. WellFormed(t)
  <2>1. ASSUME NEW i \in 1 .. Len(t) PROVE t[i] >= Radix <=> i < Len(t)
    <3>1. CASE i = 1
      BY <1>1, <1>2, <3>1
    <3>2. CASE i # 1
      <4>1. i - 1 \in 1 .. Len(s) /\ t[i] = s[i - 1]
        <5>1. i - 1 \in 1 .. Len(s) /\ (i - 1) + 1 = i
          BY <1>1, <1>2, <3>2
        <5> QED BY <1>2, <5>1
      <4>2. s[i - 1] >= Radix <=> i - 1 < Len(s)
        BY <4>1 DEF WellFormed
      <4> QED BY <1>1, <1>2, <4>1, <4>2
    <3> QED BY <3>1, <3>2
  <2> QED BY <1>1, <1>2, <2>1 DEF WellFormed
<1>5. /\ DigitAt(t, 1) = r
      /\ \A j \in 1 .. 3 : DigitAt(t, j + 1) = DigitAt(s, j)
      /\ DigitAt(s, 4) = 0
  BY <1>1, <1>2, <1>3 DEF DigitAt
<1>6. ASSUME NEW u PROVE ValueOf(u) =
         DigitAt(u, 1) + Radix * (DigitAt(u, 2) + Radix * (DigitAt(u, 3) + Radix * DigitAt(u, 4)))
  BY DEF ValueOf, DigitAt
<1>7. /\ DigitAt(t, 2) = DigitAt(s, 1) /\ DigitAt(t, 3) = DigitAt(s, 2)
      /\ DigitAt(t, 4) = DigitAt(s, 3)
  BY <1>5
<1>8. \A j \in 1 .. 3 : DigitAt(s, j) \in Nat
  <2>1. ASSUME NEW j \in 1 .. 3, j <= Len(s) PROVE s[j] % Radix \in Nat
    <3>1. s[j] \in Nat
      BY <1>1, <2>1
    <3> QED BY <3>1, DigitType
  <2> QED BY <2>1 DEF DigitAt
<1>9. Radix * 0 = 0 /\ DigitAt(s, 3) \in Nat /\ DigitAt(s, 3) + Radix * 0 = DigitAt(s, 3)
  BY <1>1, <1>8
<1> QED BY <1>2, <1>4, <1>5, <1>6, <1>7, <1>9 DEF t

\* The broker reads the remaining length appendVarIntToBuffer has written.
VarIntReads(m, k) ==
    \A x \in Nat : x < m => /\ WellFormed(appendVarInt(x)) /\ Len(appendVarInt(x)) <= k
                            /\ ValueOf(appendVarInt(x)) = x

LEMMA VarIntGrows ==
    ASSUME NEW m \in Nat, NEW k \in 1 .. 3, VarIntReads(m, k), m >= 1
    PROVE  VarIntReads(m * Radix, k + 1)
<1> SUFFICES ASSUME NEW x \in Nat, x < m * Radix
             PROVE  /\ WellFormed(appendVarInt(x)) /\ Len(appendVarInt(x)) <= k + 1
                    /\ ValueOf(appendVarInt(x)) = x
  BY DEF VarIntReads
<1>1. Radix \in Nat /\ Radix > 1
  BY RadixType
<1>2. CASE x < Radix
  <2>1. appendVarInt(x) = <<x>>
    BY <1>2, VarIntStep
  <2>2. x % Radix = x
    BY <1>1, <1>2
  <2>3. ValueOf(<<x>>) = x
    BY <1>1, <2>2 DEF ValueOf
  <2>4. WellFormed(<<x>>) /\ Len(<<x>>) = 1
    BY <1>1, <1>2 DEF WellFormed
  <2> QED BY <2>1, <2>3, <2>4
<1>3. CASE ~ (x < Radix)
  <2> DEFINE q == x \div Radix
             r == x % Radix
  <2>1. q \in Nat /\ r \in 0 .. Radix - 1 /\ x = Radix * q + r
    BY DivideType
  <2>2. q < m
    BY <1>1
  <2>3. appendVarInt(x) = <<Radix + r>> \o appendVarInt(q)
    BY <1>3, VarIntStep
  <2>4. appendVarInt(q) \in Seq(Nat)
    BY <2>1, VarIntStep
  <2> HIDE DEF q, r
  <2>5. /\ WellFormed(appendVarInt(q)) /\ Len(appendVarInt(q)) <= k
        /\ ValueOf(appendVarInt(q)) = q
    BY <2>1, <2>2 DEF VarIntReads
  <2>6. Len(appendVarInt(q)) <= 3 /\ Len(appendVarInt(q)) \in Nat
    BY <2>4, <2>5
  <2>7. /\ WellFormed(appendVarInt(x)) /\ Len(appendVarInt(x)) = Len(appendVarInt(q)) + 1
        /\ ValueOf(appendVarInt(x)) = r + Radix * q
    BY <2>1, <2>3, <2>4, <2>5, <2>6, ByteInFront
  <2>8. Radix * q \in Nat
    BY <1>1, <2>1, ProductType
  <2> QED BY <2>1, <2>5, <2>6, <2>7, <2>8
<1> QED BY <1>2, <1>3

LEMMA VarIntIsRead ==
    ASSUME NEW x \in 0 .. MaxLength
    PROVE  WellFormed(appendVarInt(x)) /\ ValueOf(appendVarInt(x)) = x
<1>1. Radix \in Nat /\ Radix > 1
  BY RadixType
<1>2. /\ Radix * Radix \in Nat /\ Radix * Radix >= 1
      /\ Radix * Radix * Radix \in Nat /\ Radix * Radix * Radix >= 1
      /\ Radix * Radix * Radix * Radix \in Nat
  BY <1>1
<1>3. VarIntReads(Radix, 1)
  <2> SUFFICES ASSUME NEW y \in Nat, y < Radix
               PROVE  /\ WellFormed(appendVarInt(y)) /\ Len(appendVarInt(y)) <= 1
                      /\ ValueOf(appendVarInt(y)) = y
    BY DEF VarIntReads
  <2>1. appendVarInt(y) = <<y>>
    BY VarIntStep
  <2>2. y % Radix = y
    BY <1>1
  <2>3. ValueOf(<<y>>) = y
    BY <1>1, <2>2 DEF ValueOf
  <2>4. WellFormed(<<y>>) /\ Len(<<y>>) = 1
    BY <1>1 DEF WellFormed
  <2> QED BY <2>1, <2>3, <2>4
<1>4. VarIntReads(Radix * Radix, 1 + 1)
  BY <1>1, <1>3, VarIntGrows
<1>5. VarIntReads(Radix * Radix * Radix, 2 + 1)
  BY <1>2, <1>4, VarIntGrows
<1>6. VarIntReads(Radix * Radix * Radix * Radix, 3 + 1)
  BY <1>2, <1>5, VarIntGrows
<1>7. x \in Nat /\ x < Radix * Radix * Radix * Radix
  BY <1>2 DEF MaxLength
<1> QED BY <1>6, <1>7 DEF VarIntReads

\* The fields are those named by kinds, each with the string that is meant by its
\* name, and with the length of that string.
Texts == [len : Nat, val : STRING \cup {"none"}]
Fields == {x \in [length : Nat, str : Texts] : x.str.len \in 0 .. TwoBytes - 1}
Names == {"clientID", "willTopic", "willPayload", "username", "password"}
Says(kinds, fields, meant) ==
    /\ kinds \in Seq(Names) /\ fields \in Seq(Fields) /\ Len(kinds) = Len(fields)
    /\ \A i \in DOMAIN kinds : /\ fields[i].str = meant[kinds[i]]
                               /\ fields[i].length = fields[i].str.len
NamesOf(kinds) == {kinds[i] : i \in DOMAIN kinds}

LEMMA SaysConcat ==
    ASSUME NEW meant, NEW k1, NEW f1, NEW k2, NEW f2,
           Says(k1, f1, meant), Says(k2, f2, meant)
    PROVE  Says(k1 \o k2, f1 \o f2, meant)
<1>1. /\ k1 \in Seq(Names) /\ k2 \in Seq(Names) /\ f1 \in Seq(Fields) /\ f2 \in Seq(Fields)
      /\ Len(k1) = Len(f1) /\ Len(k2) = Len(f2)
  BY DEF Says
<1>2. /\ k1 \o k2 \in Seq(Names) /\ f1 \o f2 \in Seq(Fields)
      /\ Len(k1 \o k2) = Len(k1) + Len(k2) /\ Len(f1 \o f2) = Len(f1) + Len(f2)
  BY <1>1, ConcatProperties
<1>3. ASSUME NEW i \in DOMAIN (k1 \o k2)
      PROVE  /\ (f1 \o f2)[i].str = meant[(k1 \o k2)[i]]
             /\ (f1 \o f2)[i].length = (f1 \o f2)[i].str.len
  <2>1. i \in 1 .. Len(k1) + Len(k2)
    BY <1>2
  <2>2. CASE i <= Len(k1)
    <3>1. (k1 \o k2)[i] = k1[i] /\ (f1 \o f2)[i] = f1[i] /\ i \in DOMAIN k1
      BY <1>1, <2>1, <2>2
    <3> QED BY <3>1 DEF Says
  <2>3. CASE i > Len(k1)
    <3>1. /\ (k1 \o k2)[i] = k2[i - Len(k1)] /\ (f1 \o f2)[i] = f2[i - Len(k1)]
          /\ i - Len(k1) \in DOMAIN k2
      BY <1>1, <2>1, <2>3
    <3> QED BY <3>1 DEF Says
  <2> QED BY <1>1, <2>1, <2>2, <2>3
<1> QED BY <1>1, <1>2, <1>3 DEF Says

LEMMA SaysOne ==
    ASSUME NEW meant, NEW name \in Names, NEW s \in Texts, s = meant[name], s.len < TwoBytes
    PROVE  Says(<<name>>, <<appendString2ByteLength(s)>>, meant)
<1>1. TwoBytes \in Nat /\ TwoBytes > 0
  BY EncodingAssumption DEF TwoBytes
<1>2. s.len \in Nat /\ s.len % TwoBytes = s.len
  BY <1>1 DEF Texts
<1>3. appendString2ByteLength(s) = [length |-> s.len, str |-> s]
  BY <1>2 DEF appendString2ByteLength
<1>4. [length |-> s.len, str |-> s] \in Fields
  BY <1>1, <1>2 DEF Fields
<1> DEFINE x == [length |-> s.len, str |-> s]
<1>5. x.length = s.len /\ x.str = s /\ x \in Fields
  BY <1>4
<1> HIDE DEF x
<1>6. <<name>> \in Seq(Names) /\ <<x>> \in Seq(Fields)
  BY <1>5
<1> QED BY <1>3, <1>5, <1>6 DEF Says, x

LEMMA SaysNothing ==
    ASSUME NEW meant
    PROVE  Says(<<>>, <<>>, meant)
BY DEF Says

LEMMA NamesConcat ==
    ASSUME NEW k1 \in Seq(Names), NEW k2 \in Seq(Names)
    PROVE  NamesOf(k1 \o k2) = NamesOf(k1) \cup NamesOf(k2)
<1>1. /\ Len(k1) \in Nat /\ Len(k2) \in Nat /\ DOMAIN k1 = 1 .. Len(k1)
      /\ DOMAIN k2 = 1 .. Len(k2) /\ DOMAIN (k1 \o k2) = 1 .. Len(k1) + Len(k2)
  BY ConcatProperties
<1>2. ASSUME NEW i \in DOMAIN (k1 \o k2)
      PROVE  (k1 \o k2)[i] \in NamesOf(k1) \cup NamesOf(k2)
  <2>1. CASE i <= Len(k1)
    BY <1>1, <2>1 DEF NamesOf
  <2>2. CASE i > Len(k1)
    <3>1. (k1 \o k2)[i] = k2[i - Len(k1)] /\ i - Len(k1) \in DOMAIN k2
      BY <1>1, <2>2
    <3> QED BY <3>1 DEF NamesOf
  <2> QED BY <1>1, <2>1, <2>2
<1>3. ASSUME NEW i \in DOMAIN k1 PROVE k1[i] \in NamesOf(k1 \o k2)
  <2>1. i \in DOMAIN (k1 \o k2) /\ (k1 \o k2)[i] = k1[i]
    BY <1>1
  <2> QED BY <2>1 DEF NamesOf
<1>4. ASSUME NEW i \in DOMAIN k2 PROVE k2[i] \in NamesOf(k1 \o k2)
  <2>1. i + Len(k1) \in DOMAIN (k1 \o k2) /\ (k1 \o k2)[i + Len(k1)] = k2[i]
    BY <1>1
  <2> QED BY <2>1 DEF NamesOf
<1> QED BY <1>2, <1>3, <1>4 DEF NamesOf

LEMMA NamesOfOne ==
    /\ \A name : NamesOf(<<name>>) = {name}
    /\ NamesOf(<<>>) = {}
BY DEF NamesOf

ConfigTypes ==
    [will : SUBSET Wills, hostname : Texts, port : Nat, username : Texts,
     password : Texts, clientID : Texts, cleanSession : BOOLEAN, keepAlive : Nat,
     maxRetries : Int, delay : Nat, onConnect : BOOLEAN]

ConfigInv == /\ mConfig \in ConfigTypes
             /\ wrote = NotWritten \/ wrote = ConnectPacket(mConfig)

LEMMA ConfigStep ==
    ASSUME ConfigInv, [Next]_vars
    PROVE  ConfigInv'
<1>1. CASE UNCHANGED configVars
  BY <1>1 DEF ConfigInv, configVars
<1>2. CASE WriteConnect
  BY <1>2 DEF WriteConnect, ConfigInv
<1>3. CASE Build
  <2>1. Strings \subseteq Texts /\ Numbers \subseteq Nat
    <3>1. TwoBytes \in Nat
      BY EncodingAssumption DEF TwoBytes
    <3> QED BY <3>1, ConfigurationAssumption DEF Texts
  <2>2. \A w \in Wills : {w} \in SUBSET Wills
    OBVIOUS
  <2>3. mConfig' \in ConfigTypes
    <3>1. CASE will
      BY <2>2, <3>1 DEF ConfigInv, ConfigTypes, will, Set
    <3>2. CASE hostname
      BY <2>1, <3>2 DEF ConfigInv, ConfigTypes, hostname, Set
    <3>3. CASE port
      BY <2>1, <3>3 DEF ConfigInv, ConfigTypes, port, Set
    <3>4. CASE username
      BY <2>1, <3>4 DEF ConfigInv, ConfigTypes, username, Set
    <3>5. CASE password
      BY <2>1, <3>5 DEF ConfigInv, ConfigTypes, password, Set
    <3>6. CASE clientID
      BY <2>1, <3>6 DEF ConfigInv, ConfigTypes, clientID, Set
    <3>7. CASE cleanSession
      BY <3>7 DEF ConfigInv, ConfigTypes, cleanSession, Set
    <3>8. CASE keepAliveInterval
      BY <2>1, <3>8 DEF ConfigInv, ConfigTypes, keepAliveInterval, Set
    <3>9. CASE maxRetriesOnDisconnect
      BY <3>9 DEF ConfigInv, ConfigTypes, maxRetriesOnDisconnect, Set
    <3>10. CASE delayBetweenRetries
      BY <2>1, <3>10 DEF ConfigInv, ConfigTypes, delayBetweenRetries, Set
    <3>11. CASE onConnect
      BY <3>11 DEF ConfigInv, ConfigTypes, onConnect, Set
    <3> QED BY <1>3, <3>1, <3>2, <3>3, <3>4, <3>5, <3>6, <3>7, <3>8, <3>9, <3>10, <3>11
            DEF Build
  <2>4. wrote' = NotWritten
    BY <1>3 DEF Build, will, hostname, port, username, password, clientID, cleanSession,
        keepAliveInterval, maxRetriesOnDisconnect, delayBetweenRetries, onConnect, Set
  <2> QED BY <2>3, <2>4 DEF ConfigInv
<1> QED BY <1>1, <1>2, <1>3 DEF Next, vars

\* The fields of a CONNECT packet are those its flags announce, with the strings
\* of the configuration, and the flags announce each string that is not empty.
LEMMA PacketSays ==
    ASSUME NEW c \in ConfigTypes, Fits(c)
    PROVE  LET p == ConnectPacket(c)
               kinds == FieldsExpected(p)
           IN  /\ Says(kinds, p.fields, FieldsMeant(c)) /\ Len(kinds) <= 5
               /\ \A name \in Names :
                     Given(FieldsMeant(c)[name]) => name \in NamesOf(kinds)
               /\ "will" \in p.flags <=> c.will # {}
               /\ "willRetain" \in p.flags <=> \E w \in c.will : w.retain
               /\ "cleanSession" \in p.flags <=> c.cleanSession
<1> DEFINE p == ConnectPacket(c)
           meant == FieldsMeant(c)
           w0 == CHOOSE w \in c.will : TRUE
           name1 == <<"clientID">>
           name2 == Flag(p, "will", "willTopic")
           name3 == Flag(p, "will", "willPayload")
           name4 == Flag(p, "username", "username")
           name5 == Flag(p, "password", "password")
           text1 == <<appendString2ByteLength(c.clientID)>>
           text2 == IF c.will = {} THEN <<>> ELSE <<appendString2ByteLength(w0.topic)>>
           text3 == IF c.will = {} THEN <<>> ELSE <<appendString2ByteLength(w0.payload)>>
           text23 == IF c.will = {} THEN <<>>
                     ELSE <<appendString2ByteLength(w0.topic),
                            appendString2ByteLength(w0.payload)>>
           text4 == OptionalField(c.username)
           text5 == OptionalField(c.password)
<1>1. /\ p.flags = FlagsOf(c) /\ p.fields = PayloadOf(c)
  BY DEF ConnectPacket
<1>2. /\ "username" \in p.flags <=> Given(c.username)
      /\ "password" \in p.flags <=> Given(c.password)
      /\ "will" \in p.flags <=> c.will # {}
      /\ "willRetain" \in p.flags <=> \E w \in c.will : w.retain
      /\ "cleanSession" \in p.flags <=> c.cleanSession
  BY <1>1 DEF FlagsOf, When
<1>3. /\ meant["clientID"] = c.clientID /\ meant["username"] = c.username
      /\ meant["password"] = c.password
      /\ meant["willTopic"] = IF c.will = {} THEN EmptyString ELSE w0.topic
      /\ meant["willPayload"] = IF c.will = {} THEN EmptyString ELSE w0.payload
      /\ DOMAIN meant = Names
  BY DEF FieldsMeant, Names
<1>4. \A name \in Names : meant[name] \in Texts /\ meant[name].len < TwoBytes
  <2>1. EmptyString \in Texts
    BY DEF EmptyString, Texts
  <2>2. c.will # {} => w0.topic \in Texts /\ w0.payload \in Texts
    <3>1. \A w \in Wills : w.topic \in Texts /\ w.payload \in Texts
      BY ConfigurationAssumption DEF Wills, Texts
    <3>2. c.will \subseteq Wills
      BY DEF ConfigTypes
    <3>3. c.will # {} => w0 \in c.will
      OBVIOUS
    <3> QED BY <3>1, <3>2, <3>3
  <2>3. c.clientID \in Texts /\ c.username \in Texts /\ c.password \in Texts
    BY DEF ConfigTypes
  <2>4. \A name \in Names : meant[name].len < TwoBytes
    BY <1>3 DEF Fits
  <2> HIDE DEF w0, meant
  <2>5. \A name \in Names : meant[name] \in Texts
    BY <1>3, <2>1, <2>2, <2>3 DEF Names
  <2> QED BY <2>4, <2>5
<1> HIDE DEF p, meant, w0
<1>5. Says(name1, text1, meant)
  BY <1>3, <1>4, SaysOne DEF Names
<1>6. Says(name2, text2, meant) /\ Says(name3, text3, meant)
  <2>1. CASE c.will = {}
    BY <1>2, <2>1, SaysNothing DEF Flag
  <2>2. CASE c.will # {}
    <3>1. /\ Says(<<"willTopic">>, <<appendString2ByteLength(w0.topic)>>, meant)
          /\ Says(<<"willPayload">>, <<appendString2ByteLength(w0.payload)>>, meant)
      BY <1>3, <1>4, <2>2, SaysOne DEF Names
    <3> QED BY <1>2, <2>2, <3>1 DEF Flag
  <2> QED BY <2>1, <2>2
<1>7. Says(name4, text4, meant)
  <2>1. Says(<<"username">>, <<appendString2ByteLength(c.username)>>, meant)
    BY <1>3, <1>4, SaysOne DEF Names
  <2> QED BY <1>2, <2>1, SaysNothing DEF Flag, OptionalField
<1>8. Says(name5, text5, meant)
  <2>1. Says(<<"password">>, <<appendString2ByteLength(c.password)>>, meant)
    BY <1>3, <1>4, SaysOne DEF Names
  <2> QED BY <1>2, <2>1, SaysNothing DEF Flag, OptionalField
<1>9. FieldsExpected(p) = name1 \o name2 \o name3 \o name4 \o name5
  BY DEF FieldsExpected
<1>10. p.fields = text1 \o text2 \o text3 \o text4 \o text5
  <2>1. PayloadOf(c) = text1 \o text23 \o text4 \o text5
    BY DEF PayloadOf, w0
  <2>2. text1 \o text23 = (text1 \o text2) \o text3
    <3>1. CASE c.will = {}
      BY <3>1
    <3>2. CASE c.will # {}
      <4> SUFFICES ASSUME NEW a, NEW b, NEW e
                   PROVE  <<a>> \o <<b, e>> = (<<a>> \o <<b>>) \o <<e>>
        BY <3>2
      <4> DEFINE S == {a, b, e}
      <4>1. /\ <<a>> \in Seq(S) /\ <<b>> \in Seq(S) /\ <<e>> \in Seq(S) /\ <<b, e>> \in Seq(S)
        OBVIOUS
      <4>2. <<b, e>> = <<b>> \o <<e>>
        <5>1. <<b>> \o <<e>> \in Seq(S) /\ Len(<<b>> \o <<e>>) = 2
          BY <4>1, ConcatProperties
        <5>2. (<<b>> \o <<e>>)[1] = b /\ (<<b>> \o <<e>>)[2] = e
          OBVIOUS
        <5>3. \A i \in 1 .. Len(<<b, e>>) : <<b, e>>[i] = (<<b>> \o <<e>>)[i]
          BY <5>2
        <5> HIDE DEF S
        <5> QED BY <4>1, <5>1, <5>3, SeqEqual
      <4> HIDE DEF S
      <4> QED BY <4>1, <4>2, ConcatAssociative
    <3> QED BY <3>1, <3>2
  <2> HIDE DEF text1, text2, text3, text23, text4, text5
  <2> QED BY <1>1, <2>1, <2>2
<1>11. /\ Len(name1) = 1 /\ Len(name2) <= 1 /\ Len(name3) <= 1
       /\ Len(name4) <= 1 /\ Len(name5) <= 1
  BY DEF Flag
<1>12. /\ NamesOf(name1) = {"clientID"}
       /\ "will" \in p.flags => NamesOf(name2) = {"willTopic"}
       /\ "will" \in p.flags => NamesOf(name3) = {"willPayload"}
       /\ "username" \in p.flags => NamesOf(name4) = {"username"}
       /\ "password" \in p.flags => NamesOf(name5) = {"password"}
  BY NamesOfOne DEF Flag
<1> HIDE DEF name1, name2, name3, name4, name5, text1, text2, text3, text4, text5
<1>13. /\ name1 \in Seq(Names) /\ name2 \in Seq(Names) /\ name3 \in Seq(Names)
       /\ name4 \in Seq(Names) /\ name5 \in Seq(Names)
  BY <1>5, <1>6, <1>7, <1>8 DEF Says
<1> DEFINE k2 == name1 \o name2
           k3 == k2 \o name3
           k4 == k3 \o name4
           k5 == k4 \o name5
<1>14. Says(k5, p.fields, meant)
  <2>1. Says(k2, text1 \o text2, meant)
    BY <1>5, <1>6, SaysConcat
  <2>2. Says(k3, text1 \o text2 \o text3, meant)
    BY <1>6, <2>1, SaysConcat
  <2>3. Says(k4, text1 \o text2 \o text3 \o text4, meant)
    BY <1>7, <2>2, SaysConcat
  <2> QED BY <1>8, <1>10, <2>3, SaysConcat
<1>15. k2 \in Seq(Names) /\ k3 \in Seq(Names) /\ k4 \in Seq(Names)
  BY <1>13, ConcatProperties
<1>16. NamesOf(k5) = NamesOf(name1) \cup NamesOf(name2) \cup NamesOf(name3)
                      \cup NamesOf(name4) \cup NamesOf(name5)
  <2>1. NamesOf(k2) = NamesOf(name1) \cup NamesOf(name2)
    BY <1>13, NamesConcat
  <2>2. NamesOf(k3) = NamesOf(k2) \cup NamesOf(name3)
    BY <1>13, <1>15, NamesConcat
  <2>3. NamesOf(k4) = NamesOf(k3) \cup NamesOf(name4)
    BY <1>13, <1>15, NamesConcat
  <2>4. NamesOf(k5) = NamesOf(k4) \cup NamesOf(name5)
    BY <1>13, <1>15, NamesConcat
  <2> HIDE DEF k2, k3, k4, k5
  <2> QED BY <2>1, <2>2, <2>3, <2>4
<1>17. Len(k5) <= 5
  <2>1. /\ Len(k2) = Len(name1) + Len(name2) /\ Len(k3) = Len(k2) + Len(name3)
        /\ Len(k4) = Len(k3) + Len(name4) /\ Len(k5) = Len(k4) + Len(name5)
    BY <1>13, <1>15, ConcatProperties
  <2>2. /\ Len(name1) \in Nat /\ Len(name2) \in Nat /\ Len(name3) \in Nat
        /\ Len(name4) \in Nat /\ Len(name5) \in Nat
    BY <1>13
  <2> HIDE DEF k2, k3, k4, k5
  <2> QED BY <1>11, <2>1, <2>2
<1>18. \A name \in Names : Given(meant[name]) => name \in NamesOf(k5)
  <2>1. ~ Given(EmptyString)
    BY DEF Given, EmptyString
  <2>2. /\ "clientID" \in NamesOf(k5)
        /\ Given(meant["willTopic"]) => "willTopic" \in NamesOf(k5)
        /\ Given(meant["willPayload"]) => "willPayload" \in NamesOf(k5)
        /\ Given(meant["username"]) => "username" \in NamesOf(k5)
        /\ Given(meant["password"]) => "password" \in NamesOf(k5)
    BY <1>2, <1>3, <1>12, <1>16, <2>1
  <2> HIDE DEF k5
  <2> QED BY <2>2 DEF Names
<1>19. FieldsExpected(p) = k5
  BY <1>9
<1> HIDE DEF k5
<1> QED BY <1>2, <1>14, <1>17, <1>18, <1>19 DEF p, meant

LEMMA ConnectFits ==
    ASSUME Base >= 10, NEW size \in Nat, size <= 5 * (TwoBytes + 1)
    PROVE  VariableHeader + size \in 0 .. MaxLength
<1> DEFINE s == Radix * Radix
<1>1. Radix \in Nat /\ Radix >= 5 /\ Base = 2 * Radix
  BY EncodingAssumption DEF Radix
<1>2. TwoBytes = 4 * s
  BY <1>1 DEF TwoBytes
<1>3. s \in Nat /\ s >= 25
  BY <1>1
<1>4. MaxLength = s * s - 1
  BY <1>1 DEF MaxLength
<1> HIDE DEF s
<1>5. s * s \in Nat /\ s * s >= 25 * s
  BY <1>3
<1> QED BY <1>2, <1>3, <1>4, <1>5 DEF VariableHeader

\* The broker reads from the CONNECT packet what the application configured,
\* whichever setters it called and in whichever order (MQTTClient.cpp:452-501).
\* With bytes of 256 values, and of ten or more, five strings that fit do not make
\* the packet too long.
THEOREM ConnectCarriesConfigCorrect ==
    ASSUME Base >= 10
    PROVE  Spec => []ConnectCarriesConfig
<1>1. Init => ConfigInv
  <2>1. EmptyString \in Texts
    BY DEF EmptyString, Texts
  <2>2. DefaultConfig \in ConfigTypes
    BY <2>1 DEF DefaultConfig, ConfigTypes
  <2> QED BY <2>2 DEF Init, ConfigInit, ConfigInv
<1>2. ConfigInv /\ [Next]_vars => ConfigInv'
  BY ConfigStep
<1>3. ConfigInv => ConnectCarriesConfig
  <2> SUFFICES ASSUME ConfigInv, wrote # NotWritten, Fits(mConfig)
               PROVE  ConnectCarriesConfig
    BY DEF ConnectCarriesConfig
  <2> DEFINE c == mConfig
             p == ConnectPacket(c)
             kinds == FieldsExpected(p)
             meant == FieldsMeant(c)
  <2>1. wrote = p /\ c \in ConfigTypes
    BY DEF ConfigInv
  <2>2. /\ Says(kinds, p.fields, meant) /\ Len(kinds) <= 5
        /\ \A name \in Names : Given(meant[name]) => name \in NamesOf(kinds)
        /\ "will" \in p.flags <=> c.will # {}
        /\ "willRetain" \in p.flags <=> \E w \in c.will : w.retain
        /\ "cleanSession" \in p.flags <=> c.cleanSession
    BY <2>1, PacketSays
  <2>3. /\ p.length = appendVarInt(VariableHeader + SizeOfFields(p.fields))
        /\ p.keepAlive = c.keepAlive
    BY DEF ConnectPacket
  <2>4. DOMAIN meant = Names
    BY DEF FieldsMeant, Names
  <2> HIDE DEF p, kinds, meant
  <2>5. /\ p.fields \in Seq(Fields) /\ Len(kinds) = Len(p.fields)
        /\ DOMAIN kinds = DOMAIN p.fields
        /\ \A i \in DOMAIN kinds : /\ p.fields[i].str = meant[kinds[i]]
                                   /\ p.fields[i].length = p.fields[i].str.len
    BY <2>2 DEF Says
  <2>6. VariableHeader + SizeOfFields(p.fields) \in 0 .. MaxLength
    <3>1. TwoBytes \in Nat
      BY EncodingAssumption DEF TwoBytes
    <3>2. \A x \in Fields : x.str.len \in 0 .. TwoBytes - 1
      BY DEF Fields
    <3>3. /\ SizeOfFields(p.fields) \in Nat
          /\ SizeOfFields(p.fields) <= Len(p.fields) * (TwoBytes + 1)
      BY <2>5, <3>2, SizeBound
    <3>4. Len(p.fields) * (TwoBytes + 1) <= 5 * (TwoBytes + 1)
      <4>1. Len(p.fields) \in Nat /\ Len(p.fields) <= 5
        BY <2>2, <2>5
      <4>2. \A m, n, t \in Nat : m <= n => m * t <= n * t
        OBVIOUS
      <4>3. TwoBytes + 1 \in Nat
        BY <3>1
      <4> QED BY <4>1, <4>2, <4>3
    <3>5. Len(p.fields) * (TwoBytes + 1) \in Nat
      <4>1. Len(p.fields) \in Nat /\ TwoBytes + 1 \in Nat
        BY <2>5, <3>1
      <4> QED BY <4>1, ProductType
    <3>6. SizeOfFields(p.fields) <= 5 * (TwoBytes + 1)
      <4> DEFINE m == Len(p.fields) * (TwoBytes + 1)
                 n == 5 * (TwoBytes + 1)
      <4>1. m \in Nat /\ n \in Nat /\ SizeOfFields(p.fields) <= m /\ m <= n
        <5>1. 5 * (TwoBytes + 1) \in Nat
          BY <3>1
        <5> QED BY <3>3, <3>4, <3>5, <5>1
      <4> HIDE DEF m, n
      <4>2. SizeOfFields(p.fields) <= n
        BY <3>3, <4>1
      <4> QED BY <4>2 DEF n
    <3> QED BY <3>3, <3>6, ConnectFits
  <2>7. /\ WellFormed(p.length)
        /\ ValueOf(p.length) = VariableHeader + SizeOfFields(p.fields)
    BY <2>3, <2>6, VarIntIsRead
  <2>8. Readable(p.fields) /\ StringsOf(p.fields) = [i \in DOMAIN p.fields |-> p.fields[i].str]
    BY <2>5 DEF Readable, StringsOf
  <2>9. ASSUME NEW name \in DOMAIN meant
        PROVE  IF \E i \in DOMAIN kinds : kinds[i] = name
               THEN \A i \in DOMAIN kinds : kinds[i] = name =>
                       StringsOf(p.fields)[i] = meant[name]
               ELSE ~Given(meant[name])
    <3>1. CASE \E i \in DOMAIN kinds : kinds[i] = name
      BY <2>5, <2>8, <3>1
    <3>2. CASE ~ \E i \in DOMAIN kinds : kinds[i] = name
      <4>1. name \notin NamesOf(kinds)
        BY <3>2 DEF NamesOf
      <4> QED BY <2>2, <2>4, <3>2, <4>1
    <3> QED BY <3>1, <3>2
  <2>10. /\ kinds = FieldsExpected(wrote) /\ meant = FieldsMeant(mConfig) /\ wrote = p
    BY <2>1 DEF kinds, meant
  <2> QED BY <2>2, <2>3, <2>5, <2>7, <2>8, <2>9, <2>10 DEF ConnectCarriesConfig
<1> QED BY <1>1, <1>2, <1>3, PTL DEF Spec

=============================================================================
