------------------------------ MODULE Encoding ------------------------------
(***************************************************************************)
(* Numbers and strings on the wire: Helper.cpp, and how MQTT 3.1.1 reads   *)
(* what it writes.  A byte has Base values, 256 in the program; the upper  *)
(* half of them marks a byte of a remaining length that more bytes follow. *)
(* A string is its length in bytes and what it says.                       *)
(***************************************************************************)
EXTENDS Integers, Sequences

CONSTANT Base

ASSUME EncodingAssumption == Base \in Nat /\ Base >= 4 /\ Base % 2 = 0

Radix == Base \div 2        \* 128
TwoBytes == Base * Base     \* uint16_t

\* appendVarIntToBuffer: the digits of x, the lowest first, all but the last
\* with the upper bit set.
appendVarInt(x) ==
    LET digits[n \in Nat] == IF n < Radix THEN <<n>>
                              ELSE <<Radix + (n % Radix)>> \o digits[n \div Radix]
    IN  digits[x]

\* A string behind its length: appendString2ByteLengthToBuffer cuts the length
\* to two bytes, and writes every byte of the string.
appendString2ByteLength(str) == [length |-> str.len % TwoBytes, str |-> str]
SizeOf(field) == 2 + field.str.len

\* The number of bytes of some fields.
SizeOfFields(fields) ==
    LET size[n \in 0 .. Len(fields)] ==
            IF n = 0 THEN 0 ELSE size[n - 1] + SizeOf(fields[n])
    IN  size[Len(fields)]

-----------------------------------------------------------------------------
(* MQTT 3.1.1, 1.5.3 and 2.2.3. *)

\* The strings of fields whose lengths say what follows them.
Readable(fields) == \A i \in DOMAIN fields : fields[i].length = fields[i].str.len
StringsOf(fields) == [i \in DOMAIN fields |-> fields[i].str]

\* The number that up to four bytes stand for.
MaxLength == Radix * Radix * Radix * Radix - 1
WellFormed(bytes) ==
    /\ Len(bytes) \in 1 .. 4
    /\ \A i \in DOMAIN bytes : bytes[i] >= Radix <=> i < Len(bytes)
ValueOf(bytes) ==
    LET digit(i) == IF i <= Len(bytes) THEN bytes[i] % Radix ELSE 0
    IN  digit(1) + Radix * (digit(2) + Radix * (digit(3) + Radix * digit(4)))

=============================================================================
