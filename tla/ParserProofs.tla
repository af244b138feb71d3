----------------------------- MODULE ParserProofs -----------------------------
(***************************************************************************)
(* main() does what the command line says: ParseInv is inductive, and with *)
(* it ConfigAsGiven, MessagesAsGiven and SoundIsObeyed hold for all        *)
(* command lines of which CliAssumption speaks.                            *)
(***************************************************************************)
EXTENDS CliInvariant, PositionLemmas, SequenceTheorems

-----------------------------------------------------------------------------
(* FlattenSeq, one sequence at a time. *)

\* What FlattenSeq computes, one sequence at a time.
LEMMA FlattenIs ==
    ASSUME NEW S, NEW parts \in Seq(Seq(S)), NEW f \in [0 .. Len(parts) -> Seq(S)],
           f[0] = <<>>, \A n \in 1 .. Len(parts) : f[n] = f[n - 1] \o parts[n]
    PROVE  FlattenSeq(parts) = f[Len(parts)]
<1> DEFINE len == Len(parts)
           G(F) == [i \in 1 .. len |-> IF i = 1 THEN parts[i] ELSE F[i - 1] \o parts[i]]
           d == CHOOSE F : F = G(F)
           g == [i \in 1 .. len |-> f[i]]
<1>1. len \in Nat /\ \A i \in 1 .. len : parts[i] \in Seq(S)
  OBVIOUS
<1>2. CASE len = 0
  BY <1>2 DEF FlattenSeq
<1>3. CASE len # 0
  <2>1. g = G(g)
    <3>1. ASSUME NEW i \in 1 .. len
          PROVE  f[i] = IF i = 1 THEN parts[i] ELSE g[i - 1] \o parts[i]
      <4>1. CASE i = 1
        <5>1. f[i] = <<>> \o parts[i]
          <6>1. f[1] = f[0] \o parts[1]
            <7>1. 1 \in 1 .. Len(parts) /\ 1 - 1 = 0
              BY <1>1, <4>1
            <7> QED BY <7>1
          <6> QED BY <4>1, <6>1
        <5>2. parts[i] \in Seq(S)
          BY <1>1
        <5> QED BY <4>1, <5>1, <5>2, ConcatEmptySeq
      <4>2. CASE i # 1
        <5>1. i - 1 \in 1 .. len
          BY <1>1, <4>2
        <5> QED BY <4>2, <5>1
      <4> QED BY <4>1, <4>2
    <3> QED BY <3>1
  <2>2. d = G(d)
    <3> HIDE DEF G
    <3> QED BY <2>1
  <2>3. FlattenSeq(parts) = d[len]
    BY <1>3 DEF FlattenSeq
  <2> HIDE DEF d
  <2>4. \A i \in 1 .. len : d[i] = IF i = 1 THEN parts[i] ELSE d[i - 1] \o parts[i]
    BY <2>2
  <2>5. \A i \in 1 .. len : d[i] = f[i]
    <3> DEFINE T == {i \in 1 .. len : d[i] # f[i]}
    <3> SUFFICES ASSUME T # {} PROVE FALSE
      OBVIOUS
    <3>1. PICK i \in T : \A k \in T : i <= k
      <4>1. T \subseteq Nat
        OBVIOUS
      <4> HIDE DEF T
      <4> QED BY <4>1, LeastNatural
    <3>2. i \in 1 .. len /\ d[i] # f[i]
      BY <3>1
    <3> HIDE DEF T
    <3>3. CASE i = 1
      <4>1. f[i] = g[i] /\ g[i] = parts[i]
        BY <2>1, <3>2, <3>3
      <4> QED BY <2>4, <3>2, <3>3, <4>1
    <3>4. CASE i # 1
      <4>1. i - 1 \in 1 .. len /\ ~ (i <= i - 1)
        BY <1>1, <3>2, <3>4
      <4>2. i - 1 \notin T
        BY <3>1, <4>1
      <4>3. d[i - 1] = f[i - 1]
        BY <4>1, <4>2 DEF T
      <4> QED BY <2>4, <3>2, <3>4, <4>3
    <3> QED BY <3>3, <3>4
  <2>6. len \in 1 .. len
    BY <1>1, <1>3
  <2> QED BY <2>3, <2>5, <2>6
<1> QED BY <1>2, <1>3

LEMMA FlattenSteps ==
    ASSUME NEW S, NEW parts \in Seq(Seq(S))
    PROVE  /\ JoinUpTo(parts, 0) = <<>>
           /\ \A n \in 1 .. Len(parts) : JoinUpTo(parts, n) = JoinUpTo(parts, n - 1) \o parts[n]
           /\ \A n \in 0 .. Len(parts) : JoinUpTo(parts, n) \in Seq(S)
           /\ JoinUpTo(parts, Len(parts)) = FlattenSeq(parts)
<1> DEFINE len == Len(parts)
           h == [p \in (1 .. len) \X Seq(S) |-> p[2] \o parts[p[1]]]
<1>1. len \in Nat /\ \A i \in 1 .. len : parts[i] \in Seq(S)
  OBVIOUS
<1>2. h \in [(1 .. len) \X Seq(S) -> Seq(S)]
  <2>1. ASSUME NEW n \in 1 .. len, NEW s \in Seq(S) PROVE s \o parts[n] \in Seq(S)
    BY <1>1, ConcatProperties
  <2> HIDE DEF len
  <2> QED BY <2>1
<1> DEFINE base == <<>>
<1>3. base \in Seq(S)
  OBVIOUS
<1>4. PICK f \in [0 .. len -> Seq(S)] :
         f[0] = base /\ \A n \in 1 .. len : f[n] = h[<<n, f[n - 1]>>]
  <2> HIDE DEF len, h, base
  <2>1. Stepwise(Seq(S), len, base, h)
    BY <1>1, <1>2, <1>3 DEF Stepwise
  <2>2. \E f \in [0 .. len -> Seq(S)] : Goes(f, len, base, h)
    BY <2>1, StepwiseEnds
  <2> QED BY <2>2 DEF Goes
<1>5. ASSUME NEW n \in 1 .. len PROVE f[n] = f[n - 1] \o parts[n]
  <2>1. n - 1 \in 0 .. len
    BY <1>1
  <2>2. f[n - 1] \in Seq(S)
    BY <1>4, <2>1
  <2> QED BY <1>4, <2>2
<1> HIDE DEF h
<1>6. ASSUME NEW n \in 0 .. len PROVE JoinUpTo(parts, n) = f[n]
  <2> DEFINE q == SubSeq(parts, 1, n)
             e == [i \in 0 .. n |-> f[i]]
  <2>1. q \in Seq(Seq(S)) /\ Len(q) = n /\ \A i \in 1 .. n : q[i] = parts[i]
    <3>1. n \in Nat /\ n <= len
      BY <1>1
    <3>2. q = [i \in 1 .. n |-> parts[i]]
      BY <3>1
    <3>3. \A i \in 1 .. n : parts[i] \in Seq(S)
      BY <1>1, <3>1
    <3> HIDE DEF q
    <3> QED BY <3>1, <3>2, <3>3
  <2>2. e \in [0 .. n -> Seq(S)] /\ e[0] = <<>> /\ e[n] = f[n]
    BY <1>1, <1>4
  <2>3. \A i \in 1 .. n : e[i] = e[i - 1] \o q[i]
    <3>1. ASSUME NEW i \in 1 .. n PROVE e[i] = e[i - 1] \o q[i]
      <4>1. i \in 1 .. len /\ i \in 0 .. n /\ i - 1 \in 0 .. n
        BY <1>1
      <4>2. f[i] = f[i - 1] \o parts[i]
        BY <1>5, <4>1
      <4>3. q[i] = parts[i]
        BY <2>1
      <4>4. e[i] = f[i] /\ e[i - 1] = f[i - 1]
        BY <4>1
      <4> QED BY <4>2, <4>3, <4>4
    <3> QED BY <3>1
  <2> HIDE DEF q, e
  <2>4. FlattenSeq(q) = e[Len(q)]
    BY <2>1, <2>2, <2>3, FlattenIs
  <2> QED BY <2>1, <2>2, <2>4 DEF JoinUpTo, q
<1>7. FlattenSeq(parts) = f[len]
  <2> QED BY <1>4, <1>5, FlattenIs
<1>8. \A n \in 1 .. len : n - 1 \in 0 .. len /\ n \in 0 .. len
  BY <1>1
<1>9. 0 \in 0 .. len /\ len \in 0 .. len
  BY <1>1
<1> QED BY <1>4, <1>5, <1>6, <1>7, <1>8, <1>9

\* Where the n-th sequence starts, laid end to end, and what is found there.
LEMMA FlattenElements ==
    ASSUME NEW S, NEW parts \in Seq(Seq(S)), NEW n \in 1 .. Len(parts)
    PROVE  LET from == Len(JoinUpTo(parts, n - 1)) IN
           /\ from \in Nat /\ Len(parts[n]) \in Nat
           /\ Len(JoinUpTo(parts, n)) = from + Len(parts[n])
           /\ from + Len(parts[n]) <= Len(FlattenSeq(parts))
           /\ \A j \in 1 .. Len(parts[n]) : FlattenSeq(parts)[from + j] = parts[n][j]
<1> DEFINE len == Len(parts)
           F(k) == JoinUpTo(parts, k)
           from == Len(F(n - 1))
           w == Len(parts[n])
           Fits(k) ==
                      /\ from + w <= Len(F(k))
                      /\ \A j \in 1 .. w : F(k)[from + j] = parts[n][j]
<1>0. /\ len \in Nat /\ n \in Nat /\ n >= 1 /\ n <= len
      /\ \A k \in 1 .. len : parts[k] \in Seq(S)
  OBVIOUS
<1>1. /\ len \in Nat /\ n \in Nat /\ n >= 1 /\ n <= len
      /\ \A k \in 0 .. len : F(k) \in Seq(S)
      /\ \A k \in 1 .. len : F(k) = F(k - 1) \o parts[k]
      /\ F(len) = FlattenSeq(parts)
      /\ \A k \in 1 .. len : parts[k] \in Seq(S)
  BY <1>0, FlattenSteps
<1> HIDE DEF F
<1>2. /\ F(n - 1) \in Seq(S) /\ parts[n] \in Seq(S) /\ F(n) = F(n - 1) \o parts[n]
      /\ n - 1 \in 0 .. len
  <2>1. n \in 1 .. len /\ n - 1 \in 0 .. len
    BY <1>1
  <2> QED BY <1>1, <2>1
<1>3. /\ from \in Nat /\ w \in Nat /\ Len(F(n)) = from + w
      /\ Fits(n)
  <2>1. /\ Len(F(n)) = from + w
        /\ \A j \in 1 .. w : F(n)[from + j] = parts[n][j]
    <3> DEFINE a == F(n - 1)
               c == parts[n]
    <3>1. a \in Seq(S) /\ c \in Seq(S)
      BY <1>2
    <3> HIDE DEF a, c
    <3>2. Len(a \o c) = Len(a) + Len(c) /\ \A j \in 1 .. Len(c) : (a \o c)[Len(a) + j] = c[j]
      BY <3>1
    <3> QED BY <1>2, <3>2 DEF a, c
  <2>2. from \in Nat /\ w \in Nat
    BY <1>2
  <2> HIDE DEF from, w
  <2> QED BY <2>1, <2>2
<1> HIDE DEF from, w
<1>4. ASSUME NEW k \in 1 .. len, F(k - 1) \in Seq(S), Fits(k - 1) PROVE Fits(k)
  <2>1. F(k) = F(k - 1) \o parts[k] /\ parts[k] \in Seq(S)
    BY <1>1
  <2>2. /\ Len(F(k)) = Len(F(k - 1)) + Len(parts[k])
        /\ \A i \in 1 .. Len(F(k - 1)) : F(k)[i] = F(k - 1)[i]
    BY <1>4, <2>1, ConcatProperties
  <2>3. Len(F(k - 1)) \in Nat /\ Len(parts[k]) \in Nat
    BY <1>4, <2>1
  <2>4. \A j \in 1 .. w : from + j \in 1 .. Len(F(k - 1))
    <3>1. from + w <= Len(F(k - 1))
      BY <1>4
    <3> DEFINE l == Len(F(k - 1))
    <3>2. from \in Nat /\ w \in Nat /\ l \in Nat /\ from + w <= l
      BY <1>3, <2>3, <3>1
    <3> HIDE DEF l
    <3>3. \A j \in 1 .. w : from + j \in 1 .. l
      BY <3>2
    <3> QED BY <3>3 DEF l
  <2>5. from + w <= Len(F(k))
    <3>1. from + w <= Len(F(k - 1)) /\ from + w \in Nat
      BY <1>3, <1>4
    <3> DEFINE l == Len(F(k - 1))
               r == Len(parts[k])
    <3>2. Len(F(k)) = l + r
      BY <2>2
    <3>3. l \in Nat /\ r \in Nat /\ from + w <= l /\ from + w \in Nat
      BY <2>3, <3>1
    <3> HIDE DEF l, r
    <3> QED BY <3>2, <3>3
  <2>6. ASSUME NEW j \in 1 .. w PROVE F(k)[from + j] = parts[n][j]
    <3>1. F(k - 1)[from + j] = parts[n][j]
      BY <1>4
    <3> QED BY <2>2, <2>4, <3>1
  <2> QED BY <2>5, <2>6
<1>5. \A k \in n .. len : Fits(k)
  <2> DEFINE T == {k \in n .. len : ~Fits(k)}
  <2> SUFFICES ASSUME T # {} PROVE FALSE
    OBVIOUS
  <2>1. PICK k \in T : \A i \in T : k <= i
    <3>1. T \subseteq Nat
      <4>1. n .. len \subseteq Nat
        BY <1>0
      <4> HIDE DEF Fits
      <4> QED BY <4>1
    <3> HIDE DEF T
    <3> QED BY <3>1, LeastNatural
  <2>2. k \in n .. len /\ ~Fits(k)
    BY <2>1
  <2> HIDE DEF Fits
  <2>3. k # n
    BY <1>3, <2>2
  <2>4. k - 1 \in n .. len /\ k \in 1 .. len /\ k - 1 \in 0 .. len /\ ~ (k <= k - 1)
    BY <1>1, <2>2, <2>3
  <2>5. Fits(k - 1)
    <3>1. k - 1 \notin T
      <4> HIDE DEF T
      <4> QED BY <2>1, <2>4
    <3> QED BY <2>4, <3>1
  <2>6. F(k - 1) \in Seq(S)
    BY <1>1, <2>4
  <2> QED BY <1>4, <2>2, <2>4, <2>5, <2>6
<1>6. Fits(len)
  <2>1. len \in n .. len
    BY <1>1
  <2> HIDE DEF Fits
  <2> QED BY <1>5, <2>1
<1> QED BY <1>1, <1>3, <1>6 DEF F, from, w

-----------------------------------------------------------------------------
(* Numbers: integer_parser reads a number that fits as what it means. *)

\* The number a text is, digit by digit.
LEMMA MeantIs ==
    ASSUME NEW text, text.number.digits \in Seq(Nat)
    PROVE  \E v \in [0 .. Len(text.number.digits) -> Nat] :
              /\ v[0] = 0 /\ Meant(text) = v[Len(text.number.digits)]
              /\ \A i \in 1 .. Len(text.number.digits) :
                    v[i] = BaseOf(text) * v[i - 1] + text.number.digits[i]
<1> DEFINE digits == text.number.digits
           len == Len(digits)
           base == BaseOf(text)
           zero == 0
           h == [p \in (1 .. len) \X Nat |-> base * p[2] + digits[p[1]]]
           G(f) == [i \in 0 .. len |-> IF i = 0 THEN 0 ELSE base * f[i - 1] + digits[i]]
           d == CHOOSE f : f = G(f)
<1>1. len \in Nat /\ (\A i \in 1 .. len : digits[i] \in Nat) /\ base \in {10, 16} /\ zero \in Nat
  BY DEF BaseOf
<1> HIDE DEF digits, len, base
<1>2. h \in [(1 .. len) \X Nat -> Nat]
  <2>1. \A n \in 1 .. len, x \in Nat : base * x + digits[n] \in Nat
    <3>1. \A x, y \in Nat : 10 * x + y \in Nat /\ 16 * x + y \in Nat
      OBVIOUS
    <3> QED BY <1>1, <3>1
  <2> QED BY <2>1
<1>3. PICK v \in [0 .. len -> Nat] : Goes(v, len, zero, h)
  <2> HIDE DEF zero, h
  <2>1. Stepwise(Nat, len, zero, h)
    BY <1>1, <1>2 DEF Stepwise
  <2> QED BY <2>1, StepwiseEnds
<1>4. v[0] = 0 /\ \A i \in 1 .. len : v[i] = base * v[i - 1] + digits[i]
  <2>1. v[0] = zero /\ \A i \in 1 .. len : v[i] = h[<<i, v[i - 1]>>]
    <3> HIDE DEF zero, h
    <3> QED BY <1>3 DEF Goes
  <2>2. ASSUME NEW i \in 1 .. len PROVE v[i] = base * v[i - 1] + digits[i]
    <3>1. v[i - 1] \in Nat
      BY <1>1, <1>3
    <3>2. h[<<i, v[i - 1]>>] = base * v[i - 1] + digits[i]
      BY <3>1
    <3> HIDE DEF h
    <3> QED BY <2>1, <3>2
  <2> QED BY <2>1, <2>2
<1>5. v = G(v)
  <2>1. ASSUME NEW i \in 0 .. len
        PROVE  v[i] = IF i = 0 THEN 0 ELSE base * v[i - 1] + digits[i]
    <3>1. i # 0 => i \in 1 .. len
      BY <1>1
    <3> QED BY <1>4, <3>1
  <2> QED BY <1>3, <2>1
<1>6. d = G(d)
  <2> HIDE DEF G
  <2> QED BY <1>5
<1>7. Meant(text) = d[len]
  BY DEF Meant, digits, len, base
<1> HIDE DEF d
<1>8. \A i \in 0 .. len : d[i] = IF i = 0 THEN 0 ELSE base * d[i - 1] + digits[i]
  BY <1>6
<1>9. \A i \in 0 .. len : d[i] = v[i]
  <2> DEFINE T == {i \in 0 .. len : d[i] # v[i]}
  <2> SUFFICES ASSUME T # {} PROVE FALSE
    OBVIOUS
  <2>1. PICK i \in T : \A k \in T : i <= k
    <3>1. T \subseteq Nat
      OBVIOUS
    <3> HIDE DEF T
    <3> QED BY <3>1, LeastNatural
  <2>2. i \in 0 .. len /\ d[i] # v[i]
    BY <2>1
  <2> HIDE DEF T
  <2>3. CASE i = 0
    BY <1>4, <1>8, <2>2, <2>3
  <2>4. CASE i # 0
    <3>1. i - 1 \in 0 .. len /\ i \in 1 .. len /\ ~ (i <= i - 1)
      BY <1>1, <2>2, <2>4
    <3>2. d[i - 1] = v[i - 1]
      <4>1. i - 1 \notin T
        BY <2>1, <3>1
      <4> QED BY <3>1, <4>1 DEF T
    <3> QED BY <1>4, <1>8, <2>2, <2>4, <3>1, <3>2
  <2> QED BY <2>3, <2>4
<1>10. len \in 0 .. len
  BY <1>1
<1> QED BY <1>4, <1>7, <1>9, <1>10 DEF len, digits, base

LEMMA NoWrap ==
    ASSUME NEW x \in Nat, x < UInt16
    PROVE  x % UInt16 = x
BY DEF UInt16

\* A number that fits is read as what it means.
LEMMA PortParsed ==
    ASSUME NEW text, text.number.digits \in Seq(Nat), IsPort(text)
    PROVE  integer_parser(text.number) = {Meant(text)} /\ Meant(text) \in Nat
<1> DEFINE digits == text.number.digits
           len == Len(digits)
           base == BaseOf(text)
           Next16(r, x) == (r * base + x) % UInt16
           Fitting(S, i) == {r \in S : digits[i] < base /\ r <= Next16(r, digits[i])}
           G(f) == [i \in 0 .. len |-> IF i = 0 THEN {0}
                                       ELSE {Next16(r, digits[i]) : r \in Fitting(f[i - 1], i)}]
           d == CHOOSE f : f = G(f)
<1>1. /\ len \in Nat /\ (\A i \in 1 .. len : digits[i] \in Nat /\ digits[i] < base)
      /\ base \in {10, 16}
  BY DEF IsPort, BaseOf
<1>2. PICK v \in [0 .. len -> Nat] :
         /\ v[0] = 0 /\ Meant(text) = v[len]
         /\ \A i \in 1 .. len : v[i] = base * v[i - 1] + digits[i]
  BY MeantIs
<1>3. integer_parser(text.number) = d[len]
  BY DEF integer_parser, IsPort, BaseOf
<1>4. v[len] < UInt16
  BY <1>2 DEF IsPort
<1> HIDE DEF digits, len, base
<1>5. \A i \in 1 .. len : v[i - 1] \in Nat /\ v[i] \in Nat /\ v[i - 1] <= v[i]
  <2> SUFFICES ASSUME NEW i \in 1 .. len
               PROVE  v[i - 1] \in Nat /\ v[i] \in Nat /\ v[i - 1] <= v[i]
    OBVIOUS
  <2>1. i - 1 \in 0 .. len /\ i \in 0 .. len
    BY <1>1
  <2>2. v[i - 1] \in Nat /\ v[i] \in Nat
    BY <2>1
  <2>3. v[i] = base * v[i - 1] + digits[i] /\ digits[i] \in Nat
    BY <1>1, <1>2
  <2> QED BY <1>1, <2>2, <2>3
<1>6. \A i \in 0 .. len : v[i] <= v[len]
  <2> DEFINE T == {j \in 0 .. len : ~ (v[len - j] <= v[len])}
  <2>1. T = {}
    <3> SUFFICES ASSUME T # {} PROVE FALSE
      OBVIOUS
    <3>1. PICK j \in T : \A k \in T : j <= k
      <4>1. T \subseteq Nat
        OBVIOUS
      <4> HIDE DEF T
      <4> QED BY <4>1, LeastNatural
    <3>2. j \in 0 .. len /\ ~ (v[len - j] <= v[len])
      BY <3>1
    <3> HIDE DEF T
    <3>3. j # 0
      <4>1. v[len] \in Nat
        BY <1>1
      <4> QED BY <1>1, <3>2, <4>1
    <3> DEFINE i == len - (j - 1)
    <3>4. /\ j - 1 \in 0 .. len /\ ~ (j <= j - 1)
          /\ i \in 1 .. len /\ i - 1 = len - j
      BY <1>1, <3>2, <3>3
    <3>5. v[i] <= v[len]
      <4>1. j - 1 \notin T
        BY <3>1, <3>4
      <4> QED BY <3>4, <4>1 DEF T
    <3> HIDE DEF i
    <3>6. v[i - 1] \in Nat /\ v[i] \in Nat /\ v[i - 1] <= v[i] /\ v[len] \in Nat
      BY <1>1, <1>5, <3>4
    <3> QED BY <3>2, <3>4, <3>5, <3>6
  <2> SUFFICES ASSUME NEW i \in 0 .. len PROVE v[i] <= v[len]
    OBVIOUS
  <2>2. len - i \in 0 .. len /\ len - (len - i) = i
    BY <1>1
  <2> DEFINE j == len - i
  <2>3. j \in 0 .. len /\ len - j = i
    BY <2>2
  <2> HIDE DEF j
  <2>4. j \notin T
    BY <2>1
  <2> QED BY <2>3, <2>4
<1>7. ASSUME NEW i \in 1 .. len
      PROVE  /\ Next16(v[i - 1], digits[i]) = v[i]
             /\ {Next16(r, digits[i]) : r \in Fitting({v[i - 1]}, i)} = {v[i]}
  <2>1. v[i] < UInt16
    <3>1. i \in 0 .. len /\ v[i] \in Nat /\ v[len] \in Nat
      BY <1>1
    <3> QED BY <1>4, <1>6, <3>1 DEF UInt16
  <2>2. v[i - 1] * base + digits[i] = v[i]
    <3>1. v[i - 1] \in Nat /\ digits[i] \in Nat
      BY <1>1, <1>5
    <3> QED BY <1>1, <1>2, <3>1
  <2>3. Next16(v[i - 1], digits[i]) = v[i]
    <3>1. v[i] % UInt16 = v[i]
      BY <1>5, <2>1, NoWrap
    <3> QED BY <2>2, <3>1
  <2>4. Fitting({v[i - 1]}, i) = {v[i - 1]}
    <3>1. v[i - 1] <= v[i] /\ digits[i] < base
      BY <1>1, <1>5
    <3> HIDE DEF Next16
    <3> QED BY <2>3, <3>1
  <2> DEFINE K == Fitting({v[i - 1]}, i)
             x == v[i - 1]
  <2>5. K = {x} /\ Next16(x, digits[i]) = v[i]
    BY <2>3, <2>4
  <2> HIDE DEF K, x
  <2>6. {Next16(r, digits[i]) : r \in K} = {v[i]}
    <3> HIDE DEF Next16
    <3> QED BY <2>5
  <2> QED BY <2>3, <2>6 DEF K
<1> DEFINE g == [i \in 0 .. len |-> {v[i]}]
<1> HIDE DEF Next16, Kept
<1>8. g = G(g)
  <2>1. ASSUME NEW i \in 0 .. len
        PROVE  {v[i]} = IF i = 0 THEN {0}
                        ELSE {Next16(r, digits[i]) : r \in Fitting(g[i - 1], i)}
    <3>1. CASE i = 0
      BY <1>2, <3>1
    <3>2. CASE i # 0
      <4>1. i \in 1 .. len /\ i - 1 \in 0 .. len
        BY <1>1, <3>2
      <4>2. g[i - 1] = {v[i - 1]}
        BY <4>1
      <4> QED BY <1>7, <3>2, <4>1, <4>2
    <3> QED BY <3>1, <3>2
  <2> QED BY <2>1
<1>9. d = G(d)
  <2> HIDE DEF G
  <2> QED BY <1>8
<1> HIDE DEF d
<1>10. \A i \in 0 .. len :
          d[i] = IF i = 0 THEN {0} ELSE {Next16(r, digits[i]) : r \in Fitting(d[i - 1], i)}
  BY <1>9
<1>11. \A i \in 0 .. len : d[i] = {v[i]}
  <2> DEFINE T == {i \in 0 .. len : d[i] # {v[i]}}
  <2> SUFFICES ASSUME T # {} PROVE FALSE
    OBVIOUS
  <2>1. PICK i \in T : \A k \in T : i <= k
    <3>1. T \subseteq Nat
      OBVIOUS
    <3> HIDE DEF T
    <3> QED BY <3>1, LeastNatural
  <2>2. i \in 0 .. len /\ d[i] # {v[i]}
    BY <2>1
  <2> HIDE DEF T
  <2>3. CASE i = 0
    BY <1>2, <1>10, <2>2, <2>3
  <2>4. CASE i # 0
    <3>1. i - 1 \in 0 .. len /\ i \in 1 .. len /\ ~ (i <= i - 1)
      BY <1>1, <2>2, <2>4
    <3>2. d[i - 1] = {v[i - 1]}
      <4>1. i - 1 \notin T
        BY <2>1, <3>1
      <4> QED BY <3>1, <4>1 DEF T
    <3> QED BY <1>7, <1>10, <2>2, <2>4, <3>1, <3>2
  <2> QED BY <2>3, <2>4
<1>12. len \in 0 .. len /\ v[len] \in Nat
  BY <1>1
<1> QED BY <1>2, <1>3, <1>11, <1>12

\* The default of the port.
LEMMA DefaultPort == integer_parser(Number(<<1, 8, 8, 3>>).number) = {1883}
<1> DEFINE text == Number(<<1, 8, 8, 3>>)
<1>1. /\ text.number.digits = <<1, 8, 8, 3>> /\ ~text.number.negative
      /\ BaseOf(text) = 10
  BY DEF Number, NoNumber, BaseOf
<1> HIDE DEF text
<1>2. text.number.digits \in Seq(Nat) /\ Len(text.number.digits) = 4
  BY <1>1
<1>3. PICK v \in [0 .. 4 -> Nat] :
         /\ v[0] = 0 /\ Meant(text) = v[4]
         /\ \A i \in 1 .. 4 : v[i] = 10 * v[i - 1] + text.number.digits[i]
  BY <1>1, <1>2, MeantIs
<1>4. v[1] = 1 /\ v[2] = 18 /\ v[3] = 188 /\ v[4] = 1883
  <2>1. v[1] = 10 * v[0] + 1
    <3>1. 1 \in 1 .. 4 /\ 1 - 1 = 0
      OBVIOUS
    <3> QED BY <1>1, <1>3, <3>1
  <2>2. v[2] = 10 * v[1] + 8
    <3>1. 2 \in 1 .. 4 /\ 2 - 1 = 1
      OBVIOUS
    <3> QED BY <1>1, <1>3, <3>1
  <2>3. v[3] = 10 * v[2] + 8
    <3>1. 3 \in 1 .. 4 /\ 3 - 1 = 2
      OBVIOUS
    <3> QED BY <1>1, <1>3, <3>1
  <2>4. v[4] = 10 * v[3] + 3
    <3>1. 4 \in 1 .. 4 /\ 4 - 1 = 3
      OBVIOUS
    <3> QED BY <1>1, <1>3, <3>1
  <2> QED BY <1>3, <2>1, <2>2, <2>3, <2>4
<1>5. IsPort(text)
  <2>1. \A i \in DOMAIN text.number.digits : text.number.digits[i] < 10
    <3>1. DOMAIN <<1, 8, 8, 3>> = {1, 2, 3, 4}
      OBVIOUS
    <3> QED BY <1>1, <3>1
  <2>2. text.number.digits # <<>>
    BY <1>1
  <2> QED BY <1>1, <1>3, <1>4, <2>1, <2>2 DEF IsPort, UInt16
<1>6. integer_parser(text.number) = {Meant(text)}
  BY <1>2, <1>5, PortParsed
<1> QED BY <1>3, <1>4, <1>6 DEF text

-----------------------------------------------------------------------------
(* The options, and the texts that are given for one of them. *)

\* No two options have a name in common.
LEMMA OptionNames ==
    /\ Options = {"H", "P", "W", "T", "t", "s", "p", "r", "h"}
    /\ \A o, p \in Options : {o, LongName[o]} \cap {p, LongName[p]} # {} => o = p
<1>1. Options = {"H", "P", "W", "T", "t", "s", "p", "r", "h"}
  BY DEF Options, LongName
<1>2. /\ LongName["H"] = "hostname" /\ LongName["P"] = "port" /\ LongName["W"] = "will"
      /\ LongName["T"] = "willtopic" /\ LongName["t"] = "topic"
      /\ LongName["s"] = "subscribe" /\ LongName["p"] = "publish"
      /\ LongName["r"] = "retain" /\ LongName["h"] = "help"
  BY DEF LongName
<1>3. ASSUME NEW o \in Options, NEW p \in Options,
             {o, LongName[o]} \cap {p, LongName[p]} # {}
      PROVE  o = p
  <2>1. PICK name \in {o, LongName[o]} : name \in {p, LongName[p]}
    BY <1>3
  <2>2. name = o \/ name = LongName[o]
    BY <2>1
  <2>3. name = p \/ name = LongName[p]
    BY <2>1
  <2> QED BY <1>1, <1>2, <2>2, <2>3
<1> QED BY <1>1, <1>3

LEMMA FindOne ==
    ASSUME NEW name, NEW o \in Find(name)
    PROVE  Find(name) = {o} /\ o \in Options
<1>1. o \in Options /\ name \in {o, LongName[o]}
  BY DEF Find
<1>2. ASSUME NEW p \in Find(name) PROVE p = o
  <2>1. p \in Options /\ name \in {p, LongName[p]}
    BY DEF Find
  <2> QED BY <1>1, <2>1, OptionNames
<1> QED BY <1>1, <1>2

LEMMA OptionTypes ==
    /\ TypeOf["H"] = "string" /\ TypeOf["P"] = "uint16_t" /\ TypeOf["W"] = "string"
    /\ TypeOf["T"] = "string" /\ TypeOf["t"] = "vector" /\ TypeOf["s"] = "bool"
    /\ TypeOf["p"] = "vector" /\ TypeOf["r"] = "bool" /\ TypeOf["h"] = "bool"
BY DEF TypeOf

LEMMA TypesOfOptions ==
    ASSUME NEW o \in Options
    PROVE  /\ TypeOf[o] \in {"string", "uint16_t", "vector", "bool"}
           /\ TypeOf[o] = "uint16_t" => o = "P"
           /\ TypeOf[o] = "bool" => o \in {"s", "r", "h"}
BY OptionTypes, OptionNames

\* The texts of an option, one entry at a time.
Parts(entries, o) ==
    [i \in DOMAIN entries |-> IF entries[i].option = o THEN <<entries[i].text>> ELSE <<>>]

LEMMA PartsType ==
    ASSUME NEW entries \in Seq(Entries), NEW o
    PROVE  Parts(entries, o) \in Seq(Seq(Texts)) /\ Len(Parts(entries, o)) = Len(entries)
<1>1. \A i \in 1 .. Len(entries) : entries[i].text \in Texts
  <2>1. \A i \in 1 .. Len(entries) : entries[i] \in Entries
    OBVIOUS
  <2> QED BY <2>1 DEF Entries
<1>2. DOMAIN entries = 1 .. Len(entries) /\ Len(entries) \in Nat
  OBVIOUS
<1>3. \A i \in 1 .. Len(entries) : Parts(entries, o)[i] \in Seq(Texts)
  BY <1>1, <1>2 DEF Parts
<1>4. Parts(entries, o) = [i \in 1 .. Len(entries) |-> Parts(entries, o)[i]]
  BY <1>2 DEF Parts
<1> QED BY <1>2, <1>3, <1>4

LEMMA TextsUpTo ==
    ASSUME NEW entries \in Seq(Entries), NEW o, NEW n \in 0 .. Len(entries)
    PROVE  TextsIn(SubSeq(entries, 1, n), o) = JoinUpTo(Parts(entries, o), n)
<1> DEFINE part == SubSeq(entries, 1, n)
<1>1. part = [i \in 1 .. n |-> entries[i]] /\ DOMAIN entries = 1 .. Len(entries)
  OBVIOUS
<1>2. DOMAIN part = 1 .. n
  BY <1>1
<1>3. \A i \in 1 .. n : i \in DOMAIN entries /\ part[i] = entries[i]
  BY <1>1
<1>4. [i \in DOMAIN part |-> IF part[i].option = o THEN <<part[i].text>> ELSE <<>>]
        = SubSeq(Parts(entries, o), 1, n)
  <2>1. SubSeq(Parts(entries, o), 1, n) = [i \in 1 .. n |-> Parts(entries, o)[i]]
    BY PartsType
  <2> HIDE DEF part
  <2> QED BY <1>2, <1>3, <2>1 DEF Parts
<1> QED BY <1>4 DEF TextsIn, JoinUpTo

LEMMA TextsSteps ==
    ASSUME NEW entries \in Seq(Entries), NEW o
    PROVE  /\ TextsIn(SubSeq(entries, 1, 0), o) = <<>>
           /\ TextsIn(SubSeq(entries, 1, Len(entries)), o) = TextsIn(entries, o)
           /\ TextsIn(entries, o) \in Seq(Texts)
           /\ \A n \in 1 .. Len(entries) :
                 /\ TextsIn(SubSeq(entries, 1, n - 1), o) \in Seq(Texts)
                 /\ TextsIn(SubSeq(entries, 1, n), o) =
                       IF entries[n].option = o
                       THEN Append(TextsIn(SubSeq(entries, 1, n - 1), o), entries[n].text)
                       ELSE TextsIn(SubSeq(entries, 1, n - 1), o)
<1> DEFINE P == Parts(entries, o)
           len == Len(entries)
<1>1. P \in Seq(Seq(Texts)) /\ Len(P) = len /\ len \in Nat
  BY PartsType
<1>2. TextsIn(entries, o) = FlattenSeq(P)
  BY DEF TextsIn, Parts
<1>3. /\ JoinUpTo(P, 0) = <<>>
      /\ \A n \in 1 .. len : JoinUpTo(P, n) = JoinUpTo(P, n - 1) \o P[n]
      /\ \A n \in 0 .. len : JoinUpTo(P, n) \in Seq(Texts)
      /\ JoinUpTo(P, len) = FlattenSeq(P)
  <2> HIDE DEF P
  <2> QED BY <1>1, FlattenSteps
<1>4. \A n \in 0 .. len : TextsIn(SubSeq(entries, 1, n), o) = JoinUpTo(P, n)
  BY TextsUpTo
<1>5. 0 \in 0 .. len /\ len \in 0 .. len
  BY <1>1
<1>6. ASSUME NEW n \in 1 .. len
      PROVE  /\ JoinUpTo(P, n - 1) \in Seq(Texts)
             /\ JoinUpTo(P, n) = IF entries[n].option = o
                                 THEN Append(JoinUpTo(P, n - 1), entries[n].text)
                                 ELSE JoinUpTo(P, n - 1)
             /\ n - 1 \in 0 .. len /\ n \in 0 .. len
  <2>1. n - 1 \in 0 .. len /\ n \in 0 .. len
    BY <1>1
  <2>2. JoinUpTo(P, n - 1) \in Seq(Texts) /\ JoinUpTo(P, n) = JoinUpTo(P, n - 1) \o P[n]
    BY <1>3, <2>1
  <2>3. P[n] = IF entries[n].option = o THEN <<entries[n].text>> ELSE <<>>
    <3>1. n \in DOMAIN entries
      BY <1>1
    <3> QED BY <3>1 DEF Parts
  <2>4. entries[n] \in Entries /\ entries[n].text \in Texts
    <3>1. entries[n] \in Entries
      OBVIOUS
    <3> QED BY <3>1 DEF Entries
  <2> DEFINE q == JoinUpTo(P, n - 1)
  <2>5. q \in Seq(Texts) /\ JoinUpTo(P, n) = q \o P[n]
    BY <2>2
  <2> HIDE DEF q
  <2>6. JoinUpTo(P, n) = IF entries[n].option = o THEN Append(q, entries[n].text) ELSE q
    <3>1. CASE entries[n].option = o
      <4>1. q \o <<entries[n].text>> = Append(q, entries[n].text)
        BY <2>4, <2>5
      <4> HIDE DEF P
      <4> QED BY <2>3, <2>5, <3>1, <4>1
    <3>2. CASE entries[n].option # o
      <4>1. q \o <<>> = q
        BY <2>5, ConcatEmptySeq
      <4> HIDE DEF P
      <4> QED BY <2>3, <2>5, <3>2, <4>1
    <3> QED BY <3>1, <3>2
  <2> QED BY <2>1, <2>2, <2>6 DEF q
<1> HIDE DEF P
<1> QED BY <1>2, <1>3, <1>4, <1>5, <1>6

\* The text of an entry is one of its option.
LEMMA TextsMember ==
    ASSUME NEW entries \in Seq(Entries), NEW n \in 1 .. Len(entries)
    PROVE  LET texts == TextsIn(entries, entries[n].option) IN
           \E i \in DOMAIN texts : texts[i] = entries[n].text
<1> DEFINE o == entries[n].option
           P == Parts(entries, o)
           from == Len(JoinUpTo(P, n - 1))
<1>1. P \in Seq(Seq(Texts)) /\ Len(P) = Len(entries)
  BY PartsType
<1>2. P[n] = <<entries[n].text>>
  <2>1. n \in DOMAIN entries
    OBVIOUS
  <2> QED BY <2>1 DEF Parts
<1>3. /\ from \in Nat /\ from + Len(P[n]) <= Len(FlattenSeq(P))
      /\ \A j \in 1 .. Len(P[n]) : FlattenSeq(P)[from + j] = P[n][j]
  <2>1. n \in 1 .. Len(P)
    BY <1>1
  <2> HIDE DEF P
  <2> QED BY <1>1, <2>1, FlattenElements
<1>4. FlattenSeq(P) \in Seq(Texts) /\ TextsIn(entries, o) = FlattenSeq(P)
  <2>1. TextsIn(entries, o) \in Seq(Texts)
    BY TextsSteps
  <2> QED BY <2>1 DEF TextsIn, Parts
<1> HIDE DEF P, from
<1>5. Len(P[n]) = 1 /\ P[n][1] = entries[n].text
  BY <1>2
<1>6. from + 1 \in DOMAIN FlattenSeq(P) /\ FlattenSeq(P)[from + 1] = entries[n].text
  BY <1>3, <1>4, <1>5
<1> QED BY <1>4, <1>6

-----------------------------------------------------------------------------
(* What OptionValue keeps, one text at a time. *)

LEMMA LastOfAppend ==
    ASSUME NEW S, NEW s \in Seq(S), NEW x \in S
    PROVE  /\ Append(s, x) \in Seq(S) /\ Append(s, x) # <<>>
           /\ Len(Append(s, x)) = Len(s) + 1 /\ Last(Append(s, x)) = x
           /\ DOMAIN Append(s, x) = 1 .. Len(s) + 1 /\ DOMAIN s = 1 .. Len(s)
           /\ Append(s, x)[Len(s) + 1] = x
           /\ \A i \in 1 .. Len(s) : i \in 1 .. Len(s) + 1 /\ Append(s, x)[i] = s[i]
BY DEF Last

\* The items of texts, one text at a time.
ItemParts(texts) == [i \in DOMAIN texts |-> Items(texts[i])]

LEMMA ItemPartsType ==
    ASSUME NEW texts \in Seq(Texts)
    PROVE  /\ ItemParts(texts) \in Seq(Seq(STRING)) /\ Len(ItemParts(texts)) = Len(texts)
           /\ ItemParts(texts) = [i \in 1 .. Len(texts) |-> Items(texts[i])]
<1>1. DOMAIN texts = 1 .. Len(texts) /\ Len(texts) \in Nat
  OBVIOUS
<1>2. ASSUME NEW i \in 1 .. Len(texts) PROVE Items(texts[i]) \in Seq(STRING)
  <2>1. texts[i] \in Texts
    OBVIOUS
  <2> DEFINE pieces == texts[i].pieces
  <2>2. pieces \in Seq(STRING)
    BY <2>1 DEF Texts
  <2> HIDE DEF pieces
  <2>3. SubSeq(pieces, 1, Len(pieces) - 1) \in Seq(STRING)
    BY <2>2
  <2> QED BY <2>2, <2>3 DEF Items, Front, pieces
<1>3. ItemParts(texts) = [i \in 1 .. Len(texts) |-> Items(texts[i])]
  BY <1>1 DEF ItemParts
<1> QED BY <1>1, <1>2, <1>3

LEMMA ItemsSteps ==
    ASSUME NEW texts \in Seq(Texts), NEW text \in Texts
    PROVE  /\ texts = <<>> => ItemsIn(texts) = <<>>
           /\ ItemsIn(Append(texts, text)) = ItemsIn(texts) \o Tokens(text)
<1> DEFINE all == Append(texts, text)
           len == Len(texts)
           P == ItemParts(texts)
           Q == ItemParts(all)
<1>1. /\ all \in Seq(Texts) /\ Len(all) = len + 1 /\ len \in Nat
      /\ all[len + 1] = text /\ \A i \in 1 .. len : all[i] = texts[i]
  BY LastOfAppend
<1> HIDE DEF all, len
<1>2. /\ P \in Seq(Seq(STRING)) /\ Len(P) = len /\ P = [i \in 1 .. len |-> Items(texts[i])]
      /\ Q \in Seq(Seq(STRING)) /\ Len(Q) = len + 1
      /\ Q = [i \in 1 .. len + 1 |-> Items(all[i])]
  BY <1>1, ItemPartsType DEF len
<1>3. ItemsIn(texts) = FlattenSeq(P) /\ ItemsIn(all) = FlattenSeq(Q)
  BY DEF ItemsIn, ItemParts
<1>4. SubSeq(Q, 1, len) = P
  <2>1. SubSeq(Q, 1, len) = [i \in 1 .. len |-> Q[i]]
    <3> HIDE DEF Q
    <3> QED BY <1>1, <1>2
  <2>2. \A i \in 1 .. len : Q[i] = Items(texts[i])
    BY <1>1, <1>2
  <2> HIDE DEF P, Q
  <2> QED BY <1>2, <2>1, <2>2
<1>5. Q[len + 1] = Tokens(text)
  <2>1. Items(text) = Tokens(text)
    BY DEF Items, Tokens, Last, Front
  <2>2. len + 1 \in 1 .. len + 1
    BY <1>1
  <2> HIDE DEF Q
  <2> QED BY <1>1, <1>2, <2>1, <2>2
<1> HIDE DEF P, Q
<1>6. JoinUpTo(Q, len) = FlattenSeq(P)
  BY <1>4 DEF JoinUpTo
<1>7. FlattenSeq(Q) = JoinUpTo(Q, len + 1)
  BY <1>2, FlattenSteps
<1>8. JoinUpTo(Q, len + 1) = JoinUpTo(Q, len) \o Q[len + 1]
  <2>1. len + 1 \in 1 .. Len(Q) /\ (len + 1) - 1 = len
    BY <1>1, <1>2
  <2> QED BY <1>2, <2>1, FlattenSteps
<1>9. ASSUME texts = <<>> PROVE ItemsIn(texts) = <<>>
  <2>1. Len(P) = 0
    BY <1>2, <1>9 DEF len
  <2> QED BY <1>2, <1>3, <2>1, FlattenSteps
<1> QED BY <1>3, <1>5, <1>6, <1>7, <1>8, <1>9 DEF all

\* An option that is given once more.
LEMMA KeepsMore ==
    ASSUME NEW o \in Options, NEW kept, NEW texts \in Seq(Texts), NEW text \in Texts,
           Keeps(kept, o, texts), NEW value \in parse_value(o, text, kept.value)
    PROVE  Keeps([count |-> kept.count + 1, stored |-> TRUE, value |-> value], o,
                 Append(texts, text))
<1> DEFINE all == Append(texts, text)
           new == [count |-> kept.count + 1, stored |-> TRUE, value |-> value]
<1>1. all # <<>> /\ Len(all) = Len(texts) + 1 /\ Last(all) = text
  BY LastOfAppend
<1>2. kept.count = Len(texts)
  BY DEF Keeps
<1>7. new.count = Len(all) /\ new.stored = TRUE /\ new.value = value
  BY <1>1, <1>2
<1> SUFFICES Keeps(new, o, all)
  OBVIOUS
<1> HIDE DEF all, new
<1>8. ASSUME TypeOf[o] = "string" => value = <<text>>,
             TypeOf[o] = "bool" => value = <<text.truth>>,
             TypeOf[o] = "uint16_t" /\ IsPort(text) => value = <<Meant(text)>>,
             TypeOf[o] = "vector" => value = ItemsIn(all)
      PROVE  Keeps(new, o, all)
  BY <1>1, <1>7, <1>8 DEF Keeps
<1>3. CASE TypeOf[o] = "string"
  <2>1. value = <<text>>
    BY <1>3 DEF parse_value
  <2> QED BY <1>3, <1>8, <2>1
<1>4. CASE TypeOf[o] = "vector"
  <2>1. value = kept.value \o Tokens(text)
    BY <1>4 DEF parse_value
  <2>2. kept.value = ItemsIn(texts)
    <3>1. CASE texts = <<>>
      BY <3>1, ItemsSteps DEF Keeps
    <3>2. CASE texts # <<>>
      BY <1>4, <3>2 DEF Keeps
    <3> QED BY <3>1, <3>2
  <2>3. value = ItemsIn(all)
    BY <2>1, <2>2, ItemsSteps DEF all
  <2> QED BY <1>4, <1>8, <2>3
<1>5. CASE TypeOf[o] = "uint16_t"
  <2>1. ASSUME IsPort(text) PROVE value = <<Meant(text)>>
    <3>1. text.number.digits \in Seq(Nat)
      BY DEF Texts
    <3>2. integer_parser(text.number) = {Meant(text)}
      BY <2>1, <3>1, PortParsed
    <3>3. value \in {<<n>> : n \in integer_parser(text.number)}
      BY <1>5 DEF parse_value
    <3> QED BY <3>2, <3>3
  <2> QED BY <1>5, <1>8, <2>1
<1>6. CASE TypeOf[o] = "bool"
  <2>1. value = <<text.truth>>
    BY <1>6 DEF parse_value
  <2> QED BY <1>6, <1>8, <2>1
<1> QED BY <1>3, <1>4, <1>5, <1>6, TypesOfOptions

\* A text that is refused is none of a sound command line.
LEMMA RefusedIsUnsound ==
    ASSUME Said \in Seq(Entries), NEW n \in 1 .. Len(Said), NEW old,
           \/ Unknown(Said[n])
           \/ Said[n].option \in Options /\ parse_value(Said[n].option, Said[n].text, old) = {}
    PROVE  ~Sound
<1> DEFINE o == Said[n].option
           text == Said[n].text
<1>1. PICK i \in DOMAIN TextsOf(o) : TextsOf(o)[i] = text
  BY TextsMember DEF TextsOf
<1>2. Says(o)
  BY <1>1 DEF Says
<1>3. CASE Unknown(Said[n])
  BY <1>2, <1>3 DEF Unknown, Sound
<1>4. CASE o \in Options /\ parse_value(o, text, old) = {}
  <2>1. text \in Texts
    <3>1. Said[n] \in Entries
      OBVIOUS
    <3> QED BY <3>1 DEF Entries
  <2>2. TypeOf[o] \notin {"string", "vector"}
    BY <1>4 DEF parse_value
  <2>3. CASE TypeOf[o] = "uint16_t"
    <3>1. {<<m>> : m \in integer_parser(text.number)} = {} /\ o = "P"
      BY <1>4, <2>3, TypesOfOptions DEF parse_value
    <3>2. integer_parser(text.number) = {}
      BY <3>1
    <3>3. text.number.digits \in Seq(Nat)
      BY <2>1 DEF Texts
    <3>4. ~IsPort(text)
      BY <3>2, <3>3, PortParsed
    <3> QED BY <1>1, <3>1, <3>4 DEF Sound
  <2>4. CASE TypeOf[o] = "bool"
    <3>1. {<<b>> : b \in {text.truth} \ {"neither"}} = {} /\ o \in {"s", "r", "h"}
      BY <1>4, <2>4, TypesOfOptions DEF parse_value
    <3>2. text.truth = "neither"
      BY <3>1
    <3> QED BY <1>1, <1>2, <3>1, <3>2 DEF Sound
  <2> QED BY <1>4, <2>2, <2>3, <2>4, TypesOfOptions
<1> QED BY <1>3, <1>4

-----------------------------------------------------------------------------
(* The units of a command line, and its arguments and entries. *)

LEMMA TypedParts ==
    ASSUME typed \in Seq(Units)
    PROVE  /\ ArgsIn(typed) \in Seq(Seq(Arguments)) /\ Len(ArgsIn(typed)) = Len(typed)
           /\ SaysIn(typed) \in Seq(Seq(Entries)) /\ Len(SaysIn(typed)) = Len(typed)
           /\ \A k \in 1 .. Len(typed) : /\ typed[k] \in Units
                                         /\ ArgsIn(typed)[k] = typed[k].args
                                         /\ SaysIn(typed)[k] = typed[k].says
<1> DEFINE len == Len(typed)
<1>1. DOMAIN typed = 1 .. len /\ len \in Nat /\ \A k \in 1 .. len : typed[k] \in Units
  OBVIOUS
<1>2. \A k \in 1 .. len : typed[k].args \in Seq(Arguments) /\ typed[k].says \in Seq(Entries)
  BY <1>1 DEF Units
<1> HIDE DEF len
<1>3. /\ ArgsIn(typed) = [k \in 1 .. len |-> typed[k].args]
      /\ SaysIn(typed) = [k \in 1 .. len |-> typed[k].says]
  BY <1>1 DEF ArgsIn, SaysIn
<1> QED BY <1>1, <1>2, <1>3 DEF len

\* Where units start, and their arguments and entries.
LEMMA UnitStarts ==
    ASSUME typed \in Seq(Units)
    PROVE  /\ ArgsBefore(1) = 0 /\ SaysBefore(1) = 0
           /\ ArgsBefore(Len(typed) + 1) = Len(FlattenSeq(ArgsIn(typed)))
           /\ SaysBefore(Len(typed) + 1) = Len(Said) /\ Said \in Seq(Entries)
           /\ \A k \in 1 .. Len(typed) :
                 /\ ArgsBefore(k) \in Nat /\ Len(typed[k].args) \in Nat
                 /\ ArgsBefore(k + 1) = ArgsBefore(k) + Len(typed[k].args)
                 /\ ArgsBefore(k + 1) <= Len(FlattenSeq(ArgsIn(typed)))
                 /\ \A j \in 1 .. Len(typed[k].args) :
                       FlattenSeq(ArgsIn(typed))[ArgsBefore(k) + j] = typed[k].args[j]
                 /\ SaysBefore(k) \in Nat /\ Len(typed[k].says) \in Nat
                 /\ SaysBefore(k + 1) = SaysBefore(k) + Len(typed[k].says)
                 /\ SaysBefore(k + 1) <= Len(Said)
                 /\ \A j \in 1 .. Len(typed[k].says) :
                       Said[SaysBefore(k) + j] = typed[k].says[j]
<1> DEFINE A == ArgsIn(typed)
           E == SaysIn(typed)
           len == Len(typed)
<1>1. /\ A \in Seq(Seq(Arguments)) /\ Len(A) = len /\ E \in Seq(Seq(Entries)) /\ Len(E) = len
      /\ len \in Nat
      /\ \A k \in 1 .. len : A[k] = typed[k].args /\ E[k] = typed[k].says
  <2>1. len \in Nat
    OBVIOUS
  <2> HIDE DEF A, E
  <2> QED BY <2>1, TypedParts DEF A, E
<1>2. \A k : /\ ArgsBefore(k) = Len(JoinUpTo(A, k - 1))
             /\ SaysBefore(k) = Len(JoinUpTo(E, k - 1))
  BY DEF ArgsBefore, SaysBefore
<1>3. Said = FlattenSeq(E)
  BY DEF Said
<1> HIDE DEF A, E, len
<1>4. /\ JoinUpTo(A, 0) = <<>> /\ JoinUpTo(A, len) = FlattenSeq(A)
  BY <1>1, FlattenSteps
<1>5. /\ JoinUpTo(E, 0) = <<>> /\ JoinUpTo(E, len) = FlattenSeq(E)
      /\ FlattenSeq(E) \in Seq(Entries)
  <2>1. len \in 0 .. len
    BY <1>1
  <2> QED BY <1>1, <2>1, FlattenSteps
<1>6. /\ ArgsBefore(1) = 0 /\ SaysBefore(1) = 0
      /\ ArgsBefore(len + 1) = Len(FlattenSeq(A)) /\ SaysBefore(len + 1) = Len(FlattenSeq(E))
  <2>1. 1 - 1 = 0 /\ (len + 1) - 1 = len /\ Len(<<>>) = 0
    BY <1>1
  <2> QED BY <1>2, <1>4, <1>5, <2>1
<1>7. ASSUME NEW k \in 1 .. len
      PROVE  /\ ArgsBefore(k) \in Nat /\ Len(A[k]) \in Nat
             /\ ArgsBefore(k + 1) = ArgsBefore(k) + Len(A[k])
             /\ ArgsBefore(k + 1) <= Len(FlattenSeq(A))
             /\ \A j \in 1 .. Len(A[k]) : FlattenSeq(A)[ArgsBefore(k) + j] = A[k][j]
  <2>1. k \in 1 .. Len(A) /\ (k + 1) - 1 = k
    BY <1>1
  <2>2. LET from == Len(JoinUpTo(A, k - 1)) IN
        /\ from \in Nat /\ Len(A[k]) \in Nat
        /\ Len(JoinUpTo(A, k)) = from + Len(A[k])
        /\ from + Len(A[k]) <= Len(FlattenSeq(A))
        /\ \A j \in 1 .. Len(A[k]) : FlattenSeq(A)[from + j] = A[k][j]
    BY <1>1, <2>1, FlattenElements
  <2>3. ArgsBefore(k) = Len(JoinUpTo(A, k - 1)) /\ ArgsBefore(k + 1) = Len(JoinUpTo(A, k))
    BY <1>2, <2>1
  <2> QED BY <2>2, <2>3
<1>8. ASSUME NEW k \in 1 .. len
      PROVE  /\ SaysBefore(k) \in Nat /\ Len(E[k]) \in Nat
             /\ SaysBefore(k + 1) = SaysBefore(k) + Len(E[k])
             /\ SaysBefore(k + 1) <= Len(FlattenSeq(E))
             /\ \A j \in 1 .. Len(E[k]) : FlattenSeq(E)[SaysBefore(k) + j] = E[k][j]
  <2>1. k \in 1 .. Len(E) /\ (k + 1) - 1 = k
    BY <1>1
  <2>2. LET from == Len(JoinUpTo(E, k - 1)) IN
        /\ from \in Nat /\ Len(E[k]) \in Nat
        /\ Len(JoinUpTo(E, k)) = from + Len(E[k])
        /\ from + Len(E[k]) <= Len(FlattenSeq(E))
        /\ \A j \in 1 .. Len(E[k]) : FlattenSeq(E)[from + j] = E[k][j]
    BY <1>1, <2>1, FlattenElements
  <2>3. SaysBefore(k) = Len(JoinUpTo(E, k - 1)) /\ SaysBefore(k + 1) = Len(JoinUpTo(E, k))
    BY <1>2, <2>1
  <2> QED BY <2>2, <2>3
<1>9. /\ \A k \in 1 .. len : /\ ArgsBefore(k) \in Nat /\ Len(A[k]) \in Nat
             /\ ArgsBefore(k + 1) = ArgsBefore(k) + Len(A[k])
             /\ ArgsBefore(k + 1) <= Len(FlattenSeq(A))
             /\ \A j \in 1 .. Len(A[k]) : FlattenSeq(A)[ArgsBefore(k) + j] = A[k][j]
      /\ \A k \in 1 .. len : /\ SaysBefore(k) \in Nat /\ Len(E[k]) \in Nat
             /\ SaysBefore(k + 1) = SaysBefore(k) + Len(E[k])
             /\ SaysBefore(k + 1) <= Len(FlattenSeq(E))
             /\ \A j \in 1 .. Len(E[k]) : FlattenSeq(E)[SaysBefore(k) + j] = E[k][j]
  BY <1>7, <1>8
<1>10. ASSUME NEW k \in 1 .. len
       PROVE /\ ArgsBefore(k) \in Nat /\ Len(typed[k].args) \in Nat
             /\ ArgsBefore(k + 1) = ArgsBefore(k) + Len(typed[k].args)
             /\ ArgsBefore(k + 1) <= Len(FlattenSeq(A))
             /\ \A j \in 1 .. Len(typed[k].args) :
                   FlattenSeq(A)[ArgsBefore(k) + j] = typed[k].args[j]
             /\ SaysBefore(k) \in Nat /\ Len(typed[k].says) \in Nat
             /\ SaysBefore(k + 1) = SaysBefore(k) + Len(typed[k].says)
             /\ SaysBefore(k + 1) <= Len(FlattenSeq(E))
             /\ \A j \in 1 .. Len(typed[k].says) :
                   FlattenSeq(E)[SaysBefore(k) + j] = typed[k].says[j]
  <2>1. A[k] = typed[k].args /\ E[k] = typed[k].says
    BY <1>1
  <2> QED BY <1>7, <1>8, <2>1
<1> QED BY <1>3, <1>5, <1>6, <1>10 DEF A, E, len

\* The parser is at unit u.
Here(u, k) ==
    /\ k \in 1 .. Len(typed) /\ u = typed[k] /\ u \in Units /\ u.args # <<>>
    /\ Len(u.args) \in Nat \ {0} /\ Len(u.says) \in Nat
    /\ current \in Nat \ {0} /\ Len(argv) \in Nat /\ letter \in Nat \ {0}
    /\ letter = 1 \/ letter <= Len(u.says)
    /\ Argument = u.args[1]
    /\ Len(u.args) = 2 => argv[current + 1] = u.args[2]
    /\ current + Len(u.args) - 1 <= Len(argv)
    /\ \/ IsPiece(u)
       \/ IsEnding(u) /\ k = Len(typed) /\ current + Len(u.args) - 1 = Len(argv)

LEMMA UnitHere ==
    ASSUME TypedIn, NEW k \in 1 .. Len(typed) + 1, ReadUpTo(k), current <= Len(argv)
    PROVE  Here(typed[k], k)
<1> DEFINE u == typed[k]
           len == Len(typed)
<1>1. typed \in Seq(Units) /\ typed # <<>> /\ len \in Nat \ {0} /\ argv = FlattenSeq(ArgsIn(typed))
  BY DEF TypedIn
<1>2. current = ArgsBefore(k) + 1
  BY DEF ReadUpTo
<1>3. Len(argv) \in Nat /\ ArgsBefore(len + 1) = Len(argv)
  <2>1. FlattenSeq(ArgsIn(typed)) \in Seq(Arguments)
    <3>1. ArgsIn(typed) \in Seq(Seq(Arguments))
      BY <1>1, TypedParts
    <3>2. Len(ArgsIn(typed)) \in 0 .. Len(ArgsIn(typed))
      BY <3>1
    <3> QED BY <3>1, <3>2, FlattenSteps
  <2> QED BY <1>1, <2>1, UnitStarts
<1>4. k \in 1 .. len
  <2>1. k # len + 1
    <3> HIDE DEF len
    <3> QED BY <1>2, <1>3
  <2> QED BY <1>1, <2>1
<1>5. /\ ArgsBefore(k) \in Nat /\ Len(u.args) \in Nat /\ Len(u.says) \in Nat
      /\ ArgsBefore(k + 1) = ArgsBefore(k) + Len(u.args)
      /\ ArgsBefore(k + 1) <= Len(argv)
      /\ \A j \in 1 .. Len(u.args) : argv[ArgsBefore(k) + j] = u.args[j]
  BY <1>1, <1>4, UnitStarts
<1>6. u \in Units /\ u.args \in Seq(Arguments)
  <2>1. u \in Units
    BY <1>1, <1>4, TypedParts
  <2> QED BY <2>1 DEF Units
<1>7. \/ k \in 1 .. len - 1 /\ IsPiece(u)
      \/ k = len /\ IsEnding(u)
  <2>1. k \in 1 .. len - 1 \/ k = len
    BY <1>1, <1>4
  <2> QED BY <2>1 DEF TypedIn, Last
<1>8. k = len => ArgsBefore(k + 1) = Len(argv)
  BY <1>3
<1>9. u.args # <<>>
  <2>1. CASE IsPiece(u)
    BY <2>1 DEF IsPiece
  <2>2. ASSUME k = len, u.args = <<>> PROVE FALSE
    <3>1. Len(u.args) = 0
      BY <2>2
    <3> HIDE DEF u, len
    <3> QED BY <1>2, <1>5, <1>8, <2>2, <3>1
  <2> QED BY <1>7, <2>1, <2>2
<1>10. Len(u.args) # 0
  BY <1>6, <1>9
<1>11. letter = 1 \/ letter \in 1 .. Len(u.says)
  BY DEF ReadUpTo
<1> DEFINE w == Len(u.args)
           b == ArgsBefore(k)
<1>12. /\ w \in Nat /\ w # 0 /\ b \in Nat /\ current = b + 1 /\ b + w <= Len(argv)
       /\ \A j \in 1 .. w : argv[b + j] = u.args[j]
       /\ k = len => b + w = Len(argv)
  BY <1>2, <1>5, <1>8, <1>10
<1> HIDE DEF w, b
<1>13. /\ current \in Nat \ {0} /\ current + w - 1 <= Len(argv)
       /\ k = len => current + w - 1 = Len(argv)
  BY <1>3, <1>12
<1>14. Argument = u.args[1] /\ (w = 2 => argv[current + 1] = u.args[2])
  <2>1. 1 \in 1 .. w /\ b + 1 = current
    BY <1>12
  <2>2. argv[current] = u.args[1]
    BY <1>12, <2>1
  <2>3. ASSUME w = 2 PROVE argv[current + 1] = u.args[2]
    <3>1. 2 \in 1 .. w /\ b + 2 = current + 1
      BY <1>12, <2>3
    <3>2. argv[b + 2] = u.args[2]
      BY <1>12, <3>1
    <3> QED BY <3>1, <3>2
  <2> QED BY <2>2, <2>3 DEF Argument
<1>15. letter \in Nat \ {0} /\ (letter = 1 \/ letter <= Len(u.says))
  BY <1>5, <1>11
<1> QED BY <1>3, <1>4, <1>5, <1>6, <1>7, <1>9, <1>10, <1>13, <1>14, <1>15 DEF Here, w

-----------------------------------------------------------------------------
(* One turn of the parser. *)

\* What the parser does with a unit: it reads the entry that is next, and goes on
\* to the next letter or unit; it throws at an option it does not know; or there
\* is nothing to read.
ReadsOn(u) ==
    /\ letter \in 1 .. Len(u.says) /\ u.says[letter].option \in Options
    /\ \/ /\ letter < Len(u.says)
          /\ parse_option(u.says[letter].option, u.says[letter].text, current, letter + 1)
       \/ /\ letter = Len(u.says)
          /\ parse_option(u.says[letter].option, u.says[letter].text,
                          current + Len(u.args), 1)
Turn(u) ==
    \/ ReadsOn(u)
    \/ Throws /\ \E i \in 1 .. Len(u.says) : Unknown(u.says[i])
    \/ /\ u.says = <<>> /\ letter = 1
       /\ GoTo(current + Len(u.args), 1) /\ UNCHANGED parsed

LEMMA FlagTurns ==
    ASSUME NEW u, NEW k, Here(u, k), ParseLetter, letter < Len(u.says),
           Flags(u, Len(u.says) - 1), Len(u.says) <= Len(u.args[1].letters),
           Len(u.args[1].letters) \in Nat
    PROVE  ReadsOn(u)
<1> DEFINE n == Len(u.says)
           entry == u.says[letter]
           o == entry.option
           letters == u.args[1].letters
<1>1. n \in Nat /\ letter \in Nat \ {0} /\ letter < n /\ n <= Len(letters) /\ Argument = u.args[1]
  BY DEF Here
<1>2. letter \in 1 .. n - 1 /\ letter \in 1 .. n /\ letter # Len(letters)
  <2> HIDE DEF n, letters
  <2> QED BY <1>1
<1>3. o \in Find(letters[letter]) /\ IsFlag(entry)
  BY <1>2 DEF Flags
<1>4. Find(letters[letter]) = {o} /\ o \in Options /\ HasImplicit(o)
  BY <1>3, FindOne DEF IsFlag
<1>5. entry.text = ImplicitValue
  BY <1>3 DEF IsFlag, ImplicitValue
<1>6. parse_option(o, ImplicitValue, current, letter + 1)
  <2>1. \/ Find(letters[letter]) = {} /\ Throws
        \/ \E x \in Find(letters[letter]) :
              IF letter = Len(letters) THEN checked_parse_arg(x)
              ELSE IF HasImplicit(x)
                   THEN parse_option(x, ImplicitValue, current, letter + 1)
                   ELSE parse_option(x, Argument.after[letter], current + 1, 1)
    BY <1>1 DEF ParseLetter
  <2> HIDE DEF o, letters
  <2> QED BY <1>2, <1>4, <2>1
<1> QED BY <1>1, <1>2, <1>4, <1>5, <1>6 DEF ReadsOn

\* The option that completes a unit.
LEMMA LastTurns ==
    ASSUME NEW u, NEW k, Here(u, k), letter = Len(u.says),
           u.says[letter].option \in Options, Completes(u, u.says[letter]),
           checked_parse_arg(u.says[letter].option)
    PROVE  ReadsOn(u)
<1> DEFINE n == Len(u.says)
           entry == u.says[letter]
           o == entry.option
<1>1. n \in Nat /\ letter \in Nat \ {0} /\ letter = n /\ letter \in 1 .. n
  BY DEF Here
<1>2. CASE IsFlag(entry) /\ Len(u.args) = 1
  <2>1. entry.text = ImplicitValue /\ HasImplicit(o)
    BY <1>2 DEF IsFlag, ImplicitValue
  <2>2. parse_option(o, entry.text, current + Len(u.args), 1)
    BY <1>2, <2>1 DEF checked_parse_arg
  <2> QED BY <1>1, <2>2 DEF ReadsOn
<1>3. CASE Takes(entry) /\ Len(u.args) = 2 /\ entry.text = u.args[2].text
  <2>1. ~HasImplicit(o)
    BY <1>3 DEF Takes
  <2>2. argv[current + 1] = u.args[2] /\ current # Len(argv)
    BY <1>3 DEF Here
  <2>3. parse_option(o, entry.text, current + Len(u.args), 1)
    BY <1>3, <2>1, <2>2 DEF checked_parse_arg
  <2> QED BY <1>1, <2>3 DEF ReadsOn
<1> QED BY <1>2, <1>3 DEF Completes

\* The value of the last option is missing.
LEMMA MissingThrows ==
    ASSUME NEW u, NEW k, Here(u, k), Len(u.args) = 1, IsMissing(u),
           current + Len(u.args) - 1 = Len(argv), NEW o, ~HasImplicit(o), checked_parse_arg(o)
    PROVE  Throws /\ \E i \in 1 .. Len(u.says) : Unknown(u.says[i])
<1>1. current = Len(argv)
  <2>1. current \in Nat /\ Len(argv) \in Nat
    BY DEF Here
  <2> QED BY <2>1
<1>2. Throws
  BY <1>1 DEF checked_parse_arg
<1>3. Len(u.says) \in 1 .. Len(u.says) /\ Unknown(u.says[Len(u.says)])
  <2>1. Len(u.says) \in Nat
    BY DEF Here
  <2> QED BY <2>1 DEF IsMissing
<1> QED BY <1>2, <1>3

LEMMA GroupTurns ==
    ASSUME NEW u, NEW k, Here(u, k), ParseLetter
    PROVE  Turn(u)
<1> DEFINE n == Len(u.says)
           entry == u.says[letter]
           letters == u.args[1].letters
<1>1. /\ n \in Nat /\ letter \in Nat \ {0} /\ (letter = 1 \/ letter <= n)
      /\ Argument = u.args[1] /\ u.args[1].shape = "group"
  BY DEF Here, ParseLetter, Parsing
<1>2. Len(letters) \in Nat
  <2>1. u \in Units /\ u.args # <<>>
    BY DEF Here
  <2>2. u.args \in Seq(Arguments)
    BY <2>1 DEF Units
  <2>3. u.args[1] \in Arguments
    BY <2>1, <2>2
  <2> QED BY <2>3 DEF Arguments
<1>3. \/ Find(letters[letter]) = {} /\ Throws
      \/ \E x \in Find(letters[letter]) :
            IF letter = Len(letters) THEN checked_parse_arg(x)
            ELSE IF HasImplicit(x)
                 THEN parse_option(x, ImplicitValue, current, letter + 1)
                 ELSE parse_option(x, u.args[1].after[letter], current + 1, 1)
  BY <1>1 DEF ParseLetter
<1>4. ASSUME n # 0, Flags(u, n - 1), n <= Len(letters), letter < n PROVE Turn(u)
  BY <1>2, <1>4, FlagTurns DEF Turn
<1>5. CASE IsGroup(u)
  <2>1. /\ n \in 1 .. Len(letters) /\ Flags(u, n - 1)
        /\ u.says[n].option \in Find(letters[n])
        /\ IF n < Len(letters)
           THEN /\ Takes(u.says[n]) /\ Len(u.args) = 1
                /\ u.says[n].text = u.args[1].after[n]
           ELSE Completes(u, u.says[n])
    BY <1>5 DEF IsGroup
  <2>2. n # 0 /\ n <= Len(letters) /\ (letter < n \/ letter = n)
    <3> HIDE DEF n, letters
    <3> QED BY <1>1, <1>2, <2>1
  <2>3. CASE letter = n
    <3> DEFINE o == u.says[n].option
    <3>1. Find(letters[letter]) = {o} /\ o \in Options
      BY <2>1, <2>3, FindOne
    <3>2. IF letter = Len(letters) THEN checked_parse_arg(o)
          ELSE IF HasImplicit(o)
               THEN parse_option(o, ImplicitValue, current, letter + 1)
               ELSE parse_option(o, u.args[1].after[letter], current + 1, 1)
      <4> HIDE DEF o, letters
      <4> QED BY <1>3, <3>1
    <3>3. CASE n = Len(letters)
      <4>1. Completes(u, u.says[letter]) /\ checked_parse_arg(u.says[letter].option)
        BY <1>2, <2>1, <2>3, <3>2, <3>3
      <4> QED BY <2>3, <3>1, <4>1, LastTurns DEF Turn
    <3>4. CASE n # Len(letters)
      <4>1. n < Len(letters)
        <5> HIDE DEF n, letters
        <5> QED BY <1>1, <1>2, <2>2, <3>4
      <4>2. /\ ~HasImplicit(o) /\ Len(u.args) = 1
            /\ u.says[n].text = u.args[1].after[n]
        BY <2>1, <4>1 DEF Takes
      <4>3. parse_option(o, u.says[n].text, current + Len(u.args), 1)
        BY <2>3, <3>2, <3>4, <4>2
      <4>4. letter \in 1 .. n
        BY <1>1, <2>3
      <4> QED BY <2>3, <3>1, <4>3, <4>4 DEF ReadsOn, Turn
    <3> QED BY <3>3, <3>4
  <2> QED BY <1>4, <2>1, <2>2, <2>3
<1>6. CASE IsWrong(u)
  <2>1. /\ n > 0 /\ Unknown(u.says[n]) /\ n <= Len(letters)
        /\ Flags(u, n - 1) /\ Find(letters[n]) = {}
    BY <1>1, <1>6 DEF IsWrong
  <2>2. n # 0 /\ (letter < n \/ letter = n)
    <3> HIDE DEF n
    <3> QED BY <1>1, <2>1
  <2>3. CASE letter = n
    <3>1. Throws
      BY <1>3, <2>1, <2>3
    <3>2. n \in 1 .. n
      BY <1>1, <2>1
    <3> QED BY <2>1, <3>1, <3>2 DEF Turn
  <2> QED BY <1>4, <2>1, <2>2, <2>3
<1>7. CASE IsMissing(u) /\ current + Len(u.args) - 1 = Len(argv)
  <2>1. /\ n > 0 /\ Unknown(u.says[n]) /\ n = Len(letters) /\ Len(u.args) = 1
        /\ Flags(u, n - 1) /\ \E o \in Find(letters[n]) : ~HasImplicit(o)
    BY <1>1, <1>7 DEF IsMissing
  <2>2. n # 0 /\ n <= Len(letters) /\ (letter < n \/ letter = n)
    <3> HIDE DEF n
    <3> QED BY <1>1, <2>1
  <2>3. CASE letter = n
    <3>1. PICK o \in Find(letters[letter]) : ~HasImplicit(o)
      BY <2>1, <2>3
    <3>2. Find(letters[letter]) = {o}
      BY <3>1, FindOne
    <3>3. checked_parse_arg(o)
      BY <1>3, <2>1, <2>3, <3>2
    <3> QED BY <1>7, <2>1, <3>1, <3>3, MissingThrows DEF Turn
  <2> QED BY <1>4, <2>1, <2>2, <2>3
<1>8. ~IsLong(u) /\ ~IsWord(u) /\ ~IsRest(u)
  BY <1>1 DEF IsLong, IsWord, IsRest
<1>9. u.args # <<>>
  BY DEF Here
<1> QED BY <1>5, <1>6, <1>7, <1>8, <1>9 DEF Here, IsPiece, IsEnding

LEMMA LongTurns ==
    ASSUME NEW u, NEW k, Here(u, k), ParseLong
    PROVE  Turn(u)
<1> DEFINE n == Len(u.says)
           arg == u.args[1]
<1>1. /\ n \in Nat /\ letter \in Nat \ {0} /\ (letter = 1 \/ letter <= n)
      /\ Argument = arg /\ arg.shape = "long"
  BY DEF Here, ParseLong, Parsing
<1>2. \/ Find(arg.name) = {} /\ Throws
      \/ \E x \in Find(arg.name) :
            IF arg.given THEN parse_option(x, arg.value, current + 1, 1)
            ELSE checked_parse_arg(x)
  BY <1>1 DEF ParseLong
<1>3. n = 1 => letter = 1 /\ letter = n /\ 1 \in 1 .. n
  <2> HIDE DEF n
  <2> QED BY <1>1
<1>4. CASE IsLong(u)
  <2> DEFINE o == u.says[1].option
  <2>1. /\ n = 1 /\ o \in Find(arg.name)
        /\ IF arg.given THEN Len(u.args) = 1 /\ u.says[1].text = arg.value
           ELSE Completes(u, u.says[1])
    BY <1>4 DEF IsLong
  <2>2. Find(arg.name) = {o} /\ o \in Options
    BY <2>1, FindOne
  <2>3. IF arg.given THEN parse_option(o, arg.value, current + 1, 1)
        ELSE checked_parse_arg(o)
    <3> HIDE DEF o, arg
    <3> QED BY <1>2, <2>2
  <2>4. CASE arg.given
    <3>1. parse_option(o, u.says[1].text, current + Len(u.args), 1)
      BY <2>1, <2>3, <2>4
    <3> QED BY <1>3, <2>1, <2>2, <3>1 DEF ReadsOn, Turn
  <2>5. CASE ~arg.given
    BY <1>3, <2>1, <2>2, <2>3, <2>5, LastTurns DEF Turn
  <2> QED BY <2>4, <2>5
<1>5. CASE IsWrong(u)
  <2>1. n = 1 /\ Unknown(u.says[n]) /\ Find(arg.name) = {}
    BY <1>1, <1>5 DEF IsWrong
  <2>2. Throws
    BY <1>2, <2>1
  <2> QED BY <1>3, <2>1, <2>2 DEF Turn
<1>6. CASE IsMissing(u) /\ current + Len(u.args) - 1 = Len(argv)
  <2>1. /\ n = 1 /\ Len(u.args) = 1 /\ ~arg.given
        /\ \E o \in Find(arg.name) : ~HasImplicit(o)
    BY <1>1, <1>6 DEF IsMissing
  <2>2. PICK o \in Find(arg.name) : ~HasImplicit(o)
    BY <2>1
  <2>3. Find(arg.name) = {o}
    BY <2>2, FindOne
  <2>4. checked_parse_arg(o)
    BY <1>2, <2>1, <2>3
  <2> QED BY <1>6, <2>1, <2>2, <2>4, MissingThrows DEF Turn
<1>7. ~IsGroup(u) /\ ~IsWord(u) /\ ~IsRest(u)
  BY <1>1 DEF IsGroup, IsWord, IsRest
<1>8. u.args # <<>>
  BY DEF Here
<1> QED BY <1>4, <1>5, <1>6, <1>7, <1>8 DEF Here, IsPiece, IsEnding

LEMMA OtherTurns ==
    ASSUME NEW u, NEW k, Here(u, k), SkipWord \/ SkipRest \/ RejectArgument
    PROVE  Turn(u)
<1>1. /\ Len(u.says) \in Nat /\ letter \in Nat \ {0}
      /\ letter = 1 \/ letter <= Len(u.says)
      /\ Argument = u.args[1] /\ u.args # <<>>
      /\ current \in Nat /\ Len(argv) \in Nat /\ Len(u.args) \in Nat
  BY DEF Here
<1>2. u.says = <<>> => letter = 1
  <2>1. u.says = <<>> => Len(u.says) = 0
    OBVIOUS
  <2> QED BY <1>1, <2>1
<1>3. CASE SkipWord
  <2>1. u.args[1].shape = "word"
    BY <1>1, <1>3 DEF SkipWord, Parsing
  <2>2. IsWord(u)
    BY <1>1, <2>1 DEF Here, IsPiece, IsEnding, IsLong, IsGroup, IsWrong, IsMissing, IsRest
  <2> QED BY <1>2, <1>3, <2>2 DEF IsWord, SkipWord, Turn
<1>4. CASE SkipRest
  <2>1. u.args[1].shape = "dashes"
    BY <1>1, <1>4 DEF SkipRest, Parsing
  <2>2. IsRest(u) /\ current + Len(u.args) - 1 = Len(argv)
    BY <1>1, <2>1 DEF Here, IsPiece, IsEnding, IsLong, IsGroup, IsWrong, IsMissing, IsWord
  <2>3. current + Len(u.args) = Len(argv) + 1
    BY <1>1, <2>2
  <2> QED BY <1>2, <1>4, <2>2, <2>3 DEF IsRest, SkipRest, Turn
<1>5. CASE RejectArgument
  <2>1. u.args[1].shape = "bad"
    BY <1>1, <1>5 DEF RejectArgument, Parsing
  <2>2. IsWrong(u)
    BY <1>1, <2>1 DEF Here, IsPiece, IsEnding, IsLong, IsGroup, IsWord, IsMissing, IsRest
  <2>3. Len(u.says) \in 1 .. Len(u.says)
    BY <1>1, <2>2 DEF IsWrong
  <2> QED BY <1>5, <2>2, <2>3 DEF IsWrong, RejectArgument, Turn
<1> QED BY <1>3, <1>4, <1>5

-----------------------------------------------------------------------------
(* What one turn reads. *)

\* What depends on the command line alone.
LEMMA SameCommand ==
    ASSUME UNCHANGED typed
    PROVE  /\ Said' = Said /\ Sound' = Sound
           /\ \A o : TextsOf(o)' = TextsOf(o) /\ (Says(o)' <=> Says(o))
           /\ \A o : ItemsOf(o)' = ItemsOf(o) /\ LastText(o)' = LastText(o)
                     /\ (IsOn(o)' <=> IsOn(o))
           /\ \A k : ArgsBefore(k)' = ArgsBefore(k) /\ SaysBefore(k)' = SaysBefore(k)
           /\ UNCHANGED argv => (TypedIn' <=> TypedIn)
<1>1. Said' = Said
  BY DEF Said
<1>2. \A o : TextsOf(o)' = TextsOf(o) /\ (Says(o)' <=> Says(o))
  BY <1>1 DEF TextsOf, Says
<1>3. \A o : ItemsOf(o)' = ItemsOf(o) /\ LastText(o)' = LastText(o)
             /\ (IsOn(o)' <=> IsOn(o))
  BY <1>2 DEF ItemsOf, LastText, IsOn
<1>4. \A k : ArgsBefore(k)' = ArgsBefore(k) /\ SaysBefore(k)' = SaysBefore(k)
  BY DEF ArgsBefore, SaysBefore
<1>5. Sound' = Sound
  BY <1>2, <1>3 DEF Sound
<1>6. UNCHANGED argv => (TypedIn' <=> TypedIn)
  BY DEF TypedIn
<1> QED BY <1>1, <1>2, <1>3, <1>4, <1>5, <1>6

\* One entry is read.
LEMMA EntryRead ==
    ASSUME Said \in Seq(Entries), DOMAIN parsed = Options, NEW n \in 1 .. Len(Said),
           HasRead(n - 1), Said[n].option \in Options, NEW argument, NEW l,
           parse_option(Said[n].option, Said[n].text, argument, l), UNCHANGED typed
    PROVE  \/ phase' = "stopped" /\ ~Sound'
           \/ GoTo(argument, l) /\ HasRead(n)' /\ DOMAIN parsed' = Options
<1> DEFINE o == Said[n].option
           text == Said[n].text
           values == parse_value(o, text, parsed[o].value)
<1>1. Sound' = Sound /\ Said' = Said
  BY SameCommand
<1>2. CASE values = {} /\ Throws
  <2>1. ~Sound
    BY <1>2, RefusedIsUnsound
  <2> QED BY <1>1, <1>2, <2>1 DEF Throws
<1>3. ASSUME NEW value \in values,
             parsed' = [parsed EXCEPT ![o] = [count |-> @.count + 1, stored |-> TRUE,
                                              value |-> value]],
             GoTo(argument, l)
      PROVE  GoTo(argument, l) /\ HasRead(n)' /\ DOMAIN parsed' = Options
  <2>1. text \in Texts
    <3>1. Said[n] \in Entries
      OBVIOUS
    <3> QED BY <3>1 DEF Entries
  <2>2. ASSUME NEW p \in Options
        PROVE  Keeps(parsed'[p], p, TextsIn(SubSeq(Said, 1, n), p))
    <3> DEFINE before == TextsIn(SubSeq(Said, 1, n - 1), p)
    <3>1. /\ before \in Seq(Texts)
          /\ TextsIn(SubSeq(Said, 1, n), p) = IF o = p THEN Append(before, text) ELSE before
      BY TextsSteps
    <3>2. Keeps(parsed[p], p, before)
      BY DEF HasRead
    <3> HIDE DEF before
    <3>3. CASE o = p
      <4>1. parsed'[p] = [count |-> parsed[p].count + 1, stored |-> TRUE, value |-> value]
        BY <1>3, <3>3
      <4>2. value \in parse_value(p, text, parsed[p].value)
        BY <3>3
      <4> HIDE DEF o, text, values
      <4>3. Keeps([count |-> parsed[p].count + 1, stored |-> TRUE, value |-> value], p,
                  Append(before, text))
        BY <2>1, <3>1, <3>2, <4>2, KeepsMore
      <4> QED BY <3>1, <3>3, <4>1, <4>3
    <3>4. CASE o # p
      <4>1. parsed'[p] = parsed[p]
        BY <1>3, <3>4
      <4> HIDE DEF o, text, values
      <4> QED BY <3>1, <3>2, <3>4, <4>1
    <3> QED BY <3>3, <3>4
  <2>3. HasRead(n)'
    BY <1>1, <2>2 DEF HasRead
  <2> QED BY <1>3, <2>3
<1>4. \/ values = {} /\ Throws
      \/ \E value \in values :
            /\ parsed' = [parsed EXCEPT ![o] = [count |-> @.count + 1, stored |-> TRUE,
                                                value |-> value]]
            /\ GoTo(argument, l)
  BY DEF parse_option
<1> HIDE DEF values, o, text
<1> QED BY <1>2, <1>3, <1>4

\* Going to this argument and letter the parser is at the i-th unit, where n
\* entries have been read.
Leads(i, argument, l, n) ==
    /\ argument = ArgsBefore(i) + 1 /\ n = SaysBefore(i) + l - 1
    /\ l = 1 \/ (i <= Len(typed) /\ l \in 1 .. Len(typed[i].says))

\* Where the parser has come to.
LEMMA ComesTo ==
    ASSUME NEW i, NEW c, NEW l, NEW n, UNCHANGED typed, Leads(i, c, l, n),
           current' = c, letter' = l, HasRead(n)'
    PROVE  ReadUpTo(i)'
<1>0. /\ c = ArgsBefore(i) + 1 /\ n = SaysBefore(i) + l - 1
      /\ l = 1 \/ (i <= Len(typed) /\ l \in 1 .. Len(typed[i].says))
  BY DEF Leads
<1>1. ArgsBefore(i)' = ArgsBefore(i) /\ SaysBefore(i)' = SaysBefore(i)
  BY SameCommand
<1>2. (SaysBefore(i) + letter - 1)' = n
  BY <1>0, <1>1
<1>3. HasRead(SaysBefore(i) + letter - 1)'
  BY <1>2 DEF HasRead
<1>4. current' = ArgsBefore(i)' + 1
  BY <1>0, <1>1
<1>5. letter' = 1 \/ (i <= Len(typed') /\ letter' \in 1 .. Len(typed'[i].says))
  BY <1>0
<1> QED BY <1>3, <1>4, <1>5 DEF ReadUpTo

LEMMA TurnReads ==
    ASSUME TypedIn, DOMAIN parsed = Options, NEW k \in 1 .. Len(typed) + 1, ReadUpTo(k),
           Here(typed[k], k), Turn(typed[k]), UNCHANGED typed
    PROVE  \/ phase' = "stopped" /\ ~Sound'
           \/ phase' = phase /\ Reading'
<1> PICK u : u = typed[k]
  OBVIOUS
<1> PICK n, next1 : n = SaysBefore(k) + letter /\ next1 = k + 1
  OBVIOUS
<1>1. /\ typed \in Seq(Units) /\ k \in 1 .. Len(typed) /\ Len(typed) \in Nat
      /\ letter \in Nat \ {0} /\ Len(u.says) \in Nat /\ Len(u.args) \in Nat
      /\ letter = 1 \/ letter <= Len(u.says)
  BY DEF TypedIn, Here
<1>2. /\ ArgsBefore(k) \in Nat /\ ArgsBefore(k + 1) = ArgsBefore(k) + Len(u.args)
      /\ SaysBefore(k) \in Nat /\ SaysBefore(k + 1) = SaysBefore(k) + Len(u.says)
      /\ SaysBefore(k + 1) <= Len(Said) /\ Said \in Seq(Entries)
      /\ \A j \in 1 .. Len(u.says) : Said[SaysBefore(k) + j] = u.says[j]
  BY <1>1, UnitStarts
<1>3. current = ArgsBefore(k) + 1 /\ HasRead(n - 1)
  BY <1>1, <1>2 DEF ReadUpTo
<1>4. /\ Sound' = Sound
      /\ \A i : ArgsBefore(i)' = ArgsBefore(i) /\ SaysBefore(i)' = SaysBefore(i)
      /\ UNCHANGED argv => (TypedIn' <=> TypedIn)
  BY SameCommand
<1>5. \A j \in 1 .. Len(u.says) : SaysBefore(k) + j \in 1 .. Len(Said)
  <2>1. Len(Said) \in Nat
    BY <1>2
  <2> DEFINE b == SaysBefore(k)
             w == Len(u.says)
  <2>2. b \in Nat /\ w \in Nat /\ b + w <= Len(Said)
    BY <1>1, <1>2
  <2> HIDE DEF b, w
  <2>3. \A j \in 1 .. w : b + j \in 1 .. Len(Said)
    BY <2>1, <2>2
  <2> QED BY <2>3 DEF b, w
<1>6. k \in 1 .. Len(typed) + 1 /\ k + 1 \in 1 .. Len(typed) + 1 /\ k <= Len(typed)
  BY <1>1
<1>0. /\ \A p, q \in Nat : (p + 1) + q = (p + q) + 1
      /\ \A p, q \in Nat : p + (q + 1) - 1 = p + q
      /\ \A p \in Nat : p + 1 - 1 = p /\ p + 0 = p
  OBVIOUS
<1>11. current + Len(u.args) = ArgsBefore(next1) + 1
  <2>1. current + Len(u.args) = (ArgsBefore(k) + 1) + Len(u.args)
    BY <1>3
  <2>2. (ArgsBefore(k) + 1) + Len(u.args) = (ArgsBefore(k) + Len(u.args)) + 1
    BY <1>0, <1>1, <1>2
  <2> QED BY <1>2, <2>1, <2>2
<1>12. SaysBefore(next1) = SaysBefore(k) + Len(u.says) /\ SaysBefore(next1) \in Nat
  BY <1>1, <1>2
<1>13. next1 \in 1 .. Len(typed) + 1 /\ SaysBefore(next1) + 1 - 1 = SaysBefore(next1)
  BY <1>0, <1>6, <1>12
<1>14. Leads(next1, current + Len(u.args), 1, SaysBefore(next1))
  <2> DEFINE a == ArgsBefore(next1)
             b == SaysBefore(next1)
             c == current + Len(u.args)
  <2>1. c = a + 1 /\ b = b + 1 - 1
    BY <1>11, <1>13
  <2>2. 1 = 1 \/ (next1 <= Len(typed) /\ 1 \in 1 .. Len(typed[next1].says))
    OBVIOUS
  <2> QED BY <2>1, <2>2 DEF Leads
<1>7. ASSUME NEW i \in 1 .. Len(typed) + 1, ReadUpTo(i)', UNCHANGED <<argv, phase>>,
             DOMAIN parsed' = Options
      PROVE  phase' = phase /\ Reading'
  BY <1>4, <1>7 DEF Reading
<1>8. CASE ReadsOn(u)
  <2>1. letter \in 1 .. Len(u.says) /\ u.says[letter].option \in Options
    BY <1>8 DEF ReadsOn
  <2>2. n \in 1 .. Len(Said) /\ Said[n] = u.says[letter]
    BY <1>2, <1>5, <2>1
  <2>3. ASSUME NEW argument, NEW l,
               parse_option(u.says[letter].option, u.says[letter].text, argument, l)
        PROVE  \/ phase' = "stopped" /\ ~Sound'
               \/ GoTo(argument, l) /\ HasRead(n)' /\ DOMAIN parsed' = Options
    <3>1. parse_option(Said[n].option, Said[n].text, argument, l) /\ Said[n].option \in Options
      BY <2>1, <2>2, <2>3
    <3> QED BY <1>2, <1>3, <2>2, <3>1, EntryRead
  <2>4. CASE /\ letter < Len(u.says)
             /\ parse_option(u.says[letter].option, u.says[letter].text, current, letter + 1)
    <3> PICK here, l : here = current /\ l = letter + 1
      OBVIOUS
    <3>1. CASE GoTo(here, l) /\ HasRead(n)' /\ DOMAIN parsed' = Options
      <4>1. Leads(k, here, l, n)
        <5>1. letter + 1 \in 1 .. Len(u.says)
          BY <1>1, <2>4
        <5>2. n = SaysBefore(k) + (letter + 1) - 1
          BY <1>0, <1>1, <1>2
        <5> QED BY <1>3, <1>6, <5>1, <5>2 DEF Leads
      <4>2. ReadUpTo(k)'
        BY <1>3, <1>6, <3>1, <4>1, ComesTo DEF GoTo
      <4> QED BY <1>6, <1>7, <3>1, <4>2 DEF GoTo
    <3> QED BY <2>3, <2>4, <3>1
  <2>5. CASE /\ letter = Len(u.says)
             /\ parse_option(u.says[letter].option, u.says[letter].text,
                             current + Len(u.args), 1)
    <3> PICK there, l : there = current + Len(u.args) /\ l = 1
      OBVIOUS
    <3>1. CASE GoTo(there, l) /\ HasRead(n)' /\ DOMAIN parsed' = Options
      <4>1. Leads(next1, there, l, n)
        <5>1. n = SaysBefore(next1)
          BY <1>12, <2>5
        <5> QED BY <1>14, <5>1
      <4>2. ReadUpTo(next1)'
        BY <3>1, <4>1, ComesTo DEF GoTo
      <4> QED BY <1>13, <1>7, <3>1, <4>2 DEF GoTo
    <3> QED BY <2>3, <2>5, <3>1
  <2> QED BY <1>8, <2>4, <2>5 DEF ReadsOn
<1>9. ASSUME Throws, NEW i \in 1 .. Len(u.says), Unknown(u.says[i])
      PROVE  phase' = "stopped" /\ ~Sound'
  <2>1. SaysBefore(k) + i \in 1 .. Len(Said) /\ Unknown(Said[SaysBefore(k) + i])
    BY <1>2, <1>5, <1>9
  <2>2. ~Sound
    BY <1>2, <2>1, RefusedIsUnsound
  <2> QED BY <1>4, <1>9, <2>2 DEF Throws
<1>10. CASE /\ u.says = <<>> /\ letter = 1
            /\ GoTo(current + Len(u.args), 1) /\ UNCHANGED parsed
  <2>1. Len(u.says) = 0
    BY <1>10
  <2> PICK there, m, l : there = current + Len(u.args) /\ m = n - 1 /\ l = 1
    OBVIOUS
  <2>2. Leads(next1, there, l, m)
    <3>1. n - 1 = SaysBefore(next1)
      BY <1>0, <1>2, <1>10, <1>12, <2>1
    <3> QED BY <1>14, <3>1
  <2>3. HasRead(m)'
    <3>1. Said' = Said /\ parsed' = parsed
      BY <1>10, SameCommand
    <3> QED BY <1>3, <3>1 DEF HasRead
  <2>4. current' = there /\ letter' = l /\ UNCHANGED <<argv, phase>>
    BY <1>10 DEF GoTo
  <2>5. ReadUpTo(next1)'
    BY <2>2, <2>3, <2>4, ComesTo
  <2>6. DOMAIN parsed' = Options
    BY <1>10
  <2> QED BY <1>13, <1>7, <2>4, <2>5, <2>6
<1> QED BY <1>8, <1>9, <1>10 DEF Turn

-----------------------------------------------------------------------------
(* The end of the command line, and what main() finds. *)

LEMMA ParserTurns ==
    ASSUME Reading, phase = "parse", UNCHANGED typed,
           ParseLetter \/ ParseLong \/ SkipWord \/ SkipRest \/ RejectArgument
    PROVE  \/ phase' = "stopped" /\ ~Sound'
           \/ phase' = "parse" /\ Reading'
<1>1. current <= Len(argv)
  BY DEF ParseLetter, ParseLong, SkipWord, SkipRest, RejectArgument, Parsing
<1>2. TypedIn /\ DOMAIN parsed = Options
  BY DEF Reading
<1>3. PICK k \in 1 .. Len(typed) + 1 : ReadUpTo(k)
  BY DEF Reading
<1>4. Here(typed[k], k)
  BY <1>1, <1>2, <1>3, UnitHere
<1>5. Turn(typed[k])
  BY <1>4, GroupTurns, LongTurns, OtherTurns
<1> QED BY <1>2, <1>3, <1>4, <1>5, TurnReads

\* Behind the last argument there is nothing left to read.
LEMMA AllRead ==
    ASSUME Reading, current > Len(argv)
    PROVE  HasRead(Len(Said))
<1>1. TypedIn /\ typed \in Seq(Units) /\ typed # <<>> /\ Len(typed) \in Nat
  BY DEF Reading, TypedIn
<1>2. PICK k \in 1 .. Len(typed) + 1 : ReadUpTo(k)
  BY DEF Reading
<1>3. /\ current = ArgsBefore(k) + 1 /\ HasRead(SaysBefore(k) + letter - 1)
      /\ letter = 1 \/ (k <= Len(typed) /\ letter \in 1 .. Len(typed[k].says))
  BY <1>2 DEF ReadUpTo
<1>4. /\ SaysBefore(Len(typed) + 1) = Len(Said) /\ Len(Said) \in Nat
      /\ \A i \in 1 .. Len(typed) :
            /\ ArgsBefore(i) \in Nat /\ Len(typed[i].args) \in Nat
            /\ ArgsBefore(i + 1) = ArgsBefore(i) + Len(typed[i].args)
            /\ ArgsBefore(i + 1) <= Len(argv)
            /\ SaysBefore(i) \in Nat /\ Len(typed[i].says) \in Nat
            /\ SaysBefore(i + 1) = SaysBefore(i) + Len(typed[i].says)
  <2>1. argv = FlattenSeq(ArgsIn(typed))
    BY <1>1 DEF TypedIn
  <2> QED BY <1>1, <2>1, UnitStarts
<1>5. CASE k = Len(typed) + 1
  <2>1. letter = 1
    <3>1. ~(k <= Len(typed))
      BY <1>1, <1>5
    <3> QED BY <1>3, <3>1
  <2>2. SaysBefore(k) = Len(Said)
    BY <1>4, <1>5
  <2>3. SaysBefore(k) + letter - 1 = Len(Said)
    BY <1>4, <2>1, <2>2
  <2> QED BY <1>3, <2>3
<1>6. CASE k \in 1 .. Len(typed)
  <2> DEFINE u == typed[k]
  <2>1. Len(u.args) = 0
    <3> DEFINE a == ArgsBefore(k)
               x == Len(u.args)
               b == ArgsBefore(k + 1)
    <3>1. a \in Nat /\ x \in Nat /\ b = a + x /\ b <= Len(argv) /\ current = a + 1
      BY <1>3, <1>4, <1>6
    <3>2. argv \in Seq(Arguments) /\ Len(argv) \in Nat
      <4> DEFINE parts == ArgsIn(typed)
      <4>1. parts \in Seq(Seq(Arguments)) /\ argv = FlattenSeq(parts)
        BY <1>1, TypedParts DEF TypedIn
      <4> HIDE DEF parts
      <4>2. Len(parts) \in 0 .. Len(parts)
        BY <4>1
      <4>3. JoinUpTo(parts, Len(parts)) = FlattenSeq(parts)
        BY <4>1, FlattenSteps
      <4>4. JoinUpTo(parts, Len(parts)) \in Seq(Arguments)
        BY <4>1, <4>2, FlattenSteps
      <4> QED BY <4>1, <4>3, <4>4
    <3> HIDE DEF a, x, b
    <3> QED BY <3>1, <3>2 DEF x
  <2>2. u.args = <<>>
    <3>1. u \in Units
      BY <1>1, <1>6
    <3>2. u.args \in Seq(Arguments)
      BY <3>1 DEF Units
    <3> QED BY <2>1, <3>2
  <2>3. k = Len(typed) /\ u = Last(typed)
    <3>1. k \notin 1 .. Len(typed) - 1
      BY <1>1, <2>2 DEF TypedIn, IsPiece
    <3>2. k = Len(typed)
      BY <1>1, <1>6, <3>1
    <3> QED BY <3>2 DEF Last
  <2>4. u.says = <<>>
    BY <1>1, <2>2, <2>3 DEF TypedIn, IsEnding
  <2>5. Len(u.says) = 0
    BY <2>4
  <2>6. letter = 1
    BY <1>3, <2>5
  <2>7. SaysBefore(k + 1) = SaysBefore(k) + 0 /\ SaysBefore(k) \in Nat
    BY <1>4, <1>6, <2>5
  <2>8. SaysBefore(k + 1) = Len(Said)
    BY <1>4, <2>3
  <2>9. SaysBefore(k) + 1 - 1 = Len(Said)
    BY <2>7, <2>8
  <2> QED BY <1>3, <2>6, <2>9
<1> QED BY <1>1, <1>2, <1>5, <1>6

\* What is kept of each option when all of the command line has been read.
LEMMA TextsType ==
    ASSUME TypedIn, NEW o
    PROVE  /\ TextsOf(o) \in Seq(Texts) /\ Len(TextsOf(o)) \in Nat
           /\ Says(o) <=> Len(TextsOf(o)) # 0
           /\ Says(o) <=> Len(TextsOf(o)) > 0
<1>1. Said \in Seq(Entries)
  BY UnitStarts DEF TypedIn
<1>2. TextsOf(o) \in Seq(Texts)
  BY <1>1, TextsSteps DEF TextsOf
<1> QED BY <1>2 DEF Says

LEMMA KeptOf ==
    ASSUME TypedIn, HasRead(Len(Said)), NEW o \in Options
    PROVE  Keeps(parsed[o], o, TextsOf(o))
<1>1. Said \in Seq(Entries)
  BY UnitStarts DEF TypedIn
<1>2. TextsIn(SubSeq(Said, 1, Len(Said)), o) = TextsOf(o)
  BY <1>1, TextsSteps DEF TextsOf
<1> QED BY <1>2 DEF HasRead

LEMMA DefaultValues ==
    ASSUME NEW o \in Options, HasDefault(o)
    PROVE  (CHOOSE v \in parse_value(o, DefaultValue(o), <<>>) : TRUE) = <<DefaultIs(o)>>
<1>1. o \in {"H", "P"} \/ TypeOf[o] = "bool"
  BY DEF HasDefault, HasImplicit
<1>2. parse_value(o, DefaultValue(o), <<>>) = {<<DefaultIs(o)>>}
  <2>1. CASE o = "H"
    BY <2>1, OptionTypes DEF parse_value, DefaultValue, DefaultIs
  <2>2. CASE o = "P"
    <3>1. DefaultValue(o) = Number(<<1, 8, 8, 3>>) /\ DefaultIs(o) = 1883
      BY <2>2 DEF DefaultValue, DefaultIs
    <3>2. parse_value(o, DefaultValue(o), <<>>)
             = {<<n>> : n \in integer_parser(DefaultValue(o).number)}
      BY <2>2, OptionTypes DEF parse_value
    <3> QED BY <3>1, <3>2, DefaultPort
  <2>3. CASE o \notin {"H", "P"}
    <3>1. TypeOf[o] = "bool"
      BY <1>1, <2>3
    <3>2. DefaultValue(o) = Bool("false") /\ DefaultIs(o) = "false"
      BY <2>3 DEF DefaultValue, DefaultIs
    <3>3. DefaultValue(o).truth = "false"
      BY <3>2 DEF Bool
    <3>4. parse_value(o, DefaultValue(o), <<>>) = {<<b>> : b \in {"false"} \ {"neither"}}
      BY <3>1, <3>3 DEF parse_value
    <3> QED BY <3>2, <3>4
  <2> QED BY <2>1, <2>2, <2>3
<1> QED BY <1>2

LEMMA DefaultsRead ==
    ASSUME Reading, ParseDefaults, UNCHANGED typed
    PROVE  phase' = "parsed" /\ TypedIn' /\ AllKept'
<1>1. TypedIn /\ HasRead(Len(Said))
  BY AllRead DEF ParseDefaults, Reading
<1>2. TypedIn' /\ \A o : TextsOf(o)' = TextsOf(o) /\ (Says(o)' <=> Says(o))
  BY <1>1, SameCommand DEF ParseDefaults
<1>3. ASSUME NEW o \in Options
      PROVE  IF HasDefault(o) /\ ~Says(o)
             THEN parsed'[o] = [count |-> 0, stored |-> TRUE, value |-> <<DefaultIs(o)>>]
             ELSE Keeps(parsed'[o], o, TextsOf(o))
  <2>1. Keeps(parsed[o], o, TextsOf(o)) /\ Count(o) = Len(TextsOf(o))
    BY <1>1, KeptOf DEF Keeps, Count
  <2>2. Count(o) = 0 <=> ~Says(o)
    BY <1>1, <2>1, TextsType
  <2>3. parsed'[o] =
          IF HasDefault(o) /\ Count(o) = 0
          THEN [count |-> 0, stored |-> TRUE,
                value |-> CHOOSE v \in parse_value(o, DefaultValue(o), <<>>) : TRUE]
          ELSE parsed[o]
    BY DEF ParseDefaults
  <2> QED BY <2>1, <2>2, <2>3, DefaultValues
<1> QED BY <1>2, <1>3 DEF AllKept, ParseDefaults

\* What main() finds when all has been read.
LEMMA KeptMeans ==
    ASSUME TypedIn, AllKept
    PROVE  /\ \A o \in Options : /\ Given(o) <=> Says(o)
                                 /\ Says(o) => parsed[o].stored
           /\ \A o \in {"s", "r"} : Flag(o) <=> IsOn(o)
           /\ As("H") = IF Says("H") THEN LastText("H") ELSE Text("localhost")
           /\ Says("P") /\ IsPort(LastText("P")) => As("P") = Meant(LastText("P"))
           /\ ~Says("P") => As("P") = 1883
           /\ \A o \in {"W", "T"} : Says(o) => As(o) = LastText(o)
           /\ \A o \in {"p", "t"} : Says(o) => parsed[o].value = ItemsOf(o)
<1>1. ASSUME NEW o \in Options, Says(o)
      PROVE  /\ Given(o) /\ parsed[o].stored
             /\ TypeOf[o] = "string" => As(o) = LastText(o)
             /\ TypeOf[o] = "bool" => As(o) = LastText(o).truth
             /\ TypeOf[o] = "uint16_t" /\ IsPort(LastText(o)) => As(o) = Meant(LastText(o))
             /\ TypeOf[o] = "vector" => parsed[o].value = ItemsOf(o)
  <2>1. Keeps(parsed[o], o, TextsOf(o)) /\ TextsOf(o) # <<>> /\ Len(TextsOf(o)) > 0
    BY <1>1, TextsType DEF AllKept, Says
  <2> DEFINE texts == TextsOf(o)
             kept == parsed[o]
  <2>2. /\ kept.count = Len(texts) /\ kept.stored = (texts # <<>>)
        /\ TypeOf[o] = "string" => kept.value = <<Last(texts)>>
        /\ TypeOf[o] = "bool" => kept.value = <<Last(texts).truth>>
        /\ TypeOf[o] = "uint16_t" /\ IsPort(Last(texts)) => kept.value = <<Meant(Last(texts))>>
        /\ TypeOf[o] = "vector" => kept.value = ItemsIn(texts)
    BY <2>1 DEF Keeps
  <2>3. kept.stored
    BY <2>1, <2>2
  <2>4. kept.count > 0
    BY <2>1, <2>2
  <2> QED BY <2>2, <2>3, <2>4 DEF Given, Count, As, LastText, ItemsOf
<1>2. ASSUME NEW o \in Options, ~Says(o)
      PROVE  /\ ~Given(o)
             /\ HasDefault(o) => As(o) = DefaultIs(o)
  <2>1. CASE HasDefault(o)
    <3>1. parsed[o] = [count |-> 0, stored |-> TRUE, value |-> <<DefaultIs(o)>>]
      BY <1>2, <2>1 DEF AllKept
    <3>2. parsed[o].count = 0 /\ parsed[o].value = <<DefaultIs(o)>>
      BY <3>1
    <3> QED BY <3>2 DEF Given, Count, As
  <2>2. CASE ~HasDefault(o)
    <3>1. Keeps(parsed[o], o, TextsOf(o)) /\ Len(TextsOf(o)) = 0
      BY <1>2, <2>2, TextsType DEF AllKept
    <3>2. parsed[o].count = 0
      BY <3>1 DEF Keeps
    <3> QED BY <2>2, <3>2 DEF Given, Count
  <2> QED BY <2>1, <2>2
<1>3. /\ "H" \in Options /\ "P" \in Options /\ "W" \in Options /\ "T" \in Options
      /\ "t" \in Options /\ "s" \in Options /\ "p" \in Options /\ "r" \in Options
  BY OptionNames
<1>4. HasDefault("H") /\ HasDefault("P") /\ HasDefault("s") /\ HasDefault("r")
  BY OptionTypes DEF HasDefault, HasImplicit
<1>5. /\ DefaultIs("H") = Text("localhost") /\ DefaultIs("P") = 1883
      /\ DefaultIs("s") = "false" /\ DefaultIs("r") = "false"
  BY DEF DefaultIs
<1>6. ASSUME NEW o \in {"s", "r"}
      PROVE  Flag(o) <=> IsOn(o)
  <2>1. Says(o) => As(o) = LastText(o).truth
    BY <1>1, <1>3, OptionTypes
  <2>2. ~Says(o) => As(o) = "false"
    BY <1>2, <1>3, <1>4, <1>5
  <2> QED BY <2>1, <2>2 DEF Flag, IsOn
<1>7. \A o \in Options : (Given(o) <=> Says(o)) /\ (Says(o) => parsed[o].stored)
  BY <1>1, <1>2
<1>8. As("H") = IF Says("H") THEN LastText("H") ELSE Text("localhost")
  <2>1. Says("H") => As("H") = LastText("H")
    BY <1>1, <1>3, OptionTypes
  <2>2. ~Says("H") => As("H") = DefaultIs("H")
    BY <1>2, <1>3, <1>4
  <2> QED BY <1>5, <2>1, <2>2
<1>9. /\ Says("P") /\ IsPort(LastText("P")) => As("P") = Meant(LastText("P"))
      /\ ~Says("P") => As("P") = 1883
  <2>1. Says("P") /\ IsPort(LastText("P")) => As("P") = Meant(LastText("P"))
    BY <1>1, <1>3, OptionTypes
  <2>2. ~Says("P") => As("P") = DefaultIs("P")
    BY <1>2, <1>3, <1>4
  <2> QED BY <1>5, <2>1, <2>2
<1>10. \A o \in {"W", "T"} : Says(o) => As(o) = LastText(o)
  BY <1>1, <1>3, OptionTypes
<1>11. \A o \in {"p", "t"} : Says(o) => parsed[o].value = ItemsOf(o)
  BY <1>1, <1>3, OptionTypes
<1> QED BY <1>6, <1>7, <1>8, <1>9, <1>10, <1>11

\* What main() refuses is not sound.
LEMMA HelpIsUnsound ==
    ASSUME TypedIn, AllKept, AsksForHelp
    PROVE  ~Sound
<1>1. \A o \in Options : Given(o) <=> Says(o)
  BY KeptMeans
<1>2. "h" \in Options /\ "t" \in Options /\ "W" \in Options /\ "T" \in Options
  BY OptionNames
<1> QED BY <1>1, <1>2 DEF AsksForHelp, Sound

LEMMA RefusedByMain ==
    ASSUME TypedIn, AllKept, NoTopic \/ NothingToDo
    PROVE  ~Sound
<1>1. "p" \in Options /\ "t" \in Options
  BY OptionNames
<1>2. /\ Given("p") <=> Says("p")
      /\ Given("t") <=> Says("t")
      /\ Says("t") => parsed["t"].stored
      /\ Flag("s") <=> IsOn("s")
  BY <1>1, KeptMeans
<1>3. CASE NoTopic
  BY <1>2, <1>3 DEF NoTopic, Sound
<1>4. CASE NothingToDo
  <2>1. ~Flag("s") /\ (~Given("p") \/ ~Given("t") \/ ~SameLength)
    BY <1>4 DEF NothingToDo
  <2> SUFFICES ASSUME Sound PROVE FALSE
    OBVIOUS
  <2>2. Says("t") /\ Says("p") /\ Len(ItemsOf("p")) = Len(ItemsOf("t"))
    BY <1>2, <2>1 DEF Sound
  <2>3. ~SameLength
    BY <1>2, <2>1, <2>2
  <2>4. \A o \in {"p", "t"} : parsed[o].value = ItemsOf(o)
    BY <2>2, KeptMeans
  <2> QED BY <2>2, <2>3, <2>4 DEF SameLength
<1> QED BY <1>3, <1>4

LEMMA BuiltAsGiven ==
    ASSUME TypedIn, AllKept, Build
    PROVE  ConfigAsGiven' /\ TypedIn' /\ AllKept'
<1>0. /\ UNCHANGED <<typed, argv, parsed>> /\ ~AsksForHelp
      /\ config' = [hostname |-> As("H"),
                    port |-> IF Given("P") \/ ~Given("H") THEN As("P") ELSE BuilderPort,
                    will |-> IF Given("W")
                             THEN <<[topic |-> As("T"), payload |-> As("W"),
                                     retain |-> Flag("r")]>>
                             ELSE <<>>]
  BY DEF Build
<1>1. /\ TypedIn'
      /\ \A o : /\ TextsOf(o)' = TextsOf(o) /\ (Says(o)' <=> Says(o))
                /\ LastText(o)' = LastText(o) /\ (IsOn(o)' <=> IsOn(o))
  BY <1>0, SameCommand
<1>2. AllKept'
  BY <1>0, <1>1 DEF AllKept
<1>3. "P" \in Options /\ "H" \in Options /\ "W" \in Options /\ "T" \in Options
  BY OptionNames
<1>4. /\ Given("P") <=> Says("P")
      /\ Given("W") <=> Says("W")
      /\ Given("T") <=> Says("T")
  BY <1>3, KeptMeans
<1>5. config'.hostname = IF Says("H") THEN LastText("H") ELSE Text("localhost")
  BY <1>0, KeptMeans
<1>6. IF Says("P") THEN IsPort(LastText("P")) => config'.port = Meant(LastText("P"))
      ELSE config'.port = 1883
  <2>1. config'.port = IF Given("P") \/ ~Given("H") THEN As("P") ELSE BuilderPort
    BY <1>0
  <2> QED BY <1>4, <2>1, KeptMeans DEF BuilderPort
<1>7. config'.will = IF Says("W")
                     THEN <<[topic |-> LastText("T"), payload |-> LastText("W"),
                             retain |-> IsOn("r")]>>
                     ELSE <<>>
  <2>1. config'.will = IF Given("W")
                       THEN <<[topic |-> As("T"), payload |-> As("W"), retain |-> Flag("r")]>>
                       ELSE <<>>
    BY <1>0
  <2>2. Says("W") => As("W") = LastText("W") /\ As("T") = LastText("T")
    BY <1>0, <1>4, KeptMeans DEF AsksForHelp
  <2>3. Flag("r") = IsOn("r")
    <3>1. Flag("r") <=> IsOn("r")
      BY KeptMeans
    <3>2. Flag("r") \in BOOLEAN /\ IsOn("r") \in BOOLEAN
      BY DEF Flag, IsOn
    <3> QED BY <3>1, <3>2
  <2> HIDE DEF Flag, IsOn
  <2> QED BY <1>4, <2>1, <2>2, <2>3
<1>8. IsOn("r")' = IsOn("r")
  <2>1. IsOn("r")' <=> IsOn("r")
    BY <1>1
  <2>2. IsOn("r")' \in BOOLEAN /\ IsOn("r") \in BOOLEAN
    BY DEF IsOn
  <2> QED BY <2>1, <2>2
<1> QED BY <1>1, <1>2, <1>5, <1>6, <1>7, <1>8 DEF ConfigAsGiven

LEMMA ItemsType ==
    ASSUME TypedIn, NEW o
    PROVE  ItemsOf(o) \in Seq(STRING)
<1> DEFINE texts == TextsOf(o)
<1>1. texts \in Seq(Texts)
  BY TextsType
<1> HIDE DEF texts
<1> DEFINE P == ItemParts(texts)
<1>2. P \in Seq(Seq(STRING)) /\ FlattenSeq(P) = ItemsIn(texts)
  BY <1>1, ItemPartsType DEF ItemsIn, ItemParts
<1> HIDE DEF P
<1>3. Len(P) \in 0 .. Len(P)
  BY <1>2
<1>4. FlattenSeq(P) \in Seq(STRING)
  BY <1>2, <1>3, FlattenSteps
<1> QED BY <1>2, <1>4 DEF ItemsOf, texts

LEMMA PublishedAsGiven ==
    ASSUME TypedIn, AllKept, StartPublishing
    PROVE  MessagesAsGiven'
<1> DEFINE P == ItemsOf("p")
           T == ItemsOf("t")
<1>1. P' = P /\ T' = T /\ (IsOn("r")' <=> IsOn("r"))
  BY SameCommand DEF StartPublishing
<1>2. "p" \in Options /\ "t" \in Options
  BY OptionNames
<1>3. Says("p") /\ Says("t") /\ (Flag("r") <=> IsOn("r"))
  <2>1. Given("p") /\ Given("t")
    BY DEF StartPublishing
  <2> QED BY <1>2, <2>1, KeptMeans
<1>4. Flag("r") = IsOn("r")'
  <2>1. Flag("r") \in BOOLEAN /\ IsOn("r") \in BOOLEAN /\ IsOn("r")' \in BOOLEAN
    BY DEF Flag, IsOn
  <2> QED BY <1>1, <1>3, <2>1
<1>5. parsed["p"].value = P /\ parsed["t"].value = T
  BY <1>3, KeptMeans
<1>6. P \in Seq(STRING) /\ T \in Seq(STRING)
  BY ItemsType
<1>7. /\ topics' = T /\ Len(P) = Len(T)
      /\ messages' = [i \in DOMAIN topics' |->
                         [topic |-> topics'[i], payload |-> P[i], retain |-> Flag("r")]]
  BY <1>5 DEF StartPublishing, SameLength
<1> HIDE DEF P, T, Flag, IsOn
<1>8. /\ DOMAIN T = 1 .. Len(T) /\ Len(T) \in Nat
      /\ messages' = [i \in 1 .. Len(T) |-> [topic |-> T[i], payload |-> P[i],
                                              retain |-> IsOn("r")']]
  BY <1>4, <1>6, <1>7
<1>9. Len(messages') = Len(T) /\ DOMAIN messages' = 1 .. Len(T)
  BY <1>8
<1>10. \A i \in DOMAIN messages' :
          messages'[i] = [topic |-> T[i], payload |-> P[i], retain |-> IsOn("r")']
  BY <1>8, <1>9
<1> QED BY <1>1, <1>7, <1>9, <1>10 DEF MessagesAsGiven, P, T

-----------------------------------------------------------------------------
(* Every step of main() and of what runs beside it. *)

\* In the other phases nothing is read of the command line.
LEMMA Read == phase \notin {"parse", "parsed", "built", "publish", "stopped"} => ParseInv
  BY DEF ParseInv, ConfigAsGiven, MessagesAsGiven, SoundIsObeyed

LEMMA NothingRead ==
    ASSUME ParseInv, UNCHANGED <<parserVars, mainVars>>
    PROVE  ParseInv'
<1>1. UNCHANGED <<argv, current, letter, parsed, phase, typed, config, messages>>
  BY DEF parserVars, mainVars
<1>2. /\ Said' = Said /\ Sound' = Sound
      /\ \A o : TextsOf(o)' = TextsOf(o) /\ (Says(o)' <=> Says(o))
      /\ \A o : ItemsOf(o)' = ItemsOf(o) /\ LastText(o)' = LastText(o)
                /\ (IsOn(o)' <=> IsOn(o))
      /\ \A k : ArgsBefore(k)' = ArgsBefore(k) /\ SaysBefore(k)' = SaysBefore(k)
      /\ TypedIn' <=> TypedIn
  BY <1>1, SameCommand
<1>3. Reading => Reading'
  <2> SUFFICES ASSUME Reading PROVE Reading'
    OBVIOUS
  <2>1. PICK k \in 1 .. Len(typed) + 1 : ReadUpTo(k)
    BY DEF Reading
  <2>2. PICK c, l, n : c = current /\ l = letter /\ n = SaysBefore(k) + letter - 1
    OBVIOUS
  <2>3. Leads(k, c, l, n) /\ HasRead(n)
    BY <2>1, <2>2 DEF ReadUpTo, Leads
  <2>4. HasRead(n)'
    BY <1>1, <1>2, <2>3 DEF HasRead
  <2>5. ReadUpTo(k)'
    BY <1>1, <2>2, <2>3, <2>4, ComesTo
  <2> QED BY <1>1, <1>2, <2>5 DEF Reading
<1>4. AllKept => AllKept'
  BY <1>1, <1>2 DEF AllKept
<1>5. IsOn("r")' = IsOn("r")
  <2>1. IsOn("r")' \in BOOLEAN /\ IsOn("r") \in BOOLEAN
    BY DEF IsOn
  <2> QED BY <1>2, <2>1
<1>6. ConfigAsGiven => ConfigAsGiven'
  BY <1>1, <1>2, <1>5 DEF ConfigAsGiven
<1>7. MessagesAsGiven => MessagesAsGiven'
  BY <1>1, <1>2, <1>5 DEF MessagesAsGiven
<1>8. SoundIsObeyed => SoundIsObeyed'
  BY <1>1, <1>2 DEF SoundIsObeyed
<1> QED BY <1>1, <1>2, <1>3, <1>4, <1>6, <1>7, <1>8 DEF ParseInv

LEMMA ParseMain ==
    ASSUME ParseInv, Main
    PROVE  ParseInv'
<1>1. ASSUME phase' = "stopped", ~Sound' PROVE ParseInv'
  BY <1>1 DEF ParseInv, ConfigAsGiven, MessagesAsGiven, SoundIsObeyed
<1>2. CASE Parse /\ UNCHANGED mainVars
  <2>1. UNCHANGED typed
    BY <1>2 DEF mainVars
  <2>2. CASE ParseDefaults
    <3>1. Reading
      BY <2>2 DEF ParseDefaults, ParseInv
    <3>2. phase' = "parsed" /\ TypedIn' /\ AllKept'
      BY <2>1, <2>2, <3>1, DefaultsRead
    <3> QED BY <3>2 DEF ParseInv, ConfigAsGiven, MessagesAsGiven, SoundIsObeyed
  <2>3. CASE ParseLetter \/ ParseLong \/ SkipWord \/ SkipRest \/ RejectArgument
    <3>1. phase = "parse"
      BY <2>3 DEF ParseLetter, ParseLong, SkipWord, SkipRest, RejectArgument, Parsing
    <3>2. \/ phase' = "stopped" /\ ~Sound'
          \/ phase' = "parse" /\ Reading'
      BY <2>1, <2>3, <3>1, ParserTurns DEF ParseInv
    <3>3. CASE phase' = "parse" /\ Reading'
      BY <3>3 DEF ParseInv, ConfigAsGiven, MessagesAsGiven, SoundIsObeyed
    <3> QED BY <1>1, <3>2, <3>3
  <2> QED BY <1>2, <2>2, <2>3 DEF Parse
<1>3. CASE PrintHelp
  <2>1. ~Sound
    BY <1>3, HelpIsUnsound DEF PrintHelp, ParseInv
  <2>2. phase' = "stopped" /\ UNCHANGED typed
    BY <1>3 DEF PrintHelp, Stops, mainVars
  <2> QED BY <1>1, <2>1, <2>2, SameCommand
<1>4. CASE NoTopic \/ NothingToDo
  <2>1. ~Sound
    BY <1>4, RefusedByMain DEF NoTopic, NothingToDo, ParseInv
  <2>2. phase' = "stopped" /\ UNCHANGED typed
    BY <1>4 DEF NoTopic, NothingToDo, Stops, mainVars
  <2> QED BY <1>1, <2>1, <2>2, SameCommand
<1>5. CASE Build
  <2>1. ConfigAsGiven' /\ TypedIn' /\ AllKept' /\ phase' = "built"
    BY <1>5, BuiltAsGiven DEF Build, ParseInv
  <2> QED BY <2>1 DEF ParseInv, MessagesAsGiven, SoundIsObeyed
<1>6. CASE StartPublishing
  <2>1. MessagesAsGiven' /\ phase' = "publish"
    BY <1>6, PublishedAsGiven DEF StartPublishing, ParseInv
  <2> QED BY <2>1 DEF ParseInv, ConfigAsGiven, SoundIsObeyed
<1>7. CASE PublishNext
  <2>1. phase = "publish" /\ UNCHANGED <<phase, messages, typed>>
    BY <1>7 DEF PublishNext, Stay
  <2>2. \A o : ItemsOf(o)' = ItemsOf(o) /\ (IsOn(o)' <=> IsOn(o))
    BY <2>1, SameCommand
  <2>3. IsOn("r")' = IsOn("r")
    <3>1. IsOn("r")' \in BOOLEAN /\ IsOn("r") \in BOOLEAN
      BY DEF IsOn
    <3> QED BY <2>2, <3>1
  <2>4. MessagesAsGiven'
    BY <2>1, <2>2, <2>3 DEF ParseInv, MessagesAsGiven
  <2> QED BY <2>1, <2>4 DEF ParseInv, ConfigAsGiven, SoundIsObeyed
<1>8. CASE StartSubscribing \/ Disconnect \/ SubscribeNext \/ Subscribed \/ Exit
  <2>1. phase' \in {"subscribe", "loop", "forever", "exit"}
    BY <1>8 DEF StartSubscribing, Disconnect, SubscribeNext, Subscribed, Exit
  <2> QED BY <2>1 DEF ParseInv, ConfigAsGiven, MessagesAsGiven, SoundIsObeyed
<1>9. CASE CallLoop
  BY <1>9, NothingRead DEF CallLoop, MainWaits
<1> QED BY <1>2, <1>3, <1>4, <1>5, <1>6, <1>7, <1>8, <1>9 DEF Main

LEMMA ParseStep == ParseInv /\ [CliNext]_cliVars => ParseInv'
<1> SUFFICES ASSUME ParseInv, [CliNext]_cliVars PROVE ParseInv'
  OBVIOUS
<1>1. CASE UNCHANGED cliVars
  BY <1>1, NothingRead DEF cliVars
<1>2. CASE Main
  BY <1>2, ParseMain
<1>3. CASE MainWaits
  BY <1>3, NothingRead DEF MainWaits
<1> QED BY <1>1, <1>2, <1>3 DEF CliNext

\* At first nothing has been read.
LEMMA InitTyped == CliInit => TypedIn
<1> SUFFICES ASSUME CliInit PROVE TypedIn
  OBVIOUS
<1>0. PICK n \in 0 .. MaxFragments : \E fragments \in [1 .. n -> Fragments] :
         \E ending \in Endings : typed = FlattenSeq(fragments) \o <<ending>>
  BY DEF CliInit
<1>1. PICK fragments \in [1 .. n -> Fragments], ending \in Endings :
         typed = FlattenSeq(fragments) \o <<ending>>
  BY <1>0
<1> DEFINE S == {u \in Units : IsPiece(u)}
           pieces == FlattenSeq(fragments)
<1>2. fragments \in Seq(Seq(S))
  <2>1. n \in Nat
    BY <1>1, CliAssumption
  <2>2. ASSUME NEW f \in Fragments PROVE f \in Seq(S)
    <3>1. f \in Seq(Units) /\ \A i \in DOMAIN f : IsPiece(f[i])
      BY CliAssumption
    <3>2. \A i \in 1 .. Len(f) : f[i] \in Units /\ IsPiece(f[i])
      BY <3>1
    <3> QED BY <3>1, <3>2
  <2> HIDE DEF S
  <2> QED BY <2>1, <2>2
<1>3. S \subseteq Units
  OBVIOUS
<1>4. \A u \in S : IsPiece(u)
  OBVIOUS
<1> HIDE DEF S
<1>5. pieces \in Seq(S)
  <2> DEFINE len == Len(fragments)
  <2>1. JoinUpTo(fragments, len) = FlattenSeq(fragments)
    BY <1>2, FlattenSteps
  <2>2. len \in 0 .. len
    BY <1>2
  <2>3. JoinUpTo(fragments, len) \in Seq(S)
    <3> HIDE DEF len
    <3>1. len = Len(fragments)
      BY DEF len
    <3> QED BY <1>2, <2>2, <3>1, FlattenSteps
  <2> QED BY <2>1, <2>3
<1> HIDE DEF pieces
<1>6. ending \in Units /\ IsEnding(ending)
  BY CliAssumption
<1>7. typed = Append(pieces, ending) /\ pieces \in Seq(Units)
  BY <1>1, <1>3, <1>5 DEF pieces
<1>8. typed \in Seq(Units) /\ typed # <<>> /\ Last(typed) = ending /\ Len(typed) = Len(pieces) + 1
  BY <1>6, <1>7, LastOfAppend
<1>9. ASSUME NEW k \in 1 .. Len(typed) - 1 PROVE IsPiece(typed[k])
  <2>1. k \in 1 .. Len(pieces)
    BY <1>7, <1>8
  <2>2. typed[k] = pieces[k] /\ pieces[k] \in S
    BY <1>5, <1>7, <2>1
  <2> QED BY <1>4, <2>2
<1>10. argv = FlattenSeq(ArgsIn(typed))
  BY DEF CliInit
<1> QED BY <1>6, <1>8, <1>9, <1>10 DEF TypedIn

LEMMA InitParse == CliInit => ParseInv
<1> SUFFICES ASSUME CliInit PROVE ParseInv
  OBVIOUS
<1>1. /\ TypedIn /\ phase = "parse" /\ current = 1 /\ letter = 1
      /\ parsed = [o \in Options |-> NoValue]
  BY InitTyped DEF CliInit, ParserInit
<1>2. typed \in Seq(Units) /\ Len(typed) \in Nat
  BY <1>1 DEF TypedIn
<1>3. ArgsBefore(1) = 0 /\ SaysBefore(1) = 0 /\ Said \in Seq(Entries)
  BY <1>2, UnitStarts
<1>4. HasRead(0)
  <2> SUFFICES ASSUME NEW o \in Options
               PROVE  Keeps(parsed[o], o, TextsIn(SubSeq(Said, 1, 0), o))
    BY DEF HasRead
  <2>1. TextsIn(SubSeq(Said, 1, 0), o) = <<>>
    BY <1>3, TextsSteps
  <2>2. parsed[o] = NoValue
    BY <1>1
  <2>3. Keeps(NoValue, o, <<>>)
    BY DEF Keeps, NoValue
  <2> QED BY <2>1, <2>2, <2>3
<1>5. SaysBefore(1) + letter - 1 = 0 /\ current = ArgsBefore(1) + 1
  BY <1>1, <1>3
<1>6. ReadUpTo(1)
  BY <1>1, <1>4, <1>5 DEF ReadUpTo
<1>7. Reading
  <2>1. 1 \in 1 .. Len(typed) + 1 /\ DOMAIN parsed = Options
    BY <1>1, <1>2
  <2> QED BY <1>1, <1>6, <2>1 DEF Reading
<1> QED BY <1>1, <1>7 DEF ParseInv, ConfigAsGiven, MessagesAsGiven, SoundIsObeyed

\* At each turn the parser has kept of every option what the part of the command
\* line before it says, however the line is divided into arguments and letters
\* (cxxopts.h:2231-2349).
THEOREM ParseInvCorrect == CliSpec => []ParseInv
BY InitParse, ParseStep, PTL DEF CliSpec

\* The client is configured as the command line says (main.cpp:46-59).
THEOREM ConfigAsGivenCorrect == CliSpec => []ConfigAsGiven
<1>1. ParseInv => ConfigAsGiven
  BY DEF ParseInv
<1> QED BY <1>1, ParseInvCorrect, PTL

\* The n-th item given with -p goes to the n-th item given with -t, whichever of
\* their texts are lists or empty (main.cpp:71-85).
THEOREM MessagesAsGivenCorrect == CliSpec => []MessagesAsGiven
<1>1. ParseInv => MessagesAsGiven
  BY DEF ParseInv
<1> QED BY <1>1, ParseInvCorrect, PTL

\* A command line that is used as it is meant to be is never refused
\* (cxxopts.h:2231-2349, main.cpp:36-91).
THEOREM SoundIsObeyedCorrect == CliSpec => []SoundIsObeyed
<1>1. ParseInv => SoundIsObeyed
  BY DEF ParseInv
<1> QED BY <1>1, ParseInvCorrect, PTL

=============================================================================
