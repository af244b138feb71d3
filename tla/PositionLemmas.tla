--------------------------- MODULE PositionLemmas ---------------------------
(***************************************************************************)
(* Facts about recursive functions, about Nth, the n-th of a set of        *)
(* positions, about the elements of a sequence at some of its positions,   *)
(* and about the orders of a set.                                          *)
(***************************************************************************)
EXTENDS Positions, SequencesExt, TLAPS, FiniteSetTheorems, WellFoundedInduction

\* A nonempty set of naturals has a least element.
LEMMA LeastNatural ==
    ASSUME NEW T, T \subseteq Nat, T # {}
    PROVE  \E x \in T : \A y \in T : x <= y
<1>1. PICK x \in T : \A y \in T : ~ (<<y, x>> \in OpToRel(<, Nat))
  BY NatLessThanWellFounded, WFMin
<1>2. ASSUME NEW y \in T PROVE x <= y
  <2>1. ~ (y < x)
    BY <1>1, <1>2 DEF OpToRel
  <2> QED BY <2>1
<1> QED BY <1>2

\* A recursion over numbers: on B it is b; from any other n of D it goes to the
\* smaller number d[n], and h is what it makes of the result.
Recursion(S, D, B, d, b, h) ==
    /\ D \in SUBSET Nat /\ B \in SUBSET D /\ d \in [D -> D]
    /\ b \in [D -> S] /\ h \in [D \X S -> S]
    /\ \A n \in D \ B : d[n] < n

Solves(f, D, B, d, b, h) ==
    \A n \in D : f[n] = IF n \in B THEN b[n] ELSE h[<<n, f[d[n]]>>]

\* Such a recursion defines a function.
LEMMA RecursionEnds ==
    ASSUME NEW S, NEW D, NEW B, NEW d, NEW b, NEW h, Recursion(S, D, B, d, b, h)
    PROVE  \E f \in [D -> S] : Solves(f, D, B, d, b, h)
<1> USE DEF Recursion
<1> DEFINE Part(N) == {n \in D : n <= N}
           Upto(g, N) == /\ g \in [Part(N) -> S]
                         /\ \A n \in Part(N) :
                               g[n] = IF n \in B THEN b[n] ELSE h[<<n, g[d[n]]>>]
<1>1. ASSUME NEW M \in D, NEW N \in D, M <= N, NEW g, NEW e, Upto(g, N), Upto(e, M)
      PROVE  \A n \in Part(M) : g[n] = e[n]
  <2> DEFINE T == {n \in Part(M) : g[n] # e[n]}
  <2> SUFFICES ASSUME T # {} PROVE FALSE
    OBVIOUS
  <2>1. PICK n \in T : \A k \in T : n <= k
    <3>1. T \subseteq Nat
      OBVIOUS
    <3> HIDE DEF T
    <3> QED BY <3>1, LeastNatural
  <2>2. n \in Part(M) /\ n \in Part(N) /\ n \in Nat /\ M \in Nat /\ N \in Nat
    BY <1>1
  <2>3. CASE n \in B
    BY <1>1, <2>1, <2>2, <2>3
  <2>4. CASE n \notin B
    <3>1. d[n] \in D /\ d[n] < n /\ d[n] \in Nat
      BY <2>2, <2>4
    <3>2. d[n] \in Part(M) /\ d[n] \notin T
      BY <2>1, <2>2, <3>1
    <3>3. g[d[n]] = e[d[n]]
      BY <3>2
    <3> QED BY <1>1, <2>1, <2>2, <2>4, <3>3
  <2> QED BY <2>3, <2>4
<1>11. \A N \in D : \A M \in Part(N) :
          \A g, e : Upto(g, N) /\ Upto(e, M) => \A n \in Part(M) : g[n] = e[n]
  <2> SUFFICES ASSUME NEW N \in D, NEW M \in Part(N), NEW g, NEW e,
                      Upto(g, N), Upto(e, M)
               PROVE  \A n \in Part(M) : g[n] = e[n]
    <3> HIDE DEF Upto, Part
    <3> QED OBVIOUS
  <2>1. M \in D /\ M <= N
    OBVIOUS
  <2> HIDE DEF Upto, Part
  <2> QED BY <1>1, <2>1
<1>2. \A N \in D : \E g : Upto(g, N)
  <2> DEFINE T == {N \in D : ~ \E g : Upto(g, N)}
  <2> SUFFICES ASSUME T # {} PROVE FALSE
    OBVIOUS
  <2>1. PICK N \in T : \A k \in T : N <= k
    <3>1. T \subseteq Nat
      OBVIOUS
    <3> HIDE DEF T
    <3> QED BY <3>1, LeastNatural
  <2>2. \A k \in D : k < N => \E g : Upto(g, k)
    <3>1. ASSUME NEW k \in D, k < N PROVE k \notin T
      <4>1. k \in Nat /\ N \in Nat
        OBVIOUS
      <4> HIDE DEF T
      <4> QED BY <2>1, <3>1, <4>1
    <3> QED BY <3>1
  <2> DEFINE F(n) == CHOOSE g : Upto(g, n)
             step(n) == IF n \in B THEN b[n] ELSE h[<<n, F(d[n])[d[n]]>>]
             g == [n \in Part(N) |-> step(n)]
  <2>3. \A k \in D : k < N => Upto(F(k), k)
    <3> HIDE DEF Upto
    <3> QED BY <2>2
  <2>4. ASSUME NEW n \in Part(N), n \notin B
        PROVE  /\ d[n] \in D /\ d[n] < n /\ d[n] < N /\ d[n] \in Part(N)
               /\ d[n] \in Part(d[n])
               /\ Upto(F(d[n]), d[n]) /\ F(d[n])[d[n]] \in S
    <3>1. d[n] \in D /\ d[n] < n /\ n \in Nat /\ N \in Nat /\ d[n] \in Nat
      BY <2>4
    <3>2. Upto(F(d[n]), d[n])
      <4> HIDE DEF F, Upto
      <4> QED BY <2>3, <2>4, <3>1
    <3>3. d[n] \in Part(d[n]) /\ d[n] \in Part(N) /\ d[n] < N
      BY <2>4, <3>1
    <3> HIDE DEF F
    <3> QED BY <3>1, <3>2, <3>3
  <2>5. g \in [Part(N) -> S]
    <3>1. \A n \in Part(N) : step(n) \in S
      <4> TAKE n \in Part(N)
      <4>1. CASE n \in B
        BY <4>1
      <4>2. CASE n \notin B
        <5> HIDE DEF F
        <5> QED BY <2>4, <4>2
      <4> QED BY <4>1, <4>2
    <3> HIDE DEF step
    <3> QED BY <3>1
  <2>6. \A n \in Part(N) : step(n) = IF n \in B THEN b[n] ELSE h[<<n, g[d[n]]>>]
    <3> TAKE n \in Part(N)
    <3>1. CASE n \notin B
      <4> DEFINE k == d[n]
      <4>1. /\ k \in D /\ k \in Part(N) /\ k < N /\ Upto(F(k), k) /\ k \in Part(k)
            /\ k \in Nat
        <5> HIDE DEF F, Upto
        <5> QED BY <2>4, <3>1
      <4>2. F(k)[k] = step(k)
        <5>1. CASE k \in B
          <6> HIDE DEF F
          <6> QED BY <4>1, <5>1
        <5>2. CASE k \notin B
          <6>1. /\ d[k] \in D /\ d[k] < k /\ Upto(F(d[k]), d[k]) /\ d[k] \in Part(d[k])
            <7> HIDE DEF F, Upto, k
            <7> QED BY <2>4, <4>1, <5>2
          <6>2. F(k)[d[k]] = F(d[k])[d[k]]
            <7>1. d[k] \in Part(k)
              <8>1. d[k] \in Nat
                BY <6>1
              <8>2. d[k] <= k
                <9> HIDE DEF F, Upto, Part, k
                <9> QED BY <4>1, <6>1, <8>1
              <8> HIDE DEF F, Upto, k
              <8> QED BY <6>1, <8>2
            <7>2. \A u, e : Upto(u, k) /\ Upto(e, d[k]) => u[d[k]] = e[d[k]]
              <8>1. k \in D /\ d[k] \in Part(d[k])
                BY <4>1, <6>1
              <8> HIDE DEF F, Upto, Part, k
              <8> QED BY <1>11, <7>1, <8>1
            <7> HIDE DEF F, Upto, Part, k
            <7> QED BY <4>1, <6>1, <7>2
          <6> HIDE DEF F
          <6> QED BY <4>1, <5>2, <6>2
        <5> QED BY <5>1, <5>2
      <4>3. g[k] = step(k)
        <5> HIDE DEF step, k
        <5> QED BY <4>1
      <4> HIDE DEF F
      <4> QED BY <3>1, <4>2, <4>3
    <3>2. CASE n \in B
      BY <3>2
    <3> QED BY <3>1, <3>2
  <2>7. Upto(g, N)
    <3>1. \A n \in Part(N) : g[n] = step(n)
      <4> HIDE DEF step
      <4> QED OBVIOUS
    <3> HIDE DEF step, g
    <3> QED BY <2>5, <2>6, <3>1
  <2> HIDE DEF Upto
  <2> QED BY <2>1, <2>7
<1> DEFINE F(n) == CHOOSE g : Upto(g, n)
           f == [n \in D |-> F(n)[n]]
<1>3. \A n \in D : Upto(F(n), n) /\ n \in Part(n)
  <2>1. \A n \in D : n \in Part(n)
    OBVIOUS
  <2> HIDE DEF Upto, Part
  <2> QED BY <1>2, <2>1
<1>4. f \in [D -> S]
  <2>1. \A n \in D : F(n)[n] \in S
    <3> HIDE DEF F
    <3> QED BY <1>3
  <2> HIDE DEF F
  <2> QED BY <2>1
<1>5. ASSUME NEW n \in D PROVE f[n] = IF n \in B THEN b[n] ELSE h[<<n, f[d[n]]>>]
  <2>1. F(n)[n] = IF n \in B THEN b[n] ELSE h[<<n, F(n)[d[n]]>>]
    <3> HIDE DEF F
    <3> QED BY <1>3
  <2>2. CASE n \notin B
    <3>1. d[n] \in D /\ d[n] <= n /\ d[n] \in Part(d[n])
      <4>1. d[n] \in D /\ d[n] < n /\ n \in Nat /\ d[n] \in Nat
        BY <1>5, <2>2
      <4> HIDE DEF F, Upto
      <4> QED BY <1>3, <4>1
    <3>2. Upto(F(n), n) /\ Upto(F(d[n]), d[n])
      <4> HIDE DEF F, Upto, Part
      <4> QED BY <1>3, <3>1
    <3>3. F(n)[d[n]] = F(d[n])[d[n]]
      <4>1. \A u, e : Upto(u, n) /\ Upto(e, d[n]) => u[d[n]] = e[d[n]]
        <5>1. d[n] \in Part(n)
          BY <3>1
        <5> HIDE DEF F, Upto, Part, f
        <5> QED BY <1>5, <1>11, <3>1, <5>1
      <4> HIDE DEF F, Upto, Part, f
      <4> QED BY <3>2, <4>1
    <3> HIDE DEF F
    <3> QED BY <2>1, <2>2, <3>1, <3>3
  <2>3. CASE n \in B
    <3> HIDE DEF F
    <3> QED BY <2>1, <2>3
  <2> QED BY <2>2, <2>3
<1> HIDE DEF f
<1> QED BY <1>4, <1>5 DEF Solves

\* In particular one that goes from number to number.
Stepwise(S, len, base, h) ==
    len \in Nat /\ base \in S /\ h \in [(1 .. len) \X S -> S]

Goes(f, len, base, h) ==
    f[0] = base /\ \A n \in 1 .. len : f[n] = h[<<n, f[n - 1]>>]

LEMMA StepwiseEnds ==
    ASSUME NEW S, NEW len, NEW base, NEW h, Stepwise(S, len, base, h)
    PROVE  \E f \in [0 .. len -> S] : Goes(f, len, base, h)
<1> USE DEF Stepwise, Goes
<1> DEFINE D == 0 .. len
           d == [n \in D |-> IF n = 0 THEN 0 ELSE n - 1]
           b == [n \in D |-> base]
           g == [p \in D \X S |-> IF p[1] = 0 THEN base ELSE h[p]]
<1>1. Recursion(S, D, {0}, d, b, g)
  <2>1. D \in SUBSET Nat /\ {0} \in SUBSET D /\ b \in [D -> S]
    OBVIOUS
  <2>2. d \in [D -> D] /\ \A n \in D \ {0} : d[n] < n
    OBVIOUS
  <2>3. g \in [D \X S -> S]
    <3>1. ASSUME NEW n \in D, NEW s \in S PROVE (IF n = 0 THEN base ELSE h[<<n, s>>]) \in S
      <4>1. n # 0 => n \in 1 .. len
        OBVIOUS
      <4> QED BY <4>1
    <3> HIDE DEF D
    <3> QED BY <3>1
  <2> HIDE DEF D, d, b, g
  <2> QED BY <2>1, <2>2, <2>3 DEF Recursion
<1>2. PICK f \in [D -> S] : Solves(f, D, {0}, d, b, g)
  <2> HIDE DEF D, d, b, g
  <2> QED BY <1>1, RecursionEnds
<1>3. f[0] = base
  <2>1. 0 \in D /\ 0 \in {0} /\ b[0] = base
    OBVIOUS
  <2> HIDE DEF D, d, b, g
  <2> QED BY <1>2, <2>1 DEF Solves
<1>4. ASSUME NEW n \in 1 .. len PROVE f[n] = h[<<n, f[n - 1]>>]
  <2>1. n \in D /\ n # 0 /\ n - 1 \in D /\ d[n] = n - 1
    OBVIOUS
  <2>2. f[n - 1] \in S
    BY <1>2, <2>1
  <2>3. f[n] = g[<<n, f[n - 1]>>]
    <3> HIDE DEF D, d, b, g
    <3> QED BY <1>2, <2>1 DEF Solves
  <2>4. g[<<n, f[n - 1]>>] = h[<<n, f[n - 1]>>]
    <3> HIDE DEF D
    <3> QED BY <2>1, <2>2
  <2> QED BY <2>3, <2>4
<1> QED BY <1>2, <1>3, <1>4

\* The positions up to k are those up to k - 1, and k if it is one.
UpTo(I, k) == {j \in I : j <= k}

LEMMA UpToStep ==
    ASSUME NEW I \in SUBSET Nat, NEW k \in Nat, k # 0
    PROVE  /\ k \notin I => UpTo(I, k) = UpTo(I, k - 1)
           /\ k \in I => /\ UpTo(I, k) = UpTo(I, k - 1) \cup {k}
                         /\ k \notin UpTo(I, k - 1)
<1>1. ASSUME NEW j \in I, j # k PROVE j <= k <=> j <= k - 1
  <2>1. j \in Nat
    OBVIOUS
  <2> QED BY <2>1, <1>1
<1>2. k <= k /\ ~ (k <= k - 1)
  OBVIOUS
<1> QED BY <1>1, <1>2 DEF UpTo

LEMMA UpToEnds ==
    ASSUME NEW len \in Nat, NEW I \in SUBSET (1 .. len)
    PROVE  /\ UpTo(I, 0) = {}
           /\ UpTo(I, len) = I
           /\ IsFiniteSet(I) /\ Cardinality(I) \in Nat
           /\ \A k \in Nat : /\ IsFiniteSet(UpTo(I, k))
                              /\ Cardinality(UpTo(I, k)) \in Nat
<1>1. \A j \in I : j <= len /\ ~ (j <= 0)
  OBVIOUS
<1>2. IsFiniteSet(1 .. len)
  BY FS_Interval
<1>3. IsFiniteSet(I) /\ Cardinality(I) \in Nat
  BY <1>2, FS_Subset, FS_CardinalityType
<1>4. ASSUME NEW k \in Nat
      PROVE  IsFiniteSet(UpTo(I, k)) /\ Cardinality(UpTo(I, k)) \in Nat
  <2>1. UpTo(I, k) \in SUBSET I
    BY DEF UpTo
  <2> QED BY <2>1, <1>3, FS_Subset, FS_CardinalityType
<1> QED BY <1>1, <1>3, <1>4 DEF UpTo

\* The n-th element of a set I of positions exists: Nth chooses it.
LEMMA NthExists ==
    ASSUME NEW len \in Nat, NEW I \in SUBSET (1 .. len), NEW n \in 1 .. Cardinality(I)
    PROVE  Nth(I, n) \in I /\ Cardinality(UpTo(I, Nth(I, n))) = n
<1> DEFINE T == {k \in Nat : Cardinality(UpTo(I, k)) >= n}
<1>1. n \in Nat /\ n >= 1 /\ Cardinality(I) >= n /\ I \in SUBSET Nat
  BY UpToEnds
<1>2. len \in T
  <2>1. UpTo(I, len) = I
    BY UpToEnds
  <2>2. Cardinality(UpTo(I, len)) >= n
    BY <1>1, <2>1
  <2> QED BY <2>2
<1>3. PICK k \in Nat : k \in T /\ \A y \in T : k <= y
  <2>1. T \subseteq Nat
    OBVIOUS
  <2> HIDE DEF T
  <2> QED BY <2>1, <1>2, LeastNatural
<1>4. Cardinality(UpTo(I, k)) \in Nat /\ Cardinality(UpTo(I, k)) >= n
  BY <1>3, UpToEnds
<1>5. k # 0
  <2> SUFFICES ASSUME k = 0 PROVE FALSE
    OBVIOUS
  <2>1. Cardinality(UpTo(I, k)) = 0
    BY UpToEnds, FS_EmptySet
  <2> QED BY <2>1, <1>1, <1>4
<1>6. /\ k - 1 \in Nat
      /\ IsFiniteSet(UpTo(I, k - 1)) /\ Cardinality(UpTo(I, k - 1)) \in Nat
  <2>1. k - 1 \in Nat
    BY <1>5
  <2> QED BY <2>1, UpToEnds
<1>7. Cardinality(UpTo(I, k - 1)) < n
  <2>1. k - 1 \notin T
    <3> HIDE DEF T
    <3> QED BY <1>3, <1>6
  <2> QED BY <2>1, <1>1, <1>6
<1> HIDE DEF T
<1>8. k \in I
  <2> SUFFICES ASSUME k \notin I PROVE FALSE
    OBVIOUS
  <2>1. UpTo(I, k) = UpTo(I, k - 1)
    BY <1>1, <1>5, UpToStep
  <2> QED BY <2>1, <1>1, <1>4, <1>6, <1>7
<1>9. Cardinality(UpTo(I, k)) = n
  <2>1. UpTo(I, k) = UpTo(I, k - 1) \cup {k} /\ k \notin UpTo(I, k - 1)
    BY <1>1, <1>5, <1>8, UpToStep
  <2>2. Cardinality(UpTo(I, k)) = Cardinality(UpTo(I, k - 1)) + 1
    BY <2>1, <1>6, FS_AddElement
  <2> QED BY <2>2, <1>1, <1>4, <1>6, <1>7
<1> QED BY <1>8, <1>9 DEF Nth, UpTo

\* There are more positions up to a later one.
LEMMA UpToGrows ==
    ASSUME NEW len \in Nat, NEW I \in SUBSET (1 .. len), NEW i \in I, NEW j \in I,
           i < j
    PROVE  Cardinality(UpTo(I, i)) < Cardinality(UpTo(I, j))
<1>1. i \in Nat /\ j \in Nat /\ j # 0 /\ j - 1 \in Nat /\ I \in SUBSET Nat
  OBVIOUS
<1>2. UpTo(I, j) = UpTo(I, j - 1) \cup {j} /\ j \notin UpTo(I, j - 1)
  BY <1>1, UpToStep
<1>3. UpTo(I, i) \in SUBSET UpTo(I, j - 1)
  <2> SUFFICES ASSUME NEW k \in I, k <= i PROVE k <= j - 1
    BY DEF UpTo
  <2>1. k \in Nat
    BY <1>1
  <2> QED BY <1>1, <2>1
<1>4. /\ IsFiniteSet(UpTo(I, j - 1)) /\ Cardinality(UpTo(I, j - 1)) \in Nat
      /\ Cardinality(UpTo(I, i)) \in Nat
  BY <1>1, UpToEnds
<1>5. Cardinality(UpTo(I, i)) <= Cardinality(UpTo(I, j - 1))
  BY <1>3, <1>4, FS_Subset
<1>6. Cardinality(UpTo(I, j)) = Cardinality(UpTo(I, j - 1)) + 1
  BY <1>2, <1>4, FS_AddElement
<1> QED BY <1>4, <1>5, <1>6

\* Every element of a set of positions is its n-th, for some n.
LEMMA NthOnto ==
    ASSUME NEW len \in Nat, NEW I \in SUBSET (1 .. len), NEW i \in I
    PROVE  \E n \in 1 .. Cardinality(I) : Nth(I, n) = i
<1> DEFINE n == Cardinality(UpTo(I, i))
<1>1. i \in Nat /\ i # 0 /\ i - 1 \in Nat /\ I \in SUBSET Nat
  OBVIOUS
<1>2. n \in 1 .. Cardinality(I)
  <2>1. UpTo(I, i) = UpTo(I, i - 1) \cup {i} /\ i \notin UpTo(I, i - 1)
    BY <1>1, UpToStep
  <2>2. /\ IsFiniteSet(UpTo(I, i - 1)) /\ Cardinality(UpTo(I, i - 1)) \in Nat
        /\ IsFiniteSet(I) /\ Cardinality(I) \in Nat
    BY <1>1, UpToEnds
  <2>3. n = Cardinality(UpTo(I, i - 1)) + 1
    BY <2>1, <2>2, FS_AddElement
  <2>4. UpTo(I, i) \in SUBSET I
    BY DEF UpTo
  <2>5. n <= Cardinality(I)
    BY <2>2, <2>4, FS_Subset
  <2> QED BY <2>2, <2>3, <2>5
<1> HIDE DEF n
<1>3. Nth(I, n) \in I /\ Cardinality(UpTo(I, Nth(I, n))) = n
  BY <1>2, NthExists
<1>4. ~ (i < Nth(I, n)) /\ ~ (Nth(I, n) < i)
  <2>1. i < Nth(I, n) => n < Cardinality(UpTo(I, Nth(I, n)))
    BY <1>3, UpToGrows DEF n
  <2>2. Nth(I, n) < i => Cardinality(UpTo(I, Nth(I, n))) < n
    BY <1>3, UpToGrows DEF n
  <2>3. n \in Nat
    BY <1>2, UpToEnds
  <2> QED BY <1>3, <2>1, <2>2, <2>3
<1>5. Nth(I, n) = i
  <2>1. Nth(I, n) \in Nat
    BY <1>1, <1>3
  <2> QED BY <1>1, <1>4, <2>1
<1> QED BY <1>2, <1>5

\* Of all positions the n-th smallest is n.
LEMMA NthOfAll ==
    ASSUME NEW len \in Nat, NEW n \in 1 .. len
    PROVE  Nth(1 .. len, n) = n
<1>1. ASSUME NEW i \in 1 .. len PROVE Cardinality({j \in 1 .. len : j <= i}) = i
  <2>1. {j \in 1 .. len : j <= i} = 1 .. i
    OBVIOUS
  <2>2. Cardinality(1 .. i) = i
    <3>1. i \in Nat /\ 1 \in Int /\ i \in Int
      OBVIOUS
    <3> QED BY <3>1, FS_Interval
  <2> QED BY <2>1, <2>2
<1> QED BY <1>1 DEF Nth

\* The rank of a position is where Nth finds it.
LEMMA NthOfRank ==
    ASSUME NEW len \in Nat, NEW I \in SUBSET (1 .. len), NEW i \in I
    PROVE  /\ Cardinality(UpTo(I, i)) \in 1 .. Cardinality(I)
           /\ Nth(I, Cardinality(UpTo(I, i))) = i
<1>1. PICK n \in 1 .. Cardinality(I) : Nth(I, n) = i
  BY NthOnto
<1>2. Cardinality(UpTo(I, i)) = n
  BY <1>1, NthExists
<1> QED BY <1>1, <1>2

\* A later rank, a later position.
LEMMA NthGrows ==
    ASSUME NEW len \in Nat, NEW I \in SUBSET (1 .. len),
           NEW m \in 1 .. Cardinality(I), NEW n \in 1 .. Cardinality(I), m < n
    PROVE  Nth(I, m) < Nth(I, n)
<1> DEFINE a == Nth(I, m)
           b == Nth(I, n)
<1>1. /\ a \in I /\ b \in I /\ a \in Nat /\ b \in Nat
      /\ Cardinality(UpTo(I, a)) = m /\ Cardinality(UpTo(I, b)) = n
  <2>1. a \in I /\ Cardinality(UpTo(I, a)) = m
    BY NthExists
  <2>2. b \in I /\ Cardinality(UpTo(I, b)) = n
    BY NthExists
  <2> HIDE DEF a, b
  <2> QED BY <2>1, <2>2
<1>2. Cardinality(I) \in Nat
  BY UpToEnds
<1> HIDE DEF a, b
<1>3. m \in Nat /\ n \in Nat
  BY <1>2
<1>4. a # b
  BY <1>1, <1>3
<1>5. ~(b < a)
  <2> SUFFICES ASSUME b < a PROVE FALSE
    OBVIOUS
  <2>1. Cardinality(UpTo(I, b)) < Cardinality(UpTo(I, a))
    BY <1>1, UpToGrows
  <2> QED BY <1>1, <1>3, <2>1
<1> QED BY <1>1, <1>4, <1>5 DEF a, b

-----------------------------------------------------------------------------
(* The elements of a sequence at some of its positions. *)

\* They are a sequence in which each of the positions is met once.
LEMMA AtElements ==
    ASSUME NEW S, NEW s \in Seq(S), NEW I \in SUBSET DOMAIN s
    PROVE  /\ At(s, I) \in Seq(S)
           /\ Len(At(s, I)) = Cardinality(I) /\ Cardinality(I) \in Nat
           /\ DOMAIN At(s, I) = 1 .. Cardinality(I)
           /\ \A n \in 1 .. Cardinality(I) : /\ Nth(I, n) \in I
                                            /\ At(s, I)[n] = s[Nth(I, n)]
           /\ \A m, n \in 1 .. Cardinality(I) : Nth(I, m) = Nth(I, n) => m = n
           /\ \A i \in I : \E n \in 1 .. Cardinality(I) : Nth(I, n) = i
<1>1. I \in SUBSET (1 .. Len(s)) /\ Len(s) \in Nat
  OBVIOUS
<1>2. Cardinality(I) \in Nat
  BY <1>1, UpToEnds
<1>3. \A n \in 1 .. Cardinality(I) :
         Nth(I, n) \in I /\ Cardinality(UpTo(I, Nth(I, n))) = n
  BY <1>1, NthExists
<1>4. \A i \in I : \E n \in 1 .. Cardinality(I) : Nth(I, n) = i
  BY <1>1, NthOnto
<1>5. At(s, I) = [n \in 1 .. Cardinality(I) |-> s[Nth(I, n)]]
  BY DEF At
<1>6. At(s, I) \in [1 .. Cardinality(I) -> S]
  BY <1>1, <1>3, <1>5
<1>7. At(s, I) \in Seq(S) /\ Len(At(s, I)) = Cardinality(I)
  BY <1>2, <1>6
<1>8. ASSUME NEW m \in 1 .. Cardinality(I), NEW n \in 1 .. Cardinality(I),
             Nth(I, m) = Nth(I, n)
      PROVE  m = n
  <2>1. Cardinality(UpTo(I, Nth(I, m))) = m /\ Cardinality(UpTo(I, Nth(I, n))) = n
    BY <1>3
  <2> QED BY <2>1, <1>8
<1> QED BY <1>2, <1>3, <1>4, <1>5, <1>7, <1>8

\* The first n values of an increasing function are n.
LEMMA IncreasingCount ==
    ASSUME NEW n \in Nat, NEW len \in Nat, NEW f \in [1 .. n -> 1 .. len],
           \A i, j \in 1 .. n : i < j => f[i] < f[j],
           NEW k \in 0 .. n
    PROVE  Cardinality({f[i] : i \in 1 .. k}) = k
<1> DEFINE I == {f[i] : i \in 1 .. k}
           g == [i \in 1 .. k |-> f[i]]
<1>1. \A i \in 1 .. k : i \in 1 .. n
  OBVIOUS
<1>2. ASSUME NEW i \in 1 .. k, NEW j \in 1 .. k, f[i] = f[j] PROVE i = j
  <2>1. i \in 1 .. n /\ j \in 1 .. n /\ f[i] \in Nat /\ f[j] \in Nat
    BY <1>1
  <2>2. ~(i < j) /\ ~(j < i)
    BY <1>2, <2>1
  <2> QED BY <2>1, <2>2
<1>3. g \in Bijection(1 .. k, I)
  BY <1>2 DEF Bijection, Injection, IsInjective, Surjection
<1>4. IsFiniteSet(1 .. k) /\ Cardinality(1 .. k) = k
  <2>1. k \in Int /\ 1 \in Int
    OBVIOUS
  <2>2. Cardinality(1 .. k) = IF 1 > k THEN 0 ELSE k - 1 + 1
    BY <2>1, FS_Interval
  <2> QED BY <2>1, <2>2, FS_Interval
<1> HIDE DEF I, g
<1>5. Cardinality(I) = k
  BY <1>3, <1>4, FS_Bijection DEF ExistsBijection
<1> QED BY <1>5 DEF I

\* The elements at the values of an increasing function, in their order.
LEMMA AtIncreasing ==
    ASSUME NEW S, NEW s \in Seq(S), NEW n \in Nat, NEW f \in [1 .. n -> DOMAIN s],
           \A i, j \in 1 .. n : i < j => f[i] < f[j]
    PROVE  At(s, {f[i] : i \in 1 .. n}) = [i \in 1 .. n |-> s[f[i]]]
<1> DEFINE I == {f[i] : i \in 1 .. n}
<1>1. Len(s) \in Nat /\ DOMAIN s = 1 .. Len(s) /\ f \in [1 .. n -> 1 .. Len(s)]
  OBVIOUS
<1>2. I \in SUBSET (1 .. Len(s))
  BY <1>1
<1>3. Cardinality(I) = n
  <2>1. n \in 0 .. n
    OBVIOUS
  <2> QED BY <1>1, <2>1, IncreasingCount
<1>4. ASSUME NEW i \in 1 .. n
      PROVE  f[i] \in I /\ Cardinality(UpTo(I, f[i])) = i
  <2>1. UpTo(I, f[i]) = {f[j] : j \in 1 .. i}
    <3>1. ASSUME NEW j \in 1 .. n PROVE f[j] <= f[i] <=> j <= i
      <4>1. f[i] \in Nat /\ f[j] \in Nat /\ i \in Nat /\ j \in Nat
        BY <1>1
      <4>2. (i < j => f[i] < f[j]) /\ (j < i => f[j] < f[i])
        OBVIOUS
      <4> QED BY <4>1, <4>2
    <3>2. \A j \in 1 .. n : j <= i <=> j \in 1 .. i
      OBVIOUS
    <3>3. \A j \in 1 .. i : j \in 1 .. n
      OBVIOUS
    <3>4. ASSUME NEW x PROVE x \in UpTo(I, f[i]) <=> \E j \in 1 .. n : x = f[j] /\ j <= i
      BY <3>1 DEF UpTo
    <3>5. ASSUME NEW x PROVE x \in {f[j] : j \in 1 .. i} <=> \E j \in 1 .. n : x = f[j] /\ j <= i
      BY <3>2, <3>3
    <3> HIDE DEF I
    <3> QED BY <3>4, <3>5
  <2>2. Cardinality({f[j] : j \in 1 .. i}) = i
    <3>1. i \in 0 .. n
      OBVIOUS
    <3> QED BY <1>1, <3>1, IncreasingCount
  <2> QED BY <2>1, <2>2
<1>5. ASSUME NEW i \in 1 .. n PROVE Nth(I, i) = f[i]
  <2>1. Nth(I, i) \in I /\ Cardinality(UpTo(I, Nth(I, i))) = i
    BY <1>1, <1>2, <1>3, NthExists
  <2>2. PICK k \in 1 .. n : Nth(I, i) = f[k]
    BY <2>1
  <2>3. k = i
    BY <1>4, <2>1, <2>2
  <2> QED BY <2>2, <2>3
<1> HIDE DEF I
<1>6. At(s, I) = [i \in 1 .. n |-> s[Nth(I, i)]]
  BY <1>3 DEF At
<1>7. At(s, I) = [i \in 1 .. n |-> s[f[i]]]
  BY <1>5, <1>6
<1> QED BY <1>7 DEF I

\* s is what is left of t when some of its elements are lost.
PartOf(s, t) ==
    \E f \in [1 .. Len(s) -> DOMAIN t] :
        /\ \A i, j \in 1 .. Len(s) : i < j => f[i] < f[j]
        /\ s = [i \in DOMAIN f |-> t[f[i]]]

\* h finds the elements r has at J in s, in the same order.
Finds(h, J, r, s) == /\ \A i, j \in J : i < j => h[i] < h[j]
                     /\ \A j \in J : s[h[j]] = r[j]

\* If some elements of r are found among some of s, then r's are a part of s's in
\* their order.
LEMMA AtPart ==
    ASSUME NEW S, NEW r \in Seq(S), NEW s \in Seq(S),
           NEW J \in SUBSET DOMAIN r, NEW I \in SUBSET DOMAIN s, NEW h \in [J -> I],
           Finds(h, J, r, s)
    PROVE  PartOf(At(r, J), At(s, I))
<1>1. /\ Len(s) \in Nat /\ I \in SUBSET (1 .. Len(s))
      /\ Len(r) \in Nat /\ J \in SUBSET (1 .. Len(r))
      /\ \A i, j \in J : i < j => h[i] < h[j]
      /\ \A j \in J : s[h[j]] = r[j]
  BY DEF Finds
<1> DEFINE f == [n \in 1 .. Cardinality(J) |-> Cardinality(UpTo(I, h[Nth(J, n)]))]
<1>2. ASSUME NEW n \in 1 .. Cardinality(J)
      PROVE  /\ Nth(J, n) \in J /\ h[Nth(J, n)] \in I
             /\ Cardinality(UpTo(I, h[Nth(J, n)])) \in 1 .. Cardinality(I)
             /\ Nth(I, Cardinality(UpTo(I, h[Nth(J, n)]))) = h[Nth(J, n)]
  <2>1. Nth(J, n) \in J
    BY <1>1, NthExists
  <2>2. h[Nth(J, n)] \in I
    BY <2>1
  <2> QED BY <1>1, <2>1, <2>2, NthOfRank
<1>3. ASSUME NEW i \in 1 .. Cardinality(J), NEW j \in 1 .. Cardinality(J), i < j
      PROVE  f[i] < f[j]
  <2>1. Nth(J, i) < Nth(J, j)
    BY <1>1, <1>3, NthGrows
  <2>2. h[Nth(J, i)] < h[Nth(J, j)]
    BY <1>1, <1>2, <2>1
  <2>3. Cardinality(UpTo(I, h[Nth(J, i)])) < Cardinality(UpTo(I, h[Nth(J, j)]))
    BY <1>1, <1>2, <2>2, UpToGrows
  <2> QED BY <2>3
<1>4. ASSUME NEW n \in 1 .. Cardinality(J) PROVE At(r, J)[n] = At(s, I)[f[n]]
  <2>1. At(r, J)[n] = r[Nth(J, n)]
    BY AtElements
  <2>2. At(s, I)[f[n]] = s[Nth(I, f[n])]
    BY <1>2, AtElements
  <2>3. s[h[Nth(J, n)]] = r[Nth(J, n)]
    BY <1>1, <1>2
  <2> QED BY <1>2, <2>1, <2>2, <2>3
<1>5. f \in [1 .. Cardinality(J) -> 1 .. Cardinality(I)]
  BY <1>2
<1> HIDE DEF f
<1>6. /\ Len(At(r, J)) = Cardinality(J) /\ DOMAIN At(r, J) = 1 .. Cardinality(J)
      /\ At(r, J) = [n \in DOMAIN At(r, J) |-> At(r, J)[n]]
  <2>1. At(r, J) \in Seq(S)
    BY AtElements
  <2> QED BY <2>1, AtElements
<1>7. DOMAIN At(s, I) = 1 .. Cardinality(I)
  BY AtElements
<1>8. At(r, J) = [n \in DOMAIN f |-> At(s, I)[f[n]]]
  BY <1>4, <1>5, <1>6
<1> QED BY <1>3, <1>5, <1>6, <1>7, <1>8 DEF PartOf

-----------------------------------------------------------------------------
(* The orders of a set. *)

\* An order of a finite set is a sequence over it.
LEMMA OrderIsSeq ==
    ASSUME NEW S, IsFiniteSet(S), NEW order \in SetToSeqs(S)
    PROVE  order \in Seq(S)
<1>1. Cardinality(S) \in Nat
  BY FS_CardinalityType
<1> QED BY <1>1 DEF SetToSeqs

\* ... in which every element is once.
LEMMA OrderIsAll ==
    ASSUME NEW S, IsFiniteSet(S), NEW order \in SetToSeqs(S)
    PROVE  /\ \A i, j \in DOMAIN order : order[i] = order[j] => i = j
           /\ \A i \in DOMAIN order : order[i] \in S
           /\ \A x \in S : \E i \in DOMAIN order : order[i] = x
<1> DEFINE D == 1 .. Cardinality(S)
<1>1. Cardinality(S) \in Nat
  BY FS_CardinalityType
<1>2. /\ order \in [D -> S]
      /\ \A i, j \in D : i # j => order[i] # order[j]
  BY DEF SetToSeqs
<1>3. Cardinality(D) = Cardinality(S)
  <2> DEFINE n == Cardinality(S)
  <2>1. n \in Int /\ 1 \in Int /\ n >= 0
    BY <1>1
  <2> HIDE DEF n
  <2>2. Cardinality(1 .. n) = IF 1 > n THEN 0 ELSE n - 1 + 1
    BY <2>1, FS_Interval
  <2>3. Cardinality(1 .. n) = n
    BY <2>1, <2>2
  <2> QED BY <2>3 DEF n
<1> HIDE DEF D
<1>4. order \in Injection(D, S)
  BY <1>2 DEF Injection, IsInjective
<1>5. order \in Surjection(D, S)
  BY <1>3, <1>4, FS_Injection
<1> QED BY <1>2, <1>5 DEF Surjection

=============================================================================
