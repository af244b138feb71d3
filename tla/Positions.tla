----------------------------- MODULE Positions -----------------------------
(***************************************************************************)
(* Parts of a sequence, named by the positions they are at: SelectSeq for  *)
(* modules that are proved about, which must not use recursion.            *)
(***************************************************************************)
EXTENDS Integers, Sequences, FiniteSets

\* The n-th smallest of a set of positions.
Nth(I, n) == CHOOSE i \in I : Cardinality({j \in I : j <= i}) = n

\* The elements of s at the positions I, in their order.
At(s, I) == [n \in 1 .. Cardinality(I) |-> s[Nth(I, n)]]

\* Some element of s is in C, and no two are.
Has(s, C) == \E i \in DOMAIN s : s[i] \in C
Sole(s, C) == \A i, j \in DOMAIN s : s[i] \in C /\ s[j] \in C => i = j

=============================================================================
