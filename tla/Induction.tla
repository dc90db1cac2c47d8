----------------------------- MODULE Induction -----------------------------
(***************************************************************************)
(* Lemmas about natural numbers that the proofs of several components      *)
(* rest on: induction over a set of numbers, the first iterates of a       *)
(* sequence of maps (what a recursive function over 0 .. N computes), and  *)
(* the greatest and the least number of a set.                             *)
(***************************************************************************)
EXTENDS Integers, FiniteSetsExt, WellFoundedInduction, TLAPS

\* A set that contains zero and with each number the next one contains all numbers.
LEMMA NaturalsByInduction ==
  ASSUME NEW P, 0 \in P, \A n \in Nat : n \in P => n + 1 \in P
  PROVE  Nat \subseteq P
<1>. DEFINE Out == Nat \ P
<1>. SUFFICES ASSUME Out # {} PROVE FALSE
  OBVIOUS
<1>1. PICK n \in Out : \A m \in Out : ~ (<<m, n>> \in OpToRel(<, Nat))
  BY WFMin, NatLessThanWellFounded
<1>2. n \in Nat /\ n \notin P /\ n # 0
  BY <1>1
<1>3. n - 1 \in Nat /\ (n - 1) + 1 = n
  BY <1>2
<1>4. n - 1 \in Out /\ n - 1 < n
  BY <1>2, <1>3
<1>5. <<n - 1, n>> \in OpToRel(<, Nat)
  BY <1>2, <1>3, <1>4 DEF OpToRel
<1>. QED  BY <1>1, <1>4, <1>5

\* The first N iterates of the maps Op[1], Op[2], ... of a set S, from an element on.
Steps(S) == [Nat -> [S -> S]]
IteratesTo(f, N, S, start, Op) ==
  f \in [0 .. N -> S] /\ f[0] = start /\ \A n \in 1 .. N : f[n] = Op[n][f[n - 1]]

\* They exist: a function that is defined by recursion over 0 .. N has its equation.
LEMMA Iterates ==
  ASSUME NEW S, NEW start \in S, NEW Op \in Steps(S), NEW N \in Nat
  PROVE  \E f : IteratesTo(f, N, S, start, Op)
<1>. USE DEF Steps, IteratesTo
<1>. DEFINE P == {m \in Nat : \E f : IteratesTo(f, m, S, start, Op)}
<1>1. 0 \in P
  <2>. DEFINE f == [k \in 0 .. 0 |-> start]
  <2>1. f \in [0 .. 0 -> S] /\ f[0] = start
    OBVIOUS
  <2>. HIDE DEF f
  <2>. QED  BY <2>1
<1>2. ASSUME NEW m \in Nat, m \in P PROVE m + 1 \in P
  <2>1. PICK f : IteratesTo(f, m, S, start, Op)
    BY <1>2
  <2>. DEFINE g == [k \in 0 .. m + 1 |-> IF k = m + 1 THEN Op[m + 1][f[m]] ELSE f[k]]
  <2>2. f[m] \in S /\ Op[m + 1][f[m]] \in S
    BY <2>1
  <2>3. g \in [0 .. m + 1 -> S]
    BY <2>1, <2>2
  <2>4. g[0] = start /\ \A n \in 1 .. m + 1 : g[n] = Op[n][g[n - 1]]
    BY <2>1
  <2>. HIDE DEF g
  <2>5. m + 1 \in Nat
    OBVIOUS
  <2>. QED  BY <2>3, <2>4, <2>5
<1>. HIDE DEF P
<1>3. N \in P
  BY <1>1, <1>2, NaturalsByInduction
<1>. QED  BY <1>3 DEF P

\* A set of natural numbers with an element has a least one,
LEMMA LeastNumber ==
  ASSUME NEW S \in SUBSET Nat, S # {}
  PROVE  Min(S) \in S /\ \A y \in S : Min(S) <= y
<1>1. PICK x \in S : \A y \in S : ~ (<<y, x>> \in OpToRel(<, Nat))
  BY WFMin, NatLessThanWellFounded
<1>2. \A y \in S : x <= y
  <2>. TAKE y \in S
  <2>. SUFFICES ASSUME y < x PROVE FALSE
    OBVIOUS
  <2>1. <<y, x>> \in OpToRel(<, Nat)
    BY DEF OpToRel
  <2>. QED  BY <1>1, <2>1
<1>. QED  BY <1>1, <1>2 DEF Min

\* and a greatest one if they do not exceed a bound.
LEMMA GreatestNumber ==
  ASSUME NEW S \in SUBSET Nat, S # {}, NEW b \in Nat, \A x \in S : x <= b
  PROVE  Max(S) \in S /\ \A y \in S : Max(S) >= y
<1>. DEFINE D == {b - x : x \in S}
<1>1. D \subseteq Nat /\ D # {}
  <2>1. PICK x \in S : TRUE
    OBVIOUS
  <2>2. b - x \in D
    OBVIOUS
  <2>. QED  BY <2>2
<1>2. PICK d \in D : \A y \in D : d <= y
  <2>. HIDE DEF D
  <2>. QED  BY <1>1, LeastNumber
<1>3. PICK x \in S : d = b - x
  BY <1>2
<1>4. \A y \in S : x >= y
  <2>. TAKE y \in S
  <2>1. b - y \in D
    OBVIOUS
  <2>. QED  BY <1>2, <1>3, <2>1
<1>. QED  BY <1>3, <1>4 DEF Max
=============================================================================
