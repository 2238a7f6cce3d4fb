--------------------------- MODULE SequenceLemmas ---------------------------
(***************************************************************************)
(* Facts the proofs of several modules need: induction over the natural    *)
(* numbers and definition by recursion, stated for sets and functions,     *)
(* since no prover here instantiates a theorem about operators; and the    *)
(* elements of sequences made from other ones, place by place.             *)
(***************************************************************************)
EXTENDS Integers, Sequences, SequenceTheorems, WellFoundedInduction, TLAPS

(* A set of numbers that has zero and every successor has them all. *)
LEMMA Induction ==
  ASSUME NEW S \in SUBSET Nat, 0 \in S, \A n \in S : n + 1 \in S
  PROVE  \A n \in Nat : n \in S
<1>. SUFFICES ASSUME Nat \ S # {} PROVE FALSE
  OBVIOUS
<1>1. PICK x \in Nat \ S : \A y \in Nat \ S : ~ (<<y, x>> \in OpToRel(<, Nat))
  BY NatLessThanWellFounded, WFMin
<1>2. \A y \in Nat \ S : ~ (y < x)
  BY <1>1 DEF OpToRel
<1>3. x - 1 \in Nat /\ x - 1 < x
  <2>1. x \in Nat /\ x # 0
    BY <1>1
  <2>. QED
    BY <2>1
<1>4. x - 1 \in S
  BY <1>2, <1>3
<1>5. (x - 1) + 1 \in S
  BY <1>4
<1>6. (x - 1) + 1 = x
  OBVIOUS
<1>. QED
  BY <1>1, <1>5, <1>6

(* A non-empty set of numbers has a least one. *)
LEMMA LeastNumber ==
  ASSUME NEW S \in SUBSET Nat, S # {}
  PROVE  \E x \in S : \A y \in S : x <= y
<1>1. PICK x \in S : \A y \in S : ~ (<<y, x>> \in OpToRel(<, Nat))
  BY NatLessThanWellFounded, WFMin
<1>2. \A y \in S : ~ (y < x)
  BY <1>1 DEF OpToRel
<1>. QED
  BY <1>2

(* f starts with base, and G makes each of its n further values from the one *)
(* before.                                                                   *)
Unfolds(f, n, base, G) ==
  /\ f[0] = base
  /\ \A k \in 1 .. n : f[k] = G[<<k, f[k - 1]>>]

(* There is such a function ... *)
LEMMA RecursionThere ==
  ASSUME NEW S, NEW n \in Nat, NEW base \in S, NEW G \in [(1 .. n) \X S -> S]
  PROVE  \E f \in [0 .. n -> S] : Unfolds(f, n, base, G)
<1>. DEFINE T == {m \in Nat : m <= n => \E f \in [0 .. m -> S] : Unfolds(f, m, base, G)}
<1>1. 0 \in T
  <2>1. [k \in 0 .. 0 |-> base] \in [0 .. 0 -> S] /\ Unfolds([k \in 0 .. 0 |-> base], 0, base, G)
    BY DEF Unfolds
  <2>. QED
    BY <2>1
<1>2. ASSUME NEW m \in T PROVE m + 1 \in T
  <2>. SUFFICES ASSUME m + 1 <= n
                PROVE  \E f \in [0 .. m + 1 -> S] : Unfolds(f, m + 1, base, G)
    OBVIOUS
  <2>1. PICK f \in [0 .. m -> S] : Unfolds(f, m, base, G)
    OBVIOUS
  <2>. DEFINE x == G[<<m + 1, f[m]>>]
              g == [k \in 0 .. m + 1 |-> IF k = m + 1 THEN x ELSE f[k]]
  <2>2. m \in Nat /\ x \in S
    OBVIOUS
  <2>3. g \in [0 .. m + 1 -> S]
    BY <2>2
  <2>4. g[0] = base
    BY <2>1, <2>2 DEF Unfolds
  <2>5. ASSUME NEW k \in 1 .. m + 1 PROVE g[k] = G[<<k, g[k - 1]>>]
    <3>1. CASE k = m + 1
      BY <2>2, <3>1
    <3>2. CASE k # m + 1
      <4>1. k \in 1 .. m /\ k - 1 # m + 1 /\ k - 1 \in 0 .. m + 1 /\ k \in 0 .. m + 1
        BY <2>2, <3>2
      <4>2. g[k] = f[k] /\ g[k - 1] = f[k - 1]
        BY <3>2, <4>1
      <4>. QED
        BY <2>1, <4>1, <4>2 DEF Unfolds
    <3>. QED
      BY <3>1, <3>2
  <2>. HIDE DEF g
  <2>6. Unfolds(g, m + 1, base, G)
    BY <2>4, <2>5 DEF Unfolds
  <2>. QED
    BY <2>3, <2>6
<1>. HIDE DEF T
<1>3. T \in SUBSET Nat
  BY DEF T
<1>4. n \in T
  BY <1>1, <1>2, <1>3, Induction
<1>. QED
  BY <1>4 DEF T

(* ... and whatever unfolds like it as long as it is in S *)
Continues(f, n, base, S, G) ==
  /\ f[0] = base
  /\ \A k \in 1 .. n : f[k - 1] \in S => f[k] = G[<<k, f[k - 1]>>]

(* stays there. *)
LEMMA RecursionStays ==
  ASSUME NEW S, NEW n \in Nat, NEW base \in S, NEW G \in [(1 .. n) \X S -> S],
         NEW f, Continues(f, n, base, S, G)
  PROVE  \A k \in 0 .. n : f[k] \in S
<1>. DEFINE T == {m \in Nat : m <= n => f[m] \in S}
<1>1. 0 \in T
  BY DEF Continues
<1>2. ASSUME NEW m \in T PROVE m + 1 \in T
  <2>. SUFFICES ASSUME m + 1 <= n PROVE f[m + 1] \in S
    OBVIOUS
  <2>1. f[m] \in S /\ m + 1 \in 1 .. n /\ (m + 1) - 1 = m
    OBVIOUS
  <2>2. f[m + 1] = G[<<m + 1, f[m]>>]
    BY <2>1 DEF Continues
  <2>. QED
    BY <2>1, <2>2
<1>. HIDE DEF T
<1>3. T \in SUBSET Nat
  BY DEF T
<1>4. \A m \in Nat : m \in T
  BY <1>1, <1>2, <1>3, Induction
<1>. QED
  BY <1>4 DEF T

-----------------------------------------------------------------------------
(* The elements of a sequence with one put before it ... *)
LEMMA ConsPlaces ==
  ASSUME NEW S, NEW s \in Seq(S), NEW t \in S
  PROVE  /\ <<t>> \o s \in Seq(S) /\ Len(<<t>> \o s) = Len(s) + 1
         /\ \A i \in 1 .. Len(s) + 1 : (<<t>> \o s)[i] = IF i = 1 THEN t ELSE s[i - 1]
<1>1. <<t>> \in Seq(S) /\ Len(<<t>>) = 1 /\ <<t>>[1] = t
  OBVIOUS
<1>. DEFINE p == <<t>>
<1>. HIDE DEF p
<1>2. /\ p \o s \in Seq(S) /\ Len(p \o s) = 1 + Len(s) /\ Len(s) \in Nat
      /\ \A i \in 1 .. 1 + Len(s) : (p \o s)[i] = IF i <= 1 THEN p[i] ELSE s[i - 1]
  BY <1>1, ConcatProperties, LenProperties DEF p
<1>3. p[1] = t
  BY <1>1 DEF p
<1>. QED
  BY <1>2, <1>3 DEF p

(* ... of its two parts *)
LEMMA CutPlaces ==
  ASSUME NEW S, NEW s \in Seq(S), NEW n \in 0 .. Len(s)
  PROVE  /\ SubSeq(s, 1, n) \in Seq(S) /\ Len(SubSeq(s, 1, n)) = n
         /\ \A i \in 1 .. n : SubSeq(s, 1, n)[i] = s[i]
         /\ SubSeq(s, n + 1, Len(s)) \in Seq(S)
         /\ Len(SubSeq(s, n + 1, Len(s))) = Len(s) - n
         /\ \A i \in 1 .. Len(s) - n : SubSeq(s, n + 1, Len(s))[i] = s[n + i]
<1>. DEFINE p == SubSeq(s, 1, n)  r == SubSeq(s, n + 1, Len(s))
<1>1. Len(s) \in Nat /\ n \in Nat /\ n <= Len(s)
  BY LenProperties
<1>2. \A i \in 1 .. Len(s) : s[i] \in S
  BY <1>1, ElementOfSeq
<1>3. /\ p \in Seq(S) /\ Len(p) = n
      /\ \A i \in 1 .. n : p[i] = s[i]
  <2>1. \A i \in 1 .. n : s[i] \in S
    BY <1>1, <1>2
  <2>2. /\ p \in Seq(S) /\ Len(p) = (IF 1 <= n THEN n - 1 + 1 ELSE 0)
        /\ \A i \in 1 .. n - 1 + 1 : p[i] = s[1 + i - 1]
    BY <2>1, <1>1, SubSeqProperties
  <2>. QED
    BY <2>2, <1>1
<1>4. /\ r \in Seq(S) /\ Len(r) = Len(s) - n
      /\ \A i \in 1 .. Len(s) - n : r[i] = s[n + i]
  <2>1. \A i \in n + 1 .. Len(s) : s[i] \in S
    BY <1>1, <1>2
  <2>2. /\ r \in Seq(S)
        /\ Len(r) = (IF n + 1 <= Len(s) THEN Len(s) - (n + 1) + 1 ELSE 0)
        /\ \A i \in 1 .. Len(s) - (n + 1) + 1 : r[i] = s[(n + 1) + i - 1]
    BY <2>1, <1>1, SubSeqProperties
  <2>. QED
    BY <2>2, <1>1
<1>. QED
  BY <1>3, <1>4

(* ... of it with another one behind it *)
LEMMA JoinPlaces ==
  ASSUME NEW S, NEW p \in Seq(S), NEW r \in Seq(S)
  PROVE  /\ p \o r \in Seq(S) /\ Len(p \o r) = Len(p) + Len(r)
         /\ \A i \in 1 .. Len(p) + Len(r) : (p \o r)[i] = IF i <= Len(p) THEN p[i] ELSE r[i - Len(p)]
BY ConcatProperties
=============================================================================
