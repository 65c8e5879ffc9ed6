------------------------------- MODULE Basics -------------------------------
(***************************************************************************)
(* Induction on the naturals, stated of a set instead of a predicate, what *)
(* follows from it for the folds of the community modules, and what the    *)
(* operators on sequences return.                                          *)
(***************************************************************************)
EXTENDS Integers, FiniteSetsExt, SequencesExt, TLAPS, WellFoundedInduction,
        FiniteSetTheorems, SequenceTheorems

(* A non-empty set of naturals has a smallest element: the one with the    *)
(* smallest set of elements up to it.                                      *)
LEMMA Smallest ==
  ASSUME NEW S \in SUBSET Nat, S # {}
  PROVE  \E n \in S : \A m \in S : n <= m
<1> DEFINE upTo(k) == {m \in S : m <= k}
<1> DEFINE T == {upTo(k) : k \in S}
<1>1. T \subseteq FiniteSubsetsOf(Nat) /\ T # {}
  <2>1. ASSUME NEW k \in S PROVE IsFiniteSet(upTo(k))
    <3>1. upTo(k) \in SUBSET Nat /\ k \in Nat /\ \A m \in upTo(k) : m <= k
      OBVIOUS
    <3> HIDE DEF upTo
    <3>2. QED
      BY <3>1, FS_BoundedSetOfNaturals
  <2>2. QED
    BY <2>1 DEF FiniteSubsetsOf
<1>2. PICK x \in T : \A y \in T : <<y, x>> \notin StrictSubsetOrdering(Nat)
  <2> HIDE DEF T
  <2>1. QED
    BY <1>1, FS_StrictSubsetOrderingWellFounded, WFMin
<1>3. PICK n \in S : x = upTo(n)
  BY <1>2
<1>4. ASSUME NEW m \in S, ~(n <= m) PROVE FALSE
  <2>1. upTo(m) \subseteq upTo(n) /\ n \in upTo(n) /\ n \notin upTo(m)
    <3>1. n <= n /\ \A k \in S : k <= m => k <= n
      BY <1>4
    <3>2. QED
      BY <1>4, <3>1, Zenon
  <2>2. upTo(m) \in T /\ upTo(m) \in SUBSET Nat /\ upTo(n) \in SUBSET Nat
    OBVIOUS
  <2> HIDE DEF upTo
  <2>3. <<upTo(m), upTo(n)>> \in StrictSubsetOrdering(Nat)
    BY <2>1, <2>2 DEF StrictSubsetOrdering
  <2>4. QED
    BY <1>2, <1>3, <2>2, <2>3
<1>5. QED
  BY <1>4

(* A set of naturals that holds 0 and the successor of all it holds holds   *)
(* all of them.                                                            *)
LEMMA InductionOnSet ==
  ASSUME NEW S \in SUBSET Nat, 0 \in S, \A n \in S : n + 1 \in S
  PROVE  S = Nat
<1>1. SUFFICES ASSUME Nat \ S # {} PROVE FALSE
  OBVIOUS
<1>2. PICK n \in Nat \ S : \A m \in Nat \ S : n <= m
  BY <1>1, Smallest
<1>3. n - 1 \in S
  <2>1. n # 0 /\ n - 1 \in Nat /\ ~(n <= n - 1)
    OBVIOUS
  <2>2. QED
    BY <1>2, <2>1
<1>4. n - 1 + 1 = n
  OBVIOUS
<1>5. QED
  BY <1>3, <1>4

LEMMA MaxIs ==
  ASSUME NEW m \in Nat, NEW q \in SUBSET (1 .. m + 1), m + 1 \in q
  PROVE  Max(q) = m + 1
<1>1. \A x \in q : x \in Nat /\ x <= m + 1
  OBVIOUS
<1>2. \A x \in q : (\A y \in q : x >= y) <=> x = m + 1
  BY <1>1
<1>3. \E x \in q : \A y \in q : x >= y
  BY <1>2
<1>4. Max(q) \in q /\ \A y \in q : Max(q) >= y
  BY <1>3 DEF Max
<1>5. QED
  BY <1>2, <1>4

LEMMA MaxOf ==
  ASSUME NEW n \in Nat
  PROVE  /\ \A k \in 1 .. n : /\ Max(1 .. k) = k /\ (1 .. k) \ {k} = 1 .. k - 1
                             /\ 1 .. k \in SUBSET (1 .. n) /\ 1 .. k # {}
         /\ \A q \in SUBSET (1 .. n) : q # {} => Max(q) \in q
<1>1. ASSUME NEW k \in 1 .. n
      PROVE  /\ Max(1 .. k) = k /\ (1 .. k) \ {k} = 1 .. k - 1
             /\ 1 .. k \in SUBSET (1 .. n) /\ 1 .. k # {}
  <2>1. k - 1 \in Nat /\ k - 1 + 1 = k /\ 1 .. k \in SUBSET (1 .. k - 1 + 1) /\ k \in 1 .. k
    OBVIOUS
  <2>2. Max(1 .. k) = k
    BY <2>1, MaxIs
  <2>3. QED
    BY <2>2
<1>2. ASSUME NEW q \in SUBSET (1 .. n), q # {} PROVE Max(q) \in q
  <2> DEFINE D == {n - x : x \in q}
  <2>1. \A x \in q : x \in Nat /\ n - x \in Nat
    OBVIOUS
  <2>2. PICK d \in D : \A e \in D : d <= e
    <3>1. D \in SUBSET Nat /\ D # {}
      BY <1>2, <2>1
    <3> HIDE DEF D
    <3>2. QED
      BY <3>1, Smallest
  <2>3. PICK x \in q : d = n - x
    BY <2>2
  <2>4. ASSUME NEW y \in q PROVE x >= y
    <3>1. n - x <= n - y
      BY <2>2, <2>3
    <3>2. QED
      BY <2>1, <3>1
  <2>5. QED
    BY <2>4 DEF Max
<1>3. QED
  BY <1>1, <1>2

(* FoldLeft calls itself with the set of the places that are left: step is  *)
(* what it does with the result so far and a place.  What a step leads to,  *)
(* a function that folds, and what holds after k steps:                     *)
Steps(step, T, n) == step \in [T \X (1 .. n) -> T]
Folding(g, T, n, base, step) ==
  /\ g \in [SUBSET (1 .. n) -> T]
  /\ \A q \in SUBSET (1 .. n) :
       g[q] = IF q = {} THEN base ELSE step[<<g[q \ {Max(q)}], Max(q)>>]
Unfolds(it, T, n, base, step) ==
  /\ it[{}] = base
  /\ \A k \in 1 .. n : it[1 .. k - 1] \in T => it[1 .. k] = step[<<it[1 .. k - 1], k>>]
LeadsOn(P, T, n, base, step) ==
  /\ base \in P[0]
  /\ \A k \in 1 .. n, r \in T : r \in P[k - 1] => step[<<r, k>>] \in P[k]

(* If each step stays in T, there is a function that folds.                *)
LEMMA FoldExists ==
  ASSUME NEW T, NEW n \in Nat, NEW base \in T, NEW step, Steps(step, T, n)
  PROVE  \E g : Folding(g, T, n, base, step)
<1> DEFINE Folds(g, m) == \A q \in SUBSET (1 .. m) :
             g[q] = IF q = {} THEN base ELSE step[<<g[q \ {Max(q)}], Max(q)>>]
           S == {m \in Nat : m <= n => \E g \in [SUBSET (1 .. m) -> T] : Folds(g, m)}
<1> USE DEF Steps, Folding
<1>1. 0 \in S
  <2> DEFINE g == [q \in SUBSET (1 .. 0) |-> base]
  <2>1. g \in [SUBSET (1 .. 0) -> T] /\ \A q \in SUBSET (1 .. 0) : q = {} /\ g[q] = base
    OBVIOUS
  <2>2. Folds(g, 0)
    BY <2>1
  <2>3. QED
    BY <2>1, <2>2
<1>2. ASSUME NEW m \in S PROVE m + 1 \in S
  <2> HIDE DEF Folds
  <2>1. SUFFICES ASSUME m + 1 <= n PROVE \E g \in [SUBSET (1 .. m + 1) -> T] : Folds(g, m + 1)
    <3>1. m \in Nat /\ m + 1 \in Nat
      OBVIOUS
    <3>2. QED
      BY <3>1
  <2>2. m \in Nat /\ m <= n /\ m + 1 \in 1 .. n
    BY <2>1
  <2>3. PICK g \in [SUBSET (1 .. m) -> T] : Folds(g, m)
    BY <2>2
  <2> USE DEF Folds
  <2> DEFINE h == [q \in SUBSET (1 .. m + 1) |-> IF q \in SUBSET (1 .. m) THEN g[q]
                                                ELSE step[<<g[q \ {m + 1}], m + 1>>]]
  <2>4. ASSUME NEW q \in SUBSET (1 .. m + 1), q \notin SUBSET (1 .. m)
        PROVE  m + 1 \in q /\ q \ {m + 1} \in SUBSET (1 .. m) /\ Max(q) = m + 1
    <3>1. \A x \in 1 .. m + 1 : x = m + 1 \/ x \in 1 .. m
      BY <2>2
    <3>2. m + 1 \in q /\ q \ {m + 1} \in SUBSET (1 .. m)
      BY <3>1, <2>4
    <3>3. QED
      BY <3>2, <2>2, MaxIs
  <2>5. h \in [SUBSET (1 .. m + 1) -> T]
    <3>1. ASSUME NEW q \in SUBSET (1 .. m + 1), q \notin SUBSET (1 .. m)
          PROVE  step[<<g[q \ {m + 1}], m + 1>>] \in T
      <4>1. g[q \ {m + 1}] \in T
        BY <2>4, <3>1
      <4>2. <<g[q \ {m + 1}], m + 1>> \in T \X (1 .. n)
        BY <4>1, <2>2
      <4>3. QED
        BY <4>2
    <3>2. \A q \in SUBSET (1 .. m) : g[q] \in T
      OBVIOUS
    <3>3. QED
      BY <3>1, <3>2
  <2>6. ASSUME NEW q \in SUBSET (1 .. m + 1)
        PROVE  h[q] = IF q = {} THEN base ELSE step[<<h[q \ {Max(q)}], Max(q)>>]
    <3>1. \A r \in SUBSET (1 .. m) : r \in SUBSET (1 .. m + 1) /\ h[r] = g[r]
      BY <2>2
    <3>2. CASE q \in SUBSET (1 .. m)
      <4>1. h[q] = g[q] /\ q \ {Max(q)} \in SUBSET (1 .. m)
        BY <3>1, <3>2
      <4>2. h[q \ {Max(q)}] = g[q \ {Max(q)}]
        BY <3>1, <4>1
      <4>3. g[q] = IF q = {} THEN base ELSE step[<<g[q \ {Max(q)}], Max(q)>>]
        BY <2>3, <3>2
      <4> HIDE DEF h
      <4>4. QED
        BY <4>1, <4>2, <4>3
    <3>3. CASE q \notin SUBSET (1 .. m)
      <4>1. /\ m + 1 \in q /\ q \ {m + 1} \in SUBSET (1 .. m) /\ Max(q) = m + 1
        BY <2>4, <3>3
      <4>2. h[q \ {m + 1}] = g[q \ {m + 1}]
        BY <3>1, <4>1
      <4>3. h[q] = step[<<g[q \ {m + 1}], m + 1>>]
        BY <3>3
      <4> HIDE DEF h
      <4>4. QED
        BY <4>1, <4>2, <4>3
    <3>4. QED
      BY <3>2, <3>3
  <2>7. Folds(h, m + 1)
    BY <2>6
  <2>8. QED
    BY <2>5, <2>7
<1>3. S = Nat
  <2> HIDE DEF S
  <2>1. S \in SUBSET Nat
    BY DEF S
  <2>2. QED
    BY <1>1, <1>2, <2>1, InductionOnSet
<1>4. PICK g \in [SUBSET (1 .. n) -> T] : Folds(g, n)
  <2>1. n \in S
    BY <1>3, Zenon
  <2>2. n <= n
    OBVIOUS
  <2>3. QED
    BY <2>1, <2>2
<1>5. QED
  BY <1>4

(* What holds of the base, and after a step if it held before, holds of the *)
(* fold: P[k] is what holds after k steps, and T is kept by every step.     *)
LEMMA FoldInduct ==
  ASSUME NEW T, NEW n \in Nat, NEW base \in T, NEW step, Steps(step, T, n),
         NEW it, Unfolds(it, T, n, base, step), NEW P, LeadsOn(P, T, n, base, step)
  PROVE  it[1 .. n] \in T /\ it[1 .. n] \in P[n]
<1> USE DEF Steps, Unfolds, LeadsOn
<1> DEFINE S == {m \in Nat : m <= n => it[1 .. m] \in T /\ it[1 .. m] \in P[m]}
<1>1. 0 \in S
  <2>1. 1 .. 0 = {}
    OBVIOUS
  <2>2. QED
    BY <2>1
<1>2. ASSUME NEW m \in S PROVE m + 1 \in S
  <2>1. SUFFICES ASSUME m + 1 <= n PROVE it[1 .. m + 1] \in T /\ it[1 .. m + 1] \in P[m + 1]
    OBVIOUS
  <2>2. m + 1 \in 1 .. n /\ m + 1 - 1 = m /\ it[1 .. m] \in T /\ it[1 .. m] \in P[m]
    BY <2>1
  <2>3. it[1 .. m + 1 - 1] = it[1 .. m] /\ P[m + 1 - 1] = P[m]
    BY <2>2
  <2>4. it[1 .. m + 1] = step[<<it[1 .. m], m + 1>>]
    BY <2>2, <2>3
  <2>5. step[<<it[1 .. m], m + 1>>] \in P[m + 1]
    BY <2>2, <2>3
  <2>6. QED
    BY <2>2, <2>4, <2>5
<1>3. S = Nat
  <2> HIDE DEF S
  <2>1. S \in SUBSET Nat
    BY DEF S
  <2>2. QED
    BY <1>1, <1>2, <2>1, InductionOnSet
<1>4. n \in S
  BY <1>3, Zenon
<1>5. n <= n
  OBVIOUS
<1>6. QED
  BY <1>4, <1>5

-----------------------------------------------------------------------------
(* Cardinalities.                                                          *)

LEMMA Matched ==
  ASSUME NEW A, NEW B, IsFiniteSet(A), NEW f \in [A -> B],
         \A x, y \in A : f[x] = f[y] => x = y, \A z \in B : \E x \in A : f[x] = z
  PROVE  IsFiniteSet(B) /\ Cardinality(B) = Cardinality(A)
<1>1. f \in Injection(A, B)
  BY DEF Injection, IsInjective
<1>2. f \in Surjection(A, B)
  BY DEF Surjection
<1>3. ExistsBijection(A, B)
  BY <1>1, <1>2 DEF ExistsBijection, Bijection
<1>4. QED
  BY <1>3, FS_Bijection

LEMMA Disjoint ==
  ASSUME NEW A, NEW B, IsFiniteSet(A), IsFiniteSet(B), A \cap B = {}
  PROVE  /\ IsFiniteSet(A \cup B)
         /\ Cardinality(A \cup B) = Cardinality(A) + Cardinality(B)
<1>1. /\ IsFiniteSet(A \cup B)
      /\ Cardinality(A \cup B) = Cardinality(A) + Cardinality(B) - Cardinality(A \cap B)
  BY FS_Union
<1>2. Cardinality(A \cap B) = 0 /\ Cardinality(A) \in Nat /\ Cardinality(B) \in Nat
  BY FS_EmptySet, FS_CardinalityType
<1>3. QED
  BY <1>1, <1>2

-----------------------------------------------------------------------------
(* Sequences.                                                              *)

LEMMA SeqWithin ==
  ASSUME NEW S, NEW T, S \subseteq T, NEW s \in Seq(S)
  PROVE  s \in Seq(T)
<1>1. QED
  OBVIOUS

LEMMA SubSeqIs ==
  ASSUME NEW T, NEW s \in Seq(T), NEW m \in 1 .. Len(s) + 1, NEW n \in 0 .. Len(s), m <= n + 1
  PROVE  /\ SubSeq(s, m, n) \in Seq(T)
         /\ Len(SubSeq(s, m, n)) = n + 1 - m
         /\ \A k \in 1 .. n + 1 - m : SubSeq(s, m, n)[k] = s[m + k - 1]
<1>1. Len(s) \in Nat /\ \A k \in 1 .. Len(s) : s[k] \in T
  BY LenProperties, ElementOfSeq
<1>2. \A k \in m .. n : s[k] \in T
  BY <1>1
<1>3. QED
  BY <1>1, <1>2, SubSeqProperties

(* The two parts of a sequence cut behind its element n.                   *)
LEMMA CutIs ==
  ASSUME NEW T, NEW s \in Seq(T), NEW n \in 0 .. Len(s)
  PROVE  /\ SubSeq(s, 1, n) \in Seq(T) /\ Len(SubSeq(s, 1, n)) = n
         /\ \A k \in 1 .. n : SubSeq(s, 1, n)[k] = s[k]
         /\ SubSeq(s, n + 1, Len(s)) \in Seq(T)
         /\ Len(SubSeq(s, n + 1, Len(s))) = Len(s) - n
         /\ \A k \in 1 .. Len(s) - n : SubSeq(s, n + 1, Len(s))[k] = s[n + k]
<1>1. Len(s) \in Nat
  BY LenProperties
<1>2. /\ 1 \in 1 .. Len(s) + 1 /\ n \in 0 .. Len(s) /\ 1 <= n + 1
      /\ n + 1 - 1 = n /\ \A k \in Int : 1 + k - 1 = k
  BY <1>1
<1>3. /\ SubSeq(s, 1, n) \in Seq(T) /\ Len(SubSeq(s, 1, n)) = n + 1 - 1
      /\ \A k \in 1 .. n + 1 - 1 : SubSeq(s, 1, n)[k] = s[1 + k - 1]
  BY <1>2, SubSeqIs
<1>4. /\ n + 1 \in 1 .. Len(s) + 1 /\ Len(s) \in 0 .. Len(s) /\ n + 1 <= Len(s) + 1
      /\ Len(s) + 1 - (n + 1) = Len(s) - n /\ \A k \in Int : n + 1 + k - 1 = n + k
  BY <1>1
<1>5. /\ SubSeq(s, n + 1, Len(s)) \in Seq(T)
      /\ Len(SubSeq(s, n + 1, Len(s))) = Len(s) + 1 - (n + 1)
      /\ \A k \in 1 .. Len(s) + 1 - (n + 1) :
           SubSeq(s, n + 1, Len(s))[k] = s[n + 1 + k - 1]
  BY <1>4, SubSeqIs
<1>6. QED
  BY <1>2, <1>3, <1>4, <1>5

LEMMA CatIs ==
  ASSUME NEW T, NEW s \in Seq(T), NEW t \in Seq(T)
  PROVE  /\ s \o t \in Seq(T)
         /\ Len(s) \in Nat /\ Len(t) \in Nat /\ Len(s \o t) = Len(s) + Len(t)
         /\ \A k \in 1 .. Len(s) : (s \o t)[k] = s[k]
         /\ \A k \in 1 .. Len(t) : (s \o t)[Len(s) + k] = t[k]
<1>1. /\ s \o t \in Seq(T) /\ Len(s \o t) = Len(s) + Len(t)
      /\ Len(s) \in Nat /\ Len(t) \in Nat
  BY ConcatProperties, LenProperties
<1>2. \A k \in 1 .. Len(s) + Len(t) :
        (s \o t)[k] = IF k <= Len(s) THEN s[k] ELSE t[k - Len(s)]
  BY ConcatProperties
<1> DEFINE m == Len(s)  n == Len(t)  st == s \o t
<1>3. m \in Nat /\ n \in Nat
      /\ \A k \in 1 .. m + n : st[k] = IF k <= m THEN s[k] ELSE t[k - m]
  BY <1>1, <1>2
<1> HIDE DEF m, n, st
<1>4. \A k \in 1 .. m : st[k] = s[k]
  BY <1>3
<1>5. ASSUME NEW k \in 1 .. n PROVE st[m + k] = t[k]
  <2>1. m + k \in 1 .. m + n /\ ~(m + k <= m) /\ m + k - m = k
    BY <1>3
  <2>2. QED
    BY <1>3, <2>1
<1>6. QED
  BY <1>1, <1>4, <1>5 DEF m, n, st

LEMMA ConsIs ==
  ASSUME NEW T, NEW e \in T, NEW t \in Seq(T)
  PROVE  /\ <<e>> \o t \in Seq(T) /\ Len(t) \in Nat
         /\ Len(<<e>> \o t) = Len(t) + 1
         /\ (<<e>> \o t)[1] = e
         /\ \A k \in 2 .. Len(t) + 1 : k - 1 \in 1 .. Len(t) /\ (<<e>> \o t)[k] = t[k - 1]
<1> DEFINE one == <<e>>
<1>1. one \in Seq(T) /\ Len(one) = 1 /\ one[1] = e
  OBVIOUS
<1> HIDE DEF one
<1>2. /\ one \o t \in Seq(T) /\ Len(t) \in Nat /\ Len(one \o t) = Len(one) + Len(t)
      /\ \A k \in 1 .. Len(one) : (one \o t)[k] = one[k]
      /\ \A k \in 1 .. Len(t) : (one \o t)[Len(one) + k] = t[k]
  <2>1. one \in Seq(T) /\ t \in Seq(T)
    BY <1>1
  <2>2. QED
    BY <2>1, CatIs
<1>3. ASSUME NEW k \in 2 .. Len(t) + 1 PROVE k - 1 \in 1 .. Len(t) /\ (one \o t)[k] = t[k - 1]
  <2>1. k - 1 \in 1 .. Len(t) /\ 1 + (k - 1) = k
    BY <1>2
  <2>2. (one \o t)[1 + (k - 1)] = t[k - 1]
    BY <2>1, <1>1, <1>2
  <2>3. QED
    BY <2>1, <2>2
<1>4. 1 \in 1 .. Len(one)
  BY <1>1
<1>5. QED
  BY <1>1, <1>2, <1>3, <1>4 DEF one

(* Taking element p out: what stands behind it moves up.                   *)
LEMMA RemoveAtIs ==
  ASSUME NEW T, NEW s \in Seq(T), NEW p \in 1 .. Len(s)
  PROVE  /\ RemoveAt(s, p) \in Seq(T) /\ Len(RemoveAt(s, p)) = Len(s) - 1
         /\ \A k \in 1 .. Len(s) - 1 :
              RemoveAt(s, p)[k] = IF k < p THEN s[k] ELSE s[k + 1]
<1> DEFINE a == SubSeq(s, 1, p - 1)  b == SubSeq(s, p + 1, Len(s))
<1>1. Len(s) \in Nat
  BY LenProperties
<1>2. /\ a \in Seq(T) /\ Len(a) = p - 1
      /\ \A k \in 1 .. p - 1 : a[k] = s[k]
  <2>1. 1 \in 1 .. Len(s) + 1 /\ p - 1 \in 0 .. Len(s) /\ 1 <= p - 1 + 1 /\ p - 1 + 1 - 1 = p - 1
    BY <1>1
  <2>2. /\ a \in Seq(T) /\ Len(a) = p - 1 + 1 - 1
        /\ \A k \in 1 .. p - 1 + 1 - 1 : a[k] = s[1 + k - 1]
    BY <2>1, SubSeqIs
  <2>3. QED
    BY <2>1, <2>2
<1>3. /\ b \in Seq(T) /\ Len(b) = Len(s) - p
      /\ \A k \in 1 .. Len(s) - p : b[k] = s[p + k]
  <2>1. /\ p + 1 \in 1 .. Len(s) + 1 /\ Len(s) \in 0 .. Len(s) /\ p + 1 <= Len(s) + 1
        /\ Len(s) + 1 - (p + 1) = Len(s) - p
        /\ \A k \in Int : p + 1 + k - 1 = p + k
    BY <1>1
  <2>2. /\ b \in Seq(T) /\ Len(b) = Len(s) + 1 - (p + 1)
        /\ \A k \in 1 .. Len(s) + 1 - (p + 1) : b[k] = s[p + 1 + k - 1]
    BY <2>1, SubSeqIs
  <2>3. QED
    BY <2>1, <2>2
<1> DEFINE m == Len(s)
<1> HIDE DEF a, b, m
<1>4. /\ a \o b \in Seq(T) /\ Len(a \o b) = p - 1 + (m - p)
      /\ \A k \in 1 .. p - 1 : (a \o b)[k] = a[k]
      /\ \A k \in 1 .. m - p : (a \o b)[p - 1 + k] = b[k]
  <2>1. /\ a \o b \in Seq(T) /\ Len(a \o b) = Len(a) + Len(b)
        /\ \A k \in 1 .. Len(a) : (a \o b)[k] = a[k]
        /\ \A k \in 1 .. Len(b) : (a \o b)[Len(a) + k] = b[k]
    <3>1. a \in Seq(T) /\ b \in Seq(T)
      BY <1>2, <1>3
    <3>2. QED
      BY <3>1, CatIs
  <2>2. QED
    BY <1>2, <1>3, <2>1 DEF m
<1>5. p \in 1 .. m /\ m \in Nat /\ p - 1 + (m - p) = m - 1
  BY <1>1 DEF m
<1>6. ASSUME NEW k \in 1 .. m - 1 PROVE (a \o b)[k] = IF k < p THEN s[k] ELSE s[k + 1]
  <2>1. CASE k < p
    <3>1. k \in 1 .. p - 1
      BY <2>1, <1>5
    <3>2. QED
      BY <2>1, <3>1, <1>2, <1>4
  <2>2. CASE ~(k < p)
    <3> DEFINE j == k - (p - 1)
    <3>1. j \in 1 .. m - p /\ p - 1 + j = k /\ p + j = k + 1
      BY <2>2, <1>5
    <3> HIDE DEF j
    <3>2. (a \o b)[p - 1 + j] = b[j] /\ b[j] = s[p + j]
      BY <3>1, <1>3, <1>4 DEF m
    <3>3. QED
      BY <2>2, <3>1, <3>2
  <2>3. QED
    BY <2>1, <2>2
<1>7. QED
  BY <1>4, <1>5, <1>6 DEF RemoveAt, a, b, m

LEMMA FunctionIsSeq ==
  ASSUME NEW n \in Nat, NEW S, NEW f \in [1 .. n -> S]
  PROVE  f \in Seq(S) /\ Len(f) = n
<1>1. QED
  OBVIOUS

LEMMA AppendIs ==
  ASSUME NEW T, NEW s \in Seq(T), NEW e \in T
  PROVE  /\ Append(s, e) \in Seq(T) /\ Len(s) \in Nat /\ Len(Append(s, e)) = Len(s) + 1
         /\ Append(s, e)[Len(s) + 1] = e
         /\ \A k \in 1 .. Len(s) : Append(s, e)[k] = s[k]
<1>1. QED
  BY AppendProperties, LenProperties
=============================================================================
