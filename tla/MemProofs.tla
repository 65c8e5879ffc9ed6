----------------------------- MODULE MemProofs -----------------------------
(***************************************************************************)
(* The cache hierarchy is proved for all traces, numbers of lines, MSHRs   *)
(* and ports, associativities, latencies and prefetches.                   *)
(***************************************************************************)
EXTENDS MemHierarchy, Basics

-----------------------------------------------------------------------------
(* The inductive invariant.                                                *)

(* The transactions of some kinds, and where a cache may have which.        *)
Trans(kinds) == [id : Nat, line : Lines, kind : kinds]
Asked(l, kinds) == Trans(kinds \cap MissKinds(l))

Mshrs(E) == [Lines -> Seq(E)]
Victim == [line : Lines, dirty : BOOLEAN]

CacheOf(l, kinds) ==
  [set : Seq(Node(Lines)), in : Seq(Trans(kinds)), resp : Seq(Trans(kinds \ {"evict"})),
   out : Seq(Trans(kinds)), back : Seq(Trans(kinds \ {"evict"})), stalled : Seq(Asked(l, kinds)),
   pq : Seq(Entry(Trans(kinds))), mshr : Mshrs(Asked(l, kinds)),
   evicts : Seq(Victim), loads : Int, stores : Int]

MemOf(kinds) ==
  [l1 : CacheOf("l1", kinds), l2 : CacheOf("l2", kinds), llc : CacheOf("llc", kinds)]

DramOf(kinds) ==
  [ops : Seq([line : Lines, write : BOOLEAN]), waiting : Seq(Trans(kinds \ {"evict"})),
   reads : Int, writes : Int]

(* There are no prefetches before the first.                               *)
KindsNow == IF prefetches = MaxPrefetches THEN Kinds \ {"prefetch"} ELSE Kinds

TypeOK ==
  /\ mem \in MemOf(KindsNow) /\ dram \in DramOf(KindsNow)
  /\ turn \in Calls
  /\ trace \in Traces /\ sent \in 0 .. Len(trace)
  /\ answers \in [DOMAIN trace -> Nat]
  /\ prefetches \in 0 .. MaxPrefetches

(* A line is once in the set, and not while a fill is under way or waits   *)
(* for an MSHR; what waits for an MSHR has none.                           *)
Unique(set) ==
  \A i, j \in DOMAIN set : set[i].mapped /\ (set[i].line = set[j].line => i = j)
LinesOf(set) == {set[i].line : i \in DOMAIN set}
Clean(c) ==
  /\ Unique(c.set)
  /\ missing(c) \cap LinesOf(c.set) = {}
  /\ \A i \in DOMAIN c.stalled : c.stalled[i].line \notin missing(c) \cup LinesOf(c.set)

SetsAgree ==
  /\ Clean(mem.l2) /\ Clean(mem.llc)
  /\ prefetches = MaxPrefetches => Clean(mem.l1)

IInv == TypeOK /\ RequestsConserved /\ MshrTracksMiss /\ SetsAgree

-----------------------------------------------------------------------------
(* Counting.                                                               *)

(* How many of S are in s behind its place k.                              *)
Left(s, k, S) == Cardinality({i \in k + 1 .. Len(s) : s[i] \in S})

LEMMA CountIs ==
  ASSUME NEW E, NEW s \in Seq(E), NEW S
  PROVE  /\ Count(s, S) \in Nat
         /\ IsFiniteSet({i \in 1 .. Len(s) : s[i] \in S})
         /\ Count(s, S) = Cardinality({i \in 1 .. Len(s) : s[i] \in S})
<1>1. Len(s) \in Nat /\ DOMAIN s = 1 .. Len(s)
  BY LenProperties
<1>2. IsFiniteSet(1 .. Len(s))
  BY <1>1, FS_Interval
<1>3. IsFiniteSet({i \in 1 .. Len(s) : s[i] \in S})
  BY <1>2, FS_Subset
<1>4. QED
  BY <1>1, <1>3, FS_CardinalityType DEF Count

LEMMA LeftIs ==
  ASSUME NEW E, NEW s \in Seq(E), NEW S
  PROVE  /\ Left(s, 0, S) = Count(s, S) /\ Left(s, Len(s), S) = 0
         /\ \A k \in 0 .. Len(s) : Left(s, k, S) \in Nat
         /\ \A k \in 1 .. Len(s) :
              Left(s, k - 1, S) = Left(s, k, S) + (IF s[k] \in S THEN 1 ELSE 0)
<1> DEFINE behind(k) == {i \in k + 1 .. Len(s) : s[i] \in S}
<1>1. Len(s) \in Nat
  BY LenProperties
<1>2. ASSUME NEW k \in 0 .. Len(s)
      PROVE  IsFiniteSet(behind(k)) /\ Cardinality(behind(k)) \in Nat
  <2>1. IsFiniteSet(k + 1 .. Len(s))
    BY <1>1, FS_Interval
  <2>2. IsFiniteSet(behind(k))
    BY <2>1, FS_Subset
  <2>3. QED
    BY <2>2, FS_CardinalityType
<1>3. Left(s, 0, S) = Count(s, S)
  BY CountIs DEF Left
<1>4. Left(s, Len(s), S) = 0
  <2>1. behind(Len(s)) = {}
    BY <1>1
  <2>2. QED
    BY <2>1, FS_EmptySet DEF Left
<1>5. ASSUME NEW k \in 1 .. Len(s)
      PROVE  Left(s, k - 1, S) = Left(s, k, S) + (IF s[k] \in S THEN 1 ELSE 0)
  <2>1. k \notin behind(k) /\ k \in 0 .. Len(s)
    BY <1>1
  <2>2. behind(k - 1) = IF s[k] \in S THEN behind(k) \cup {k} ELSE behind(k)
    <3>1. k - 1 + 1 = k /\ \A i \in k .. Len(s) : i = k \/ i \in k + 1 .. Len(s)
      BY <1>1
    <3>2. k \in k .. Len(s) /\ \A i \in k + 1 .. Len(s) : i \in k .. Len(s)
      BY <1>1
    <3>3. QED
      BY <3>1, <3>2
  <2> HIDE DEF behind
  <2>3. Cardinality(behind(k - 1)) = Cardinality(behind(k)) + (IF s[k] \in S THEN 1 ELSE 0)
    BY <2>1, <2>2, <1>2, FS_AddElement
  <2>4. QED
    BY <2>3 DEF Left, behind
<1>6. QED
  BY <1>2, <1>3, <1>4, <1>5 DEF Left

LEMMA CountEmpty ==
  ASSUME NEW S
  PROVE  Count(<<>>, S) = 0
<1>1. {i \in DOMAIN <<>> : <<>>[i] \in S} = {}
  OBVIOUS
<1>2. QED
  BY <1>1, FS_EmptySet DEF Count

LEMMA CountCat ==
  ASSUME NEW E, NEW s \in Seq(E), NEW t \in Seq(E), NEW S
  PROVE  Count(s \o t, S) = Count(s, S) + Count(t, S)
<1> DEFINE A == {i \in 1 .. Len(s) : s[i] \in S}
           B == {i \in 1 .. Len(t) : t[i] \in S}
           C == {i \in 1 .. Len(s \o t) : (s \o t)[i] \in S}
           D == {Len(s) + i : i \in B}
           f == [i \in B |-> Len(s) + i]
<1>1. /\ s \o t \in Seq(E)
      /\ Len(s) \in Nat /\ Len(t) \in Nat /\ Len(s \o t) = Len(s) + Len(t)
      /\ \A k \in 1 .. Len(s) : (s \o t)[k] = s[k]
      /\ \A k \in 1 .. Len(t) : (s \o t)[Len(s) + k] = t[k]
  BY CatIs
<1>2. /\ IsFiniteSet(A) /\ IsFiniteSet(B)
      /\ Count(s, S) = Cardinality(A) /\ Count(t, S) = Cardinality(B)
      /\ Count(s \o t, S) = Cardinality(C)
  BY <1>1, CountIs
<1>3. IsFiniteSet(D) /\ Cardinality(D) = Cardinality(B)
  <2>1. f \in [B -> D] /\ (\A x, y \in B : f[x] = f[y] => x = y) /\ \A z \in D : \E x \in B : f[x] = z
    BY <1>1
  <2> HIDE DEF f, B, D
  <2>2. QED
    BY <2>1, <1>2, Matched
<1>4. A \cap D = {}
  BY <1>1
<1>5. C = A \cup D
  <2>1. ASSUME NEW i \in 1 .. Len(s) + Len(t), i \notin 1 .. Len(s)
        PROVE  i - Len(s) \in 1 .. Len(t) /\ Len(s) + (i - Len(s)) = i
    BY <1>1, <2>1
  <2>2. C \subseteq A \cup D
    <3>1. ASSUME NEW i \in C, i \notin 1 .. Len(s) PROVE i \in D
      <4>1. i - Len(s) \in 1 .. Len(t) /\ Len(s) + (i - Len(s)) = i
        BY <2>1, <3>1, <1>1
      <4>2. t[i - Len(s)] \in S
        BY <4>1, <1>1, <3>1
      <4>3. QED
        BY <4>1, <4>2
    <3>2. \A i \in C : i \in 1 .. Len(s) => i \in A
      BY <1>1
    <3>3. QED
      BY <3>1, <3>2
  <2>3. A \subseteq C
    BY <1>1
  <2>4. D \subseteq C
    <3>1. \A i \in 1 .. Len(t) : Len(s) + i \in 1 .. Len(s) + Len(t)
      BY <1>1
    <3>2. QED
      BY <3>1, <1>1
  <2>5. QED
    BY <2>2, <2>3, <2>4
<1> HIDE DEF A, B, C, D
<1>6. Cardinality(A \cup D) = Cardinality(A) + Cardinality(D)
  BY <1>2, <1>3, <1>4, Disjoint
<1>7. QED
  BY <1>2, <1>3, <1>5, <1>6

LEMMA CountAppend ==
  ASSUME NEW E, NEW s \in Seq(E), NEW e \in E, NEW S
  PROVE  Count(Append(s, e), S) = Count(s, S) + (IF e \in S THEN 1 ELSE 0)
<1> DEFINE A == {i \in 1 .. Len(s) : s[i] \in S}
           C == {i \in 1 .. Len(Append(s, e)) : Append(s, e)[i] \in S}
<1>1. /\ Append(s, e) \in Seq(E) /\ Len(s) \in Nat /\ Len(Append(s, e)) = Len(s) + 1
      /\ Append(s, e)[Len(s) + 1] = e
      /\ \A k \in 1 .. Len(s) : Append(s, e)[k] = s[k]
  BY AppendIs
<1>2. /\ IsFiniteSet(A) /\ Count(s, S) = Cardinality(A) /\ Count(Append(s, e), S) = Cardinality(C)
  BY <1>1, CountIs
<1>3. C = IF e \in S THEN A \cup {Len(s) + 1} ELSE A
  <2>1. \A i \in 1 .. Len(s) + 1 : i \in 1 .. Len(s) \/ i = Len(s) + 1
    BY <1>1
  <2>2. Len(s) + 1 \in 1 .. Len(s) + 1 /\ \A i \in 1 .. Len(s) : i \in 1 .. Len(s) + 1
    BY <1>1
  <2>3. QED
    BY <2>1, <2>2, <1>1
<1>4. Len(s) + 1 \notin A
  BY <1>1
<1> HIDE DEF A, C
<1>5. Cardinality(A \cup {Len(s) + 1}) = Cardinality(A) + 1
  BY <1>2, <1>4, FS_AddElement
<1>6. Cardinality(A) \in Nat
  BY <1>2, FS_CardinalityType
<1>7. QED
  BY <1>2, <1>3, <1>5, <1>6

LEMMA CountSplit ==
  ASSUME NEW E, NEW s \in Seq(E), NEW S, NEW U
  PROVE  Count(s, U) = Count(s, U \cap S) + Count(s, U \ S)
<1> DEFINE A == {i \in 1 .. Len(s) : s[i] \in U \cap S}
           B == {i \in 1 .. Len(s) : s[i] \in U \ S}
           C == {i \in 1 .. Len(s) : s[i] \in U}
<1>1. /\ IsFiniteSet(A) /\ Count(s, U \cap S) = Cardinality(A)
      /\ IsFiniteSet(B) /\ Count(s, U \ S) = Cardinality(B)
      /\ Count(s, U) = Cardinality(C)
  BY CountIs
<1>2. A \cap B = {} /\ C = A \cup B
  OBVIOUS
<1> HIDE DEF A, B, C
<1>3. Cardinality(A \cup B) = Cardinality(A) + Cardinality(B)
  BY <1>1, <1>2, Disjoint
<1>4. QED
  BY <1>1, <1>2, <1>3

(* Only the members of S that may be in s count.                           *)
LEMMA CountWithin ==
  ASSUME NEW E, NEW s \in Seq(E), NEW S, NEW U, E \cap S = E \cap U
  PROVE  Count(s, S) = Count(s, U)
<1>1. \A i \in 1 .. Len(s) : s[i] \in E
  BY ElementOfSeq
<1>2. {i \in 1 .. Len(s) : s[i] \in S} = {i \in 1 .. Len(s) : s[i] \in U}
  BY <1>1
<1>3. QED
  BY <1>2, CountIs

-----------------------------------------------------------------------------
(* Who waits for an MSHR.                                                  *)

Waiters(mshr, S) ==
  {w \in UNION {{x} \X DOMAIN mshr[x] : x \in Lines} : mshr[w[1]][w[2]] \in S}

LEMMA WaitersAre ==
  ASSUME NEW E, NEW m \in Mshrs(E), NEW S
  PROVE  /\ \A w : w \in Waiters(m, S) <=>
              \E x \in Lines : \E i \in 1 .. Len(m[x]) : w = <<x, i>> /\ m[x][i] \in S
         /\ IsFiniteSet(Waiters(m, S))
         /\ CountWaiting(m, S) = Cardinality(Waiters(m, S)) /\ CountWaiting(m, S) \in Nat
<1> DEFINE of(x) == {x} \X DOMAIN m[x]  all == {of(x) : x \in Lines}
<1>1. \A x \in Lines : m[x] \in Seq(E) /\ Len(m[x]) \in Nat /\ DOMAIN m[x] = 1 .. Len(m[x])
  BY LenProperties DEF Mshrs
<1>2. ASSUME NEW w
      PROVE  w \in Waiters(m, S) <=>
               \E x \in Lines : \E i \in 1 .. Len(m[x]) : w = <<x, i>> /\ m[x][i] \in S
  BY <1>1 DEF Waiters
<1>3. \A y \in all : IsFiniteSet(y)
  <2>1. ASSUME NEW x \in Lines PROVE IsFiniteSet(of(x))
    <3>1. 0 \in Int /\ 1 \in Int /\ Len(m[x]) \in Int
      BY <1>1
    <3>2. IsFiniteSet(1 .. Len(m[x]))
      BY <3>1, FS_Interval
    <3>3. IsFiniteSet({x})
      BY FS_Singleton
    <3>4. QED
      BY <1>1, <3>2, <3>3, FS_Product
  <2>2. QED
    BY <2>1
<1>4. IsFiniteSet(all)
  <2> DEFINE f == [x \in Lines |-> of(x)]
  <2>1. f \in [Lines -> all]
    OBVIOUS
  <2>2. \A y \in all : \E x \in Lines : f[x] = y
    OBVIOUS
  <2>3. IsFiniteSet(Lines)
    BY MemAssumption DEF MemAssumption
  <2> HIDE DEF of, all, f
  <2>4. f \in Surjection(Lines, all)
    BY <2>1, <2>2 DEF Surjection
  <2>5. QED
    BY <2>3, <2>4, FS_Surjection
<1>5. IsFiniteSet(UNION all)
  <2> HIDE DEF all
  <2>1. QED
    BY <1>3, <1>4, FS_UNION
<1>6. Waiters(m, S) \subseteq UNION all
  BY DEF Waiters
<1> HIDE DEF all
<1>7. IsFiniteSet(Waiters(m, S))
  BY <1>5, <1>6, FS_Subset
<1>8. CountWaiting(m, S) = Cardinality(Waiters(m, S))
  BY Zenon DEF CountWaiting, Waiters
<1>9. QED
  BY <1>2, <1>7, <1>8, FS_CardinalityType

AgreeElsewhere(m, n, x) == \A y \in Lines \ {x} : m[y] = n[y]

LEMMA WaitersOf ==
  ASSUME NEW E, NEW full \in Mshrs(E), NEW rest \in Mshrs(E), NEW x \in Lines,
         rest[x] = <<>>, AgreeElsewhere(full, rest, x), NEW S
  PROVE  CountWaiting(full, S) = CountWaiting(rest, S) + Count(full[x], S)
<1> DEFINE s == full[x]
           A == Waiters(rest, S)
           B == {i \in 1 .. Len(s) : s[i] \in S}
           C == {<<x, i>> : i \in B}
           f == [i \in B |-> <<x, i>>]
<1> USE DEF AgreeElsewhere
<1>1. s \in Seq(E)
  BY DEF Mshrs
<1> HIDE DEF s
<1>4. IsFiniteSet(B) /\ Count(s, S) = Cardinality(B)
  BY <1>1, CountIs
<1>5. IsFiniteSet(C) /\ Cardinality(C) = Cardinality(B)
  <2>1. f \in [B -> C] /\ (\A i, j \in B : f[i] = f[j] => i = j) /\ \A z \in C : \E i \in B : f[i] = z
    OBVIOUS
  <2> HIDE DEF f, B, C
  <2>2. QED
    BY <2>1, <1>4, Matched
<1>6. /\ \A w : w \in Waiters(full, S) <=>
           \E y \in Lines : \E i \in 1 .. Len(full[y]) : w = <<y, i>> /\ full[y][i] \in S
      /\ CountWaiting(full, S) = Cardinality(Waiters(full, S))
  BY WaitersAre
<1>7. /\ \A w : w \in A <=>
           \E y \in Lines : \E i \in 1 .. Len(rest[y]) : w = <<y, i>> /\ rest[y][i] \in S
      /\ IsFiniteSet(A)
      /\ CountWaiting(rest, S) = Cardinality(A)
  BY WaitersAre
<1> HIDE DEF A
<1>8. \A w \in A : w[1] # x
  <2>1. 1 .. Len(<<>>) = {}
    OBVIOUS
  <2>2. QED
    BY <2>1, <1>7
<1>9. A \cap C = {}
  BY <1>8
<1>10. Waiters(full, S) = A \cup C
  <2>1. ASSUME NEW w \in Waiters(full, S) PROVE w \in A \cup C
    <3>1. PICK y \in Lines : \E i \in 1 .. Len(full[y]) : w = <<y, i>> /\ full[y][i] \in S
      BY <1>6
    <3>2. PICK i \in 1 .. Len(full[y]) : w = <<y, i>> /\ full[y][i] \in S
      BY <3>1
    <3>3. CASE y = x
      BY <3>2, <3>3 DEF s
    <3>4. CASE y # x
      <4>1. full[y] = rest[y]
        BY <3>4
      <4>2. QED
        BY <3>2, <4>1, <1>7
    <3>5. QED
      BY <3>3, <3>4
  <2>2. ASSUME NEW w \in A PROVE w \in Waiters(full, S)
    <3>1. PICK y \in Lines : \E i \in 1 .. Len(rest[y]) : w = <<y, i>> /\ rest[y][i] \in S
      BY <1>7
    <3>2. PICK i \in 1 .. Len(rest[y]) : w = <<y, i>> /\ rest[y][i] \in S
      BY <3>1
    <3>3. y # x
      BY <3>2, <1>8
    <3>4. full[y] = rest[y]
      BY <3>3
    <3>5. QED
      BY <3>2, <3>4, <1>6
  <2>3. ASSUME NEW i \in B PROVE <<x, i>> \in Waiters(full, S)
    BY <1>6 DEF s
  <2>4. QED
    BY <2>1, <2>2, <2>3
<1> HIDE DEF B, C
<1>11. Cardinality(A \cup C) = Cardinality(A) + Cardinality(C)
  BY <1>5, <1>7, <1>9, Disjoint
<1>12. QED
  BY <1>4, <1>5, <1>6, <1>7, <1>10, <1>11 DEF s

(* One more waits for x.                                                   *)
LEMMA WaitersJoin ==
  ASSUME NEW E, NEW m \in Mshrs(E), NEW more \in Mshrs(E), NEW x \in Lines, NEW t \in E,
         more[x] = Append(m[x], t), AgreeElsewhere(more, m, x), NEW S
  PROVE  CountWaiting(more, S) = CountWaiting(m, S) + (IF t \in S THEN 1 ELSE 0)
<1> DEFINE rest == [m EXCEPT ![x] = <<>>]
<1>1. m[x] \in Seq(E) /\ <<>> \in Seq(E)
  BY DEF Mshrs
<1>2. rest \in Mshrs(E)
  BY <1>1 DEF Mshrs
<1>3. rest[x] = <<>> /\ AgreeElsewhere(m, rest, x)
  BY DEF Mshrs, AgreeElsewhere
<1> HIDE DEF rest
<1>4. CountWaiting(m, S) = CountWaiting(rest, S) + Count(m[x], S)
  BY <1>2, <1>3, WaitersOf
<1>5. CountWaiting(more, S) = CountWaiting(rest, S) + Count(more[x], S)
  <2>1. AgreeElsewhere(more, rest, x)
    BY <1>3 DEF AgreeElsewhere
  <2>2. QED
    BY <1>2, <1>3, <2>1, WaitersOf
<1>6. Count(more[x], S) = Count(m[x], S) + (IF t \in S THEN 1 ELSE 0)
  BY <1>1, CountAppend
<1>7. CountWaiting(rest, S) \in Nat /\ Count(m[x], S) \in Nat
  BY <1>1, <1>2, WaitersAre, CountIs
<1>8. QED
  BY <1>4, <1>5, <1>6, <1>7

-----------------------------------------------------------------------------
(* The loops of the model, which are folds: what holds of the base, and     *)
(* after a step if it held before, holds after all steps.                   *)

EnterAll(c, l, ts) == FoldLeft(LAMBDA x, t : enterMSHR(x, l, t), c, ts)
AccessAll(c, l, ts) == FoldLeft(LAMBDA x, t : Access(x, l, t), c, ts)
AnswerAll(c, l, ts) == FoldLeft(LAMBDA x, t : Answer(x, l, t), c, ts)
ForwardAll(m, l, ts) == FoldLeft(LAMBDA x, t : Forward(x, l, t), m, ts)
WriteBackAll(m, l, es) == FoldLeft(LAMBDA x, e : WriteBack(x, l, e), m, es)

(* Keep.                                                                   *)
LEMMA KeepInduct ==
  ASSUME NEW S, NEW s, Len(s) \in Nat, DOMAIN s = 1 .. Len(s), NEW T, <<>> \in T,
         \A k \in 1 .. Len(s), r \in T : (IF s[k] \in S THEN Append(r, s[k]) ELSE r) \in T,
         NEW P, <<>> \in P[0],
         \A k \in 1 .. Len(s), r \in T : r \in P[k - 1] => (IF s[k] \in S THEN Append(r, s[k]) ELSE r) \in P[k]
  PROVE  Keep(s, S) \in T /\ Keep(s, S) \in P[Len(s)]
<1> DEFINE n == Len(s)
           step == [p \in T \X (1 .. n) |-> IF s[p[2]] \in S THEN Append(p[1], s[p[2]]) ELSE p[1]]
           Folds(h) == h = [q \in SUBSET (1 .. n) |-> IF q = {} THEN <<>> ELSE IF s[Max(q)] \in S THEN Append(h[q \ {Max(q)}], s[Max(q)]) ELSE h[q \ {Max(q)}]]
           it == CHOOSE h : Folds(h)
<1>1. Keep(s, S) = it[1 .. n]
  BY Zenon DEF Keep, FoldLeft, MapThenFoldSet
<1>2. \A r \in T, k \in 1 .. n : step[<<r, k>>] = IF s[k] \in S THEN Append(r, s[k]) ELSE r
  BY Zenon
<1>3. Steps(step, T, n)
  BY Zenon DEF Steps
<1> HIDE DEF step
<1>4. Folds(it)
  <2>1. PICK g : Folding(g, T, n, <<>>, step)
    <3> HIDE DEF n
    <3>1. n \in Nat
      BY DEF n
    <3>2. QED
      BY <1>3, <3>1, FoldExists
  <2>2. ASSUME NEW q \in SUBSET (1 .. n), q # {}
        PROVE  g[q] = IF s[Max(q)] \in S THEN Append(g[q \ {Max(q)}], s[Max(q)]) ELSE g[q \ {Max(q)}]
    <3>1. Max(q) \in 1 .. n
      BY <2>2, MaxOf
    <3>2. g[q \ {Max(q)}] \in T
      BY <2>1 DEF Folding
    <3>3. g[q] = step[<<g[q \ {Max(q)}], Max(q)>>]
      BY <2>1, <2>2 DEF Folding
    <3>4. QED
      BY <1>2, <3>1, <3>2, <3>3, Zenon
  <2>3. Folds(g)
    BY <2>1, <2>2, Zenon DEF Folding
  <2>4. QED
    BY <2>3, Zenon
<1> HIDE DEF it
<1>5. Unfolds(it, T, n, <<>>, step)
  <2>1. it[{}] = <<>>
    <3>1. {} \in SUBSET (1 .. n)
      OBVIOUS
    <3>2. QED
      BY <1>4, <3>1, Zenon
  <2>2. ASSUME NEW k \in 1 .. n, it[1 .. k - 1] \in T
        PROVE  it[1 .. k] = step[<<it[1 .. k - 1], k>>]
    <3>1. /\ Max(1 .. k) = k /\ (1 .. k) \ {k} = 1 .. k - 1
          /\ 1 .. k \in SUBSET (1 .. n) /\ 1 .. k # {}
      BY MaxOf
    <3>2. it[1 .. k] = IF s[Max(1 .. k)] \in S THEN Append(it[(1 .. k) \ {Max(1 .. k)}], s[Max(1 .. k)]) ELSE it[(1 .. k) \ {Max(1 .. k)}]
      BY <1>4, <3>1, Zenon
    <3>3. it[1 .. k] = IF s[k] \in S THEN Append(it[1 .. k - 1], s[k]) ELSE it[1 .. k - 1]
      BY <3>1, <3>2, Zenon
    <3>4. QED
      BY <3>3, <1>2, <2>2, Zenon
  <2>3. QED
    BY <2>1, <2>2, Zenon DEF Unfolds
<1>6. LeadsOn(P, T, n, <<>>, step)
  <2>1. ASSUME NEW k \in 1 .. n, NEW r \in T, r \in P[k - 1] PROVE step[<<r, k>>] \in P[k]
    <3>1. step[<<r, k>>] = IF s[k] \in S THEN Append(r, s[k]) ELSE r
      BY <1>2, Zenon
    <3>2. QED
      BY <2>1, <3>1, Zenon
  <2>2. QED
    BY <2>1, Zenon DEF LeadsOn
<1>7. it[1 .. n] \in T /\ it[1 .. n] \in P[n]
  <2> HIDE DEF n, Folds
  <2>1. n \in Nat
    BY DEF n
  <2>2. QED
    BY <1>3, <1>5, <1>6, <2>1, FoldInduct
<1>8. QED
  BY <1>1, <1>7, Zenon

(* The stalled transactions.                                               *)
LEMMA EnterInduct ==
  ASSUME NEW l, NEW s, Len(s) \in Nat, DOMAIN s = 1 .. Len(s), NEW T, NEW base \in T,
         \A k \in 1 .. Len(s), r \in T : (enterMSHR(r, l, s[k])) \in T,
         NEW P, base \in P[0],
         \A k \in 1 .. Len(s), r \in T : r \in P[k - 1] => (enterMSHR(r, l, s[k])) \in P[k]
  PROVE  EnterAll(base, l, s) \in T /\ EnterAll(base, l, s) \in P[Len(s)]
<1> DEFINE n == Len(s)
           step == [p \in T \X (1 .. n) |-> enterMSHR(p[1], l, s[p[2]])]
           Folds(h) == h = [q \in SUBSET (1 .. n) |-> IF q = {} THEN base ELSE enterMSHR(h[q \ {Max(q)}], l, s[Max(q)])]
           it == CHOOSE h : Folds(h)
<1>1. EnterAll(base, l, s) = it[1 .. n]
  BY Zenon DEF EnterAll, FoldLeft, MapThenFoldSet
<1>2. \A r \in T, k \in 1 .. n : step[<<r, k>>] = enterMSHR(r, l, s[k])
  BY Zenon
<1>3. Steps(step, T, n)
  BY Zenon DEF Steps
<1> HIDE DEF step
<1>4. Folds(it)
  <2>1. PICK g : Folding(g, T, n, base, step)
    <3> HIDE DEF n
    <3>1. n \in Nat
      BY DEF n
    <3>2. QED
      BY <1>3, <3>1, FoldExists
  <2>2. ASSUME NEW q \in SUBSET (1 .. n), q # {}
        PROVE  g[q] = enterMSHR(g[q \ {Max(q)}], l, s[Max(q)])
    <3>1. Max(q) \in 1 .. n
      BY <2>2, MaxOf
    <3>2. g[q \ {Max(q)}] \in T
      BY <2>1 DEF Folding
    <3>3. g[q] = step[<<g[q \ {Max(q)}], Max(q)>>]
      BY <2>1, <2>2 DEF Folding
    <3>4. QED
      BY <1>2, <3>1, <3>2, <3>3, Zenon
  <2>3. Folds(g)
    BY <2>1, <2>2, Zenon DEF Folding
  <2>4. QED
    BY <2>3, Zenon
<1> HIDE DEF it
<1>5. Unfolds(it, T, n, base, step)
  <2>1. it[{}] = base
    <3>1. {} \in SUBSET (1 .. n)
      OBVIOUS
    <3>2. QED
      BY <1>4, <3>1, Zenon
  <2>2. ASSUME NEW k \in 1 .. n, it[1 .. k - 1] \in T
        PROVE  it[1 .. k] = step[<<it[1 .. k - 1], k>>]
    <3>1. /\ Max(1 .. k) = k /\ (1 .. k) \ {k} = 1 .. k - 1
          /\ 1 .. k \in SUBSET (1 .. n) /\ 1 .. k # {}
      BY MaxOf
    <3>2. it[1 .. k] = enterMSHR(it[(1 .. k) \ {Max(1 .. k)}], l, s[Max(1 .. k)])
      BY <1>4, <3>1, Zenon
    <3>3. it[1 .. k] = enterMSHR(it[1 .. k - 1], l, s[k])
      BY <3>1, <3>2, Zenon
    <3>4. QED
      BY <3>3, <1>2, <2>2, Zenon
  <2>3. QED
    BY <2>1, <2>2, Zenon DEF Unfolds
<1>6. LeadsOn(P, T, n, base, step)
  <2>1. ASSUME NEW k \in 1 .. n, NEW r \in T, r \in P[k - 1] PROVE step[<<r, k>>] \in P[k]
    <3>1. step[<<r, k>>] = enterMSHR(r, l, s[k])
      BY <1>2, Zenon
    <3>2. QED
      BY <2>1, <3>1, Zenon
  <2>2. QED
    BY <2>1, Zenon DEF LeadsOn
<1>7. it[1 .. n] \in T /\ it[1 .. n] \in P[n]
  <2> HIDE DEF n, Folds
  <2>1. n \in Nat
    BY DEF n
  <2>2. QED
    BY <1>3, <1>5, <1>6, <2>1, FoldInduct
<1>8. QED
  BY <1>1, <1>7, Zenon

(* The transactions that are due.                                          *)
LEMMA AccessInduct ==
  ASSUME NEW l, NEW s, Len(s) \in Nat, DOMAIN s = 1 .. Len(s), NEW T, NEW base \in T,
         \A k \in 1 .. Len(s), r \in T : (Access(r, l, s[k])) \in T,
         NEW P, base \in P[0],
         \A k \in 1 .. Len(s), r \in T : r \in P[k - 1] => (Access(r, l, s[k])) \in P[k]
  PROVE  AccessAll(base, l, s) \in T /\ AccessAll(base, l, s) \in P[Len(s)]
<1> DEFINE n == Len(s)
           step == [p \in T \X (1 .. n) |-> Access(p[1], l, s[p[2]])]
           Folds(h) == h = [q \in SUBSET (1 .. n) |-> IF q = {} THEN base ELSE Access(h[q \ {Max(q)}], l, s[Max(q)])]
           it == CHOOSE h : Folds(h)
<1>1. AccessAll(base, l, s) = it[1 .. n]
  BY Zenon DEF AccessAll, FoldLeft, MapThenFoldSet
<1>2. \A r \in T, k \in 1 .. n : step[<<r, k>>] = Access(r, l, s[k])
  BY Zenon
<1>3. Steps(step, T, n)
  BY Zenon DEF Steps
<1> HIDE DEF step
<1>4. Folds(it)
  <2>1. PICK g : Folding(g, T, n, base, step)
    <3> HIDE DEF n
    <3>1. n \in Nat
      BY DEF n
    <3>2. QED
      BY <1>3, <3>1, FoldExists
  <2>2. ASSUME NEW q \in SUBSET (1 .. n), q # {}
        PROVE  g[q] = Access(g[q \ {Max(q)}], l, s[Max(q)])
    <3>1. Max(q) \in 1 .. n
      BY <2>2, MaxOf
    <3>2. g[q \ {Max(q)}] \in T
      BY <2>1 DEF Folding
    <3>3. g[q] = step[<<g[q \ {Max(q)}], Max(q)>>]
      BY <2>1, <2>2 DEF Folding
    <3>4. QED
      BY <1>2, <3>1, <3>2, <3>3, Zenon
  <2>3. Folds(g)
    BY <2>1, <2>2, Zenon DEF Folding
  <2>4. QED
    BY <2>3, Zenon
<1> HIDE DEF it
<1>5. Unfolds(it, T, n, base, step)
  <2>1. it[{}] = base
    <3>1. {} \in SUBSET (1 .. n)
      OBVIOUS
    <3>2. QED
      BY <1>4, <3>1, Zenon
  <2>2. ASSUME NEW k \in 1 .. n, it[1 .. k - 1] \in T
        PROVE  it[1 .. k] = step[<<it[1 .. k - 1], k>>]
    <3>1. /\ Max(1 .. k) = k /\ (1 .. k) \ {k} = 1 .. k - 1
          /\ 1 .. k \in SUBSET (1 .. n) /\ 1 .. k # {}
      BY MaxOf
    <3>2. it[1 .. k] = Access(it[(1 .. k) \ {Max(1 .. k)}], l, s[Max(1 .. k)])
      BY <1>4, <3>1, Zenon
    <3>3. it[1 .. k] = Access(it[1 .. k - 1], l, s[k])
      BY <3>1, <3>2, Zenon
    <3>4. QED
      BY <3>3, <1>2, <2>2, Zenon
  <2>3. QED
    BY <2>1, <2>2, Zenon DEF Unfolds
<1>6. LeadsOn(P, T, n, base, step)
  <2>1. ASSUME NEW k \in 1 .. n, NEW r \in T, r \in P[k - 1] PROVE step[<<r, k>>] \in P[k]
    <3>1. step[<<r, k>>] = Access(r, l, s[k])
      BY <1>2, Zenon
    <3>2. QED
      BY <2>1, <3>1, Zenon
  <2>2. QED
    BY <2>1, Zenon DEF LeadsOn
<1>7. it[1 .. n] \in T /\ it[1 .. n] \in P[n]
  <2> HIDE DEF n, Folds
  <2>1. n \in Nat
    BY DEF n
  <2>2. QED
    BY <1>3, <1>5, <1>6, <2>1, FoldInduct
<1>8. QED
  BY <1>1, <1>7, Zenon

(* The responses.                                                          *)
LEMMA AnswerInduct ==
  ASSUME NEW l, NEW s, Len(s) \in Nat, DOMAIN s = 1 .. Len(s), NEW T, NEW base \in T,
         \A k \in 1 .. Len(s), r \in T : (Answer(r, l, s[k])) \in T,
         NEW P, base \in P[0],
         \A k \in 1 .. Len(s), r \in T : r \in P[k - 1] => (Answer(r, l, s[k])) \in P[k]
  PROVE  AnswerAll(base, l, s) \in T /\ AnswerAll(base, l, s) \in P[Len(s)]
<1> DEFINE n == Len(s)
           step == [p \in T \X (1 .. n) |-> Answer(p[1], l, s[p[2]])]
           Folds(h) == h = [q \in SUBSET (1 .. n) |-> IF q = {} THEN base ELSE Answer(h[q \ {Max(q)}], l, s[Max(q)])]
           it == CHOOSE h : Folds(h)
<1>1. AnswerAll(base, l, s) = it[1 .. n]
  BY Zenon DEF AnswerAll, FoldLeft, MapThenFoldSet
<1>2. \A r \in T, k \in 1 .. n : step[<<r, k>>] = Answer(r, l, s[k])
  BY Zenon
<1>3. Steps(step, T, n)
  BY Zenon DEF Steps
<1> HIDE DEF step
<1>4. Folds(it)
  <2>1. PICK g : Folding(g, T, n, base, step)
    <3> HIDE DEF n
    <3>1. n \in Nat
      BY DEF n
    <3>2. QED
      BY <1>3, <3>1, FoldExists
  <2>2. ASSUME NEW q \in SUBSET (1 .. n), q # {}
        PROVE  g[q] = Answer(g[q \ {Max(q)}], l, s[Max(q)])
    <3>1. Max(q) \in 1 .. n
      BY <2>2, MaxOf
    <3>2. g[q \ {Max(q)}] \in T
      BY <2>1 DEF Folding
    <3>3. g[q] = step[<<g[q \ {Max(q)}], Max(q)>>]
      BY <2>1, <2>2 DEF Folding
    <3>4. QED
      BY <1>2, <3>1, <3>2, <3>3, Zenon
  <2>3. Folds(g)
    BY <2>1, <2>2, Zenon DEF Folding
  <2>4. QED
    BY <2>3, Zenon
<1> HIDE DEF it
<1>5. Unfolds(it, T, n, base, step)
  <2>1. it[{}] = base
    <3>1. {} \in SUBSET (1 .. n)
      OBVIOUS
    <3>2. QED
      BY <1>4, <3>1, Zenon
  <2>2. ASSUME NEW k \in 1 .. n, it[1 .. k - 1] \in T
        PROVE  it[1 .. k] = step[<<it[1 .. k - 1], k>>]
    <3>1. /\ Max(1 .. k) = k /\ (1 .. k) \ {k} = 1 .. k - 1
          /\ 1 .. k \in SUBSET (1 .. n) /\ 1 .. k # {}
      BY MaxOf
    <3>2. it[1 .. k] = Answer(it[(1 .. k) \ {Max(1 .. k)}], l, s[Max(1 .. k)])
      BY <1>4, <3>1, Zenon
    <3>3. it[1 .. k] = Answer(it[1 .. k - 1], l, s[k])
      BY <3>1, <3>2, Zenon
    <3>4. QED
      BY <3>3, <1>2, <2>2, Zenon
  <2>3. QED
    BY <2>1, <2>2, Zenon DEF Unfolds
<1>6. LeadsOn(P, T, n, base, step)
  <2>1. ASSUME NEW k \in 1 .. n, NEW r \in T, r \in P[k - 1] PROVE step[<<r, k>>] \in P[k]
    <3>1. step[<<r, k>>] = Answer(r, l, s[k])
      BY <1>2, Zenon
    <3>2. QED
      BY <2>1, <3>1, Zenon
  <2>2. QED
    BY <2>1, Zenon DEF LeadsOn
<1>7. it[1 .. n] \in T /\ it[1 .. n] \in P[n]
  <2> HIDE DEF n, Folds
  <2>1. n \in Nat
    BY DEF n
  <2>2. QED
    BY <1>3, <1>5, <1>6, <2>1, FoldInduct
<1>8. QED
  BY <1>1, <1>7, Zenon

(* What goes to the next level.                                            *)
LEMMA ForwardInduct ==
  ASSUME NEW l, NEW s, Len(s) \in Nat, DOMAIN s = 1 .. Len(s), NEW T, NEW base \in T,
         \A k \in 1 .. Len(s), r \in T : (Forward(r, l, s[k])) \in T,
         NEW P, base \in P[0],
         \A k \in 1 .. Len(s), r \in T : r \in P[k - 1] => (Forward(r, l, s[k])) \in P[k]
  PROVE  ForwardAll(base, l, s) \in T /\ ForwardAll(base, l, s) \in P[Len(s)]
<1> DEFINE n == Len(s)
           step == [p \in T \X (1 .. n) |-> Forward(p[1], l, s[p[2]])]
           Folds(h) == h = [q \in SUBSET (1 .. n) |-> IF q = {} THEN base ELSE Forward(h[q \ {Max(q)}], l, s[Max(q)])]
           it == CHOOSE h : Folds(h)
<1>1. ForwardAll(base, l, s) = it[1 .. n]
  BY Zenon DEF ForwardAll, FoldLeft, MapThenFoldSet
<1>2. \A r \in T, k \in 1 .. n : step[<<r, k>>] = Forward(r, l, s[k])
  BY Zenon
<1>3. Steps(step, T, n)
  BY Zenon DEF Steps
<1> HIDE DEF step
<1>4. Folds(it)
  <2>1. PICK g : Folding(g, T, n, base, step)
    <3> HIDE DEF n
    <3>1. n \in Nat
      BY DEF n
    <3>2. QED
      BY <1>3, <3>1, FoldExists
  <2>2. ASSUME NEW q \in SUBSET (1 .. n), q # {}
        PROVE  g[q] = Forward(g[q \ {Max(q)}], l, s[Max(q)])
    <3>1. Max(q) \in 1 .. n
      BY <2>2, MaxOf
    <3>2. g[q \ {Max(q)}] \in T
      BY <2>1 DEF Folding
    <3>3. g[q] = step[<<g[q \ {Max(q)}], Max(q)>>]
      BY <2>1, <2>2 DEF Folding
    <3>4. QED
      BY <1>2, <3>1, <3>2, <3>3, Zenon
  <2>3. Folds(g)
    BY <2>1, <2>2, Zenon DEF Folding
  <2>4. QED
    BY <2>3, Zenon
<1> HIDE DEF it
<1>5. Unfolds(it, T, n, base, step)
  <2>1. it[{}] = base
    <3>1. {} \in SUBSET (1 .. n)
      OBVIOUS
    <3>2. QED
      BY <1>4, <3>1, Zenon
  <2>2. ASSUME NEW k \in 1 .. n, it[1 .. k - 1] \in T
        PROVE  it[1 .. k] = step[<<it[1 .. k - 1], k>>]
    <3>1. /\ Max(1 .. k) = k /\ (1 .. k) \ {k} = 1 .. k - 1
          /\ 1 .. k \in SUBSET (1 .. n) /\ 1 .. k # {}
      BY MaxOf
    <3>2. it[1 .. k] = Forward(it[(1 .. k) \ {Max(1 .. k)}], l, s[Max(1 .. k)])
      BY <1>4, <3>1, Zenon
    <3>3. it[1 .. k] = Forward(it[1 .. k - 1], l, s[k])
      BY <3>1, <3>2, Zenon
    <3>4. QED
      BY <3>3, <1>2, <2>2, Zenon
  <2>3. QED
    BY <2>1, <2>2, Zenon DEF Unfolds
<1>6. LeadsOn(P, T, n, base, step)
  <2>1. ASSUME NEW k \in 1 .. n, NEW r \in T, r \in P[k - 1] PROVE step[<<r, k>>] \in P[k]
    <3>1. step[<<r, k>>] = Forward(r, l, s[k])
      BY <1>2, Zenon
    <3>2. QED
      BY <2>1, <3>1, Zenon
  <2>2. QED
    BY <2>1, Zenon DEF LeadsOn
<1>7. it[1 .. n] \in T /\ it[1 .. n] \in P[n]
  <2> HIDE DEF n, Folds
  <2>1. n \in Nat
    BY DEF n
  <2>2. QED
    BY <1>3, <1>5, <1>6, <2>1, FoldInduct
<1>8. QED
  BY <1>1, <1>7, Zenon

(* The victims of a level.                                                 *)
LEMMA WriteBackInduct ==
  ASSUME NEW l, NEW s, Len(s) \in Nat, DOMAIN s = 1 .. Len(s), NEW T, NEW base \in T,
         \A k \in 1 .. Len(s), r \in T : (WriteBack(r, l, s[k])) \in T,
         NEW P, base \in P[0],
         \A k \in 1 .. Len(s), r \in T : r \in P[k - 1] => (WriteBack(r, l, s[k])) \in P[k]
  PROVE  WriteBackAll(base, l, s) \in T /\ WriteBackAll(base, l, s) \in P[Len(s)]
<1> DEFINE n == Len(s)
           step == [p \in T \X (1 .. n) |-> WriteBack(p[1], l, s[p[2]])]
           Folds(h) == h = [q \in SUBSET (1 .. n) |-> IF q = {} THEN base ELSE WriteBack(h[q \ {Max(q)}], l, s[Max(q)])]
           it == CHOOSE h : Folds(h)
<1>1. WriteBackAll(base, l, s) = it[1 .. n]
  BY Zenon DEF WriteBackAll, FoldLeft, MapThenFoldSet
<1>2. \A r \in T, k \in 1 .. n : step[<<r, k>>] = WriteBack(r, l, s[k])
  BY Zenon
<1>3. Steps(step, T, n)
  BY Zenon DEF Steps
<1> HIDE DEF step
<1>4. Folds(it)
  <2>1. PICK g : Folding(g, T, n, base, step)
    <3> HIDE DEF n
    <3>1. n \in Nat
      BY DEF n
    <3>2. QED
      BY <1>3, <3>1, FoldExists
  <2>2. ASSUME NEW q \in SUBSET (1 .. n), q # {}
        PROVE  g[q] = WriteBack(g[q \ {Max(q)}], l, s[Max(q)])
    <3>1. Max(q) \in 1 .. n
      BY <2>2, MaxOf
    <3>2. g[q \ {Max(q)}] \in T
      BY <2>1 DEF Folding
    <3>3. g[q] = step[<<g[q \ {Max(q)}], Max(q)>>]
      BY <2>1, <2>2 DEF Folding
    <3>4. QED
      BY <1>2, <3>1, <3>2, <3>3, Zenon
  <2>3. Folds(g)
    BY <2>1, <2>2, Zenon DEF Folding
  <2>4. QED
    BY <2>3, Zenon
<1> HIDE DEF it
<1>5. Unfolds(it, T, n, base, step)
  <2>1. it[{}] = base
    <3>1. {} \in SUBSET (1 .. n)
      OBVIOUS
    <3>2. QED
      BY <1>4, <3>1, Zenon
  <2>2. ASSUME NEW k \in 1 .. n, it[1 .. k - 1] \in T
        PROVE  it[1 .. k] = step[<<it[1 .. k - 1], k>>]
    <3>1. /\ Max(1 .. k) = k /\ (1 .. k) \ {k} = 1 .. k - 1
          /\ 1 .. k \in SUBSET (1 .. n) /\ 1 .. k # {}
      BY MaxOf
    <3>2. it[1 .. k] = WriteBack(it[(1 .. k) \ {Max(1 .. k)}], l, s[Max(1 .. k)])
      BY <1>4, <3>1, Zenon
    <3>3. it[1 .. k] = WriteBack(it[1 .. k - 1], l, s[k])
      BY <3>1, <3>2, Zenon
    <3>4. QED
      BY <3>3, <1>2, <2>2, Zenon
  <2>3. QED
    BY <2>1, <2>2, Zenon DEF Unfolds
<1>6. LeadsOn(P, T, n, base, step)
  <2>1. ASSUME NEW k \in 1 .. n, NEW r \in T, r \in P[k - 1] PROVE step[<<r, k>>] \in P[k]
    <3>1. step[<<r, k>>] = WriteBack(r, l, s[k])
      BY <1>2, Zenon
    <3>2. QED
      BY <2>1, <3>1, Zenon
  <2>2. QED
    BY <2>1, Zenon DEF LeadsOn
<1>7. it[1 .. n] \in T /\ it[1 .. n] \in P[n]
  <2> HIDE DEF n, Folds
  <2>1. n \in Nat
    BY DEF n
  <2>2. QED
    BY <1>3, <1>5, <1>6, <2>1, FoldInduct
<1>8. QED
  BY <1>1, <1>7, Zenon

(* What the last level asks the DRAM for.                                  *)
LEMMA FetchInduct ==
  ASSUME NEW s, Len(s) \in Nat, DOMAIN s = 1 .. Len(s), NEW T, NEW base \in T,
         \A k \in 1 .. Len(s), r \in T : (Fetch(r, s[k])) \in T,
         NEW P, base \in P[0],
         \A k \in 1 .. Len(s), r \in T : r \in P[k - 1] => (Fetch(r, s[k])) \in P[k]
  PROVE  FoldLeft(Fetch, base, s) \in T /\ FoldLeft(Fetch, base, s) \in P[Len(s)]
<1> DEFINE n == Len(s)
           step == [p \in T \X (1 .. n) |-> Fetch(p[1], s[p[2]])]
           Folds(h) == h = [q \in SUBSET (1 .. n) |-> IF q = {} THEN base ELSE Fetch(h[q \ {Max(q)}], s[Max(q)])]
           it == CHOOSE h : Folds(h)
<1>1. FoldLeft(Fetch, base, s) = it[1 .. n]
  BY Zenon DEF FoldLeft, MapThenFoldSet
<1>2. \A r \in T, k \in 1 .. n : step[<<r, k>>] = Fetch(r, s[k])
  BY Zenon
<1>3. Steps(step, T, n)
  BY Zenon DEF Steps
<1> HIDE DEF step
<1>4. Folds(it)
  <2>1. PICK g : Folding(g, T, n, base, step)
    <3> HIDE DEF n
    <3>1. n \in Nat
      BY DEF n
    <3>2. QED
      BY <1>3, <3>1, FoldExists
  <2>2. ASSUME NEW q \in SUBSET (1 .. n), q # {}
        PROVE  g[q] = Fetch(g[q \ {Max(q)}], s[Max(q)])
    <3>1. Max(q) \in 1 .. n
      BY <2>2, MaxOf
    <3>2. g[q \ {Max(q)}] \in T
      BY <2>1 DEF Folding
    <3>3. g[q] = step[<<g[q \ {Max(q)}], Max(q)>>]
      BY <2>1, <2>2 DEF Folding
    <3>4. QED
      BY <1>2, <3>1, <3>2, <3>3, Zenon
  <2>3. Folds(g)
    BY <2>1, <2>2, Zenon DEF Folding
  <2>4. QED
    BY <2>3, Zenon
<1> HIDE DEF it
<1>5. Unfolds(it, T, n, base, step)
  <2>1. it[{}] = base
    <3>1. {} \in SUBSET (1 .. n)
      OBVIOUS
    <3>2. QED
      BY <1>4, <3>1, Zenon
  <2>2. ASSUME NEW k \in 1 .. n, it[1 .. k - 1] \in T
        PROVE  it[1 .. k] = step[<<it[1 .. k - 1], k>>]
    <3>1. /\ Max(1 .. k) = k /\ (1 .. k) \ {k} = 1 .. k - 1
          /\ 1 .. k \in SUBSET (1 .. n) /\ 1 .. k # {}
      BY MaxOf
    <3>2. it[1 .. k] = Fetch(it[(1 .. k) \ {Max(1 .. k)}], s[Max(1 .. k)])
      BY <1>4, <3>1, Zenon
    <3>3. it[1 .. k] = Fetch(it[1 .. k - 1], s[k])
      BY <3>1, <3>2, Zenon
    <3>4. QED
      BY <3>3, <1>2, <2>2, Zenon
  <2>3. QED
    BY <2>1, <2>2, Zenon DEF Unfolds
<1>6. LeadsOn(P, T, n, base, step)
  <2>1. ASSUME NEW k \in 1 .. n, NEW r \in T, r \in P[k - 1] PROVE step[<<r, k>>] \in P[k]
    <3>1. step[<<r, k>>] = Fetch(r, s[k])
      BY <1>2, Zenon
    <3>2. QED
      BY <2>1, <3>1, Zenon
  <2>2. QED
    BY <2>1, Zenon DEF LeadsOn
<1>7. it[1 .. n] \in T /\ it[1 .. n] \in P[n]
  <2> HIDE DEF n, Folds
  <2>1. n \in Nat
    BY DEF n
  <2>2. QED
    BY <1>3, <1>5, <1>6, <2>1, FoldInduct
<1>8. QED
  BY <1>1, <1>7, Zenon

(* The victims of the last level.                                          *)
LEMMA WriteToDramInduct ==
  ASSUME NEW s, Len(s) \in Nat, DOMAIN s = 1 .. Len(s), NEW T, NEW base \in T,
         \A k \in 1 .. Len(s), r \in T : (WriteToDram(r, s[k])) \in T,
         NEW P, base \in P[0],
         \A k \in 1 .. Len(s), r \in T : r \in P[k - 1] => (WriteToDram(r, s[k])) \in P[k]
  PROVE  FoldLeft(WriteToDram, base, s) \in T /\ FoldLeft(WriteToDram, base, s) \in P[Len(s)]
<1> DEFINE n == Len(s)
           step == [p \in T \X (1 .. n) |-> WriteToDram(p[1], s[p[2]])]
           Folds(h) == h = [q \in SUBSET (1 .. n) |-> IF q = {} THEN base ELSE WriteToDram(h[q \ {Max(q)}], s[Max(q)])]
           it == CHOOSE h : Folds(h)
<1>1. FoldLeft(WriteToDram, base, s) = it[1 .. n]
  BY Zenon DEF FoldLeft, MapThenFoldSet
<1>2. \A r \in T, k \in 1 .. n : step[<<r, k>>] = WriteToDram(r, s[k])
  BY Zenon
<1>3. Steps(step, T, n)
  BY Zenon DEF Steps
<1> HIDE DEF step
<1>4. Folds(it)
  <2>1. PICK g : Folding(g, T, n, base, step)
    <3> HIDE DEF n
    <3>1. n \in Nat
      BY DEF n
    <3>2. QED
      BY <1>3, <3>1, FoldExists
  <2>2. ASSUME NEW q \in SUBSET (1 .. n), q # {}
        PROVE  g[q] = WriteToDram(g[q \ {Max(q)}], s[Max(q)])
    <3>1. Max(q) \in 1 .. n
      BY <2>2, MaxOf
    <3>2. g[q \ {Max(q)}] \in T
      BY <2>1 DEF Folding
    <3>3. g[q] = step[<<g[q \ {Max(q)}], Max(q)>>]
      BY <2>1, <2>2 DEF Folding
    <3>4. QED
      BY <1>2, <3>1, <3>2, <3>3, Zenon
  <2>3. Folds(g)
    BY <2>1, <2>2, Zenon DEF Folding
  <2>4. QED
    BY <2>3, Zenon
<1> HIDE DEF it
<1>5. Unfolds(it, T, n, base, step)
  <2>1. it[{}] = base
    <3>1. {} \in SUBSET (1 .. n)
      OBVIOUS
    <3>2. QED
      BY <1>4, <3>1, Zenon
  <2>2. ASSUME NEW k \in 1 .. n, it[1 .. k - 1] \in T
        PROVE  it[1 .. k] = step[<<it[1 .. k - 1], k>>]
    <3>1. /\ Max(1 .. k) = k /\ (1 .. k) \ {k} = 1 .. k - 1
          /\ 1 .. k \in SUBSET (1 .. n) /\ 1 .. k # {}
      BY MaxOf
    <3>2. it[1 .. k] = WriteToDram(it[(1 .. k) \ {Max(1 .. k)}], s[Max(1 .. k)])
      BY <1>4, <3>1, Zenon
    <3>3. it[1 .. k] = WriteToDram(it[1 .. k - 1], s[k])
      BY <3>1, <3>2, Zenon
    <3>4. QED
      BY <3>3, <1>2, <2>2, Zenon
  <2>3. QED
    BY <2>1, <2>2, Zenon DEF Unfolds
<1>6. LeadsOn(P, T, n, base, step)
  <2>1. ASSUME NEW k \in 1 .. n, NEW r \in T, r \in P[k - 1] PROVE step[<<r, k>>] \in P[k]
    <3>1. step[<<r, k>>] = WriteToDram(r, s[k])
      BY <1>2, Zenon
    <3>2. QED
      BY <2>1, <3>1, Zenon
  <2>2. QED
    BY <2>1, Zenon DEF LeadsOn
<1>7. it[1 .. n] \in T /\ it[1 .. n] \in P[n]
  <2> HIDE DEF n, Folds
  <2>1. n \in Nat
    BY DEF n
  <2>2. QED
    BY <1>3, <1>5, <1>6, <2>1, FoldInduct
<1>8. QED
  BY <1>1, <1>7, Zenon

-----------------------------------------------------------------------------
(* What the operators of the model keep.                                   *)

LEMMA KeepIs ==
  ASSUME NEW E, NEW s \in Seq(E), NEW S
  PROVE  /\ Keep(s, S) \in Seq(E \cap S)
         /\ \A U : Count(Keep(s, S), U) = Count(s, U \cap S)
<1> DEFINE T == Seq(E \cap S)
<1>1. Len(s) \in Nat /\ DOMAIN s = 1 .. Len(s) /\ \A k \in 1 .. Len(s) : s[k] \in E
  BY LenProperties, ElementOfSeq
<1>2. <<>> \in T
  OBVIOUS
<1>3. ASSUME NEW k \in 1 .. Len(s), NEW r \in T
      PROVE  (IF s[k] \in S THEN Append(r, s[k]) ELSE r) \in T
  BY <1>1, AppendProperties
<1>4. ASSUME NEW U
      PROVE  Keep(s, S) \in T /\ Count(Keep(s, S), U) = Count(s, U \cap S)
  <2> DEFINE P == [k \in 0 .. Len(s) |->
                     {r \in T : Count(r, U) + Left(s, k, U \cap S) = Count(s, U \cap S)}]
  <2>1. /\ Left(s, 0, U \cap S) = Count(s, U \cap S) /\ Left(s, Len(s), U \cap S) = 0
        /\ \A k \in 0 .. Len(s) : Left(s, k, U \cap S) \in Nat
        /\ \A k \in 1 .. Len(s) : Left(s, k - 1, U \cap S)
                                   = Left(s, k, U \cap S) + (IF s[k] \in U \cap S THEN 1 ELSE 0)
        /\ Count(s, U \cap S) \in Nat
    BY LeftIs, CountIs
  <2>2. <<>> \in P[0]
    BY <1>1, <1>2, <2>1, CountEmpty
  <2>3. ASSUME NEW k \in 1 .. Len(s), NEW r \in T, r \in P[k - 1]
        PROVE  (IF s[k] \in S THEN Append(r, s[k]) ELSE r) \in P[k]
    <3>1. k - 1 \in 0 .. Len(s) /\ k \in 0 .. Len(s)
      BY <1>1
    <3>2. Count(r, U) + Left(s, k - 1, U \cap S) = Count(s, U \cap S)
      BY <2>3, <3>1
    <3>3. /\ Left(s, k - 1, U \cap S) = Left(s, k, U \cap S) + (IF s[k] \in U \cap S THEN 1 ELSE 0)
          /\ Left(s, k, U \cap S) \in Nat
      BY <2>1, <3>1, Zenon
    <3>4. Count(r, U) \in Nat
      BY CountIs
    <3>5. CASE s[k] \in S
      <4>1. s[k] \in E \cap S
        BY <3>5, <1>1
      <4>2. Count(Append(r, s[k]), U) = Count(r, U) + (IF s[k] \in U THEN 1 ELSE 0)
        BY <4>1, CountAppend
      <4>3. Count(Append(r, s[k]), U) + Left(s, k, U \cap S) = Count(s, U \cap S)
        BY <3>2, <3>3, <3>4, <3>5, <4>2
      <4>4. QED
        BY <4>3, <3>1, <3>5, <1>3
    <3>6. CASE s[k] \notin S
      <4>1. Count(r, U) + Left(s, k, U \cap S) = Count(s, U \cap S)
        BY <3>2, <3>3, <3>4, <3>6
      <4>2. QED
        BY <4>1, <3>1, <3>6
    <3>7. QED
      BY <3>5, <3>6
  <2>4. Keep(s, S) \in T /\ Keep(s, S) \in P[Len(s)]
    <3> HIDE DEF T, P
    <3>1. QED
      BY <1>1, <1>2, <1>3, <2>2, <2>3, KeepInduct
  <2>5. Count(Keep(s, S), U) + Left(s, Len(s), U \cap S) = Count(s, U \cap S)
    BY <1>1, <2>4
  <2>6. Count(Keep(s, S), U) \in Nat
    BY <2>4, CountIs
  <2>7. QED
    BY <2>1, <2>4, <2>5, <2>6
<1>5. QED
  BY <1>4

-----------------------------------------------------------------------------
(* One set of the functional cache.                                        *)

LEMMA Present ==
  ASSUME NEW set \in Seq(Node(Lines)), NEW line, present(set, line)
  PROVE  Where(set, line) \in 1 .. Len(set) /\ set[Where(set, line)].line = line
<1>1. PICK i \in DOMAIN set : Finds(set, i, line)
  BY DEF present
<1>2. Where(set, line) \in DOMAIN set /\ Finds(set, Where(set, line), line)
  BY <1>1, Zenon DEF Where
<1>3. QED
  BY <1>2, LenProperties DEF Finds

LEMMA AccessSet ==
  ASSUME NEW set \in Seq(Node(Lines)), NEW line, present(set, line), NEW load \in BOOLEAN
  PROVE  /\ access(set, line, load) \in Seq(Node(Lines))
         /\ Unique(set) => /\ Unique(access(set, line, load))
                           /\ LinesOf(access(set, line, load)) = LinesOf(set)
<1> DEFINE p == Where(set, line)
           node == [set[p] EXCEPT !.dirty = @ \/ ~load]
           rest == RemoveAt(set, p)
           new == <<node>> \o rest
<1>1. p \in 1 .. Len(set) /\ Len(set) \in Nat /\ DOMAIN set = 1 .. Len(set)
  BY Present, LenProperties
<1>2. \A i \in 1 .. Len(set) : set[i] \in Node(Lines)
  BY ElementOfSeq
<1>3. node \in Node(Lines) /\ node.line = set[p].line /\ node.mapped = set[p].mapped
  <2>1. set[p] \in Node(Lines)
    BY <1>1, <1>2
  <2> HIDE DEF p
  <2>2. QED
    BY <2>1 DEF Node
<1>4. access(set, line, load) = new
  BY Zenon DEF access
<1> HIDE DEF p, node
<1>5. /\ rest \in Seq(Node(Lines)) /\ Len(rest) = Len(set) - 1
      /\ \A k \in 1 .. Len(set) - 1 : rest[k] = IF k < p THEN set[k] ELSE set[k + 1]
  BY <1>1, RemoveAtIs
<1> HIDE DEF rest
<1>6. /\ new \in Seq(Node(Lines)) /\ Len(new) = Len(rest) + 1
      /\ new[1] = node
      /\ \A k \in 2 .. Len(rest) + 1 : k - 1 \in 1 .. Len(rest) /\ new[k] = rest[k - 1]
  BY <1>3, <1>5, ConsIs
<1>7. Len(new) = Len(set) /\ DOMAIN new = 1 .. Len(set)
  <2>1. Len(new) = Len(set)
    <3>1. Len(set) \in Nat
      BY <1>1
    <3>2. Len(rest) = Len(set) - 1
      BY <1>5, Zenon
    <3>3. Len(new) = Len(rest) + 1
      BY <1>6, Zenon
    <3>4. QED
      BY <3>1, <3>2, <3>3
  <2>2. DOMAIN new = 1 .. Len(new)
    BY <1>6, LenProperties
  <2>3. QED
    BY <2>1, <2>2
<1> HIDE DEF new
<1> DEFINE from(k) == IF k = 1 THEN p ELSE IF k - 1 < p THEN k - 1 ELSE k
<1>8. ASSUME NEW k \in 1 .. Len(set)
      PROVE  /\ from(k) \in 1 .. Len(set)
             /\ new[k].line = set[from(k)].line /\ new[k].mapped = set[from(k)].mapped
  <2>1. CASE k = 1
    BY <2>1, <1>1, <1>3, <1>6
  <2>2. CASE k # 1
    <3>1. k \in 2 .. Len(rest) + 1 /\ k - 1 \in 1 .. Len(set) - 1 /\ k - 1 + 1 = k
      BY <2>2, <1>1, <1>5
    <3>2. new[k] = rest[k - 1] /\ rest[k - 1] = IF k - 1 < p THEN set[k - 1] ELSE set[k]
      BY <3>1, <1>5, <1>6
    <3>3. new[k] = set[from(k)]
      BY <3>2, <2>2
    <3>4. from(k) \in 1 .. Len(set)
      BY <3>1, <2>2, <1>1
    <3>5. QED
      BY <3>3, <3>4
  <2>3. QED
    BY <2>1, <2>2
<1>9. ASSUME NEW i \in 1 .. Len(set), NEW j \in 1 .. Len(set), from(i) = from(j)
      PROVE  i = j
  BY <1>1, <1>9
<1>10. ASSUME NEW i \in 1 .. Len(set) PROVE \E k \in 1 .. Len(set) : from(k) = i
  <2>1. CASE i = p
    <3>1. 1 \in 1 .. Len(set) /\ from(1) = i
      BY <2>1, <1>1
    <3>2. QED
      BY <3>1
  <2>2. CASE i < p
    <3>1. i + 1 \in 1 .. Len(set) /\ from(i + 1) = i
      BY <2>2, <1>1
    <3>2. QED
      BY <3>1
  <2>3. CASE i > p
    <3>1. from(i) = i
      BY <2>3, <1>1
    <3>2. QED
      BY <3>1
  <2>4. QED
    BY <2>1, <2>2, <2>3, <1>1
<1> HIDE DEF from
<1>11. ASSUME Unique(set) PROVE Unique(new) /\ LinesOf(new) = LinesOf(set)
  <2>1. ASSUME NEW i \in 1 .. Len(set), NEW j \in 1 .. Len(set)
        PROVE  new[i].mapped /\ (new[i].line = new[j].line => i = j)
    <3>1. from(i) \in DOMAIN set /\ from(j) \in DOMAIN set
      BY <1>1, <1>8
    <3>2. /\ new[i].mapped = set[from(i)].mapped
          /\ new[i].line = set[from(i)].line /\ new[j].line = set[from(j)].line
      BY <1>8
    <3>3. set[from(i)].mapped /\ (set[from(i)].line = set[from(j)].line => from(i) = from(j))
      BY <3>1, <1>11, Zenon DEF Unique
    <3>4. QED
      BY <3>2, <3>3, <1>9
  <2>2. \A x \in LinesOf(new) : x \in LinesOf(set)
    BY <1>1, <1>7, <1>8 DEF LinesOf
  <2>3. ASSUME NEW x \in LinesOf(set) PROVE x \in LinesOf(new)
    <3>1. PICK i \in 1 .. Len(set) : x = set[i].line
      BY <1>1 DEF LinesOf
    <3>2. PICK k \in 1 .. Len(set) : from(k) = i
      BY <1>10
    <3>3. new[k].line = x
      BY <3>1, <3>2, <1>8
    <3>4. QED
      BY <3>3, <1>7 DEF LinesOf
  <2>4. QED
    BY <2>1, <2>2, <2>3, <1>7 DEF Unique
<1>12. QED
  BY <1>4, <1>6, <1>11

LEMMA InvalidateSet ==
  ASSUME NEW set \in Seq(Node(Lines)), NEW line
  PROVE  /\ invalidate(set, line) \in Seq(Node(Lines))
         /\ Unique(set) => /\ Unique(invalidate(set, line))
                           /\ LinesOf(invalidate(set, line)) \subseteq LinesOf(set)
<1>1. CASE ~present(set, line)
  BY <1>1 DEF invalidate
<1>2. CASE present(set, line)
  <2> DEFINE p == Where(set, line)
             new == RemoveAt(set, p)
             from(k) == IF k < p THEN k ELSE k + 1
  <2>1. p \in 1 .. Len(set) /\ Len(set) \in Nat /\ DOMAIN set = 1 .. Len(set)
    BY <1>2, Present, LenProperties
  <2>2. invalidate(set, line) = new
    BY <1>2, Zenon DEF invalidate
  <2> HIDE DEF p
  <2>3. /\ new \in Seq(Node(Lines)) /\ Len(new) = Len(set) - 1
        /\ \A k \in 1 .. Len(set) - 1 : new[k] = IF k < p THEN set[k] ELSE set[k + 1]
    BY <2>1, RemoveAtIs
  <2> HIDE DEF new
  <2>4. DOMAIN new = 1 .. Len(set) - 1
    BY <2>3, LenProperties
  <2>5. ASSUME NEW k \in DOMAIN new
        PROVE  from(k) \in DOMAIN set /\ new[k] = set[from(k)]
    <3>1. k \in 1 .. Len(set) - 1
      BY <2>4
    <3>2. from(k) \in 1 .. Len(set)
      BY <3>1, <2>1
    <3>3. QED
      BY <3>1, <3>2, <2>1, <2>3
  <2>6. ASSUME NEW i \in DOMAIN new, NEW j \in DOMAIN new, from(i) = from(j)
        PROVE  i = j
    <3>1. i \in Int /\ j \in Int /\ p \in Int
      BY <2>1, <2>4
    <3>2. QED
      BY <2>6, <3>1
  <2> HIDE DEF from
  <2>7. ASSUME Unique(set) PROVE Unique(new) /\ LinesOf(new) \subseteq LinesOf(set)
    <3>1. ASSUME NEW i \in DOMAIN new, NEW j \in DOMAIN new
          PROVE  new[i].mapped /\ (new[i].line = new[j].line => i = j)
      BY <2>5, <2>6, <2>7 DEF Unique
    <3>2. \A x \in LinesOf(new) : x \in LinesOf(set)
      BY <2>5 DEF LinesOf
    <3>3. QED
      BY <3>1, <3>2 DEF Unique
  <2>8. QED
    BY <2>2, <2>3, <2>7
<1>3. QED
  BY <1>1, <1>2

LEMMA VictimIs ==
  ASSUME NEW set \in Seq(Node(Lines)), NEW n \in Nat \ {0}
  PROVE  /\ victims(set, n) = <<>> \/ (set # <<>> /\ victims(set, n) = <<Last(set)>>)
         /\ DOMAIN victims(set, n) \in {{}, {1}}
         /\ Len(set) - Len(victims(set, n)) \in 0 .. Len(set)
         /\ set # <<>> => Last(set) \in Node(Lines)
<1>1. Len(set) \in Nat /\ (set = <<>> <=> Len(set) = 0)
  BY EmptySeq, LenProperties
<1>2. CASE Len(set) < n
  <2>1. victims(set, n) = <<>>
    BY <1>2 DEF victims
  <2>2. DOMAIN <<>> = {} /\ Len(<<>>) = 0
    OBVIOUS
  <2>3. Len(set) - Len(victims(set, n)) \in 0 .. Len(set)
    BY <1>1, <2>1, <2>2
  <2>4. set # <<>> => Last(set) \in Node(Lines)
    <3>1. set # <<>> => Len(set) \in 1 .. Len(set)
      BY <1>1
    <3>2. QED
      BY <3>1, ElementOfSeq DEF Last
  <2>5. QED
    BY <2>1, <2>2, <2>3, <2>4
<1>3. CASE ~(Len(set) < n)
  <2>1. victims(set, n) = <<Last(set)>> /\ set # <<>>
    BY <1>1, <1>3 DEF victims
  <2>2. DOMAIN <<Last(set)>> = {1} /\ Len(<<Last(set)>>) = 1
    OBVIOUS
  <2>3. Len(set) - Len(victims(set, n)) \in 0 .. Len(set)
    BY <1>1, <2>1, <2>2
  <2>4. Last(set) \in Node(Lines)
    <3>1. Len(set) \in 1 .. Len(set)
      BY <1>1, <2>1
    <3>2. QED
      BY <3>1, ElementOfSeq DEF Last
  <2>5. QED
    BY <2>1, <2>2, <2>3, <2>4
<1>4. QED
  BY <1>2, <1>3

LEMMA InsertSet ==
  ASSUME NEW set \in Seq(Node(Lines)), NEW n \in Nat \ {0}, NEW line \in Lines,
         NEW load \in BOOLEAN
  PROVE  /\ insert(set, n, line, load) \in Seq(Node(Lines))
         /\ Unique(set) /\ line \notin LinesOf(set) =>
              /\ Unique(insert(set, n, line, load))
              /\ LinesOf(insert(set, n, line, load)) \subseteq LinesOf(set) \cup {line}
<1> DEFINE m == Len(set) - Len(victims(set, n))
           old == SubSeq(set, 1, m)
           gone == {line} \cup {victims(set, n)[i].line : i \in DOMAIN victims(set, n)}
           node == [line |-> line, dirty |-> ~load, mapped |-> TRUE]
           rest == Unmap(old, gone)
           new == <<node>> \o rest
<1>1. insert(set, n, line, load) = new
  BY Zenon DEF insert
<1>2. m \in 0 .. Len(set) /\ Len(set) \in Nat /\ DOMAIN set = 1 .. Len(set)
  BY VictimIs, LenProperties
<1>3. ASSUME NEW k \in 1 .. m, Unique(set), line \notin LinesOf(set)
      PROVE  set[k].line \notin gone
  <2>1. set[k].line # line
    BY <1>2, <1>3 DEF LinesOf
  <2>2. CASE victims(set, n) = <<>>
    <3>1. DOMAIN victims(set, n) = {}
      BY <2>2
    <3>2. QED
      BY <2>1, <3>1
  <2>3. CASE victims(set, n) = <<Last(set)>> /\ set # <<>>
    <3>1. Len(victims(set, n)) = 1 /\ DOMAIN victims(set, n) = {1} /\ victims(set, n)[1] = Last(set)
      BY <2>3
    <3>2. k \in DOMAIN set /\ Len(set) \in DOMAIN set /\ k # Len(set)
      <4>1. m = Len(set) - 1
        BY <3>1
      <4> HIDE DEF m
      <4>2. QED
        BY <4>1, <1>2
    <3>3. set[k].line # set[Len(set)].line
      BY <3>2, <1>3 DEF Unique
    <3>4. set[k].line # victims(set, n)[1].line
      BY <3>1, <3>3 DEF Last
    <3>5. QED
      BY <2>1, <3>1, <3>4
  <2>4. QED
    BY <2>2, <2>3, VictimIs
<1> HIDE DEF m, gone
<1>4. /\ old \in Seq(Node(Lines)) /\ Len(old) = m /\ DOMAIN old = 1 .. m
      /\ \A k \in 1 .. m : old[k] = set[k] /\ set[k] \in Node(Lines)
  <2>1. old \in Seq(Node(Lines)) /\ Len(old) = m /\ \A k \in 1 .. m : old[k] = set[k]
    BY <1>2, CutIs
  <2>2. \A k \in 1 .. m : k \in 1 .. Len(set)
    BY <1>2
  <2>3. QED
    BY <2>1, <2>2, LenProperties, ElementOfSeq
<1>5. /\ rest \in Seq(Node(Lines)) /\ Len(rest) = m
      /\ \A k \in 1 .. m : /\ rest[k].line = set[k].line
                           /\ set[k].line \notin gone => rest[k] = set[k]
  <2> HIDE DEF old
  <2>1. rest = [k \in 1 .. m |-> [old[k] EXCEPT !.mapped = @ /\ old[k].line \notin gone]]
    BY <1>4, Zenon DEF Unmap
  <2>2. ASSUME NEW k \in 1 .. m
        PROVE  /\ rest[k] \in Node(Lines) /\ rest[k].line = set[k].line
               /\ set[k].line \notin gone => rest[k] = set[k]
    <3>1. rest[k] = [set[k] EXCEPT !.mapped = @ /\ set[k].line \notin gone]
      BY <1>4, <2>1
    <3>2. set[k] \in Node(Lines)
      BY <1>4
    <3>3. QED
      BY <3>1, <3>2 DEF Node
  <2>3. rest \in [1 .. m -> Node(Lines)]
    BY <2>1, <2>2
  <2> HIDE DEF rest
  <2>4. rest \in Seq(Node(Lines)) /\ Len(rest) = m
    <3>1. m \in Nat
      BY <1>2
    <3>2. QED
      BY <3>1, <2>3, FunctionIsSeq
  <2>5. QED
    BY <2>2, <2>4
<1>6. node \in Node(Lines) /\ node.line = line /\ node.mapped
  BY DEF Node
<1> HIDE DEF rest, node
<1>7. /\ new \in Seq(Node(Lines)) /\ Len(new) = m + 1 /\ new[1] = node
      /\ \A k \in 2 .. m + 1 : k - 1 \in 1 .. m /\ new[k] = rest[k - 1]
  <2>1. /\ new \in Seq(Node(Lines)) /\ Len(new) = Len(rest) + 1 /\ new[1] = node
        /\ \A k \in 2 .. Len(rest) + 1 : k - 1 \in 1 .. Len(rest) /\ new[k] = rest[k - 1]
    BY <1>5, <1>6, ConsIs
  <2>2. QED
    BY <2>1, <1>5
<1> HIDE DEF new
<1>8. DOMAIN new = 1 .. m + 1
  BY <1>7, LenProperties
<1>9. ASSUME Unique(set), line \notin LinesOf(set)
      PROVE  Unique(new) /\ LinesOf(new) \subseteq LinesOf(set) \cup {line}
  <2>1. ASSUME NEW k \in 1 .. m + 1, k # 1
        PROVE  k - 1 \in DOMAIN set /\ new[k] = set[k - 1]
    <3>1. k \in 2 .. m + 1
      BY <2>1, <1>2
    <3>2. k - 1 \in 1 .. m /\ new[k] = rest[k - 1]
      BY <3>1, <1>7
    <3>3. rest[k - 1] = set[k - 1]
      BY <3>2, <1>3, <1>5, <1>9
    <3>4. QED
      BY <3>2, <3>3, <1>2
  <2>2. ASSUME NEW k \in 1 .. m + 1, k # 1
        PROVE  new[k].mapped /\ new[k].line # line /\ new[k].line \in LinesOf(set)
    BY <2>1, <2>2, <1>9 DEF Unique, LinesOf
  <2>3. ASSUME NEW i \in 1 .. m + 1, NEW j \in 1 .. m + 1
        PROVE  new[i].mapped /\ (new[i].line = new[j].line => i = j)
    <3>1. CASE i = 1 \/ j = 1
      BY <3>1, <2>2, <1>6, <1>7
    <3>2. CASE i # 1 /\ j # 1
      <4>1. /\ i - 1 \in DOMAIN set /\ new[i] = set[i - 1]
            /\ j - 1 \in DOMAIN set /\ new[j] = set[j - 1]
        BY <2>1, <3>2
      <4>2. set[i - 1].line = set[j - 1].line => i - 1 = j - 1
        BY <4>1, <1>9 DEF Unique
      <4>3. i - 1 = j - 1 => i = j
        OBVIOUS
      <4>4. QED
        BY <4>1, <4>2, <4>3, <2>2, <3>2
    <3>3. QED
      BY <3>1, <3>2
  <2>4. \A x \in LinesOf(new) : x \in LinesOf(set) \cup {line}
    <3>1. ASSUME NEW k \in 1 .. m + 1 PROVE new[k].line \in LinesOf(set) \cup {line}
      BY <2>2, <1>6, <1>7
    <3>2. QED
      BY <3>1, <1>8 DEF LinesOf
  <2>5. QED
    BY <2>3, <2>4, <1>8 DEF Unique
<1>10. QED
  BY <1>1, <1>7, <1>9

-----------------------------------------------------------------------------
(* One cache: process.                                                     *)

(* For how much of the line x level l has an MSHR, and the balance of what  *)
(* it has asked for: N[x] is what is on its way otherwise.                  *)
Owes(c, x) == IF x \in missing(c) THEN 1 ELSE 0
Tracks(l, c, N) ==
  \A x \in Lines : Count(c.out, Misses(l, x)) + N[x] = Owes(c, x)

LEMMA Fields ==
  ASSUME NEW l, NEW kinds, NEW c \in CacheOf(l, kinds)
  PROVE  /\ c.set \in Seq(Node(Lines))
         /\ c.in \in Seq(Trans(kinds)) /\ c.out \in Seq(Trans(kinds))
         /\ c.resp \in Seq(Trans(kinds \ {"evict"})) /\ c.back \in Seq(Trans(kinds \ {"evict"}))
         /\ c.stalled \in Seq(Asked(l, kinds)) /\ c.mshr \in Mshrs(Asked(l, kinds))
         /\ c.pq \in Seq(Entry(Trans(kinds)))
         /\ c.evicts \in Seq(Victim)
         /\ c.loads \in Int /\ c.stores \in Int
<1>1. QED
  BY DEF CacheOf

LEMMA KeptIs ==
  ASSUME NEW l, NEW kinds, NEW c \in CacheOf(l, kinds), NEW S
  PROVE  /\ Count(c.in, S) \in Nat /\ Count(c.pq, Entry(S)) \in Nat
         /\ Count(c.stalled, S) \in Nat /\ CountWaiting(c.mshr, S) \in Nat /\ Count(c.back, S) \in Nat
         /\ CountKept(c, S) = Count(c.in, S) + Count(c.pq, Entry(S)) + Count(c.stalled, S)
                                + CountWaiting(c.mshr, S) + Count(c.back, S)
         /\ CountKept(c, S) \in Nat
<1>1. Count(c.in, S) \in Nat
  BY Fields, CountIs
<1>2. Count(c.pq, Entry(S)) \in Nat
  BY Fields, CountIs
<1>3. Count(c.stalled, S) \in Nat
  BY Fields, CountIs
<1>4. CountWaiting(c.mshr, S) \in Nat
  BY Fields, WaitersAre
<1>5. Count(c.back, S) \in Nat
  BY Fields, CountIs
<1>6. QED
  BY <1>1, <1>2, <1>3, <1>4, <1>5 DEF CountKept

LEMMA AskedIs ==
  ASSUME NEW l \in Levels, NEW kinds, NEW t \in Asked(l, kinds)
  PROVE  /\ t.line \in Lines /\ t \in Trans(kinds) /\ t \in Trans(kinds \ {"evict"})
         /\ \A x : t \in Misses(l, x) <=> x = t.line
<1>1. QED
  BY DEF Asked, Trans, Misses, MissKinds

(* One more waits for a line.                                              *)
Joined(m, c, t) == m = [c.mshr EXCEPT ![t.line] = Append(c.mshr[t.line], t)]

LEMMA JoinIs ==
  ASSUME NEW l \in Levels, NEW kinds, NEW c \in CacheOf(l, kinds), NEW t \in Asked(l, kinds),
         NEW m, Joined(m, c, t)
  PROVE  /\ m \in Mshrs(Asked(l, kinds))
         /\ {x \in Lines : m[x] # <<>>} = missing(c) \cup {t.line}
         /\ \A S : CountWaiting(m, S) = CountWaiting(c.mshr, S) + (IF t \in S THEN 1 ELSE 0)
<1> USE DEF Joined
<1>1. c.mshr \in Mshrs(Asked(l, kinds)) /\ t.line \in Lines
  BY Fields, AskedIs
<1>2. c.mshr[t.line] \in Seq(Asked(l, kinds))
  BY <1>1 DEF Mshrs
<1>3. /\ Append(c.mshr[t.line], t) \in Seq(Asked(l, kinds))
      /\ Append(c.mshr[t.line], t) # <<>>
  BY <1>2, AppendProperties
<1>4. m \in Mshrs(Asked(l, kinds))
  BY <1>1, <1>3 DEF Mshrs
<1>5. /\ m[t.line] = Append(c.mshr[t.line], t) /\ m[t.line] # <<>>
      /\ AgreeElsewhere(m, c.mshr, t.line)
  BY <1>1, <1>3 DEF Mshrs, AgreeElsewhere
<1>6. {x \in Lines : m[x] # <<>>} = missing(c) \cup {t.line}
  BY <1>1, <1>5 DEF missing, AgreeElsewhere
<1>7. ASSUME NEW S
      PROVE  CountWaiting(m, S) = CountWaiting(c.mshr, S) + (IF t \in S THEN 1 ELSE 0)
  BY <1>1, <1>4, <1>5, WaitersJoin, SMTT(30)
<1>8. QED
  BY <1>4, <1>6, <1>7

LEMMA EnterIs ==
  ASSUME NEW l \in Levels, NEW kinds, NEW c \in CacheOf(l, kinds), NEW t \in Asked(l, kinds),
         NEW d, d = enterMSHR(c, l, t)
  PROVE  /\ d \in CacheOf(l, kinds)
         /\ d.set = c.set /\ d.resp = c.resp /\ d.pq = c.pq
         /\ \A S : CountKept(d, S) = CountKept(c, S) + (IF t \in S THEN 1 ELSE 0)
         /\ \A N \in [Lines -> Nat] : Tracks(l, c, N) => Tracks(l, d, N)
         /\ \/ d.stalled = c.stalled /\ missing(d) = missing(c) \cup {t.line}
               /\ (t.line \in missing(c) \/ ~(Cardinality(missing(c)) >= MshrSize[l]))
            \/ d.stalled = Append(c.stalled, t) /\ missing(d) = missing(c)
               /\ t.line \notin missing(c) /\ Cardinality(missing(c)) >= MshrSize[l]
<1> DEFINE m == [c.mshr EXCEPT ![t.line] = Append(c.mshr[t.line], t)]
<1>1. /\ t.line \in Lines /\ t \in Trans(kinds)
      /\ \A x : t \in Misses(l, x) <=> x = t.line
  BY AskedIs
<1>2. /\ m \in Mshrs(Asked(l, kinds))
      /\ {x \in Lines : m[x] # <<>>} = missing(c) \cup {t.line}
      /\ \A S : CountWaiting(m, S) = CountWaiting(c.mshr, S) + (IF t \in S THEN 1 ELSE 0)
  <2>1. Joined(m, c, t)
    BY DEF Joined
  <2> HIDE DEF m
  <2>2. QED
    BY <2>1, JoinIs
<1>3. /\ c.set \in Seq(Node(Lines)) /\ c.out \in Seq(Trans(kinds))
      /\ c.stalled \in Seq(Asked(l, kinds)) /\ c.mshr \in Mshrs(Asked(l, kinds))
  BY Fields
<1>4. Append(c.out, t) \in Seq(Trans(kinds)) /\ Append(c.stalled, t) \in Seq(Asked(l, kinds))
  BY <1>1, <1>3, AppendProperties
<1>5. \A S : /\ Count(c.in, S) \in Nat /\ Count(c.pq, Entry(S)) \in Nat
             /\ Count(c.stalled, S) \in Nat /\ CountWaiting(c.mshr, S) \in Nat /\ Count(c.back, S) \in Nat
  BY KeptIs
<1>6. \A S : Count(c.out, S) \in Nat /\ Count(Append(c.out, t), S) = Count(c.out, S) + (IF t \in S THEN 1 ELSE 0)
  BY <1>1, <1>3, CountIs, CountAppend, ZenonT(40)
<1>7. CASE t.line \in missing(c)
  <2>1. d = [c EXCEPT !.mshr = m]
    BY <1>7 DEF enterMSHR
  <2> HIDE DEF m
  <2>2. /\ d \in CacheOf(l, kinds) /\ d.mshr = m
        /\ d.set = c.set /\ d.resp = c.resp /\ d.pq = c.pq /\ d.in = c.in
        /\ d.stalled = c.stalled /\ d.back = c.back /\ d.out = c.out
    BY <1>2, <2>1 DEF CacheOf
  <2>3. missing(d) = missing(c) \cup {t.line}
    BY <1>2, <2>2, Zenon DEF missing
  <2>4. missing(d) = missing(c)
    BY <2>3, <1>7
  <2>5. ASSUME NEW S PROVE CountKept(d, S) = CountKept(c, S) + (IF t \in S THEN 1 ELSE 0)
    <3>1. CountWaiting(d.mshr, S) = CountWaiting(c.mshr, S) + (IF t \in S THEN 1 ELSE 0)
      BY <1>2, <2>2
    <3>2. /\ Count(c.in, S) \in Nat /\ Count(c.pq, Entry(S)) \in Nat
          /\ Count(c.stalled, S) \in Nat /\ CountWaiting(c.mshr, S) \in Nat /\ Count(c.back, S) \in Nat
      BY <1>5
    <3>3. QED
      BY <2>2, <3>1, <3>2 DEF CountKept
  <2>6. \A N \in [Lines -> Nat] : Tracks(l, c, N) => Tracks(l, d, N)
    BY <2>2, <2>4, Zenon DEF Tracks, Owes
  <2>7. QED
    BY <1>7, <2>2, <2>3, <2>5, <2>6
<1>8. CASE t.line \notin missing(c) /\ Cardinality(missing(c)) >= MshrSize[l]
  <2>1. d = [c EXCEPT !.stalled = Append(c.stalled, t)]
    BY <1>8 DEF enterMSHR
  <2>2. /\ d \in CacheOf(l, kinds) /\ d.mshr = c.mshr
        /\ d.set = c.set /\ d.resp = c.resp /\ d.pq = c.pq /\ d.in = c.in
        /\ d.stalled = Append(c.stalled, t) /\ d.back = c.back /\ d.out = c.out
    BY <1>4, <2>1 DEF CacheOf
  <2>3. missing(d) = missing(c)
    BY <2>2, Zenon DEF missing
  <2>4. ASSUME NEW S PROVE CountKept(d, S) = CountKept(c, S) + (IF t \in S THEN 1 ELSE 0)
    <3>1. Count(Append(c.stalled, t), S) = Count(c.stalled, S) + (IF t \in S THEN 1 ELSE 0)
      BY <1>3, CountAppend
    <3>2. /\ Count(c.in, S) \in Nat /\ Count(c.pq, Entry(S)) \in Nat
          /\ Count(c.stalled, S) \in Nat /\ CountWaiting(c.mshr, S) \in Nat /\ Count(c.back, S) \in Nat
      BY <1>5
    <3>3. QED
      BY <2>2, <3>1, <3>2 DEF CountKept
  <2>5. \A N \in [Lines -> Nat] : Tracks(l, c, N) => Tracks(l, d, N)
    BY <2>2, <2>3, Zenon DEF Tracks, Owes
  <2>6. QED
    BY <1>8, <2>2, <2>3, <2>4, <2>5
<1>9. CASE t.line \notin missing(c) /\ ~(Cardinality(missing(c)) >= MshrSize[l])
  <2>1. c.mshr[t.line] = <<>>
    BY <1>1, <1>9 DEF missing
  <2>2. <<t>> = Append(c.mshr[t.line], t)
    BY <2>1
  <2>3. d = [c EXCEPT !.mshr = m, !.out = Append(c.out, t)]
    BY <1>9, <2>2 DEF enterMSHR
  <2> HIDE DEF m
  <2>4. /\ d \in CacheOf(l, kinds) /\ d.mshr = m
        /\ d.set = c.set /\ d.resp = c.resp /\ d.pq = c.pq /\ d.in = c.in
        /\ d.stalled = c.stalled /\ d.back = c.back /\ d.out = Append(c.out, t)
    BY <1>2, <1>4, <2>3 DEF CacheOf
  <2>5. missing(d) = missing(c) \cup {t.line}
    BY <1>2, <2>4, Zenon DEF missing
  <2>6. ASSUME NEW S PROVE CountKept(d, S) = CountKept(c, S) + (IF t \in S THEN 1 ELSE 0)
    <3>1. CountWaiting(d.mshr, S) = CountWaiting(c.mshr, S) + (IF t \in S THEN 1 ELSE 0)
      BY <1>2, <2>4
    <3>2. /\ Count(c.in, S) \in Nat /\ Count(c.pq, Entry(S)) \in Nat
          /\ Count(c.stalled, S) \in Nat /\ CountWaiting(c.mshr, S) \in Nat /\ Count(c.back, S) \in Nat
      BY <1>5
    <3>3. QED
      BY <2>4, <3>1, <3>2 DEF CountKept
  <2>7. ASSUME NEW N \in [Lines -> Nat], Tracks(l, c, N) PROVE Tracks(l, d, N)
    <3>1. ASSUME NEW x \in Lines PROVE Count(d.out, Misses(l, x)) + N[x] = Owes(d, x)
      <4>1. Count(c.out, Misses(l, x)) + N[x] = Owes(c, x) /\ N[x] \in Nat
        BY <2>7 DEF Tracks
      <4>2. Count(d.out, Misses(l, x)) = Count(c.out, Misses(l, x)) + (IF x = t.line THEN 1 ELSE 0)
        BY <1>1, <1>6, <2>4
      <4>3. Count(c.out, Misses(l, x)) \in Nat
        BY <1>6
      <4>4. Owes(d, x) = Owes(c, x) + (IF x = t.line THEN 1 ELSE 0)
        BY <1>9, <2>5 DEF Owes
      <4>5. QED
        BY <4>1, <4>2, <4>3, <4>4 DEF Owes
    <3>2. QED
      BY <3>1 DEF Tracks
  <2>8. QED
    BY <1>9, <2>4, <2>5, <2>6, <2>7
<1>10. QED
  BY <1>7, <1>8, <1>9

(* While process runs, something is stalled only if all MSHRs are in use.  *)
Proceeds(l, c) ==
  Clean(c) /\ (c.stalled # <<>> => Cardinality(missing(c)) >= MshrSize[l])

LEMMA EnterProceeds ==
  ASSUME NEW l \in Levels, NEW kinds, NEW c \in CacheOf(l, kinds), NEW t \in Asked(l, kinds),
         NEW d, d = enterMSHR(c, l, t), Proceeds(l, c), t.line \notin LinesOf(c.set)
  PROVE  Proceeds(l, d)
<1>1. c.stalled \in Seq(Asked(l, kinds))
  BY Fields
<1>2. d.set = c.set
  BY EnterIs
<1>3. CASE /\ d.stalled = c.stalled /\ missing(d) = missing(c) \cup {t.line}
           /\ t.line \in missing(c) \/ ~(Cardinality(missing(c)) >= MshrSize[l])
  <2>1. CASE t.line \in missing(c)
    <3>1. missing(d) = missing(c)
      BY <1>3, <2>1
    <3>2. QED
      BY <1>2, <1>3, <3>1, Zenon DEF Proceeds, Clean
  <2>2. CASE ~(Cardinality(missing(c)) >= MshrSize[l])
    <3>1. d.stalled = <<>> /\ DOMAIN <<>> = {}
      BY <1>3, <2>2 DEF Proceeds
    <3>2. Unique(c.set) /\ missing(c) \cap LinesOf(c.set) = {}
      BY DEF Proceeds, Clean
    <3>3. missing(d) \cap LinesOf(d.set) = {}
      BY <1>2, <1>3, <3>2
    <3>4. QED
      BY <1>2, <3>1, <3>2, <3>3 DEF Proceeds, Clean
  <2>3. QED
    BY <1>3, <2>1, <2>2
<1>4. CASE /\ d.stalled = Append(c.stalled, t) /\ missing(d) = missing(c)
           /\ t.line \notin missing(c) /\ Cardinality(missing(c)) >= MshrSize[l]
  <2>1. /\ d.stalled \in Seq(Asked(l, kinds)) /\ Len(c.stalled) \in Nat
        /\ Len(d.stalled) = Len(c.stalled) + 1 /\ d.stalled[Len(c.stalled) + 1] = t
        /\ \A i \in 1 .. Len(c.stalled) : d.stalled[i] = c.stalled[i]
    BY <1>1, <1>4, AppendIs
  <2>2. DOMAIN c.stalled = 1 .. Len(c.stalled) /\ DOMAIN d.stalled = 1 .. Len(c.stalled) + 1
    BY <1>1, <2>1, LenProperties
  <2>3. ASSUME NEW i \in DOMAIN d.stalled
        PROVE  d.stalled[i].line \notin missing(c) \cup LinesOf(c.set)
    <3>1. i \in 1 .. Len(c.stalled) \/ i = Len(c.stalled) + 1
      BY <2>1, <2>2
    <3>2. CASE i = Len(c.stalled) + 1
      BY <3>2, <1>4, <2>1
    <3>3. CASE i \in 1 .. Len(c.stalled)
      BY <3>3, <2>1, <2>2 DEF Proceeds, Clean
    <3>4. QED
      BY <3>1, <3>2, <3>3
  <2>4. QED
    BY <1>2, <1>4, <2>3, Zenon DEF Proceeds, Clean
<1>5. QED
  BY <1>3, <1>4, EnterIs

LEMMA AccessIs ==
  ASSUME NEW l \in Levels, NEW kinds \in SUBSET Kinds, NEW c \in CacheOf(l, kinds),
         NEW t \in Trans(kinds), NEW d, d = Access(c, l, t)
  PROVE  /\ d \in CacheOf(l, kinds)
         /\ d.resp = c.resp /\ d.pq = c.pq
         /\ \A S \in SUBSET Trans(MissKinds(l)) :
              CountKept(d, S) = CountKept(c, S) + (IF t \in S THEN 1 ELSE 0)
         /\ \A N \in [Lines -> Nat] : Tracks(l, c, N) => Tracks(l, d, N)
         /\ Proceeds(l, c) /\ (l = "l1" => "prefetch" \notin kinds) => Proceeds(l, d)
<1>1. /\ c.set \in Seq(Node(Lines)) /\ c.out \in Seq(Trans(kinds))
      /\ c.back \in Seq(Trans(kinds \ {"evict"}))
  BY Fields
<1>2. t.line \in Lines /\ t.kind \in kinds /\ isLoad(t) \in BOOLEAN
  BY DEF Trans, isLoad
<1>3. \A S : /\ Count(c.in, S) \in Nat /\ Count(c.pq, Entry(S)) \in Nat
             /\ Count(c.stalled, S) \in Nat /\ CountWaiting(c.mshr, S) \in Nat /\ Count(c.back, S) \in Nat
  BY KeptIs
<1>4. ASSUME NEW S \in SUBSET Trans(MissKinds(l)), t \in S
      PROVE  t.kind # "evict" /\ ~(l = "l1" /\ t.kind = "prefetch")
  BY <1>4 DEF Trans, MissKinds
<1>5. CASE present(c.set, t.line)
  <2> DEFINE set == access(c.set, t.line, isLoad(t))
             back == IF isEvict(t) THEN c.back ELSE Append(c.back, t)
  <2>1. /\ set \in Seq(Node(Lines))
        /\ Unique(c.set) => Unique(set) /\ LinesOf(set) = LinesOf(c.set)
    BY <1>1, <1>2, <1>5, AccessSet
  <2>2. back \in Seq(Trans(kinds \ {"evict"}))
    <3>1. ~isEvict(t) => t \in Trans(kinds \ {"evict"})
      BY DEF isEvict, Trans
    <3>2. QED
      BY <1>1, <3>1, AppendProperties
  <2>3. d = [c EXCEPT !.set = set, !.back = back]
    BY <1>5, Zenon DEF Access
  <2> HIDE DEF set, back
  <2>4. /\ d \in CacheOf(l, kinds) /\ d.set = set /\ d.back = back
        /\ d.mshr = c.mshr /\ d.resp = c.resp /\ d.pq = c.pq /\ d.in = c.in
        /\ d.stalled = c.stalled /\ d.out = c.out
    BY <2>1, <2>2, <2>3 DEF CacheOf
  <2>5. missing(d) = missing(c)
    BY <2>4, Zenon DEF missing
  <2>6. ASSUME NEW S \in SUBSET Trans(MissKinds(l))
        PROVE  CountKept(d, S) = CountKept(c, S) + (IF t \in S THEN 1 ELSE 0)
    <3>1. Count(d.back, S) = Count(c.back, S) + (IF t \in S THEN 1 ELSE 0)
      <4>1. CASE isEvict(t)
        <5>1. t \notin S /\ d.back = c.back
          BY <1>4, <2>4, <4>1 DEF isEvict, back
        <5>2. QED
          BY <5>1, <1>3
      <4>2. CASE ~isEvict(t)
        <5>1. t \in Trans(kinds \ {"evict"}) /\ d.back = Append(c.back, t)
          BY <2>4, <4>2 DEF isEvict, Trans, back
        <5>2. QED
          BY <5>1, <1>1, CountAppend
      <4>3. QED
        BY <4>1, <4>2
    <3>2. /\ Count(c.in, S) \in Nat /\ Count(c.pq, Entry(S)) \in Nat
          /\ Count(c.stalled, S) \in Nat /\ CountWaiting(c.mshr, S) \in Nat /\ Count(c.back, S) \in Nat
      BY <1>3
    <3>3. QED
      BY <2>4, <3>1, <3>2 DEF CountKept
  <2>7. \A N \in [Lines -> Nat] : Tracks(l, c, N) => Tracks(l, d, N)
    BY <2>4, <2>5, Zenon DEF Tracks, Owes
  <2>8. Proceeds(l, c) => Proceeds(l, d)
    <3>1. Proceeds(l, c) => Unique(set) /\ LinesOf(set) = LinesOf(c.set)
      BY <2>1 DEF Proceeds, Clean
    <3>2. QED
      BY <2>4, <2>5, <3>1, Zenon DEF Proceeds, Clean
  <2>9. QED
    BY <2>4, <2>6, <2>7, <2>8
<1>6. CASE ~present(c.set, t.line) /\ isEvict(t)
  <2>1. d = c
    BY <1>6 DEF Access
  <2>2. ASSUME NEW S \in SUBSET Trans(MissKinds(l)) PROVE CountKept(c, S) = CountKept(c, S) + 0 /\ t \notin S
    <3>1. CountKept(c, S) \in Nat
      BY KeptIs
    <3>2. QED
      BY <3>1, <1>4, <1>6 DEF isEvict
  <2>3. QED
    BY <2>1, <2>2
<1>7. CASE ~present(c.set, t.line) /\ ~isEvict(t) /\ l = "l1" /\ t.kind = "prefetch"
  <2>1. d = [c EXCEPT !.out = Append(c.out, t)]
    BY <1>7 DEF Access
  <2>2. Append(c.out, t) \in Seq(Trans(kinds))
    BY <1>1, AppendProperties
  <2>3. /\ d \in CacheOf(l, kinds) /\ d.set = c.set /\ d.back = c.back
        /\ d.mshr = c.mshr /\ d.resp = c.resp /\ d.pq = c.pq /\ d.in = c.in
        /\ d.stalled = c.stalled /\ d.out = Append(c.out, t)
    BY <2>1, <2>2 DEF CacheOf
  <2>4. missing(d) = missing(c)
    BY <2>3, Zenon DEF missing
  <2>5. ASSUME NEW S \in SUBSET Trans(MissKinds(l))
        PROVE  CountKept(d, S) = CountKept(c, S) + (IF t \in S THEN 1 ELSE 0)
    <3>1. t \notin S /\ CountKept(c, S) \in Nat
      BY <1>4, <1>7, KeptIs
    <3>2. CountKept(d, S) = CountKept(c, S)
      BY <2>3, Zenon DEF CountKept
    <3>3. QED
      BY <3>1, <3>2
  <2>6. ASSUME NEW N \in [Lines -> Nat], Tracks(l, c, N) PROVE Tracks(l, d, N)
    <3>1. ASSUME NEW x \in Lines PROVE Count(d.out, Misses(l, x)) = Count(c.out, Misses(l, x))
      <4>1. t \notin Misses(l, x)
        BY <1>7 DEF Misses, MissKinds
      <4>2. Count(d.out, Misses(l, x)) = Count(c.out, Misses(l, x)) + 0
        BY <4>1, <2>3, <1>1, CountAppend
      <4>3. Count(c.out, Misses(l, x)) \in Nat
        BY <1>1, CountIs
      <4>4. QED
        BY <4>2, <4>3
    <3>2. QED
      BY <2>6, <3>1, <2>4 DEF Tracks, Owes
  <2>7. l = "l1" /\ "prefetch" \in kinds
    BY <1>2, <1>7
  <2>8. QED
    BY <2>3, <2>5, <2>6, <2>7
<1>8. CASE ~present(c.set, t.line) /\ ~isEvict(t) /\ ~(l = "l1" /\ t.kind = "prefetch")
  <2>1. d = enterMSHR(c, l, t)
    BY <1>8, Zenon DEF Access
  <2>2. t \in Asked(l, kinds)
    BY <1>2, <1>8 DEF Asked, Trans, MissKinds, isEvict, Kinds
  <2>3. /\ d \in CacheOf(l, kinds) /\ d.resp = c.resp /\ d.pq = c.pq
        /\ \A S : CountKept(d, S) = CountKept(c, S) + (IF t \in S THEN 1 ELSE 0)
        /\ \A N \in [Lines -> Nat] : Tracks(l, c, N) => Tracks(l, d, N)
    BY <2>1, <2>2, EnterIs
  <2>4. ASSUME Proceeds(l, c) PROVE Proceeds(l, d)
    <3>1. t.line \notin LinesOf(c.set)
      BY <1>8, <2>4 DEF Proceeds, Clean, Unique, LinesOf, present, Finds
    <3>2. QED
      BY <2>1, <2>2, <2>4, <3>1, EnterProceeds
  <2>5. QED
    BY <2>3, <2>4
<1>9. QED
  BY <1>5, <1>6, <1>7, <1>8

(* The loops over the stalled transactions and over those that are due.    *)
LEMMA RetryIs ==
  ASSUME NEW l \in Levels, NEW kinds, NEW c \in CacheOf(l, kinds),
         NEW d, d = EnterAll([c EXCEPT !.stalled = <<>>], l, c.stalled)
  PROVE  /\ d \in CacheOf(l, kinds)
         /\ d.resp = c.resp /\ d.pq = c.pq
         /\ \A S : CountKept(d, S) = CountKept(c, S)
         /\ \A N \in [Lines -> Nat] : Tracks(l, c, N) => Tracks(l, d, N)
         /\ Clean(c) => Proceeds(l, d)
<1> DEFINE s == c.stalled
           n == Len(s)
           T == CacheOf(l, kinds)
           base == [c EXCEPT !.stalled = <<>>]
           R(x, k) == /\ x.set = c.set /\ x.resp = c.resp /\ x.pq = c.pq
                      /\ \A S : CountKept(x, S) + Left(s, k, S) = CountKept(c, S)
                      /\ \A N \in [Lines -> Nat] : Tracks(l, c, N) => Tracks(l, x, N)
                      /\ Clean(c) => Proceeds(l, x)
           P == [k \in 0 .. n |-> {x \in T : R(x, k)}]
<1>1. s \in Seq(Asked(l, kinds)) /\ c.mshr \in Mshrs(Asked(l, kinds))
  BY Fields
<1>2. n \in Nat /\ DOMAIN s = 1 .. n /\ \A k \in 1 .. n : s[k] \in Asked(l, kinds)
  BY <1>1, LenProperties, ElementOfSeq
<1>3. ASSUME NEW S
      PROVE  /\ Left(s, 0, S) = Count(s, S) /\ Left(s, n, S) = 0
             /\ \A k \in 0 .. n : Left(s, k, S) \in Nat
             /\ \A k \in 1 .. n : Left(s, k - 1, S) = Left(s, k, S) + (IF s[k] \in S THEN 1 ELSE 0)
  <2> HIDE DEF s
  <2>1. QED
    BY <1>1, LeftIs
<1>4. base \in T /\ R(base, 0)
  <2>1. <<>> \in Seq(Asked(l, kinds)) /\ DOMAIN <<>> = {}
    OBVIOUS
  <2>2. /\ base \in T /\ base.stalled = <<>>
        /\ base.set = c.set /\ base.resp = c.resp /\ base.pq = c.pq /\ base.in = c.in
        /\ base.mshr = c.mshr /\ base.out = c.out /\ base.back = c.back
    BY <2>1 DEF CacheOf
  <2> HIDE DEF base
  <2>3. missing(base) = missing(c)
    BY <2>2, Zenon DEF missing
  <2>4. ASSUME NEW S PROVE CountKept(base, S) + Left(s, 0, S) = CountKept(c, S)
    <3>1. /\ Count(c.in, S) \in Nat /\ Count(c.pq, Entry(S)) \in Nat
          /\ Count(c.stalled, S) \in Nat /\ CountWaiting(c.mshr, S) \in Nat /\ Count(c.back, S) \in Nat
      BY KeptIs
    <3>2. Count(base.stalled, S) = 0 /\ Left(s, 0, S) = Count(c.stalled, S)
      BY <1>3, <2>2, CountEmpty
    <3>3. QED
      BY <2>2, <3>1, <3>2 DEF CountKept
  <2>5. \A N \in [Lines -> Nat] : Tracks(l, c, N) => Tracks(l, base, N)
    BY <2>2, <2>3, Zenon DEF Tracks, Owes
  <2>6. Clean(c) => Proceeds(l, base)
    BY <2>1, <2>2, <2>3, Zenon DEF Proceeds, Clean
  <2>7. QED
    BY <2>2, <2>4, <2>5, <2>6
<1>5. ASSUME NEW k \in 1 .. n, NEW r \in T
      PROVE  /\ enterMSHR(r, l, s[k]) \in T
             /\ R(r, k - 1) => R(enterMSHR(r, l, s[k]), k)
  <2> DEFINE x == enterMSHR(r, l, s[k])
  <2>1. /\ x \in T /\ x.set = r.set /\ x.resp = r.resp /\ x.pq = r.pq
        /\ \A S : CountKept(x, S) = CountKept(r, S) + (IF s[k] \in S THEN 1 ELSE 0)
        /\ \A N \in [Lines -> Nat] : Tracks(l, r, N) => Tracks(l, x, N)
    BY <1>2, EnterIs
  <2> HIDE DEF x
  <2>2. ASSUME R(r, k - 1) PROVE R(x, k)
    <3>1. ASSUME NEW S PROVE CountKept(x, S) + Left(s, k, S) = CountKept(c, S)
      <4>1. CountKept(r, S) + Left(s, k - 1, S) = CountKept(c, S)
        BY <2>2
      <4>2. CountKept(r, S) \in Nat
        BY KeptIs
      <4>3. /\ Left(s, k - 1, S) = Left(s, k, S) + (IF s[k] \in S THEN 1 ELSE 0)
            /\ Left(s, k, S) \in Nat
        <5>1. k \in 0 .. n
          BY <1>2
        <5>2. QED
          BY <1>3, <5>1
      <4>4. CountKept(x, S) = CountKept(r, S) + (IF s[k] \in S THEN 1 ELSE 0)
        BY <2>1
      <4>5. QED
        BY <4>1, <4>2, <4>3, <4>4
    <3>2. ASSUME Clean(c) PROVE Proceeds(l, x)
      <4>1. Proceeds(l, r) /\ r.set = c.set
        BY <2>2, <3>2
      <4>2. s[k].line \notin LinesOf(r.set)
        BY <1>2, <3>2, <4>1 DEF Clean
      <4>3. QED
        BY <1>2, <4>1, <4>2, EnterProceeds DEF x
    <3>3. \A N \in [Lines -> Nat] : Tracks(l, c, N) => Tracks(l, x, N)
      BY <2>1, <2>2
    <3>4. x.set = c.set /\ x.resp = c.resp /\ x.pq = c.pq
      BY <2>1, <2>2
    <3>5. QED
      BY <3>1, <3>2, <3>3, <3>4
  <2>3. QED
    BY <2>1, <2>2 DEF x
<1>6. d \in T /\ d \in P[n]
  <2> HIDE DEF R
  <2>1. \A k \in 1 .. n : k - 1 \in 0 .. n /\ k \in 0 .. n
    BY <1>2
  <2>2. base \in P[0]
    BY <1>2, <1>4
  <2>3. \A k \in 1 .. n, r \in T : enterMSHR(r, l, s[k]) \in T
    BY <1>5
  <2>4. \A k \in 1 .. n, r \in T : r \in P[k - 1] => enterMSHR(r, l, s[k]) \in P[k]
    BY <1>5, <2>1
  <2> HIDE DEF T, P, base
  <2>5. EnterAll(base, l, s) \in T /\ EnterAll(base, l, s) \in P[Len(s)]
    <3> HIDE DEF s
    <3>1. QED
      BY <1>2, <1>4, <2>2, <2>3, <2>4, EnterInduct
  <2>6. QED
    BY <2>5 DEF base
<1>7. R(d, n)
  <2> HIDE DEF R
  <2>1. n \in 0 .. n
    BY <1>2
  <2>2. QED
    BY <1>6, <2>1
<1>8. ASSUME NEW S PROVE CountKept(d, S) = CountKept(c, S)
  <2>1. CountKept(d, S) + Left(s, n, S) = CountKept(c, S) /\ Left(s, n, S) = 0
    BY <1>3, <1>7
  <2>2. CountKept(d, S) \in Nat
    BY <1>6, KeptIs
  <2>3. QED
    BY <2>1, <2>2
<1>9. QED
  BY <1>6, <1>7, <1>8

LEMMA AccessAllIs ==
  ASSUME NEW l \in Levels, NEW kinds \in SUBSET Kinds, NEW c \in CacheOf(l, kinds),
         NEW s \in Seq(Trans(kinds)), NEW d, d = AccessAll(c, l, s)
  PROVE  /\ d \in CacheOf(l, kinds)
         /\ d.resp = c.resp /\ d.pq = c.pq
         /\ \A S \in SUBSET Trans(MissKinds(l)) : CountKept(d, S) = CountKept(c, S) + Count(s, S)
         /\ \A N \in [Lines -> Nat] : Tracks(l, c, N) => Tracks(l, d, N)
         /\ Proceeds(l, c) /\ (l = "l1" => "prefetch" \notin kinds) => Proceeds(l, d)
<1> DEFINE n == Len(s)
           T == CacheOf(l, kinds)
           R(x, k) == /\ x.resp = c.resp /\ x.pq = c.pq
                      /\ \A S \in SUBSET Trans(MissKinds(l)) :
                           CountKept(x, S) + Left(s, k, S) = CountKept(c, S) + Count(s, S)
                      /\ \A N \in [Lines -> Nat] : Tracks(l, c, N) => Tracks(l, x, N)
                      /\ Proceeds(l, c) /\ (l = "l1" => "prefetch" \notin kinds) => Proceeds(l, x)
           P == [k \in 0 .. n |-> {x \in T : R(x, k)}]
<1>1. n \in Nat /\ DOMAIN s = 1 .. n /\ \A k \in 1 .. n : s[k] \in Trans(kinds)
  BY LenProperties, ElementOfSeq
<1>2. ASSUME NEW S
      PROVE  /\ Left(s, 0, S) = Count(s, S) /\ Left(s, n, S) = 0
             /\ \A k \in 0 .. n : Left(s, k, S) \in Nat
             /\ \A k \in 1 .. n : Left(s, k - 1, S) = Left(s, k, S) + (IF s[k] \in S THEN 1 ELSE 0)
  BY LeftIs
<1>3. R(c, 0)
  BY <1>2
<1>4. ASSUME NEW k \in 1 .. n, NEW r \in T
      PROVE  /\ Access(r, l, s[k]) \in T
             /\ R(r, k - 1) => R(Access(r, l, s[k]), k)
  <2> DEFINE x == Access(r, l, s[k])
  <2>1. /\ x \in T /\ x.resp = r.resp /\ x.pq = r.pq
        /\ \A S \in SUBSET Trans(MissKinds(l)) :
             CountKept(x, S) = CountKept(r, S) + (IF s[k] \in S THEN 1 ELSE 0)
        /\ \A N \in [Lines -> Nat] : Tracks(l, r, N) => Tracks(l, x, N)
        /\ Proceeds(l, r) /\ (l = "l1" => "prefetch" \notin kinds) => Proceeds(l, x)
    BY <1>1, AccessIs
  <2> HIDE DEF x
  <2>2. ASSUME R(r, k - 1) PROVE R(x, k)
    <3>1. ASSUME NEW S \in SUBSET Trans(MissKinds(l))
          PROVE  CountKept(x, S) + Left(s, k, S) = CountKept(c, S) + Count(s, S)
      <4>1. CountKept(r, S) + Left(s, k - 1, S) = CountKept(c, S) + Count(s, S)
        BY <2>2
      <4>2. CountKept(r, S) \in Nat /\ CountKept(c, S) \in Nat /\ Count(s, S) \in Nat
        BY KeptIs, CountIs
      <4>3. /\ Left(s, k - 1, S) = Left(s, k, S) + (IF s[k] \in S THEN 1 ELSE 0)
            /\ Left(s, k, S) \in Nat
        <5>1. k \in 0 .. n
          BY <1>1
        <5>2. QED
          BY <1>2, <5>1
      <4>4. CountKept(x, S) = CountKept(r, S) + (IF s[k] \in S THEN 1 ELSE 0)
        BY <2>1
      <4>5. QED
        BY <4>1, <4>2, <4>3, <4>4
    <3>2. \A N \in [Lines -> Nat] : Tracks(l, c, N) => Tracks(l, x, N)
      BY <2>1, <2>2
    <3>3. x.resp = c.resp /\ x.pq = c.pq
      BY <2>1, <2>2
    <3>4. Proceeds(l, c) /\ (l = "l1" => "prefetch" \notin kinds) => Proceeds(l, x)
      BY <2>1, <2>2
    <3>5. QED
      BY <3>1, <3>2, <3>3, <3>4
  <2>3. QED
    BY <2>1, <2>2 DEF x
<1>5. d \in T /\ d \in P[n]
  <2> HIDE DEF R
  <2>1. \A k \in 1 .. n : k - 1 \in 0 .. n /\ k \in 0 .. n
    BY <1>1
  <2>2. c \in P[0]
    BY <1>1, <1>3
  <2>3. \A k \in 1 .. n, r \in T : Access(r, l, s[k]) \in T
    BY <1>4
  <2>4. \A k \in 1 .. n, r \in T : r \in P[k - 1] => Access(r, l, s[k]) \in P[k]
    BY <1>4, <2>1
  <2>5. c \in T
    OBVIOUS
  <2> HIDE DEF T, P
  <2>6. AccessAll(c, l, s) \in T /\ AccessAll(c, l, s) \in P[Len(s)]
    BY <1>1, <2>2, <2>3, <2>4, <2>5, AccessInduct
  <2>7. QED
    BY <2>6
<1>6. R(d, n)
  <2> HIDE DEF R
  <2>1. n \in 0 .. n
    BY <1>1
  <2>2. QED
    BY <1>5, <2>1
<1>7. ASSUME NEW S \in SUBSET Trans(MissKinds(l)) PROVE CountKept(d, S) = CountKept(c, S) + Count(s, S)
  <2>1. CountKept(d, S) + Left(s, n, S) = CountKept(c, S) + Count(s, S) /\ Left(s, n, S) = 0
    BY <1>2, <1>6
  <2>2. CountKept(d, S) \in Nat
    BY <1>5, KeptIs
  <2>3. QED
    BY <2>1, <2>2
<1>8. QED
  BY <1>5, <1>6, <1>7

(* What is due is taken out of the queue, in some order.                   *)
Now(S) == [t : S, wait : {0}]

LEMMA DueIs ==
  ASSUME NEW E, NEW c, c.pq \in Seq(Entry(E)), NEW due \in Orders(c)
  PROVE  /\ due \in Seq(E)
         /\ \A S : Count(due, S) = Count(c.pq, Now(S))
<1> DEFINE D == Due(c)
           n == Cardinality(D)
           pq == c.pq
<1>1. PICK o \in SetToSeqs(D) : due = [k \in DOMAIN o |-> c.pq[o[k]].t]
  BY DEF Orders
<1>2. Len(pq) \in Nat /\ DOMAIN pq = 1 .. Len(pq) /\ \A i \in 1 .. Len(pq) : pq[i] \in Entry(E)
  <2> HIDE DEF pq
  <2>1. pq \in Seq(Entry(E))
    BY DEF pq
  <2>2. QED
    BY <2>1, LenProperties, ElementOfSeq
<1>3. IsFiniteSet(D) /\ n \in Nat /\ D = {i \in 1 .. Len(pq) : pq[i].wait = 0}
  <2>1. D = {i \in 1 .. Len(pq) : pq[i].wait = 0}
    BY <1>2 DEF Due
  <2>2. IsFiniteSet(1 .. Len(pq))
    BY <1>2, FS_Interval
  <2>3. IsFiniteSet(D)
    BY <2>1, <2>2, FS_Subset
  <2>4. QED
    BY <2>1, <2>3, FS_CardinalityType
<1>4. o \in [1 .. n -> D] /\ \A i, j \in 1 .. n : o[i] = o[j] => i = j
  BY DEF SetToSeqs
<1>5. due = [k \in 1 .. n |-> pq[o[k]].t]
  BY <1>1, <1>4
<1> HIDE DEF D, n, pq
<1>6. \A i \in D : \E k \in 1 .. n : o[k] = i
  <2>1. o \in Injection(1 .. n, D)
    BY <1>4 DEF Injection, IsInjective
  <2>2. Cardinality(1 .. n) = n
    BY <1>3, FS_Interval
  <2>3. o \in Surjection(1 .. n, D)
    BY <1>3, <2>1, <2>2, FS_Injection DEF n
  <2>4. QED
    BY <2>3 DEF Surjection
<1>7. due \in Seq(E) /\ Len(due) = n
  <2>1. due \in [1 .. n -> E]
    BY <1>2, <1>3, <1>4, <1>5 DEF Entry
  <2>2. QED
    BY <1>3, <2>1, FunctionIsSeq
<1>8. ASSUME NEW S PROVE Count(due, S) = Count(pq, Now(S))
  <2> DEFINE A == {k \in 1 .. Len(due) : due[k] \in S}
             B == {i \in 1 .. Len(pq) : pq[i] \in Now(S)}
             f == [k \in A |-> o[k]]
  <2>1. IsFiniteSet(A) /\ Count(due, S) = Cardinality(A)
    BY <1>7, CountIs
  <2>2. pq \in Seq(Entry(E))
    BY DEF pq
  <2>3. Count(pq, Now(S)) = Cardinality(B)
    BY <2>2, CountIs
  <2>4. ASSUME NEW k \in 1 .. n PROVE o[k] \in B <=> k \in A
    <3>1. o[k] \in 1 .. Len(pq) /\ pq[o[k]].wait = 0 /\ pq[o[k]] \in Entry(E)
      BY <1>2, <1>3, <1>4
    <3>2. pq[o[k]] \in Now(S) <=> pq[o[k]].t \in S
      BY <3>1 DEF Entry, Now
    <3>3. due[k] = pq[o[k]].t
      BY <1>5
    <3>4. QED
      BY <3>1, <3>2, <3>3, <1>7
  <2>5. \A i \in B : i \in D
    BY <1>3 DEF Now
  <2>6. A \subseteq 1 .. n
    BY <1>7
  <2> HIDE DEF A, B
  <2>7. f \in [A -> B] /\ (\A x, y \in A : f[x] = f[y] => x = y) /\ \A z \in B : \E x \in A : f[x] = z
    <3>1. f \in [A -> B]
      BY <2>4, <2>6
    <3>2. \A x, y \in A : f[x] = f[y] => x = y
      BY <1>4, <2>6
    <3>3. ASSUME NEW z \in B PROVE \E x \in A : f[x] = z
      <4>1. PICK k \in 1 .. n : o[k] = z
        BY <1>6, <2>5
      <4>2. k \in A
        BY <4>1, <2>4
      <4>3. QED
        BY <4>1, <4>2
    <3>4. QED
      BY <3>1, <3>2, <3>3
  <2> HIDE DEF f
  <2>8. QED
    BY <2>1, <2>3, <2>7, Matched
<1>9. QED
  BY <1>7, <1>8 DEF pq

LEMMA PoppedIs ==
  ASSUME NEW l, NEW kinds, NEW c \in CacheOf(l, kinds)
  PROVE  /\ Popped(c) \in CacheOf(l, kinds)
         /\ Popped(c).resp = c.resp
         /\ \A i \in DOMAIN Popped(c).pq : Popped(c).pq[i].wait > 0
         /\ \A S : CountKept(Popped(c), S) + Count(c.pq, Now(S)) = CountKept(c, S)
         /\ \A N : Tracks(l, c, N) => Tracks(l, Popped(c), N)
         /\ Proceeds(l, c) => Proceeds(l, Popped(c))
<1> DEFINE E == Entry(Trans(kinds))
           W == {e \in ToSet(c.pq) : e.wait > 0}
           pq == Keep(c.pq, W)
           d == Popped(c)
<1>1. c.pq \in Seq(E)
  BY Fields
<1>2. Len(c.pq) \in Nat /\ DOMAIN c.pq = 1 .. Len(c.pq) /\ \A i \in 1 .. Len(c.pq) : c.pq[i] \in E
  BY <1>1, LenProperties, ElementOfSeq
<1>3. pq \in Seq(E \cap W) /\ \A U : Count(pq, U) = Count(c.pq, U \cap W)
  <2> HIDE DEF E, W
  <2>1. QED
    BY <1>1, KeepIs
<1>4. pq \in Seq(E)
  <2> HIDE DEF pq, E
  <2>1. QED
    BY <1>3
<1>5. d = [c EXCEPT !.pq = pq]
  BY Zenon DEF Popped
<1>6. ASSUME NEW S
      PROVE  Count(pq, Entry(S)) + Count(c.pq, Now(S)) = Count(c.pq, Entry(S))
  <2>1. {i \in 1 .. Len(c.pq) : c.pq[i] \in Entry(S) \ W}
          = {i \in 1 .. Len(c.pq) : c.pq[i] \in Now(S)}
    <3>1. ASSUME NEW i \in 1 .. Len(c.pq)
          PROVE  c.pq[i] \in Entry(S) \ W <=> c.pq[i] \in Now(S)
      <4>1. c.pq[i] \in ToSet(c.pq)
        BY <1>2 DEF ToSet
      <4>2. c.pq[i] \in E
        BY <1>2
      <4>3. c.pq[i].wait > 0 \/ c.pq[i].wait = 0
        BY <4>2 DEF Entry
      <4>4. c.pq[i].wait > 0 => c.pq[i].wait # 0
        BY <4>2 DEF Entry
      <4>5. c.pq[i] \in Now(S) <=> c.pq[i] \in Entry(S) /\ c.pq[i].wait = 0
        BY <4>2 DEF Entry, Now
      <4>6. c.pq[i] \in W <=> c.pq[i].wait > 0
        BY <4>1
      <4> HIDE DEF W
      <4>7. QED
        BY <4>3, <4>4, <4>5, <4>6
    <3>2. QED
      BY <3>1
  <2> HIDE DEF E, W, pq
  <2>2. Count(c.pq, Entry(S) \ W) = Count(c.pq, Now(S))
    BY <1>1, <2>1, CountIs
  <2>3. Count(c.pq, Entry(S)) = Count(c.pq, Entry(S) \cap W) + Count(c.pq, Entry(S) \ W)
    BY <1>1, CountSplit
  <2>4. Count(pq, Entry(S)) = Count(c.pq, Entry(S) \cap W)
    BY <1>3
  <2>5. QED
    BY <2>2, <2>3, <2>4
<1>7. \A i \in DOMAIN pq : pq[i].wait > 0
  <2>1. pq \in Seq(E \cap W) /\ \A e \in E \cap W : e.wait > 0
    BY <1>3
  <2> HIDE DEF pq, E, W
  <2>2. \A i \in DOMAIN pq : pq[i] \in E \cap W
    BY <2>1, ElementOfSeq, LenProperties
  <2>3. QED
    BY <2>1, <2>2
<1> HIDE DEF W, pq, d
<1>8. /\ d \in CacheOf(l, kinds) /\ d.set = c.set /\ d.back = c.back
      /\ d.mshr = c.mshr /\ d.resp = c.resp /\ d.pq = pq /\ d.in = c.in
      /\ d.stalled = c.stalled /\ d.out = c.out
  BY <1>4, <1>5 DEF CacheOf
<1> HIDE DEF E
<1>9. missing(d) = missing(c)
  BY <1>8, Zenon DEF missing
<1>10. ASSUME NEW S PROVE CountKept(d, S) + Count(c.pq, Now(S)) = CountKept(c, S)
  <2>1. /\ Count(c.in, S) \in Nat /\ Count(c.pq, Entry(S)) \in Nat
        /\ Count(c.stalled, S) \in Nat /\ CountWaiting(c.mshr, S) \in Nat /\ Count(c.back, S) \in Nat
    BY KeptIs
  <2>2. Count(pq, Entry(S)) \in Nat /\ Count(c.pq, Now(S)) \in Nat
    BY <1>1, <1>4, CountIs
  <2>3. Count(pq, Entry(S)) + Count(c.pq, Now(S)) = Count(c.pq, Entry(S))
    BY <1>6
  <2>4. QED
    BY <1>8, <2>1, <2>2, <2>3 DEF CountKept
<1>11. \A N : Tracks(l, c, N) => Tracks(l, d, N)
  BY <1>8, <1>9, Zenon DEF Tracks, Owes
<1>12. Proceeds(l, c) => Proceeds(l, d)
  BY <1>8, <1>9, Zenon DEF Proceeds, Clean
<1>13. QED
  BY <1>8, <1>10, <1>11, <1>12, <1>7 DEF d

LEMMA ProcessIs ==
  ASSUME NEW l \in Levels, NEW kinds \in SUBSET Kinds, NEW c \in CacheOf(l, kinds),
         NEW due \in Orders(c), NEW d, d = process(c, l, due)
  PROVE  /\ d \in CacheOf(l, kinds)
         /\ d.resp = c.resp /\ \A i \in DOMAIN d.pq : d.pq[i].wait > 0
         /\ \A S \in SUBSET Trans(MissKinds(l)) : CountKept(d, S) = CountKept(c, S)
         /\ \A N \in [Lines -> Nat] : Tracks(l, c, N) => Tracks(l, d, N)
         /\ Clean(c) /\ (l = "l1" => "prefetch" \notin kinds) => Clean(d)
<1> DEFINE r == EnterAll([c EXCEPT !.stalled = <<>>], l, c.stalled)
           p == Popped(r)
<1>1. d = AccessAll(p, l, due)
  BY Zenon DEF process, EnterAll, AccessAll
<1>2. /\ r \in CacheOf(l, kinds) /\ r.resp = c.resp /\ r.pq = c.pq
      /\ \A S : CountKept(r, S) = CountKept(c, S)
      /\ \A N \in [Lines -> Nat] : Tracks(l, c, N) => Tracks(l, r, N)
      /\ Clean(c) => Proceeds(l, r)
  BY RetryIs
<1> HIDE DEF r
<1>3. /\ p \in CacheOf(l, kinds) /\ p.resp = r.resp
      /\ \A i \in DOMAIN p.pq : p.pq[i].wait > 0
      /\ \A S : CountKept(p, S) + Count(r.pq, Now(S)) = CountKept(r, S)
      /\ \A N : Tracks(l, r, N) => Tracks(l, p, N)
      /\ Proceeds(l, r) => Proceeds(l, p)
  BY <1>2, PoppedIs
<1> HIDE DEF p
<1>4. due \in Seq(Trans(kinds)) /\ \A S : Count(due, S) = Count(c.pq, Now(S))
  <2>1. c.pq \in Seq(Entry(Trans(kinds)))
    BY Fields
  <2>2. QED
    BY <2>1, DueIs
<1>5. /\ d \in CacheOf(l, kinds) /\ d.resp = p.resp /\ d.pq = p.pq
      /\ \A S \in SUBSET Trans(MissKinds(l)) : CountKept(d, S) = CountKept(p, S) + Count(due, S)
      /\ \A N \in [Lines -> Nat] : Tracks(l, p, N) => Tracks(l, d, N)
      /\ Proceeds(l, p) /\ (l = "l1" => "prefetch" \notin kinds) => Proceeds(l, d)
  BY <1>1, <1>3, <1>4, AccessAllIs
<1>6. ASSUME NEW S \in SUBSET Trans(MissKinds(l)) PROVE CountKept(d, S) = CountKept(c, S)
  <2>1. CountKept(p, S) + Count(c.pq, Now(S)) = CountKept(c, S)
    BY <1>2, <1>3
  <2>2. CountKept(d, S) = CountKept(p, S) + Count(c.pq, Now(S))
    BY <1>4, <1>5
  <2>3. QED
    BY <2>1, <2>2
<1>7. ASSUME Clean(c), l = "l1" => "prefetch" \notin kinds PROVE Clean(d)
  <2>1. Proceeds(l, d)
    BY <1>2, <1>3, <1>5, <1>7
  <2>2. QED
    BY <2>1 DEF Proceeds
<1>8. \A N \in [Lines -> Nat] : Tracks(l, c, N) => Tracks(l, d, N)
  BY <1>2, <1>3, <1>5
<1>9. QED
  BY <1>2, <1>3, <1>5, <1>6, <1>7, <1>8

-----------------------------------------------------------------------------
(* One cache: handleResponses.                                             *)

LEMMA CompleteIs ==
  ASSUME NEW l \in Levels, NEW kinds, NEW c \in CacheOf(l, kinds), NEW t \in Trans(kinds \ {"evict"}),
         NEW d, d = completeTransaction(c, l, t)
  PROVE  /\ d \in CacheOf(l, kinds)
         /\ d.back = c.back /\ d.mshr = c.mshr /\ d.resp = c.resp /\ d.pq = c.pq /\ d.in = c.in
         /\ d.stalled = c.stalled /\ d.out = c.out
         /\ Unique(c.set) /\ t.line \notin LinesOf(c.set) =>
              Unique(d.set) /\ LinesOf(d.set) \subseteq LinesOf(c.set) \cup {t.line}
<1> DEFINE E == Victim
           V == victims(c.set, Assoc[l])
           more == [i \in DOMAIN V |-> [line |-> Last(c.set).line, dirty |-> Last(c.set).dirty]]
           set == insert(c.set, Assoc[l], t.line, isLoad(t))
<1>1. c.set \in Seq(Node(Lines)) /\ c.evicts \in Seq(E)
  BY Fields
<1>2. t.line \in Lines /\ isLoad(t) \in BOOLEAN /\ Assoc[l] \in Nat \ {0}
  BY MemAssumption DEF MemAssumption, Trans, isLoad
<1>3. /\ set \in Seq(Node(Lines))
      /\ Unique(c.set) /\ t.line \notin LinesOf(c.set) =>
           Unique(set) /\ LinesOf(set) \subseteq LinesOf(c.set) \cup {t.line}
  BY <1>1, <1>2, InsertSet
<1>4. more \in Seq(E)
  <2>1. DOMAIN V \in {{}, {1}} /\ (V = <<>> \/ c.set # <<>>) /\ (c.set # <<>> => Last(c.set) \in Node(Lines))
    BY <1>1, <1>2, VictimIs
  <2>2. CASE V = <<>>
    <3>1. DOMAIN V = 1 .. 0
      BY <2>2
    <3> HIDE DEF V
    <3>2. more \in [1 .. 0 -> E]
      BY <3>1
    <3> HIDE DEF more
    <3>3. 0 \in Nat
      OBVIOUS
    <3>4. QED
      BY <3>2, <3>3, FunctionIsSeq
  <2>3. CASE c.set # <<>>
    <3>1. PICK n \in Nat : DOMAIN V = 1 .. n
      <4>1. 1 .. 0 = {} /\ 1 .. 1 = {1}
        OBVIOUS
      <4>2. 0 \in Nat /\ 1 \in Nat
        OBVIOUS
      <4>3. QED
        BY <2>1, <4>1, <4>2
    <3>2. Last(c.set).line \in Lines /\ Last(c.set).dirty \in BOOLEAN
      BY <2>1, <2>3 DEF Node
    <3> HIDE DEF V
    <3>3. more \in [1 .. n -> E]
      BY <3>1, <3>2 DEF Victim
    <3> HIDE DEF more
    <3>4. QED
      BY <3>3, FunctionIsSeq
  <2>4. QED
    BY <2>1, <2>2, <2>3
<1>5. c.evicts \o more \in Seq(E)
  <2> HIDE DEF E, more
  <2>1. QED
    BY <1>1, <1>4, ConcatProperties
<1>6. d = [c EXCEPT !.set = set, !.evicts = c.evicts \o more]
  BY Zenon DEF completeTransaction
<1> HIDE DEF set, more
<1>7. /\ d \in CacheOf(l, kinds) /\ d.set = set
      /\ d.back = c.back /\ d.mshr = c.mshr /\ d.resp = c.resp /\ d.pq = c.pq /\ d.in = c.in
      /\ d.stalled = c.stalled /\ d.out = c.out
  BY <1>3, <1>5, <1>6 DEF CacheOf
<1>8. QED
  BY <1>3, <1>7

(* M is what N becomes when t has come.                                    *)
Differ(l, t, N, M) == \A x \in Lines : N[x] = M[x] + (IF t \in Misses(l, x) THEN 1 ELSE 0)

LEMMA AnswerIs ==
  ASSUME NEW l \in Levels, NEW kinds \in SUBSET Kinds, NEW c \in CacheOf(l, kinds),
         NEW t \in Trans(kinds \ {"evict"}), NEW d, d = Answer(c, l, t)
  PROVE  /\ d \in CacheOf(l, kinds)
         /\ d.resp = c.resp /\ d.pq = c.pq
         /\ \A S : CountKept(d, S) = CountKept(c, S)
         /\ \A N, M \in [Lines -> Nat] :
              Differ(l, t, N, M) /\ Tracks(l, c, N) =>
                 /\ Tracks(l, d, M)
                 /\ Clean(c) /\ (l = "l1" => "prefetch" \notin kinds) => Clean(d)
<1> DEFINE f == completeTransaction(c, l, t)
           x == t.line
<1>1. /\ f \in CacheOf(l, kinds)
      /\ f.back = c.back /\ f.mshr = c.mshr /\ f.resp = c.resp /\ f.pq = c.pq /\ f.in = c.in
      /\ f.stalled = c.stalled /\ f.out = c.out
      /\ Unique(c.set) /\ x \notin LinesOf(c.set) =>
           Unique(f.set) /\ LinesOf(f.set) \subseteq LinesOf(c.set) \cup {x}
  BY CompleteIs
<1>2. x \in Lines /\ t.kind \in kinds \ {"evict"}
  BY DEF Trans
<1>3. \A S : CountKept(f, S) = CountKept(c, S)
  BY <1>1, Zenon DEF CountKept
<1>4. missing(f) = missing(c)
  BY <1>1, Zenon DEF missing
<1>5. CASE l = "l1" /\ t.kind = "prefetch"
  <2>1. d = f
    BY <1>5, Zenon DEF Answer
  <2> HIDE DEF f, x
  <2>2. ASSUME NEW N \in [Lines -> Nat], NEW M \in [Lines -> Nat],
               Differ(l, t, N, M), Tracks(l, c, N)
        PROVE  Tracks(l, d, M)
    <3>1. ASSUME NEW y \in Lines PROVE N[y] = M[y]
      <4>1. t \notin Misses(l, y)
        BY <1>5 DEF Misses, MissKinds
      <4>2. M[y] \in Nat /\ N[y] = M[y] + 0
        BY <2>2, <4>1 DEF Differ
      <4>3. QED
        BY <4>2
    <3>2. QED
      BY <1>1, <1>4, <2>1, <2>2, <3>1 DEF Tracks, Owes
  <2>3. l = "l1" /\ "prefetch" \in kinds
    BY <1>2, <1>5
  <2>4. QED
    BY <1>1, <1>3, <2>1, <2>2, <2>3
<1>6. CASE ~(l = "l1" /\ t.kind = "prefetch")
  <2> DEFINE rest == [f.mshr EXCEPT ![x] = <<>>]
             back == f.back \o f.mshr[x]
             A == Asked(l, kinds)
  <2>1. d = [f EXCEPT !.back = back, !.mshr = rest]
    BY <1>6, Zenon DEF Answer, updateMSHR
  <2> HIDE DEF f, x
  <2>2. f.mshr \in Mshrs(A) /\ f.back \in Seq(Trans(kinds \ {"evict"}))
    BY <1>1, Fields
  <2>3. f.mshr[x] \in Seq(A) /\ <<>> \in Seq(A)
    BY <1>2, <2>2 DEF Mshrs
  <2>4. f.mshr[x] \in Seq(Trans(kinds \ {"evict"}))
    <3>1. A \subseteq Trans(kinds \ {"evict"})
      BY DEF Asked, Trans, MissKinds
    <3> HIDE DEF A
    <3>2. QED
      BY <2>3, <3>1, SeqWithin
  <2>5. back \in Seq(Trans(kinds \ {"evict"}))
    BY <2>2, <2>4, ConcatProperties
  <2>6. rest \in Mshrs(A)
    BY <1>2, <2>2, <2>3 DEF Mshrs
  <2>7. rest[x] = <<>> /\ AgreeElsewhere(f.mshr, rest, x)
    BY <1>2, <2>2 DEF Mshrs, AgreeElsewhere
  <2> HIDE DEF rest, back
  <2>8. /\ d \in CacheOf(l, kinds) /\ d.set = f.set /\ d.back = back
        /\ d.mshr = rest /\ d.resp = f.resp /\ d.pq = f.pq /\ d.in = f.in
        /\ d.stalled = f.stalled /\ d.out = f.out
    BY <1>1, <2>1, <2>5, <2>6 DEF CacheOf
  <2>9. missing(d) = missing(c) \ {x}
    BY <1>1, <1>2, <2>7, <2>8 DEF missing, AgreeElsewhere
  <2>10. ASSUME NEW S PROVE CountKept(d, S) = CountKept(c, S)
    <3>1. CountWaiting(f.mshr, S) = CountWaiting(rest, S) + Count(f.mshr[x], S)
      <4> HIDE DEF A
      <4>1. QED
        BY <1>2, <2>2, <2>6, <2>7, WaitersOf
    <3>2. Count(back, S) = Count(f.back, S) + Count(f.mshr[x], S)
      BY <2>2, <2>4, CountCat DEF back
    <3>3. Count(f.mshr[x], S) \in Nat
      BY <2>4, CountIs
    <3>4. /\ Count(f.in, S) \in Nat /\ Count(f.pq, Entry(S)) \in Nat
          /\ Count(f.stalled, S) \in Nat /\ CountWaiting(f.mshr, S) \in Nat /\ Count(f.back, S) \in Nat
      BY <1>1, KeptIs
    <3>5. CountWaiting(rest, S) \in Nat
      BY <2>6, WaitersAre
    <3>6. CountKept(d, S) = CountKept(f, S)
      BY <2>8, <3>1, <3>2, <3>3, <3>4, <3>5 DEF CountKept
    <3>7. QED
      BY <3>6, <1>3
  <2>11. ASSUME NEW N \in [Lines -> Nat], NEW M \in [Lines -> Nat],
                Differ(l, t, N, M), Tracks(l, c, N)
         PROVE  Tracks(l, d, M) /\ x \in missing(c)
    <3>1. \A y : t \in Misses(l, y) <=> y = x
      BY <1>2, <1>6 DEF Misses, MissKinds, Trans, Kinds, x
    <3>2. ASSUME NEW y \in Lines
          PROVE  /\ Count(c.out, Misses(l, y)) \in Nat /\ M[y] \in Nat
                 /\ Count(c.out, Misses(l, y)) + N[y] = Owes(c, y)
                 /\ N[y] = M[y] + (IF y = x THEN 1 ELSE 0)
      <4>1. Count(c.out, Misses(l, y)) \in Nat
        <5>1. c.out \in Seq(Trans(kinds))
          BY Fields
        <5>2. QED
          BY <5>1, CountIs
      <4>2. N[y] = M[y] + (IF y = x THEN 1 ELSE 0) /\ M[y] \in Nat
        BY <2>11, <3>1 DEF Differ
      <4>3. QED
        BY <4>1, <4>2, <2>11 DEF Tracks
    <3>3. x \in missing(c)
      <4>1. Count(c.out, Misses(l, x)) \in Nat /\ M[x] \in Nat
            /\ Count(c.out, Misses(l, x)) + (M[x] + 1) = Owes(c, x)
        BY <1>2, <3>2
      <4>2. QED
        BY <4>1 DEF Owes
    <3>4. ASSUME NEW y \in Lines PROVE Count(d.out, Misses(l, y)) + M[y] = Owes(d, y)
      <4>1. d.out = c.out
        BY <1>1, <2>8
      <4>2. CASE y = x
        <5>1. Owes(c, x) = 1 /\ Owes(d, x) = 0
          BY <2>9, <3>3 DEF Owes
        <5>2. Count(c.out, Misses(l, x)) \in Nat /\ M[x] \in Nat
              /\ Count(c.out, Misses(l, x)) + (M[x] + 1) = Owes(c, x)
          BY <1>2, <3>2
        <5>3. QED
          BY <4>1, <4>2, <5>1, <5>2
      <4>3. CASE y # x
        <5>1. Owes(d, y) = Owes(c, y)
          BY <2>9, <4>3 DEF Owes
        <5>2. QED
          BY <3>2, <4>1, <4>3, <5>1
      <4>4. QED
        BY <4>2, <4>3
    <3>5. QED
      BY <3>3, <3>4 DEF Tracks
  <2>12. ASSUME Clean(c), x \in missing(c) PROVE Clean(d)
    <3>1. /\ Unique(d.set) /\ LinesOf(d.set) \subseteq LinesOf(c.set) \cup {x}
          /\ d.stalled = c.stalled
      BY <1>1, <2>8, <2>12 DEF Clean
    <3>2. missing(d) \cap LinesOf(d.set) = {}
      BY <2>9, <2>12, <3>1 DEF Clean
    <3>3. \A i \in DOMAIN d.stalled : d.stalled[i].line \notin missing(d) \cup LinesOf(d.set)
      BY <2>9, <2>12, <3>1 DEF Clean
    <3>4. QED
      BY <3>1, <3>2, <3>3 DEF Clean
  <2>13. QED
    BY <1>1, <2>8, <2>10, <2>11, <2>12
<1>7. QED
  BY <1>5, <1>6

(* All responses of a level: N[x] is what will come later.                 *)
Balanced(l, c, N) ==
  \A x \in Lines : Count(c.out, Misses(l, x)) + Count(c.resp, Misses(l, x)) + N[x] = Owes(c, x)

LEMMA ResponsesIs ==
  ASSUME NEW l \in Levels, NEW kinds \in SUBSET Kinds, NEW c \in CacheOf(l, kinds),
         NEW d, d = handleResponses(c, l)
  PROVE  /\ d \in CacheOf(l, kinds)
         /\ d.resp = <<>> /\ d.pq = c.pq
         /\ \A S : CountKept(d, S) = CountKept(c, S)
         /\ \A N \in [Lines -> Nat] :
              Balanced(l, c, N) =>
                /\ Balanced(l, d, N)
                /\ Clean(c) /\ (l = "l1" => "prefetch" \notin kinds) => Clean(d)
<1> DEFINE s == c.resp
           n == Len(s)
           T == CacheOf(l, kinds)
           base == [c EXCEPT !.resp = <<>>]
           Later(N, k) == [x \in Lines |-> N[x] + Left(s, k, Misses(l, x))]
           R(x, k) == /\ x.resp = <<>> /\ x.pq = c.pq
                      /\ \A S : CountKept(x, S) = CountKept(c, S)
                      /\ \A N \in [Lines -> Nat] :
                           Balanced(l, c, N) =>
                             /\ Tracks(l, x, Later(N, k))
                             /\ Clean(c) /\ (l = "l1" => "prefetch" \notin kinds) => Clean(x)
           P == [k \in 0 .. n |-> {x \in T : R(x, k)}]
<1>1. s \in Seq(Trans(kinds \ {"evict"})) /\ c.out \in Seq(Trans(kinds))
  BY Fields
<1>2. n \in Nat /\ DOMAIN s = 1 .. n /\ \A k \in 1 .. n : s[k] \in Trans(kinds \ {"evict"})
  BY <1>1, LenProperties, ElementOfSeq
<1>3. ASSUME NEW S
      PROVE  /\ Left(s, 0, S) = Count(s, S) /\ Left(s, n, S) = 0
             /\ \A k \in 0 .. n : Left(s, k, S) \in Nat
             /\ \A k \in 1 .. n : Left(s, k - 1, S) = Left(s, k, S) + (IF s[k] \in S THEN 1 ELSE 0)
  <2> HIDE DEF s
  <2>1. QED
    BY <1>1, LeftIs
<1>4. ASSUME NEW N \in [Lines -> Nat], NEW k \in 0 .. n PROVE Later(N, k) \in [Lines -> Nat]
  <2>1. \A x \in Lines : N[x] + Left(s, k, Misses(l, x)) \in Nat
    BY <1>3
  <2>2. QED
    BY <2>1
<1>5. base \in T /\ R(base, 0)
  <2>1. <<>> \in Seq(Trans(kinds \ {"evict"}))
    OBVIOUS
  <2>2. /\ base \in T /\ base.stalled = c.stalled
        /\ base.set = c.set /\ base.resp = <<>> /\ base.pq = c.pq /\ base.in = c.in
        /\ base.mshr = c.mshr /\ base.out = c.out /\ base.back = c.back
    BY <2>1 DEF CacheOf
  <2> HIDE DEF base
  <2>3. missing(base) = missing(c)
    BY <2>2, Zenon DEF missing
  <2>4. \A S : CountKept(base, S) = CountKept(c, S)
    BY <2>2, Zenon DEF CountKept
  <2>5. ASSUME NEW N \in [Lines -> Nat], Balanced(l, c, N) PROVE Tracks(l, base, Later(N, 0))
    <3>1. ASSUME NEW x \in Lines
          PROVE  Count(base.out, Misses(l, x)) + (N[x] + Left(s, 0, Misses(l, x))) = Owes(base, x)
      <4>1. Count(c.out, Misses(l, x)) + Count(s, Misses(l, x)) + N[x] = Owes(c, x) /\ N[x] \in Nat
        BY <2>5 DEF Balanced
      <4>2. Count(c.out, Misses(l, x)) \in Nat /\ Count(s, Misses(l, x)) \in Nat
        BY <1>1, CountIs
      <4>3. Left(s, 0, Misses(l, x)) = Count(s, Misses(l, x))
        BY <1>3
      <4>4. Owes(base, x) = Owes(c, x)
        BY <2>3 DEF Owes
      <4> HIDE DEF s
      <4>5. QED
        BY <4>1, <4>2, <4>3, <4>4, <2>2
    <3>2. QED
      BY <3>1 DEF Tracks
  <2>6. Clean(c) => Clean(base)
    BY <2>2, <2>3, Zenon DEF Clean
  <2>7. QED
    BY <2>2, <2>4, <2>5, <2>6
<1>6. ASSUME NEW k \in 1 .. n, NEW r \in T
      PROVE  /\ Answer(r, l, s[k]) \in T
             /\ R(r, k - 1) => R(Answer(r, l, s[k]), k)
  <2> DEFINE x == Answer(r, l, s[k])
  <2>1. /\ x \in T /\ x.resp = r.resp /\ x.pq = r.pq
        /\ \A S : CountKept(x, S) = CountKept(r, S)
        /\ \A N, M \in [Lines -> Nat] :
             Differ(l, s[k], N, M) /\ Tracks(l, r, N) =>
                /\ Tracks(l, x, M)
                /\ Clean(r) /\ (l = "l1" => "prefetch" \notin kinds) => Clean(x)
    <3> DEFINE e == s[k]
    <3>1. e \in Trans(kinds \ {"evict"})
      BY <1>2
    <3> HIDE DEF e
    <3>2. /\ x \in T /\ x.resp = r.resp /\ x.pq = r.pq
          /\ \A S : CountKept(x, S) = CountKept(r, S)
      BY <3>1, AnswerIs DEF e
    <3>3. \A N, M \in [Lines -> Nat] :
             Differ(l, e, N, M) /\ Tracks(l, r, N) =>
                /\ Tracks(l, x, M)
                /\ Clean(r) /\ (l = "l1" => "prefetch" \notin kinds) => Clean(x)
      BY <3>1, AnswerIs DEF e
    <3>4. QED
      BY <3>2, <3>3 DEF e
  <2> HIDE DEF x
  <2>2. ASSUME R(r, k - 1) PROVE R(x, k)
    <3>1. ASSUME NEW N \in [Lines -> Nat], Balanced(l, c, N)
          PROVE  /\ Tracks(l, x, Later(N, k))
                 /\ Clean(c) /\ (l = "l1" => "prefetch" \notin kinds) => Clean(x)
      <4>1. k - 1 \in 0 .. n /\ k \in 0 .. n
        BY <1>2
      <4>2. Later(N, k - 1) \in [Lines -> Nat] /\ Later(N, k) \in [Lines -> Nat]
        BY <1>4, <4>1
      <4>3. Differ(l, s[k], Later(N, k - 1), Later(N, k))
        <5>1. ASSUME NEW y \in Lines
              PROVE  N[y] + Left(s, k - 1, Misses(l, y))
                       = N[y] + Left(s, k, Misses(l, y)) + (IF s[k] \in Misses(l, y) THEN 1 ELSE 0)
          <6>1. /\ Left(s, k - 1, Misses(l, y))
                     = Left(s, k, Misses(l, y)) + (IF s[k] \in Misses(l, y) THEN 1 ELSE 0)
                /\ Left(s, k, Misses(l, y)) \in Nat
            BY <1>3, <4>1
          <6>2. N[y] \in Nat
            OBVIOUS
          <6> HIDE DEF s
          <6>3. QED
            BY <6>1, <6>2
        <5>2. QED
          BY <5>1 DEF Differ
      <4>4. /\ Tracks(l, r, Later(N, k - 1))
            /\ Clean(c) /\ (l = "l1" => "prefetch" \notin kinds) => Clean(r)
        BY <2>2, <3>1
      <4> HIDE DEF Later
      <4>5. QED
        BY <2>1, <4>2, <4>3, <4>4
    <3>2. x.resp = <<>> /\ x.pq = c.pq /\ \A S : CountKept(x, S) = CountKept(c, S)
      BY <2>1, <2>2
    <3>3. QED
      BY <3>1, <3>2
  <2>3. QED
    BY <2>1, <2>2 DEF x
<1>7. d \in T /\ d \in P[n]
  <2> HIDE DEF R
  <2>1. \A k \in 1 .. n : k - 1 \in 0 .. n /\ k \in 0 .. n
    BY <1>2
  <2>2. base \in P[0]
    BY <1>2, <1>5
  <2>3. \A k \in 1 .. n, r \in T : Answer(r, l, s[k]) \in T
    BY <1>6
  <2>4. \A k \in 1 .. n, r \in T : r \in P[k - 1] => Answer(r, l, s[k]) \in P[k]
    BY <1>6, <2>1
  <2>5. d = AnswerAll(base, l, s)
    BY Zenon DEF handleResponses, AnswerAll
  <2> HIDE DEF T, P, base
  <2>6. AnswerAll(base, l, s) \in T /\ AnswerAll(base, l, s) \in P[Len(s)]
    <3> HIDE DEF s
    <3>1. QED
      BY <1>2, <1>5, <2>2, <2>3, <2>4, AnswerInduct
  <2>7. QED
    BY <2>5, <2>6
<1>8. R(d, n)
  <2> HIDE DEF R
  <2>1. n \in 0 .. n
    BY <1>2
  <2>2. QED
    BY <1>7, <2>1
<1>9. ASSUME NEW N \in [Lines -> Nat], Balanced(l, c, N) PROVE Balanced(l, d, N)
  <2>1. Tracks(l, d, Later(N, n)) /\ d.resp = <<>>
    BY <1>8, <1>9
  <2>2. ASSUME NEW x \in Lines
        PROVE  Count(d.out, Misses(l, x)) + Count(d.resp, Misses(l, x)) + N[x] = Owes(d, x)
    <3>1. Count(d.out, Misses(l, x)) + (N[x] + Left(s, n, Misses(l, x))) = Owes(d, x)
      BY <2>1 DEF Tracks
    <3>2. Left(s, n, Misses(l, x)) = 0 /\ Count(d.resp, Misses(l, x)) = 0 /\ N[x] \in Nat
      BY <1>3, <2>1, CountEmpty
    <3>3. Count(d.out, Misses(l, x)) \in Nat
      <4>1. d.out \in Seq(Trans(kinds))
        BY <1>7, Fields
      <4>2. QED
        BY <4>1, CountIs
    <3> HIDE DEF s
    <3>4. QED
      BY <3>1, <3>2, <3>3
  <2>3. QED
    BY <2>2 DEF Balanced
<1>10. QED
  BY <1>7, <1>8, <1>9

-----------------------------------------------------------------------------
(* One cache: all that follows sendRequests.                               *)

LEMMA QueuedIs ==
  ASSUME NEW l \in Levels, NEW kinds, NEW c \in CacheOf(l, kinds), NEW ts \in Seq(Trans(kinds)),
         NEW d, d = Queued(c, l, ts)
  PROVE  /\ d \in CacheOf(l, kinds)
         /\ d.in = <<>> /\ d.out = c.out /\ d.resp = c.resp /\ missing(d) = missing(c)
         /\ \A S : CountKept(d, S) + Count(c.in, S) = CountKept(c, S) + Count(ts, S)
         /\ Clean(c) => Clean(d)
<1> DEFINE E == Entry(Trans(kinds))
           n == Len(ts)
           more == [i \in DOMAIN ts |-> [t |-> ts[i], wait |-> Latency[l] - 1]]
           pq == c.pq \o more
<1>1. c.pq \in Seq(E)
  BY Fields
<1>2. n \in Nat /\ DOMAIN ts = 1 .. n /\ \A i \in 1 .. n : ts[i] \in Trans(kinds)
  BY LenProperties, ElementOfSeq
<1>3. Latency[l] - 1 \in Nat
  BY MemAssumption DEF MemAssumption
<1>4. more \in [1 .. n -> E]
  BY <1>2, <1>3 DEF Entry
<1>5. more \in Seq(E) /\ Len(more) = n
  <2> HIDE DEF more, E, n
  <2>1. QED
    BY <1>2, <1>4, FunctionIsSeq
<1>6. ASSUME NEW S PROVE Count(more, Entry(S)) = Count(ts, S)
  <2>1. \A i \in 1 .. n : more[i] \in Entry(S) <=> ts[i] \in S
    BY <1>2, <1>3 DEF Entry
  <2>2. {i \in 1 .. n : more[i] \in Entry(S)} = {i \in 1 .. n : ts[i] \in S}
    BY <2>1
  <2> HIDE DEF more, E
  <2>3. Count(more, Entry(S)) = Cardinality({i \in 1 .. n : more[i] \in Entry(S)})
    BY <1>5, CountIs
  <2>4. Count(ts, S) = Cardinality({i \in 1 .. n : ts[i] \in S})
    BY CountIs
  <2>5. QED
    BY <2>2, <2>3, <2>4
<1>7. pq \in Seq(E) /\ \A S : Count(pq, Entry(S)) = Count(c.pq, Entry(S)) + Count(ts, S)
  <2> HIDE DEF more, E
  <2>1. QED
    BY <1>1, <1>5, <1>6, CountCat, ConcatProperties
<1>8. d = [c EXCEPT !.in = <<>>, !.pq = pq]
  BY Zenon DEF Queued
<1> HIDE DEF pq
<1>9. /\ d \in CacheOf(l, kinds) /\ d.set = c.set /\ d.back = c.back
      /\ d.mshr = c.mshr /\ d.resp = c.resp /\ d.pq = pq /\ d.in = <<>>
      /\ d.stalled = c.stalled /\ d.out = c.out
  <2>1. <<>> \in Seq(Trans(kinds))
    OBVIOUS
  <2>2. QED
    BY <1>7, <1>8, <2>1 DEF CacheOf
<1> HIDE DEF E
<1>10. missing(d) = missing(c)
  BY <1>9, Zenon DEF missing
<1>11. ASSUME NEW S PROVE CountKept(d, S) + Count(c.in, S) = CountKept(c, S) + Count(ts, S)
  <2>1. /\ Count(c.in, S) \in Nat /\ Count(c.pq, Entry(S)) \in Nat
        /\ Count(c.stalled, S) \in Nat /\ CountWaiting(c.mshr, S) \in Nat /\ Count(c.back, S) \in Nat
    BY KeptIs
  <2>2. Count(pq, Entry(S)) = Count(c.pq, Entry(S)) + Count(ts, S)
    BY <1>7
  <2>3. Count(ts, S) \in Nat /\ Count(<<>>, S) = 0
    BY CountIs, CountEmpty
  <2>4. QED
    BY <1>9, <2>1, <2>2, <2>3 DEF CountKept
<1>12. Clean(c) => Clean(d)
  BY <1>9, <1>10, Zenon DEF Clean
<1>13. QED
  BY <1>9, <1>10, <1>11, <1>12

LEMMA TickIs ==
  ASSUME NEW l \in Levels, NEW kinds, NEW c \in CacheOf(l, kinds),
         \A i \in DOMAIN c.pq : c.pq[i].wait > 0,
         NEW d, d = Tick(c, l)
  PROVE  /\ d \in CacheOf(l, kinds)
         /\ d.out = c.out /\ d.resp = c.resp /\ missing(d) = missing(c)
         /\ \A S : CountKept(d, S) = CountKept(c, S)
         /\ Clean(c) => Clean(d)
<1> DEFINE E == Entry(Trans(kinds))
           old == c.pq
           n == Len(old)
           pq == [i \in DOMAIN old |-> [old[i] EXCEPT !.wait = old[i].wait - 1]]
<1>1. old \in Seq(E)
  BY Fields
<1>2. n \in Nat /\ DOMAIN old = 1 .. n /\ \A i \in 1 .. n : old[i] \in E
  <2> HIDE DEF old, E
  <2>1. QED
    BY <1>1, LenProperties, ElementOfSeq
<1>3. ASSUME NEW i \in 1 .. n
      PROVE  /\ pq[i] \in E
             /\ \A S : pq[i] \in Entry(S) <=> old[i] \in Entry(S)
  <2>1. old[i] \in [t : Trans(kinds), wait : Nat] /\ old[i].wait - 1 \in Nat
    BY <1>2 DEF Entry
  <2>2. pq[i] = [old[i] EXCEPT !.wait = old[i].wait - 1]
    BY <1>2
  <2> HIDE DEF old, pq
  <2>3. pq[i] = [t |-> old[i].t, wait |-> old[i].wait - 1] /\ old[i] = [t |-> old[i].t, wait |-> old[i].wait]
    BY <2>1, <2>2
  <2>4. QED
    BY <2>1, <2>3 DEF Entry
<1>4. pq \in [1 .. n -> E]
  BY <1>2, <1>3
<1>5. pq \in Seq(E) /\ Len(pq) = n
  <2> HIDE DEF pq, E, n
  <2>1. QED
    BY <1>2, <1>4, FunctionIsSeq
<1>6. ASSUME NEW S PROVE Count(pq, Entry(S)) = Count(old, Entry(S))
  <2>1. {i \in 1 .. n : pq[i] \in Entry(S)} = {i \in 1 .. n : old[i] \in Entry(S)}
    BY <1>3
  <2> HIDE DEF pq, E, old
  <2>2. Count(pq, Entry(S)) = Cardinality({i \in 1 .. n : pq[i] \in Entry(S)})
    BY <1>5, CountIs
  <2>3. Count(old, Entry(S)) = Cardinality({i \in 1 .. n : old[i] \in Entry(S)})
    BY <1>1, CountIs
  <2>4. QED
    BY <2>1, <2>2, <2>3
<1>7. LoadPorts[l] \in Int /\ StorePorts[l] \in Int
  BY MemAssumption DEF MemAssumption
<1>8. d = [c EXCEPT !.pq = pq, !.loads = LoadPorts[l], !.stores = StorePorts[l]]
  BY Zenon DEF Tick
<1> HIDE DEF pq
<1>9. /\ d \in CacheOf(l, kinds) /\ d.set = c.set /\ d.back = c.back
      /\ d.mshr = c.mshr /\ d.resp = c.resp /\ d.pq = pq /\ d.in = c.in
      /\ d.stalled = c.stalled /\ d.out = c.out
  BY <1>5, <1>7, <1>8 DEF CacheOf
<1>10. missing(d) = missing(c)
  BY <1>9, Zenon DEF missing
<1>11. \A S : CountKept(d, S) = CountKept(c, S)
  BY <1>6, <1>9, Zenon DEF CountKept
<1>12. Clean(c) => Clean(d)
  BY <1>9, <1>10, Zenon DEF Clean
<1>13. QED
  BY <1>9, <1>10, <1>11, <1>12

LEMMA RestIs ==
  ASSUME NEW l \in Levels, NEW kinds \in SUBSET Kinds, NEW c \in CacheOf(l, kinds),
         NEW extra \in Seq(Trans(kinds)), NEW due \in Orders(Queued(c, l, c.in \o extra)),
         NEW d, d = Rest(c, l, extra, due)
  PROVE  /\ d \in CacheOf(l, kinds)
         /\ \A S \in SUBSET Trans(MissKinds(l)) : CountKept(d, S) = CountKept(c, S) + Count(extra, S)
         /\ \A N \in [Lines -> Nat] :
              Balanced(l, c, N) =>
                /\ Balanced(l, d, N)
                /\ Clean(c) /\ (l = "l1" => "prefetch" \notin kinds) => Clean(d)
<1> DEFINE ts == c.in \o extra
           q == Queued(c, l, ts)
           p == process(q, l, due)
           h == handleResponses(p, l)
<1>1. c.in \in Seq(Trans(kinds)) /\ c.resp \in Seq(Trans(kinds \ {"evict"})) /\ c.out \in Seq(Trans(kinds))
  BY Fields
<1>2. ts \in Seq(Trans(kinds)) /\ \A S : Count(ts, S) = Count(c.in, S) + Count(extra, S)
  BY <1>1, CountCat, ConcatProperties
<1>3. d = Tick(h, l) /\ due \in Orders(q)
  BY Zenon DEF Rest
<1> HIDE DEF ts
<1>4. /\ q \in CacheOf(l, kinds)
      /\ q.in = <<>> /\ q.out = c.out /\ q.resp = c.resp /\ missing(q) = missing(c)
      /\ \A S : CountKept(q, S) + Count(c.in, S) = CountKept(c, S) + Count(ts, S)
      /\ Clean(c) => Clean(q)
  BY <1>2, QueuedIs
<1> HIDE DEF q
<1>5. /\ p \in CacheOf(l, kinds)
      /\ p.resp = q.resp /\ \A i \in DOMAIN p.pq : p.pq[i].wait > 0
      /\ \A S \in SUBSET Trans(MissKinds(l)) : CountKept(p, S) = CountKept(q, S)
      /\ \A N \in [Lines -> Nat] : Tracks(l, q, N) => Tracks(l, p, N)
      /\ Clean(q) /\ (l = "l1" => "prefetch" \notin kinds) => Clean(p)
  BY <1>3, <1>4, ProcessIs
<1> HIDE DEF p
<1>6. /\ h \in CacheOf(l, kinds) /\ h.pq = p.pq
      /\ \A S : CountKept(h, S) = CountKept(p, S)
  BY <1>5, ResponsesIs
<1>7. \A N \in [Lines -> Nat] :
        Balanced(l, p, N) =>
          /\ Balanced(l, h, N)
          /\ Clean(p) /\ (l = "l1" => "prefetch" \notin kinds) => Clean(h)
  BY <1>5, ResponsesIs
<1> HIDE DEF h
<1>8. /\ d \in CacheOf(l, kinds)
      /\ d.out = h.out /\ d.resp = h.resp /\ missing(d) = missing(h)
      /\ \A S : CountKept(d, S) = CountKept(h, S)
      /\ Clean(h) => Clean(d)
  BY <1>3, <1>5, <1>6, TickIs
<1>9. ASSUME NEW S \in SUBSET Trans(MissKinds(l))
      PROVE  CountKept(d, S) = CountKept(c, S) + Count(extra, S)
  <2>1. CountKept(q, S) + Count(c.in, S) = CountKept(c, S) + Count(ts, S)
    BY <1>4
  <2>2. CountKept(c, S) \in Nat /\ CountKept(q, S) \in Nat
    BY <1>4, KeptIs
  <2>3. Count(c.in, S) \in Nat /\ Count(extra, S) \in Nat /\ Count(ts, S) = Count(c.in, S) + Count(extra, S)
    BY <1>1, <1>2, CountIs
  <2>4. CountKept(q, S) = CountKept(c, S) + Count(extra, S)
    BY <2>1, <2>2, <2>3
  <2>5. QED
    BY <2>4, <1>5, <1>6, <1>8
<1>10. ASSUME NEW N \in [Lines -> Nat], Balanced(l, c, N)
       PROVE  /\ Balanced(l, d, N)
              /\ Clean(c) /\ (l = "l1" => "prefetch" \notin kinds) => Clean(d)
  <2> DEFINE M == [x \in Lines |-> N[x] + Count(c.resp, Misses(l, x))]
  <2>1. \A x \in Lines : /\ N[x] \in Nat /\ Count(c.resp, Misses(l, x)) \in Nat
                         /\ Count(c.out, Misses(l, x)) \in Nat
    BY <1>1, CountIs
  <2>2. M \in [Lines -> Nat]
    BY <2>1
  <2>3. Tracks(l, q, M)
    <3>1. ASSUME NEW x \in Lines
          PROVE  Count(q.out, Misses(l, x)) + M[x] = Owes(q, x)
      <4>1. Count(c.out, Misses(l, x)) + Count(c.resp, Misses(l, x)) + N[x] = Owes(c, x)
        BY <1>10 DEF Balanced
      <4>2. Owes(q, x) = Owes(c, x)
        BY <1>4 DEF Owes
      <4>3. Count(c.out, Misses(l, x)) + (N[x] + Count(c.resp, Misses(l, x))) = Owes(c, x)
        BY <4>1, <2>1
      <4>4. QED
        BY <4>2, <4>3, <1>4
    <3>2. QED
      BY <3>1 DEF Tracks
  <2> HIDE DEF M
  <2>4. Tracks(l, p, M)
    BY <1>5, <2>2, <2>3
  <2>5. Balanced(l, p, N)
    <3>1. ASSUME NEW x \in Lines
          PROVE  Count(p.out, Misses(l, x)) + Count(p.resp, Misses(l, x)) + N[x] = Owes(p, x)
      <4>1. Count(p.out, Misses(l, x)) + (N[x] + Count(c.resp, Misses(l, x))) = Owes(p, x)
        BY <2>4 DEF Tracks, M
      <4>2. p.resp = c.resp
        BY <1>4, <1>5
      <4>3. Count(p.out, Misses(l, x)) \in Nat
        <5>1. p.out \in Seq(Trans(kinds))
          BY <1>5, Fields
        <5>2. QED
          BY <5>1, CountIs
      <4>4. Count(p.out, Misses(l, x)) + Count(c.resp, Misses(l, x)) + N[x] = Owes(p, x)
        BY <4>1, <4>3, <2>1
      <4>5. QED
        BY <4>2, <4>4
    <3>2. QED
      BY <3>1 DEF Balanced
  <2>6. Balanced(l, h, N)
    BY <1>7, <2>5
  <2>7. Balanced(l, d, N)
    <3>1. \A x : Owes(d, x) = Owes(h, x)
      BY <1>8 DEF Owes
    <3>2. QED
      BY <2>6, <3>1, <1>8, Zenon DEF Balanced
  <2>8. Clean(c) /\ (l = "l1" => "prefetch" \notin kinds) => Clean(d)
    BY <1>4, <1>5, <1>7, <2>5, <1>8
  <2>9. QED
    BY <2>7, <2>8
<1>11. QED
  BY <1>8, <1>9, <1>10

-----------------------------------------------------------------------------
(* The levels.                                                             *)

LEMMA MemGet ==
  ASSUME NEW kinds, NEW m \in MemOf(kinds), NEW l \in Levels
  PROVE  m[l] \in CacheOf(l, kinds)
<1>1. m.l1 \in CacheOf("l1", kinds) /\ m.l2 \in CacheOf("l2", kinds) /\ m.llc \in CacheOf("llc", kinds)
  BY DEF MemOf
<1>2. m.l1 = m["l1"] /\ m.l2 = m["l2"] /\ m.llc = m["llc"]
  OBVIOUS
<1>3. QED
  BY <1>1, <1>2 DEF Levels

Replaced(n, m, l, c) == n = [m EXCEPT ![l] = c]

LEMMA MemSet ==
  ASSUME NEW kinds, NEW m \in MemOf(kinds), NEW l \in Levels, NEW c \in CacheOf(l, kinds),
         NEW n, Replaced(n, m, l, c)
  PROVE  /\ n \in MemOf(kinds)
         /\ n[l] = c /\ \A x \in Levels : x # l => n[x] = m[x]
<1>1. DOMAIN m = Levels /\ DOMAIN n = Levels
  BY DEF MemOf, Levels, Replaced
<1>2. n[l] = c /\ \A x \in Levels : x # l => n[x] = m[x]
  BY <1>1 DEF Replaced
<1>3. \A x \in Levels : n[x] \in CacheOf(x, kinds)
  BY <1>2, MemGet
<1>4. n = [l1 |-> n["l1"], l2 |-> n["l2"], llc |-> n["llc"]]
  <2>1. n = [x \in Levels |-> n[x]]
    BY <1>1 DEF Replaced
  <2>2. QED
    BY <1>1, <2>1 DEF Levels
<1>5. n \in MemOf(kinds)
  BY <1>3, <1>4 DEF MemOf, Levels
<1>6. QED
  BY <1>2, <1>5

(* What a call of another level leaves alone in a cache.                   *)
Alike(c, d) ==
  /\ d.resp = c.resp /\ missing(d) = missing(c)
  /\ Clean(c) => Clean(d)

Kept(c, d) == \A S : CountKept(d, S) = CountKept(c, S)

(* In a call that sends from one level to another only these change what   *)
(* they have sent and what they keep.                                      *)
Moves(from, to, m, n) ==
  \A x \in Levels : /\ Alike(m[x], n[x])
                    /\ x # from => n[x].out = m[x].out
                    /\ x # to => Kept(m[x], n[x])

LEMMA MovesOn ==
  ASSUME NEW from, NEW to, NEW k, NEW m, NEW n, Moves(from, to, k, m), Moves(from, to, m, n)
  PROVE  Moves(from, to, k, n)
<1>1. QED
  BY Zenon DEF Moves, Alike, Kept

LEMMA MovesStill ==
  ASSUME NEW from, NEW to, NEW m
  PROVE  Moves(from, to, m, m)
<1>1. QED
  BY Zenon DEF Moves, Alike, Kept

LEMMA ReceiveIs ==
  ASSUME NEW l, NEW kinds, NEW c \in CacheOf(l, kinds), NEW t \in Trans(kinds),
         NEW d, d = recvRequest(c, t)
  PROVE  /\ d \in CacheOf(l, kinds) /\ Alike(c, d) /\ d.out = c.out
         /\ \A S : CountKept(d, S) = CountKept(c, S) + (IF t \in S THEN 1 ELSE 0)
<1> DEFINE in == Append(c.in, t)
<1>1. c.in \in Seq(Trans(kinds)) /\ c.loads \in Int /\ c.stores \in Int
  BY Fields
<1>2. in \in Seq(Trans(kinds)) /\ \A S : Count(in, S) = Count(c.in, S) + (IF t \in S THEN 1 ELSE 0)
  BY <1>1, AppendProperties, CountAppend
<1>3. \/ d = [c EXCEPT !.in = in, !.loads = c.loads - 1]
      \/ d = [c EXCEPT !.in = in, !.stores = c.stores - 1]
  BY Zenon DEF recvRequest
<1> HIDE DEF in
<1>4. /\ d \in CacheOf(l, kinds) /\ d.set = c.set /\ d.back = c.back
      /\ d.mshr = c.mshr /\ d.resp = c.resp /\ d.pq = c.pq /\ d.in = in
      /\ d.stalled = c.stalled /\ d.out = c.out
  <2>1. c.loads - 1 \in Int /\ c.stores - 1 \in Int
    BY <1>1
  <2>2. CASE d = [c EXCEPT !.in = in, !.loads = c.loads - 1]
    BY <2>1, <2>2, <1>2 DEF CacheOf
  <2>3. CASE d = [c EXCEPT !.in = in, !.stores = c.stores - 1]
    BY <2>1, <2>3, <1>2 DEF CacheOf
  <2>4. QED
    BY <1>3, <2>2, <2>3
<1>5. missing(d) = missing(c)
  BY <1>4, Zenon DEF missing
<1>6. Clean(c) => Clean(d)
  BY <1>4, <1>5, Zenon DEF Clean
<1>7. ASSUME NEW S PROVE CountKept(d, S) = CountKept(c, S) + (IF t \in S THEN 1 ELSE 0)
  <2>1. /\ Count(c.in, S) \in Nat /\ Count(c.pq, Entry(S)) \in Nat
        /\ Count(c.stalled, S) \in Nat /\ CountWaiting(c.mshr, S) \in Nat /\ Count(c.back, S) \in Nat
    BY KeptIs
  <2>2. Count(in, S) = Count(c.in, S) + (IF t \in S THEN 1 ELSE 0)
    BY <1>2
  <2>3. QED
    BY <1>4, <2>1, <2>2 DEF CountKept
<1>8. QED
  BY <1>4, <1>5, <1>6, <1>7 DEF Alike

(* Another out, evicts or set.                                             *)
LEMMA OutIs ==
  ASSUME NEW l, NEW kinds, NEW c \in CacheOf(l, kinds), NEW out \in Seq(Trans(kinds)),
         NEW d, d = [c EXCEPT !.out = out]
  PROVE  /\ d \in CacheOf(l, kinds) /\ Alike(c, d) /\ Kept(c, d)
         /\ d.out = out
<1>1. /\ d \in CacheOf(l, kinds) /\ d.set = c.set /\ d.back = c.back
      /\ d.mshr = c.mshr /\ d.resp = c.resp /\ d.pq = c.pq /\ d.in = c.in
      /\ d.stalled = c.stalled /\ d.out = out
  BY DEF CacheOf
<1>2. missing(d) = missing(c)
  BY <1>1, Zenon DEF missing
<1>3. Clean(c) => Clean(d)
  BY <1>1, <1>2, Zenon DEF Clean
<1>4. Kept(c, d)
  BY <1>1, Zenon DEF CountKept, Kept
<1>5. QED
  BY <1>1, <1>2, <1>3, <1>4 DEF Alike

LEMMA EvictsIs ==
  ASSUME NEW l, NEW kinds, NEW c \in CacheOf(l, kinds),
         NEW evicts \in Seq(Victim),
         NEW d, d = [c EXCEPT !.evicts = evicts]
  PROVE  /\ d \in CacheOf(l, kinds) /\ Alike(c, d) /\ Kept(c, d)
         /\ d.out = c.out
<1>1. /\ d \in CacheOf(l, kinds) /\ d.set = c.set /\ d.back = c.back
      /\ d.mshr = c.mshr /\ d.resp = c.resp /\ d.pq = c.pq /\ d.in = c.in
      /\ d.stalled = c.stalled /\ d.out = c.out
  BY DEF CacheOf
<1>2. missing(d) = missing(c)
  BY <1>1, Zenon DEF missing
<1>3. Clean(c) => Clean(d)
  BY <1>1, <1>2, Zenon DEF Clean
<1>4. Kept(c, d)
  BY <1>1, Zenon DEF CountKept, Kept
<1>5. QED
  BY <1>1, <1>2, <1>3, <1>4 DEF Alike

LEMMA InvalidateIs ==
  ASSUME NEW kinds, NEW m \in MemOf(kinds), NEW l, NEW line, NEW n, n = InvalidateAbove(m, l, line)
  PROVE  /\ n \in MemOf(kinds)
         /\ \A x \in Levels : Alike(m[x], n[x]) /\ Kept(m[x], n[x]) /\ n[x].out = m[x].out
<1>1. n = [x \in Levels |-> n[x]]
  BY DEF InvalidateAbove
<1>2. ASSUME NEW x \in Levels
      PROVE  /\ n[x] \in CacheOf(x, kinds)
             /\ Alike(m[x], n[x]) /\ Kept(m[x], n[x]) /\ n[x].out = m[x].out
  <2> DEFINE c == m[x]
             d == n[x]
             set == invalidate(c.set, line)
  <2>1. c \in CacheOf(x, kinds)
    BY MemGet
  <2>2. d = c \/ d = [c EXCEPT !.set = set]
    BY DEF InvalidateAbove
  <2> HIDE DEF c, d
  <2>3. CASE d = c
    <3>1. Alike(c, d) /\ Kept(c, d) /\ d.out = c.out
      BY <2>3, Zenon DEF Alike, Kept
    <3>2. QED
      BY <2>1, <2>3, <3>1 DEF c, d
  <2>4. CASE d = [c EXCEPT !.set = set]
    <3>1. c.set \in Seq(Node(Lines))
      BY <2>1, Fields
    <3>2. /\ set \in Seq(Node(Lines))
          /\ Unique(c.set) => Unique(set) /\ LinesOf(set) \subseteq LinesOf(c.set)
      BY <3>1, InvalidateSet
    <3> HIDE DEF set
    <3>3. /\ d \in CacheOf(x, kinds) /\ d.set = set /\ d.back = c.back
          /\ d.mshr = c.mshr /\ d.resp = c.resp /\ d.pq = c.pq /\ d.in = c.in
          /\ d.stalled = c.stalled /\ d.out = c.out
      BY <2>1, <2>4, <3>2 DEF CacheOf
    <3>4. missing(d) = missing(c)
      BY <3>3, Zenon DEF missing
    <3>5. ASSUME Clean(c) PROVE Clean(d)
      <4>1. /\ Unique(d.set) /\ LinesOf(d.set) \subseteq LinesOf(c.set)
            /\ missing(c) \cap LinesOf(c.set) = {}
            /\ \A i \in DOMAIN c.stalled : c.stalled[i].line \notin missing(c) \cup LinesOf(c.set)
        BY <3>2, <3>3, <3>5 DEF Clean
      <4>2. missing(d) \cap LinesOf(d.set) = {}
        BY <3>4, <4>1
      <4>3. \A i \in DOMAIN d.stalled : d.stalled[i].line \notin missing(d) \cup LinesOf(d.set)
        BY <3>3, <3>4, <4>1
      <4>4. QED
        BY <4>1, <4>2, <4>3 DEF Clean
    <3>6. Kept(c, d)
      BY <3>3, Zenon DEF CountKept, Kept
    <3>7. QED
      BY <3>3, <3>4, <3>5, <3>6 DEF Alike, c, d
  <2>5. QED
    BY <2>2, <2>3, <2>4
<1>3. n = [l1 |-> n["l1"], l2 |-> n["l2"], llc |-> n["llc"]]
  <2>1. DOMAIN n = Levels /\ n = [x \in DOMAIN n |-> n[x]]
    BY <1>1
  <2>2. QED
    BY <2>1, <1>1 DEF Levels
<1>4. n \in MemOf(kinds)
  BY <1>2, <1>3 DEF MemOf, Levels
<1>5. QED
  BY <1>2, <1>4

-----------------------------------------------------------------------------
(* sendRequests of the first two levels.                                   *)

Upper == {"l1", "l2"}

(* All but the evictions, for which nobody waits.                          *)
Answerable == Trans(Kinds \ {"evict"})

(* How many of S a level has sent: back to itself or on to the next.        *)
Under(m, l, S) == Count(m[l].out, S) + CountKept(m[nextCache(l)], S)

LEMMA UnderIs ==
  ASSUME NEW kinds, NEW m \in MemOf(kinds), NEW l \in Upper, NEW S
  PROVE  /\ Count(m[l].out, S) \in Nat /\ CountKept(m[nextCache(l)], S) \in Nat
         /\ Under(m, l, S) \in Nat
<1>1. l \in Levels /\ nextCache(l) \in Levels
  BY DEF Upper, Levels, nextCache
<1>2. m[l] \in CacheOf(l, kinds) /\ m[nextCache(l)] \in CacheOf(nextCache(l), kinds)
  BY <1>1, MemGet
<1>3. Count(m[l].out, S) \in Nat
  <2>1. m[l].out \in Seq(Trans(kinds))
    BY <1>2, Fields
  <2>2. QED
    BY <2>1, CountIs
<1>4. CountKept(m[nextCache(l)], S) \in Nat
  BY <1>2, KeptIs
<1>5. QED
  BY <1>3, <1>4 DEF Under

LEMMA ForwardIs ==
  ASSUME NEW kinds, NEW m \in MemOf(kinds), NEW l \in Upper, NEW t \in Trans(kinds),
         NEW n, n = Forward(m, l, t)
  PROVE  /\ n \in MemOf(kinds) /\ Moves(l, nextCache(l), m, n)
         /\ \A S : Under(n, l, S) = Under(m, l, S) + (IF t \in S THEN 1 ELSE 0)
<1> DEFINE to == nextCache(l)
<1>1. l \in Levels /\ to \in Levels /\ to # l
  BY DEF Upper, Levels, nextCache
<1>2. m[l] \in CacheOf(l, kinds) /\ m[to] \in CacheOf(to, kinds)
  BY <1>1, MemGet
<1>3. \A S : /\ Count(m[l].out, S) \in Nat /\ CountKept(m[to], S) \in Nat
             /\ Under(m, l, S) = Count(m[l].out, S) + CountKept(m[to], S)
             /\ Under(n, l, S) = Count(n[l].out, S) + CountKept(n[to], S)
  BY UnderIs DEF Under
<1>4. CASE willAccept(m[to], t)
  <2> DEFINE c == recvRequest(m[to], t)
  <2>1. Replaced(n, m, to, c)
    BY <1>4, Zenon DEF Forward, Replaced
  <2> HIDE DEF to, c
  <2>2. /\ c \in CacheOf(to, kinds) /\ Alike(m[to], c) /\ c.out = m[to].out
        /\ \A S : CountKept(c, S) = CountKept(m[to], S) + (IF t \in S THEN 1 ELSE 0)
    BY <1>2, ReceiveIs DEF c
  <2>3. n \in MemOf(kinds) /\ n[to] = c /\ \A x \in Levels : x # to => n[x] = m[x]
    BY <1>1, <2>1, <2>2, MemSet
  <2>4. Moves(l, to, m, n)
    BY <2>2, <2>3, Zenon DEF Moves, Alike, Kept
  <2>5. \A S : Under(n, l, S) = Under(m, l, S) + (IF t \in S THEN 1 ELSE 0)
    BY <1>1, <1>3, <2>2, <2>3
  <2>6. QED
    BY <2>3, <2>4, <2>5 DEF to
<1>5. CASE ~willAccept(m[to], t)
  <2> DEFINE out == Append(m[l].out, t)
             c == [m[l] EXCEPT !.out = out]
  <2>1. Replaced(n, m, l, c)
    BY <1>5 DEF Forward, Replaced
  <2>2. m[l].out \in Seq(Trans(kinds))
    BY <1>2, Fields
  <2>3. out \in Seq(Trans(kinds)) /\ \A S : Count(out, S) = Count(m[l].out, S) + (IF t \in S THEN 1 ELSE 0)
    BY <2>2, AppendProperties, CountAppend
  <2> HIDE DEF to, out
  <2>4. c \in CacheOf(l, kinds) /\ Alike(m[l], c) /\ Kept(m[l], c) /\ c.out = out
    BY <1>2, <2>3, OutIs
  <2> HIDE DEF c
  <2>5. n \in MemOf(kinds) /\ n[l] = c /\ \A x \in Levels : x # l => n[x] = m[x]
    BY <1>1, <2>1, <2>4, MemSet
  <2>6. Moves(l, to, m, n)
    BY <2>4, <2>5, Zenon DEF Moves, Alike, Kept
  <2>7. \A S : Under(n, l, S) = Under(m, l, S) + (IF t \in S THEN 1 ELSE 0)
    <3>1. n[to] = m[to]
      BY <1>1, <2>5
    <3>2. QED
      BY <1>3, <2>3, <2>4, <2>5, <3>1
  <2>8. QED
    BY <2>5, <2>6, <2>7 DEF to
<1>6. QED
  BY <1>4, <1>5

(* The eviction of a line is never waited for.                             *)
LEMMA WriteBackIs ==
  ASSUME NEW kinds, "evict" \in kinds, NEW m \in MemOf(kinds), NEW l \in Upper,
         NEW e \in Victim, NEW n, n = WriteBack(m, l, e)
  PROVE  /\ n \in MemOf(kinds) /\ Moves(l, nextCache(l), m, n)
         /\ \A S \in SUBSET Answerable : Under(n, l, S) = Under(m, l, S)
<1> DEFINE i == InvalidateAbove(m, l, e.line)
           t == evictOf(e.line)
<1>1. l \in Levels /\ nextCache(l) \in Levels
  BY DEF Upper, Levels, nextCache
<1>2. /\ i \in MemOf(kinds)
      /\ \A x \in Levels : Alike(m[x], i[x]) /\ Kept(m[x], i[x]) /\ i[x].out = m[x].out
  BY InvalidateIs
<1>3. t \in Trans(kinds) /\ \A S \in SUBSET Answerable : t \notin S
  BY DEF evictOf, Transaction, Trans, Victim, Answerable
<1>4. n = i \/ n = Forward(i, l, t)
  BY Zenon DEF WriteBack
<1> HIDE DEF i, t
<1>5. Moves(l, nextCache(l), m, i)
  BY <1>2, Zenon DEF Moves
<1>6. \A S : Under(i, l, S) = Under(m, l, S)
  BY <1>1, <1>2, Zenon DEF Under, Kept
<1>7. CASE n = i
  BY <1>2, <1>5, <1>6, <1>7
<1>8. CASE n = Forward(i, l, t)
  <2>1. /\ n \in MemOf(kinds) /\ Moves(l, nextCache(l), i, n)
        /\ \A S : Under(n, l, S) = Under(i, l, S) + (IF t \in S THEN 1 ELSE 0)
    BY <1>2, <1>3, <1>8, ForwardIs
  <2>2. Moves(l, nextCache(l), m, n)
    BY <1>5, <2>1, MovesOn
  <2>3. ASSUME NEW S \in SUBSET Answerable PROVE Under(n, l, S) = Under(m, l, S)
    <3>1. Under(i, l, S) \in Nat
      BY <1>2, UnderIs
    <3>2. Under(n, l, S) = Under(i, l, S) + 0
      BY <1>3, <2>1
    <3>3. QED
      BY <1>6, <3>1, <3>2
  <2>4. QED
    BY <2>1, <2>2, <2>3
<1>9. QED
  BY <1>4, <1>7, <1>8

LEMMA ForwardAllIs ==
  ASSUME NEW kinds, NEW m \in MemOf(kinds), NEW l \in Upper, NEW s \in Seq(Trans(kinds)),
         NEW n, n = ForwardAll(m, l, s)
  PROVE  /\ n \in MemOf(kinds) /\ Moves(l, nextCache(l), m, n)
         /\ \A S : Under(n, l, S) = Under(m, l, S) + Count(s, S)
<1> DEFINE k0 == Len(s)
           T == MemOf(kinds)
           R(x, k) == /\ Moves(l, nextCache(l), m, x)
                      /\ \A S : Under(x, l, S) + Left(s, k, S) = Under(m, l, S) + Count(s, S)
           P == [k \in 0 .. k0 |-> {x \in T : R(x, k)}]
<1>1. k0 \in Nat /\ DOMAIN s = 1 .. k0 /\ \A k \in 1 .. k0 : s[k] \in Trans(kinds)
  BY LenProperties, ElementOfSeq
<1>2. ASSUME NEW S
      PROVE  /\ Left(s, 0, S) = Count(s, S) /\ Left(s, k0, S) = 0
             /\ \A k \in 0 .. k0 : Left(s, k, S) \in Nat
             /\ \A k \in 1 .. k0 : Left(s, k - 1, S) = Left(s, k, S) + (IF s[k] \in S THEN 1 ELSE 0)
  BY LeftIs
<1>3. R(m, 0)
  BY <1>2, MovesStill
<1>4. ASSUME NEW k \in 1 .. k0, NEW r \in T
      PROVE  /\ Forward(r, l, s[k]) \in T
             /\ R(r, k - 1) => R(Forward(r, l, s[k]), k)
  <2> DEFINE e == s[k]
             x == Forward(r, l, e)
  <2>1. e \in Trans(kinds)
    BY <1>1
  <2> HIDE DEF e
  <2>2. /\ x \in T /\ Moves(l, nextCache(l), r, x)
        /\ \A S : Under(x, l, S) = Under(r, l, S) + (IF e \in S THEN 1 ELSE 0)
    BY <2>1, ForwardIs
  <2> HIDE DEF x
  <2>3. ASSUME R(r, k - 1) PROVE R(x, k)
    <3>1. Moves(l, nextCache(l), m, x)
      BY <2>2, <2>3, MovesOn
    <3>2. ASSUME NEW S PROVE Under(x, l, S) + Left(s, k, S) = Under(m, l, S) + Count(s, S)
      <4>1. Under(x, l, S) = Under(r, l, S) + (IF e \in S THEN 1 ELSE 0) /\ Under(r, l, S) \in Nat
        BY <2>2, UnderIs
      <4>2. Left(s, k - 1, S) = Left(s, k, S) + (IF e \in S THEN 1 ELSE 0) /\ Left(s, k, S) \in Nat
        <5>1. k \in 0 .. k0
          BY <1>1
        <5>2. QED
          BY <1>2, <5>1 DEF e
      <4>3. Under(r, l, S) + Left(s, k - 1, S) = Under(m, l, S) + Count(s, S)
        BY <2>3
      <4>4. QED
        BY <4>1, <4>2, <4>3
    <3>3. QED
      BY <3>1, <3>2
  <2>4. QED
    BY <2>2, <2>3 DEF x, e
<1>5. n \in T /\ n \in P[k0]
  <2> HIDE DEF R
  <2>1. \A k \in 1 .. k0 : k - 1 \in 0 .. k0 /\ k \in 0 .. k0
    BY <1>1
  <2>2. m \in P[0]
    BY <1>1, <1>3
  <2>3. \A k \in 1 .. k0, r \in T : Forward(r, l, s[k]) \in T
    BY <1>4
  <2>4. \A k \in 1 .. k0, r \in T : r \in P[k - 1] => Forward(r, l, s[k]) \in P[k]
    BY <1>4, <2>1
  <2> HIDE DEF T, P
  <2>5. m \in T
    BY DEF T
  <2>6. QED
    BY <1>1, <2>2, <2>3, <2>4, <2>5, ForwardInduct
<1>6. R(n, k0)
  <2> HIDE DEF R
  <2>1. k0 \in 0 .. k0
    BY <1>1
  <2>2. QED
    BY <1>5, <2>1
<1>7. ASSUME NEW S PROVE Under(n, l, S) = Under(m, l, S) + Count(s, S)
  <2>1. Under(n, l, S) + 0 = Under(m, l, S) + Count(s, S)
    BY <1>2, <1>6
  <2>2. Under(n, l, S) \in Nat
    BY <1>5, UnderIs
  <2>3. QED
    BY <2>1, <2>2
<1>8. QED
  BY <1>5, <1>6, <1>7

LEMMA WriteBackAllIs ==
  ASSUME NEW kinds, "evict" \in kinds, NEW m \in MemOf(kinds), NEW l \in Upper,
         NEW s \in Seq(Victim), NEW n, n = WriteBackAll(m, l, s)
  PROVE  /\ n \in MemOf(kinds) /\ Moves(l, nextCache(l), m, n)
         /\ \A S \in SUBSET Answerable : Under(n, l, S) = Under(m, l, S)
<1> DEFINE k0 == Len(s)
           T == MemOf(kinds)
           R(x) == /\ Moves(l, nextCache(l), m, x)
                   /\ \A S \in SUBSET Answerable : Under(x, l, S) = Under(m, l, S)
           P == [k \in 0 .. k0 |-> {x \in T : R(x)}]
<1>1. k0 \in Nat /\ DOMAIN s = 1 .. k0 /\ \A k \in 1 .. k0 : s[k] \in Victim
  BY LenProperties, ElementOfSeq
<1>2. R(m)
  BY MovesStill
<1>3. ASSUME NEW k \in 1 .. k0, NEW r \in T
      PROVE  /\ WriteBack(r, l, s[k]) \in T
             /\ R(r) => R(WriteBack(r, l, s[k]))
  <2> DEFINE e == s[k]
             x == WriteBack(r, l, e)
  <2>1. e \in Victim
    BY <1>1
  <2> HIDE DEF e
  <2>2. /\ x \in T /\ Moves(l, nextCache(l), r, x)
        /\ \A S \in SUBSET Answerable : Under(x, l, S) = Under(r, l, S)
    BY <2>1, WriteBackIs
  <2> HIDE DEF x
  <2>3. R(r) => R(x)
    BY <2>2, MovesOn
  <2>4. QED
    BY <2>2, <2>3 DEF x, e
<1>4. n \in T /\ n \in P[k0]
  <2> HIDE DEF R
  <2>1. \A k \in 1 .. k0 : k - 1 \in 0 .. k0 /\ k \in 0 .. k0
    BY <1>1
  <2>2. m \in P[0]
    BY <1>1, <1>2
  <2>3. \A k \in 1 .. k0, r \in T : WriteBack(r, l, s[k]) \in T
    BY <1>3
  <2>4. \A k \in 1 .. k0, r \in T : r \in P[k - 1] => WriteBack(r, l, s[k]) \in P[k]
    BY <1>3, <2>1
  <2> HIDE DEF T, P
  <2>5. m \in T
    BY DEF T
  <2>6. QED
    BY <1>1, <2>2, <2>3, <2>4, <2>5, WriteBackInduct
<1>5. R(n)
  <2> HIDE DEF R
  <2>1. k0 \in 0 .. k0
    BY <1>1
  <2>2. QED
    BY <1>4, <2>1
<1>6. QED
  BY <1>4, <1>5

LEMMA SendIs ==
  ASSUME NEW kinds, "evict" \in kinds, NEW m \in MemOf(kinds), NEW l \in Upper,
         NEW n, n = sendRequests(m, l)
  PROVE  /\ n \in MemOf(kinds) /\ Moves(l, nextCache(l), m, n)
         /\ \A S \in SUBSET Answerable : Under(n, l, S) = Under(m, l, S)
<1> DEFINE to == nextCache(l)
           none == <<>>
           c == [m[l] EXCEPT !.out = none]
           d == [c EXCEPT !.evicts = none]
           idle == [m EXCEPT ![l] = d]
           r == ForwardAll(idle, l, m[l].out)
<1>1. l \in Levels /\ to \in Levels /\ to # l
  BY DEF Upper, Levels, nextCache
<1>2. m[l] \in CacheOf(l, kinds)
  BY <1>1, MemGet
<1>3. /\ m[l].out \in Seq(Trans(kinds)) /\ m[l].evicts \in Seq(Victim)
      /\ none \in Seq(Trans(kinds)) /\ none \in Seq(Victim)
  <2>1. none \in Seq(Trans(kinds)) /\ none \in Seq(Victim)
    OBVIOUS
  <2> HIDE DEF none
  <2>2. QED
    BY <1>2, <2>1, Fields
<1>4. n = WriteBackAll(r, l, m[l].evicts)
  <2>1. [m EXCEPT ![l].out = <<>>, ![l].evicts = <<>>] = idle
    OBVIOUS
  <2> HIDE DEF idle
  <2>2. QED
    BY <2>1, Zenon DEF sendRequests, ForwardAll, WriteBackAll
<1> HIDE DEF none
<1>5. c \in CacheOf(l, kinds) /\ Alike(m[l], c) /\ Kept(m[l], c) /\ c.out = none
  BY <1>2, <1>3, OutIs
<1> HIDE DEF c
<1>6. d \in CacheOf(l, kinds) /\ Alike(c, d) /\ Kept(c, d) /\ d.out = none
  BY <1>3, <1>5, EvictsIs
<1> HIDE DEF d
<1>7. idle \in MemOf(kinds) /\ idle[l] = d /\ \A x \in Levels : x # l => idle[x] = m[x]
  <2>1. Replaced(idle, m, l, d)
    BY Zenon DEF Replaced
  <2> HIDE DEF idle
  <2>2. QED
    BY <1>1, <1>6, <2>1, MemSet
<1> HIDE DEF idle
<1>8. Moves(l, to, m, idle)
  BY <1>5, <1>6, <1>7, Zenon DEF Moves, Alike, Kept
<1>9. /\ r \in MemOf(kinds) /\ Moves(l, to, idle, r)
      /\ \A S : Under(r, l, S) = Under(idle, l, S) + Count(m[l].out, S)
  BY <1>3, <1>7, ForwardAllIs
<1> HIDE DEF r
<1>10. /\ n \in MemOf(kinds) /\ Moves(l, to, r, n)
       /\ \A S \in SUBSET Answerable : Under(n, l, S) = Under(r, l, S)
  BY <1>3, <1>4, <1>9, WriteBackAllIs
<1>11. Moves(l, to, m, n)
  <2> HIDE DEF to
  <2>1. Moves(l, to, m, r)
    BY <1>8, <1>9, MovesOn
  <2>2. QED
    BY <1>10, <2>1, MovesOn
<1>12. ASSUME NEW S \in SUBSET Answerable PROVE Under(n, l, S) = Under(m, l, S)
  <2>1. Count(m[l].out, S) \in Nat /\ CountKept(m[to], S) \in Nat
    BY UnderIs
  <2>2. Under(idle, l, S) = 0 + CountKept(m[to], S)
    <3>1. idle[to] = m[to] /\ idle[l].out = <<>>
      BY <1>1, <1>6, <1>7 DEF none
    <3>2. QED
      BY <3>1, CountEmpty DEF Under
  <2>3. Under(n, l, S) = Under(idle, l, S) + Count(m[l].out, S)
    BY <1>9, <1>10
  <2>4. QED
    BY <2>1, <2>2, <2>3 DEF Under
<1>13. QED
  BY <1>10, <1>11, <1>12

-----------------------------------------------------------------------------
(* sendRequests of the last level.                                         *)

StatesOf(kinds) == [m : MemOf(kinds), d : DramOf(kinds)]
Operation == [line : Lines, write : BOOLEAN]
UnderLast(s, S) == Count(s.m["llc"].out, S) + Count(s.d.waiting, S)

LEMMA UnderLastIs ==
  ASSUME NEW kinds, NEW s \in StatesOf(kinds), NEW S
  PROVE  /\ s.m \in MemOf(kinds) /\ s.d \in DramOf(kinds)
         /\ s.m["llc"] \in CacheOf("llc", kinds) /\ s.m["llc"].out \in Seq(Trans(kinds))
         /\ s.d.waiting \in Seq(Trans(kinds \ {"evict"})) /\ s.d.ops \in Seq(Operation)
         /\ Count(s.m["llc"].out, S) \in Nat /\ Count(s.d.waiting, S) \in Nat
         /\ UnderLast(s, S) \in Nat
<1>1. s.m \in MemOf(kinds) /\ s.d \in DramOf(kinds) /\ "llc" \in Levels
  BY DEF StatesOf, Levels
<1>2. s.m["llc"] \in CacheOf("llc", kinds)
  BY <1>1, MemGet
<1>3. s.m["llc"].out \in Seq(Trans(kinds))
  BY <1>2, Fields
<1>4. s.d.waiting \in Seq(Trans(kinds \ {"evict"})) /\ s.d.ops \in Seq(Operation)
  BY <1>1 DEF DramOf, Operation
<1>5. Count(s.m["llc"].out, S) \in Nat
  BY <1>3, CountIs
<1>6. Count(s.d.waiting, S) \in Nat
  BY <1>4, CountIs
<1>7. QED
  BY <1>1, <1>2, <1>3, <1>4, <1>5, <1>6 DEF UnderLast

LEMMA WriteIs ==
  ASSUME NEW kinds, NEW d \in DramOf(kinds), NEW line \in Lines
  PROVE  /\ dramWrite(d, line) \in DramOf(kinds)
         /\ dramWrite(d, line).waiting = d.waiting
<1> DEFINE op == [line |-> line, write |-> TRUE]
           ops == Append(d.ops, op)
<1>1. d.ops \in Seq(Operation) /\ d.writes - 1 \in Int /\ op \in Operation
  BY DEF DramOf, Operation
<1> HIDE DEF op
<1>2. ops \in Seq(Operation)
  BY <1>1, AppendProperties
<1>3. dramWrite(d, line) = [d EXCEPT !.ops = ops, !.writes = d.writes - 1]
  BY Zenon DEF dramWrite, op
<1> HIDE DEF ops
<1>4. QED
  BY <1>1, <1>2, <1>3 DEF DramOf, Operation

LEMMA ReadIs ==
  ASSUME NEW kinds, NEW d \in DramOf(kinds), NEW t \in Trans(kinds \ {"evict"})
  PROVE  /\ dramRead(d, t) \in DramOf(kinds)
         /\ \A S : Count(dramRead(d, t).waiting, S) = Count(d.waiting, S) + (IF t \in S THEN 1 ELSE 0)
<1> DEFINE op == [line |-> t.line, write |-> FALSE]
           ops == Append(d.ops, op)
           waiting == Append(d.waiting, t)
<1>1. /\ d.ops \in Seq(Operation) /\ d.reads - 1 \in Int /\ op \in Operation
      /\ d.waiting \in Seq(Trans(kinds \ {"evict"}))
  BY DEF DramOf, Operation, Trans
<1> HIDE DEF op
<1>2. ops \in Seq(Operation)
  BY <1>1, AppendProperties
<1>3. /\ waiting \in Seq(Trans(kinds \ {"evict"}))
      /\ \A S : Count(waiting, S) = Count(d.waiting, S) + (IF t \in S THEN 1 ELSE 0)
  BY <1>1, AppendProperties, CountAppend
<1>4. dramRead(d, t) = [d EXCEPT !.ops = ops, !.waiting = waiting, !.reads = d.reads - 1]
  BY Zenon DEF dramRead, op
<1> HIDE DEF ops, waiting
<1>5. dramRead(d, t) \in DramOf(kinds) /\ dramRead(d, t).waiting = waiting
  BY <1>1, <1>2, <1>3, <1>4 DEF DramOf, Operation
<1>6. QED
  BY <1>3, <1>5

LEMMA FetchIs ==
  ASSUME NEW kinds, NEW s \in StatesOf(kinds), NEW t \in Trans(kinds), NEW n, n = Fetch(s, t)
  PROVE  /\ n \in StatesOf(kinds) /\ Moves("llc", "dram", s.m, n.m)
         /\ \A S \in SUBSET Answerable : UnderLast(n, S) = UnderLast(s, S) + (IF t \in S THEN 1 ELSE 0)
<1>1. \A S : /\ s.m \in MemOf(kinds) /\ s.d \in DramOf(kinds)
             /\ s.m["llc"] \in CacheOf("llc", kinds) /\ s.m["llc"].out \in Seq(Trans(kinds))
             /\ Count(s.m["llc"].out, S) \in Nat /\ Count(s.d.waiting, S) \in Nat
             /\ UnderLast(s, S) = Count(s.m["llc"].out, S) + Count(s.d.waiting, S)
             /\ UnderLast(n, S) = Count(n.m["llc"].out, S) + Count(n.d.waiting, S)
  BY UnderLastIs DEF UnderLast
<1>2. t.line \in Lines /\ (~isEvict(t) => t \in Trans(kinds \ {"evict"}))
  BY DEF Trans, isEvict
<1>3. CASE ~dramAccepts(s.d, isLoad(t))
  <2> DEFINE old == s.m["llc"]
             out == Append(old.out, t)
             c == [old EXCEPT !.out = out]
             m == [s.m EXCEPT !["llc"] = c]
  <2>1. n = [s EXCEPT !.m = m]
    BY <1>3 DEF Fetch
  <2>2. out \in Seq(Trans(kinds)) /\ \A S : Count(out, S) = Count(old.out, S) + (IF t \in S THEN 1 ELSE 0)
    BY <1>1, AppendProperties, CountAppend
  <2> HIDE DEF out
  <2>3. c \in CacheOf("llc", kinds) /\ Alike(old, c) /\ Kept(old, c) /\ c.out = out
    <3> HIDE DEF old
    <3>1. old \in CacheOf("llc", kinds)
      BY <1>1 DEF old
    <3>2. QED
      BY <2>2, <3>1, OutIs
  <2> HIDE DEF c
  <2>4. Replaced(m, s.m, "llc", c) /\ "llc" \in Levels
    BY DEF Replaced, Levels
  <2> HIDE DEF m
  <2>5. m \in MemOf(kinds) /\ m["llc"] = c /\ \A x \in Levels : x # "llc" => m[x] = s.m[x]
    BY <1>1, <2>3, <2>4, MemSet
  <2>6. n \in StatesOf(kinds) /\ n.m = m /\ n.d = s.d
    BY <2>1, <2>5 DEF StatesOf
  <2>7. Moves("llc", "dram", s.m, m)
    BY <2>3, <2>5, Zenon DEF Moves, Alike, Kept
  <2>8. QED
    BY <1>1, <2>2, <2>3, <2>5, <2>6, <2>7, SMTT(30)
<1>4. CASE dramAccepts(s.d, isLoad(t)) /\ isEvict(t)
  <2> DEFINE d == dramWrite(s.d, t.line)
  <2>1. n = [s EXCEPT !.d = d]
    BY <1>4, Zenon DEF Fetch
  <2>2. d \in DramOf(kinds) /\ d.waiting = s.d.waiting
    BY <1>1, <1>2, WriteIs
  <2> HIDE DEF d
  <2>3. n \in StatesOf(kinds) /\ n.m = s.m /\ n.d = d
    BY <2>1, <2>2 DEF StatesOf
  <2>4. \A S \in SUBSET Answerable : t \notin S
    BY <1>4 DEF Answerable, Trans, isEvict
  <2>5. QED
    BY <1>1, <2>2, <2>3, <2>4, MovesStill
<1>5. CASE dramAccepts(s.d, isLoad(t)) /\ ~isEvict(t)
  <2> DEFINE d == dramRead(s.d, t)
  <2>1. n = [s EXCEPT !.d = d]
    BY <1>5, Zenon DEF Fetch
  <2>2. d \in DramOf(kinds) /\ \A S : Count(d.waiting, S) = Count(s.d.waiting, S) + (IF t \in S THEN 1 ELSE 0)
    BY <1>1, <1>2, <1>5, ReadIs
  <2> HIDE DEF d
  <2>3. n \in StatesOf(kinds) /\ n.m = s.m /\ n.d = d
    BY <2>1, <2>2 DEF StatesOf
  <2>4. QED
    BY <1>1, <2>2, <2>3, MovesStill
<1>6. QED
  BY <1>3, <1>4, <1>5

LEMMA WriteToDramIs ==
  ASSUME NEW kinds, NEW s \in StatesOf(kinds), NEW e \in Victim, NEW n, n = WriteToDram(s, e)
  PROVE  /\ n \in StatesOf(kinds) /\ Moves("llc", "dram", s.m, n.m)
         /\ \A S : UnderLast(n, S) = UnderLast(s, S)
<1> DEFINE old == s.m["llc"]
<1>1. /\ s.m \in MemOf(kinds) /\ s.d \in DramOf(kinds)
      /\ old \in CacheOf("llc", kinds) /\ e.line \in Lines /\ "llc" \in Levels
  BY UnderLastIs DEF Victim, Levels
<1>2. CASE ~dramAccepts(s.d, FALSE)
  <2> DEFINE evicts == Append(old.evicts, e)
             c == [old EXCEPT !.evicts = evicts]
             m == [s.m EXCEPT !["llc"] = c]
  <2>1. n = [s EXCEPT !.m = m]
    BY <1>2 DEF WriteToDram
  <2>2. evicts \in Seq(Victim)
    <3>1. old.evicts \in Seq(Victim)
      BY <1>1, Fields
    <3>2. QED
      BY <3>1, AppendProperties
  <2> HIDE DEF evicts
  <2>3. c \in CacheOf("llc", kinds) /\ Alike(old, c) /\ Kept(old, c) /\ c.out = old.out
    <3> HIDE DEF old
    <3>1. QED
      BY <1>1, <2>2, EvictsIs
  <2> HIDE DEF c
  <2>4. Replaced(m, s.m, "llc", c)
    BY DEF Replaced
  <2> HIDE DEF m
  <2>5. m \in MemOf(kinds) /\ m["llc"] = c /\ \A x \in Levels : x # "llc" => m[x] = s.m[x]
    BY <1>1, <2>3, <2>4, MemSet
  <2>6. n \in StatesOf(kinds) /\ n.m = m /\ n.d = s.d
    BY <2>1, <2>5 DEF StatesOf
  <2>7. Moves("llc", "dram", s.m, m)
    BY <2>3, <2>5, Zenon DEF Moves, Alike, Kept
  <2>8. \A S : UnderLast(n, S) = UnderLast(s, S)
    BY <2>3, <2>5, <2>6 DEF UnderLast
  <2>9. QED
    BY <2>6, <2>7, <2>8
<1>3. CASE dramAccepts(s.d, FALSE)
  <2> DEFINE m == InvalidateAbove(s.m, "llc", e.line)
             d == dramWrite(s.d, e.line)
             i == [s EXCEPT !.m = m]
  <2>1. n = i \/ n = [i EXCEPT !.d = d]
    BY <1>3, Zenon DEF WriteToDram
  <2>2. /\ m \in MemOf(kinds)
        /\ \A x \in Levels : Alike(s.m[x], m[x]) /\ Kept(s.m[x], m[x]) /\ m[x].out = s.m[x].out
    BY <1>1, InvalidateIs
  <2>3. d \in DramOf(kinds) /\ d.waiting = s.d.waiting
    BY <1>1, WriteIs
  <2> HIDE DEF m, d
  <2>4. n \in StatesOf(kinds) /\ n.m = m /\ n.d.waiting = s.d.waiting
    BY <2>1, <2>2, <2>3 DEF StatesOf
  <2>5. Moves("llc", "dram", s.m, m)
    BY <2>2, Zenon DEF Moves
  <2>6. \A S : UnderLast(n, S) = UnderLast(s, S)
    BY <1>1, <2>2, <2>4 DEF UnderLast
  <2>7. QED
    BY <2>4, <2>5, <2>6
<1>4. QED
  BY <1>2, <1>3

LEMMA FetchAllIs ==
  ASSUME NEW kinds, NEW m \in StatesOf(kinds), NEW s \in Seq(Trans(kinds)),
         NEW n, n = FoldLeft(Fetch, m, s)
  PROVE  /\ n \in StatesOf(kinds) /\ Moves("llc", "dram", m.m, n.m)
         /\ \A S \in SUBSET Answerable : UnderLast(n, S) = UnderLast(m, S) + Count(s, S)
<1> DEFINE k0 == Len(s)
           T == StatesOf(kinds)
           R(x, k) == /\ Moves("llc", "dram", m.m, x.m)
                      /\ \A S \in SUBSET Answerable : UnderLast(x, S) + Left(s, k, S) = UnderLast(m, S) + Count(s, S)
           P == [k \in 0 .. k0 |-> {x \in T : R(x, k)}]
<1>1. k0 \in Nat /\ DOMAIN s = 1 .. k0 /\ \A k \in 1 .. k0 : s[k] \in Trans(kinds)
  BY LenProperties, ElementOfSeq
<1>2. ASSUME NEW S
      PROVE  /\ Left(s, 0, S) = Count(s, S) /\ Left(s, k0, S) = 0
             /\ \A k \in 0 .. k0 : Left(s, k, S) \in Nat
             /\ \A k \in 1 .. k0 : Left(s, k - 1, S) = Left(s, k, S) + (IF s[k] \in S THEN 1 ELSE 0)
  BY LeftIs
<1>3. R(m, 0)
  BY <1>2, MovesStill
<1>4. ASSUME NEW k \in 1 .. k0, NEW r \in T
      PROVE  /\ Fetch(r, s[k]) \in T
             /\ R(r, k - 1) => R(Fetch(r, s[k]), k)
  <2> DEFINE e == s[k]
             x == Fetch(r, e)
  <2>1. e \in Trans(kinds)
    BY <1>1
  <2> HIDE DEF e
  <2>2. /\ x \in T /\ Moves("llc", "dram", r.m, x.m)
        /\ \A S \in SUBSET Answerable : UnderLast(x, S) = UnderLast(r, S) + (IF e \in S THEN 1 ELSE 0)
    BY <2>1, FetchIs
  <2> HIDE DEF x
  <2>3. ASSUME R(r, k - 1) PROVE R(x, k)
    <3>1. Moves("llc", "dram", m.m, x.m)
      BY <2>2, <2>3, MovesOn
    <3>2. ASSUME NEW S \in SUBSET Answerable PROVE UnderLast(x, S) + Left(s, k, S) = UnderLast(m, S) + Count(s, S)
      <4>1. UnderLast(x, S) = UnderLast(r, S) + (IF e \in S THEN 1 ELSE 0) /\ UnderLast(r, S) \in Nat
        BY <2>2, UnderLastIs
      <4>2. Left(s, k - 1, S) = Left(s, k, S) + (IF e \in S THEN 1 ELSE 0) /\ Left(s, k, S) \in Nat
        <5>1. k \in 0 .. k0
          BY <1>1
        <5>2. QED
          BY <1>2, <5>1 DEF e
      <4>3. UnderLast(r, S) + Left(s, k - 1, S) = UnderLast(m, S) + Count(s, S)
        BY <2>3
      <4>4. QED
        BY <4>1, <4>2, <4>3
    <3>3. QED
      BY <3>1, <3>2
  <2>4. QED
    BY <2>2, <2>3 DEF x, e
<1>5. n \in T /\ n \in P[k0]
  <2> HIDE DEF R
  <2>1. \A k \in 1 .. k0 : k - 1 \in 0 .. k0 /\ k \in 0 .. k0
    BY <1>1
  <2>2. m \in P[0]
    BY <1>1, <1>3
  <2>3. \A k \in 1 .. k0, r \in T : Fetch(r, s[k]) \in T
    BY <1>4
  <2>4. \A k \in 1 .. k0, r \in T : r \in P[k - 1] => Fetch(r, s[k]) \in P[k]
    BY <1>4, <2>1
  <2> HIDE DEF T, P
  <2>5. m \in T
    BY DEF T
  <2>6. QED
    BY <1>1, <2>2, <2>3, <2>4, <2>5, FetchInduct
<1>6. R(n, k0)
  <2> HIDE DEF R
  <2>1. k0 \in 0 .. k0
    BY <1>1
  <2>2. QED
    BY <1>5, <2>1
<1>7. ASSUME NEW S \in SUBSET Answerable PROVE UnderLast(n, S) = UnderLast(m, S) + Count(s, S)
  <2>1. UnderLast(n, S) + 0 = UnderLast(m, S) + Count(s, S)
    BY <1>2, <1>6
  <2>2. UnderLast(n, S) \in Nat
    BY <1>5, UnderLastIs
  <2>3. QED
    BY <2>1, <2>2
<1>8. QED
  BY <1>5, <1>6, <1>7

LEMMA WriteToDramAllIs ==
  ASSUME NEW kinds, NEW m \in StatesOf(kinds),
         NEW s \in Seq(Victim), NEW n, n = FoldLeft(WriteToDram, m, s)
  PROVE  /\ n \in StatesOf(kinds) /\ Moves("llc", "dram", m.m, n.m)
         /\ \A S \in SUBSET Answerable : UnderLast(n, S) = UnderLast(m, S)
<1> DEFINE k0 == Len(s)
           T == StatesOf(kinds)
           R(x) == /\ Moves("llc", "dram", m.m, x.m)
                   /\ \A S \in SUBSET Answerable : UnderLast(x, S) = UnderLast(m, S)
           P == [k \in 0 .. k0 |-> {x \in T : R(x)}]
<1>1. k0 \in Nat /\ DOMAIN s = 1 .. k0 /\ \A k \in 1 .. k0 : s[k] \in Victim
  BY LenProperties, ElementOfSeq
<1>2. R(m)
  BY MovesStill
<1>3. ASSUME NEW k \in 1 .. k0, NEW r \in T
      PROVE  /\ WriteToDram(r, s[k]) \in T
             /\ R(r) => R(WriteToDram(r, s[k]))
  <2> DEFINE e == s[k]
             x == WriteToDram(r, e)
  <2>1. e \in Victim
    BY <1>1
  <2> HIDE DEF e
  <2>2. /\ x \in T /\ Moves("llc", "dram", r.m, x.m)
        /\ \A S \in SUBSET Answerable : UnderLast(x, S) = UnderLast(r, S)
    BY <2>1, WriteToDramIs
  <2> HIDE DEF x
  <2>3. R(r) => R(x)
    BY <2>2, MovesOn
  <2>4. QED
    BY <2>2, <2>3 DEF x, e
<1>4. n \in T /\ n \in P[k0]
  <2> HIDE DEF R
  <2>1. \A k \in 1 .. k0 : k - 1 \in 0 .. k0 /\ k \in 0 .. k0
    BY <1>1
  <2>2. m \in P[0]
    BY <1>1, <1>2
  <2>3. \A k \in 1 .. k0, r \in T : WriteToDram(r, s[k]) \in T
    BY <1>3
  <2>4. \A k \in 1 .. k0, r \in T : r \in P[k - 1] => WriteToDram(r, s[k]) \in P[k]
    BY <1>3, <2>1
  <2> HIDE DEF T, P
  <2>5. m \in T
    BY DEF T
  <2>6. QED
    BY <1>1, <2>2, <2>3, <2>4, <2>5, WriteToDramInduct
<1>5. R(n)
  <2> HIDE DEF R
  <2>1. k0 \in 0 .. k0
    BY <1>1
  <2>2. QED
    BY <1>4, <2>1
<1>6. QED
  BY <1>4, <1>5

LEMMA SendToDramIs ==
  ASSUME NEW kinds, NEW m \in MemOf(kinds), NEW d \in DramOf(kinds), NEW n, n = sendToDram(m, d)
  PROVE  /\ n \in StatesOf(kinds) /\ Moves("llc", "dram", m, n.m)
         /\ \A S \in SUBSET Answerable :
              Count(n.m["llc"].out, S) + Count(n.d.waiting, S) = Count(m["llc"].out, S) + Count(d.waiting, S)
<1> DEFINE old == m["llc"]
           none == <<>>
           b == [old EXCEPT !.out = none]
           c == [b EXCEPT !.evicts = none]
           calm == [m EXCEPT !["llc"] = c]
           idle == [m |-> calm, d |-> d]
           r == FoldLeft(Fetch, idle, old.out)
<1>1. "llc" \in Levels /\ old \in CacheOf("llc", kinds)
  BY MemGet DEF Levels
<1>2. /\ old.out \in Seq(Trans(kinds)) /\ old.evicts \in Seq(Victim)
      /\ none \in Seq(Trans(kinds)) /\ none \in Seq(Victim)
  <2>1. none \in Seq(Trans(kinds)) /\ none \in Seq(Victim)
    OBVIOUS
  <2> HIDE DEF none, old
  <2>2. QED
    BY <1>1, <2>1, Fields
<1>3. n = FoldLeft(WriteToDram, r, old.evicts)
  <2>1. [m EXCEPT !.llc.out = <<>>, !.llc.evicts = <<>>] = calm /\ m.llc = old
    OBVIOUS
  <2> HIDE DEF calm, old
  <2>2. QED
    BY <2>1, Zenon DEF sendToDram
<1> HIDE DEF none, old
<1>4. b \in CacheOf("llc", kinds) /\ Alike(old, b) /\ Kept(old, b) /\ b.out = none
  BY <1>1, <1>2, OutIs
<1> HIDE DEF b
<1>5. c \in CacheOf("llc", kinds) /\ Alike(b, c) /\ Kept(b, c) /\ c.out = none
  BY <1>2, <1>4, EvictsIs
<1> HIDE DEF c
<1>6. calm \in MemOf(kinds) /\ calm["llc"] = c /\ \A x \in Levels : x # "llc" => calm[x] = m[x]
  <2>1. Replaced(calm, m, "llc", c)
    BY Zenon DEF Replaced
  <2> HIDE DEF calm
  <2>2. QED
    BY <1>1, <1>5, <2>1, MemSet
<1> HIDE DEF calm
<1>7. Moves("llc", "dram", m, calm)
  BY <1>4, <1>5, <1>6, Zenon DEF Moves, Alike, Kept, old
<1>8. idle \in StatesOf(kinds) /\ idle.m = calm /\ idle.d = d
  BY <1>6 DEF StatesOf
<1> HIDE DEF idle
<1>9. /\ r \in StatesOf(kinds) /\ Moves("llc", "dram", idle.m, r.m)
      /\ \A S \in SUBSET Answerable : UnderLast(r, S) = UnderLast(idle, S) + Count(old.out, S)
  BY <1>2, <1>8, FetchAllIs
<1> HIDE DEF r
<1>10. /\ n \in StatesOf(kinds) /\ Moves("llc", "dram", r.m, n.m)
       /\ \A S \in SUBSET Answerable : UnderLast(n, S) = UnderLast(r, S)
  <2> DEFINE w == FoldLeft(WriteToDram, r, old.evicts)
  <2>1. /\ w \in StatesOf(kinds) /\ Moves("llc", "dram", r.m, w.m)
        /\ \A S \in SUBSET Answerable : UnderLast(w, S) = UnderLast(r, S)
    BY <1>2, <1>9, WriteToDramAllIs
  <2>2. n = w
    BY <1>3, Zenon
  <2> HIDE DEF w
  <2>3. QED
    BY <2>1, <2>2
<1>11. Moves("llc", "dram", m, n.m)
  <2>1. Moves("llc", "dram", m, r.m)
    BY <1>7, <1>8, <1>9, MovesOn
  <2>2. QED
    BY <1>10, <2>1, MovesOn
<1>12. ASSUME NEW S \in SUBSET Answerable
       PROVE  Count(n.m["llc"].out, S) + Count(n.d.waiting, S) = Count(old.out, S) + Count(d.waiting, S)
  <2>1. UnderLast(n, S) = UnderLast(idle, S) + Count(old.out, S)
    BY <1>9, <1>10
  <2>2. UnderLast(idle, S) = 0 + Count(d.waiting, S)
    BY <1>5, <1>6, <1>8, CountEmpty DEF UnderLast, none
  <2>3. Count(d.waiting, S) \in Nat /\ Count(old.out, S) \in Nat
    <3>1. d.waiting \in Seq(Trans(kinds \ {"evict"}))
      BY DEF DramOf
    <3>2. QED
      BY <1>2, <3>1, CountIs
  <2>4. QED
    BY <2>1, <2>2, <2>3 DEF UnderLast
<1>13. QED
  BY <1>10, <1>11, <1>12 DEF old

-----------------------------------------------------------------------------
(* All levels and the DRAM.                                                *)

(* What is on its way below a level, per line.                             *)
Below(m, d, l) ==
  [x \in Lines |-> IF l = "llc" THEN Count(d.waiting, Misses(l, x))
                               ELSE CountKept(m[nextCache(l)], Misses(l, x))]

Even(m, d) == \A l \in Levels : Balanced(l, m[l], Below(m, d, l))

(* All of the invariant that is about caches and DRAM alone.               *)
Good(kinds, m, d) ==
  /\ m \in MemOf(kinds) /\ d \in DramOf(kinds) /\ Even(m, d)
  /\ Clean(m["l2"]) /\ Clean(m["llc"]) /\ ("prefetch" \notin kinds => Clean(m["l1"]))

LEMMA BelowIs ==
  ASSUME NEW kinds, NEW m \in MemOf(kinds), NEW d \in DramOf(kinds), NEW l \in Levels
  PROVE  Below(m, d, l) \in [Lines -> Nat]
<1>1. ASSUME NEW S PROVE Count(d.waiting, S) \in Nat
  <2>1. d.waiting \in Seq(Trans(kinds \ {"evict"}))
    BY DEF DramOf
  <2>2. QED
    BY <2>1, CountIs
<1>2. ASSUME NEW S PROVE CountKept(m[nextCache(l)], S) \in Nat
  <2>1. nextCache(l) \in Levels
    BY DEF nextCache, Levels
  <2>2. m[nextCache(l)] \in CacheOf(nextCache(l), kinds)
    BY <2>1, MemGet
  <2>3. QED
    BY <2>2, KeptIs
<1>3. QED
  BY <1>1, <1>2 DEF Below

LEMMA SentIs ==
  ASSUME NEW kinds, NEW m \in MemOf(kinds), NEW l \in Levels, NEW S
  PROVE  Count(m[l].out, S) \in Nat /\ Count(m[l].resp, S) \in Nat
<1>1. m[l] \in CacheOf(l, kinds)
  BY MemGet
<1>2. m[l].out \in Seq(Trans(kinds)) /\ m[l].resp \in Seq(Trans(kinds \ {"evict"}))
  BY <1>1, Fields
<1>3. QED
  BY <1>2, CountIs

LEMMA MissesAre ==
  /\ \A l \in Levels, x \in Lines : Misses(l, x) \in SUBSET Answerable
  /\ \A l \in {"l2", "llc"} : \A y, x : x \in Lines => Misses(y, x) \in SUBSET Trans(MissKinds(l))
<1>1. QED
  BY DEF Misses, MissKinds, Answerable, Trans, Kinds

LEMMA MovesEven ==
  ASSUME NEW kinds, NEW m \in MemOf(kinds), NEW n \in MemOf(kinds), NEW d \in DramOf(kinds),
         NEW l \in Upper, Moves(l, nextCache(l), m, n),
         \A S \in SUBSET Answerable : Under(n, l, S) = Under(m, l, S), Even(m, d)
  PROVE  Even(n, d)
<1>1. ASSUME NEW y \in Levels, NEW x \in Lines
      PROVE  Count(n[y].out, Misses(y, x)) + Count(n[y].resp, Misses(y, x)) + Below(n, d, y)[x]
               = Owes(n[y], x)
  <2> DEFINE S == Misses(y, x)
  <2>1. Count(m[y].out, S) + Count(m[y].resp, S) + Below(m, d, y)[x] = Owes(m[y], x)
    BY DEF Even, Balanced
  <2>2. Owes(n[y], x) = Owes(m[y], x) /\ n[y].resp = m[y].resp
    BY DEF Moves, Alike, Owes
  <2>3. CASE y = l
    <3>1. /\ Below(m, d, y)[x] = CountKept(m[nextCache(l)], S)
          /\ Below(n, d, y)[x] = CountKept(n[nextCache(l)], S)
      BY <2>3 DEF Below, Upper
    <3>2. Count(n[l].out, S) + CountKept(n[nextCache(l)], S) = Count(m[l].out, S) + CountKept(m[nextCache(l)], S)
      BY MissesAre DEF Under
    <3>3. /\ Count(m[l].out, S) \in Nat /\ CountKept(m[nextCache(l)], S) \in Nat
          /\ Count(n[l].out, S) \in Nat /\ CountKept(n[nextCache(l)], S) \in Nat
      BY UnderIs
    <3>4. Count(m[y].resp, S) \in Nat
      BY SentIs
    <3> DEFINE a == Count(m[y].out, S)  b == CountKept(m[nextCache(l)], S)
               c == Count(n[y].out, S)  e == CountKept(n[nextCache(l)], S)
               p == Count(m[y].resp, S)
    <3>5. a \in Nat /\ b \in Nat /\ c \in Nat /\ e \in Nat /\ p \in Nat /\ c + e = a + b
      BY <2>3, <3>2, <3>3, <3>4
    <3>6. a + p + b = Owes(n[y], x)
      BY <2>1, <2>2, <3>1
    <3>7. Count(n[y].out, S) + Count(n[y].resp, S) + Below(n, d, y)[x] = c + p + e
      BY <2>2, <3>1
    <3> HIDE DEF a, b, c, e, p
    <3>8. a + p + b = c + p + e
      BY <3>5
    <3>9. QED
      BY <3>6, <3>7, <3>8
  <2>4. CASE y # l
    <3>1. n[y].out = m[y].out
      BY <2>4 DEF Moves
    <3>2. Below(n, d, y)[x] = Below(m, d, y)[x]
      <4>1. CASE y = "llc"
        BY <4>1 DEF Below
      <4>2. CASE y # "llc"
        <5>1. nextCache(y) \in Levels /\ nextCache(y) # nextCache(l)
          BY <2>4, <4>2 DEF Levels, Upper, nextCache
        <5>2. CountKept(n[nextCache(y)], S) = CountKept(m[nextCache(y)], S)
          BY <5>1 DEF Moves, Kept
        <5>3. QED
          BY <4>2, <5>2 DEF Below
      <4>3. QED
        BY <4>1, <4>2
    <3>3. QED
      BY <2>1, <2>2, <3>1, <3>2
  <2>5. QED
    BY <2>3, <2>4
<1>2. QED
  BY <1>1 DEF Even, Balanced

LEMMA MovesClean ==
  ASSUME NEW kinds, NEW m, NEW n, NEW d, NEW e, NEW from, NEW to, Moves(from, to, m, n),
         Good(kinds, m, d), n \in MemOf(kinds), e \in DramOf(kinds), Even(n, e)
  PROVE  Good(kinds, n, e)
<1>1. \A l \in Levels : Clean(m[l]) => Clean(n[l])
  BY DEF Moves, Alike
<1>2. "l1" \in Levels /\ "l2" \in Levels /\ "llc" \in Levels
  BY DEF Levels
<1>3. QED
  BY <1>1, <1>2 DEF Good

(* sendRequests of the first two levels, and of the last.                  *)
LEMMA SendGood ==
  ASSUME NEW kinds, "evict" \in kinds, NEW m, NEW d, Good(kinds, m, d), NEW l \in Upper,
         NEW n, n = sendRequests(m, l)
  PROVE  Good(kinds, n, d) /\ Kept(m["l1"], n["l1"])
<1>1. m \in MemOf(kinds) /\ d \in DramOf(kinds) /\ Even(m, d)
  BY DEF Good
<1>2. /\ n \in MemOf(kinds) /\ Moves(l, nextCache(l), m, n)
      /\ \A S \in SUBSET Answerable : Under(n, l, S) = Under(m, l, S)
  BY <1>1, SendIs
<1>3. Even(n, d)
  BY <1>1, <1>2, MovesEven
<1>4. Good(kinds, n, d)
  BY <1>1, <1>2, <1>3, MovesClean
<1>5. "l1" \in Levels /\ "l1" # nextCache(l)
  BY DEF Levels, Upper, nextCache
<1>6. Kept(m["l1"], n["l1"])
  BY <1>2, <1>5 DEF Moves
<1>7. QED
  BY <1>4, <1>6

LEMMA SendToDramGood ==
  ASSUME NEW kinds, NEW m, NEW d, Good(kinds, m, d), NEW n, n = sendToDram(m, d)
  PROVE  Good(kinds, n.m, n.d) /\ Kept(m["l1"], n.m["l1"])
<1>1. m \in MemOf(kinds) /\ d \in DramOf(kinds) /\ Even(m, d)
  BY DEF Good
<1>2. /\ n \in StatesOf(kinds) /\ Moves("llc", "dram", m, n.m)
      /\ \A S \in SUBSET Answerable :
           Count(n.m["llc"].out, S) + Count(n.d.waiting, S) = Count(m["llc"].out, S) + Count(d.waiting, S)
  BY <1>1, SendToDramIs
<1>3. n.m \in MemOf(kinds) /\ n.d \in DramOf(kinds)
  BY <1>2 DEF StatesOf
<1>4. Even(n.m, n.d)
  <2>1. ASSUME NEW y \in Levels, NEW x \in Lines
        PROVE  Count(n.m[y].out, Misses(y, x)) + Count(n.m[y].resp, Misses(y, x)) + Below(n.m, n.d, y)[x]
                 = Owes(n.m[y], x)
    <3> DEFINE S == Misses(y, x)
    <3>1. Count(m[y].out, S) + Count(m[y].resp, S) + Below(m, d, y)[x] = Owes(m[y], x)
      BY <1>1 DEF Even, Balanced
    <3>2. Owes(n.m[y], x) = Owes(m[y], x) /\ n.m[y].resp = m[y].resp
      BY <1>2 DEF Moves, Alike, Owes
    <3>3. CASE y = "llc"
      <4>1. Below(m, d, y)[x] = Count(d.waiting, S) /\ Below(n.m, n.d, y)[x] = Count(n.d.waiting, S)
        BY <3>3 DEF Below
      <4>2. Count(n.m[y].out, S) + Count(n.d.waiting, S) = Count(m[y].out, S) + Count(d.waiting, S)
        BY <1>2, <3>3, MissesAre
      <4>3. Count(m[y].out, S) \in Nat /\ Count(m[y].resp, S) \in Nat
        BY <1>1, SentIs
      <4>4. Count(n.m[y].out, S) \in Nat
        BY <1>3, SentIs
      <4>5. Below(m, d, y)[x] \in Nat
        BY <1>1, BelowIs
      <4>6. Below(n.m, n.d, y)[x] \in Nat
        <5>1. Below(n.m, n.d, y) \in [Lines -> Nat]
          BY <1>3, BelowIs
        <5>2. QED
          BY <5>1
      <4> DEFINE a == Count(m[y].out, S)    b == Below(m, d, y)[x]
                 c == Count(n.m[y].out, S)  e == Below(n.m, n.d, y)[x]
                 p == Count(m[y].resp, S)
      <4>7. a \in Nat /\ b \in Nat /\ c \in Nat /\ e \in Nat /\ p \in Nat /\ c + e = a + b
        BY <4>1, <4>2, <4>3, <4>4, <4>5, <4>6
      <4>8. a + p + b = Owes(n.m[y], x)
        BY <3>1, <3>2
      <4>9. Count(n.m[y].out, S) + Count(n.m[y].resp, S) + Below(n.m, n.d, y)[x] = c + p + e
        BY <3>2
      <4> HIDE DEF a, b, c, e, p
      <4>10. a + p + b = c + p + e
        BY <4>7
      <4>11. QED
        BY <4>8, <4>9, <4>10
    <3>4. CASE y # "llc"
      <4>1. n.m[y].out = m[y].out
        BY <1>2, <3>4 DEF Moves
      <4>2. nextCache(y) \in Levels /\ nextCache(y) # "dram"
        BY DEF Levels, nextCache
      <4>3. CountKept(n.m[nextCache(y)], S) = CountKept(m[nextCache(y)], S)
        BY <1>2, <4>2 DEF Moves, Kept
      <4>4. Below(n.m, n.d, y)[x] = Below(m, d, y)[x]
        BY <3>4, <4>3 DEF Below
      <4>5. QED
        BY <3>1, <3>2, <4>1, <4>4
    <3>5. QED
      BY <3>3, <3>4
  <2>2. QED
    BY <2>1 DEF Even, Balanced
<1>5. Good(kinds, n.m, n.d)
  BY <1>2, <1>3, <1>4, MovesClean
<1>6. "l1" \in Levels /\ "l1" # "dram"
  BY DEF Levels
<1>7. Kept(m["l1"], n.m["l1"])
  BY <1>2, <1>6 DEF Moves
<1>8. QED
  BY <1>5, <1>7

(* The rest of a call adds but its prefetches to a level, and leaves the    *)
(* data cache alone if it is not its own.                                  *)
Adds(l, m, n, extra) ==
  \A S \in SUBSET Trans(MissKinds(l)) : CountKept(n[l], S) = CountKept(m[l], S) + Count(extra, S)
Leaves(l, m, n) == l # "l1" => n["l1"] = m["l1"]

LEMMA RestGood ==
  ASSUME NEW kinds \in SUBSET Kinds, NEW m, NEW d, Good(kinds, m, d), NEW l \in Levels,
         NEW extra \in Seq(Trans(kinds)), extra = <<>> \/ l = "l1",
         NEW due \in Orders(Queued(m[l], l, m[l].in \o extra)),
         NEW n, Replaced(n, m, l, Rest(m[l], l, extra, due))
  PROVE  Good(kinds, n, d) /\ Leaves(l, m, n) /\ Adds(l, m, n, extra)
<1> DEFINE c == Rest(m[l], l, extra, due)
<1>1. m \in MemOf(kinds) /\ d \in DramOf(kinds) /\ Even(m, d) /\ m[l] \in CacheOf(l, kinds)
  BY MemGet DEF Good
<1>2. c \in CacheOf(l, kinds)
  BY <1>1, RestIs
<1>3. \A S \in SUBSET Trans(MissKinds(l)) : CountKept(c, S) = CountKept(m[l], S) + Count(extra, S)
  BY <1>1, RestIs
<1>4. \A N \in [Lines -> Nat] :
        Balanced(l, m[l], N) =>
          /\ Balanced(l, c, N)
          /\ Clean(m[l]) /\ (l = "l1" => "prefetch" \notin kinds) => Clean(c)
  BY <1>1, RestIs
<1>5. n \in MemOf(kinds) /\ n[l] = c /\ \A x \in Levels : x # l => n[x] = m[x]
  BY <1>1, <1>2, MemSet
<1> HIDE DEF c
<1>6. Below(m, d, l) \in [Lines -> Nat] /\ Balanced(l, m[l], Below(m, d, l))
  BY <1>1, BelowIs DEF Even
<1>7. Balanced(l, c, Below(m, d, l)) /\ (Clean(m[l]) /\ (l = "l1" => "prefetch" \notin kinds) => Clean(c))
  BY <1>4, <1>6
<1>8. ASSUME NEW y \in Levels, NEW x \in Lines PROVE Below(n, d, y)[x] = Below(m, d, y)[x]
  <2>1. CASE y = "llc"
    BY <2>1 DEF Below
  <2>2. CASE y # "llc" /\ nextCache(y) # l
    <3>1. nextCache(y) \in Levels
      BY DEF nextCache, Levels
    <3>2. n[nextCache(y)] = m[nextCache(y)]
      BY <1>5, <2>2, <3>1
    <3>3. QED
      BY <2>2, <3>2 DEF Below
  <2>3. CASE y # "llc" /\ nextCache(y) = l
    <3>1. l \in {"l2", "llc"}
      BY <2>3 DEF nextCache
    <3>2. Misses(y, x) \in SUBSET Trans(MissKinds(l))
      BY <3>1, MissesAre
    <3>3. CountKept(c, Misses(y, x)) = CountKept(m[l], Misses(y, x)) + 0
      BY <1>3, <3>1, <3>2, CountEmpty
    <3>4. CountKept(m[l], Misses(y, x)) \in Nat
      BY <1>1, KeptIs
    <3>5. QED
      BY <1>5, <2>3, <3>3, <3>4 DEF Below
  <2>4. QED
    BY <2>1, <2>2, <2>3
<1>9. Even(n, d)
  <2>1. ASSUME NEW y \in Levels PROVE Balanced(y, n[y], Below(n, d, y))
    <3>1. Balanced(y, n[y], Below(m, d, y))
      <4>1. CASE y = l
        BY <1>5, <1>7, <4>1
      <4>2. CASE y # l
        BY <1>1, <1>5, <4>2 DEF Even
      <4>3. QED
        BY <4>1, <4>2
    <3>2. QED
      BY <1>8, <3>1 DEF Balanced
  <2>2. QED
    BY <2>1 DEF Even
<1>10. Good(kinds, n, d)
  <2>1. "l1" \in Levels /\ "l2" \in Levels /\ "llc" \in Levels
    BY DEF Levels
  <2>2. QED
    BY <1>1, <1>5, <1>7, <1>9, <2>1 DEF Good
<1>11. l # "l1" => n["l1"] = m["l1"]
  BY <1>5 DEF Levels
<1>12. QED
  BY <1>3, <1>5, <1>10, <1>11 DEF Adds, Leaves

-----------------------------------------------------------------------------
(* Responses, and what the data cache receives and answers.                *)

LEMMA BackIs ==
  ASSUME NEW l, NEW kinds, NEW c \in CacheOf(l, kinds), NEW d, d = [c EXCEPT !.back = <<>>]
  PROVE  /\ d \in CacheOf(l, kinds) /\ Alike(c, d) /\ d.out = c.out
         /\ \A S : CountKept(c, S) = CountKept(d, S) + Count(c.back, S)
<1>1. <<>> \in Seq(Trans(kinds \ {"evict"}))
  OBVIOUS
<1>2. /\ d \in CacheOf(l, kinds) /\ d.set = c.set /\ d.back = <<>>
      /\ d.mshr = c.mshr /\ d.resp = c.resp /\ d.pq = c.pq /\ d.in = c.in
      /\ d.stalled = c.stalled /\ d.out = c.out
  BY <1>1 DEF CacheOf
<1>3. missing(d) = missing(c)
  BY <1>2, Zenon DEF missing
<1>4. Clean(c) => Clean(d)
  BY <1>2, <1>3, Zenon DEF Clean
<1>5. ASSUME NEW S PROVE CountKept(c, S) = CountKept(d, S) + Count(c.back, S)
  <2>1. /\ Count(c.in, S) \in Nat /\ Count(c.pq, Entry(S)) \in Nat
        /\ Count(c.stalled, S) \in Nat /\ CountWaiting(c.mshr, S) \in Nat /\ Count(c.back, S) \in Nat
    BY KeptIs
  <2>2. Count(<<>>, S) = 0
    BY CountEmpty
  <2>3. QED
    BY <1>2, <2>1, <2>2 DEF CountKept
<1>6. QED
  BY <1>2, <1>3, <1>4, <1>5 DEF Alike

LEMMA RespIs ==
  ASSUME NEW l, NEW kinds, NEW c \in CacheOf(l, kinds), NEW resp \in Seq(Trans(kinds \ {"evict"})),
         NEW d, d = [c EXCEPT !.resp = resp]
  PROVE  /\ d \in CacheOf(l, kinds) /\ Kept(c, d) /\ d.out = c.out
         /\ d.resp = resp /\ missing(d) = missing(c) /\ (Clean(c) => Clean(d))
<1>1. /\ d \in CacheOf(l, kinds) /\ d.set = c.set /\ d.back = c.back
      /\ d.mshr = c.mshr /\ d.resp = resp /\ d.pq = c.pq /\ d.in = c.in
      /\ d.stalled = c.stalled /\ d.out = c.out
  BY DEF CacheOf
<1>2. missing(d) = missing(c)
  BY <1>1, Zenon DEF missing
<1>3. Clean(c) => Clean(d)
  BY <1>1, <1>2, Zenon DEF Clean
<1>4. Kept(c, d)
  BY <1>1, Zenon DEF CountKept, Kept
<1>5. QED
  BY <1>1, <1>2, <1>3, <1>4

(* The data cache has no level before it.                                  *)
LEMMA FirstGood ==
  ASSUME NEW kinds, NEW m, NEW d, Good(kinds, m, d), NEW c \in CacheOf("l1", kinds),
         Alike(m["l1"], c), c.out = m["l1"].out, NEW n, Replaced(n, m, "l1", c)
  PROVE  Good(kinds, n, d) /\ n["l1"] = c
<1>1. "l1" \in Levels /\ "l2" \in Levels /\ "llc" \in Levels
  BY DEF Levels
<1>2. n \in MemOf(kinds) /\ n["l1"] = c /\ \A x \in Levels : x # "l1" => n[x] = m[x]
  BY <1>1, MemSet DEF Good
<1>3. ASSUME NEW y \in Levels PROVE Balanced(y, n[y], Below(n, d, y))
  <2>1. Balanced(y, m[y], Below(m, d, y))
    BY DEF Good, Even
  <2>2. Below(n, d, y) = Below(m, d, y)
    <3>1. nextCache(y) \in Levels /\ nextCache(y) # "l1"
      BY DEF nextCache, Levels
    <3>2. n[nextCache(y)] = m[nextCache(y)]
      BY <1>2, <3>1
    <3>3. QED
      BY <3>2, Zenon DEF Below
  <2>3. /\ n[y].out = m[y].out /\ n[y].resp = m[y].resp
        /\ \A x : Owes(n[y], x) = Owes(m[y], x)
    BY <1>2 DEF Alike, Owes
  <2>4. QED
    BY <2>1, <2>2, <2>3, Zenon DEF Balanced
<1>4. Even(n, d)
  BY <1>3 DEF Even
<1>5. QED
  BY <1>1, <1>2, <1>4 DEF Good, Alike

LEMMA RespondGood ==
  ASSUME NEW kinds, NEW m, NEW d, Good(kinds, m, d), NEW to \in Upper, NEW from,
         from = nextCache(to), NEW n, n = Respond(m, from, to)
  PROVE  Good(kinds, n, d) /\ Kept(m["l1"], n["l1"])
<1> DEFINE resp == m[to].resp \o m[from].back
           c == [m[to] EXCEPT !.resp = resp]
           b == [m[from] EXCEPT !.back = <<>>]
           half == [m EXCEPT ![to] = c]
<1>1. to \in Levels /\ from \in Levels /\ from # to /\ from # "l1"
  BY DEF Levels, Upper, nextCache
<1>2. /\ m \in MemOf(kinds) /\ d \in DramOf(kinds) /\ Even(m, d)
      /\ m[to] \in CacheOf(to, kinds) /\ m[from] \in CacheOf(from, kinds)
  BY <1>1, MemGet DEF Good
<1>3. m[to].resp \in Seq(Trans(kinds \ {"evict"})) /\ m[from].back \in Seq(Trans(kinds \ {"evict"}))
  BY <1>2, Fields
<1>4. /\ resp \in Seq(Trans(kinds \ {"evict"}))
      /\ \A S : Count(resp, S) = Count(m[to].resp, S) + Count(m[from].back, S)
  BY <1>3, CountCat, ConcatProperties
<1>5. n = [half EXCEPT ![from] = b]
  <2>1. m[from] = half[from]
    BY <1>1 DEF half
  <2>2. n = [half EXCEPT ![from] = [half[from] EXCEPT !.back = <<>>]]
    BY DEF Respond
  <2> HIDE DEF half
  <2>3. QED
    BY <2>1, <2>2, Zenon
<1> HIDE DEF resp
<1>6. /\ c \in CacheOf(to, kinds) /\ Kept(m[to], c) /\ c.out = m[to].out
      /\ c.resp = resp /\ missing(c) = missing(m[to]) /\ (Clean(m[to]) => Clean(c))
  BY <1>2, <1>4, RespIs
<1>7. /\ b \in CacheOf(from, kinds) /\ Alike(m[from], b) /\ b.out = m[from].out
      /\ \A S : CountKept(m[from], S) = CountKept(b, S) + Count(m[from].back, S)
  BY <1>2, BackIs
<1> HIDE DEF c, b
<1>8. half \in MemOf(kinds) /\ half[to] = c /\ \A x \in Levels : x # to => half[x] = m[x]
  <2>1. Replaced(half, m, to, c)
    BY Zenon DEF Replaced
  <2> HIDE DEF half
  <2>2. QED
    BY <1>1, <1>2, <1>6, <2>1, MemSet
<1> HIDE DEF half
<1>9. /\ n \in MemOf(kinds) /\ n[from] = b /\ n[to] = c
      /\ \A x \in Levels : x # from /\ x # to => n[x] = m[x]
  <2>1. Replaced(n, half, from, b)
    BY <1>5, Zenon DEF Replaced
  <2>2. n \in MemOf(kinds) /\ n[from] = b /\ \A x \in Levels : x # from => n[x] = half[x]
    BY <1>1, <1>7, <1>8, <2>1, MemSet
  <2>3. QED
    BY <1>1, <1>8, <2>2
<1>10. ASSUME NEW y \in Levels
       PROVE  /\ n[y].out = m[y].out /\ missing(n[y]) = missing(m[y])
              /\ Clean(m[y]) => Clean(n[y])
              /\ y # to => n[y].resp = m[y].resp
              /\ y # from => Kept(m[y], n[y])
  BY <1>6, <1>7, <1>9 DEF Alike, Kept
<1>11. ASSUME NEW y \in Levels, NEW x \in Lines
       PROVE  Count(n[y].out, Misses(y, x)) + Count(n[y].resp, Misses(y, x)) + Below(n, d, y)[x]
                = Owes(n[y], x)
  <2> DEFINE S == Misses(y, x)
  <2>1. Count(m[y].out, S) + Count(m[y].resp, S) + Below(m, d, y)[x] = Owes(m[y], x)
    BY <1>2 DEF Even, Balanced
  <2>2. Owes(n[y], x) = Owes(m[y], x) /\ n[y].out = m[y].out
    BY <1>10 DEF Owes
  <2>3. CASE y = to
    <3>1. Below(m, d, y)[x] = CountKept(m[from], S) /\ Below(n, d, y)[x] = CountKept(n[from], S)
      BY <2>3 DEF Below, Upper
    <3>2. Count(m[y].out, S) \in Nat /\ Count(m[y].resp, S) \in Nat
      BY <1>2, SentIs
    <3>3. CountKept(b, S) \in Nat /\ Count(m[from].back, S) \in Nat
      BY <1>3, <1>7, KeptIs, CountIs
    <3> DEFINE o == Count(m[y].out, S)  p == Count(m[y].resp, S)
               k == CountKept(b, S)     q == Count(m[from].back, S)
    <3>4. o \in Nat /\ p \in Nat /\ k \in Nat /\ q \in Nat
      BY <3>2, <3>3
    <3>5. CountKept(m[from], S) = k + q
      BY <1>7
    <3>6. o + p + (k + q) = Owes(n[y], x)
      BY <2>1, <2>2, <3>1, <3>5
    <3>7. Count(n[y].resp, S) = p + q
      BY <1>4, <1>6, <1>9, <2>3
    <3>8. Count(n[y].out, S) + Count(n[y].resp, S) + Below(n, d, y)[x] = o + (p + q) + k
      BY <1>9, <2>2, <3>1, <3>7
    <3> HIDE DEF o, p, k, q
    <3>9. o + p + (k + q) = o + (p + q) + k
      BY <3>4
    <3>10. QED
      BY <3>6, <3>8, <3>9
  <2>4. CASE y # to
    <3>1. n[y].resp = m[y].resp
      BY <1>10, <2>4
    <3>2. Below(n, d, y)[x] = Below(m, d, y)[x]
      <4>1. CASE y = "llc"
        BY <4>1 DEF Below
      <4>2. CASE y # "llc"
        <5>1. nextCache(y) \in Levels /\ nextCache(y) # from
          BY <2>4, <4>2 DEF Levels, Upper, nextCache
        <5>2. CountKept(n[nextCache(y)], S) = CountKept(m[nextCache(y)], S)
          BY <1>10, <5>1 DEF Kept
        <5>3. QED
          BY <4>2, <5>2 DEF Below
      <4>3. QED
        BY <4>1, <4>2
    <3>3. QED
      BY <2>1, <2>2, <3>1, <3>2
  <2>5. QED
    BY <2>3, <2>4
<1>12. Even(n, d)
  BY <1>11 DEF Even, Balanced
<1>13. Good(kinds, n, d)
  <2>1. "l1" \in Levels /\ "l2" \in Levels /\ "llc" \in Levels
    BY DEF Levels
  <2>2. QED
    BY <1>2, <1>9, <1>10, <1>12, <2>1 DEF Good
<1>14. Kept(m["l1"], n["l1"])
  <2>1. "l1" \in Levels
    BY DEF Levels
  <2>2. QED
    BY <1>1, <1>10, <2>1
<1>15. QED
  BY <1>13, <1>14

(* With the first prefetch there may be prefetches everywhere.             *)
LEMMA CacheGrows ==
  ASSUME NEW l, NEW kinds, NEW more, kinds \subseteq more, NEW c \in CacheOf(l, kinds)
  PROVE  c \in CacheOf(l, more)
<1> DEFINE E == kinds \ {"evict"}  F == more \ {"evict"}
<1>1. /\ Trans(kinds) \subseteq Trans(more) /\ Trans(E) \subseteq Trans(F)
      /\ Asked(l, kinds) \subseteq Asked(l, more) /\ Entry(Trans(kinds)) \subseteq Entry(Trans(more))
  BY DEF Trans, Asked, Entry
<1>2. c.in \in Seq(Trans(more))
  <2>1. c.in \in Seq(Trans(kinds))
    BY Fields
  <2>2. QED
    BY <1>1, <2>1, SeqWithin
<1>3. c.out \in Seq(Trans(more))
  <2>1. c.out \in Seq(Trans(kinds))
    BY Fields
  <2>2. QED
    BY <1>1, <2>1, SeqWithin
<1>4. c.resp \in Seq(Trans(F)) /\ c.back \in Seq(Trans(F))
  <2>1. c.resp \in Seq(Trans(E)) /\ c.back \in Seq(Trans(E))
    BY Fields
  <2> HIDE DEF E, F
  <2>2. QED
    BY <1>1, <2>1, SeqWithin
<1>5. c.stalled \in Seq(Asked(l, more))
  BY <1>1, Fields, SeqWithin
<1>6. c.pq \in Seq(Entry(Trans(more)))
  <2>1. c.pq \in Seq(Entry(Trans(kinds)))
    BY Fields
  <2>2. QED
    BY <1>1, <2>1, SeqWithin
<1>7. c.mshr \in Mshrs(Asked(l, more))
  <2>1. c.mshr \in [Lines -> Seq(Asked(l, kinds))]
    BY Fields DEF Mshrs
  <2>2. \A x \in Lines : c.mshr[x] \in Seq(Asked(l, more))
    BY <1>1, <2>1, SeqWithin
  <2>3. QED
    BY <2>1, <2>2 DEF Mshrs
<1>8. QED
  BY <1>2, <1>3, <1>4, <1>5, <1>6, <1>7 DEF CacheOf

LEMMA GoodGrows ==
  ASSUME NEW kinds, NEW more, kinds \subseteq more, NEW m, NEW d, Good(kinds, m, d),
         "prefetch" \in more
  PROVE  Good(more, m, d)
<1>1. m \in MemOf(kinds) /\ d \in DramOf(kinds)
  BY DEF Good
<1>2. m.l1 \in CacheOf("l1", kinds) /\ m.l2 \in CacheOf("l2", kinds) /\ m.llc \in CacheOf("llc", kinds)
  BY <1>1 DEF MemOf
<1>3. m.l1 \in CacheOf("l1", more)
  BY <1>2, CacheGrows
<1>4. m.l2 \in CacheOf("l2", more)
  BY <1>2, CacheGrows
<1>5. m.llc \in CacheOf("llc", more)
  BY <1>2, CacheGrows
<1>6. m \in MemOf(more)
  BY <1>1, <1>3, <1>4, <1>5 DEF MemOf
<1>7. d \in DramOf(more)
  <2> DEFINE E == Trans(kinds \ {"evict"})  F == Trans(more \ {"evict"})
  <2>1. E \subseteq F /\ d.waiting \in Seq(E)
    BY <1>1 DEF Trans, DramOf
  <2>2. d.waiting \in Seq(F)
    <3> HIDE DEF E, F
    <3>1. QED
      BY <2>1, SeqWithin
  <2>3. QED
    BY <1>1, <2>2 DEF DramOf
<1>8. QED
  BY <1>6, <1>7 DEF Good

(* The last level after the DRAM has answered done, and the DRAM.          *)
Responded(c, waiting, done) == [c EXCEPT !.resp = c.resp \o Keep(waiting, done)]
Rested(ops, waiting, done) ==
  [ops |-> ops, waiting |-> Keep(waiting, ToSet(waiting) \ done),
   reads |-> DramReadPorts, writes |-> DramWritePorts]

LEMMA DramGood ==
  ASSUME NEW kinds, NEW m, NEW d, Good(kinds, m, d), NEW done \in SUBSET ToSet(d.waiting),
         NEW ops \in Seq(Operation), NEW n, Replaced(n, m, "llc", Responded(m["llc"], d.waiting, done)),
         NEW e, e = Rested(ops, d.waiting, done)
  PROVE  Good(kinds, n, e) /\ n["l1"] = m["l1"]
<1> DEFINE E == Trans(kinds \ {"evict"})
           w == d.waiting
           gone == Keep(w, done)
           left == Keep(w, ToSet(w) \ done)
           resp == m["llc"].resp \o Keep(d.waiting, done)
           c == Responded(m["llc"], d.waiting, done)
<1>1. /\ m \in MemOf(kinds) /\ d \in DramOf(kinds) /\ Even(m, d)
      /\ "l1" \in Levels /\ "l2" \in Levels /\ "llc" \in Levels
  BY DEF Good, Levels
<1>2. w \in Seq(E) /\ m["llc"] \in CacheOf("llc", kinds)
  BY <1>1, MemGet DEF DramOf
<1>3. m["llc"].resp \in Seq(E)
  BY <1>2, Fields
<1>4. /\ gone \in Seq(E \cap done) /\ \A U : Count(gone, U) = Count(w, U \cap done)
      /\ left \in Seq(E \cap (ToSet(w) \ done)) /\ \A U : Count(left, U) = Count(w, U \cap (ToSet(w) \ done))
  <2> DEFINE rest == ToSet(w) \ done
  <2> HIDE DEF w, E, rest
  <2>1. /\ Keep(w, done) \in Seq(E \cap done)
        /\ \A U : Count(Keep(w, done), U) = Count(w, U \cap done)
    BY <1>2, KeepIs
  <2>2. /\ Keep(w, rest) \in Seq(E \cap rest)
        /\ \A U : Count(Keep(w, rest), U) = Count(w, U \cap rest)
    BY <1>2, KeepIs
  <2>3. QED
    BY <2>1, <2>2 DEF rest
<1>5. ASSUME NEW U PROVE Count(w, U) = Count(gone, U) + Count(left, U)
  <2> HIDE DEF w, E, gone, left
  <2>1. Count(w, U) = Count(w, U \cap done) + Count(w, U \ done)
    BY <1>2, CountSplit
  <2>2. Count(w, U \ done) = Count(w, U \cap (ToSet(w) \ done))
    <3>1. \A i \in 1 .. Len(w) : w[i] \in ToSet(w)
      BY <1>2, LenProperties DEF ToSet
    <3>2. {i \in 1 .. Len(w) : w[i] \in U \ done} = {i \in 1 .. Len(w) : w[i] \in U \cap (ToSet(w) \ done)}
      BY <3>1
    <3>3. QED
      BY <1>2, <3>2, CountIs, ZenonT(40)
  <2>3. QED
    BY <1>4, <2>1, <2>2
<1>6. gone \in Seq(E) /\ left \in Seq(E)
  <2> DEFINE F == E \cap done  G == E \cap (ToSet(w) \ done)
  <2>1. gone \in Seq(F) /\ left \in Seq(G) /\ F \subseteq E /\ G \subseteq E
    BY <1>4
  <2> HIDE DEF gone, left, E, F, G
  <2>2. QED
    BY <2>1, SeqWithin
<1> HIDE DEF gone, left
<1>7. resp \in Seq(E) /\ \A S : Count(resp, S) = Count(m["llc"].resp, S) + Count(gone, S)
  <2>1. resp = m["llc"].resp \o gone
    BY DEF gone
  <2> HIDE DEF E, resp
  <2>2. QED
    BY <1>3, <1>6, <2>1, CountCat, ConcatProperties
<1>8. e \in DramOf(kinds) /\ e.waiting = left
  <2>1. DramReadPorts \in Int /\ DramWritePorts \in Int
    BY MemAssumption DEF MemAssumption
  <2>2. e = [ops |-> ops, waiting |-> left, reads |-> DramReadPorts, writes |-> DramWritePorts]
    BY DEF left, Rested
  <2>3. QED
    BY <1>6, <2>1, <2>2 DEF DramOf, Operation
<1>9. /\ c \in CacheOf("llc", kinds) /\ Kept(m["llc"], c) /\ c.out = m["llc"].out
      /\ c.resp = resp /\ missing(c) = missing(m["llc"]) /\ (Clean(m["llc"]) => Clean(c))
  <2> DEFINE b == m["llc"]
             v == resp
             a == [b EXCEPT !.resp = v]
  <2>1. b \in CacheOf("llc", kinds) /\ a = c
    BY <1>2, Zenon DEF Responded
  <2>2. v \in Seq(Trans(kinds \ {"evict"}))
    BY <1>7
  <2> HIDE DEF b, v
  <2>3. /\ a \in CacheOf("llc", kinds) /\ Kept(b, a) /\ a.out = b.out
        /\ a.resp = v /\ missing(a) = missing(b) /\ (Clean(b) => Clean(a))
    BY <2>1, <2>2, RespIs
  <2> HIDE DEF a
  <2>4. QED
    BY <2>1, <2>3 DEF b, v
<1>10. n \in MemOf(kinds) /\ n["llc"] = c /\ \A x \in Levels : x # "llc" => n[x] = m[x]
  BY <1>1, <1>9, MemSet
<1>11. ASSUME NEW y \in Levels, NEW x \in Lines
       PROVE  Count(n[y].out, Misses(y, x)) + Count(n[y].resp, Misses(y, x)) + Below(n, e, y)[x]
                = Owes(n[y], x)
  <2> DEFINE S == Misses(y, x)
  <2>1. Count(m[y].out, S) + Count(m[y].resp, S) + Below(m, d, y)[x] = Owes(m[y], x)
    BY <1>1 DEF Even, Balanced
  <2>2. Owes(n[y], x) = Owes(m[y], x) /\ n[y].out = m[y].out
    BY <1>9, <1>10 DEF Owes
  <2>3. CASE y = "llc"
    <3>1. Below(m, d, y)[x] = Count(w, S) /\ Below(n, e, y)[x] = Count(left, S)
      BY <1>8, <2>3 DEF Below
    <3>2. Count(m[y].out, S) \in Nat /\ Count(m[y].resp, S) \in Nat
      BY <1>1, SentIs
    <3>3. Count(gone, S) \in Nat /\ Count(left, S) \in Nat
      BY <1>6, CountIs
    <3> DEFINE o == Count(m[y].out, S)  p == Count(m[y].resp, S)
               q == Count(gone, S)      k == Count(left, S)
    <3>4. o \in Nat /\ p \in Nat /\ k \in Nat /\ q \in Nat
      BY <3>2, <3>3
    <3>5. Count(w, S) = q + k
      BY <1>5
    <3>6. o + p + (q + k) = Owes(n[y], x)
      BY <2>1, <2>2, <3>1, <3>5
    <3>7. Count(n[y].resp, S) = p + q
      BY <1>7, <1>9, <1>10, <2>3
    <3>8. Count(n[y].out, S) + Count(n[y].resp, S) + Below(n, e, y)[x] = o + (p + q) + k
      BY <2>2, <3>1, <3>7
    <3> HIDE DEF o, p, k, q
    <3>9. o + p + (q + k) = o + (p + q) + k
      BY <3>4
    <3>10. QED
      BY <3>6, <3>8, <3>9
  <2>4. CASE y # "llc"
    <3>1. n[y].resp = m[y].resp
      BY <1>10, <2>4
    <3>2. nextCache(y) \in Levels
      BY DEF Levels, nextCache
    <3>3. CountKept(n[nextCache(y)], S) = CountKept(m[nextCache(y)], S)
      BY <1>9, <1>10, <3>2 DEF Kept
    <3>4. Below(n, e, y)[x] = Below(m, d, y)[x]
      BY <2>4, <3>3 DEF Below
    <3>5. QED
      BY <2>1, <2>2, <3>1, <3>4
  <2>5. QED
    BY <2>3, <2>4
<1>12. Even(n, e)
  BY <1>11 DEF Even, Balanced
<1>13. QED
  BY <1>1, <1>8, <1>9, <1>10, <1>12 DEF Good

(* The data cache's requests.                                              *)
LEMMA OfIs ==
  ASSUME NEW r \in Nat
  PROVE  /\ Of(r) \in SUBSET Trans(MissKinds("l1"))
         /\ \A x : Transaction(0, x, "prefetch") \notin Of(r)
<1>1. QED
  BY DEF Of, Trans, MissKinds, Transaction

(* The two ways to say that what was asked for is what MSHRs wait for.      *)
LEMMA TracksMeans ==
  MshrTracksMiss <=> Even(mem, dram)
<1>1. ASSUME NEW l \in Levels, NEW x \in Lines
      PROVE  CountSent(l, Misses(l, x)) = Count(mem[l].out, Misses(l, x)) + Count(mem[l].resp, Misses(l, x))
                                            + Below(mem, dram, l)[x]
  BY DEF CountSent, Below
<1>2. QED
  BY <1>1 DEF MshrTracksMiss, Even, Balanced, Owes

LEMMA GoodMeans ==
  /\ IInv => Good(KindsNow, mem, dram)
  /\ Good(KindsNow, mem, dram) => MshrTracksMiss /\ SetsAgree
<1>1. "prefetch" \notin KindsNow <=> prefetches = MaxPrefetches
  BY DEF KindsNow, Kinds
<1>2. mem.l1 = mem["l1"] /\ mem.l2 = mem["l2"] /\ mem.llc = mem["llc"]
  OBVIOUS
<1>3. QED
  BY <1>1, <1>2, TracksMeans DEF IInv, TypeOK, SetsAgree, Good

LEMMA GoodNext ==
  Good(KindsNow', mem', dram') => (MshrTracksMiss /\ SetsAgree)'
<1>1. ASSUME NEW l \in Levels, NEW x \in Lines
      PROVE  CountSent(l, Misses(l, x))' = Count(mem'[l].out, Misses(l, x))
               + Count(mem'[l].resp, Misses(l, x)) + Below(mem', dram', l)[x]
  BY DEF CountSent, Below
<1>2. Even(mem', dram') => MshrTracksMiss'
  BY <1>1 DEF MshrTracksMiss, Even, Balanced, Owes
<1>3. "prefetch" \notin KindsNow' <=> prefetches' = MaxPrefetches
  BY DEF KindsNow, Kinds
<1>4. mem'.l1 = mem'["l1"] /\ mem'.l2 = mem'["l2"] /\ mem'.llc = mem'["llc"]
  OBVIOUS
<1>5. QED
  BY <1>2, <1>3, <1>4 DEF SetsAgree, Good

LEMMA NowIs ==
  /\ KindsNow \in SUBSET Kinds /\ "evict" \in KindsNow /\ {"load", "store"} \subseteq KindsNow
  /\ mem.l1 = mem["l1"] /\ mem'.l1 = mem'["l1"]
<1>1. QED
  BY DEF KindsNow, Kinds

LEMMA TraceIs ==
  ASSUME TypeOK
  PROVE  /\ Len(trace) \in Nat /\ DOMAIN trace = 1 .. Len(trace) /\ sent \in Nat
         /\ \A r \in DOMAIN trace : /\ r \in Nat /\ answers[r] \in Nat
                                    /\ trace[r].line \in Lines /\ trace[r].kind \in {"load", "store"}
<1> DEFINE E == [line : Lines, kind : {"load", "store"}]
<1>1. trace \in Seq(E) /\ sent \in 0 .. Len(trace) /\ answers \in [DOMAIN trace -> Nat]
  BY MemAssumption DEF MemAssumption, TypeOK
<1>2. Len(trace) \in Nat /\ DOMAIN trace = 1 .. Len(trace) /\ \A r \in 1 .. Len(trace) : trace[r] \in E
  <2> HIDE DEF E
  <2>1. QED
    BY <1>1, LenProperties, ElementOfSeq
<1>3. QED
  BY <1>1, <1>2

(* A step that neither accepts nor answers a request.                      *)
LEMMA QuietStep ==
  ASSUME IInv, Good(KindsNow', mem', dram'), Kept(mem["l1"], mem'["l1"]),
         UNCHANGED <<trace, sent, answers, prefetches>>, turn' \in Calls
  PROVE  IInv'
<1>1. RequestsConserved'
  <2>1. \A r \in DOMAIN trace : CountKept(mem.l1, Of(r)) + answers[r] = IF r <= sent THEN 1 ELSE 0
    BY DEF IInv, RequestsConserved
  <2>2. \A r : CountKept(mem'.l1, Of(r)) = CountKept(mem.l1, Of(r))
    BY NowIs DEF Kept
  <2>3. QED
    BY <2>1, <2>2 DEF RequestsConserved
<1>2. mem' \in MemOf(KindsNow') /\ dram' \in DramOf(KindsNow')
  BY DEF Good
<1>3. TypeOK'
  BY <1>2 DEF IInv, TypeOK
<1>4. QED
  BY <1>1, <1>3, GoodNext DEF IInv

LEMMA InitOK ==
  Init => IInv
<1> SUFFICES ASSUME Init PROVE IInv
  OBVIOUS
<1> DEFINE kinds == Kinds \ {"prefetch"}
           none == [x \in Lines |-> <<>>]
<1>1. KindsNow = kinds /\ prefetches \in 0 .. MaxPrefetches
  BY MemAssumption DEF MemAssumption, Init, KindsNow
<1>2. \A l \in Levels : LoadPorts[l] \in Int /\ StorePorts[l] \in Int
  BY MemAssumption DEF MemAssumption
<1>3. \A E : <<>> \in Seq(E) /\ none \in Mshrs(E)
  BY DEF Mshrs
<1>4. ASSUME NEW l \in Levels
      PROVE  /\ mem[l] = Cache(l) /\ Cache(l) \in CacheOf(l, kinds)
             /\ Cache(l).out = <<>> /\ Cache(l).resp = <<>> /\ Cache(l).in = <<>> /\ Cache(l).pq = <<>>
             /\ Cache(l).stalled = <<>> /\ Cache(l).back = <<>> /\ Cache(l).mshr = none /\ Cache(l).set = <<>>
  <2>1. mem[l] = Cache(l)
    BY DEF Init
  <2> HIDE DEF none
  <2>2. Cache(l) \in CacheOf(l, kinds)
    BY <1>2, <1>3 DEF Cache, CacheOf, none
  <2>3. QED
    BY <2>1, <2>2 DEF Cache, none
<1>5. mem \in MemOf(kinds)
  <2>1. mem = [l1 |-> mem["l1"], l2 |-> mem["l2"], llc |-> mem["llc"]]
    BY DEF Init, Levels
  <2>2. \A l \in Levels : mem[l] \in CacheOf(l, kinds)
    BY <1>4
  <2>3. QED
    BY <2>1, <2>2 DEF MemOf, Levels
<1>6. dram \in DramOf(kinds) /\ dram.waiting = <<>>
  <2>1. DramReadPorts \in Int /\ DramWritePorts \in Int
    BY MemAssumption DEF MemAssumption
  <2>2. QED
    BY <1>3, <2>1 DEF Init, DramOf
<1>7. ASSUME NEW S PROVE CountWaiting(none, S) = 0
  <2>1. none \in Mshrs({})
    BY <1>3
  <2>2. \A x \in Lines : 1 .. Len(none[x]) = {}
    OBVIOUS
  <2> HIDE DEF none
  <2>3. Waiters(none, S) = {}
    BY <2>1, <2>2, WaitersAre
  <2>4. CountWaiting(none, S) = Cardinality(Waiters(none, S))
    BY <2>1, WaitersAre
  <2>5. QED
    BY <2>3, <2>4, FS_EmptySet
<1>8. ASSUME NEW l \in Levels, NEW S PROVE CountKept(Cache(l), S) = 0
  BY <1>4, <1>7, CountEmpty DEF CountKept
<1>9. ASSUME NEW l \in Levels PROVE missing(Cache(l)) = {}
  BY <1>4 DEF missing
<1>10. ASSUME NEW l \in Levels PROVE Clean(Cache(l))
  BY <1>4, <1>9 DEF Clean, Unique, LinesOf
<1>11. Even(mem, dram)
  <2>1. ASSUME NEW l \in Levels, NEW x \in Lines
        PROVE  Count(mem[l].out, Misses(l, x)) + Count(mem[l].resp, Misses(l, x)) + Below(mem, dram, l)[x]
                 = Owes(mem[l], x)
    <3>1. Count(mem[l].out, Misses(l, x)) = 0 /\ Count(mem[l].resp, Misses(l, x)) = 0
      BY <1>4, CountEmpty
    <3>2. Owes(mem[l], x) = 0
      BY <1>4, <1>9 DEF Owes
    <3>3. Below(mem, dram, l)[x] = 0
      <4>1. nextCache(l) \in Levels
        BY DEF nextCache, Levels
      <4>2. CountKept(mem[nextCache(l)], Misses(l, x)) = 0
        BY <1>4, <1>8, <4>1
      <4>3. Count(dram.waiting, Misses(l, x)) = 0
        BY <1>6, CountEmpty
      <4>4. QED
        BY <4>2, <4>3 DEF Below
    <3>4. QED
      BY <3>1, <3>2, <3>3
  <2>2. QED
    BY <2>1 DEF Even, Balanced
<1>12. Good(KindsNow, mem, dram)
  <2>1. "l1" \in Levels /\ "l2" \in Levels /\ "llc" \in Levels
    BY DEF Levels
  <2>2. QED
    BY <1>1, <1>4, <1>5, <1>6, <1>10, <1>11, <2>1 DEF Good
<1>13. TypeOK
  <2>1. trace \in Traces /\ trace \in Seq([line : Lines, kind : {"load", "store"}])
    BY MemAssumption DEF MemAssumption, Init
  <2>2. 0 \in 0 .. Len(trace)
    BY <2>1, LenProperties
  <2>3. QED
    BY <1>1, <1>5, <1>6, <2>1, <2>2 DEF TypeOK, Init, Calls
<1>14. RequestsConserved
  <2>1. ASSUME NEW r \in DOMAIN trace
        PROVE  CountKept(mem.l1, Of(r)) = 0 /\ answers[r] = 0 /\ ~(r <= sent)
    <3>1. r \in 1 .. Len(trace) /\ Len(trace) \in Nat
      BY <1>13, TraceIs
    <3>2. "l1" \in Levels
      BY DEF Levels
    <3>3. CountKept(mem.l1, Of(r)) = 0
      BY <1>4, <1>8, <3>2, NowIs
    <3>4. QED
      BY <3>1, <3>3 DEF Init
  <2>2. QED
    BY <2>1 DEF RequestsConserved
<1>15. QED
  BY <1>12, <1>13, <1>14, GoodMeans DEF IInv

-----------------------------------------------------------------------------
(* The calls.                                                              *)

LEMMA DramStep ==
  ASSUME IInv, NEW k \in Nat, DramRun(k)
  PROVE  IInv'
<1> DEFINE read == {dram.ops[i].line : i \in {j \in 1 .. k : ~dram.ops[j].write}}
           done == {t \in ToSet(dram.waiting) : t.line \in read}
           old == mem["llc"]
           resp == old.resp \o Keep(dram.waiting, done)
           c == [old EXCEPT !.resp = resp]
           ops == SubSeq(dram.ops, k + 1, Len(dram.ops))
<1>1. Good(KindsNow, mem, dram)
  BY GoodMeans
<1>2. KindsNow' = KindsNow /\ turn' \in Calls /\ UNCHANGED <<trace, sent, answers, prefetches>>
  BY DEF DramRun, KindsNow, Calls
<1>3. dram.ops \in Seq(Operation) /\ k <= Len(dram.ops)
  BY <1>1 DEF Good, DramOf, Operation, DramRun
<1>4. ops \in Seq(Operation)
  <2>1. Len(dram.ops) \in Nat
    BY <1>3, LenProperties
  <2>2. k \in 0 .. Len(dram.ops)
    BY <1>3, <2>1
  <2>3. QED
    BY <1>3, <2>2, CutIs
<1>5. done \in SUBSET ToSet(dram.waiting)
  OBVIOUS
<1>6. /\ dram' = [ops |-> ops, waiting |-> Keep(dram.waiting, ToSet(dram.waiting) \ done),
                  reads |-> DramReadPorts, writes |-> DramWritePorts]
      /\ mem' = [mem EXCEPT !.llc.resp = mem.llc.resp \o Keep(dram.waiting, done)]
  BY Zenon DEF DramRun
<1> HIDE DEF done, ops
<1>7. Replaced(mem', mem, "llc", c)
  BY <1>6 DEF Replaced
<1>8. Good(KindsNow, mem', dram') /\ mem'["l1"] = mem["l1"]
  <2> HIDE DEF resp
  <2> DEFINE n == mem'  e == dram'
  <2>1. Replaced(n, mem, "llc", Responded(mem["llc"], dram.waiting, done))
    BY <1>7 DEF Responded, resp
  <2>2. e = Rested(ops, dram.waiting, done)
    BY <1>6 DEF Rested
  <2> HIDE DEF n, e
  <2>3. Good(KindsNow, n, e) /\ n["l1"] = mem["l1"]
    BY <1>1, <1>4, <1>5, <2>1, <2>2, DramGood, SMTT(30)
  <2>4. QED
    BY <2>3 DEF n, e
<1>9. Kept(mem["l1"], mem'["l1"])
  BY <1>8, Zenon DEF Kept
<1>10. QED
  BY <1>2, <1>8, <1>9, QuietStep

LEMMA LLCacheStep ==
  ASSUME IInv, LLCache
  PROVE  IInv'
<1> DEFINE none == <<>>
           m == Respond(mem, "llc", "l2")
           s == sendToDram(m, dram)
           c == s.m["llc"]
<1>1. Good(KindsNow, mem, dram)
  BY GoodMeans
<1>2. KindsNow' = KindsNow /\ turn' \in Calls /\ UNCHANGED <<trace, sent, answers, prefetches>>
  BY DEF LLCache, KindsNow, Calls
<1>3. Good(KindsNow, m, dram) /\ Kept(mem["l1"], m["l1"])
  <2>1. "l2" \in Upper /\ nextCache("l2") = "llc"
    BY DEF Upper, nextCache
  <2>2. QED
    BY <1>1, <2>1, RespondGood
<1>4. dram' = s.d /\ \E due \in Orders(Queued(s.m.llc, "llc", s.m.llc.in)) :
                        mem' = [s.m EXCEPT !.llc = Rest(s.m.llc, "llc", <<>>, due)]
  BY Zenon DEF LLCache
<1> HIDE DEF m
<1>5. Good(KindsNow, s.m, s.d) /\ Kept(m["l1"], s.m["l1"])
  BY <1>3, SendToDramGood
<1> HIDE DEF s
<1>6. c.in \o none = c.in /\ none \in Seq(Trans(KindsNow)) /\ s.m.llc = c /\ "llc" \in Levels
  <2>1. "llc" \in Levels /\ s.m.llc = c /\ none \in Seq(Trans(KindsNow))
    BY DEF Levels
  <2>2. c \in CacheOf("llc", KindsNow)
    BY <1>5, <2>1, MemGet DEF Good
  <2>3. c.in \in Seq(Trans(KindsNow))
    BY <2>2, Fields
  <2> HIDE DEF c
  <2>4. QED
    BY <2>1, <2>3, ConcatEmptySeq
<1>7. PICK due \in Orders(Queued(c, "llc", c.in \o none)) : Replaced(mem', s.m, "llc", Rest(c, "llc", none, due))
  BY <1>4, <1>6 DEF Replaced
<1>8. none = <<>>
  OBVIOUS
<1> HIDE DEF none
<1>9. Good(KindsNow, mem', dram') /\ mem'["l1"] = s.m["l1"]
  <2> DEFINE n == mem'  k == s.m  e == s.d
  <2>1. dram' = e /\ KindsNow \in SUBSET Kinds
    BY <1>4, NowIs
  <2>2. Good(KindsNow, k, e) /\ none \in Seq(Trans(KindsNow)) /\ "llc" \in Levels
    BY <1>5, <1>6
  <2>3. due \in Orders(Queued(k["llc"], "llc", k["llc"].in \o none))
    BY <1>7
  <2>4. Replaced(n, k, "llc", Rest(k["llc"], "llc", none, due))
    BY <1>7
  <2> HIDE DEF n, k, e
  <2>5. Good(KindsNow, n, e) /\ Leaves("llc", k, n)
    BY <1>8, <2>1, <2>2, <2>3, <2>4, RestGood
  <2>6. QED
    BY <2>1, <2>5 DEF n, k, Leaves
<1>10. Kept(mem["l1"], mem'["l1"])
  BY <1>3, <1>5, <1>9, Zenon DEF Kept
<1>11. QED
  BY <1>2, <1>9, <1>10, QuietStep

LEMMA L2CacheStep ==
  ASSUME IInv, L2Cache
  PROVE  IInv'
<1> DEFINE none == <<>>
           r == Respond(mem, "l2", "l1")
           m == sendRequests(r, "l2")
           c == m["l2"]
<1>1. Good(KindsNow, mem, dram)
  BY GoodMeans
<1>2. KindsNow' = KindsNow /\ turn' \in Calls /\ UNCHANGED <<trace, sent, answers, prefetches>> /\ dram' = dram
  BY DEF L2Cache, KindsNow, Calls
<1>3. "l1" \in Upper /\ "l2" \in Upper /\ nextCache("l1") = "l2" /\ "l2" \in Levels
  BY DEF Upper, nextCache, Levels
<1>4. Good(KindsNow, r, dram) /\ Kept(mem["l1"], r["l1"])
  BY <1>1, <1>3, RespondGood
<1>5. \E due \in Orders(Queued(m.l2, "l2", m.l2.in)) :
        mem' = [m EXCEPT !.l2 = Rest(m.l2, "l2", <<>>, due)]
  BY Zenon DEF L2Cache
<1> HIDE DEF r
<1>6. Good(KindsNow, m, dram) /\ Kept(r["l1"], m["l1"])
  BY <1>3, <1>4, NowIs, SendGood
<1> HIDE DEF m
<1>7. c.in \o none = c.in /\ none \in Seq(Trans(KindsNow)) /\ m.l2 = c
  <2>1. m.l2 = c /\ none \in Seq(Trans(KindsNow))
    OBVIOUS
  <2>2. c \in CacheOf("l2", KindsNow)
    BY <1>3, <1>6, MemGet DEF Good
  <2>3. c.in \in Seq(Trans(KindsNow))
    BY <2>2, Fields
  <2> HIDE DEF c
  <2>4. QED
    BY <2>1, <2>3, ConcatEmptySeq
<1>8. PICK due \in Orders(Queued(c, "l2", c.in \o none)) : Replaced(mem', m, "l2", Rest(c, "l2", none, due))
  BY <1>5, <1>7 DEF Replaced
<1>9. none = <<>>
  OBVIOUS
<1> HIDE DEF none
<1>10. Good(KindsNow, mem', dram') /\ mem'["l1"] = m["l1"]
  <2> DEFINE n == mem'
  <2>1. dram' = dram /\ KindsNow \in SUBSET Kinds
    BY <1>2, NowIs
  <2>2. Good(KindsNow, m, dram) /\ none \in Seq(Trans(KindsNow)) /\ "l2" \in Levels
    BY <1>3, <1>6, <1>7
  <2>3. due \in Orders(Queued(m["l2"], "l2", m["l2"].in \o none))
    BY <1>8
  <2>4. Replaced(n, m, "l2", Rest(m["l2"], "l2", none, due))
    BY <1>8
  <2> HIDE DEF n
  <2>5. Good(KindsNow, n, dram) /\ Leaves("l2", m, n)
    BY <1>9, <2>1, <2>2, <2>3, <2>4, RestGood
  <2>6. QED
    BY <2>1, <2>5 DEF n, Leaves
<1>11. Kept(mem["l1"], mem'["l1"])
  BY <1>4, <1>6, <1>10, Zenon DEF Kept
<1>12. QED
  BY <1>2, <1>10, <1>11, QuietStep

(* A request is answered at most when it is in back.                       *)
LEMMA L1CacheStep ==
  ASSUME IInv, L1Cache
  PROVE  IInv'
<1> DEFINE first == [mem["l1"] EXCEPT !.back = <<>>]
           r == [mem EXCEPT !["l1"] = first]
           m == sendRequests(r, "l1")
           c == m["l1"]
           over == mem["l1"].back
<1>1. Good(KindsNow, mem, dram) /\ TypeOK /\ RequestsConserved
  BY GoodMeans DEF IInv
<1>2. "l1" \in Upper /\ "l1" \in Levels
  BY DEF Upper, Levels
<1>3. mem["l1"] \in CacheOf("l1", KindsNow)
  BY <1>1, <1>2, MemGet DEF Good
<1>4. /\ first \in CacheOf("l1", KindsNow) /\ Alike(mem["l1"], first) /\ first.out = mem["l1"].out
      /\ \A S : CountKept(mem["l1"], S) = CountKept(first, S) + Count(over, S)
  BY <1>3, BackIs
<1>5. mem.l1 = mem["l1"] /\ [mem EXCEPT !.l1.back = <<>>] = r
  OBVIOUS
<1> HIDE DEF first
<1>6. Good(KindsNow, r, dram) /\ r["l1"] = first
  <2>1. Replaced(r, mem, "l1", first)
    BY Zenon DEF Replaced
  <2> HIDE DEF r
  <2>2. QED
    BY <1>1, <1>4, <2>1, FirstGood
<1> HIDE DEF r
<1>7. Good(KindsNow, m, dram) /\ Kept(r["l1"], m["l1"])
  BY <1>2, <1>6, NowIs, SendGood
<1> DEFINE more(n, ls) == [i \in 1 .. n |-> Transaction(0, ls[i], "prefetch")]
<1>8. PICK k \in {j \in 0 .. cache_prefetch_ports : mayPrefetch(j)} : \E ls \in [1 .. k -> Lines] :
        /\ \E due \in Orders(Queued(m.l1, "l1", m.l1.in \o more(k, ls))) :
             mem' = [m EXCEPT !.l1 = Rest(m.l1, "l1", more(k, ls), due)]
        /\ prefetches' = prefetches - k
  BY <1>5, Zenon DEF L1Cache
<1>9. PICK ls \in [1 .. k -> Lines] :
        /\ \E due \in Orders(Queued(m.l1, "l1", m.l1.in \o more(k, ls))) :
             mem' = [m EXCEPT !.l1 = Rest(m.l1, "l1", more(k, ls), due)]
        /\ prefetches' = prefetches - k
  BY <1>8, Zenon
<1> HIDE DEF m
<1>10. /\ UNCHANGED <<dram, trace, sent>> /\ turn' \in Calls
      /\ answers' = [q \in DOMAIN trace |-> answers[q] + Count(over, Of(q))]
  BY <1>5 DEF L1Cache, Calls
<1> DEFINE extra == more(k, ls)
<1>11. /\ prefetches' \in 0 .. MaxPrefetches
       /\ extra \in Seq(Trans(KindsNow')) /\ KindsNow \subseteq KindsNow'
       /\ KindsNow' = KindsNow \/ "prefetch" \in KindsNow'
       /\ \A q \in Nat : Count(extra, Of(q)) = 0
  <2>1. MaxPrefetches \in Nat /\ prefetches \in 0 .. MaxPrefetches
    BY <1>1, MemAssumption DEF MemAssumption, TypeOK
  <2>2. k \in Nat /\ mayPrefetch(k)
    BY DEF cache_prefetch_ports
  <2> DEFINE t(i) == Transaction(0, ls[i], "prefetch")
  <2>3. ASSUME NEW i \in 1 .. k
        PROVE  t(i) \in Trans({"prefetch"}) /\ \A q \in Nat : t(i) \notin Of(q)
    <3>1. ls[i] \in Lines
      OBVIOUS
    <3>2. QED
      BY <3>1, OfIs DEF Transaction, Trans
  <2>4. extra = [i \in 1 .. k |-> t(i)]
    OBVIOUS
  <2> HIDE DEF t, extra
  <2>5. extra \in [1 .. k -> Trans({"prefetch"})]
    BY <2>3, <2>4
  <2>6. extra \in Seq(Trans({"prefetch"})) /\ Len(extra) = k
    BY <2>2, <2>5, FunctionIsSeq
  <2>7. ASSUME NEW q \in Nat PROVE Count(extra, Of(q)) = 0
    <3>1. {i \in 1 .. Len(extra) : extra[i] \in Of(q)} = {}
      BY <2>3, <2>4, <2>6
    <3>2. Count(extra, Of(q)) = Cardinality({i \in 1 .. Len(extra) : extra[i] \in Of(q)})
      BY <2>6, CountIs
    <3>3. QED
      BY <3>1, <3>2, FS_EmptySet
  <2>8. CASE k = 0
    <3>1. prefetches' = prefetches
      BY <1>9, <2>1, <2>8
    <3>2. KindsNow' = KindsNow
      BY <3>1 DEF KindsNow
    <3>3. extra = <<>>
      BY <2>6, <2>8
    <3>4. QED
      BY <2>1, <2>7, <3>1, <3>2, <3>3
  <2>9. CASE k # 0
    <3>1. prefetches' = prefetches - k /\ 0 < k /\ k <= prefetches
      BY <1>9, <2>2, <2>9 DEF mayPrefetch
    <3>2. prefetches' \in 0 .. MaxPrefetches /\ prefetches' # MaxPrefetches
      BY <2>1, <2>2, <3>1
    <3>3. KindsNow' = Kinds
      BY <3>2 DEF KindsNow
    <3>4. KindsNow \subseteq Kinds /\ "prefetch" \in Kinds
      BY DEF KindsNow, Kinds
    <3>5. Trans({"prefetch"}) \subseteq Trans(Kinds)
      BY <3>4 DEF Trans
    <3>6. extra \in Seq(Trans(Kinds))
      BY <2>6, <3>5
    <3>7. QED
      BY <2>7, <3>2, <3>3, <3>4, <3>6
  <2>10. QED
    BY <2>8, <2>9
<1>12. PICK due \in Orders(Queued(c, "l1", c.in \o extra)) : Replaced(mem', m, "l1", Rest(c, "l1", extra, due))
  <2>1. m.l1 = c
    OBVIOUS
  <2> HIDE DEF c, extra
  <2>2. \E due \in Orders(Queued(c, "l1", c.in \o extra)) : mem' = [m EXCEPT !.l1 = Rest(c, "l1", extra, due)]
    BY <1>9, <2>1, Zenon DEF extra
  <2>3. QED
    BY <2>2 DEF Replaced
<1> HIDE DEF extra
<1>13. Good(KindsNow', m, dram)
  BY <1>7, <1>11, GoodGrows
<1>14. KindsNow' \in SUBSET Kinds
  BY DEF KindsNow, Kinds
<1>15. /\ Good(KindsNow', mem', dram')
       /\ \A S \in SUBSET Trans(MissKinds("l1")) :
            CountKept(mem'["l1"], S) = CountKept(c, S) + Count(extra, S)
  <2> DEFINE n == mem'  kinds == KindsNow'
  <2>1. dram' = dram /\ "l1" \in Levels
    BY <1>2, <1>10
  <2>2. Good(kinds, m, dram) /\ kinds \in SUBSET Kinds /\ extra \in Seq(Trans(kinds))
    BY <1>11, <1>13, <1>14
  <2>3. due \in Orders(Queued(m["l1"], "l1", m["l1"].in \o extra))
    BY <1>12
  <2>4. Replaced(n, m, "l1", Rest(m["l1"], "l1", extra, due))
    BY <1>12
  <2> HIDE DEF n, kinds
  <2>5. Good(kinds, n, dram) /\ Adds("l1", m, n, extra)
    BY <2>1, <2>2, <2>3, <2>4, RestGood
  <2>6. QED
    BY <2>1, <2>5 DEF n, kinds, Adds
<1> HIDE DEF c, over
<1>16. ASSUME NEW q \in DOMAIN trace
       PROVE  CountKept(mem'.l1, Of(q)) + answers'[q] = CountKept(mem.l1, Of(q)) + answers[q]
  <2>1. q \in Nat /\ answers[q] \in Nat
    BY <1>1, TraceIs
  <2>2. CountKept(mem'["l1"], Of(q)) = CountKept(c, Of(q)) + 0
    BY <1>11, <1>15, <2>1, OfIs
  <2>3. CountKept(c, Of(q)) = CountKept(first, Of(q))
    BY <1>6, <1>7 DEF Kept, c
  <2>4. CountKept(mem["l1"], Of(q)) = CountKept(first, Of(q)) + Count(over, Of(q))
    BY <1>4
  <2>5. CountKept(first, Of(q)) \in Nat
    BY <1>4, KeptIs
  <2>6. Count(over, Of(q)) \in Nat
    <3>1. over \in Seq(Trans(KindsNow \ {"evict"}))
      BY <1>3, Fields DEF over
    <3>2. QED
      BY <3>1, CountIs
  <2>7. answers'[q] = answers[q] + Count(over, Of(q))
    BY <1>10
  <2>8. CountKept(mem'.l1, Of(q)) = CountKept(first, Of(q))
    BY <2>2, <2>3, <2>5, NowIs
  <2>9. CountKept(mem.l1, Of(q)) = CountKept(first, Of(q)) + Count(over, Of(q))
    BY <1>5, <2>4
  <2>10. QED
    BY <2>1, <2>5, <2>6, <2>7, <2>8, <2>9
<1>17. RequestsConserved'
  <2>1. \A q \in DOMAIN trace : CountKept(mem.l1, Of(q)) + answers[q] = IF q <= sent THEN 1 ELSE 0
    BY <1>1 DEF RequestsConserved
  <2>2. QED
    BY <1>10, <1>16, <2>1 DEF RequestsConserved
<1>18. TypeOK'
  <2>1. answers' \in [DOMAIN trace -> Nat]
    <3>1. ASSUME NEW q \in DOMAIN trace PROVE answers[q] + Count(over, Of(q)) \in Nat
      <4>1. over \in Seq(Trans(KindsNow \ {"evict"}))
        BY <1>3, Fields DEF over
      <4>2. Count(over, Of(q)) \in Nat
        BY <4>1, CountIs
      <4>3. QED
        BY <1>1, <4>2, TraceIs
    <3>2. QED
      BY <1>10, <3>1
  <2>2. mem' \in MemOf(KindsNow') /\ dram' \in DramOf(KindsNow')
    BY <1>15 DEF Good
  <2>3. QED
    BY <1>1, <1>10, <1>11, <2>1, <2>2 DEF TypeOK
<1>19. QED
  BY <1>15, <1>17, <1>18, GoodNext DEF IInv

LEMMA SendStep ==
  ASSUME IInv, Send
  PROVE  IInv'
<1> DEFINE t == Transaction(sent + 1, trace[sent + 1].line, trace[sent + 1].kind)
           old == mem["l1"]
           c == recvRequest(old, t)
<1>1. Good(KindsNow, mem, dram) /\ TypeOK /\ RequestsConserved
  BY GoodMeans DEF IInv
<1>2. /\ mem' = [mem EXCEPT !.l1 = recvRequest(mem.l1, t)] /\ sent' = sent + 1 /\ sent < Len(trace)
      /\ UNCHANGED <<dram, turn, trace, answers, prefetches>> /\ KindsNow' = KindsNow
  BY DEF Send, KindsNow
<1>3. /\ Len(trace) \in Nat /\ DOMAIN trace = 1 .. Len(trace) /\ sent \in Nat
      /\ sent + 1 \in DOMAIN trace
  BY <1>1, <1>2, TraceIs
<1>4. t \in Trans(KindsNow) /\ \A q : t \in Of(q) <=> q = sent + 1
  <2>1. trace[sent + 1].line \in Lines /\ trace[sent + 1].kind \in {"load", "store"}
    BY <1>1, <1>3, TraceIs
  <2>2. sent + 1 \in Nat
    BY <1>3
  <2>3. QED
    BY <2>1, <2>2, NowIs DEF Transaction, Trans, Of
<1> HIDE DEF t
<1>5. old \in CacheOf("l1", KindsNow) /\ mem.l1 = old
  <2>1. "l1" \in Levels
    BY DEF Levels
  <2>2. QED
    BY <1>1, <2>1, MemGet DEF Good
<1>6. Replaced(mem', mem, "l1", c)
  BY <1>2, <1>5 DEF Replaced
<1>7. /\ c \in CacheOf("l1", KindsNow) /\ Alike(old, c) /\ c.out = old.out
      /\ \A S : CountKept(c, S) = CountKept(old, S) + (IF t \in S THEN 1 ELSE 0)
  <2> HIDE DEF old
  <2>1. QED
    BY <1>4, <1>5, ReceiveIs
<1> HIDE DEF c
<1>8. Good(KindsNow', mem', dram') /\ mem'["l1"] = c
  <2> DEFINE n == mem'
  <2>1. Replaced(n, mem, "l1", c)
    BY <1>6
  <2> HIDE DEF n
  <2>2. Good(KindsNow, n, dram) /\ n["l1"] = c
    BY <1>1, <1>7, <2>1, FirstGood
  <2>3. QED
    BY <1>2, <2>2 DEF n
<1>9. RequestsConserved'
  <2>1. ASSUME NEW q \in DOMAIN trace
        PROVE  CountKept(mem'.l1, Of(q)) + answers[q] = IF q <= sent + 1 THEN 1 ELSE 0
    <3>1. CountKept(old, Of(q)) + answers[q] = IF q <= sent THEN 1 ELSE 0
      BY <1>1, <1>5 DEF RequestsConserved
    <3>2. q \in Nat /\ answers[q] \in Nat
      BY <1>1, TraceIs
    <3>3. CountKept(old, Of(q)) \in Nat
      BY <1>5, KeptIs
    <3>4. CountKept(c, Of(q)) = CountKept(old, Of(q)) + (IF q = sent + 1 THEN 1 ELSE 0)
      BY <1>4, <1>7
    <3>5. CountKept(mem'.l1, Of(q)) = CountKept(c, Of(q))
      BY <1>8, NowIs
    <3> HIDE DEF old
    <3>6. QED
      BY <1>3, <3>1, <3>2, <3>3, <3>4, <3>5
  <2>2. QED
    BY <1>2, <2>1 DEF RequestsConserved
<1>10. TypeOK'
  <2>1. mem' \in MemOf(KindsNow') /\ dram' \in DramOf(KindsNow')
    BY <1>8 DEF Good
  <2>2. sent' \in 0 .. Len(trace)
    BY <1>2, <1>3
  <2>3. QED
    BY <1>1, <1>2, <2>1, <2>2 DEF TypeOK
<1>11. QED
  BY <1>8, <1>9, <1>10, GoodNext DEF IInv

LEMMA StepOK ==
  IInv /\ [Next]_vars => IInv'
<1> SUFFICES ASSUME IInv, [Next]_vars PROVE IInv'
  OBVIOUS
<1>1. CASE Dram
  BY <1>1, DramStep DEF Dram
<1>2. CASE DramAnswers
  <2>1. PICK k \in 1 .. Len(dram.ops) : DramRun(k)
    BY <1>2 DEF DramAnswers
  <2>2. k \in Nat
    OBVIOUS
  <2>3. QED
    BY <2>1, <2>2, DramStep
<1>3. CASE LLCache
  BY <1>3, LLCacheStep
<1>4. CASE L2Cache
  BY <1>4, L2CacheStep
<1>5. CASE L1Cache
  BY <1>5, L1CacheStep
<1>6. CASE Send
  BY <1>6, SendStep
<1>7. CASE EndCycle \/ UNCHANGED vars
  <2>1. /\ UNCHANGED <<mem, dram, trace, sent, answers, prefetches>> /\ turn' \in Calls
        /\ KindsNow' = KindsNow
    BY <1>7 DEF EndCycle, vars, Calls, IInv, TypeOK, KindsNow
  <2>2. Good(KindsNow', mem', dram')
    BY <2>1, GoodMeans
  <2>3. Kept(mem["l1"], mem'["l1"])
    BY <2>1, Zenon DEF Kept
  <2>4. QED
    BY <2>1, <2>2, <2>3, QuietStep
<1>8. QED
  BY <1>1, <1>2, <1>3, <1>4, <1>5, <1>6, <1>7 DEF Next

-----------------------------------------------------------------------------
(* The theorems.                                                           *)

(* Every reachable state satisfies the inductive invariant.                *)
THEOREM Inductive == Spec => []IInv
<1>1. QED
  BY InitOK, StepOK, PTL DEF Spec

(* The queues, MSHRs and sets of all levels hold only what they may: no     *)
(* eviction among the responses or behind an MSHR, no prefetch of the data  *)
(* cache in its MSHRs.                                                      *)
THEOREM TypeCorrect == Spec => []TypeOK
<1>1. IInv => TypeOK
  BY DEF IInv
<1>2. QED
  BY <1>1, Inductive, PTL

(* No merge of misses, stall for an MSHR or retry loses a request of the    *)
(* load/store unit or answers it twice.                                     *)
THEOREM RequestsNotLost == Spec => []RequestsConserved
<1>1. IInv => RequestsConserved
  BY DEF IInv
<1>2. QED
  BY <1>1, Inductive, PTL

(* Every MSHR has exactly one fill under way, at whatever level, and every  *)
(* fill finds its MSHR (the assertions of handleResponses and updateMSHR).  *)
THEOREM OneFillPerMiss == Spec => []MshrTracksMiss
<1>1. IInv => MshrTracksMiss
  BY DEF IInv
<1>2. QED
  BY <1>1, Inductive, PTL

(* No line is twice in a set of the second and last level, nor in the data  *)
(* cache's while it has not prefetched (the assertion that is commented out *)
(* in FunctionalCache).                                                     *)
THEOREM LinesOnce == Spec => []NoDuplicateLines
<1>1. SetsAgree => NoDuplicateLines
  <2>1. mem.l1 = mem["l1"] /\ mem.l2 = mem["l2"] /\ mem.llc = mem["llc"]
    OBVIOUS
  <2>2. ASSUME NEW l, Clean(mem[l]) PROVE NoDuplicate(l)
    BY <2>2 DEF Clean, Unique, NoDuplicate
  <2>3. QED
    BY <2>1, <2>2 DEF SetsAgree, NoDuplicateLines
<1>2. IInv => NoDuplicateLines
  BY <1>1 DEF IInv
<1>3. QED
  BY <1>2, Inductive, PTL
=============================================================================
