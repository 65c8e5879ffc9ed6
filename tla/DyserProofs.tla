---------------------------- MODULE DyserProofs ----------------------------
(***************************************************************************)
(* The accounts of the function units, the streams of requests and the     *)
(* accounts of the tokens are proved correct for all machines, programs,   *)
(* functions and sizes.                                                    *)
(***************************************************************************)
EXTENDS DyserCore, Basics

-----------------------------------------------------------------------------
(* The inductive invariant.                                                *)

PortState(m) ==
  [usage : SUBSET Units(m), aval : [FUs -> Int], release : [Ports(m) -> Nat]]

(* Units are counted as free, busy or held by one instruction each, once;  *)
(* pipelined ones are not held.                                            *)
Held(m, h) ==
  \A d \in DOMAIN h : \A i \in DOMAIN h[d] :
    /\ Type(m, h[d][i]) \notin m.pipelined
    /\ \A e \in DOMAIN h : \A j \in DOMAIN h[e] : h[d][i] = h[e][j] => d = e /\ i = j
InUse(m, h) == {u \in Units(m) : \E d \in DOMAIN h : \E i \in DOMAIN h[d] : h[d][i] = u}
Counted(m, p) == \A fu \in FUs : p.aval[fu] = Cardinality(UnitsOf(m, fu) \ p.usage)
Accounted(m, p, h) == Held(m, h) /\ p.usage = InUse(m, h) /\ Counted(m, p)

Increasing(s) == \A i, j \in DOMAIN s : i < j => s[i] < s[j]

(* Who holds units has left the issue queue, which is in program order.    *)
Agree(h, queue, flight, n) ==
  /\ \A d \in Insns : h[d] # <<>> => d \in ToSet(flight)
  /\ Increasing(queue)
  /\ ToSet(queue) \cap ToSet(flight) = {}
  /\ ToSet(queue) \cup ToSet(flight) \subseteq 1 .. n
  /\ Len(queue) <= IssueQueueCapacity
QueuesAgree == Agree(using, issueQueue, inFlightInsn, insnQueue)

(* The streams r hold the requests among the instructions D, in order.     *)
InStreams(r, D) ==
  /\ \A d \in D : isRequest(prog[d]) => hashTwoInts(prog[d]) \in DOMAIN r
  /\ \A h \in DOMAIN r :
       /\ ToSet(r[h]) = {d \in D : isRequest(prog[d]) /\ hashTwoInts(prog[d]) = h}
       /\ Increasing(r[h])

(* The tokens of a unit, and the units.                                    *)
Fifos(body) ==
  {f \in [DOMAIN body -> UNION {[DynDeps(body, k) -> Int] : k \in DOMAIN body}] :
     \A k \in DOMAIN body : f[k] \in [DynDeps(body, k) -> Int]}
Results(body) == {dynID(body, <<"insn", k>>) : k \in ToSet(Outputs(body))}
UnitState(body) ==
  [internalFIFO : Fifos(body), outputFIFO : [Results(body) -> Int],
   inflight : SUBSET (DOMAIN body), currentCycle : [DOMAIN body -> Int]]
UnitStates ==
  {u \in [DOMAIN Functions -> UNION {UnitState(Functions[n]) : n \in DOMAIN Functions}] :
     \A n \in DOMAIN Functions : u[n] \in UnitState(Functions[n])}

Statuses == {"INIT", "ALLOCATED", "READY", "ISSUED", "EXECUTING", "SLEEP", "FINISHED"}

TypeOK ==
  /\ machine \in Machines /\ prog \in Programs
  /\ ports \in PortState(machine) /\ units \in UnitStates
  /\ rou \in [DOMAIN rou -> Seq(Insns)]
  /\ status \in [Insns -> Statuses] /\ currentCycle \in [Insns -> Nat]
  /\ using \in [Insns -> Seq(Units(machine))]
  /\ answered \in SUBSET Insns /\ handedOver \in SUBSET Insns
  /\ insnQueue \in 0 .. Len(prog)
  /\ issueQueue \in Seq(Insns) /\ inFlightInsn \in Seq(Insns)
  /\ stage \in DOMAIN After

IInv ==
  /\ TypeOK /\ Accounted(machine, ports, using) /\ QueuesAgree
  /\ InStreams(rou, ToSet(issueQueue))

-----------------------------------------------------------------------------
(* Units.                                                                  *)

LEMMA MinIs ==
  ASSUME NEW S \in SUBSET Nat, S # {}
  PROVE  Min(S) \in S
<1>1. \E x \in S : \A y \in S : x <= y
  BY Smallest
<1>2. QED
  BY <1>1, Zenon DEF Min

LEMMA MachineIs ==
  ASSUME NEW m \in Machine
  PROVE  /\ Ports(m) = 1 .. Len(m.ports) /\ Len(m.ports) \in Nat
         /\ \A port \in Ports(m) : /\ Len(m.ports[port]) \in Nat
                                   /\ DOMAIN m.ports[port] = 1 .. Len(m.ports[port])
                                   /\ m.ports[port] \in Seq(FUs)
         /\ m.pipelined \in SUBSET FUs /\ m.naive \in BOOLEAN
<1>1. m.ports \in Seq(Seq(FUs)) /\ m.pipelined \in SUBSET FUs /\ m.naive \in BOOLEAN
  BY DEF Machine
<1>2. QED
  BY <1>1 DEF Ports

LEMMA UnitsAre ==
  ASSUME NEW m \in Machine
  PROVE  /\ IsFiniteSet(Units(m))
         /\ \A port \in Ports(m) : \A k \in DOMAIN m.ports[port] : <<port, k>> \in Units(m)
         /\ \A u \in Units(m) : Type(m, u) \in FUs
         /\ \A fu : UnitsOf(m, fu) \in SUBSET Units(m)
<1> DEFINE On(port) == {port} \X DOMAIN m.ports[port]
           Boards == {On(port) : port \in Ports(m)}
<1>1. Units(m) = UNION Boards
  BY Zenon DEF Units
<1>2. ASSUME NEW port \in Ports(m) PROVE IsFiniteSet(On(port))
  <2>1. IsFiniteSet({port})
    BY FS_Singleton
  <2>2. IsFiniteSet(1 .. Len(m.ports[port]))
    BY MachineIs, FS_Interval
  <2>3. QED
    BY <2>1, <2>2, MachineIs, FS_Product
<1>3. IsFiniteSet(Ports(m))
  BY MachineIs, FS_Interval
<1>4. IsFiniteSet(Boards)
  <2> DEFINE f == [port \in Ports(m) |-> On(port)]
  <2>1. f \in Surjection(Ports(m), Boards)
    BY DEF Surjection
  <2>2. QED
    BY <1>3, <2>1, FS_Surjection
<1>5. IsFiniteSet(Units(m))
  BY <1>1, <1>2, <1>4, FS_UNION
<1>6. \A port \in Ports(m) : \A k \in DOMAIN m.ports[port] : <<port, k>> \in Units(m)
  BY <1>1
<1>7. ASSUME NEW u \in Units(m) PROVE Type(m, u) \in FUs
  <2>1. PICK port \in Ports(m) : u \in {port} \X DOMAIN m.ports[port]
    BY DEF Units
  <2>2. m.ports[port] \in Seq(FUs) /\ u[1] = port /\ u[2] \in DOMAIN m.ports[port]
    BY <2>1, MachineIs
  <2>3. QED
    BY <2>2 DEF Type
<1>8. QED
  BY <1>5, <1>6, <1>7 DEF UnitsOf

Typed(m, S, fu) == {u \in S : Type(m, u) = fu}

(* Counting units or the places of a sequence without repetition.          *)
LEMMA TakenCount ==
  ASSUME NEW m \in Machine, NEW taken \in Seq(Units(m)), NEW fu \in FUs,
         \A i \in DOMAIN taken : Type(m, taken[i]) \notin m.pipelined,
         \A i, j \in DOMAIN taken : taken[i] = taken[j] => i = j
  PROVE  LET places == {k \in DOMAIN taken : Type(m, taken[k]) = fu /\ fu \notin m.pipelined}
         IN  /\ Cardinality(places) = Cardinality(Typed(m, ToSet(taken), fu))
             /\ Cardinality(Typed(m, ToSet(taken), fu)) \in Nat
             /\ Busy(m, taken) = ToSet(taken) /\ ToSet(taken) \in SUBSET Units(m)
<1> DEFINE places == {k \in DOMAIN taken : Type(m, taken[k]) = fu /\ fu \notin m.pipelined}
           types == Typed(m, ToSet(taken), fu)
           f == [k \in places |-> taken[k]]
<1>1. Len(taken) \in Nat /\ DOMAIN taken = 1 .. Len(taken) /\ \A k \in DOMAIN taken : taken[k] \in Units(m)
  OBVIOUS
<1>2. IsFiniteSet(places)
  <2>1. IsFiniteSet(1 .. Len(taken))
    BY <1>1, FS_Interval
  <2>2. QED
    BY <1>1, <2>1, FS_Subset
<1>3. f \in [places -> types]
  BY DEF ToSet, Typed
<1>4. \A x, y \in places : f[x] = f[y] => x = y
  OBVIOUS
<1>5. \A u \in types : \E k \in places : f[k] = u
  BY DEF ToSet, Typed
<1>6. Cardinality(types) = Cardinality(places) /\ IsFiniteSet(types)
  <2> HIDE DEF f, places, types
  <2>1. QED
    BY <1>2, <1>3, <1>4, <1>5, Matched
<1>7. Busy(m, taken) = ToSet(taken)
  BY DEF Busy, ToSet
<1>8. Cardinality(types) \in Nat
  BY <1>6, FS_CardinalityType
<1>9. ToSet(taken) \in SUBSET Units(m)
  BY <1>1 DEF ToSet
<1>10. QED
  BY <1>6, <1>7, <1>8, <1>9

(* What leaves or joins the busy units leaves or joins the counts.         *)
LEMMA CountsKept ==
  ASSUME NEW m \in Machine, NEW fu \in FUs, NEW A \in SUBSET Units(m), NEW B \in SUBSET Units(m),
         A \cap B = {}
  PROVE  /\ Cardinality(UnitsOf(m, fu) \ A) \in Nat
         /\ Cardinality(UnitsOf(m, fu) \ (A \cup B)) \in Nat
         /\ Cardinality(UnitsOf(m, fu) \ A)
              = Cardinality(UnitsOf(m, fu) \ (A \cup B)) + Cardinality(Typed(m, B, fu))
<1> DEFINE types == Typed(m, B, fu)
           free == UnitsOf(m, fu) \ (A \cup B)
<1>1. IsFiniteSet(Units(m))
  BY UnitsAre
<1>2. types \in SUBSET Units(m) /\ free \in SUBSET Units(m) /\ UnitsOf(m, fu) \ A \in SUBSET Units(m)
  BY DEF UnitsOf, Typed
<1>3. IsFiniteSet(types) /\ IsFiniteSet(free) /\ IsFiniteSet(UnitsOf(m, fu) \ A)
  BY <1>1, <1>2, FS_Subset
<1>4. types \cap free = {} /\ UnitsOf(m, fu) \ A = free \cup types
  BY DEF UnitsOf, Typed
<1>5. Cardinality(free \cup types) = Cardinality(free) + Cardinality(types)
  BY <1>3, <1>4, Disjoint
<1>6. Cardinality(free) \in Nat /\ Cardinality(UnitsOf(m, fu) \ A) \in Nat
  BY <1>3, FS_CardinalityType
<1>7. QED
  BY <1>4, <1>5, <1>6

(* What a scheduled instruction takes: units that are free, not pipelined   *)
(* and each once.                                                          *)
Fresh(m, p, taken) ==
  /\ taken \in Seq(Units(m))
  /\ \A i \in DOMAIN taken : taken[i] \notin p.usage /\ Type(m, taken[i]) \notin m.pipelined
  /\ \A i, j \in DOMAIN taken : taken[i] = taken[j] => i = j

LEMMA OccupyIs ==
  ASSUME NEW m \in Machine, NEW p \in PortState(m), NEW N, NEW h \in [N -> Seq(Units(m))],
         Accounted(m, p, h), NEW d \in N, h[d] = <<>>, NEW taken, Fresh(m, p, taken)
  PROVE  /\ occupyFU(m, p, taken) \in PortState(m)
         /\ Accounted(m, occupyFU(m, p, taken), [h EXCEPT ![d] = taken])
<1> DEFINE q == occupyFU(m, p, taken)
           g == [h EXCEPT ![d] = taken]
           types(fu) == Typed(m, ToSet(taken), fu)
<1>1. /\ taken \in Seq(Units(m)) /\ \A i \in DOMAIN taken : Type(m, taken[i]) \notin m.pipelined
      /\ \A i, j \in DOMAIN taken : taken[i] = taken[j] => i = j
      /\ \A i \in DOMAIN taken : taken[i] \notin p.usage
  BY DEF Fresh
<1>2. p.usage \in SUBSET Units(m) /\ p.aval \in [FUs -> Int] /\ p.release \in [Ports(m) -> Nat]
  BY DEF PortState
<1>3. \A fu \in FUs : /\ Busy(m, taken) = ToSet(taken) /\ ToSet(taken) \in SUBSET Units(m)
                      /\ Recount(m, p.aval, taken, -1)[fu] = p.aval[fu] - Cardinality(types(fu))
                      /\ Cardinality(types(fu)) \in Nat
  <2> TAKE fu \in FUs
  <2> DEFINE places == {k \in DOMAIN taken : Type(m, taken[k]) = fu /\ fu \notin m.pipelined}
  <2>1. /\ Cardinality(places) = Cardinality(types(fu)) /\ Cardinality(types(fu)) \in Nat
        /\ Busy(m, taken) = ToSet(taken) /\ ToSet(taken) \in SUBSET Units(m)
    BY <1>1, TakenCount
  <2>2. Recount(m, p.aval, taken, -1)[fu] = p.aval[fu] + (-1) * Cardinality(places)
    BY DEF Recount
  <2> HIDE DEF places, types
  <2>3. p.aval[fu] \in Int
    BY <1>2
  <2>4. QED
    BY <2>1, <2>2, <2>3
<1>4. Busy(m, taken) = ToSet(taken) /\ ToSet(taken) \in SUBSET Units(m)
  BY <1>1 DEF Busy, ToSet
<1>5. q = [p EXCEPT !.usage = p.usage \cup ToSet(taken), !.aval = Recount(m, p.aval, taken, -1)]
  BY <1>4 DEF occupyFU
<1>6. Recount(m, p.aval, taken, -1) \in [FUs -> Int]
  <2>1. \A fu \in FUs : Recount(m, p.aval, taken, -1)[fu] \in Int
    <3> HIDE DEF types
    <3>1. QED
      BY <1>2, <1>3
  <2>2. Recount(m, p.aval, taken, -1) = [fu \in FUs |-> Recount(m, p.aval, taken, -1)[fu]]
    BY DEF Recount
  <2>3. QED
    BY <2>1, <2>2
<1>7. /\ q \in PortState(m)
      /\ q.usage = p.usage \cup ToSet(taken) /\ q.aval = Recount(m, p.aval, taken, -1)
  BY <1>2, <1>4, <1>5, <1>6 DEF PortState
<1>8. p.usage = InUse(m, h) /\ Held(m, h) /\ Counted(m, p)
  BY DEF Accounted
<1>9. /\ DOMAIN h = N /\ DOMAIN g = N /\ g[d] = taken
      /\ \A e \in N \ {d} : g[e] = h[e]
  OBVIOUS
<1> HIDE DEF q, g
<1>10. \A e \in N : \A i \in DOMAIN h[e] : h[e][i] \in p.usage
  BY <1>8 DEF InUse
<1>11. Held(m, g)
  <2>1. ASSUME NEW e \in N, NEW i \in DOMAIN g[e]
        PROVE  /\ Type(m, g[e][i]) \notin m.pipelined
               /\ \A x \in N : \A j \in DOMAIN g[x] : g[e][i] = g[x][j] => e = x /\ i = j
    <3>1. CASE e = d
      BY <1>1, <1>9, <1>10, <2>1, <3>1, SMTT(30)
    <3>2. CASE e # d
      <4>1. i \in DOMAIN h[e] /\ g[e][i] = h[e][i] /\ e \in DOMAIN h
        BY <1>9, <2>1, <3>2
      <4>2. Type(m, h[e][i]) \notin m.pipelined
        BY <1>8, <4>1 DEF Held
      <4>3. ASSUME NEW x \in N, NEW j \in DOMAIN g[x], g[e][i] = g[x][j] PROVE e = x /\ i = j
        <5>1. x # d
          BY <1>1, <1>9, <1>10, <4>1, <4>3
        <5>2. j \in DOMAIN h[x] /\ g[x][j] = h[x][j] /\ x \in DOMAIN h
          BY <1>9, <4>3, <5>1
        <5>3. h[e][i] = h[x][j]
          BY <4>1, <4>3, <5>2
        <5>4. \A c \in DOMAIN h : \A y \in DOMAIN h[c] : h[e][i] = h[c][y] => e = c /\ i = y
          BY <1>8, <4>1, Zenon DEF Held
        <5>5. QED
          BY <5>2, <5>3, <5>4, Zenon
      <4>4. QED
        BY <4>1, <4>2, <4>3
    <3>3. QED
      BY <3>1, <3>2
  <2>2. QED
    BY <1>9, <2>1 DEF Held
<1>12. q.usage = InUse(m, g)
  <2>1. \A u \in ToSet(taken) : \E i \in DOMAIN g[d] : g[d][i] = u
    BY <1>9 DEF ToSet
  <2>2. \A u \in InUse(m, h) : u \in InUse(m, g)
    <3> TAKE u \in InUse(m, h)
    <3>1. PICK e \in N : \E i \in DOMAIN h[e] : h[e][i] = u
      BY <1>9 DEF InUse
    <3>2. e # d
      BY <3>1
    <3>3. QED
      BY <1>9, <3>1, <3>2 DEF InUse
  <2>3. \A u \in InUse(m, g) : u \in InUse(m, h) \cup ToSet(taken)
    <3> TAKE u \in InUse(m, g)
    <3>1. PICK e \in N : \E i \in DOMAIN g[e] : g[e][i] = u
      BY <1>9 DEF InUse
    <3>2. CASE e = d
      BY <1>9, <3>1, <3>2 DEF ToSet
    <3>3. CASE e # d
      BY <1>9, <3>1, <3>3 DEF InUse
    <3>4. QED
      BY <3>2, <3>3
  <2>4. ToSet(taken) \subseteq InUse(m, g)
    BY <1>4, <1>9, <2>1 DEF InUse
  <2>5. QED
    BY <1>7, <1>8, <2>2, <2>3, <2>4
<1>13. Counted(m, q)
  <2>1. p.usage \cap ToSet(taken) = {}
    BY <1>1 DEF ToSet
  <2>2. ASSUME NEW fu \in FUs PROVE q.aval[fu] = Cardinality(UnitsOf(m, fu) \ q.usage)
    <3> DEFINE x == Cardinality(UnitsOf(m, fu) \ p.usage)
               y == Cardinality(UnitsOf(m, fu) \ (p.usage \cup ToSet(taken)))
               z == Cardinality(types(fu))
    <3>1. x \in Nat /\ y \in Nat /\ x = y + z
      BY <1>2, <1>4, <2>1, CountsKept
    <3>2. q.aval[fu] = p.aval[fu] - z /\ z \in Nat
      BY <1>3, <1>7
    <3>3. p.aval[fu] = x
      BY <1>8 DEF Counted
    <3>4. y = Cardinality(UnitsOf(m, fu) \ q.usage)
      BY <1>7
    <3> HIDE DEF x, y, z
    <3>5. QED
      BY <3>1, <3>2, <3>3, <3>4
  <2>3. QED
    BY <2>2 DEF Counted
<1>14. QED
  BY <1>7, <1>11, <1>12, <1>13 DEF Accounted, q, g

LEMMA FreeIs ==
  ASSUME NEW m \in Machine, NEW p \in PortState(m), NEW N, NEW h \in [N -> Seq(Units(m))],
         Accounted(m, p, h), NEW d \in N
  PROVE  /\ freeFU(m, p, h[d]) \in PortState(m)
         /\ Accounted(m, freeFU(m, p, h[d]), [h EXCEPT ![d] = <<>>])
<1> DEFINE taken == h[d]
           q == freeFU(m, p, taken)
           g == [h EXCEPT ![d] = <<>>]
           types(fu) == Typed(m, ToSet(taken), fu)
<1>1. p.usage = InUse(m, h) /\ Held(m, h) /\ Counted(m, p) /\ DOMAIN h = N
  BY DEF Accounted
<1>2. /\ taken \in Seq(Units(m)) /\ \A i \in DOMAIN taken : Type(m, taken[i]) \notin m.pipelined
      /\ \A i, j \in DOMAIN taken : taken[i] = taken[j] => i = j
  BY <1>1 DEF Held
<1>3. p.usage \in SUBSET Units(m) /\ p.aval \in [FUs -> Int] /\ p.release \in [Ports(m) -> Nat]
  BY DEF PortState
<1>4. Busy(m, taken) = ToSet(taken) /\ ToSet(taken) \in SUBSET Units(m)
  BY <1>2 DEF Busy, ToSet
<1>5. ToSet(taken) \subseteq p.usage
  BY <1>1, <1>4 DEF InUse, ToSet
<1>6. \A fu \in FUs : /\ Recount(m, p.aval, taken, 1)[fu] = p.aval[fu] + Cardinality(types(fu))
                      /\ Cardinality(types(fu)) \in Nat
  <2> TAKE fu \in FUs
  <2> DEFINE places == {k \in DOMAIN taken : Type(m, taken[k]) = fu /\ fu \notin m.pipelined}
  <2>1. Cardinality(places) = Cardinality(types(fu)) /\ Cardinality(types(fu)) \in Nat
    <3> HIDE DEF taken
    <3>1. QED
      BY <1>2, TakenCount
  <2>2. Recount(m, p.aval, taken, 1)[fu] = p.aval[fu] + 1 * Cardinality(places)
    BY DEF Recount
  <2> HIDE DEF places, types
  <2>3. p.aval[fu] \in Int
    BY <1>3
  <2>4. QED
    BY <2>1, <2>2, <2>3
<1>7. Recount(m, p.aval, taken, 1) \in [FUs -> Int]
  <2>1. \A fu \in FUs : Recount(m, p.aval, taken, 1)[fu] \in Int
    <3> HIDE DEF types
    <3>1. QED
      BY <1>3, <1>6
  <2>2. Recount(m, p.aval, taken, 1) = [fu \in FUs |-> Recount(m, p.aval, taken, 1)[fu]]
    BY DEF Recount
  <2>3. QED
    BY <2>1, <2>2
<1>8. q = [p EXCEPT !.usage = p.usage \ ToSet(taken), !.aval = Recount(m, p.aval, taken, 1)]
  BY <1>4 DEF freeFU
<1>9. /\ q \in PortState(m)
      /\ q.usage = p.usage \ ToSet(taken) /\ q.aval = Recount(m, p.aval, taken, 1)
  BY <1>3, <1>7, <1>8 DEF PortState
<1>10. /\ DOMAIN g = N /\ g[d] = <<>>
       /\ \A e \in N \ {d} : g[e] = h[e]
  OBVIOUS
<1> HIDE DEF q, g, taken
<1>11. Held(m, g)
  <2>1. ASSUME NEW e \in N, NEW i \in DOMAIN g[e]
        PROVE  /\ Type(m, g[e][i]) \notin m.pipelined
               /\ \A x \in N : \A j \in DOMAIN g[x] : g[e][i] = g[x][j] => e = x /\ i = j
    <3>1. e # d
      BY <1>10, <2>1
    <3>2. \A x \in N : \A j \in DOMAIN g[x] : x # d
      BY <1>10
    <3>3. QED
      BY <1>1, <1>10, <2>1, <3>1, <3>2 DEF Held
  <2>2. QED
    BY <1>10, <2>1 DEF Held
<1>12. q.usage = InUse(m, g)
  <2>1. \A u \in InUse(m, g) : u \in InUse(m, h) /\ u \notin ToSet(taken)
    <3> TAKE u \in InUse(m, g)
    <3>1. PICK e \in N : \E i \in DOMAIN g[e] : g[e][i] = u
      BY <1>10 DEF InUse
    <3>2. e # d
      BY <1>10, <3>1
    <3>3. PICK i \in DOMAIN h[e] : h[e][i] = u
      BY <1>10, <3>1, <3>2
    <3>4. \A j \in DOMAIN taken : taken[j] # u
      BY <1>1, <3>2, <3>3 DEF Held, taken
    <3>5. QED
      BY <1>1, <3>3, <3>4 DEF InUse, ToSet
  <2>2. \A u \in InUse(m, h) : u \in InUse(m, g) \cup ToSet(taken)
    <3> TAKE u \in InUse(m, h)
    <3>1. PICK e \in N : \E i \in DOMAIN h[e] : h[e][i] = u
      BY <1>1 DEF InUse
    <3>2. CASE e = d
      BY <3>1, <3>2 DEF ToSet, taken
    <3>3. CASE e # d
      BY <1>10, <3>1, <3>3 DEF InUse
    <3>4. QED
      BY <3>2, <3>3
  <2>3. QED
    BY <1>1, <1>9, <2>1, <2>2
<1>13. Counted(m, q)
  <2>1. /\ p.usage \ ToSet(taken) \in SUBSET Units(m) /\ (p.usage \ ToSet(taken)) \cap ToSet(taken) = {}
        /\ (p.usage \ ToSet(taken)) \cup ToSet(taken) = p.usage
    BY <1>3, <1>5
  <2>2. ASSUME NEW fu \in FUs PROVE q.aval[fu] = Cardinality(UnitsOf(m, fu) \ q.usage)
    <3> DEFINE x == Cardinality(UnitsOf(m, fu) \ (p.usage \ ToSet(taken)))
               y == Cardinality(UnitsOf(m, fu) \ p.usage)
               z == Cardinality(types(fu))
    <3>1. x \in Nat /\ y \in Nat /\ x = y + z
      <4> DEFINE A == p.usage \ ToSet(taken)
      <4>1. A \in SUBSET Units(m) /\ A \cap ToSet(taken) = {} /\ A \cup ToSet(taken) = p.usage
        BY <2>1
      <4> HIDE DEF A
      <4>2. /\ Cardinality(UnitsOf(m, fu) \ A) \in Nat
            /\ Cardinality(UnitsOf(m, fu) \ (A \cup ToSet(taken))) \in Nat
            /\ Cardinality(UnitsOf(m, fu) \ A)
                 = Cardinality(UnitsOf(m, fu) \ (A \cup ToSet(taken))) + z
        BY <1>4, <4>1, CountsKept, Zenon
      <4>3. QED
        BY <4>1, <4>2, Zenon DEF A
    <3>2. q.aval[fu] = p.aval[fu] + z /\ z \in Nat
      BY <1>6, <1>9
    <3>3. p.aval[fu] = y
      BY <1>1 DEF Counted
    <3>4. x = Cardinality(UnitsOf(m, fu) \ q.usage)
      BY <1>9
    <3> HIDE DEF x, y, z
    <3>5. QED
      BY <3>1, <3>2, <3>3, <3>4
  <2>3. QED
    BY <2>2 DEF Counted
<1>14. QED
  BY <1>9, <1>11, <1>12, <1>13 DEF Accounted, q, g, taken

-----------------------------------------------------------------------------
(* The search for ports and units.                                         *)

LEMMA PortIs ==
  ASSUME NEW m \in Machine, NEW p \in PortState(m), NEW fu, NEW i, NEW row \in Seq(Ports(m)),
         NEW occupied, NEW u, u = getAvailablePort(m, p, fu, i, row, occupied), u # NoUnit
  PROVE  /\ u \in Units(m) /\ u \notin p.usage /\ Type(m, u) = fu
         /\ u[1] \in Ports(m) /\ u[1] \notin occupied
<1> DEFINE usable == {k \in DOMAIN row :
                        /\ row[k] \in allowPorts(i) \ occupied
                        /\ (m.naive \/ p.release[row[k]] = 0)
                        /\ FreeOn(m, p, row[k], fu) # {}}
           first == row[Min(usable)]
           free == FreeOn(m, p, first, fu)
<1>1. usable # {} /\ u = <<first, Min(free)>>
  BY Zenon DEF getAvailablePort
<1>2. usable \in SUBSET Nat
  <2>1. DOMAIN row \subseteq Nat
    OBVIOUS
  <2>2. QED
    BY <2>1
<1>3. Min(usable) \in usable
  <2> HIDE DEF usable
  <2>1. QED
    BY <1>1, <1>2, MinIs
<1>4. first \in Ports(m) /\ first \notin occupied /\ free # {}
  <2>1. Min(usable) \in DOMAIN row /\ row[Min(usable)] \notin occupied
    BY <1>3, Zenon
  <2>2. FreeOn(m, p, row[Min(usable)], fu) # {}
    BY <1>3, Zenon
  <2>3. row[Min(usable)] \in Ports(m)
    <3> HIDE DEF usable
    <3>1. QED
      BY <2>1
  <2>4. QED
    BY <2>1, <2>2, <2>3, Zenon
<1> HIDE DEF usable, first
<1>5. free \in SUBSET Nat
  <2>1. DOMAIN m.ports[first] \subseteq Nat
    BY <1>4, MachineIs
  <2>2. QED
    BY <2>1 DEF FreeOn
<1>6. Min(free) \in free
  <2> HIDE DEF free
  <2>1. QED
    BY <1>4, <1>5, MinIs
<1>7. /\ Min(free) \in DOMAIN m.ports[first] /\ m.ports[first][Min(free)] = fu
      /\ <<first, Min(free)>> \notin p.usage
  BY <1>6 DEF FreeOn
<1> HIDE DEF free
<1>8. u \in Units(m)
  BY <1>1, <1>4, <1>7, UnitsAre
<1>9. QED
  BY <1>1, <1>4, <1>7, <1>8 DEF Type

(* What a search has found: units that may be taken, on ports it noted.    *)
Search(m, p) ==
  {a \in [ok : BOOLEAN, occupied : SUBSET Ports(m), taken : Seq(Units(m))] :
     Fresh(m, p, a.taken) /\ \A i \in DOMAIN a.taken : a.taken[i][1] \in a.occupied}

LEMMA FindIs ==
  ASSUME NEW m \in Machine, NEW p \in PortState(m), NEW i, NEW row \in Seq(Ports(m)),
         NEW a \in Search(m, p), NEW fu
  PROVE  FindUnit(m, p, i, row, a, fu) \in Search(m, p)
<1> DEFINE u == getAvailablePort(m, p, fu, i, row, a.occupied)
           t == a.taken
<1>1. /\ a.ok \in BOOLEAN /\ a.occupied \in SUBSET Ports(m) /\ t \in Seq(Units(m))
      /\ Fresh(m, p, t) /\ \A k \in DOMAIN t : t[k][1] \in a.occupied
      /\ a = [ok |-> a.ok, occupied |-> a.occupied, taken |-> t]
  BY DEF Search
<1>2. CASE ~a.ok
  BY <1>2 DEF FindUnit
<1>3. CASE a.ok /\ u = NoUnit
  <2>1. FindUnit(m, p, i, row, a, fu) = [ok |-> FALSE, occupied |-> a.occupied, taken |-> t]
    <3>1. FindUnit(m, p, i, row, a, fu) = [a EXCEPT !.ok = FALSE]
      BY <1>3, Zenon DEF FindUnit
    <3>2. QED
      BY <1>1, <3>1
  <2>2. QED
    BY <1>1, <2>1 DEF Search
<1>4. CASE a.ok /\ u # NoUnit
  <2> DEFINE v == IF fu \in m.pipelined THEN t ELSE Append(t, u)
             b == [ok |-> TRUE, occupied |-> a.occupied \cup {u[1]}, taken |-> v]
  <2>1. /\ u \in Units(m) /\ u \notin p.usage /\ Type(m, u) = fu
        /\ u[1] \in Ports(m) /\ u[1] \notin a.occupied
    <3> HIDE DEF t
    <3>1. u = getAvailablePort(m, p, fu, i, row, a.occupied)
      OBVIOUS
    <3> HIDE DEF u
    <3>2. QED
      BY <1>4, <3>1, PortIs
  <2>2. FindUnit(m, p, i, row, a, fu) = b
    BY <1>4, Zenon DEF FindUnit
  <2> HIDE DEF u, t
  <2>3. Fresh(m, p, v) /\ \A k \in DOMAIN v : v[k][1] \in a.occupied \cup {u[1]}
    <3>1. CASE fu \in m.pipelined
      BY <1>1, <3>1
    <3>2. CASE fu \notin m.pipelined
      <4>1. v = Append(t, u)
        BY <3>2
      <4>2. /\ v \in Seq(Units(m)) /\ Len(v) = Len(t) + 1 /\ Len(t) \in Nat /\ v[Len(t) + 1] = u
            /\ \A k \in 1 .. Len(t) : v[k] = t[k]
        BY <1>1, <2>1, <4>1, AppendIs
      <4> HIDE DEF v
      <4>3. DOMAIN v = 1 .. Len(t) + 1 /\ DOMAIN t = 1 .. Len(t)
        BY <1>1, <4>2
      <4>4. \A k \in DOMAIN v : k = Len(t) + 1 \/ (k \in DOMAIN t /\ v[k] = t[k])
        BY <4>2, <4>3
      <4>5. \A k \in DOMAIN t : t[k] # u
        BY <1>1, <2>1
      <4>6. \A k \in DOMAIN v : v[k] \notin p.usage /\ Type(m, v[k]) \notin m.pipelined
        BY <1>1, <2>1, <3>2, <4>2, <4>4 DEF Fresh
      <4>7. \A j, k \in DOMAIN v : v[j] = v[k] => j = k
        BY <1>1, <4>2, <4>4, <4>5 DEF Fresh
      <4>8. \A k \in DOMAIN v : v[k][1] \in a.occupied \cup {u[1]}
        BY <1>1, <4>2, <4>4
      <4>9. QED
        BY <4>2, <4>6, <4>7, <4>8 DEF Fresh
    <3>3. QED
      BY <3>1, <3>2
  <2>4. v \in Seq(Units(m))
    BY <2>3 DEF Fresh
  <2> HIDE DEF v
  <2>5. QED
    BY <1>1, <2>1, <2>2, <2>3, <2>4 DEF Search
<1>5. QED
  BY <1>1, <1>2, <1>3, <1>4

FindAll(m, p, i, row, base, s) == FoldLeft(LAMBDA a, fu : FindUnit(m, p, i, row, a, fu), base, s)
(* The types of an alternative.                                           *)
LEMMA FindInduct ==
  ASSUME NEW m, NEW p, NEW i, NEW row, NEW s, Len(s) \in Nat, DOMAIN s = 1 .. Len(s), NEW T, NEW base \in T,
         \A k \in 1 .. Len(s), r \in T : (FindUnit(m, p, i, row, r, s[k])) \in T,
         NEW P, base \in P[0],
         \A k \in 1 .. Len(s), r \in T : r \in P[k - 1] => (FindUnit(m, p, i, row, r, s[k])) \in P[k]
  PROVE  FindAll(m, p, i, row, base, s) \in T /\ FindAll(m, p, i, row, base, s) \in P[Len(s)]
<1> DEFINE n == Len(s)
           step == [z \in T \X (1 .. n) |-> FindUnit(m, p, i, row, z[1], s[z[2]])]
           Folds(h) == h = [q \in SUBSET (1 .. n) |-> IF q = {} THEN base ELSE FindUnit(m, p, i, row, h[q \ {Max(q)}], s[Max(q)])]
           it == CHOOSE h : Folds(h)
<1>1. FindAll(m, p, i, row, base, s) = it[1 .. n]
  BY Zenon DEF FindAll, FoldLeft, MapThenFoldSet
<1>2. \A r \in T, k \in 1 .. n : step[<<r, k>>] = FindUnit(m, p, i, row, r, s[k])
  BY Zenon
<1>3. Steps(step, T, n)
  BY Zenon DEF Steps
<1> HIDE DEF step
<1>4. Folds(it)
  <2>1. PICK g : Folding(g, T, n, base, step)
    <3> HIDE DEF n
    <3>1. n \in Nat
      BY DEF n
    <3>2. QED
      BY <1>3, <3>1, FoldExists
  <2>2. ASSUME NEW q \in SUBSET (1 .. n), q # {}
        PROVE  g[q] = FindUnit(m, p, i, row, g[q \ {Max(q)}], s[Max(q)])
    <3>1. Max(q) \in 1 .. n
      BY <2>2, MaxOf
    <3>2. g[q \ {Max(q)}] \in T
      BY <2>1 DEF Folding
    <3>3. g[q] = step[<<g[q \ {Max(q)}], Max(q)>>]
      BY <2>1, <2>2 DEF Folding
    <3>4. QED
      BY <1>2, <3>1, <3>2, <3>3, Zenon
  <2>3. Folds(g)
    BY <2>1, <2>2, Zenon DEF Folding
  <2>4. QED
    BY <2>3, Zenon
<1> HIDE DEF it
<1>5. Unfolds(it, T, n, base, step)
  <2>1. it[{}] = base
    <3>1. {} \in SUBSET (1 .. n)
      OBVIOUS
    <3>2. QED
      BY <1>4, <3>1, Zenon
  <2>2. ASSUME NEW k \in 1 .. n, it[1 .. k - 1] \in T
        PROVE  it[1 .. k] = step[<<it[1 .. k - 1], k>>]
    <3>1. /\ Max(1 .. k) = k /\ (1 .. k) \ {k} = 1 .. k - 1
          /\ 1 .. k \in SUBSET (1 .. n) /\ 1 .. k # {}
      BY MaxOf
    <3>2. it[1 .. k] = FindUnit(m, p, i, row, it[(1 .. k) \ {Max(1 .. k)}], s[Max(1 .. k)])
      BY <1>4, <3>1, Zenon
    <3>3. it[1 .. k] = FindUnit(m, p, i, row, it[1 .. k - 1], s[k])
      BY <3>1, <3>2, Zenon
    <3>4. QED
      BY <3>3, <1>2, <2>2, Zenon
  <2>3. QED
    BY <2>1, <2>2, Zenon DEF Unfolds
<1>6. LeadsOn(P, T, n, base, step)
  <2>1. ASSUME NEW k \in 1 .. n, NEW r \in T, r \in P[k - 1] PROVE step[<<r, k>>] \in P[k]
    <3>1. step[<<r, k>>] = FindUnit(m, p, i, row, r, s[k])
      BY <1>2, Zenon
    <3>2. QED
      BY <2>1, <3>1, Zenon
  <2>2. QED
    BY <2>1, Zenon DEF LeadsOn
<1>7. it[1 .. n] \in T /\ it[1 .. n] \in P[n]
  <2> HIDE DEF n, Folds
  <2>1. n \in Nat
    BY DEF n
  <2>2. QED
    BY <1>3, <1>5, <1>6, <2>1, FoldInduct
<1>8. QED
  BY <1>1, <1>7, Zenon

LEMMA AlternativeIs ==
  ASSUME NEW m \in Machine, NEW p \in PortState(m), NEW i, NEW row \in Seq(Ports(m)),
         NEW fus \in Seq(FUs), NEW start \in Search(m, p)
  PROVE  Alternative(m, p, i, fus, row, start) \in Search(m, p)
<1> DEFINE s == sortFUs(p, fus)
           base == [start EXCEPT !.ok = TRUE]
           T == Search(m, p)
           P == [k \in 0 .. Len(s) |-> T]
<1>1. Len(s) \in Nat /\ DOMAIN s = 1 .. Len(s)
  <2>1. s = [k \in DOMAIN fus |-> s[k]]
    BY DEF sortFUs
  <2>2. DOMAIN fus = 1 .. Len(fus) /\ Len(fus) \in Nat
    OBVIOUS
  <2>3. s \in [1 .. Len(fus) -> {s[k] : k \in 1 .. Len(fus)}]
    BY <2>1, <2>2
  <2> HIDE DEF s
  <2>4. s \in Seq({s[k] : k \in 1 .. Len(fus)}) /\ Len(s) = Len(fus)
    BY <2>2, <2>3, FunctionIsSeq
  <2>5. QED
    BY <2>2, <2>3, <2>4
<1>2. base \in T
  BY DEF Search
<1> HIDE DEF s
<1>3. \A k \in 1 .. Len(s), r \in T : FindUnit(m, p, i, row, r, s[k]) \in T
  BY FindIs
<1>4. base \in P[0] /\ \A k \in 1 .. Len(s) : P[k - 1] = T /\ P[k] = T
  BY <1>1, <1>2
<1>5. \A k \in 1 .. Len(s), r \in T :
        r \in P[k - 1] => FindUnit(m, p, i, row, r, s[k]) \in P[k]
  BY <1>3, <1>4
<1> HIDE DEF base, P, T
<1>6. FindAll(m, p, i, row, base, s) \in T /\ FindAll(m, p, i, row, base, s) \in P[Len(s)]
  BY <1>1, <1>2, <1>3, <1>4, <1>5, FindInduct
<1>7. QED
  BY <1>6, Zenon DEF FindAll, Alternative, base, s, T

NextAlternative(m, p, i, row, start, a, fus) ==
  IF a.ok THEN a ELSE Alternative(m, p, i, fus, row, IF m.naive THEN start ELSE a)
AnyAll(m, p, i, row, start, base, s) ==
  FoldLeft(LAMBDA a, fus : NextAlternative(m, p, i, row, start, a, fus), base, s)
(* The alternatives.                                                       *)
LEMMA AnyInduct ==
  ASSUME NEW m, NEW p, NEW i, NEW row, NEW start, NEW s, Len(s) \in Nat, DOMAIN s = 1 .. Len(s), NEW T, NEW base \in T,
         \A k \in 1 .. Len(s), r \in T : (NextAlternative(m, p, i, row, start, r, s[k])) \in T,
         NEW P, base \in P[0],
         \A k \in 1 .. Len(s), r \in T : r \in P[k - 1] => (NextAlternative(m, p, i, row, start, r, s[k])) \in P[k]
  PROVE  AnyAll(m, p, i, row, start, base, s) \in T /\ AnyAll(m, p, i, row, start, base, s) \in P[Len(s)]
<1> DEFINE n == Len(s)
           step == [z \in T \X (1 .. n) |-> NextAlternative(m, p, i, row, start, z[1], s[z[2]])]
           Folds(h) == h = [q \in SUBSET (1 .. n) |-> IF q = {} THEN base ELSE NextAlternative(m, p, i, row, start, h[q \ {Max(q)}], s[Max(q)])]
           it == CHOOSE h : Folds(h)
<1>1. AnyAll(m, p, i, row, start, base, s) = it[1 .. n]
  BY Zenon DEF AnyAll, FoldLeft, MapThenFoldSet
<1>2. \A r \in T, k \in 1 .. n : step[<<r, k>>] = NextAlternative(m, p, i, row, start, r, s[k])
  BY Zenon
<1>3. Steps(step, T, n)
  BY Zenon DEF Steps
<1> HIDE DEF step
<1>4. Folds(it)
  <2>1. PICK g : Folding(g, T, n, base, step)
    <3> HIDE DEF n
    <3>1. n \in Nat
      BY DEF n
    <3>2. QED
      BY <1>3, <3>1, FoldExists
  <2>2. ASSUME NEW q \in SUBSET (1 .. n), q # {}
        PROVE  g[q] = NextAlternative(m, p, i, row, start, g[q \ {Max(q)}], s[Max(q)])
    <3>1. Max(q) \in 1 .. n
      BY <2>2, MaxOf
    <3>2. g[q \ {Max(q)}] \in T
      BY <2>1 DEF Folding
    <3>3. g[q] = step[<<g[q \ {Max(q)}], Max(q)>>]
      BY <2>1, <2>2 DEF Folding
    <3>4. QED
      BY <1>2, <3>1, <3>2, <3>3, Zenon
  <2>3. Folds(g)
    BY <2>1, <2>2, Zenon DEF Folding
  <2>4. QED
    BY <2>3, Zenon
<1> HIDE DEF it
<1>5. Unfolds(it, T, n, base, step)
  <2>1. it[{}] = base
    <3>1. {} \in SUBSET (1 .. n)
      OBVIOUS
    <3>2. QED
      BY <1>4, <3>1, Zenon
  <2>2. ASSUME NEW k \in 1 .. n, it[1 .. k - 1] \in T
        PROVE  it[1 .. k] = step[<<it[1 .. k - 1], k>>]
    <3>1. /\ Max(1 .. k) = k /\ (1 .. k) \ {k} = 1 .. k - 1
          /\ 1 .. k \in SUBSET (1 .. n) /\ 1 .. k # {}
      BY MaxOf
    <3>2. it[1 .. k] = NextAlternative(m, p, i, row, start, it[(1 .. k) \ {Max(1 .. k)}], s[Max(1 .. k)])
      BY <1>4, <3>1, Zenon
    <3>3. it[1 .. k] = NextAlternative(m, p, i, row, start, it[1 .. k - 1], s[k])
      BY <3>1, <3>2, Zenon
    <3>4. QED
      BY <3>3, <1>2, <2>2, Zenon
  <2>3. QED
    BY <2>1, <2>2, Zenon DEF Unfolds
<1>6. LeadsOn(P, T, n, base, step)
  <2>1. ASSUME NEW k \in 1 .. n, NEW r \in T, r \in P[k - 1] PROVE step[<<r, k>>] \in P[k]
    <3>1. step[<<r, k>>] = NextAlternative(m, p, i, row, start, r, s[k])
      BY <1>2, Zenon
    <3>2. QED
      BY <2>1, <3>1, Zenon
  <2>2. QED
    BY <2>1, Zenon DEF LeadsOn
<1>7. it[1 .. n] \in T /\ it[1 .. n] \in P[n]
  <2> HIDE DEF n, Folds
  <2>1. n \in Nat
    BY DEF n
  <2>2. QED
    BY <1>3, <1>5, <1>6, <2>1, FoldInduct
<1>8. QED
  BY <1>1, <1>7, Zenon

LEMMA AnyIs ==
  ASSUME NEW m \in Machine, NEW p \in PortState(m), NEW i \in Insn(m), NEW row \in Seq(Ports(m)),
         NEW start \in Search(m, p)
  PROVE  AnyAlternative(m, p, i, row, start) \in Search(m, p)
<1> DEFINE s == i.fus
           T == Search(m, p)
           P == [k \in 0 .. Len(s) |-> T]
<1>1. s \in Seq(Seq(FUs)) /\ Len(s) \in Nat /\ DOMAIN s = 1 .. Len(s) /\ \A k \in 1 .. Len(s) : s[k] \in Seq(FUs)
  BY DEF Insn
<1> HIDE DEF s
<1>2. ASSUME NEW k \in 1 .. Len(s), NEW r \in T
      PROVE  NextAlternative(m, p, i, row, start, r, s[k]) \in T
  <2>1. Alternative(m, p, i, s[k], row, start) \in Search(m, p)
    BY <1>1, AlternativeIs
  <2>2. Alternative(m, p, i, s[k], row, r) \in Search(m, p)
    BY <1>1, AlternativeIs
  <2>3. QED
    BY <2>1, <2>2, Zenon DEF NextAlternative
<1>3. start \in P[0] /\ \A k \in 1 .. Len(s) : P[k - 1] = T /\ P[k] = T
  BY <1>1
<1>4. \A k \in 1 .. Len(s), r \in T : NextAlternative(m, p, i, row, start, r, s[k]) \in T
  BY <1>2
<1>5. \A k \in 1 .. Len(s), r \in T :
        r \in P[k - 1] => NextAlternative(m, p, i, row, start, r, s[k]) \in P[k]
  BY <1>3, <1>4
<1>6. start \in T
  OBVIOUS
<1> HIDE DEF P, T
<1>7. /\ AnyAll(m, p, i, row, start, start, s) \in T
      /\ AnyAll(m, p, i, row, start, start, s) \in P[Len(s)]
  BY <1>1, <1>3, <1>4, <1>5, <1>6, AnyInduct
<1>8. AnyAlternative(m, p, i, row, start) = AnyAll(m, p, i, row, start, start, s)
  BY Zenon DEF AnyAlternative, AnyAll, NextAlternative, s
<1>9. QED
  BY <1>7, <1>8 DEF T

(* Whatever is occupied or freed, the counts stay numbers.                  *)
LEMMA PortTypes ==
  ASSUME NEW m \in Machine, NEW p \in PortState(m), NEW taken \in Seq(Units(m))
  PROVE  occupyFU(m, p, taken) \in PortState(m) /\ freeFU(m, p, taken) \in PortState(m)
<1> DEFINE places(fu) == {k \in DOMAIN taken : Type(m, taken[k]) = fu /\ fu \notin m.pipelined}
<1>1. \A fu \in FUs : Cardinality(places(fu)) \in Nat
  <2> TAKE fu \in FUs
  <2>1. IsFiniteSet(1 .. Len(taken))
    BY FS_Interval
  <2>2. places(fu) \in SUBSET (1 .. Len(taken))
    OBVIOUS
  <2>3. IsFiniteSet(places(fu))
    BY <2>1, <2>2, FS_Subset
  <2>4. QED
    BY <2>3, FS_CardinalityType
<1>2. p.usage \in SUBSET Units(m) /\ p.aval \in [FUs -> Int] /\ p.release \in [Ports(m) -> Nat]
  BY DEF PortState
<1>3. /\ Recount(m, p.aval, taken, -1) = [fu \in FUs |-> p.aval[fu] + (-1) * Cardinality(places(fu))]
      /\ Recount(m, p.aval, taken, 1) = [fu \in FUs |-> p.aval[fu] + 1 * Cardinality(places(fu))]
  BY Zenon DEF Recount
<1> HIDE DEF places
<1>4. Recount(m, p.aval, taken, -1) \in [FUs -> Int]
  <2>1. \A fu \in FUs : p.aval[fu] + (-1) * Cardinality(places(fu)) \in Int
    BY <1>1, <1>2
  <2>2. QED
    BY <1>3, <2>1
<1>5. Recount(m, p.aval, taken, 1) \in [FUs -> Int]
  <2>1. \A fu \in FUs : p.aval[fu] + 1 * Cardinality(places(fu)) \in Int
    BY <1>1, <1>2
  <2>2. QED
    BY <1>3, <2>1
<1>6. Busy(m, taken) \in SUBSET Units(m)
  BY DEF Busy, ToSet
<1>7. occupyFU(m, p, taken) \in PortState(m)
  BY <1>2, <1>4, <1>6 DEF PortState, occupyFU
<1>8. freeFU(m, p, taken) \in PortState(m)
  BY <1>2, <1>5, <1>6 DEF PortState, freeFU
<1>9. QED
  BY <1>7, <1>8

AddAll(p, occupied, s) == FoldLeft(LAMBDA row, uop : AddPort(p, occupied, row, uop), <<>>, s)
(* The micro-ops.                                                          *)
LEMMA AddInduct ==
  ASSUME NEW p, NEW occupied, NEW s, Len(s) \in Nat, DOMAIN s = 1 .. Len(s), NEW T, <<>> \in T,
         \A k \in 1 .. Len(s), r \in T : (AddPort(p, occupied, r, s[k])) \in T,
         NEW P, <<>> \in P[0],
         \A k \in 1 .. Len(s), r \in T : r \in P[k - 1] => (AddPort(p, occupied, r, s[k])) \in P[k]
  PROVE  AddAll(p, occupied, s) \in T /\ AddAll(p, occupied, s) \in P[Len(s)]
<1> DEFINE n == Len(s)
           step == [z \in T \X (1 .. n) |-> AddPort(p, occupied, z[1], s[z[2]])]
           Folds(h) == h = [q \in SUBSET (1 .. n) |-> IF q = {} THEN <<>> ELSE AddPort(p, occupied, h[q \ {Max(q)}], s[Max(q)])]
           it == CHOOSE h : Folds(h)
<1>1. AddAll(p, occupied, s) = it[1 .. n]
  BY Zenon DEF AddAll, FoldLeft, MapThenFoldSet
<1>2. \A r \in T, k \in 1 .. n : step[<<r, k>>] = AddPort(p, occupied, r, s[k])
  BY Zenon
<1>3. Steps(step, T, n)
  BY Zenon DEF Steps
<1> HIDE DEF step
<1>4. Folds(it)
  <2>1. PICK g : Folding(g, T, n, <<>>, step)
    <3> HIDE DEF n
    <3>1. n \in Nat
      BY DEF n
    <3>2. QED
      BY <1>3, <3>1, FoldExists
  <2>2. ASSUME NEW q \in SUBSET (1 .. n), q # {}
        PROVE  g[q] = AddPort(p, occupied, g[q \ {Max(q)}], s[Max(q)])
    <3>1. Max(q) \in 1 .. n
      BY <2>2, MaxOf
    <3>2. g[q \ {Max(q)}] \in T
      BY <2>1 DEF Folding
    <3>3. g[q] = step[<<g[q \ {Max(q)}], Max(q)>>]
      BY <2>1, <2>2 DEF Folding
    <3>4. QED
      BY <1>2, <3>1, <3>2, <3>3, Zenon
  <2>3. Folds(g)
    BY <2>1, <2>2, Zenon DEF Folding
  <2>4. QED
    BY <2>3, Zenon
<1> HIDE DEF it
<1>5. Unfolds(it, T, n, <<>>, step)
  <2>1. it[{}] = <<>>
    <3>1. {} \in SUBSET (1 .. n)
      OBVIOUS
    <3>2. QED
      BY <1>4, <3>1, Zenon
  <2>2. ASSUME NEW k \in 1 .. n, it[1 .. k - 1] \in T
        PROVE  it[1 .. k] = step[<<it[1 .. k - 1], k>>]
    <3>1. /\ Max(1 .. k) = k /\ (1 .. k) \ {k} = 1 .. k - 1
          /\ 1 .. k \in SUBSET (1 .. n) /\ 1 .. k # {}
      BY MaxOf
    <3>2. it[1 .. k] = AddPort(p, occupied, it[(1 .. k) \ {Max(1 .. k)}], s[Max(1 .. k)])
      BY <1>4, <3>1, Zenon
    <3>3. it[1 .. k] = AddPort(p, occupied, it[1 .. k - 1], s[k])
      BY <3>1, <3>2, Zenon
    <3>4. QED
      BY <3>3, <1>2, <2>2, Zenon
  <2>3. QED
    BY <2>1, <2>2, Zenon DEF Unfolds
<1>6. LeadsOn(P, T, n, <<>>, step)
  <2>1. ASSUME NEW k \in 1 .. n, NEW r \in T, r \in P[k - 1] PROVE step[<<r, k>>] \in P[k]
    <3>1. step[<<r, k>>] = AddPort(p, occupied, r, s[k])
      BY <1>2, Zenon
    <3>2. QED
      BY <2>1, <3>1, Zenon
  <2>2. QED
    BY <2>1, Zenon DEF LeadsOn
<1>7. it[1 .. n] \in T /\ it[1 .. n] \in P[n]
  <2> HIDE DEF n, Folds
  <2>1. n \in Nat
    BY DEF n
  <2>2. QED
    BY <1>3, <1>5, <1>6, <2>1, FoldInduct
<1>8. QED
  BY <1>1, <1>7, Zenon

LEMMA UopsIs ==
  ASSUME NEW m \in Machine, NEW p, NEW i \in Insn(m), NEW occupied,
         NEW row, row = scheduleUops(p, i, occupied)
  PROVE  row \in Seq(Ports(m)) /\ (row # <<>> => Len(row) = Len(i.portMapping))
<1> DEFINE s == i.portMapping
           T == Seq(Ports(m))
           P == [k \in 0 .. Len(s) |-> T]
<1>1. /\ Len(s) \in Nat /\ DOMAIN s = 1 .. Len(s)
      /\ \A k \in 1 .. Len(s) : s[k] \in Nat \X Seq(Ports(m))
  BY DEF Insn
<1> HIDE DEF s
<1>2. ASSUME NEW k \in 1 .. Len(s), NEW r \in T
      PROVE  AddPort(p, occupied, r, s[k]) \in T
  <2> DEFINE mine == s[k][2]
             free == {j \in DOMAIN mine : /\ mine[j] \notin ToSet(r \o occupied)
                                          /\ p.release[mine[j]] = 0}
  <2>1. mine \in Seq(Ports(m)) /\ DOMAIN mine \subseteq Nat
    BY <1>1
  <2>2. AddPort(p, occupied, r, s[k]) = IF free = {} THEN r ELSE Append(r, mine[Min(free)])
    BY Zenon DEF AddPort
  <2>3. CASE free = {}
    BY <2>2, <2>3
  <2>4. CASE free # {}
    <3>1. free \in SUBSET Nat
      BY <2>1
    <3>2. Min(free) \in free
      <4> HIDE DEF free
      <4>1. QED
        BY <2>4, <3>1, MinIs
    <3>3. Min(free) \in DOMAIN mine
      BY <3>2, Zenon
    <3> HIDE DEF free, mine
    <3>4. mine[Min(free)] \in Ports(m)
      BY <2>1, <3>3
    <3>5. QED
      BY <2>2, <2>4, <3>4
  <2>5. QED
    BY <2>3, <2>4
<1>3. <<>> \in T /\ <<>> \in P[0] /\ \A k \in 1 .. Len(s) : P[k - 1] = T /\ P[k] = T
  BY <1>1
<1>4. \A k \in 1 .. Len(s), r \in T : AddPort(p, occupied, r, s[k]) \in T
  BY <1>2
<1>5. \A k \in 1 .. Len(s), r \in T :
        r \in P[k - 1] => AddPort(p, occupied, r, s[k]) \in P[k]
  BY <1>3, <1>4
<1> HIDE DEF P, T
<1>6. AddAll(p, occupied, s) \in T /\ AddAll(p, occupied, s) \in P[Len(s)]
  BY <1>1, <1>3, <1>4, <1>5, AddInduct
<1>7. row = IF Len(AddAll(p, occupied, s)) = Len(s) THEN AddAll(p, occupied, s) ELSE <<>>
  BY Zenon DEF scheduleUops, AddAll, s
<1>8. QED
  BY <1>6, <1>7 DEF T, s

LEMMA BlockIs ==
  ASSUME NEW m \in Machine, NEW p \in PortState(m), NEW i \in Insn(m), NEW row \in Seq(Ports(m)),
         Len(row) = Len(i.portMapping)
  PROVE  /\ BlockPorts(m, p, i, row) \in PortState(m)
         /\ BlockPorts(m, p, i, row).usage = p.usage /\ BlockPorts(m, p, i, row).aval = p.aval
<1> DEFINE place(port) == CHOOSE k \in DOMAIN row : row[k] = port
           r == [port \in Ports(m) |-> IF port \in ToSet(row) THEN i.portMapping[place(port)][1]
                                                              ELSE p.release[port]]
<1>1. p.usage \in SUBSET Units(m) /\ p.aval \in [FUs -> Int] /\ p.release \in [Ports(m) -> Nat]
  BY DEF PortState
<1>2. i.portMapping \in Seq(Nat \X Seq(Ports(m)))
  BY DEF Insn
<1>3. ASSUME NEW port \in Ports(m), port \in ToSet(row)
      PROVE  i.portMapping[place(port)][1] \in Nat
  <2>1. \E k \in DOMAIN row : row[k] = port
    BY <1>3 DEF ToSet
  <2>2. place(port) \in DOMAIN row
    BY <2>1, Zenon
  <2> HIDE DEF place
  <2>3. DOMAIN row = 1 .. Len(row) /\ place(port) \in DOMAIN i.portMapping
    BY <1>2, <2>2
  <2>4. i.portMapping[place(port)] \in Nat \X Seq(Ports(m))
    BY <1>2, <2>3
  <2>5. QED
    BY <2>4
<1>4. BlockPorts(m, p, i, row) = [p EXCEPT !.release = r]
  BY Zenon DEF BlockPorts
<1>5. r \in [Ports(m) -> Nat]
  <2> HIDE DEF place
  <2>1. QED
    BY <1>1, <1>3
<1> HIDE DEF r
<1>6. QED
  BY <1>1, <1>4, <1>5 DEF PortState

(* What schedule answers: the units taken are free ones, and the state is   *)
(* that of the ports with these units occupied.                            *)
Occupied(m, p, taken, q) ==
  \E o \in PortState(m) : o.usage = p.usage /\ o.aval = p.aval /\ q = occupyFU(m, o, taken)

LEMMA ScheduleIs ==
  ASSUME NEW m \in Machine, NEW p \in PortState(m), NEW i \in Insn(m), NEW occupied \in Seq(Ports(m)),
         NEW t, t = schedule(m, p, i, occupied)
  PROVE  /\ t.occupied \in Seq(Ports(m)) /\ t.ok \in BOOLEAN
         /\ t.ok => Fresh(m, p, t.taken) /\ Occupied(m, p, t.taken, t.p)
<1> DEFINE Good(x) == /\ x.occupied \in Seq(Ports(m)) /\ x.ok \in BOOLEAN
                      /\ x.ok => Fresh(m, p, x.taken) /\ Occupied(m, p, x.taken, x.p)
<1>1. ASSUME NEW o \in Seq(Ports(m)) PROVE Good(Failed(p, o))
  BY DEF Failed
<1>2. ASSUME NEW o \in SUBSET Ports(m)
      PROVE  [ok |-> FALSE, occupied |-> o, taken |-> <<>>] \in Search(m, p)
  <2>1. Fresh(m, p, <<>>)
    BY DEF Fresh
  <2>2. <<>> \in Seq(Units(m))
    OBVIOUS
  <2>3. [ok |-> FALSE, occupied |-> o, taken |-> <<>>] \in [ok : BOOLEAN, occupied : SUBSET Ports(m), taken : Seq(Units(m))]
    BY <2>2
  <2>4. QED
    BY <2>1, <2>3 DEF Search
<1>3. Good(schedulePortModel(m, p, i, occupied))
  <2> DEFINE row == scheduleUops(p, i, occupied)
             start == [ok |-> FALSE, occupied |-> {}, taken |-> <<>>]
             found == AnyAlternative(m, p, i, row, start)
             q == BlockPorts(m, p, i, row)
             yes == [ok |-> TRUE, p |-> occupyFU(m, q, found.taken),
                     occupied |-> occupied \o row \o row, taken |-> found.taken]
  <2>1. row \in Seq(Ports(m)) /\ (row # <<>> => Len(row) = Len(i.portMapping))
    BY UopsIs
  <2>2. start \in Search(m, p)
    BY <1>2
  <2>3. schedulePortModel(m, p, i, occupied) =
          IF row = <<>> THEN Failed(p, occupied)
          ELSE IF ~found.ok THEN Failed(p, occupied \o row) ELSE yes
    BY Zenon DEF schedulePortModel, OnPorts
  <2> HIDE DEF row, start
  <2>4. found \in Search(m, p)
    BY <2>1, <2>2, AnyIs
  <2> HIDE DEF found
  <2>5. occupied \o row \in Seq(Ports(m)) /\ occupied \o row \o row \in Seq(Ports(m))
    BY <2>1
  <2>6. CASE row = <<>>
    <3>1. Good(Failed(p, occupied))
      BY <1>1
    <3>2. QED
      BY <2>3, <2>6, <3>1
  <2>7. CASE row # <<>> /\ ~found.ok
    <3>1. Good(Failed(p, occupied \o row))
      BY <1>1, <2>5
    <3> HIDE DEF Good
    <3>2. QED
      BY <2>3, <2>7, <3>1
  <2>8. CASE row # <<>> /\ found.ok
    <3>1. q \in PortState(m) /\ q.usage = p.usage /\ q.aval = p.aval
      BY <2>1, <2>8, BlockIs
    <3> HIDE DEF q
    <3>2. Occupied(m, p, found.taken, occupyFU(m, q, found.taken))
      BY <3>1 DEF Occupied
    <3>3. Fresh(m, p, found.taken)
      BY <2>4 DEF Search
    <3>4. Good(yes)
      BY <2>5, <3>2, <3>3
    <3> HIDE DEF Good, yes
    <3>5. QED
      BY <2>3, <2>8, <3>4
  <2>9. QED
    BY <2>4, <2>6, <2>7, <2>8
<1>4. Good(scheduleNaiveModel(m, p, i, occupied))
  <2> DEFINE row == [port \in Ports(m) |-> port]
             start == [ok |-> FALSE, occupied |-> ToSet(occupied), taken |-> <<>>]
             found == AnyAlternative(m, p, i, row, start)
             s == [k \in DOMAIN found.taken |-> found.taken[k][1]]
             yes == [ok |-> TRUE, p |-> occupyFU(m, p, found.taken),
                     occupied |-> occupied \o s, taken |-> found.taken]
  <2>1. row \in Seq(Ports(m))
    <3>1. Ports(m) = 1 .. Len(m.ports) /\ Len(m.ports) \in Nat
      BY MachineIs
    <3>2. row \in [1 .. Len(m.ports) -> Ports(m)]
      BY <3>1
    <3> HIDE DEF row
    <3>3. QED
      BY <3>1, <3>2, FunctionIsSeq
  <2>2. start \in Search(m, p)
    <3>1. ToSet(occupied) \in SUBSET Ports(m)
      BY DEF ToSet
    <3>2. QED
      BY <1>2, <3>1
  <2>3. scheduleNaiveModel(m, p, i, occupied) = IF ~found.ok THEN Failed(p, occupied) ELSE yes
    BY Zenon DEF scheduleNaiveModel
  <2> HIDE DEF row, start
  <2>4. found \in Search(m, p)
    BY <2>1, <2>2, AnyIs
  <2> HIDE DEF found
  <2>5. /\ Fresh(m, p, found.taken) /\ found.taken \in Seq(Units(m)) /\ found.ok \in BOOLEAN
        /\ \A k \in DOMAIN found.taken : found.taken[k][1] \in Ports(m)
    BY <2>4 DEF Search
  <2>6. s \in Seq(Ports(m))
    <3>1. s \in [1 .. Len(found.taken) -> Ports(m)] /\ Len(found.taken) \in Nat
      BY <2>5
    <3> HIDE DEF s
    <3>2. QED
      BY <3>1, FunctionIsSeq
  <2> HIDE DEF s
  <2>7. occupied \o s \in Seq(Ports(m))
    BY <2>6
  <2>8. CASE ~found.ok
    <3>1. Good(Failed(p, occupied))
      BY <1>1
    <3>2. QED
      BY <2>3, <2>8, <3>1
  <2>9. CASE found.ok
    <3>1. Occupied(m, p, found.taken, occupyFU(m, p, found.taken))
      BY DEF Occupied
    <3>2. Good(yes)
      BY <2>5, <2>7, <3>1
    <3> HIDE DEF Good, yes
    <3>3. QED
      BY <2>3, <2>9, <3>2
  <2>10. QED
    BY <2>5, <2>8, <2>9
<1>5. QED
  BY <1>3, <1>4 DEF schedule

-----------------------------------------------------------------------------
(* Queues and streams.                                                     *)

Gone(s, k) == {s[j] : j \in 1 .. k}
Rest(s, k) == {s[j] : j \in k + 1 .. Len(s)}

LEMMA Parts ==
  ASSUME NEW T, NEW s \in Seq(T)
  PROVE  /\ Len(s) \in Nat /\ DOMAIN s = 1 .. Len(s) /\ \A k \in 1 .. Len(s) : s[k] \in T
         /\ \A k \in 1 .. Len(s) : /\ Rest(s, k - 1) = Rest(s, k) \cup {s[k]}
                                   /\ Gone(s, k) = Gone(s, k - 1) \cup {s[k]}
                                   /\ s[k] \in ToSet(s)
         /\ Gone(s, 0) = {} /\ Gone(s, Len(s)) = ToSet(s)
         /\ Rest(s, 0) = ToSet(s) /\ Rest(s, Len(s)) = {}
         /\ ToSet(s) \subseteq T
<1>1. Len(s) \in Nat /\ DOMAIN s = 1 .. Len(s) /\ \A k \in 1 .. Len(s) : s[k] \in T
  OBVIOUS
<1>2. ASSUME NEW k \in 1 .. Len(s)
      PROVE  /\ Rest(s, k - 1) = Rest(s, k) \cup {s[k]} /\ Gone(s, k) = Gone(s, k - 1) \cup {s[k]}
             /\ s[k] \in ToSet(s)
  <2>1. k - 1 + 1 = k /\ k .. Len(s) = (k + 1 .. Len(s)) \cup {k} /\ 1 .. k = (1 .. k - 1) \cup {k}
    BY <1>1
  <2>2. Rest(s, k - 1) = {s[j] : j \in k .. Len(s)}
    BY <2>1, Zenon DEF Rest
  <2>3. Rest(s, k - 1) = Rest(s, k) \cup {s[k]}
    BY <2>1, <2>2 DEF Rest
  <2>4. Gone(s, k) = Gone(s, k - 1) \cup {s[k]}
    BY <2>1 DEF Gone
  <2>5. s[k] \in ToSet(s)
    BY <1>1 DEF ToSet
  <2>6. QED
    BY <2>3, <2>4, <2>5
<1>3. Gone(s, 0) = {} /\ Gone(s, Len(s)) = ToSet(s)
  BY <1>1 DEF Gone, ToSet
<1>4. Rest(s, 0) = ToSet(s) /\ Rest(s, Len(s)) = {}
  BY <1>1 DEF Rest, ToSet
<1>5. ToSet(s) \subseteq T
  BY <1>1 DEF ToSet
<1>6. QED
  BY <1>1, <1>2, <1>3, <1>4, <1>5

LEMMA InOrder ==
  ASSUME NEW T \in SUBSET Nat, NEW s \in Seq(T), Increasing(s), NEW k \in 1 .. Len(s)
  PROVE  (\A x \in Gone(s, k - 1) : x < s[k]) /\ s[k] \notin Rest(s, k)
<1>1. Len(s) \in Nat /\ DOMAIN s = 1 .. Len(s) /\ \A j \in 1 .. Len(s) : s[j] \in Nat
  <2>1. Len(s) \in Nat /\ DOMAIN s = 1 .. Len(s) /\ \A j \in 1 .. Len(s) : s[j] \in T
    OBVIOUS
  <2>2. QED
    BY <2>1
<1>2. \A j \in 1 .. k - 1 : s[j] < s[k]
  BY <1>1 DEF Increasing
<1>3. \A j \in k + 1 .. Len(s) : s[k] < s[j] /\ s[k] # s[j]
  BY <1>1 DEF Increasing
<1>4. QED
  BY <1>2, <1>3 DEF Gone, Rest

LEMMA Appended ==
  ASSUME NEW T \in SUBSET Nat, NEW s \in Seq(T), NEW e \in T
  PROVE  /\ Append(s, e) \in Seq(T) /\ ToSet(Append(s, e)) = ToSet(s) \cup {e}
         /\ Len(s) \in Nat /\ Len(Append(s, e)) = Len(s) + 1
         /\ (Increasing(s) /\ \A x \in ToSet(s) : x < e) => Increasing(Append(s, e))
<1> DEFINE a == Append(s, e)
<1>1. /\ Len(s) \in Nat /\ DOMAIN s = 1 .. Len(s) /\ a \in Seq(T) /\ Len(a) = Len(s) + 1
      /\ DOMAIN a = 1 .. Len(s) + 1
      /\ a[Len(s) + 1] = e /\ \A k \in 1 .. Len(s) : a[k] = s[k] /\ s[k] \in Nat
  <2>1. /\ Len(s) \in Nat /\ a \in Seq(T) /\ Len(a) = Len(s) + 1
        /\ a[Len(s) + 1] = e /\ \A k \in 1 .. Len(s) : a[k] = s[k]
    BY AppendIs
  <2> HIDE DEF a
  <2>2. DOMAIN s = 1 .. Len(s) /\ \A k \in 1 .. Len(s) : s[k] \in T
    OBVIOUS
  <2>3. DOMAIN a = 1 .. Len(s) + 1
    BY <2>1
  <2>4. QED
    BY <2>1, <2>2, <2>3
<1> HIDE DEF a
<1>2. ToSet(a) = ToSet(s) \cup {e}
  BY <1>1 DEF ToSet
<1>3. ASSUME Increasing(s), \A x \in ToSet(s) : x < e PROVE Increasing(a)
  <2>1. \A k \in 1 .. Len(s) : s[k] < e
    BY <1>1, <1>3 DEF ToSet
  <2>2. \A i, j \in 1 .. Len(s) : i < j => s[i] < s[j]
    BY <1>1, <1>3 DEF Increasing
  <2>3. ASSUME NEW i \in 1 .. Len(s) + 1, NEW j \in 1 .. Len(s) + 1, i < j PROVE a[i] < a[j]
    BY <1>1, <2>1, <2>2, <2>3
  <2>4. QED
    BY <1>1, <2>3 DEF Increasing
<1>4. QED
  BY <1>1, <1>2, <1>3 DEF a

LEMMA Joined ==
  ASSUME NEW T \in SUBSET Nat, NEW s \in Seq(T), NEW t \in Seq(T)
  PROVE  /\ s \o t \in Seq(T) /\ ToSet(s \o t) = ToSet(s) \cup ToSet(t)
         /\ Len(s) \in Nat /\ Len(t) \in Nat /\ Len(s \o t) = Len(s) + Len(t)
         /\ (Increasing(s) /\ Increasing(t) /\ \A x \in ToSet(s), y \in ToSet(t) : x < y) => Increasing(s \o t)
<1> DEFINE a == s \o t
<1>1. /\ Len(s) \in Nat /\ DOMAIN s = 1 .. Len(s) /\ a \in Seq(T) /\ Len(a) = Len(s) + Len(t)
      /\ DOMAIN a = 1 .. Len(s) + Len(t) /\ Len(t) \in Nat /\ DOMAIN t = 1 .. Len(t)
      /\ \A k \in 1 .. Len(s) : a[k] = s[k] /\ s[k] \in T
      /\ \A k \in 1 .. Len(t) : a[Len(s) + k] = t[k] /\ t[k] \in T
  BY CatIs
<1> HIDE DEF a
<1>2. \A k \in 1 .. Len(s) + Len(t) :
        k \in 1 .. Len(s) \/ (k - Len(s) \in 1 .. Len(t) /\ Len(s) + (k - Len(s)) = k)
  BY <1>1
<1>3. ToSet(a) = ToSet(s) \cup ToSet(t)
  <2>1. ToSet(s) \subseteq ToSet(a)
    BY <1>1 DEF ToSet
  <2>2. ToSet(t) \subseteq ToSet(a)
    <3>1. \A k \in 1 .. Len(t) : Len(s) + k \in DOMAIN a
      BY <1>1
    <3>2. QED
      BY <1>1, <3>1 DEF ToSet
  <2>3. ASSUME NEW k \in DOMAIN a PROVE a[k] \in ToSet(s) \cup ToSet(t)
    <3>1. CASE k \in 1 .. Len(s)
      BY <1>1, <3>1 DEF ToSet
    <3>2. CASE k - Len(s) \in 1 .. Len(t) /\ Len(s) + (k - Len(s)) = k
      <4>1. a[k] = t[k - Len(s)]
        BY <1>1, <3>2
      <4>2. QED
        BY <1>1, <3>2, <4>1 DEF ToSet
    <3>3. QED
      BY <1>1, <1>2, <2>3, <3>1, <3>2
  <2>4. QED
    BY <2>1, <2>2, <2>3 DEF ToSet
<1>4. ASSUME Increasing(s), Increasing(t), \A x \in ToSet(s), y \in ToSet(t) : x < y
      PROVE  Increasing(a)
  <2>1. ASSUME NEW i \in 1 .. Len(s) + Len(t), NEW j \in 1 .. Len(s) + Len(t), i < j PROVE a[i] < a[j]
    <3>1. CASE j \in 1 .. Len(s)
      <4>1. i \in 1 .. Len(s)
        BY <1>1, <2>1, <3>1
      <4>2. QED
        BY <1>1, <1>4, <2>1, <3>1, <4>1 DEF Increasing
    <3>2. CASE j \notin 1 .. Len(s)
      <4>1. j - Len(s) \in 1 .. Len(t) /\ Len(s) + (j - Len(s)) = j
        BY <1>2, <3>2
      <4>2. a[j] = t[j - Len(s)] /\ a[j] \in ToSet(t)
        BY <1>1, <4>1 DEF ToSet
      <4>3. CASE i \in 1 .. Len(s)
        <5>1. a[i] \in ToSet(s)
          BY <1>1, <4>3 DEF ToSet
        <5>2. QED
          BY <1>4, <4>2, <5>1
      <4>4. CASE i \notin 1 .. Len(s)
        <5>1. i - Len(s) \in 1 .. Len(t) /\ Len(s) + (i - Len(s)) = i
          BY <1>2, <4>4
        <5>2. a[i] = t[i - Len(s)] /\ i - Len(s) < j - Len(s)
          BY <1>1, <2>1, <5>1
        <5>3. QED
          BY <1>1, <1>4, <4>1, <4>2, <5>1, <5>2 DEF Increasing
      <4>5. QED
        BY <4>3, <4>4
    <3>3. QED
      BY <3>1, <3>2
  <2>2. QED
    BY <1>1, <2>1 DEF Increasing
<1>5. QED
  BY <1>1, <1>3, <1>4 DEF a

LEMMA ProgIs ==
  ASSUME TypeOK
  PROVE  /\ machine \in Machine /\ Insns = 1 .. Len(prog) /\ Len(prog) \in Nat
         /\ Insns \in SUBSET Nat
         /\ \A d \in Insns : prog[d] \in Insn(machine) /\ prog[d].cycles \in Nat
<1>1. machine \in Machine /\ prog \in Seq(Insn(machine))
  BY DyserCoreAssumption DEF TypeOK
<1>2. \A i \in Insn(machine) : i.cycles \in Nat
  BY DEF Insn
<1>3. QED
  BY <1>1, <1>2 DEF Insns

LEMMA SinglesOf ==
  ASSUME NEW T \in SUBSET Nat, NEW e \in T
  PROVE  <<e>> \in Seq(T) /\ ToSet(<<e>>) = {e} /\ Increasing(<<e>>)
<1>1. <<e>> \in Seq(T) /\ DOMAIN <<e>> = {1} /\ <<e>>[1] = e
  OBVIOUS
<1>2. ToSet(<<e>>) = {e}
  BY <1>1 DEF ToSet
<1>3. Increasing(<<e>>)
  BY <1>1 DEF Increasing
<1>4. QED
  BY <1>1, <1>2, <1>3

LEMMA HeadIs ==
  ASSUME NEW T \in SUBSET Nat, NEW s \in Seq(T), Increasing(s), s # <<>>
  PROVE  /\ Tail(s) \in Seq(T) /\ Increasing(Tail(s)) /\ Head(s) \in ToSet(s)
         /\ ToSet(Tail(s)) = ToSet(s) \ {Head(s)}
<1> DEFINE t == Tail(s)
<1>1. /\ Len(s) \in Nat /\ Len(s) > 0 /\ DOMAIN s = 1 .. Len(s) /\ t \in Seq(T) /\ Len(t) = Len(s) - 1
      /\ DOMAIN t = 1 .. Len(s) - 1 /\ Head(s) = s[1]
      /\ \A k \in 1 .. Len(s) - 1 : t[k] = s[k + 1]
      /\ \A k \in 1 .. Len(s) : s[k] \in Nat
  <2>1. Len(s) \in Nat /\ DOMAIN s = 1 .. Len(s) /\ \A k \in 1 .. Len(s) : s[k] \in T
    OBVIOUS
  <2>2. Len(s) > 0 /\ Head(s) = s[1]
    BY <2>1
  <2>3. t \in Seq(T) /\ Len(t) = Len(s) - 1 /\ \A k \in 1 .. Len(s) - 1 : t[k] = s[k + 1]
    BY <2>2
  <2> HIDE DEF t
  <2>4. DOMAIN t = 1 .. Len(s) - 1
    BY <2>3
  <2>5. QED
    BY <2>1, <2>2, <2>3, <2>4
<1> HIDE DEF t
<1>2. \A i, j \in 1 .. Len(s) : i < j => s[i] < s[j]
  BY <1>1 DEF Increasing
<1>3. Increasing(t)
  <2>1. ASSUME NEW i \in 1 .. Len(s) - 1, NEW j \in 1 .. Len(s) - 1, i < j PROVE t[i] < t[j]
    <3>1. i + 1 \in 1 .. Len(s) /\ j + 1 \in 1 .. Len(s) /\ i + 1 < j + 1
      BY <1>1, <2>1
    <3>2. QED
      BY <1>1, <1>2, <3>1
  <2>2. QED
    BY <1>1, <2>1 DEF Increasing
<1>4. Head(s) \in ToSet(s)
  BY <1>1 DEF ToSet
<1>5. ToSet(t) = ToSet(s) \ {Head(s)}
  <2>1. ASSUME NEW k \in DOMAIN t PROVE t[k] \in ToSet(s) \ {Head(s)}
    <3>1. k + 1 \in 1 .. Len(s) /\ 1 \in 1 .. Len(s) /\ 1 < k + 1 /\ t[k] = s[k + 1]
      BY <1>1, <2>1
    <3>2. s[1] < s[k + 1] /\ s[1] \in Nat /\ s[k + 1] \in Nat
      BY <1>1, <1>2, <3>1
    <3>3. QED
      BY <1>1, <3>1, <3>2 DEF ToSet
  <2>2. ASSUME NEW k \in DOMAIN s, s[k] # s[1] PROVE s[k] \in ToSet(t)
    <3>1. k - 1 \in DOMAIN t /\ k - 1 + 1 = k
      BY <1>1, <2>2
    <3>2. t[k - 1] = s[k]
      BY <1>1, <3>1
    <3>3. QED
      BY <3>1, <3>2 DEF ToSet
  <2>3. QED
    BY <1>1, <2>1, <2>2 DEF ToSet
<1>6. QED
  BY <1>1, <1>3, <1>4, <1>5 DEF t

(* Requests join the end of their stream and leave it from its head.       *)
Streams(H) == UNION {[K -> Seq(Insns)] : K \in SUBSET H}

LEMMA AddIs ==
  ASSUME Insns \in SUBSET Nat, NEW H, NEW r \in Streams(H), NEW D \in SUBSET Insns, InStreams(r, D), NEW d \in Insns,
         hashTwoInts(prog[d]) \in H, \A x \in D : x < d,
         NEW q, q = addInstruction(r, hashTwoInts(prog[d]), prog[d], d)
  PROVE  q \in Streams(H) /\ InStreams(q, D \cup {d})
<1> DEFINE h == hashTwoInts(prog[d])
           K == DOMAIN r \cup {h}
           new(k) == IF k # h THEN r[k] ELSE IF k \in DOMAIN r THEN Append(r[k], d) ELSE <<d>>
           mine(k, E) == {e \in E : isRequest(prog[e]) /\ hashTwoInts(prog[e]) = k}
<1>1. /\ r \in [DOMAIN r -> Seq(Insns)] /\ DOMAIN r \in SUBSET H
  BY DEF Streams
<1>2. q = IF ~isRequest(prog[d]) THEN r ELSE [k \in K |-> new(k)]
  BY Zenon DEF addInstruction
<1>3. /\ \A e \in D : isRequest(prog[e]) => hashTwoInts(prog[e]) \in DOMAIN r
      /\ \A k \in DOMAIN r : ToSet(r[k]) = mine(k, D) /\ Increasing(r[k])
  BY Zenon DEF InStreams
<1>4. CASE ~isRequest(prog[d])
  <2>1. \A k : mine(k, D \cup {d}) = mine(k, D)
    BY <1>4
  <2> HIDE DEF mine
  <2>2. /\ \A e \in D \cup {d} : isRequest(prog[e]) => hashTwoInts(prog[e]) \in DOMAIN r
        /\ \A k \in DOMAIN r : ToSet(r[k]) = mine(k, D \cup {d}) /\ Increasing(r[k])
    BY <1>3, <1>4, <2>1
  <2>3. InStreams(r, D \cup {d})
    BY <2>2, Zenon DEF InStreams, mine
  <2>4. QED
    BY <1>2, <1>4, <2>3
<1>5. CASE isRequest(prog[d])
  <2>1. q = [k \in K |-> new(k)]
    BY <1>2, <1>5
  <2>2. ASSUME NEW k \in K
        PROVE  new(k) \in Seq(Insns) /\ ToSet(new(k)) = mine(k, D \cup {d}) /\ Increasing(new(k))
    <3>1. CASE k # h
      <4>1. k \in DOMAIN r /\ new(k) = r[k]
        BY <2>2, <3>1
      <4>2. mine(k, D \cup {d}) = mine(k, D)
        BY <3>1
      <4> HIDE DEF mine, new
      <4>3. QED
        BY <1>1, <1>3, <4>1, <4>2
    <3>2. CASE k = h /\ h \in DOMAIN r
      <4>1. new(k) = Append(r[h], d)
        BY <3>2
      <4>2. mine(k, D \cup {d}) = mine(h, D) \cup {d}
        BY <1>5, <3>2
      <4>3. r[h] \in Seq(Insns) /\ ToSet(r[h]) = mine(h, D) /\ Increasing(r[h])
        <5> HIDE DEF mine, h
        <5>1. QED
          BY <1>1, <1>3, <3>2
      <4>4. \A x \in ToSet(r[h]) : x < d
        BY <4>3
      <4> HIDE DEF mine, new, h
      <4>5. /\ Append(r[h], d) \in Seq(Insns) /\ ToSet(Append(r[h], d)) = ToSet(r[h]) \cup {d}
            /\ Increasing(Append(r[h], d))
        BY <4>3, <4>4, Appended
      <4>6. QED
        BY <4>1, <4>2, <4>3, <4>5
    <3>3. CASE k = h /\ h \notin DOMAIN r
      <4>1. new(k) = <<d>>
        BY <3>3
      <4>2. mine(h, D) = {}
        BY <1>3, <3>3
      <4>3. mine(k, D \cup {d}) = {d}
        BY <1>5, <3>3, <4>2
      <4> HIDE DEF mine, new, h
      <4>4. QED
        BY <4>1, <4>3, SinglesOf
    <3>4. QED
      BY <2>2, <3>1, <3>2, <3>3
  <2> HIDE DEF new
  <2>3. DOMAIN q = K /\ q \in [K -> Seq(Insns)] /\ \A k \in K : q[k] = new(k)
    BY <2>1, <2>2
  <2>4. K \in SUBSET H
    BY <1>1
  <2>5. \A e \in D \cup {d} : isRequest(prog[e]) => hashTwoInts(prog[e]) \in K
    BY <1>3
  <2>6. \A k \in K : ToSet(q[k]) = mine(k, D \cup {d}) /\ Increasing(q[k])
    <3> HIDE DEF mine, K
    <3>1. QED
      BY <2>2, <2>3
  <2>7. InStreams(q, D \cup {d})
    BY <2>3, <2>5, <2>6, Zenon DEF InStreams
  <2>8. QED
    BY <2>3, <2>4, <2>7 DEF Streams
<1>6. QED
  BY <1>4, <1>5

LEMMA ReleaseIs ==
  ASSUME Insns \in SUBSET Nat, NEW K, NEW r \in [K -> Seq(Insns)], NEW D \in SUBSET Insns, InStreams(r, D), NEW d \in D,
         canIssue(r, hashTwoInts(prog[d]), prog[d], d),
         NEW q, q = releaseEntry(r, hashTwoInts(prog[d]), prog[d], d)
  PROVE  q \in [K -> Seq(Insns)] /\ InStreams(q, D \ {d})
<1> DEFINE h == hashTwoInts(prog[d])
           mine(k, E) == {e \in E : isRequest(prog[e]) /\ hashTwoInts(prog[e]) = k}
<1>1. DOMAIN r = K
  OBVIOUS
<1>2. /\ \A e \in D : isRequest(prog[e]) => hashTwoInts(prog[e]) \in K
      /\ \A k \in K : ToSet(r[k]) = mine(k, D) /\ Increasing(r[k])
  BY <1>1, Zenon DEF InStreams
<1>3. q = IF isRequest(prog[d]) /\ r[h] # <<>> /\ Head(r[h]) = d THEN [r EXCEPT ![h] = Tail(r[h])] ELSE r
  BY Zenon DEF releaseEntry
<1>4. CASE ~isRequest(prog[d])
  <2>1. \A k : mine(k, D \ {d}) = mine(k, D)
    BY <1>4
  <2> HIDE DEF mine
  <2>2. /\ \A e \in D \ {d} : isRequest(prog[e]) => hashTwoInts(prog[e]) \in DOMAIN r
        /\ \A k \in DOMAIN r : ToSet(r[k]) = mine(k, D \ {d}) /\ Increasing(r[k])
    BY <1>1, <1>2, <1>4, <2>1
  <2>3. InStreams(r, D \ {d})
    BY <2>2, Zenon DEF InStreams, mine
  <2>4. QED
    BY <1>3, <1>4, <2>3
<1>5. CASE isRequest(prog[d])
  <2>1. h \in K /\ d \in mine(h, D)
    BY <1>2, <1>5
  <2>2. /\ r[h] \in Seq(Insns) /\ ToSet(r[h]) = mine(h, D) /\ Increasing(r[h])
    <3> HIDE DEF mine, h
    <3>1. QED
      BY <1>2, <2>1
  <2>3. Head(r[h]) = d
    BY <1>5, Zenon DEF canIssue
  <2>4. r[h] # <<>>
    <3>1. DOMAIN <<>> = {}
      OBVIOUS
    <3>2. ToSet(<<>>) = {}
      BY <3>1 DEF ToSet
    <3> HIDE DEF mine, h
    <3>3. QED
      BY <2>1, <2>2, <3>2
  <2>5. q = [r EXCEPT ![h] = Tail(r[h])]
    BY <1>3, <1>5, <2>3, <2>4
  <2>6. \A k : k # h => mine(k, D \ {d}) = mine(k, D)
    OBVIOUS
  <2>7. mine(h, D \ {d}) = mine(h, D) \ {d}
    OBVIOUS
  <2> HIDE DEF mine, h
  <2>8. /\ Tail(r[h]) \in Seq(Insns) /\ Increasing(Tail(r[h]))
        /\ ToSet(Tail(r[h])) = mine(h, D) \ {d}
    BY <2>2, <2>3, <2>4, HeadIs
  <2>9. q \in [K -> Seq(Insns)] /\ DOMAIN q = K
    BY <2>1, <2>5, <2>8
  <2>10. ASSUME NEW k \in K PROVE ToSet(q[k]) = mine(k, D \ {d}) /\ Increasing(q[k])
    BY <1>2, <2>1, <2>5, <2>6, <2>7, <2>8
  <2>11. \A e \in D \ {d} : isRequest(prog[e]) => hashTwoInts(prog[e]) \in K
    BY <1>2
  <2>12. InStreams(q, D \ {d})
    BY <2>9, <2>10, <2>11, Zenon DEF InStreams, mine
  <2>13. QED
    BY <2>9, <2>12
<1>6. QED
  BY <1>4, <1>5

-----------------------------------------------------------------------------
(* Write back.                                                             *)

Holdings == [Insns -> Seq(Units(machine))]

LEMMA ReleasedIs ==
  ASSUME machine \in Machine, NEW r, r.ports \in PortState(machine), r.using \in Holdings,
         NEW d \in Insns, Accounted(machine, r.ports, r.using),
         NEW p, p = freeFU(machine, r.ports, r.using[d]),
         NEW h, h = [r.using EXCEPT ![d] = <<>>]
  PROVE  /\ p \in PortState(machine) /\ h \in Holdings /\ Accounted(machine, p, h)
         /\ h[d] = <<>> /\ \A e \in Insns \ {d} : h[e] = r.using[e]
<1>1. p \in PortState(machine) /\ Accounted(machine, p, h)
  BY FreeIs DEF Holdings
<1>2. h \in Holdings /\ h[d] = <<>> /\ \A e \in Insns \ {d} : h[e] = r.using[e]
  BY DEF Holdings
<1>3. QED
  BY <1>1, <1>2

WbStep(done, r, d) == IF d \in done THEN Release(r, d) ELSE [r EXCEPT !.left = Append(@, d)]
WbAll(done, base, s) == FoldLeft(LAMBDA r, d : WbStep(done, r, d), base, s)
(* The instructions in flight at write back.                               *)
LEMMA WbInduct ==
  ASSUME NEW done, NEW s, Len(s) \in Nat, DOMAIN s = 1 .. Len(s), NEW T, NEW base \in T,
         \A k \in 1 .. Len(s), r \in T : (WbStep(done, r, s[k])) \in T,
         NEW P, base \in P[0],
         \A k \in 1 .. Len(s), r \in T : r \in P[k - 1] => (WbStep(done, r, s[k])) \in P[k]
  PROVE  WbAll(done, base, s) \in T /\ WbAll(done, base, s) \in P[Len(s)]
<1> DEFINE n == Len(s)
           step == [z \in T \X (1 .. n) |-> WbStep(done, z[1], s[z[2]])]
           Folds(h) == h = [q \in SUBSET (1 .. n) |-> IF q = {} THEN base ELSE WbStep(done, h[q \ {Max(q)}], s[Max(q)])]
           it == CHOOSE h : Folds(h)
<1>1. WbAll(done, base, s) = it[1 .. n]
  BY Zenon DEF WbAll, FoldLeft, MapThenFoldSet
<1>2. \A r \in T, k \in 1 .. n : step[<<r, k>>] = WbStep(done, r, s[k])
  BY Zenon
<1>3. Steps(step, T, n)
  BY Zenon DEF Steps
<1> HIDE DEF step
<1>4. Folds(it)
  <2>1. PICK g : Folding(g, T, n, base, step)
    <3> HIDE DEF n
    <3>1. n \in Nat
      BY DEF n
    <3>2. QED
      BY <1>3, <3>1, FoldExists
  <2>2. ASSUME NEW q \in SUBSET (1 .. n), q # {}
        PROVE  g[q] = WbStep(done, g[q \ {Max(q)}], s[Max(q)])
    <3>1. Max(q) \in 1 .. n
      BY <2>2, MaxOf
    <3>2. g[q \ {Max(q)}] \in T
      BY <2>1 DEF Folding
    <3>3. g[q] = step[<<g[q \ {Max(q)}], Max(q)>>]
      BY <2>1, <2>2 DEF Folding
    <3>4. QED
      BY <1>2, <3>1, <3>2, <3>3, Zenon
  <2>3. Folds(g)
    BY <2>1, <2>2, Zenon DEF Folding
  <2>4. QED
    BY <2>3, Zenon
<1> HIDE DEF it
<1>5. Unfolds(it, T, n, base, step)
  <2>1. it[{}] = base
    <3>1. {} \in SUBSET (1 .. n)
      OBVIOUS
    <3>2. QED
      BY <1>4, <3>1, Zenon
  <2>2. ASSUME NEW k \in 1 .. n, it[1 .. k - 1] \in T
        PROVE  it[1 .. k] = step[<<it[1 .. k - 1], k>>]
    <3>1. /\ Max(1 .. k) = k /\ (1 .. k) \ {k} = 1 .. k - 1
          /\ 1 .. k \in SUBSET (1 .. n) /\ 1 .. k # {}
      BY MaxOf
    <3>2. it[1 .. k] = WbStep(done, it[(1 .. k) \ {Max(1 .. k)}], s[Max(1 .. k)])
      BY <1>4, <3>1, Zenon
    <3>3. it[1 .. k] = WbStep(done, it[1 .. k - 1], s[k])
      BY <3>1, <3>2, Zenon
    <3>4. QED
      BY <3>3, <1>2, <2>2, Zenon
  <2>3. QED
    BY <2>1, <2>2, Zenon DEF Unfolds
<1>6. LeadsOn(P, T, n, base, step)
  <2>1. ASSUME NEW k \in 1 .. n, NEW r \in T, r \in P[k - 1] PROVE step[<<r, k>>] \in P[k]
    <3>1. step[<<r, k>>] = WbStep(done, r, s[k])
      BY <1>2, Zenon
    <3>2. QED
      BY <2>1, <3>1, Zenon
  <2>2. QED
    BY <2>1, Zenon DEF LeadsOn
<1>7. it[1 .. n] \in T /\ it[1 .. n] \in P[n]
  <2> HIDE DEF n, Folds
  <2>1. n \in Nat
    BY DEF n
  <2>2. QED
    BY <1>3, <1>5, <1>6, <2>1, FoldInduct
<1>8. QED
  BY <1>1, <1>7, Zenon

LEMMA WrittenBack ==
  ASSUME TypeOK, Accounted(machine, ports, using),
         \A d \in Insns : using[d] # <<>> => d \in ToSet(inFlightInsn),
         NEW done, NEW after,
         after = WbAll(done, [ports |-> ports, using |-> using, left |-> <<>>], inFlightInsn)
  PROVE  /\ after.ports \in PortState(machine) /\ after.using \in Holdings
         /\ after.left \in Seq(Insns) /\ ToSet(after.left) \subseteq ToSet(inFlightInsn)
         /\ Accounted(machine, after.ports, after.using)
         /\ \A d \in Insns : after.using[d] # <<>> => d \in ToSet(after.left)
<1> DEFINE s == inFlightInsn
           base == [ports |-> ports, using |-> using, left |-> <<>>]
           T == [ports : PortState(machine), using : Holdings, left : Seq(Insns)]
           Good(r, k) == /\ Accounted(machine, r.ports, r.using)
                         /\ ToSet(r.left) \subseteq Gone(s, k)
                         /\ \A d \in Insns : r.using[d] # <<>> => d \in ToSet(r.left) \cup Rest(s, k)
           P == [k \in 0 .. Len(s) |-> {r \in T : Good(r, k)}]
<1>1. /\ machine \in Machine /\ s \in Seq(Insns) /\ ports \in PortState(machine)
      /\ using \in Holdings /\ Insns \in SUBSET Nat
  BY ProgIs DEF TypeOK, Holdings
<1>2. /\ Len(s) \in Nat /\ DOMAIN s = 1 .. Len(s) /\ \A k \in 1 .. Len(s) : s[k] \in Insns
      /\ \A k \in 1 .. Len(s) : /\ Rest(s, k - 1) = Rest(s, k) \cup {s[k]}
                                /\ Gone(s, k) = Gone(s, k - 1) \cup {s[k]}
      /\ Gone(s, Len(s)) = ToSet(s) /\ Rest(s, 0) = ToSet(s) /\ Rest(s, Len(s)) = {}
  BY <1>1, Parts
<1>3. base \in T /\ Good(base, 0)
  <2>1. ToSet(<<>>) = {} /\ <<>> \in Seq(Insns)
    BY DEF ToSet
  <2>2. QED
    BY <1>1, <1>2, <2>1
<1> HIDE DEF s, base
<1>4. ASSUME NEW k \in 1 .. Len(s), NEW r \in T
      PROVE  WbStep(done, r, s[k]) = IF s[k] \in done THEN Release(r, s[k])
                                     ELSE [r EXCEPT !.left = Append(r.left, s[k])]
  BY DEF WbStep
<1>5. ASSUME NEW k \in 1 .. Len(s), NEW r \in T
      PROVE  /\ Append(r.left, s[k]) \in Seq(Insns)
             /\ ToSet(Append(r.left, s[k])) = ToSet(r.left) \cup {s[k]}
  <2> DEFINE l == r.left
             e == s[k]
  <2>1. l \in Seq(Insns) /\ e \in Insns /\ Insns \in SUBSET Nat
    BY <1>1, <1>2
  <2> HIDE DEF T, l, e
  <2>2. Append(l, e) \in Seq(Insns) /\ ToSet(Append(l, e)) = ToSet(l) \cup {e}
    BY <2>1, Appended
  <2>3. QED
    BY <2>2 DEF l, e
<1>6. ASSUME NEW k \in 1 .. Len(s), NEW r \in T PROVE WbStep(done, r, s[k]) \in T
  <2>1. CASE s[k] \in done
    <3> DEFINE p == freeFU(machine, r.ports, r.using[s[k]])
               h == [r.using EXCEPT ![s[k]] = <<>>]
    <3>1. WbStep(done, r, s[k]) = [r EXCEPT !.ports = p, !.using = h]
      BY <1>4, <2>1 DEF Release
    <3>2. p \in PortState(machine) /\ h \in Holdings
      <4>1. r.using[s[k]] \in Seq(Units(machine)) /\ r.ports \in PortState(machine)
        BY <1>2 DEF Holdings
      <4>2. h \in Holdings
        BY <1>2 DEF Holdings
      <4>3. p \in PortState(machine)
        BY <1>1, <4>1, PortTypes
      <4>4. QED
        BY <4>2, <4>3
    <3> HIDE DEF p, h
    <3>3. QED
      BY <3>1, <3>2
  <2>2. CASE s[k] \notin done
    <3> DEFINE x == Append(r.left, s[k])
    <3>1. x \in Seq(Insns) /\ WbStep(done, r, s[k]) = [r EXCEPT !.left = x]
      BY <1>4, <1>5, <2>2
    <3> HIDE DEF x
    <3>2. QED
      BY <3>1
  <2>3. QED
    BY <2>1, <2>2
<1>7. ASSUME NEW k \in 1 .. Len(s), NEW r \in T, Good(r, k - 1) PROVE Good(WbStep(done, r, s[k]), k)
  <2>1. CASE s[k] \in done
    <3> DEFINE p == freeFU(machine, r.ports, r.using[s[k]])
               h == [r.using EXCEPT ![s[k]] = <<>>]
    <3>1. WbStep(done, r, s[k]) = [r EXCEPT !.ports = p, !.using = h]
      BY <1>4, <2>1 DEF Release
    <3>2. /\ Accounted(machine, p, h)
          /\ h[s[k]] = <<>> /\ \A e \in Insns \ {s[k]} : h[e] = r.using[e]
      <4> DEFINE e == s[k]
      <4>1. /\ r.ports \in PortState(machine) /\ r.using \in Holdings /\ e \in Insns
            /\ Accounted(machine, r.ports, r.using)
        BY <1>2, <1>7
      <4>2. p = freeFU(machine, r.ports, r.using[e]) /\ h = [r.using EXCEPT ![e] = <<>>]
        OBVIOUS
      <4> HIDE DEF T, Good, p, h, e
      <4>3. Accounted(machine, p, h)
        BY <1>1, <4>1, <4>2, ReleasedIs
      <4>4. h[e] = <<>> /\ \A x \in Insns \ {e} : h[x] = r.using[x]
        BY <4>1, <4>2 DEF Holdings
      <4>5. QED
        BY <4>3, <4>4 DEF e
    <3> HIDE DEF p, h
    <3>3. /\ WbStep(done, r, s[k]).ports = p /\ WbStep(done, r, s[k]).using = h
          /\ WbStep(done, r, s[k]).left = r.left
      BY <3>1
    <3>4. QED
      BY <1>2, <1>7, <3>2, <3>3
  <2>2. CASE s[k] \notin done
    <3>1. /\ WbStep(done, r, s[k]).ports = r.ports /\ WbStep(done, r, s[k]).using = r.using
          /\ WbStep(done, r, s[k]).left = Append(r.left, s[k])
      BY <1>4, <2>2
    <3> DEFINE q == WbStep(done, r, s[k])
    <3>2. ToSet(q.left) = ToSet(r.left) \cup {s[k]}
      BY <1>5, <3>1
    <3> HIDE DEF q
    <3>3. Good(q, k)
      BY <1>2, <1>7, <3>1, <3>2 DEF q
    <3>4. QED
      BY <3>3 DEF q
  <2>3. QED
    BY <2>1, <2>2
<1>8. base \in P[0] /\ \A k \in 1 .. Len(s) : /\ P[k - 1] = {r \in T : Good(r, k - 1)}
                                             /\ P[k] = {r \in T : Good(r, k)}
  BY <1>2, <1>3
<1>9. P[Len(s)] = {r \in T : Good(r, Len(s))}
  BY <1>2
<1> HIDE DEF Good, P, T
<1>10. \A k \in 1 .. Len(s), r \in T : WbStep(done, r, s[k]) \in T
  BY <1>6
<1>11. \A k \in 1 .. Len(s), r \in T : r \in P[k - 1] => WbStep(done, r, s[k]) \in P[k]
  BY <1>6, <1>7, <1>8
<1>12. WbAll(done, base, s) \in T /\ WbAll(done, base, s) \in P[Len(s)]
  BY <1>2, <1>3, <1>8, <1>10, <1>11, WbInduct
<1>13. after \in T /\ Good(after, Len(s))
  BY <1>9, <1>12 DEF s, base
<1>14. QED
  BY <1>2, <1>13 DEF T, Good, s

-----------------------------------------------------------------------------
(* The tokens of the units.                                                *)

LEMMA UnitIs ==
  ASSUME NEW body, NEW u \in UnitState(body)
  PROVE  /\ u.internalFIFO \in Fifos(body) /\ u.outputFIFO \in [Results(body) -> Int]
         /\ u.inflight \in SUBSET (DOMAIN body) /\ u.currentCycle \in [DOMAIN body -> Int]
         /\ DOMAIN u.internalFIFO = DOMAIN body
         /\ \A k \in DOMAIN body : u.internalFIFO[k] \in [DynDeps(body, k) -> Int]
<1>1. u.internalFIFO \in Fifos(body)
  BY DEF UnitState
<1>2. /\ DOMAIN u.internalFIFO = DOMAIN body
      /\ \A k \in DOMAIN body : u.internalFIFO[k] \in [DynDeps(body, k) -> Int]
  BY <1>1 DEF Fifos
<1>3. QED
  BY <1>1, <1>2 DEF UnitState

LEMMA FifosAre ==
  ASSUME NEW body, NEW f, f = [k \in DOMAIN body |-> f[k]],
         \A k \in DOMAIN body : f[k] \in [DynDeps(body, k) -> Int]
  PROVE  f \in Fifos(body)
<1>1. \A k \in DOMAIN body : f[k] \in UNION {[DynDeps(body, j) -> Int] : j \in DOMAIN body}
  OBVIOUS
<1>2. f \in [DOMAIN body -> UNION {[DynDeps(body, k) -> Int] : k \in DOMAIN body}]
  BY <1>1
<1>3. QED
  BY <1>2 DEF Fifos

LEMMA UnitsAll ==
  ASSUME NEW us, us = [n \in DOMAIN Functions |-> us[n]],
         \A n \in DOMAIN Functions : us[n] \in UnitState(Functions[n])
  PROVE  us \in UnitStates
<1>1. \A n \in DOMAIN Functions : us[n] \in UNION {UnitState(Functions[k]) : k \in DOMAIN Functions}
  OBVIOUS
<1>2. us \in [DOMAIN Functions -> UNION {UnitState(Functions[n]) : n \in DOMAIN Functions}]
  BY <1>1
<1>3. QED
  BY <1>2 DEF UnitStates

LEMMA NotifyIs ==
  ASSUME NEW body, NEW u \in UnitState(body), NEW ids
  PROVE  notify(u, ids) \in UnitState(body)
<1> DEFINE more(k) == [d \in DOMAIN u.internalFIFO[k] |->
                         IF d \in ids THEN u.internalFIFO[k][d] + 1 ELSE u.internalFIFO[k][d]]
           f == [k \in DOMAIN u.internalFIFO |-> more(k)]
           out == [d \in DOMAIN u.outputFIFO |->
                     IF d \in ids THEN u.outputFIFO[d] + 1 ELSE u.outputFIFO[d]]
<1>1. notify(u, ids) = [u EXCEPT !.internalFIFO = f, !.outputFIFO = out]
  BY DEF notify
<1>2. /\ u.outputFIFO \in [Results(body) -> Int] /\ DOMAIN u.internalFIFO = DOMAIN body
      /\ \A k \in DOMAIN body : u.internalFIFO[k] \in [DynDeps(body, k) -> Int]
  BY UnitIs
<1>3. \A k \in DOMAIN body : more(k) \in [DynDeps(body, k) -> Int]
  BY <1>2
<1> HIDE DEF more
<1>4. f = [k \in DOMAIN body |-> f[k]] /\ \A k \in DOMAIN body : f[k] \in [DynDeps(body, k) -> Int]
  BY <1>2, <1>3
<1>5. out \in [Results(body) -> Int]
  <2>1. \A d \in Results(body) : u.outputFIFO[d] \in Int /\ u.outputFIFO[d] + 1 \in Int
    BY <1>2
  <2>2. DOMAIN u.outputFIFO = Results(body)
    BY <1>2
  <2>3. \A d \in Results(body) : (IF d \in ids THEN u.outputFIFO[d] + 1 ELSE u.outputFIFO[d]) \in Int
    BY <2>1
  <2>4. QED
    BY <2>2, <2>3
<1> HIDE DEF f, out
<1>6. f \in Fifos(body)
  BY <1>4, FifosAre
<1>7. QED
  BY <1>1, <1>5, <1>6 DEF UnitState

LEMMA GetIs ==
  ASSUME NEW body, NEW u \in UnitState(body), NEW offset
  PROVE  getData(body, u, offset) \in UnitState(body)
<1> DEFINE d == offsetDynID(body, offset)
           out == [u.outputFIFO EXCEPT ![d] = u.outputFIFO[d] - 1]
<1>1. getData(body, u, offset) = [u EXCEPT !.outputFIFO = out]
  BY DEF getData
<1> HIDE DEF d
<1>2. u.outputFIFO \in [Results(body) -> Int]
  BY UnitIs
<1>3. out \in [Results(body) -> Int]
  <2>1. CASE d \in Results(body)
    <3> DEFINE x == u.outputFIFO[d] - 1
    <3>1. x \in Int
      BY <1>2, <2>1
    <3> HIDE DEF x
    <3>2. [u.outputFIFO EXCEPT ![d] = x] \in [Results(body) -> Int]
      BY <1>2, <3>1
    <3>3. QED
      BY <3>2 DEF x
  <2>2. CASE d \notin Results(body)
    <3>1. out = u.outputFIFO
      BY <1>2, <2>2
    <3>2. QED
      BY <1>2, <3>1
  <2>3. QED
    BY <2>1, <2>2
<1> HIDE DEF out
<1>4. QED
  BY <1>1, <1>3 DEF UnitState

LEMMA Larger ==
  ASSUME NEW x \in Int, NEW y \in Int
  PROVE  Max({x, y}) \in {x, y} /\ Max({x, y}) >= x /\ Max({x, y}) >= y
<1>1. \E m \in {x, y} : \A z \in {x, y} : m >= z
  <2>1. CASE x >= y
    BY <2>1
  <2>2. CASE y >= x
    BY <2>2
  <2>3. QED
    BY <2>1, <2>2
<1>2. Max({x, y}) \in {x, y} /\ \A z \in {x, y} : Max({x, y}) >= z
  BY <1>1, Zenon DEF Max
<1>3. QED
  BY <1>2

LEMMA Smaller ==
  ASSUME NEW x \in Int, NEW y \in Int
  PROVE  Min({x, y}) \in {x, y}
<1>1. \E m \in {x, y} : \A z \in {x, y} : m <= z
  <2>1. CASE x <= y
    BY <2>1
  <2>2. CASE y <= x
    BY <2>2
  <2>3. QED
    BY <2>1, <2>2
<1>2. QED
  BY <1>1, Zenon DEF Min

LEMMA ProcessIs ==
  ASSUME NEW body, NEW u \in UnitState(body)
  PROVE  processQueue(body, u) \in UnitState(body)
<1> DEFINE done == {k \in u.inflight : finish(body, u, k)}
           ids == {dynID(body, <<"insn", k>>) : k \in done}
           v == notify(u, ids)
           cycles == [k \in DOMAIN body |-> IF k \in u.inflight \ done THEN v.currentCycle[k] + 1
                                                                      ELSE v.currentCycle[k]]
           w == [v EXCEPT !.inflight = v.inflight \ done, !.currentCycle = cycles]
           starts == {k \in DOMAIN body \ w.inflight : checkDataReady(w, k)}
           less(k) == [d \in DOMAIN w.internalFIFO[k] |-> Max({w.internalFIFO[k][d] - 1, 0})]
           f == [k \in DOMAIN body |-> IF k \in starts THEN less(k) ELSE w.internalFIFO[k]]
<1>1. v \in UnitState(body)
  BY NotifyIs
<1>2. commitInsns(body, u) = w
  BY DEF commitInsns
<1> HIDE DEF v, done
<1>3. w \in UnitState(body)
  <2>1. v.currentCycle \in [DOMAIN body -> Int] /\ v.inflight \in SUBSET (DOMAIN body)
    BY <1>1, UnitIs
  <2>2. cycles \in [DOMAIN body -> Int] /\ v.inflight \ done \in SUBSET (DOMAIN body)
    BY <2>1
  <2> HIDE DEF cycles
  <2>3. QED
    BY <1>1, <2>2 DEF UnitState
<1> HIDE DEF w
<1>4. processQueue(body, u) = [w EXCEPT !.inflight = w.inflight \cup starts, !.internalFIFO = f]
  BY <1>2 DEF processQueue
<1>5. /\ w.inflight \in SUBSET (DOMAIN body)
      /\ \A k \in DOMAIN body : w.internalFIFO[k] \in [DynDeps(body, k) -> Int]
  BY <1>3, UnitIs
<1>6. ASSUME NEW k \in DOMAIN body PROVE less(k) \in [DynDeps(body, k) -> Int]
  <2>1. \A d \in DynDeps(body, k) : Max({w.internalFIFO[k][d] - 1, 0}) \in Int
    <3> TAKE d \in DynDeps(body, k)
    <3> DEFINE x == w.internalFIFO[k][d] - 1
    <3>1. x \in Int
      BY <1>5
    <3> HIDE DEF x
    <3>2. Max({x, 0}) \in {x, 0}
      <4>1. 0 \in Int
        OBVIOUS
      <4>2. QED
        BY <3>1, <4>1, Larger, Zenon
    <3>3. Max({x, 0}) \in Int
      BY <3>1, <3>2
    <3>4. QED
      BY <3>3 DEF x
  <2>2. QED
    BY <1>5, <2>1
<1> HIDE DEF less
<1>7. starts \in SUBSET (DOMAIN body)
  OBVIOUS
<1> HIDE DEF starts
<1>8. f = [k \in DOMAIN body |-> f[k]] /\ \A k \in DOMAIN body : f[k] \in [DynDeps(body, k) -> Int]
  BY <1>5, <1>6
<1> HIDE DEF f
<1>9. f \in Fifos(body) /\ w.inflight \cup starts \in SUBSET (DOMAIN body)
  BY <1>5, <1>7, <1>8, FifosAre
<1>10. QED
  BY <1>3, <1>4, <1>9 DEF UnitState

-----------------------------------------------------------------------------
(* Execute.                                                                *)

Execs == [ports : PortState(machine), using : Holdings, units : UnitStates,
          answered : SUBSET Insns, handedOver : SUBSET Insns]

LEMMA UnitReplaced ==
  ASSUME NEW us \in UnitStates, NEW n, NEW v, n \in DOMAIN Functions => v \in UnitState(Functions[n])
  PROVE  [us EXCEPT ![n] = v] \in UnitStates
<1> DEFINE vs == [us EXCEPT ![n] = v]
<1>1. DOMAIN us = DOMAIN Functions /\ \A k \in DOMAIN Functions : us[k] \in UnitState(Functions[k])
  BY DEF UnitStates
<1>2. vs = [k \in DOMAIN Functions |-> vs[k]]
  BY <1>1
<1>3. \A k \in DOMAIN Functions : vs[k] \in UnitState(Functions[k])
  BY <1>1
<1> HIDE DEF vs
<1>4. vs \in UnitStates
  BY <1>2, <1>3, UnitsAll
<1>5. QED
  BY <1>4 DEF vs

LEMMA HandedOver ==
  ASSUME NEW r \in Execs, NEW d \in Insns
  PROVE  /\ HandOver(r, d) \in Execs
         /\ HandOver(r, d).ports = r.ports /\ HandOver(r, d).using = r.using
<1> DEFINE n == prog[d].unit
           v == notify(r.units[n], Offsets(prog[d]))
           us == [r.units EXCEPT ![n] = v]
           gone == r.handedOver \cup {d}
<1>1. CASE ~isPackingFunc(d) \/ d \in r.handedOver
  BY <1>1 DEF HandOver
<1>2. CASE ~(~isPackingFunc(d) \/ d \in r.handedOver)
  <2>1. HandOver(r, d) = [r EXCEPT !.units = us, !.handedOver = gone]
    BY <1>2 DEF HandOver
  <2>2. r.units \in UnitStates /\ gone \in SUBSET Insns
    BY DEF Execs
  <2>3. n \in DOMAIN Functions => v \in UnitState(Functions[n])
    <3>1. \A k \in DOMAIN Functions : r.units[k] \in UnitState(Functions[k])
      BY <2>2 DEF UnitStates
    <3> HIDE DEF n
    <3>2. QED
      BY <3>1, NotifyIs
  <2> HIDE DEF n, v
  <2>4. us \in UnitStates
    BY <2>2, <2>3, UnitReplaced
  <2> HIDE DEF us, gone
  <2>5. QED
    BY <2>1, <2>2, <2>4 DEF Execs
<1>3. QED
  BY <1>1, <1>2

LEMMA ResultTaken ==
  ASSUME NEW r \in Execs, NEW d \in Insns
  PROVE  /\ TakeResult(r, d) \in Execs
         /\ TakeResult(r, d).ports = r.ports /\ TakeResult(r, d).using = r.using
<1> DEFINE n == prog[d].unit
           v == getData(Functions[n], r.units[n], prog[d].offset)
           us == [r.units EXCEPT ![n] = v]
           told == r.answered \cup {d}
           asks == isExtractFunc(d) /\ canGetData(Functions[n], r.units[n], prog[d].offset)
<1>1. CASE ~asks
  BY <1>1 DEF TakeResult
<1>2. CASE asks
  <2>1. TakeResult(r, d) = [r EXCEPT !.units = us, !.answered = told]
    BY <1>2 DEF TakeResult
  <2>2. r.units \in UnitStates /\ told \in SUBSET Insns
    BY DEF Execs
  <2>3. n \in DOMAIN Functions => v \in UnitState(Functions[n])
    <3>1. \A k \in DOMAIN Functions : r.units[k] \in UnitState(Functions[k])
      BY <2>2 DEF UnitStates
    <3> HIDE DEF n
    <3>2. QED
      BY <3>1, GetIs
  <2> HIDE DEF n, v
  <2>4. us \in UnitStates
    BY <2>2, <2>3, UnitReplaced
  <2> HIDE DEF us, told
  <2>5. QED
    BY <2>1, <2>2, <2>4 DEF Execs
<1>3. QED
  BY <1>1, <1>2

LEMMA ExecuteIs ==
  ASSUME machine \in Machine, NEW r \in Execs, NEW d \in Insns
  PROVE  /\ ExecuteInsn(r, d) \in Execs
         /\ Accounted(machine, r.ports, r.using) =>
              /\ Accounted(machine, ExecuteInsn(r, d).ports, ExecuteInsn(r, d).using)
              /\ \A e \in Insns : ExecuteInsn(r, d).using[e] # <<>> => r.using[e] # <<>>
<1> DEFINE q == IF status[d] = "SLEEP" THEN Release(r, d) ELSE r
           p == freeFU(machine, r.ports, r.using[d])
           h == [r.using EXCEPT ![d] = <<>>]
<1>1. /\ r.ports \in PortState(machine) /\ r.using \in Holdings
      /\ r.using[d] \in Seq(Units(machine))
  BY DEF Execs, Holdings
<1>2. Release(r, d) = [r EXCEPT !.ports = p, !.using = h]
  BY DEF Release
<1>3. p \in PortState(machine)
  BY <1>1, PortTypes
<1>4. h \in Holdings /\ h[d] = <<>> /\ \A e \in Insns \ {d} : h[e] = r.using[e]
  BY <1>1 DEF Holdings
<1>5. Accounted(machine, r.ports, r.using) => Accounted(machine, p, h)
  BY <1>1, ReleasedIs
<1> HIDE DEF p, h
<1>6. q \in Execs
  BY <1>2, <1>3, <1>4 DEF Execs
<1>7. Accounted(machine, r.ports, r.using) => Accounted(machine, q.ports, q.using)
  BY <1>2, <1>5 DEF Execs
<1>8. \A e \in Insns : q.using[e] # <<>> => r.using[e] # <<>>
  BY <1>2, <1>4 DEF Execs
<1>9. ExecuteInsn(r, d) = TakeResult(HandOver(q, d), d)
  BY Zenon DEF ExecuteInsn
<1> HIDE DEF q
<1>10. /\ HandOver(q, d) \in Execs
       /\ HandOver(q, d).ports = q.ports /\ HandOver(q, d).using = q.using
  BY <1>6, HandedOver
<1>11. /\ ExecuteInsn(r, d) \in Execs
       /\ ExecuteInsn(r, d).ports = q.ports /\ ExecuteInsn(r, d).using = q.using
  BY <1>9, <1>10, ResultTaken
<1>12. QED
  BY <1>7, <1>8, <1>11

ExecAll(base, s) == FoldLeft(ExecuteInsn, base, s)
(* The instructions in flight at execute.                                  *)
LEMMA ExecInduct ==
  ASSUME NEW s, Len(s) \in Nat, DOMAIN s = 1 .. Len(s), NEW T, NEW base \in T,
         \A k \in 1 .. Len(s), r \in T : (ExecuteInsn(r, s[k])) \in T,
         NEW P, base \in P[0],
         \A k \in 1 .. Len(s), r \in T : r \in P[k - 1] => (ExecuteInsn(r, s[k])) \in P[k]
  PROVE  ExecAll(base, s) \in T /\ ExecAll(base, s) \in P[Len(s)]
<1> DEFINE n == Len(s)
           step == [z \in T \X (1 .. n) |-> ExecuteInsn(z[1], s[z[2]])]
           Folds(h) == h = [q \in SUBSET (1 .. n) |-> IF q = {} THEN base ELSE ExecuteInsn(h[q \ {Max(q)}], s[Max(q)])]
           it == CHOOSE h : Folds(h)
<1>1. ExecAll(base, s) = it[1 .. n]
  BY Zenon DEF ExecAll, FoldLeft, MapThenFoldSet
<1>2. \A r \in T, k \in 1 .. n : step[<<r, k>>] = ExecuteInsn(r, s[k])
  BY Zenon
<1>3. Steps(step, T, n)
  BY Zenon DEF Steps
<1> HIDE DEF step
<1>4. Folds(it)
  <2>1. PICK g : Folding(g, T, n, base, step)
    <3> HIDE DEF n
    <3>1. n \in Nat
      BY DEF n
    <3>2. QED
      BY <1>3, <3>1, FoldExists
  <2>2. ASSUME NEW q \in SUBSET (1 .. n), q # {}
        PROVE  g[q] = ExecuteInsn(g[q \ {Max(q)}], s[Max(q)])
    <3>1. Max(q) \in 1 .. n
      BY <2>2, MaxOf
    <3>2. g[q \ {Max(q)}] \in T
      BY <2>1 DEF Folding
    <3>3. g[q] = step[<<g[q \ {Max(q)}], Max(q)>>]
      BY <2>1, <2>2 DEF Folding
    <3>4. QED
      BY <1>2, <3>1, <3>2, <3>3, Zenon
  <2>3. Folds(g)
    BY <2>1, <2>2, Zenon DEF Folding
  <2>4. QED
    BY <2>3, Zenon
<1> HIDE DEF it
<1>5. Unfolds(it, T, n, base, step)
  <2>1. it[{}] = base
    <3>1. {} \in SUBSET (1 .. n)
      OBVIOUS
    <3>2. QED
      BY <1>4, <3>1, Zenon
  <2>2. ASSUME NEW k \in 1 .. n, it[1 .. k - 1] \in T
        PROVE  it[1 .. k] = step[<<it[1 .. k - 1], k>>]
    <3>1. /\ Max(1 .. k) = k /\ (1 .. k) \ {k} = 1 .. k - 1
          /\ 1 .. k \in SUBSET (1 .. n) /\ 1 .. k # {}
      BY MaxOf
    <3>2. it[1 .. k] = ExecuteInsn(it[(1 .. k) \ {Max(1 .. k)}], s[Max(1 .. k)])
      BY <1>4, <3>1, Zenon
    <3>3. it[1 .. k] = ExecuteInsn(it[1 .. k - 1], s[k])
      BY <3>1, <3>2, Zenon
    <3>4. QED
      BY <3>3, <1>2, <2>2, Zenon
  <2>3. QED
    BY <2>1, <2>2, Zenon DEF Unfolds
<1>6. LeadsOn(P, T, n, base, step)
  <2>1. ASSUME NEW k \in 1 .. n, NEW r \in T, r \in P[k - 1] PROVE step[<<r, k>>] \in P[k]
    <3>1. step[<<r, k>>] = ExecuteInsn(r, s[k])
      BY <1>2, Zenon
    <3>2. QED
      BY <2>1, <3>1, Zenon
  <2>2. QED
    BY <2>1, Zenon DEF LeadsOn
<1>7. it[1 .. n] \in T /\ it[1 .. n] \in P[n]
  <2> HIDE DEF n, Folds
  <2>1. n \in Nat
    BY DEF n
  <2>2. QED
    BY <1>3, <1>5, <1>6, <2>1, FoldInduct
<1>8. QED
  BY <1>1, <1>7, Zenon

LEMMA Executed ==
  ASSUME TypeOK, Accounted(machine, ports, using), NEW after,
         after = ExecAll([ports |-> ports, using |-> using, units |-> units, answered |-> answered,
                          handedOver |-> handedOver], inFlightInsn)
  PROVE  /\ after \in Execs /\ Accounted(machine, after.ports, after.using)
         /\ \A d \in Insns : after.using[d] # <<>> => using[d] # <<>>
<1> DEFINE s == inFlightInsn
           base == [ports |-> ports, using |-> using, units |-> units, answered |-> answered,
                    handedOver |-> handedOver]
           T == Execs
           Good(r) == /\ Accounted(machine, r.ports, r.using)
                      /\ \A d \in Insns : r.using[d] # <<>> => using[d] # <<>>
           P == [k \in 0 .. Len(s) |-> {r \in T : Good(r)}]
<1>1. /\ machine \in Machine /\ s \in Seq(Insns) /\ base \in T /\ Good(base)
  BY ProgIs DEF TypeOK, Holdings, Execs
<1>2. Len(s) \in Nat /\ DOMAIN s = 1 .. Len(s) /\ \A k \in 1 .. Len(s) : s[k] \in Insns
  BY <1>1
<1>3. /\ base \in P[0] /\ P[Len(s)] = {r \in T : Good(r)}
      /\ \A k \in 1 .. Len(s) : P[k - 1] = {r \in T : Good(r)} /\ P[k] = {r \in T : Good(r)}
  BY <1>1, <1>2
<1> HIDE DEF s, base, P, T
<1>4. \A k \in 1 .. Len(s), r \in T : ExecuteInsn(r, s[k]) \in T
  BY <1>1, <1>2, ExecuteIs DEF T
<1>5. ASSUME NEW k \in 1 .. Len(s), NEW r \in T, Good(r) PROVE Good(ExecuteInsn(r, s[k]))
  <2> DEFINE e == s[k]
             q == ExecuteInsn(r, e)
  <2>1. e \in Insns /\ r \in Execs
    BY <1>2 DEF T
  <2> HIDE DEF e
  <2>2. Accounted(machine, q.ports, q.using) /\ \A d \in Insns : q.using[d] # <<>> => r.using[d] # <<>>
    BY <1>1, <1>5, <2>1, ExecuteIs
  <2> HIDE DEF q
  <2>3. Good(q)
    BY <1>5, <2>2
  <2>4. QED
    BY <2>3 DEF q, e
<1> HIDE DEF Good
<1>6. \A k \in 1 .. Len(s), r \in T : r \in P[k - 1] => ExecuteInsn(r, s[k]) \in P[k]
  BY <1>3, <1>4, <1>5
<1>7. ExecAll(base, s) \in T /\ ExecAll(base, s) \in P[Len(s)]
  BY <1>1, <1>2, <1>3, <1>4, <1>6, ExecInduct
<1>8. after \in T /\ Good(after)
  BY <1>3, <1>7 DEF s, base
<1>9. QED
  BY <1>8 DEF T, Good

-----------------------------------------------------------------------------
(* Issue.                                                                  *)

Considered == [ports : PortState(machine), occupied : Seq(Ports(machine)),
               rou : [DOMAIN rou -> Seq(Insns)], using : Holdings, issued : Seq(Insns),
               ready : SUBSET Insns, left : Seq(Insns)]

Waits(r, q, d) ==
  /\ q.ports = r.ports /\ q.using = r.using /\ q.rou = r.rou
  /\ q.issued = r.issued /\ q.left = Append(r.left, d)
Issues(r, q, d) ==
  /\ canIssue(r.rou, hashTwoInts(prog[d]), prog[d], d)
  /\ q.rou = releaseEntry(r.rou, hashTwoInts(prog[d]), prog[d], d)
  /\ q.issued = Append(r.issued, d) /\ q.left = r.left
  /\ Accounted(machine, r.ports, r.using) /\ r.using[d] = <<>> => Accounted(machine, q.ports, q.using)
  /\ \A e \in Insns \ {d} : q.using[e] = r.using[e]

LEMMA ReleaseType ==
  ASSUME Insns \in SUBSET Nat, NEW K, NEW r \in [K -> Seq(Insns)], NEW h, NEW i, NEW d,
         NEW q, q = releaseEntry(r, h, i, d)
  PROVE  q \in [K -> Seq(Insns)]
<1> DEFINE go == isRequest(i) /\ r[h] # <<>> /\ Head(r[h]) = d
<1>1. q = IF go THEN [r EXCEPT ![h] = Tail(r[h])] ELSE r
  BY Zenon DEF releaseEntry
<1>2. CASE go /\ h \in K
  <2>1. r[h] \in Seq(Insns) /\ r[h] # <<>>
    BY <1>2
  <2>2. Tail(r[h]) \in Seq(Insns)
    BY <2>1
  <2>3. QED
    BY <1>1, <1>2, <2>2
<1>3. CASE h \notin K \/ ~go
  <2>1. q = r
    BY <1>1, <1>3
  <2>2. QED
    BY <2>1
<1>4. QED
  BY <1>2, <1>3

LEMMA ConsiderIs ==
  ASSUME TypeOK, NEW r \in Considered, NEW d \in Insns, NEW q, q = Consider(r, d)
  PROVE  q \in Considered /\ (Waits(r, q, d) \/ Issues(r, q, d))
<1> DEFINE t == schedule(machine, r.ports, prog[d], r.occupied)
           h == hashTwoInts(prog[d])
           tries == /\ Len(r.occupied) # Cardinality(Ports(machine))
                    /\ HasOperands(d) /\ canIssue(r.rou, h, prog[d], d)
           left == Append(r.left, d)
           issued == Append(r.issued, d)
           stream == releaseEntry(r.rou, h, prog[d], d)
<1>1. machine \in Machine /\ Insns \in SUBSET Nat /\ prog[d] \in Insn(machine)
  BY ProgIs
<1>2. /\ r.ports \in PortState(machine) /\ r.occupied \in Seq(Ports(machine))
      /\ r.rou \in [DOMAIN rou -> Seq(Insns)] /\ r.using \in Holdings
      /\ r.issued \in Seq(Insns) /\ r.ready \in SUBSET Insns /\ r.left \in Seq(Insns)
  BY DEF Considered
<1>3. left \in Seq(Insns) /\ issued \in Seq(Insns)
  BY <1>2
<1>4. stream \in [DOMAIN rou -> Seq(Insns)]
  <2> DEFINE K == DOMAIN rou
             f == r.rou
             i == prog[d]
  <2>1. f \in [K -> Seq(Insns)] /\ stream = releaseEntry(f, h, i, d)
    BY <1>2
  <2> HIDE DEF K, f, i, h, stream
  <2>2. stream \in [K -> Seq(Insns)]
    BY <1>1, <2>1, ReleaseType
  <2>3. QED
    BY <2>2 DEF K
<1>5. /\ t.occupied \in Seq(Ports(machine)) /\ t.ok \in BOOLEAN
      /\ t.ok => Fresh(machine, r.ports, t.taken) /\ Occupied(machine, r.ports, t.taken, t.p)
  BY <1>1, <1>2, ScheduleIs
<1>6. q = IF tries THEN Granted(r, d, t) ELSE [r EXCEPT !.left = left]
  BY DEF Consider
<1>7. Granted(r, d, t) =
        IF ~t.ok THEN [r EXCEPT !.occupied = t.occupied, !.ready = r.ready \cup {d}, !.left = left]
        ELSE [r EXCEPT !.ports = t.p, !.occupied = t.occupied, !.rou = stream, !.issued = issued,
                       !.using = [r.using EXCEPT ![d] = t.taken]]
  BY DEF Granted
<1>8. tries => canIssue(r.rou, h, prog[d], d)
  OBVIOUS
<1> HIDE DEF t, tries, left, issued, stream
<1>9. CASE ~tries
  <2>1. q = [r EXCEPT !.left = left]
    BY <1>6, <1>9
  <2>2. q \in Considered
    BY <1>2, <1>3, <2>1 DEF Considered
  <2>3. q.ports = r.ports /\ q.using = r.using /\ q.rou = r.rou /\ q.issued = r.issued /\ q.left = left
    BY <2>1 DEF Considered
  <2>4. Waits(r, q, d)
    BY <2>3 DEF Waits, left
  <2>5. QED
    BY <2>2, <2>4
<1>10. CASE tries /\ ~t.ok
  <2>1. q = [r EXCEPT !.occupied = t.occupied, !.ready = r.ready \cup {d}, !.left = left]
    BY <1>6, <1>7, <1>10
  <2>2. q \in Considered
    BY <1>2, <1>3, <1>5, <2>1, ZenonT(40) DEF Considered
  <2>3. q.ports = r.ports /\ q.using = r.using /\ q.rou = r.rou /\ q.issued = r.issued /\ q.left = left
    BY <2>1 DEF Considered
  <2>4. Waits(r, q, d)
    BY <2>3 DEF Waits, left
  <2>5. QED
    BY <2>2, <2>4
<1>11. CASE tries /\ t.ok
  <2> DEFINE g == [r.using EXCEPT ![d] = t.taken]
  <2>1. q = [r EXCEPT !.ports = t.p, !.occupied = t.occupied, !.rou = stream, !.issued = issued, !.using = g]
    BY <1>6, <1>7, <1>11
  <2>2. t.taken \in Seq(Units(machine)) /\ Fresh(machine, r.ports, t.taken)
    BY <1>5, <1>11 DEF Fresh
  <2>3. g \in Holdings /\ \A e \in Insns \ {d} : g[e] = r.using[e]
    BY <1>2, <2>2 DEF Holdings
  <2>4. PICK o \in PortState(machine) : o.usage = r.ports.usage /\ o.aval = r.ports.aval
                                        /\ t.p = occupyFU(machine, o, t.taken)
    BY <1>5, <1>11 DEF Occupied
  <2>5. t.p \in PortState(machine)
    BY <1>1, <2>2, <2>4, PortTypes
  <2> HIDE DEF g
  <2>6. q \in Considered
    BY <1>2, <1>3, <1>4, <1>5, <2>1, <2>3, <2>5 DEF Considered
  <2>7. q.ports = t.p /\ q.using = g /\ q.rou = stream /\ q.issued = issued /\ q.left = r.left
    BY <2>1 DEF Considered
  <2>8. ASSUME Accounted(machine, r.ports, r.using), r.using[d] = <<>>
        PROVE  Accounted(machine, t.p, g)
    <3>1. Accounted(machine, o, r.using)
      BY <2>4, <2>8 DEF Accounted, Counted
    <3>2. Fresh(machine, o, t.taken)
      BY <2>2, <2>4 DEF Fresh
    <3>3. r.using \in [Insns -> Seq(Units(machine))]
      BY <1>2 DEF Holdings
    <3>4. Accounted(machine, occupyFU(machine, o, t.taken), [r.using EXCEPT ![d] = t.taken])
      BY <1>1, <2>8, <3>1, <3>2, <3>3, OccupyIs
    <3>5. QED
      BY <2>4, <3>4 DEF g
  <2>9. canIssue(r.rou, h, prog[d], d)
    BY <1>8, <1>11
  <2>10. Issues(r, q, d)
    BY <2>3, <2>7, <2>8, <2>9 DEF Issues, stream, issued
  <2>11. QED
    BY <2>6, <2>10
<1>12. QED
  BY <1>5, <1>9, <1>10, <1>11

IssueAll(base, s) == FoldLeft(Consider, base, s)
(* The issue queue.                                                        *)
LEMMA IssueInduct ==
  ASSUME NEW s, Len(s) \in Nat, DOMAIN s = 1 .. Len(s), NEW T, NEW base \in T,
         \A k \in 1 .. Len(s), r \in T : (Consider(r, s[k])) \in T,
         NEW P, base \in P[0],
         \A k \in 1 .. Len(s), r \in T : r \in P[k - 1] => (Consider(r, s[k])) \in P[k]
  PROVE  IssueAll(base, s) \in T /\ IssueAll(base, s) \in P[Len(s)]
<1> DEFINE n == Len(s)
           step == [z \in T \X (1 .. n) |-> Consider(z[1], s[z[2]])]
           Folds(h) == h = [q \in SUBSET (1 .. n) |-> IF q = {} THEN base ELSE Consider(h[q \ {Max(q)}], s[Max(q)])]
           it == CHOOSE h : Folds(h)
<1>1. IssueAll(base, s) = it[1 .. n]
  BY Zenon DEF IssueAll, FoldLeft, MapThenFoldSet
<1>2. \A r \in T, k \in 1 .. n : step[<<r, k>>] = Consider(r, s[k])
  BY Zenon
<1>3. Steps(step, T, n)
  BY Zenon DEF Steps
<1> HIDE DEF step
<1>4. Folds(it)
  <2>1. PICK g : Folding(g, T, n, base, step)
    <3> HIDE DEF n
    <3>1. n \in Nat
      BY DEF n
    <3>2. QED
      BY <1>3, <3>1, FoldExists
  <2>2. ASSUME NEW q \in SUBSET (1 .. n), q # {}
        PROVE  g[q] = Consider(g[q \ {Max(q)}], s[Max(q)])
    <3>1. Max(q) \in 1 .. n
      BY <2>2, MaxOf
    <3>2. g[q \ {Max(q)}] \in T
      BY <2>1 DEF Folding
    <3>3. g[q] = step[<<g[q \ {Max(q)}], Max(q)>>]
      BY <2>1, <2>2 DEF Folding
    <3>4. QED
      BY <1>2, <3>1, <3>2, <3>3, Zenon
  <2>3. Folds(g)
    BY <2>1, <2>2, Zenon DEF Folding
  <2>4. QED
    BY <2>3, Zenon
<1> HIDE DEF it
<1>5. Unfolds(it, T, n, base, step)
  <2>1. it[{}] = base
    <3>1. {} \in SUBSET (1 .. n)
      OBVIOUS
    <3>2. QED
      BY <1>4, <3>1, Zenon
  <2>2. ASSUME NEW k \in 1 .. n, it[1 .. k - 1] \in T
        PROVE  it[1 .. k] = step[<<it[1 .. k - 1], k>>]
    <3>1. /\ Max(1 .. k) = k /\ (1 .. k) \ {k} = 1 .. k - 1
          /\ 1 .. k \in SUBSET (1 .. n) /\ 1 .. k # {}
      BY MaxOf
    <3>2. it[1 .. k] = Consider(it[(1 .. k) \ {Max(1 .. k)}], s[Max(1 .. k)])
      BY <1>4, <3>1, Zenon
    <3>3. it[1 .. k] = Consider(it[1 .. k - 1], s[k])
      BY <3>1, <3>2, Zenon
    <3>4. QED
      BY <3>3, <1>2, <2>2, Zenon
  <2>3. QED
    BY <2>1, <2>2, Zenon DEF Unfolds
<1>6. LeadsOn(P, T, n, base, step)
  <2>1. ASSUME NEW k \in 1 .. n, NEW r \in T, r \in P[k - 1] PROVE step[<<r, k>>] \in P[k]
    <3>1. step[<<r, k>>] = Consider(r, s[k])
      BY <1>2, Zenon
    <3>2. QED
      BY <2>1, <3>1, Zenon
  <2>2. QED
    BY <2>1, Zenon DEF LeadsOn
<1>7. it[1 .. n] \in T /\ it[1 .. n] \in P[n]
  <2> HIDE DEF n, Folds
  <2>1. n \in Nat
    BY DEF n
  <2>2. QED
    BY <1>3, <1>5, <1>6, <2>1, FoldInduct
<1>8. QED
  BY <1>1, <1>7, Zenon

(* What the scan has reached is issued or left, the rest waits behind.     *)
Scanned(r, s, k) ==
  /\ Accounted(machine, r.ports, r.using)
  /\ ToSet(r.issued) \cup ToSet(r.left) \subseteq Gone(s, k)
  /\ ToSet(r.issued) \cap ToSet(r.left) = {}
  /\ Increasing(r.left) /\ Len(r.left) <= k
  /\ \A d \in Insns : r.using[d] # <<>> => d \in ToSet(inFlightInsn) \cup ToSet(r.issued)
  /\ InStreams(r.rou, ToSet(r.left) \cup Rest(s, k))

LEMMA ScanGoesOn ==
  ASSUME IInv, NEW k \in 1 .. Len(issueQueue), NEW r \in Considered, Scanned(r, issueQueue, k - 1),
         NEW q, q = Consider(r, issueQueue[k])
  PROVE  Scanned(q, issueQueue, k)
<1> DEFINE s == issueQueue
           d == s[k]
<1>1. /\ TypeOK /\ s \in Seq(Insns) /\ Increasing(s) /\ ToSet(s) \cap ToSet(inFlightInsn) = {}
      /\ Insns \in SUBSET Nat
  BY ProgIs DEF IInv, TypeOK, QueuesAgree, Agree
<1>2. /\ Len(s) \in Nat /\ k - 1 \in Nat /\ k \in 1 .. Len(s) /\ d \in Insns
      /\ Rest(s, k - 1) = Rest(s, k) \cup {d} /\ Gone(s, k) = Gone(s, k - 1) \cup {d} /\ d \in ToSet(s)
  BY <1>1, Parts
<1>3. (\A x \in Gone(s, k - 1) : x < d) /\ d \notin Rest(s, k) /\ d \notin Gone(s, k - 1)
  <2>1. (\A x \in Gone(s, k - 1) : x < d) /\ d \notin Rest(s, k)
    BY <1>1, <1>2, InOrder
  <2>2. d \in Nat /\ ~(d < d)
    <3>1. d \in Insns /\ Insns \in SUBSET Nat
      BY <1>1, <1>2
    <3> HIDE DEF d, s
    <3>2. d \in Nat
      BY <3>1
    <3>3. QED
      BY <3>2
  <2>3. QED
    BY <2>1, <2>2
<1>4. /\ Accounted(machine, r.ports, r.using)
      /\ ToSet(r.issued) \cup ToSet(r.left) \subseteq Gone(s, k - 1)
      /\ ToSet(r.issued) \cap ToSet(r.left) = {}
      /\ Increasing(r.left) /\ Len(r.left) <= k - 1
      /\ \A e \in Insns : r.using[e] # <<>> => e \in ToSet(inFlightInsn) \cup ToSet(r.issued)
      /\ InStreams(r.rou, ToSet(r.left) \cup Rest(s, k - 1))
  BY Zenon DEF Scanned
<1>5. r.left \in Seq(Insns) /\ r.issued \in Seq(Insns) /\ r.rou \in [DOMAIN rou -> Seq(Insns)]
  BY DEF Considered
<1>6. /\ ToSet(Append(r.left, d)) = ToSet(r.left) \cup {d} /\ Len(Append(r.left, d)) = Len(r.left) + 1
      /\ (\A x \in ToSet(r.left) : x < d) => Increasing(Append(r.left, d))
      /\ Len(r.left) \in Nat
  <2> DEFINE l == r.left
  <2> HIDE DEF d, l
  <2>1. l \in Seq(Insns) /\ Increasing(l)
    BY <1>4, <1>5 DEF l
  <2>2. ToSet(Append(l, d)) = ToSet(l) \cup {d} /\ Len(Append(l, d)) = Len(l) + 1 /\ Len(l) \in Nat
    BY <1>1, <1>2, <2>1, Appended
  <2>3. (\A x \in ToSet(l) : x < d) => Increasing(Append(l, d))
    BY <1>1, <1>2, <2>1, Appended
  <2>4. QED
    BY <2>2, <2>3 DEF l
<1>7. ToSet(Append(r.issued, d)) = ToSet(r.issued) \cup {d}
  <2> DEFINE l == r.issued
  <2> HIDE DEF d, l
  <2>1. l \in Seq(Insns)
    BY <1>5 DEF l
  <2>2. ToSet(Append(l, d)) = ToSet(l) \cup {d}
    BY <1>1, <1>2, <2>1, Appended
  <2>3. QED
    BY <2>2 DEF l
<1>8. Waits(r, q, d) \/ Issues(r, q, d)
  BY <1>1, <1>2, ConsiderIs
<1> HIDE DEF s, d
<1>9. CASE Waits(r, q, d)
  <2>1. /\ q.ports = r.ports /\ q.using = r.using /\ q.rou = r.rou
        /\ q.issued = r.issued /\ q.left = Append(r.left, d)
    BY <1>9 DEF Waits
  <2>2. ToSet(q.left) = ToSet(r.left) \cup {d} /\ ToSet(q.left) \cup Rest(s, k) = ToSet(r.left) \cup Rest(s, k - 1)
    BY <1>2, <1>6, <2>1
  <2>3. Increasing(q.left)
    BY <1>3, <1>4, <1>6, <2>1
  <2>4. Len(q.left) <= k
    BY <1>2, <1>4, <1>6, <2>1
  <2>5. InStreams(q.rou, ToSet(q.left) \cup Rest(s, k))
    BY <1>4, <2>1, <2>2
  <2>6. ToSet(q.issued) \cup ToSet(q.left) \subseteq Gone(s, k) /\ ToSet(q.issued) \cap ToSet(q.left) = {}
    BY <1>2, <1>3, <1>4, <2>1, <2>2
  <2>7. QED
    BY <1>4, <2>1, <2>3, <2>4, <2>5, <2>6 DEF Scanned, s
<1>10. CASE Issues(r, q, d)
  <2>1. /\ canIssue(r.rou, hashTwoInts(prog[d]), prog[d], d)
        /\ q.rou = releaseEntry(r.rou, hashTwoInts(prog[d]), prog[d], d)
        /\ q.issued = Append(r.issued, d) /\ q.left = r.left
        /\ Accounted(machine, r.ports, r.using) /\ r.using[d] = <<>> => Accounted(machine, q.ports, q.using)
        /\ \A e \in Insns \ {d} : q.using[e] = r.using[e]
    BY <1>10 DEF Issues
  <2>2. r.using[d] = <<>>
    BY <1>1, <1>2, <1>3, <1>4
  <2>3. ToSet(q.issued) = ToSet(r.issued) \cup {d}
    BY <1>7, <2>1
  <2>4. InStreams(q.rou, ToSet(q.left) \cup Rest(s, k))
    <3> DEFINE D == ToSet(r.left) \cup Rest(s, k - 1)
    <3>1. D \in SUBSET Insns /\ d \in D
      <4>1. ToSet(r.left) \subseteq Insns
        BY <1>5, Parts
      <4>2. Rest(s, k - 1) \subseteq Insns
        <5>1. \A j \in k .. Len(s) : s[j] \in Insns
          BY <1>1, <1>2
        <5>2. k - 1 + 1 = k
          BY <1>2
        <5>3. QED
          BY <5>1, <5>2 DEF Rest
      <4>3. QED
        BY <1>2, <4>1, <4>2
    <3>2. D \ {d} = ToSet(q.left) \cup Rest(s, k)
      BY <1>2, <1>3, <1>4, <2>1
    <3> HIDE DEF D
    <3>3. InStreams(r.rou, D)
      BY <1>4 DEF D
    <3>4. InStreams(q.rou, D \ {d})
      BY <1>1, <1>5, <2>1, <3>1, <3>3, ReleaseIs
    <3>5. QED
      BY <3>2, <3>4
  <2>5. Accounted(machine, q.ports, q.using)
    BY <1>4, <2>1, <2>2
  <2>6. ToSet(q.issued) \cup ToSet(q.left) \subseteq Gone(s, k) /\ ToSet(q.issued) \cap ToSet(q.left) = {}
    BY <1>2, <1>3, <1>4, <2>1, <2>3
  <2>7. \A e \in Insns : q.using[e] # <<>> => e \in ToSet(inFlightInsn) \cup ToSet(q.issued)
    BY <1>4, <2>1, <2>3
  <2>8. Len(q.left) <= k
    BY <1>2, <1>4, <1>6, <2>1
  <2>9. QED
    BY <1>4, <2>1, <2>4, <2>5, <2>6, <2>7, <2>8 DEF Scanned, s
<1>11. QED
  BY <1>8, <1>9, <1>10

LEMMA Issued ==
  ASSUME IInv, NEW after,
         after = IssueAll([ports |-> ports, occupied |-> <<>>, rou |-> rou, using |-> using,
                           issued |-> <<>>, ready |-> {}, left |-> <<>>], issueQueue)
  PROVE  after \in Considered /\ Scanned(after, issueQueue, Len(issueQueue))
<1> DEFINE s == issueQueue
           base == [ports |-> ports, occupied |-> <<>>, rou |-> rou, using |-> using,
                    issued |-> <<>>, ready |-> {}, left |-> <<>>]
           T == Considered
           P == [k \in 0 .. Len(s) |-> {r \in T : Scanned(r, s, k)}]
<1>1. TypeOK /\ s \in Seq(Insns)
  BY DEF IInv, TypeOK
<1>2. /\ Len(s) \in Nat /\ DOMAIN s = 1 .. Len(s) /\ \A k \in 1 .. Len(s) : s[k] \in Insns
      /\ Gone(s, 0) = {} /\ Rest(s, 0) = ToSet(s)
  BY <1>1, Parts
<1>3. base \in T
  BY DEF IInv, TypeOK, Considered, Holdings
<1>4. Scanned(base, s, 0)
  <2>1. ToSet(<<>>) = {} /\ Increasing(<<>>) /\ Len(<<>>) = 0
    BY DEF ToSet, Increasing
  <2>2. /\ base.ports = ports /\ base.using = using /\ base.rou = rou /\ base.issued = <<>> /\ base.left = <<>>
    OBVIOUS
  <2>3. /\ Accounted(machine, ports, using) /\ InStreams(rou, ToSet(s))
        /\ \A d \in Insns : using[d] # <<>> => d \in ToSet(inFlightInsn)
    BY DEF IInv, QueuesAgree, Agree
  <2> HIDE DEF base, s
  <2>4. {} \cup Rest(s, 0) = ToSet(s)
    BY <1>2
  <2>5. /\ ToSet(base.issued) \cup ToSet(base.left) \subseteq Gone(s, 0)
        /\ ToSet(base.issued) \cap ToSet(base.left) = {}
    BY <1>2, <2>1, <2>2
  <2>6. Increasing(base.left) /\ Len(base.left) <= 0
    BY <2>1, <2>2
  <2>7. InStreams(base.rou, ToSet(base.left) \cup Rest(s, 0))
    BY <2>1, <2>2, <2>3, <2>4
  <2>8. \A d \in Insns : base.using[d] # <<>> => d \in ToSet(inFlightInsn) \cup ToSet(base.issued)
    BY <2>2, <2>3
  <2>9. Accounted(machine, base.ports, base.using)
    BY <2>2, <2>3
  <2>10. QED
    BY <2>5, <2>6, <2>7, <2>8, <2>9, Zenon DEF Scanned
<1>5. /\ base \in P[0] /\ P[Len(s)] = {r \in T : Scanned(r, s, Len(s))}
      /\ \A k \in 1 .. Len(s) : /\ P[k - 1] = {r \in T : Scanned(r, s, k - 1)}
                                /\ P[k] = {r \in T : Scanned(r, s, k)}
  <2> HIDE DEF base, s, T
  <2>1. QED
    BY <1>2, <1>3, <1>4
<1>6. \A k \in 1 .. Len(s), r \in T : Consider(r, s[k]) \in T
  BY <1>1, <1>2, ConsiderIs
<1>7. \A k \in 1 .. Len(s), r \in T : Scanned(r, s, k - 1) => Scanned(Consider(r, s[k]), s, k)
  BY ScanGoesOn
<1> HIDE DEF s, base, T, P
<1>8. \A k \in 1 .. Len(s), r \in T : r \in P[k - 1] => Consider(r, s[k]) \in P[k]
  BY <1>5, <1>6, <1>7
<1>9. IssueAll(base, s) \in T /\ IssueAll(base, s) \in P[Len(s)]
  BY <1>2, <1>3, <1>5, <1>6, <1>8, IssueInduct
<1>10. after \in T /\ Scanned(after, s, Len(s))
  BY <1>5, <1>9 DEF s, base
<1>11. QED
  BY <1>10 DEF T, s

-----------------------------------------------------------------------------
(* Dispatch.                                                               *)

LEMMA AddType ==
  ASSUME NEW H, NEW r \in Streams(H), NEW d \in Insns, NEW h \in H, NEW i,
         NEW q, q = addInstruction(r, h, i, d)
  PROVE  q \in Streams(H)
<1> DEFINE K == DOMAIN r \cup {h}
           new(k) == IF k # h THEN r[k] ELSE IF k \in DOMAIN r THEN Append(r[k], d) ELSE <<d>>
<1>1. /\ r \in [DOMAIN r -> Seq(Insns)] /\ DOMAIN r \in SUBSET H
  BY DEF Streams
<1>2. q = IF ~isRequest(i) THEN r ELSE [k \in K |-> new(k)]
  BY Zenon DEF addInstruction
<1>3. \A k \in K : new(k) \in Seq(Insns)
  BY <1>1
<1> HIDE DEF new
<1>4. [k \in K |-> new(k)] \in [K -> Seq(Insns)] /\ K \in SUBSET H
  BY <1>1, <1>3
<1>5. QED
  BY <1>2, <1>4 DEF Streams

RequestAll(base, s) ==
  FoldLeft(LAMBDA r, d : addInstruction(r, hashTwoInts(prog[d]), prog[d], d), base, s)
(* The instructions that are dispatched.                                   *)
LEMMA RequestInduct ==
  ASSUME NEW s, Len(s) \in Nat, DOMAIN s = 1 .. Len(s), NEW T, NEW base \in T,
         \A k \in 1 .. Len(s), r \in T : (addInstruction(r, hashTwoInts(prog[s[k]]), prog[s[k]], s[k])) \in T,
         NEW P, base \in P[0],
         \A k \in 1 .. Len(s), r \in T : r \in P[k - 1] => (addInstruction(r, hashTwoInts(prog[s[k]]), prog[s[k]], s[k])) \in P[k]
  PROVE  RequestAll(base, s) \in T /\ RequestAll(base, s) \in P[Len(s)]
<1> DEFINE n == Len(s)
           step == [z \in T \X (1 .. n) |-> addInstruction(z[1], hashTwoInts(prog[s[z[2]]]), prog[s[z[2]]], s[z[2]])]
           Folds(h) == h = [q \in SUBSET (1 .. n) |-> IF q = {} THEN base ELSE addInstruction(h[q \ {Max(q)}], hashTwoInts(prog[s[Max(q)]]), prog[s[Max(q)]], s[Max(q)])]
           it == CHOOSE h : Folds(h)
<1>1. RequestAll(base, s) = it[1 .. n]
  BY Zenon DEF RequestAll, FoldLeft, MapThenFoldSet
<1>2. \A r \in T, k \in 1 .. n : step[<<r, k>>] = addInstruction(r, hashTwoInts(prog[s[k]]), prog[s[k]], s[k])
  BY Zenon
<1>3. Steps(step, T, n)
  BY Zenon DEF Steps
<1> HIDE DEF step
<1>4. Folds(it)
  <2>1. PICK g : Folding(g, T, n, base, step)
    <3> HIDE DEF n
    <3>1. n \in Nat
      BY DEF n
    <3>2. QED
      BY <1>3, <3>1, FoldExists
  <2>2. ASSUME NEW q \in SUBSET (1 .. n), q # {}
        PROVE  g[q] = addInstruction(g[q \ {Max(q)}], hashTwoInts(prog[s[Max(q)]]), prog[s[Max(q)]], s[Max(q)])
    <3>1. Max(q) \in 1 .. n
      BY <2>2, MaxOf
    <3>2. g[q \ {Max(q)}] \in T
      BY <2>1 DEF Folding
    <3>3. g[q] = step[<<g[q \ {Max(q)}], Max(q)>>]
      BY <2>1, <2>2 DEF Folding
    <3>4. QED
      BY <1>2, <3>1, <3>2, <3>3, Zenon
  <2>3. Folds(g)
    BY <2>1, <2>2, Zenon DEF Folding
  <2>4. QED
    BY <2>3, Zenon
<1> HIDE DEF it
<1>5. Unfolds(it, T, n, base, step)
  <2>1. it[{}] = base
    <3>1. {} \in SUBSET (1 .. n)
      OBVIOUS
    <3>2. QED
      BY <1>4, <3>1, Zenon
  <2>2. ASSUME NEW k \in 1 .. n, it[1 .. k - 1] \in T
        PROVE  it[1 .. k] = step[<<it[1 .. k - 1], k>>]
    <3>1. /\ Max(1 .. k) = k /\ (1 .. k) \ {k} = 1 .. k - 1
          /\ 1 .. k \in SUBSET (1 .. n) /\ 1 .. k # {}
      BY MaxOf
    <3>2. it[1 .. k] = addInstruction(it[(1 .. k) \ {Max(1 .. k)}], hashTwoInts(prog[s[Max(1 .. k)]]), prog[s[Max(1 .. k)]], s[Max(1 .. k)])
      BY <1>4, <3>1, Zenon
    <3>3. it[1 .. k] = addInstruction(it[1 .. k - 1], hashTwoInts(prog[s[k]]), prog[s[k]], s[k])
      BY <3>1, <3>2, Zenon
    <3>4. QED
      BY <3>3, <1>2, <2>2, Zenon
  <2>3. QED
    BY <2>1, <2>2, Zenon DEF Unfolds
<1>6. LeadsOn(P, T, n, base, step)
  <2>1. ASSUME NEW k \in 1 .. n, NEW r \in T, r \in P[k - 1] PROVE step[<<r, k>>] \in P[k]
    <3>1. step[<<r, k>>] = addInstruction(r, hashTwoInts(prog[s[k]]), prog[s[k]], s[k])
      BY <1>2, Zenon
    <3>2. QED
      BY <2>1, <3>1, Zenon
  <2>2. QED
    BY <2>1, Zenon DEF LeadsOn
<1>7. it[1 .. n] \in T /\ it[1 .. n] \in P[n]
  <2> HIDE DEF n, Folds
  <2>1. n \in Nat
    BY DEF n
  <2>2. QED
    BY <1>3, <1>5, <1>6, <2>1, FoldInduct
<1>8. QED
  BY <1>1, <1>7, Zenon

LEMMA Requested ==
  ASSUME TypeOK, NEW D \in SUBSET Insns, InStreams(rou, D), NEW s \in Seq(Insns), Increasing(s),
         \A x \in D, y \in ToSet(s) : x < y,
         NEW q, q = RequestAll(rou, s)
  PROVE  q \in [DOMAIN q -> Seq(Insns)] /\ InStreams(q, D \cup ToSet(s))
<1> DEFINE H == DOMAIN rou \cup {hashTwoInts(prog[d]) : d \in Insns}
           T == Streams(H)
           P == [k \in 0 .. Len(s) |-> {r \in T : InStreams(r, D \cup Gone(s, k))}]
           F(r, d) == addInstruction(r, hashTwoInts(prog[d]), prog[d], d)
<1>1. /\ Insns \in SUBSET Nat /\ Len(s) \in Nat /\ DOMAIN s = 1 .. Len(s)
      /\ \A k \in 1 .. Len(s) : s[k] \in Insns /\ s[k] \in ToSet(s)
      /\ \A k \in 1 .. Len(s) : Gone(s, k) = Gone(s, k - 1) \cup {s[k]}
      /\ Gone(s, 0) = {} /\ Gone(s, Len(s)) = ToSet(s)
  BY ProgIs, Parts
<1>2. rou \in T
  BY DEF TypeOK, Streams
<1>3. \A d \in Insns : hashTwoInts(prog[d]) \in H
  OBVIOUS
<1>4. \A k \in 1 .. Len(s) : Gone(s, k - 1) \subseteq Insns /\ \A x \in Gone(s, k - 1) : x < s[k]
  <2> TAKE k \in 1 .. Len(s)
  <2>1. \A j \in 1 .. k - 1 : s[j] \in Insns
    BY <1>1
  <2>2. Gone(s, k - 1) \subseteq Insns
    BY <2>1 DEF Gone
  <2>3. QED
    BY <1>1, <2>2, InOrder
<1> HIDE DEF H
<1>5. ASSUME NEW k \in 1 .. Len(s), NEW r \in T
      PROVE  F(r, s[k]) \in T
  <2> DEFINE d == s[k]
             h == hashTwoInts(prog[d])
             i == prog[d]
             e == addInstruction(r, h, i, d)
  <2>1. d \in Insns /\ h \in H
    BY <1>1, <1>3
  <2> HIDE DEF d, h, i
  <2>2. addInstruction(r, h, i, d) \in T
    BY <2>1, AddType
  <2>3. QED
    BY <2>2 DEF d, h, i
<1>6. ASSUME NEW k \in 1 .. Len(s), NEW r \in T, InStreams(r, D \cup Gone(s, k - 1))
      PROVE  InStreams(F(r, s[k]), D \cup Gone(s, k))
  <2> DEFINE d == s[k]
             E == D \cup Gone(s, k - 1)
             e == F(r, d)
  <2>1. d \in Insns /\ hashTwoInts(prog[d]) \in H /\ E \in SUBSET Insns /\ InStreams(r, E)
    BY <1>1, <1>3, <1>4, <1>6
  <2>2. \A x \in E : x < d
    BY <1>1, <1>4
  <2>3. E \cup {d} = D \cup Gone(s, k)
    BY <1>1
  <2> HIDE DEF d, E, T
  <2>4. r \in Streams(H) /\ e = addInstruction(r, hashTwoInts(prog[d]), prog[d], d)
    BY DEF T
  <2> HIDE DEF e, F
  <2>5. InStreams(e, E \cup {d})
    <3>1. Insns \in SUBSET Nat
      BY <1>1
    <3>2. r \in Streams(H) /\ E \in SUBSET Insns /\ d \in Insns /\ hashTwoInts(prog[d]) \in H
      BY <2>1, <2>4
    <3>3. e = addInstruction(r, hashTwoInts(prog[d]), prog[d], d)
      BY <2>4
    <3>4. InStreams(r, E)
      BY <2>1
    <3>5. QED
      BY <3>1, <3>2, <3>3, <3>4, <2>2, AddIs
  <2>6. QED
    BY <2>3, <2>5 DEF e, d
<1>7. InStreams(rou, D \cup Gone(s, 0))
  <2>1. D \cup Gone(s, 0) = D
    BY <1>1
  <2>2. QED
    BY <2>1
<1>8. /\ rou \in P[0] /\ P[Len(s)] = {r \in T : InStreams(r, D \cup Gone(s, Len(s)))}
      /\ \A k \in 1 .. Len(s) : /\ P[k - 1] = {r \in T : InStreams(r, D \cup Gone(s, k - 1))}
                                /\ P[k] = {r \in T : InStreams(r, D \cup Gone(s, k))}
  <2> HIDE DEF T
  <2>1. QED
    BY <1>1, <1>2, <1>7
<1> HIDE DEF T, P, F
<1>9. \A k \in 1 .. Len(s), r \in T : r \in P[k - 1] => F(r, s[k]) \in P[k]
  BY <1>5, <1>6, <1>8
<1>10. /\ \A k \in 1 .. Len(s), r \in T : addInstruction(r, hashTwoInts(prog[s[k]]), prog[s[k]], s[k]) \in T
       /\ \A k \in 1 .. Len(s), r \in T :
            r \in P[k - 1] => addInstruction(r, hashTwoInts(prog[s[k]]), prog[s[k]], s[k]) \in P[k]
  BY <1>5, <1>9, Zenon DEF F
<1>11. RequestAll(rou, s) \in T /\ RequestAll(rou, s) \in P[Len(s)]
  BY <1>1, <1>2, <1>8, <1>10, RequestInduct
<1>12. q \in T /\ InStreams(q, D \cup Gone(s, Len(s)))
  BY <1>8, <1>11
<1>13. QED
  BY <1>1, <1>12 DEF T, Streams

LEMMA Least ==
  ASSUME NEW S \in SUBSET Nat, S # {}
  PROVE  Min(S) \in S /\ \A x \in S : Min(S) <= x
<1>1. \E x \in S : \A y \in S : x <= y
  BY Smallest
<1>2. QED
  BY <1>1, Zenon DEF Min

(* The instructions that are new, numbered on from the last one.           *)
LEMMA NewOnes ==
  ASSUME TypeOK, Len(issueQueue) <= IssueQueueCapacity,
         NEW room, room = Min({WindowSize, Len(prog) - insnQueue, IssueQueueCapacity - Len(issueQueue)}),
         NEW new, new = [k \in 1 .. room |-> insnQueue + k]
  PROVE  /\ insnQueue + room \in insnQueue .. Len(prog) /\ Len(issueQueue) + Len(new) <= IssueQueueCapacity
         /\ new \in Seq(Insns) /\ Increasing(new) /\ ToSet(new) = insnQueue + 1 .. insnQueue + room
<1> DEFINE n == Len(prog) - insnQueue
           c == IssueQueueCapacity - Len(issueQueue)
           S == {WindowSize, n, c}
<1>1. /\ Insns = 1 .. Len(prog) /\ Len(prog) \in Nat /\ insnQueue \in 0 .. Len(prog)
      /\ Len(issueQueue) \in Nat /\ WindowSize \in Nat /\ IssueQueueCapacity \in Nat
  BY ProgIs, DyserCoreAssumption DEF TypeOK
<1>2. S \in SUBSET Nat /\ S # {}
  BY <1>1
<1>3. room = Min(S)
  OBVIOUS
<1>4. Min(S) \in S /\ \A x \in S : Min(S) <= x
  <2> HIDE DEF S
  <2>1. QED
    BY <1>2, Least
<1>5. room \in Nat /\ room <= n /\ room <= c
  BY <1>2, <1>3, <1>4
<1> HIDE DEF S
<1>6. insnQueue + room \in insnQueue .. Len(prog)
  BY <1>1, <1>5
<1>7. \A k \in 1 .. room : insnQueue + k \in Insns
  BY <1>1, <1>5
<1>8. new \in [1 .. room -> Insns]
  BY <1>7
<1>9. new \in Seq(Insns) /\ Len(new) = room
  BY <1>5, <1>8, FunctionIsSeq
<1>10. Len(issueQueue) + Len(new) <= IssueQueueCapacity
  BY <1>1, <1>5, <1>9
<1>11. Increasing(new)
  BY <1>1, <1>5 DEF Increasing
<1>12. ToSet(new) = insnQueue + 1 .. insnQueue + room
  <2>1. \A k \in 1 .. room : insnQueue + k \in insnQueue + 1 .. insnQueue + room
    BY <1>1, <1>5
  <2>2. \A x \in insnQueue + 1 .. insnQueue + room : x - insnQueue \in 1 .. room /\ insnQueue + (x - insnQueue) = x
    BY <1>1, <1>5
  <2>3. QED
    BY <2>1, <2>2 DEF ToSet
<1>13. QED
  BY <1>6, <1>9, <1>10, <1>11, <1>12

-----------------------------------------------------------------------------
(* The stages.                                                             *)

LEMMA Carried ==
  ASSUME TypeOK, machine' = machine, prog' = prog, ports' \in PortState(machine), units' \in UnitStates,
         rou' \in [DOMAIN rou' -> Seq(Insns)], status' \in [Insns -> Statuses],
         currentCycle' \in [Insns -> Nat], using' \in Holdings, answered' \in SUBSET Insns,
         handedOver' \in SUBSET Insns, insnQueue' \in 0 .. Len(prog), issueQueue' \in Seq(Insns),
         inFlightInsn' \in Seq(Insns), stage' \in DOMAIN After,
         Accounted(machine, ports', using'),
         Agree(using', issueQueue', inFlightInsn', insnQueue'), InStreams(rou', ToSet(issueQueue'))
  PROVE  IInv'
<1>1. Insns' = Insns
  BY DEF Insns
<1>2. TypeOK'
  BY <1>1 DEF TypeOK, Holdings
<1>3. Accounted(machine, ports, using)'
  BY DEF Accounted
<1>4. QueuesAgree'
  BY <1>1 DEF QueuesAgree, Agree
<1>5. InStreams(rou, ToSet(issueQueue))'
  BY DEF InStreams, hashTwoInts
<1>6. QED
  BY <1>2, <1>3, <1>4, <1>5 DEF IInv

LEMMA Facts ==
  ASSUME IInv
  PROVE  /\ TypeOK /\ Accounted(machine, ports, using) /\ InStreams(rou, ToSet(issueQueue))
         /\ Agree(using, issueQueue, inFlightInsn, insnQueue)
         /\ machine \in Machine /\ Insns \in SUBSET Nat
         /\ ports \in PortState(machine) /\ units \in UnitStates
         /\ rou \in [DOMAIN rou -> Seq(Insns)] /\ status \in [Insns -> Statuses]
         /\ currentCycle \in [Insns -> Nat] /\ using \in Holdings /\ answered \in SUBSET Insns
         /\ handedOver \in SUBSET Insns /\ insnQueue \in 0 .. Len(prog) /\ issueQueue \in Seq(Insns)
         /\ inFlightInsn \in Seq(Insns)
<1>1. TypeOK /\ Accounted(machine, ports, using) /\ InStreams(rou, ToSet(issueQueue)) /\ QueuesAgree
  BY DEF IInv
<1>2. machine \in Machine /\ Insns \in SUBSET Nat
  BY <1>1, ProgIs
<1>3. QED
  BY <1>1, <1>2 DEF TypeOK, QueuesAgree, Holdings

LEMMA WriteBackOK ==
  ASSUME IInv, WriteBack
  PROVE  IInv'
<1> DEFINE done == {d \in ToSet(inFlightInsn) : status[d] # "FINISHED" /\ finishes(d)}
           after == WbAll(done, [ports |-> ports, using |-> using, left |-> <<>>], inFlightInsn)
<1>1. ports' = after.ports /\ using' = after.using /\ inFlightInsn' = after.left
  BY Zenon DEF WriteBack, WbAll, WbStep
<1>2. /\ status' = [d \in Insns |-> IF d \in done THEN "FINISHED" ELSE status[d]]
      /\ stage' \in DOMAIN After
      /\ machine' = machine /\ prog' = prog /\ units' = units /\ rou' = rou
      /\ currentCycle' = currentCycle /\ answered' = answered /\ handedOver' = handedOver
      /\ insnQueue' = insnQueue /\ issueQueue' = issueQueue
  BY DEF WriteBack, GoOn, After
<1>3. \A d \in Insns : using[d] # <<>> => d \in ToSet(inFlightInsn)
  BY Facts DEF Agree
<1>4. /\ after.ports \in PortState(machine) /\ after.using \in Holdings
      /\ after.left \in Seq(Insns) /\ ToSet(after.left) \subseteq ToSet(inFlightInsn)
      /\ Accounted(machine, after.ports, after.using)
      /\ \A d \in Insns : after.using[d] # <<>> => d \in ToSet(after.left)
  <2> HIDE DEF done
  <2>1. QED
    BY <1>3, Facts, WrittenBack
<1> HIDE DEF after, done
<1>5. status' \in [Insns -> Statuses]
  BY <1>2, Facts DEF Statuses
<1>6. Agree(using', issueQueue', inFlightInsn', insnQueue')
  BY <1>1, <1>2, <1>4, Facts DEF Agree
<1>7. QED
  BY <1>1, <1>2, <1>4, <1>5, <1>6, Facts, Carried

LEMMA ExecuteOK ==
  ASSUME IInv, Execute
  PROVE  IInv'
<1> DEFINE after == ExecAll([ports |-> ports, using |-> using, units |-> units, answered |-> answered,
                             handedOver |-> handedOver], inFlightInsn)
           more(d) == Min({currentCycle[d] + 1, Max({prog[d].cycles, MaxLoadCycles})})
<1>1. /\ ports' = after.ports /\ using' = after.using /\ units' = after.units
      /\ answered' = after.answered /\ handedOver' = after.handedOver
  BY Zenon DEF Execute, ExecAll
<1>2. /\ status' = [d \in Insns |-> IF status[d] = "ISSUED" /\ ~isLoad(d) THEN "EXECUTING" ELSE status[d]]
      /\ currentCycle' = [d \in Insns |-> IF Contains(inFlightInsn, d) THEN more(d) ELSE currentCycle[d]]
      /\ stage' \in DOMAIN After /\ machine' = machine /\ prog' = prog /\ rou' = rou
      /\ insnQueue' = insnQueue /\ issueQueue' = issueQueue /\ inFlightInsn' = inFlightInsn
  BY DEF Execute, GoOn, After, queueVars
<1>3. /\ after \in Execs /\ Accounted(machine, after.ports, after.using)
      /\ \A d \in Insns : after.using[d] # <<>> => using[d] # <<>>
  BY Facts, Executed
<1> HIDE DEF after
<1>4. status' \in [Insns -> Statuses]
  BY <1>2, Facts DEF Statuses
<1>5. currentCycle' \in [Insns -> Nat]
  <2>1. ASSUME NEW d \in Insns PROVE more(d) \in Nat
    <3> DEFINE x == currentCycle[d] + 1
               y == prog[d].cycles
               z == Max({y, MaxLoadCycles})
    <3>1. x \in Nat /\ y \in Nat /\ MaxLoadCycles \in Nat
      BY Facts, ProgIs, DyserCoreAssumption
    <3> HIDE DEF x, y
    <3>2. z \in {y, MaxLoadCycles}
      <4>1. y \in Int /\ MaxLoadCycles \in Int
        BY <3>1
      <4>2. QED
        BY <4>1, Larger, Zenon
    <3>3. z \in Nat
      BY <3>1, <3>2
    <3> HIDE DEF z
    <3>4. Min({x, z}) \in {x, z}
      BY <3>1, <3>3, Smaller
    <3>5. Min({x, z}) \in Nat
      BY <3>1, <3>3, <3>4
    <3>6. QED
      BY <3>5 DEF x, y, z
  <2> HIDE DEF more
  <2>2. QED
    BY <1>2, <2>1, Facts
<1>6. Agree(using', issueQueue', inFlightInsn', insnQueue')
  BY <1>1, <1>2, <1>3, Facts DEF Agree
<1>7. /\ ports' \in PortState(machine) /\ using' \in Holdings /\ units' \in UnitStates
      /\ answered' \in SUBSET Insns /\ handedOver' \in SUBSET Insns
  BY <1>1, <1>3 DEF Execs
<1>8. QED
  BY <1>1, <1>2, <1>3, <1>4, <1>5, <1>6, <1>7, Facts, Carried

LEMMA LsuProcessOK ==
  ASSUME IInv, LsuProcess
  PROVE  IInv'
<1> DEFINE loads == {d \in ToSet(inFlightInsn) : isLoad(d) /\ d \notin answered}
<1>1. PICK arrived \in SUBSET loads : \E sleeping \in SUBSET {d \in loads \ arrived : status[d] = "ISSUED"} :
        /\ answered' = answered \cup arrived
        /\ status' = [d \in Insns |->
                IF d \in sleeping THEN "SLEEP"
                ELSE IF d \in loads /\ status[d] = "ISSUED" THEN "EXECUTING" ELSE status[d]]
  BY DEF LsuProcess
<1>2. /\ stage' \in DOMAIN After /\ machine' = machine /\ prog' = prog /\ rou' = rou
      /\ ports' = ports /\ units' = units /\ currentCycle' = currentCycle /\ using' = using
      /\ handedOver' = handedOver
      /\ insnQueue' = insnQueue /\ issueQueue' = issueQueue /\ inFlightInsn' = inFlightInsn
  BY DEF LsuProcess, GoOn, After, queueVars
<1>3. answered' \in SUBSET Insns
  <2>1. ToSet(inFlightInsn) \subseteq Insns
    BY Facts, Parts
  <2>2. QED
    BY <1>1, <2>1, Facts
<1>4. status' \in [Insns -> Statuses]
  <2> HIDE DEF loads
  <2>1. QED
    BY <1>1, Facts DEF Statuses
<1>5. QED
  BY <1>2, <1>3, <1>4, Facts, Carried

LEMMA DyserTickOK ==
  ASSUME IInv, DyserTick
  PROVE  IInv'
<1>1. /\ units' = [n \in DOMAIN units |-> processQueue(Functions[n], units[n])]
      /\ stage' \in DOMAIN After /\ machine' = machine /\ prog' = prog /\ rou' = rou
      /\ ports' = ports /\ currentCycle' = currentCycle /\ using' = using /\ status' = status
      /\ answered' = answered /\ handedOver' = handedOver
      /\ insnQueue' = insnQueue /\ issueQueue' = issueQueue /\ inFlightInsn' = inFlightInsn
  BY DEF DyserTick, GoOn, After, queueVars, coreVars
<1>2. units \in UnitStates
  BY Facts
<1>3. DOMAIN units = DOMAIN Functions /\ \A n \in DOMAIN Functions : units[n] \in UnitState(Functions[n])
  BY <1>2 DEF UnitStates
<1>4. \A n \in DOMAIN Functions : processQueue(Functions[n], units[n]) \in UnitState(Functions[n])
  BY <1>3, ProcessIs
<1>5. units' \in UnitStates
  <2>1. units' = [n \in DOMAIN Functions |-> units'[n]]
    BY <1>1, <1>3
  <2>2. \A n \in DOMAIN Functions : units'[n] \in UnitState(Functions[n])
    BY <1>1, <1>3, <1>4
  <2>3. QED
    BY <2>1, <2>2, UnitsAll
<1>6. QED
  BY <1>1, <1>5, Facts, Carried

LEMMA IssueOK ==
  ASSUME IInv, Issue
  PROVE  IInv'
<1> DEFINE after == IssueAll([ports |-> ports, occupied |-> <<>>, rou |-> rou, using |-> using,
                              issued |-> <<>>, ready |-> {}, left |-> <<>>], issueQueue)
           s == issueQueue
<1>1. /\ ports' = after.ports /\ rou' = after.rou /\ using' = after.using
      /\ status' = [d \in Insns |-> IF Contains(after.issued, d) THEN "ISSUED"
                                    ELSE IF d \in after.ready THEN "READY" ELSE status[d]]
      /\ issueQueue' = after.left /\ inFlightInsn' = inFlightInsn \o after.issued
  BY Zenon DEF Issue, IssueAll
<1>2. /\ stage' \in DOMAIN After /\ machine' = machine /\ prog' = prog /\ units' = units
      /\ currentCycle' = currentCycle /\ answered' = answered /\ handedOver' = handedOver
      /\ insnQueue' = insnQueue
  BY DEF Issue, GoOn, After
<1>3. after \in Considered /\ Scanned(after, s, Len(s))
  BY Issued
<1> HIDE DEF after
<1>4. /\ after.ports \in PortState(machine) /\ after.rou \in [DOMAIN rou -> Seq(Insns)]
      /\ after.using \in Holdings /\ after.issued \in Seq(Insns) /\ after.left \in Seq(Insns)
  BY <1>3 DEF Considered
<1>5. Gone(s, Len(s)) = ToSet(s) /\ Rest(s, Len(s)) = {}
  BY Facts, Parts
<1> HIDE DEF s
<1>6. /\ Accounted(machine, after.ports, after.using)
      /\ ToSet(after.issued) \cup ToSet(after.left) \subseteq ToSet(s)
      /\ ToSet(after.issued) \cap ToSet(after.left) = {}
      /\ Increasing(after.left) /\ Len(after.left) <= Len(s)
      /\ \A d \in Insns : after.using[d] # <<>> => d \in ToSet(inFlightInsn) \cup ToSet(after.issued)
      /\ InStreams(after.rou, ToSet(after.left))
  <2>1. ToSet(after.left) \cup Rest(s, Len(s)) = ToSet(after.left)
    BY <1>5
  <2>2. QED
    BY <1>3, <1>5, <2>1 DEF Scanned
<1>7. /\ inFlightInsn' \in Seq(Insns)
      /\ ToSet(inFlightInsn') = ToSet(inFlightInsn) \cup ToSet(after.issued)
  <2> DEFINE x == after.issued
  <2>1. x \in Seq(Insns) /\ inFlightInsn \in Seq(Insns) /\ Insns \in SUBSET Nat
    BY <1>4, Facts
  <2> HIDE DEF x
  <2>2. inFlightInsn \o x \in Seq(Insns) /\ ToSet(inFlightInsn \o x) = ToSet(inFlightInsn) \cup ToSet(x)
    BY <2>1, Joined
  <2>3. QED
    BY <1>1, <2>2 DEF x
<1>8. /\ ToSet(s) \cap ToSet(inFlightInsn) = {} /\ ToSet(s) \cup ToSet(inFlightInsn) \subseteq 1 .. insnQueue
      /\ Len(s) <= IssueQueueCapacity /\ Len(s) \in Nat
  BY Facts DEF Agree, s
<1>9. Agree(using', issueQueue', inFlightInsn', insnQueue')
  <2>1. Len(after.left) <= IssueQueueCapacity
    <3>1. Len(after.left) \in Nat /\ IssueQueueCapacity \in Nat
      BY <1>4, DyserCoreAssumption
    <3>2. QED
      BY <1>6, <1>8, <3>1
  <2>2. QED
    BY <1>1, <1>2, <1>6, <1>7, <1>8, <2>1 DEF Agree
<1>10. status' \in [Insns -> Statuses]
  BY <1>1, Facts DEF Statuses
<1>11. rou' \in [DOMAIN rou' -> Seq(Insns)] /\ InStreams(rou', ToSet(issueQueue'))
  BY <1>1, <1>4, <1>6
<1>12. QED
  BY <1>1, <1>2, <1>4, <1>6, <1>7, <1>9, <1>10, <1>11, Facts, Carried

LEMMA DispatchOK ==
  ASSUME IInv, Dispatch
  PROVE  IInv'
<1> DEFINE room == Min({WindowSize, Len(prog) - insnQueue, IssueQueueCapacity - Len(issueQueue)})
           new == [k \in 1 .. room |-> insnQueue + k]
           release == [q \in Ports(machine) |-> Max({0, ports.release[q] - 1})]
<1>1. /\ insnQueue' = insnQueue + room /\ issueQueue' = issueQueue \o new
      /\ rou' = RequestAll(rou, new)
      /\ status' = [d \in Insns |-> IF Contains(new, d) THEN "ALLOCATED" ELSE status[d]]
      /\ ports' = [ports EXCEPT !.release = release]
  BY Zenon DEF Dispatch, RequestAll
<1>2. /\ stage' \in DOMAIN After /\ machine' = machine /\ prog' = prog /\ units' = units
      /\ currentCycle' = currentCycle /\ using' = using /\ answered' = answered
      /\ handedOver' = handedOver /\ inFlightInsn' = inFlightInsn
  BY DEF Dispatch, GoOn, After
<1>3. /\ insnQueue + room \in insnQueue .. Len(prog) /\ Len(issueQueue) + Len(new) <= IssueQueueCapacity
      /\ new \in Seq(Insns) /\ Increasing(new) /\ ToSet(new) = insnQueue + 1 .. insnQueue + room
  BY Facts, NewOnes DEF Agree
<1> HIDE DEF room, new
<1>4. /\ ToSet(issueQueue) \cap ToSet(inFlightInsn) = {} /\ Increasing(issueQueue)
      /\ ToSet(issueQueue) \cup ToSet(inFlightInsn) \subseteq 1 .. insnQueue
      /\ \A d \in Insns : using[d] # <<>> => d \in ToSet(inFlightInsn)
      /\ insnQueue \in Nat /\ issueQueue \in Seq(Insns) /\ Insns \in SUBSET Nat
  BY Facts DEF Agree
<1>5. /\ issueQueue \o new \in Seq(Insns) /\ ToSet(issueQueue \o new) = ToSet(issueQueue) \cup ToSet(new)
      /\ Len(issueQueue \o new) = Len(issueQueue) + Len(new)
  BY <1>3, <1>4, Joined
<1>6. \A x \in ToSet(issueQueue), y \in ToSet(new) : x < y
  BY <1>3, <1>4
<1>7. Increasing(issueQueue \o new)
  BY <1>3, <1>4, <1>6, Joined
<1>8. Agree(using', issueQueue', inFlightInsn', insnQueue')
  <2>1. 1 .. insnQueue \subseteq 1 .. insnQueue + room /\ ToSet(new) \subseteq 1 .. insnQueue + room
    BY <1>3, <1>4
  <2>2. ToSet(new) \cap ToSet(inFlightInsn) = {}
    BY <1>3, <1>4
  <2>3. Len(issueQueue') <= IssueQueueCapacity
    BY <1>1, <1>3, <1>5
  <2>4. ToSet(issueQueue') = ToSet(issueQueue) \cup ToSet(new)
    BY <1>1, <1>5
  <2>5. QED
    BY <1>1, <1>2, <1>4, <1>7, <2>1, <2>2, <2>3, <2>4 DEF Agree
<1>9. rou' \in [DOMAIN rou' -> Seq(Insns)] /\ InStreams(rou', ToSet(issueQueue'))
  <2> DEFINE D == ToSet(issueQueue)
             r == RequestAll(rou, new)
  <2>1. D \in SUBSET Insns
    BY <1>4, Parts
  <2>2. TypeOK /\ InStreams(rou, D) /\ \A x \in D, y \in ToSet(new) : x < y
    BY <1>6, Facts
  <2> HIDE DEF D
  <2>3. r \in [DOMAIN r -> Seq(Insns)] /\ InStreams(r, D \cup ToSet(new))
    BY <1>3, <2>1, <2>2, Requested
  <2>4. QED
    BY <1>1, <1>5, <2>3 DEF D
<1>10. status' \in [Insns -> Statuses]
  BY <1>1, Facts DEF Statuses
<1>11. /\ ports' \in PortState(machine) /\ ports'.usage = ports.usage /\ ports'.aval = ports.aval
  <2>1. ports \in PortState(machine) /\ ports.release \in [Ports(machine) -> Nat]
    BY Facts DEF PortState
  <2>2. release \in [Ports(machine) -> Nat]
    <3>1. ASSUME NEW q \in Ports(machine) PROVE Max({0, ports.release[q] - 1}) \in Nat
      <4> DEFINE x == ports.release[q] - 1
      <4>1. 0 \in Int /\ x \in Int
        BY <2>1
      <4> HIDE DEF x
      <4>2. Max({0, x}) \in {0, x} /\ Max({0, x}) >= 0
        BY <4>1, Larger, Zenon
      <4>3. Max({0, x}) \in Nat
        BY <4>1, <4>2
      <4>4. QED
        BY <4>3 DEF x
    <3>2. QED
      BY <3>1
  <2> HIDE DEF release
  <2>3. QED
    BY <1>1, <2>1, <2>2 DEF PortState
<1>12. Accounted(machine, ports', using')
  BY <1>2, <1>11, Facts DEF Accounted, Counted
<1>13. insnQueue' \in 0 .. Len(prog) /\ issueQueue' \in Seq(Insns)
  BY <1>1, <1>3, <1>4, <1>5
<1>14. QED
  BY <1>2, <1>8, <1>9, <1>10, <1>11, <1>12, <1>13, Facts, Carried

LEMMA StutterOK ==
  ASSUME IInv, UNCHANGED vars
  PROVE  IInv'
<1>1. /\ machine' = machine /\ prog' = prog /\ ports' = ports /\ units' = units /\ rou' = rou
      /\ status' = status /\ currentCycle' = currentCycle /\ using' = using /\ answered' = answered
      /\ handedOver' = handedOver /\ insnQueue' = insnQueue /\ issueQueue' = issueQueue
      /\ inFlightInsn' = inFlightInsn /\ stage' = stage
  BY DEF vars, coreVars, queueVars
<1>2. stage' \in DOMAIN After
  BY <1>1 DEF IInv, TypeOK
<1>3. QED
  BY <1>1, <1>2, Facts, Carried

-----------------------------------------------------------------------------
(* The start.                                                              *)

LEMMA FetchIs ==
  ASSUME NEW body
  PROVE  fetch(body) \in UnitState(body)
<1> DEFINE f == [k \in DOMAIN body |-> [d \in DynDeps(body, k) |-> 0]]
           out == [d \in Results(body) |-> 0]
           cycles == [k \in DOMAIN body |-> 0]
<1>1. fetch(body) = [internalFIFO |-> f, outputFIFO |-> out, inflight |-> {}, currentCycle |-> cycles]
  BY Zenon DEF fetch, Results
<1>2. \A k \in DOMAIN body : f[k] \in [DynDeps(body, k) -> Int]
  OBVIOUS
<1>3. f = [k \in DOMAIN body |-> f[k]]
  OBVIOUS
<1>4. out \in [Results(body) -> Int] /\ cycles \in [DOMAIN body -> Int]
  OBVIOUS
<1> HIDE DEF f, out, cycles
<1>5. f \in Fifos(body)
  BY <1>2, <1>3, FifosAre
<1>6. QED
  BY <1>1, <1>4, <1>5 DEF UnitState

LEMMA FreeAtFirst ==
  ASSUME NEW m \in Machine, NEW h, \A d \in DOMAIN h : h[d] = <<>>
  PROVE  AllFree(m) \in PortState(m) /\ Accounted(m, AllFree(m), h)
<1> DEFINE aval == [fu \in FUs |-> Cardinality(UnitsOf(m, fu))]
           release == [port \in Ports(m) |-> 0]
<1>1. AllFree(m) = [usage |-> {}, aval |-> aval, release |-> release]
  BY Zenon DEF AllFree
<1>2. \A fu \in FUs : Cardinality(UnitsOf(m, fu)) \in Int
  <2> TAKE fu \in FUs
  <2>1. IsFiniteSet(Units(m)) /\ UnitsOf(m, fu) \in SUBSET Units(m)
    BY UnitsAre
  <2>2. IsFiniteSet(UnitsOf(m, fu))
    BY <2>1, FS_Subset
  <2>3. QED
    BY <2>2, FS_CardinalityType
<1>3. aval \in [FUs -> Int] /\ release \in [Ports(m) -> Nat]
  BY <1>2
<1>4. AllFree(m) \in PortState(m)
  <2> HIDE DEF aval, release
  <2>1. QED
    BY <1>1, <1>3 DEF PortState
<1>5. AllFree(m).usage = {} /\ \A fu \in FUs : AllFree(m).aval[fu] = Cardinality(UnitsOf(m, fu))
  BY <1>1
<1>6. Counted(m, AllFree(m))
  <2>1. \A fu \in FUs : UnitsOf(m, fu) \ {} = UnitsOf(m, fu)
    OBVIOUS
  <2>2. QED
    BY <1>5, <2>1 DEF Counted
<1>7. \A d \in DOMAIN h : DOMAIN h[d] = {}
  OBVIOUS
<1>8. Held(m, h) /\ InUse(m, h) = {}
  BY <1>7 DEF Held, InUse
<1>9. QED
  BY <1>4, <1>5, <1>6, <1>8 DEF Accounted

LEMMA InitOK ==
  ASSUME Init
  PROVE  IInv
<1>1. /\ machine \in Machines /\ prog \in Programs /\ ports = AllFree(machine)
      /\ units = [n \in DOMAIN Functions |-> fetch(Functions[n])] /\ rou = <<>>
      /\ status = [d \in Insns |-> "INIT"] /\ currentCycle = [d \in Insns |-> 0]
      /\ using = [d \in Insns |-> <<>>] /\ answered = {} /\ handedOver = {}
      /\ insnQueue = 0 /\ issueQueue = <<>> /\ inFlightInsn = <<>> /\ stage = "writeBack"
  BY DEF Init
<1>2. machine \in Machine /\ prog \in Seq(Insn(machine)) /\ IssueQueueCapacity \in Nat
  BY <1>1, DyserCoreAssumption
<1>3. Len(prog) \in Nat
  BY <1>2
<1>4. ports \in PortState(machine) /\ Accounted(machine, ports, using)
  <2>1. \A d \in DOMAIN using : using[d] = <<>>
    BY <1>1
  <2>2. QED
    BY <1>1, <1>2, <2>1, FreeAtFirst
<1>5. units \in UnitStates
  <2>1. units = [n \in DOMAIN Functions |-> units[n]]
    BY <1>1
  <2>2. \A n \in DOMAIN Functions : units[n] \in UnitState(Functions[n])
    BY <1>1, FetchIs
  <2>3. QED
    BY <2>1, <2>2, UnitsAll
<1>6. using \in [Insns -> Seq(Units(machine))] /\ currentCycle \in [Insns -> Nat]
  BY <1>1
<1>7. status \in [Insns -> Statuses]
  BY <1>1 DEF Statuses
<1>8. DOMAIN rou = {} /\ rou \in [DOMAIN rou -> Seq(Insns)]
  BY <1>1
<1>9. issueQueue \in Seq(Insns) /\ inFlightInsn \in Seq(Insns) /\ insnQueue \in 0 .. Len(prog)
  BY <1>1, <1>3
<1>10. stage \in DOMAIN After /\ answered \in SUBSET Insns /\ handedOver \in SUBSET Insns
  BY <1>1 DEF After
<1>11. TypeOK
  BY <1>1, <1>4, <1>5, <1>6, <1>7, <1>8, <1>9, <1>10 DEF TypeOK
<1>12. ToSet(issueQueue) = {} /\ ToSet(inFlightInsn) = {} /\ Increasing(issueQueue) /\ Len(issueQueue) = 0
  BY <1>1 DEF ToSet, Increasing
<1>13. QueuesAgree
  BY <1>1, <1>2, <1>12 DEF QueuesAgree, Agree
<1>14. InStreams(rou, ToSet(issueQueue))
  BY <1>8, <1>12 DEF InStreams
<1>15. QED
  BY <1>4, <1>11, <1>13, <1>14 DEF IInv

-----------------------------------------------------------------------------
(* The theorems.                                                           *)

(* Every stage of Core::run keeps the accounts and the queues.             *)
THEOREM Inductive == Spec => []IInv
<1>1. Init => IInv
  BY InitOK
<1>2. IInv /\ [Next]_vars => IInv'
  <2> SUFFICES ASSUME IInv, [Next]_vars PROVE IInv'
    OBVIOUS
  <2>1. CASE WriteBack
    BY <2>1, WriteBackOK
  <2>2. CASE Execute
    BY <2>2, ExecuteOK
  <2>3. CASE LsuProcess
    BY <2>3, LsuProcessOK
  <2>4. CASE DyserTick
    BY <2>4, DyserTickOK
  <2>5. CASE Issue
    BY <2>5, IssueOK
  <2>6. CASE Dispatch
    BY <2>6, DispatchOK
  <2>7. CASE UNCHANGED vars
    BY <2>7, StutterOK
  <2>8. QED
    BY <2>1, <2>2, <2>3, <2>4, <2>5, <2>6, <2>7, Zenon DEF Next
<1>3. QED
  BY <1>1, <1>2, PTL DEF Spec

(* The state of the core, of the ports, units and streams has its types:   *)
(* schedule takes units that the machine has, queues and streams name      *)
(* instructions of the program, and no port is blocked for less than no    *)
(* time.                                                                   *)
THEOREM TypeCorrect == Spec => []TypeOK
<1>1. IInv => TypeOK
  BY DEF IInv
<1>2. QED
  BY <1>1, Inductive, PTL

LEMMA OneHolder ==
  ASSUME IInv, NEW u \in Units(machine)
  PROVE  (u \in ports.usage) <=> Cardinality({d \in Insns : Contains(using[d], u)}) = 1
<1> DEFINE holders == {d \in Insns : Contains(using[d], u)}
<1>1. using \in [Insns -> Seq(Units(machine))] /\ Held(machine, using) /\ ports.usage = InUse(machine, using)
  BY DEF IInv, TypeOK, Accounted
<1>2. \A d \in Insns : Contains(using[d], u) <=> \E i \in DOMAIN using[d] : using[d][i] = u
  BY <1>1 DEF Contains
<1>3. ASSUME NEW d \in holders, NEW e \in holders PROVE d = e
  <2>1. PICK i \in DOMAIN using[d] : using[d][i] = u
    BY <1>2
  <2>2. PICK j \in DOMAIN using[e] : using[e][j] = u
    BY <1>2
  <2>3. QED
    BY <1>1, <2>1, <2>2 DEF Held
<1>4. CASE u \in ports.usage
  <2>1. PICK d \in Insns : \E i \in DOMAIN using[d] : using[d][i] = u
    BY <1>1, <1>4 DEF InUse
  <2>2. holders = {d}
    BY <1>2, <1>3, <2>1
  <2>3. Cardinality(holders) = 1
    BY <2>2, FS_Singleton
  <2>4. QED
    BY <1>4, <2>3
<1>5. CASE u \notin ports.usage
  <2>1. \A d \in Insns : ~\E i \in DOMAIN using[d] : using[d][i] = u
    BY <1>1, <1>5 DEF InUse
  <2>2. holders = {}
    BY <1>2, <2>1
  <2>3. Cardinality(holders) = 0
    BY <2>2, FS_EmptySet
  <2>4. QED
    BY <1>5, <2>3
<1>6. QED
  BY <1>4, <1>5

(* However schedule, write back and execute occupy and free them, a unit is *)
(* busy exactly while one instruction in flight holds it, and fuAvalMap     *)
(* counts the others: on any machine and for any program.                   *)
THEOREM UnitsKept == Spec => []UnitsAccounted
<1>1. ASSUME IInv PROVE UnitsAccounted
  <2>1. using \in [Insns -> Seq(Units(machine))] /\ Held(machine, using)
    BY <1>1 DEF IInv, TypeOK, Accounted
  <2>2. \A u \in Units(machine) :
          (u \in ports.usage) <=> Cardinality({d \in Insns : Contains(using[d], u)}) = 1
    BY <1>1, OneHolder
  <2>3. ASSUME NEW d \in Insns, NEW e \in Insns, d # e
        PROVE  ToSet(using[d]) \cap ToSet(using[e]) = {}
    BY <2>1, <2>3 DEF Held, ToSet
  <2>4. \A d \in Insns : using[d] # <<>> => Contains(inFlightInsn, d)
    <3>1. \A d \in Insns : using[d] # <<>> => d \in ToSet(inFlightInsn)
      BY <1>1 DEF IInv, QueuesAgree, Agree
    <3>2. inFlightInsn \in Seq(Insns)
      BY <1>1 DEF IInv, TypeOK
    <3>3. \A d \in ToSet(inFlightInsn) : Contains(inFlightInsn, d)
      BY <3>2 DEF ToSet, Contains
    <3>4. QED
      BY <3>1, <3>3
  <2>5. \A fu \in FUs : ports.aval[fu] = Cardinality(UnitsOf(machine, fu) \ ports.usage)
    BY <1>1 DEF IInv, Accounted, Counted
  <2>6. QED
    BY <2>2, <2>3, <2>4, <2>5, Zenon DEF UnitsAccounted
<1>2. QED
  BY <1>1, Inductive, PTL

(* The request ordering unit has every request that waits to be issued in  *)
(* its stream, in program order, and none that has gone: whatever hashes   *)
(* collide and in whatever order instructions find their units.            *)
THEOREM StreamsKept == Spec => []StreamsMatchQueue
<1>1. ASSUME IInv PROVE StreamsMatchQueue
  BY <1>1 DEF IInv, InStreams, Increasing, StreamsMatchQueue
<1>2. QED
  BY <1>1, Inductive, PTL

-----------------------------------------------------------------------------
(* Tokens and the order of requests.                                       *)

(* The instructions that have issued, and requests of one stream.          *)
Past(queue, n) == 1 .. n \ ToSet(queue)
SameStream(d, e) ==
  isRequest(prog[d]) /\ isRequest(prog[e]) /\ hashTwoInts(prog[d]) = hashTwoInts(prog[e])
StreamOrder(s) == \A i, j \in DOMAIN s : i < j /\ SameStream(s[i], s[j]) => s[i] < s[j]

(* The requests of a stream issue in program order.                        *)
InOrderOfStreams(queue, flight, n) ==
  /\ \A e \in Past(queue, n) : \A d \in Insns : d < e /\ SameStream(d, e) => d \in Past(queue, n)
  /\ StreamOrder(flight)

(* A packing hands over at the first execute after its issue; it has not    *)
(* finished before.                                                        *)
FirstHanded(over) ==
  \A d \in over : \A b \in Insns : b < d /\ isPackingFunc(b) /\ SameStream(b, d) => b \in over
HandedInOrder(past, flight, cycle, over, st) ==
  /\ \A d \in over : d \in past /\ isPackingFunc(d)
  /\ \A d \in past \ over : isPackingFunc(d) =>
       d \in ToSet(flight) /\ cycle[d] = 0 /\ st \in {"dispatch", "writeBack", "execute"}
  /\ \A d \in Insns \ past : cycle[d] = 0
  /\ FirstHanded(over)

(* Extracts of one result get their tokens in program order.               *)
SameResult(d, e) == prog[d].unit = prog[e].unit /\ prog[d].offset = prog[e].offset
FirstAnswered(have) ==
  \A e \in have, d \in Insns :
    isExtractFunc(d) /\ isExtractFunc(e) /\ SameResult(d, e) /\ d < e => d \in have
AnsweredInOrder(past, flight, have) ==
  /\ \A d \in have : isExtractFunc(d) => d \in past
  /\ \A d \in past : isExtractFunc(d) => d \in ToSet(flight) \/ d \in have
  /\ FirstAnswered(have)

(* Tokens come from what was handed over and from what was computed: c     *)
(* counts how often the instructions of the unit have started.             *)
InsnId(body, k) == Len(Inputs(body)) + k - 1
Done(u, c, k) == c[k] - (IF k \in u.inflight THEN 1 ELSE 0)
Came(n, over) == [x \in Int |-> Cardinality({d \in over : prog[d].unit = n /\ x \in Offsets(prog[d])})]
Went(n, have) ==
  [k \in DOMAIN Functions[n] |->
     Cardinality({d \in have : isExtractFunc(d) /\ prog[d].unit = n /\ ResultOf(prog[d]) = k})]
Tokens(body, u, c, came, went) ==
  /\ \A k \in DOMAIN body : \A x \in DynDeps(body, k) :
       /\ u.internalFIFO[k][x] >= 0
       /\ x < Len(Inputs(body)) => u.internalFIFO[k][x] + c[k] <= came[x]
       /\ \A j \in DOMAIN body : x = InsnId(body, j) => u.internalFIFO[k][x] + c[k] <= Done(u, c, j)
  /\ \A k \in DOMAIN body : InsnId(body, k) \in Results(body) =>
       /\ u.outputFIFO[InsnId(body, k)] >= 0
       /\ u.outputFIFO[InsnId(body, k)] + went[k] <= Done(u, c, k)
Accounts(us, over, have) ==
  \A n \in DOMAIN Functions : \E c \in [DOMAIN Functions[n] -> Nat] :
    Tokens(Functions[n], us[n], c, Came(n, over), Went(n, have))

TokensKept ==
  /\ InOrderOfStreams(issueQueue, inFlightInsn, insnQueue)
  /\ HandedInOrder(Past(issueQueue, insnQueue), inFlightInsn, currentCycle, handedOver, stage)
  /\ AnsweredInOrder(Past(issueQueue, insnQueue), inFlightInsn, answered)
  /\ Accounts(units, handedOver, answered)

-----------------------------------------------------------------------------
(* The numbers of inputs and instructions.                                 *)

InputAll(base, s) == FoldLeft(Input, base, s)
(* The operands of an instruction.                                         *)
LEMMA InputInduct ==
  ASSUME NEW s, Len(s) \in Nat, DOMAIN s = 1 .. Len(s), NEW T, NEW base \in T,
         \A k \in 1 .. Len(s), r \in T : (Input(r, s[k])) \in T,
         NEW P, base \in P[0],
         \A k \in 1 .. Len(s), r \in T : r \in P[k - 1] => (Input(r, s[k])) \in P[k]
  PROVE  InputAll(base, s) \in T /\ InputAll(base, s) \in P[Len(s)]
<1> DEFINE n == Len(s)
           step == [z \in T \X (1 .. n) |-> Input(z[1], s[z[2]])]
           Folds(h) == h = [q \in SUBSET (1 .. n) |-> IF q = {} THEN base ELSE Input(h[q \ {Max(q)}], s[Max(q)])]
           it == CHOOSE h : Folds(h)
<1>1. InputAll(base, s) = it[1 .. n]
  BY Zenon DEF InputAll, FoldLeft, MapThenFoldSet
<1>2. \A r \in T, k \in 1 .. n : step[<<r, k>>] = Input(r, s[k])
  BY Zenon
<1>3. Steps(step, T, n)
  BY Zenon DEF Steps
<1> HIDE DEF step
<1>4. Folds(it)
  <2>1. PICK g : Folding(g, T, n, base, step)
    <3> HIDE DEF n
    <3>1. n \in Nat
      BY DEF n
    <3>2. QED
      BY <1>3, <3>1, FoldExists
  <2>2. ASSUME NEW q \in SUBSET (1 .. n), q # {}
        PROVE  g[q] = Input(g[q \ {Max(q)}], s[Max(q)])
    <3>1. Max(q) \in 1 .. n
      BY <2>2, MaxOf
    <3>2. g[q \ {Max(q)}] \in T
      BY <2>1 DEF Folding
    <3>3. g[q] = step[<<g[q \ {Max(q)}], Max(q)>>]
      BY <2>1, <2>2 DEF Folding
    <3>4. QED
      BY <1>2, <3>1, <3>2, <3>3, Zenon
  <2>3. Folds(g)
    BY <2>1, <2>2, Zenon DEF Folding
  <2>4. QED
    BY <2>3, Zenon
<1> HIDE DEF it
<1>5. Unfolds(it, T, n, base, step)
  <2>1. it[{}] = base
    <3>1. {} \in SUBSET (1 .. n)
      OBVIOUS
    <3>2. QED
      BY <1>4, <3>1, Zenon
  <2>2. ASSUME NEW k \in 1 .. n, it[1 .. k - 1] \in T
        PROVE  it[1 .. k] = step[<<it[1 .. k - 1], k>>]
    <3>1. /\ Max(1 .. k) = k /\ (1 .. k) \ {k} = 1 .. k - 1
          /\ 1 .. k \in SUBSET (1 .. n) /\ 1 .. k # {}
      BY MaxOf
    <3>2. it[1 .. k] = Input(it[(1 .. k) \ {Max(1 .. k)}], s[Max(1 .. k)])
      BY <1>4, <3>1, Zenon
    <3>3. it[1 .. k] = Input(it[1 .. k - 1], s[k])
      BY <3>1, <3>2, Zenon
    <3>4. QED
      BY <3>3, <1>2, <2>2, Zenon
  <2>3. QED
    BY <2>1, <2>2, Zenon DEF Unfolds
<1>6. LeadsOn(P, T, n, base, step)
  <2>1. ASSUME NEW k \in 1 .. n, NEW r \in T, r \in P[k - 1] PROVE step[<<r, k>>] \in P[k]
    <3>1. step[<<r, k>>] = Input(r, s[k])
      BY <1>2, Zenon
    <3>2. QED
      BY <2>1, <3>1, Zenon
  <2>2. QED
    BY <2>1, Zenon DEF LeadsOn
<1>7. it[1 .. n] \in T /\ it[1 .. n] \in P[n]
  <2> HIDE DEF n, Folds
  <2>1. n \in Nat
    BY DEF n
  <2>2. QED
    BY <1>3, <1>5, <1>6, <2>1, FoldInduct
<1>8. QED
  BY <1>1, <1>7, Zenon

InputsAll(base, s) == FoldLeft(LAMBDA found, i : InputAll(found, i.operands), base, s)
(* The instructions of a function.                                         *)
LEMMA InputsInduct ==
  ASSUME NEW s, Len(s) \in Nat, DOMAIN s = 1 .. Len(s), NEW T, NEW base \in T,
         \A k \in 1 .. Len(s), r \in T : (InputAll(r, s[k].operands)) \in T,
         NEW P, base \in P[0],
         \A k \in 1 .. Len(s), r \in T : r \in P[k - 1] => (InputAll(r, s[k].operands)) \in P[k]
  PROVE  InputsAll(base, s) \in T /\ InputsAll(base, s) \in P[Len(s)]
<1> DEFINE n == Len(s)
           step == [z \in T \X (1 .. n) |-> InputAll(z[1], s[z[2]].operands)]
           Folds(h) == h = [q \in SUBSET (1 .. n) |-> IF q = {} THEN base ELSE InputAll(h[q \ {Max(q)}], s[Max(q)].operands)]
           it == CHOOSE h : Folds(h)
<1>1. InputsAll(base, s) = it[1 .. n]
  BY Zenon DEF InputsAll, FoldLeft, MapThenFoldSet
<1>2. \A r \in T, k \in 1 .. n : step[<<r, k>>] = InputAll(r, s[k].operands)
  BY Zenon
<1>3. Steps(step, T, n)
  BY Zenon DEF Steps
<1> HIDE DEF step
<1>4. Folds(it)
  <2>1. PICK g : Folding(g, T, n, base, step)
    <3> HIDE DEF n
    <3>1. n \in Nat
      BY DEF n
    <3>2. QED
      BY <1>3, <3>1, FoldExists
  <2>2. ASSUME NEW q \in SUBSET (1 .. n), q # {}
        PROVE  g[q] = InputAll(g[q \ {Max(q)}], s[Max(q)].operands)
    <3>1. Max(q) \in 1 .. n
      BY <2>2, MaxOf
    <3>2. g[q \ {Max(q)}] \in T
      BY <2>1 DEF Folding
    <3>3. g[q] = step[<<g[q \ {Max(q)}], Max(q)>>]
      BY <2>1, <2>2 DEF Folding
    <3>4. QED
      BY <1>2, <3>1, <3>2, <3>3, Zenon
  <2>3. Folds(g)
    BY <2>1, <2>2, Zenon DEF Folding
  <2>4. QED
    BY <2>3, Zenon
<1> HIDE DEF it
<1>5. Unfolds(it, T, n, base, step)
  <2>1. it[{}] = base
    <3>1. {} \in SUBSET (1 .. n)
      OBVIOUS
    <3>2. QED
      BY <1>4, <3>1, Zenon
  <2>2. ASSUME NEW k \in 1 .. n, it[1 .. k - 1] \in T
        PROVE  it[1 .. k] = step[<<it[1 .. k - 1], k>>]
    <3>1. /\ Max(1 .. k) = k /\ (1 .. k) \ {k} = 1 .. k - 1
          /\ 1 .. k \in SUBSET (1 .. n) /\ 1 .. k # {}
      BY MaxOf
    <3>2. it[1 .. k] = InputAll(it[(1 .. k) \ {Max(1 .. k)}], s[Max(1 .. k)].operands)
      BY <1>4, <3>1, Zenon
    <3>3. it[1 .. k] = InputAll(it[1 .. k - 1], s[k].operands)
      BY <3>1, <3>2, Zenon
    <3>4. QED
      BY <3>3, <1>2, <2>2, Zenon
  <2>3. QED
    BY <2>1, <2>2, Zenon DEF Unfolds
<1>6. LeadsOn(P, T, n, base, step)
  <2>1. ASSUME NEW k \in 1 .. n, NEW r \in T, r \in P[k - 1] PROVE step[<<r, k>>] \in P[k]
    <3>1. step[<<r, k>>] = InputAll(r, s[k].operands)
      BY <1>2, Zenon
    <3>2. QED
      BY <2>1, <3>1, Zenon
  <2>2. QED
    BY <2>1, Zenon DEF LeadsOn
<1>7. it[1 .. n] \in T /\ it[1 .. n] \in P[n]
  <2> HIDE DEF n, Folds
  <2>1. n \in Nat
    BY DEF n
  <2>2. QED
    BY <1>3, <1>5, <1>6, <2>1, FoldInduct
<1>8. QED
  BY <1>1, <1>7, Zenon

Output(body, found, k) == IF body[k].output THEN Append(found, k) ELSE found
OutputAll(body, base, s) == FoldLeft(LAMBDA found, k : Output(body, found, k), base, s)
(* The instructions of a function, by their numbers.                       *)
LEMMA OutputInduct ==
  ASSUME NEW body, NEW s, Len(s) \in Nat, DOMAIN s = 1 .. Len(s), NEW T, NEW base \in T,
         \A k \in 1 .. Len(s), r \in T : (Output(body, r, s[k])) \in T,
         NEW P, base \in P[0],
         \A k \in 1 .. Len(s), r \in T : r \in P[k - 1] => (Output(body, r, s[k])) \in P[k]
  PROVE  OutputAll(body, base, s) \in T /\ OutputAll(body, base, s) \in P[Len(s)]
<1> DEFINE n == Len(s)
           step == [z \in T \X (1 .. n) |-> Output(body, z[1], s[z[2]])]
           Folds(h) == h = [q \in SUBSET (1 .. n) |-> IF q = {} THEN base ELSE Output(body, h[q \ {Max(q)}], s[Max(q)])]
           it == CHOOSE h : Folds(h)
<1>1. OutputAll(body, base, s) = it[1 .. n]
  BY Zenon DEF OutputAll, FoldLeft, MapThenFoldSet
<1>2. \A r \in T, k \in 1 .. n : step[<<r, k>>] = Output(body, r, s[k])
  BY Zenon
<1>3. Steps(step, T, n)
  BY Zenon DEF Steps
<1> HIDE DEF step
<1>4. Folds(it)
  <2>1. PICK g : Folding(g, T, n, base, step)
    <3> HIDE DEF n
    <3>1. n \in Nat
      BY DEF n
    <3>2. QED
      BY <1>3, <3>1, FoldExists
  <2>2. ASSUME NEW q \in SUBSET (1 .. n), q # {}
        PROVE  g[q] = Output(body, g[q \ {Max(q)}], s[Max(q)])
    <3>1. Max(q) \in 1 .. n
      BY <2>2, MaxOf
    <3>2. g[q \ {Max(q)}] \in T
      BY <2>1 DEF Folding
    <3>3. g[q] = step[<<g[q \ {Max(q)}], Max(q)>>]
      BY <2>1, <2>2 DEF Folding
    <3>4. QED
      BY <1>2, <3>1, <3>2, <3>3, Zenon
  <2>3. Folds(g)
    BY <2>1, <2>2, Zenon DEF Folding
  <2>4. QED
    BY <2>3, Zenon
<1> HIDE DEF it
<1>5. Unfolds(it, T, n, base, step)
  <2>1. it[{}] = base
    <3>1. {} \in SUBSET (1 .. n)
      OBVIOUS
    <3>2. QED
      BY <1>4, <3>1, Zenon
  <2>2. ASSUME NEW k \in 1 .. n, it[1 .. k - 1] \in T
        PROVE  it[1 .. k] = step[<<it[1 .. k - 1], k>>]
    <3>1. /\ Max(1 .. k) = k /\ (1 .. k) \ {k} = 1 .. k - 1
          /\ 1 .. k \in SUBSET (1 .. n) /\ 1 .. k # {}
      BY MaxOf
    <3>2. it[1 .. k] = Output(body, it[(1 .. k) \ {Max(1 .. k)}], s[Max(1 .. k)])
      BY <1>4, <3>1, Zenon
    <3>3. it[1 .. k] = Output(body, it[1 .. k - 1], s[k])
      BY <3>1, <3>2, Zenon
    <3>4. QED
      BY <3>3, <1>2, <2>2, Zenon
  <2>3. QED
    BY <2>1, <2>2, Zenon DEF Unfolds
<1>6. LeadsOn(P, T, n, base, step)
  <2>1. ASSUME NEW k \in 1 .. n, NEW r \in T, r \in P[k - 1] PROVE step[<<r, k>>] \in P[k]
    <3>1. step[<<r, k>>] = Output(body, r, s[k])
      BY <1>2, Zenon
    <3>2. QED
      BY <2>1, <3>1, Zenon
  <2>2. QED
    BY <2>1, Zenon DEF LeadsOn
<1>7. it[1 .. n] \in T /\ it[1 .. n] \in P[n]
  <2> HIDE DEF n, Folds
  <2>1. n \in Nat
    BY DEF n
  <2>2. QED
    BY <1>3, <1>5, <1>6, <2>1, FoldInduct
<1>8. QED
  BY <1>1, <1>7, Zenon

LEMMA OutputsAre ==
  ASSUME NEW body \in Function
  PROVE  ToSet(Outputs(body)) \subseteq DOMAIN body
<1> DEFINE s == [k \in DOMAIN body |-> k]
           T == Seq(DOMAIN body)
           P == [k \in 0 .. Len(s) |-> T]
<1>1. s \in Seq(DOMAIN body) /\ Len(s) \in Nat /\ DOMAIN s = 1 .. Len(s)
  BY DEF Function
<1>2. P[0] = T /\ P[Len(s)] = T /\ \A k \in 1 .. Len(s) : P[k - 1] = T /\ P[k] = T
  BY <1>1
<1>3. <<>> \in T /\ \A k \in 1 .. Len(s) : s[k] \in DOMAIN body
  BY <1>1
<1>4. Outputs(body) = OutputAll(body, <<>>, s)
  BY Zenon DEF Outputs, OutputAll, Output, FoldLeftDomain
<1> HIDE DEF P, s
<1>5. ASSUME NEW k \in 1 .. Len(s), NEW q \in T PROVE Output(body, q, s[k]) \in T
  <2>1. Append(q, s[k]) \in T
    BY <1>3
  <2>2. QED
    BY <2>1, Zenon DEF Output
<1> HIDE DEF T
<1>6. OutputAll(body, <<>>, s) \in T
  BY <1>1, <1>2, <1>3, <1>5, OutputInduct
<1>7. QED
  BY <1>4, <1>6 DEF T, ToSet

LEMMA OperandsOf ==
  ASSUME NEW body \in Function, NEW k \in DOMAIN body
  PROVE  /\ body[k].operands \in Seq(Operand)
         /\ DOMAIN body = 1 .. Len(body) /\ Len(body) \in Nat
         /\ \A v \in ToSet(body[k].operands) : v \in Operand /\ (v[1] = "insn" => v[2] \in DOMAIN body)
<1> DEFINE R == [operands : Seq(Operand), latency : Nat, output : BOOLEAN]
<1>1. body \in Seq(R)
  BY DEF Function
<1>2. body[k].operands \in Seq(Operand)
  <2>1. \A i \in R : i.operands \in Seq(Operand)
    OBVIOUS
  <2> HIDE DEF R
  <2>2. body[k] \in R
    BY <1>1
  <2>3. QED
    BY <2>1, <2>2
<1>3. \A v \in ToSet(body[k].operands) : v[1] = "insn" => v[2] \in DOMAIN body
  BY DEF Function
<1>4. body[k].operands \in Seq(Operand)
  BY <1>2
<1>5. \A v \in ToSet(body[k].operands) : v \in Operand
  BY <1>4 DEF ToSet
<1>6. QED
  BY <1>1, <1>3, <1>4, <1>5

LEMMA InputIs ==
  ASSUME NEW r \in Seq(Operand), NEW v \in Operand
  PROVE  Input(r, v) \in Seq(Operand)
<1>1. Append(r, v) \in Seq(Operand)
  OBVIOUS
<1>2. QED
  BY <1>1, Zenon DEF Input

LEMMA InputsOfInsn ==
  ASSUME NEW r \in Seq(Operand), NEW s \in Seq(Operand)
  PROVE  InputAll(r, s) \in Seq(Operand)
<1> DEFINE T == Seq(Operand)
           P == [k \in 0 .. Len(s) |-> T]
<1>1. Len(s) \in Nat /\ DOMAIN s = 1 .. Len(s) /\ \A k \in 1 .. Len(s) : s[k] \in Operand
  OBVIOUS
<1>2. P[0] = T /\ P[Len(s)] = T /\ \A k \in 1 .. Len(s) : P[k - 1] = T /\ P[k] = T
  BY <1>1
<1>3. r \in T
  OBVIOUS
<1>4. \A k \in 1 .. Len(s), q \in T : Input(q, s[k]) \in T
  BY <1>1, InputIs
<1> HIDE DEF T, P
<1>5. QED
  BY <1>1, <1>2, <1>3, <1>4, InputInduct DEF T

LEMMA InputsAre ==
  ASSUME NEW body \in Function
  PROVE  Inputs(body) \in Seq(Operand) /\ Len(Inputs(body)) \in Nat
<1> DEFINE T == Seq(Operand)
           P == [k \in 0 .. Len(body) |-> T]
<1>1. Len(body) \in Nat /\ DOMAIN body = 1 .. Len(body)
  BY DEF Function
<1>2. P[0] = T /\ P[Len(body)] = T /\ \A k \in 1 .. Len(body) : P[k - 1] = T /\ P[k] = T
  BY <1>1
<1>3. <<>> \in T
  OBVIOUS
<1>4. \A k \in 1 .. Len(body), q \in T : InputAll(q, body[k].operands) \in T
  BY <1>1, OperandsOf, InputsOfInsn
<1>5. Inputs(body) = InputsAll(<<>>, body)
  BY Zenon DEF Inputs, InputsAll, InputAll
<1> HIDE DEF T, P
<1>6. InputsAll(<<>>, body) \in T
  BY <1>1, <1>2, <1>3, <1>4, InputsInduct
<1>7. QED
  BY <1>5, <1>6 DEF T

(* Inputs come first, then the instructions, each with a number of its own. *)
LEMMA Numbers ==
  ASSUME NEW body \in Function
  PROVE  /\ Len(Inputs(body)) \in Nat /\ DOMAIN body \in SUBSET Nat
         /\ \A k \in DOMAIN body : /\ dynID(body, <<"insn", k>>) = InsnId(body, k)
                                   /\ InsnId(body, k) \in Int /\ InsnId(body, k) >= Len(Inputs(body))
                                   /\ \A j \in DOMAIN body : InsnId(body, j) = InsnId(body, k) => j = k
         /\ \A k \in DOMAIN body : \A v \in ToSet(body[k].operands) :
              /\ dynID(body, v) \in DynDeps(body, k)
              /\ v[1] = "arg" => dynID(body, v) \in Int /\ dynID(body, v) < Len(Inputs(body))
              /\ v[1] # "arg" => v[2] \in DOMAIN body /\ dynID(body, v) = InsnId(body, v[2])
         /\ \A k \in DOMAIN body : DynDeps(body, k) \in SUBSET Int
<1> DEFINE N == Len(Inputs(body))
<1>1. N \in Nat
  BY InputsAre
<1>2. DOMAIN body = 1 .. Len(body) /\ Len(body) \in Nat
  BY DEF Function
<1>3. \A v : v[1] # "arg" => dynID(body, v) = N + v[2] - 1
  BY DEF dynID
<1>4. \A k : <<"insn", k>>[1] # "arg" /\ <<"insn", k>>[2] = k
  OBVIOUS
<1>5. \A k \in DOMAIN body : dynID(body, <<"insn", k>>) = InsnId(body, k)
  BY <1>3, <1>4 DEF InsnId
<1>6. \A k \in DOMAIN body : InsnId(body, k) \in Int /\ InsnId(body, k) >= N
  BY <1>1, <1>2 DEF InsnId
<1>7. \A k, j \in DOMAIN body : InsnId(body, j) = InsnId(body, k) => j = k
  BY <1>1, <1>2 DEF InsnId
<1>8. ASSUME NEW v, v[1] = "arg" PROVE dynID(body, v) \in Int /\ dynID(body, v) < N
  <2> DEFINE I == {i \in 1 .. N : Inputs(body)[i] = v}
             x == IF I # {} THEN Min(I) ELSE 0
  <2>1. dynID(body, v) = x - 1
    BY <1>8, Zenon DEF dynID, SelectInSeq
  <2>2. I \in SUBSET Nat /\ \A i \in I : i <= N
    BY <1>1
  <2> HIDE DEF I
  <2>3. x \in 0 .. N
    <3>1. CASE I = {}
      BY <1>1, <3>1
    <3>2. CASE I # {}
      <4>1. Min(I) \in I
        BY <2>2, <3>2, Least
      <4>2. x = Min(I)
        BY <3>2, Zenon
      <4>3. Min(I) \in Nat /\ Min(I) <= N
        BY <2>2, <4>1
      <4>4. QED
        BY <1>1, <4>2, <4>3
    <3>3. QED
      BY <3>1, <3>2
  <2> HIDE DEF x
  <2>4. QED
    BY <1>1, <2>1, <2>3
<1>9. ASSUME NEW k \in DOMAIN body, NEW v \in ToSet(body[k].operands)
      PROVE  /\ dynID(body, v) \in DynDeps(body, k)
             /\ v[1] # "arg" => v[2] \in DOMAIN body /\ dynID(body, v) = InsnId(body, v[2])
  <2>1. v \in Operand /\ (v[1] = "insn" => v[2] \in DOMAIN body)
    BY OperandsOf
  <2>2. v[1] # "arg" => v[1] = "insn"
    BY <2>1 DEF Operand
  <2>3. PICK j \in DOMAIN body[k].operands : v = body[k].operands[j]
    BY DEF ToSet
  <2>4. dynID(body, v) \in DynDeps(body, k)
    BY <2>3, Zenon DEF DynDeps
  <2>5. QED
    BY <1>3, <2>1, <2>2, <2>4 DEF InsnId
<1>10. ASSUME NEW k \in DOMAIN body, NEW x \in DynDeps(body, k) PROVE x \in Int
  <2>1. PICK j \in DOMAIN body[k].operands : x = dynID(body, body[k].operands[j])
    BY DEF DynDeps
  <2> DEFINE v == body[k].operands[j]
  <2>2. v \in ToSet(body[k].operands)
    BY DEF ToSet
  <2> HIDE DEF v
  <2>3. x = dynID(body, v)
    BY <2>1 DEF v
  <2>4. QED
    BY <1>6, <1>8, <1>9, <2>2, <2>3
<1>11. DOMAIN body \in SUBSET Nat
  BY <1>2
<1> HIDE DEF N
<1>12. QED
  BY <1>1, <1>5, <1>6, <1>7, <1>8, <1>9, <1>10, <1>11 DEF N


-----------------------------------------------------------------------------
(* What the operations of a unit do to its tokens.                         *)

LEMMA NotifyDoes ==
  ASSUME NEW body, NEW u \in UnitState(body), NEW ids
  PROVE  /\ \A k \in DOMAIN body : \A x \in DynDeps(body, k) :
              notify(u, ids).internalFIFO[k][x] = IF x \in ids THEN u.internalFIFO[k][x] + 1 ELSE u.internalFIFO[k][x]
         /\ \A x \in Results(body) :
              notify(u, ids).outputFIFO[x] = IF x \in ids THEN u.outputFIFO[x] + 1 ELSE u.outputFIFO[x]
         /\ notify(u, ids).inflight = u.inflight
<1> DEFINE more(k) == [d \in DOMAIN u.internalFIFO[k] |->
                         IF d \in ids THEN u.internalFIFO[k][d] + 1 ELSE u.internalFIFO[k][d]]
           f == [k \in DOMAIN u.internalFIFO |-> more(k)]
           out == [d \in DOMAIN u.outputFIFO |->
                     IF d \in ids THEN u.outputFIFO[d] + 1 ELSE u.outputFIFO[d]]
<1>1. notify(u, ids) = [u EXCEPT !.internalFIFO = f, !.outputFIFO = out]
  BY DEF notify
<1>2. /\ DOMAIN u.outputFIFO = Results(body) /\ DOMAIN u.internalFIFO = DOMAIN body
      /\ \A k \in DOMAIN body : DOMAIN u.internalFIFO[k] = DynDeps(body, k)
  BY UnitIs
<1>3. \A k \in DOMAIN body : \A x \in DynDeps(body, k) :
        f[k][x] = IF x \in ids THEN u.internalFIFO[k][x] + 1 ELSE u.internalFIFO[k][x]
  BY <1>2
<1>4. \A x \in Results(body) : out[x] = IF x \in ids THEN u.outputFIFO[x] + 1 ELSE u.outputFIFO[x]
  BY <1>2
<1> HIDE DEF f, out
<1>5. notify(u, ids).internalFIFO = f /\ notify(u, ids).outputFIFO = out /\ notify(u, ids).inflight = u.inflight
  BY <1>1 DEF UnitState
<1>6. QED
  BY <1>3, <1>4, <1>5

LEMMA GetDoes ==
  ASSUME NEW body, NEW u \in UnitState(body), NEW offset
  PROVE  /\ getData(body, u, offset).internalFIFO = u.internalFIFO
         /\ getData(body, u, offset).inflight = u.inflight
         /\ \A x \in Results(body) : getData(body, u, offset).outputFIFO[x] =
              IF x = offsetDynID(body, offset) THEN u.outputFIFO[x] - 1 ELSE u.outputFIFO[x]
<1> DEFINE d == offsetDynID(body, offset)
           out == [u.outputFIFO EXCEPT ![d] = u.outputFIFO[d] - 1]
<1>1. getData(body, u, offset) = [u EXCEPT !.outputFIFO = out]
  BY DEF getData
<1> HIDE DEF d
<1>2. DOMAIN u.outputFIFO = Results(body)
  BY UnitIs
<1>3. \A x \in Results(body) : out[x] = IF x = d THEN u.outputFIFO[x] - 1 ELSE u.outputFIFO[x]
  BY <1>2
<1> HIDE DEF out
<1>4. /\ getData(body, u, offset).internalFIFO = u.internalFIFO
      /\ getData(body, u, offset).inflight = u.inflight /\ getData(body, u, offset).outputFIFO = out
  BY <1>1 DEF UnitState
<1>5. QED
  BY <1>3, <1>4 DEF d

(* Instructions that finish notify the others, those that are ready start.  *)
Finished(body, u) == {k \in u.inflight : finish(body, u, k)}
Notified(body, u) == notify(u, {dynID(body, <<"insn", k>>) : k \in Finished(body, u)})
Starts(body, u) == {k \in DOMAIN body \ (u.inflight \ Finished(body, u)) : checkDataReady(Notified(body, u), k)}

LEMMA ProcessDoes ==
  ASSUME NEW body, NEW u \in UnitState(body)
  PROVE  /\ Notified(body, u) \in UnitState(body)
         /\ \A k \in Starts(body, u) : \A x \in DynDeps(body, k) : Notified(body, u).internalFIFO[k][x] > 0
         /\ processQueue(body, u).inflight = (u.inflight \ Finished(body, u)) \cup Starts(body, u)
         /\ processQueue(body, u).outputFIFO = Notified(body, u).outputFIFO
         /\ \A k \in DOMAIN body : \A x \in DynDeps(body, k) :
              processQueue(body, u).internalFIFO[k][x] =
                IF k \in Starts(body, u) THEN Notified(body, u).internalFIFO[k][x] - 1
                                         ELSE Notified(body, u).internalFIFO[k][x]
<1> DEFINE done == Finished(body, u)
           v == Notified(body, u)
           cycles == [k \in DOMAIN body |-> IF k \in u.inflight \ done THEN v.currentCycle[k] + 1
                                                                      ELSE v.currentCycle[k]]
           w == [v EXCEPT !.inflight = v.inflight \ done, !.currentCycle = cycles]
           starts == {k \in DOMAIN body \ w.inflight : checkDataReady(w, k)}
           less(k) == [d \in DOMAIN w.internalFIFO[k] |-> Max({w.internalFIFO[k][d] - 1, 0})]
           f == [k \in DOMAIN body |-> IF k \in starts THEN less(k) ELSE w.internalFIFO[k]]
<1>1. v \in UnitState(body) /\ v.inflight = u.inflight
  BY NotifyIs, NotifyDoes DEF Notified
<1>2. commitInsns(body, u) = w
  BY DEF commitInsns, Notified, Finished
<1>3. done \in SUBSET u.inflight
  BY DEF Finished
<1> HIDE DEF v, done
<1>4. /\ w.inflight = u.inflight \ done /\ w.internalFIFO = v.internalFIFO /\ w.outputFIFO = v.outputFIFO
      /\ w \in UnitState(body)
  <2>1. v.currentCycle \in [DOMAIN body -> Int] /\ v.inflight \in SUBSET (DOMAIN body)
    BY <1>1, UnitIs
  <2>2. cycles \in [DOMAIN body -> Int] /\ v.inflight \ done \in SUBSET (DOMAIN body)
    BY <2>1
  <2> HIDE DEF cycles
  <2>3. QED
    BY <1>1, <2>2 DEF UnitState
<1> HIDE DEF w
<1>5. processQueue(body, u) = [w EXCEPT !.inflight = w.inflight \cup starts, !.internalFIFO = f]
  BY <1>2 DEF processQueue
<1>6. starts \in SUBSET (DOMAIN body \ (u.inflight \ done))
  BY <1>4
<1>7. /\ DOMAIN v.internalFIFO = DOMAIN body
      /\ \A k \in DOMAIN body : v.internalFIFO[k] \in [DynDeps(body, k) -> Int]
  BY <1>1, UnitIs
<1>8. ASSUME NEW k \in starts, NEW x \in DynDeps(body, k) PROVE v.internalFIFO[k][x] > 0
  <2>1. k \in DOMAIN body /\ checkDataReady(w, k)
    BY <1>6
  <2> HIDE DEF starts
  <2>2. DOMAIN w.internalFIFO[k] = DynDeps(body, k)
    BY <1>4, <1>7, <2>1
  <2>3. QED
    BY <1>4, <2>1, <2>2 DEF checkDataReady
<1>9. ASSUME NEW k \in DOMAIN body, NEW x \in DynDeps(body, k)
      PROVE  f[k][x] = IF k \in starts THEN v.internalFIFO[k][x] - 1 ELSE v.internalFIFO[k][x]
  <2>1. CASE k \in starts
    <3> DEFINE a == v.internalFIFO[k][x]
    <3>1. a \in Int /\ a > 0
      BY <1>7, <1>8, <2>1
    <3>2. f[k] = less(k)
      BY <2>1, Zenon
    <3>3. less(k)[x] = Max({a - 1, 0})
      BY <1>4, <1>7
    <3> HIDE DEF a, f, less
    <3> DEFINE b == a - 1
    <3>4. b \in Int /\ b >= 0 /\ 0 \in Int
      BY <3>1
    <3> HIDE DEF b
    <3>5. Max({b, 0}) \in {b, 0} /\ Max({b, 0}) >= b
      BY <3>4, Larger
    <3>6. Max({b, 0}) = b
      BY <3>4, <3>5
    <3>7. QED
      BY <2>1, <3>2, <3>3, <3>6 DEF a, b
  <2>2. CASE k \notin starts
    <3>1. f[k] = w.internalFIFO[k]
      BY <2>2, Zenon
    <3>2. QED
      BY <1>4, <2>2, <3>1
  <2>3. QED
    BY <2>1, <2>2
<1> HIDE DEF f
<1>10. /\ processQueue(body, u).inflight = (u.inflight \ done) \cup starts
       /\ processQueue(body, u).internalFIFO = f /\ processQueue(body, u).outputFIFO = v.outputFIFO
  BY <1>4, <1>5 DEF UnitState
<1>11. starts = Starts(body, u)
  BY <1>4, <1>6 DEF Starts, v, done, checkDataReady
<1>12. QED
  BY <1>1, <1>8, <1>9, <1>10, <1>11 DEF v, done


(* Tokens of arguments that are counted.                                   *)
Grown(came, more, ids) == \A x \in Int : more[x] >= came[x] /\ (x \in ids => more[x] >= came[x] + 1)
SameOutputs(body, u, v) == \A x \in Results(body) : v.outputFIFO[x] = u.outputFIFO[x]
LEMMA HandTokens ==
  ASSUME NEW body \in Function, NEW u \in UnitState(body), NEW c \in [DOMAIN body -> Nat],
         NEW came \in [Int -> Nat], NEW went \in [DOMAIN body -> Nat], Tokens(body, u, c, came, went),
         NEW ids \in SUBSET (0 .. Len(Inputs(body)) - 1), NEW more \in [Int -> Nat],
         Grown(came, more, ids)
  PROVE  /\ Tokens(body, notify(u, ids), c, more, went)
         /\ SameOutputs(body, u, notify(u, ids))
<1> DEFINE w == notify(u, ids)
           N == Len(Inputs(body))
<1>1. /\ \A k \in DOMAIN body : \A x \in DynDeps(body, k) :
           w.internalFIFO[k][x] = IF x \in ids THEN u.internalFIFO[k][x] + 1 ELSE u.internalFIFO[k][x]
      /\ \A x \in Results(body) : w.outputFIFO[x] = IF x \in ids THEN u.outputFIFO[x] + 1 ELSE u.outputFIFO[x]
      /\ w.inflight = u.inflight
  BY NotifyDoes
<1> HIDE DEF w
<1>2. /\ N \in Nat
      /\ \A k \in DOMAIN body : /\ dynID(body, <<"insn", k>>) = InsnId(body, k)
                                /\ InsnId(body, k) \in Int /\ InsnId(body, k) >= N
      /\ \A k \in DOMAIN body : DynDeps(body, k) \in SUBSET Int
  BY Numbers
<1>3. \A x \in ids : x \in Int /\ x < N
  BY <1>2
<1> HIDE DEF N
<1>4. \A k \in DOMAIN body : u.internalFIFO[k] \in [DynDeps(body, k) -> Int]
  BY UnitIs
<1>5. ASSUME NEW k \in DOMAIN body, InsnId(body, k) \in ids PROVE FALSE
  <2>1. InsnId(body, k) < N /\ InsnId(body, k) \in Int /\ InsnId(body, k) >= N
    BY <1>2, <1>3, <1>5
  <2>2. QED
    BY <1>2, <2>1
<1>6. ASSUME NEW x \in Results(body) PROVE w.outputFIFO[x] = u.outputFIFO[x]
  <2>1. PICK k \in ToSet(Outputs(body)) : x = dynID(body, <<"insn", k>>)
    BY DEF Results
  <2>2. k \in DOMAIN body
    BY OutputsAre
  <2>3. QED
    BY <1>1, <1>2, <1>5, <2>1, <2>2
<1>7. \A k : Done(w, c, k) = Done(u, c, k)
  BY <1>1 DEF Done
<1>8. ASSUME NEW k \in DOMAIN body, NEW x \in DynDeps(body, k)
      PROVE  /\ w.internalFIFO[k][x] >= 0
             /\ x < N => w.internalFIFO[k][x] + c[k] <= more[x]
             /\ \A j \in DOMAIN body : x = InsnId(body, j) => w.internalFIFO[k][x] + c[k] <= Done(w, c, j)
  <2> DEFINE a == u.internalFIFO[k][x]
             b == w.internalFIFO[k][x]
  <2>1. /\ a >= 0 /\ (x < N => a + c[k] <= came[x])
        /\ \A j \in DOMAIN body : x = InsnId(body, j) => a + c[k] <= Done(u, c, j)
    BY Zenon DEF Tokens, N
  <2>2. a \in Int /\ c[k] \in Nat /\ x \in Int /\ b = IF x \in ids THEN a + 1 ELSE a
    BY <1>1, <1>2, <1>4
  <2> HIDE DEF a, b
  <2>3. /\ came[x] \in Nat /\ more[x] \in Nat
        /\ more[x] >= came[x] /\ (x \in ids => more[x] >= came[x] + 1)
    BY <2>2 DEF Grown
  <2>4. b >= 0 /\ (x < N => b + c[k] <= more[x])
    <3> DEFINE started == c[k]
               before == came[x]
               after == more[x]
    <3>1. /\ started \in Nat /\ before \in Nat /\ after \in Nat
          /\ after >= before /\ (x \in ids => after >= before + 1)
          /\ a \in Int /\ a >= 0 /\ (x < N => a + started <= before)
      BY <2>1, <2>2, <2>3
    <3> HIDE DEF started, before, after
    <3>2. CASE x \in ids
      <4>1. b = a + 1
        BY <2>2, <3>2
      <4>2. QED
        BY <3>1, <3>2, <4>1, SMTT(30) DEF started, after
    <3>3. CASE x \notin ids
      <4>1. b = a
        BY <2>2, <3>3
      <4>2. a + started <= before => a + started <= after
        BY <3>1
      <4>3. QED
        BY <3>1, <4>1, <4>2, Zenon DEF started, after
    <3>4. QED
      BY <3>2, <3>3
  <2>5. \A j \in DOMAIN body : x = InsnId(body, j) => b + c[k] <= Done(w, c, j)
    BY <1>5, <1>7, <2>1, <2>2
  <2>6. QED
    BY <2>4, <2>5 DEF b
<1>9. ASSUME NEW k \in DOMAIN body, InsnId(body, k) \in Results(body)
      PROVE  /\ w.outputFIFO[InsnId(body, k)] >= 0
             /\ w.outputFIFO[InsnId(body, k)] + went[k] <= Done(w, c, k)
  <2>1. /\ u.outputFIFO[InsnId(body, k)] >= 0
        /\ u.outputFIFO[InsnId(body, k)] + went[k] <= Done(u, c, k)
    BY <1>9, Zenon DEF Tokens
  <2>2. QED
    BY <1>6, <1>7, <1>9, <2>1
<1>10. Tokens(body, w, c, more, went)
  BY <1>8, <1>9, Zenon DEF Tokens, N
<1>11. QED
  BY <1>6, <1>10, Zenon DEF w, SameOutputs

(* A token that is taken is counted for the result it belongs to.          *)
LEMMA TakeTokens ==
  ASSUME NEW body \in Function, NEW u \in UnitState(body), NEW c \in [DOMAIN body -> Nat],
         NEW came, NEW went \in [DOMAIN body -> Nat], Tokens(body, u, c, came, went),
         NEW offset, offset + 1 \in DOMAIN Outputs(body), canGetData(body, u, offset),
         NEW more \in [DOMAIN body -> Nat],
         \A k \in DOMAIN body :
           more[k] <= went[k] + 1 /\ (k # Outputs(body)[offset + 1] => more[k] <= went[k])
  PROVE  Tokens(body, getData(body, u, offset), c, came, more)
<1> DEFINE w == getData(body, u, offset)
           o == Outputs(body)[offset + 1]
<1>1. /\ w.internalFIFO = u.internalFIFO /\ w.inflight = u.inflight
      /\ \A x \in Results(body) : w.outputFIFO[x] =
           IF x = offsetDynID(body, offset) THEN u.outputFIFO[x] - 1 ELSE u.outputFIFO[x]
  BY GetDoes
<1>2. o \in DOMAIN body
  BY OutputsAre DEF ToSet
<1>3. offsetDynID(body, offset) = InsnId(body, o)
  BY <1>2, Numbers DEF offsetDynID
<1>4. u.outputFIFO[InsnId(body, o)] > 0
  BY <1>3 DEF canGetData
<1> HIDE DEF w, o
<1>5. \A k : Done(w, c, k) = Done(u, c, k)
  BY <1>1 DEF Done
<1>6. \A k, j \in DOMAIN body : InsnId(body, j) = InsnId(body, k) => j = k
  BY Numbers
<1>7. u.outputFIFO \in [Results(body) -> Int] /\ u.inflight \in SUBSET (DOMAIN body)
  BY UnitIs
<1>8. ASSUME NEW k \in DOMAIN body, InsnId(body, k) \in Results(body)
      PROVE  /\ w.outputFIFO[InsnId(body, k)] >= 0
             /\ w.outputFIFO[InsnId(body, k)] + more[k] <= Done(w, c, k)
  <2> DEFINE x == InsnId(body, k)
             a == u.outputFIFO[x]
             b == w.outputFIFO[x]
  <2>1. a \in Int /\ went[k] \in Nat /\ more[k] \in Nat
    BY <1>7, <1>8
  <2>2. a >= 0 /\ a + went[k] <= Done(u, c, k)
    BY <1>8, Zenon DEF Tokens
  <2>3. Done(u, c, k) \in Int
    BY DEF Done
  <2>4. CASE k = o
    <3>1. b = a - 1 /\ a > 0
      BY <1>1, <1>3, <1>4, <1>8, <2>4
    <3>2. more[k] <= went[k] + 1
      OBVIOUS
    <3> HIDE DEF a, b
    <3>3. b >= 0 /\ b + more[k] <= Done(w, c, k)
      BY <1>5, <2>1, <2>2, <2>3, <3>1, <3>2
    <3>4. QED
      BY <3>3 DEF b
  <2>5. CASE k # o
    <3>1. b = a
      BY <1>1, <1>2, <1>3, <1>6, <1>8, <2>5
    <3>2. more[k] <= went[k]
      BY <2>5 DEF o
    <3> HIDE DEF a, b
    <3>3. b >= 0 /\ b + more[k] <= Done(w, c, k)
      BY <1>5, <2>1, <2>2, <2>3, <3>1, <3>2
    <3>4. QED
      BY <3>3 DEF b
  <2>6. QED
    BY <2>4, <2>5
<1>9. Tokens(body, w, c, came, more)
  BY <1>1, <1>5, <1>8, Zenon DEF Tokens
<1>10. QED
  BY <1>9 DEF w

(* Instructions start on tokens only and notify once they have computed.   *)
LEMMA TickTokens ==
  ASSUME NEW body \in Function, NEW u \in UnitState(body), NEW c \in [DOMAIN body -> Nat],
         NEW came \in [Int -> Nat], NEW went \in [DOMAIN body -> Nat], Tokens(body, u, c, came, went)
  PROVE  \E more \in [DOMAIN body -> Nat] : Tokens(body, processQueue(body, u), more, came, went)
<1> DEFINE done == Finished(body, u)
           starts == Starts(body, u)
           v == Notified(body, u)
           w == processQueue(body, u)
           more == [k \in DOMAIN body |-> IF k \in starts THEN c[k] + 1 ELSE c[k]]
           ids == {dynID(body, <<"insn", k>>) : k \in done}
           N == Len(Inputs(body))
<1>1. /\ v \in UnitState(body)
      /\ \A k \in starts : \A x \in DynDeps(body, k) : v.internalFIFO[k][x] > 0
      /\ w.inflight = (u.inflight \ done) \cup starts /\ w.outputFIFO = v.outputFIFO
      /\ \A k \in DOMAIN body : \A x \in DynDeps(body, k) : w.internalFIFO[k][x] =
           IF k \in starts THEN v.internalFIFO[k][x] - 1 ELSE v.internalFIFO[k][x]
  BY ProcessDoes
<1>2. /\ \A k \in DOMAIN body : \A x \in DynDeps(body, k) :
           v.internalFIFO[k][x] = IF x \in ids THEN u.internalFIFO[k][x] + 1 ELSE u.internalFIFO[k][x]
      /\ \A x \in Results(body) : v.outputFIFO[x] = IF x \in ids THEN u.outputFIFO[x] + 1 ELSE u.outputFIFO[x]
  <2>1. v = notify(u, ids)
    BY DEF Notified
  <2> HIDE DEF v, ids
  <2>2. QED
    BY <2>1, NotifyDoes
<1>3. /\ starts \in SUBSET (DOMAIN body \ (u.inflight \ done)) /\ done \in SUBSET u.inflight
  BY DEF Starts, Finished
<1>4. /\ N \in Nat
      /\ \A k \in DOMAIN body : /\ dynID(body, <<"insn", k>>) = InsnId(body, k)
                                /\ InsnId(body, k) \in Int /\ InsnId(body, k) >= N
                                /\ \A j \in DOMAIN body : InsnId(body, j) = InsnId(body, k) => j = k
      /\ \A k \in DOMAIN body : DynDeps(body, k) \in SUBSET Int
  BY Numbers
<1>5. /\ \A k \in DOMAIN body : u.internalFIFO[k] \in [DynDeps(body, k) -> Int]
      /\ u.outputFIFO \in [Results(body) -> Int] /\ u.inflight \in SUBSET (DOMAIN body)
  BY UnitIs
<1>6. ASSUME NEW k \in DOMAIN body PROVE InsnId(body, k) \in ids <=> k \in done
  <2>1. \A j \in done : j \in DOMAIN body
    BY <1>3, <1>5
  <2> HIDE DEF done
  <2>2. ASSUME InsnId(body, k) \in ids PROVE k \in done
    <3>1. PICK j \in done : InsnId(body, k) = dynID(body, <<"insn", j>>)
      BY <2>2, Zenon
    <3>2. j \in DOMAIN body /\ InsnId(body, j) = InsnId(body, k)
      BY <1>4, <2>1, <3>1
    <3>3. QED
      BY <1>4, <3>2
  <2>3. ASSUME k \in done PROVE InsnId(body, k) \in ids
    <3>1. dynID(body, <<"insn", k>>) \in ids
      BY <2>3, Zenon
    <3>2. QED
      BY <1>4, <3>1
  <2>4. QED
    BY <2>2, <2>3
<1>7. \A x \in ids : x >= N
  BY <1>3, <1>4, <1>5, ZenonT(40)
<1>8. more \in [DOMAIN body -> Nat] /\ \A k \in DOMAIN body : more[k] = IF k \in starts THEN c[k] + 1 ELSE c[k]
  OBVIOUS
<1> HIDE DEF done, starts, v, w, more, ids, N
<1>9. ASSUME NEW k \in DOMAIN body
      PROVE  /\ Done(w, more, k) = IF k \in done THEN Done(u, c, k) + 1 ELSE Done(u, c, k)
             /\ Done(u, c, k) \in Int
  <2>1. c[k] \in Nat
    OBVIOUS
  <2>2. QED
    BY <1>1, <1>3, <1>8, <2>1 DEF Done
<1>10. ASSUME NEW k \in DOMAIN body, NEW x \in DynDeps(body, k)
       PROVE  /\ w.internalFIFO[k][x] >= 0
              /\ x < N => w.internalFIFO[k][x] + more[k] <= came[x]
              /\ \A j \in DOMAIN body : x = InsnId(body, j) => w.internalFIFO[k][x] + more[k] <= Done(w, more, j)
  <2> DEFINE a == u.internalFIFO[k][x]
             b == v.internalFIFO[k][x]
             z == w.internalFIFO[k][x]
  <2>1. /\ a >= 0 /\ (x < N => a + c[k] <= came[x])
        /\ \A j \in DOMAIN body : x = InsnId(body, j) => a + c[k] <= Done(u, c, j)
    BY Zenon DEF Tokens, N
  <2>2. /\ a \in Int /\ c[k] \in Nat /\ x \in Int /\ b = (IF x \in ids THEN a + 1 ELSE a)
        /\ z = (IF k \in starts THEN b - 1 ELSE b) /\ (k \in starts => b > 0)
    BY <1>1, <1>2, <1>4, <1>5
  <2> HIDE DEF a, b, z
  <2>3. came[x] \in Nat /\ z + more[k] = b + c[k] /\ z >= 0
    BY <1>8, <2>1, <2>2
  <2>4. x < N => z + more[k] <= came[x]
    BY <1>4, <1>7, <2>1, <2>2, <2>3
  <2>5. ASSUME NEW j \in DOMAIN body, x = InsnId(body, j) PROVE z + more[k] <= Done(w, more, j)
    <3>1. x \in ids <=> j \in done
      BY <1>6, <2>5
    <3>2. a + c[k] <= Done(u, c, j)
      BY <2>1, <2>5
    <3>3. QED
      BY <1>9, <2>2, <2>3, <3>1, <3>2
  <2>6. QED
    BY <2>3, <2>4, <2>5 DEF z
<1>11. ASSUME NEW k \in DOMAIN body, InsnId(body, k) \in Results(body)
       PROVE  /\ w.outputFIFO[InsnId(body, k)] >= 0
              /\ w.outputFIFO[InsnId(body, k)] + went[k] <= Done(w, more, k)
  <2> DEFINE x == InsnId(body, k)
             a == u.outputFIFO[x]
             b == w.outputFIFO[x]
  <2>1. a >= 0 /\ a + went[k] <= Done(u, c, k)
    BY <1>11, Zenon DEF Tokens
  <2>2. a \in Int /\ went[k] \in Nat /\ b = (IF k \in done THEN a + 1 ELSE a)
    BY <1>1, <1>2, <1>5, <1>6, <1>11
  <2> HIDE DEF a, b, x
  <2>3. b >= 0 /\ b + went[k] <= Done(w, more, k)
    BY <1>9, <2>1, <2>2
  <2>4. QED
    BY <2>3 DEF b, x
<1>12. Tokens(body, w, more, came, went)
  BY <1>10, <1>11, Zenon DEF Tokens, N
<1>13. QED
  BY <1>8, <1>12 DEF w


-----------------------------------------------------------------------------
(* The calls of the program, and what is counted of them.                  *)

LEMMA CallsAre ==
  ASSUME TypeOK
  PROVE  /\ \A n \in DOMAIN Functions : Functions[n] \in Function
         /\ \A d \in Insns : isPackingFunc(d) =>
              /\ prog[d].cycles >= 1 /\ prog[d].unit \in DOMAIN Functions
              /\ Offsets(prog[d]) \in SUBSET (0 .. Len(Inputs(Functions[prog[d].unit])) - 1)
         /\ \A d \in Insns : isExtractFunc(d) =>
              /\ prog[d].unit \in DOMAIN Functions
              /\ prog[d].offset + 1 \in DOMAIN Outputs(Functions[prog[d].unit])
              /\ ResultOf(prog[d]) \in DOMAIN Functions[prog[d].unit]
              /\ offsetDynID(Functions[prog[d].unit], prog[d].offset) \in Results(Functions[prog[d].unit])
<1>1. InvocationsInOrder(prog) /\ \A n \in DOMAIN Functions : Functions[n] \in Function
  BY DyserCoreAssumption, InvocationAssumption DEF TypeOK
<1>2. ASSUME NEW d \in Insns, isPackingFunc(d)
      PROVE  /\ prog[d].cycles >= 1 /\ prog[d].unit \in DOMAIN Functions
             /\ Offsets(prog[d]) \in SUBSET (0 .. Len(Inputs(Functions[prog[d].unit])) - 1)
  BY <1>1, <1>2, Zenon DEF InvocationsInOrder, isPackingFunc, Insns
<1>3. ASSUME NEW d \in Insns, isExtractFunc(d)
      PROVE  /\ prog[d].unit \in DOMAIN Functions
             /\ prog[d].offset + 1 \in DOMAIN Outputs(Functions[prog[d].unit])
  BY <1>1, <1>3, Zenon DEF InvocationsInOrder, isExtractFunc, Insns
<1>4. ASSUME NEW d \in Insns, isExtractFunc(d)
      PROVE  /\ ResultOf(prog[d]) \in DOMAIN Functions[prog[d].unit]
             /\ offsetDynID(Functions[prog[d].unit], prog[d].offset) \in Results(Functions[prog[d].unit])
  <2> DEFINE body == Functions[prog[d].unit]
  <2>1. body \in Function /\ prog[d].offset + 1 \in DOMAIN Outputs(body)
    BY <1>1, <1>3, <1>4
  <2> HIDE DEF body
  <2>2. Outputs(body)[prog[d].offset + 1] \in ToSet(Outputs(body))
    BY <2>1, Zenon DEF ToSet
  <2>3. Outputs(body)[prog[d].offset + 1] \in DOMAIN body
    BY <2>1, <2>2, OutputsAre
  <2>4. offsetDynID(body, prog[d].offset) \in Results(body)
    BY <2>2, Zenon DEF Results, offsetDynID
  <2>5. QED
    BY <2>3, <2>4 DEF body, ResultOf
<1>5. QED
  BY <1>1, <1>2, <1>3, <1>4

Came1(n, over, x) == {d \in over : prog[d].unit = n /\ x \in Offsets(prog[d])}
LEMMA CameIs ==
  ASSUME TypeOK, NEW n, NEW over \in SUBSET Insns
  PROVE  /\ Came(n, over) \in [Int -> Nat]
         /\ \A x \in Int : Came(n, over)[x] = Cardinality(Came1(n, over, x))
         /\ \A d \in Insns \ over, x \in Int :
              /\ Came(n, over \cup {d})[x] >= Came(n, over)[x]
              /\ (prog[d].unit = n /\ x \in Offsets(prog[d])) =>
                    Came(n, over \cup {d})[x] >= Came(n, over)[x] + 1
<1>1. IsFiniteSet(Insns)
  BY ProgIs, FS_Interval
<1>2. ASSUME NEW S \in SUBSET Insns, NEW x PROVE IsFiniteSet(Came1(n, S, x)) /\ Cardinality(Came1(n, S, x)) \in Nat
  <2>1. Came1(n, S, x) \in SUBSET Insns
    BY DEF Came1
  <2>2. QED
    BY <1>1, <2>1, FS_Subset, FS_CardinalityType
<1>3. \A S \in SUBSET Insns : Came(n, S) = [x \in Int |-> Cardinality(Came1(n, S, x))]
  BY Zenon DEF Came, Came1
<1>4. ASSUME NEW d \in Insns \ over, NEW x \in Int
      PROVE  /\ Cardinality(Came1(n, over \cup {d}, x)) >= Cardinality(Came1(n, over, x))
             /\ (prog[d].unit = n /\ x \in Offsets(prog[d])) =>
                  Cardinality(Came1(n, over \cup {d}, x)) >= Cardinality(Came1(n, over, x)) + 1
  <2> DEFINE A == Came1(n, over, x)
             B == Came1(n, over \cup {d}, x)
             c == Cardinality(A)
  <2>1. IsFiniteSet(A) /\ c \in Nat
    BY <1>2
  <2>2. CASE prog[d].unit = n /\ x \in Offsets(prog[d])
    <3>1. B = A \cup {d} /\ d \notin A
      BY <2>2 DEF Came1
    <3> HIDE DEF A, B
    <3>2. Cardinality(B) = c + 1
      BY <2>1, <3>1, FS_AddElement
    <3> HIDE DEF c
    <3>3. Cardinality(B) >= c /\ Cardinality(B) >= c + 1
      BY <2>1, <3>2
    <3>4. QED
      BY <3>3, Zenon DEF A, B, c
  <2>3. CASE ~(prog[d].unit = n /\ x \in Offsets(prog[d]))
    <3>1. B = A
      BY <2>3 DEF Came1
    <3> HIDE DEF A, B
    <3>2. Cardinality(B) = c /\ c >= c
      BY <2>1, <3>1
    <3> HIDE DEF c
    <3>3. QED
      BY <2>3, <3>2, Zenon DEF A, B, c
  <2>4. QED
    BY <2>2, <2>3, Zenon
<1>5. Came(n, over) \in [Int -> Nat] /\ \A x \in Int : Came(n, over)[x] = Cardinality(Came1(n, over, x))
  BY <1>2, <1>3
<1>6. \A d \in Insns \ over, x \in Int : Came(n, over \cup {d})[x] = Cardinality(Came1(n, over \cup {d}, x))
  BY <1>3
<1>7. QED
  BY <1>4, <1>5, <1>6

Went1(n, have, k) == {d \in have : isExtractFunc(d) /\ prog[d].unit = n /\ ResultOf(prog[d]) = k}
LEMMA WentIs ==
  ASSUME TypeOK, NEW n, NEW have \in SUBSET Insns
  PROVE  /\ Went(n, have) \in [DOMAIN Functions[n] -> Nat]
         /\ \A k \in DOMAIN Functions[n] : /\ Went(n, have)[k] = Cardinality(Went1(n, have, k))
                                           /\ IsFiniteSet(Went1(n, have, k))
         /\ \A d \in Insns : \A k \in DOMAIN Functions[n] :
              /\ Went(n, have \cup {d})[k] <= Went(n, have)[k] + 1
              /\ ~(isExtractFunc(d) /\ prog[d].unit = n /\ ResultOf(prog[d]) = k) =>
                    Went(n, have \cup {d})[k] <= Went(n, have)[k]
<1>1. IsFiniteSet(Insns)
  BY ProgIs, FS_Interval
<1>2. ASSUME NEW S \in SUBSET Insns, NEW k PROVE IsFiniteSet(Went1(n, S, k)) /\ Cardinality(Went1(n, S, k)) \in Nat
  <2>1. Went1(n, S, k) \in SUBSET Insns
    BY DEF Went1
  <2>2. QED
    BY <1>1, <2>1, FS_Subset, FS_CardinalityType
<1>3. \A S \in SUBSET Insns : Went(n, S) = [k \in DOMAIN Functions[n] |-> Cardinality(Went1(n, S, k))]
  BY Zenon DEF Went, Went1
<1>4. ASSUME NEW d \in Insns, NEW k
      PROVE  /\ Cardinality(Went1(n, have \cup {d}, k)) <= Cardinality(Went1(n, have, k)) + 1
             /\ ~(isExtractFunc(d) /\ prog[d].unit = n /\ ResultOf(prog[d]) = k) =>
                    Cardinality(Went1(n, have \cup {d}, k)) <= Cardinality(Went1(n, have, k))
  <2> DEFINE A == Went1(n, have, k)
             B == Went1(n, have \cup {d}, k)
             c == Cardinality(A)
  <2>1. IsFiniteSet(A) /\ c \in Nat
    BY <1>2
  <2>2. CASE d \notin have /\ isExtractFunc(d) /\ prog[d].unit = n /\ ResultOf(prog[d]) = k
    <3>1. B = A \cup {d} /\ d \notin A
      BY <2>2 DEF Went1
    <3> HIDE DEF A, B
    <3>2. Cardinality(B) = c + 1
      BY <2>1, <3>1, FS_AddElement
    <3> HIDE DEF c
    <3>3. Cardinality(B) <= c + 1
      BY <2>1, <3>2
    <3>4. QED
      BY <2>2, <3>3, Zenon DEF A, B, c
  <2>3. CASE ~(d \notin have /\ isExtractFunc(d) /\ prog[d].unit = n /\ ResultOf(prog[d]) = k)
    <3>1. B = A
      BY <2>3 DEF Went1
    <3> HIDE DEF A, B
    <3>2. Cardinality(B) <= c /\ Cardinality(B) <= c + 1
      BY <2>1, <3>1
    <3> HIDE DEF c
    <3>3. QED
      BY <3>2, Zenon DEF A, B, c
  <2>4. QED
    BY <2>2, <2>3, Zenon
<1>5. /\ Went(n, have) \in [DOMAIN Functions[n] -> Nat]
      /\ \A k \in DOMAIN Functions[n] : Went(n, have)[k] = Cardinality(Went1(n, have, k))
  BY <1>2, <1>3
<1>6. \A d \in Insns, k \in DOMAIN Functions[n] : Went(n, have \cup {d})[k] = Cardinality(Went1(n, have \cup {d}, k))
  BY <1>3
<1>7. QED
  BY <1>2, <1>4, <1>5, <1>6

-----------------------------------------------------------------------------
(* The tokens at execute.                                                  *)

LEMMA HandStep ==
  ASSUME TypeOK, NEW r \in Execs, NEW d \in Insns, Accounts(r.units, r.handedOver, r.answered),
         NEW q, q = HandOver(r, d)
  PROVE  /\ q.answered = r.answered
         /\ q.handedOver = r.handedOver \cup (IF isPackingFunc(d) THEN {d} ELSE {})
         /\ Accounts(q.units, q.handedOver, q.answered)
         /\ \A n \in DOMAIN Functions : \A x \in Results(Functions[n]) :
              q.units[n].outputFIFO[x] = r.units[n].outputFIFO[x]
<1> DEFINE n == prog[d].unit
           v == notify(r.units[n], Offsets(prog[d]))
           us == [r.units EXCEPT ![n] = v]
           over == r.handedOver \cup {d}
<1>1. CASE ~isPackingFunc(d) \/ d \in r.handedOver
  <2>1. q = r
    BY <1>1 DEF HandOver
  <2>2. r.handedOver = r.handedOver \cup (IF isPackingFunc(d) THEN {d} ELSE {})
    BY <1>1
  <2>3. QED
    BY <2>1, <2>2
<1>2. CASE ~(~isPackingFunc(d) \/ d \in r.handedOver)
  <2>1. q = [r EXCEPT !.units = us, !.handedOver = over]
    BY <1>2 DEF HandOver
  <2> HIDE DEF us, over
  <2>2. /\ q.units = us /\ q.handedOver = over /\ q.answered = r.answered
        /\ r.units \in UnitStates /\ r.handedOver \in SUBSET Insns /\ r.answered \in SUBSET Insns
    BY <2>1 DEF Execs
  <2>3. n \in DOMAIN Functions /\ Offsets(prog[d]) \in SUBSET (0 .. Len(Inputs(Functions[n])) - 1)
    BY <1>2, CallsAre
  <2>4. \A m \in DOMAIN Functions : r.units[m] \in UnitState(Functions[m]) /\ Functions[m] \in Function
    BY <2>2, CallsAre DEF UnitStates
  <2>5. \A m \in DOMAIN Functions : us[m] = IF m = n THEN v ELSE r.units[m]
    <3>1. DOMAIN r.units = DOMAIN Functions
      BY <2>2 DEF UnitStates
    <3> HIDE DEF n, v
    <3>2. QED
      BY <3>1 DEF us
  <2> HIDE DEF n
  <2>6. ASSUME NEW m \in DOMAIN Functions
        PROVE  /\ \E c \in [DOMAIN Functions[m] -> Nat] :
                    Tokens(Functions[m], us[m], c, Came(m, over), Went(m, r.answered))
               /\ \A x \in Results(Functions[m]) : us[m].outputFIFO[x] = r.units[m].outputFIFO[x]
    <3> DEFINE before == Came(m, r.handedOver)
               after == Came(m, over)
               went == Went(m, r.answered)
    <3>1. PICK c \in [DOMAIN Functions[m] -> Nat] : Tokens(Functions[m], r.units[m], c, before, went)
      BY Zenon DEF Accounts
    <3>2. before \in [Int -> Nat] /\ after \in [Int -> Nat] /\ over = r.handedOver \cup {d} /\ d \notin r.handedOver
      BY <1>2, <2>2, CameIs DEF over
    <3>3. went \in [DOMAIN Functions[m] -> Nat]
      BY <2>2, WentIs
    <3>4. \A x \in Int : after[x] >= before[x] /\ (m = n /\ x \in Offsets(prog[d]) => after[x] >= before[x] + 1)
      BY <2>2, <3>2, CameIs DEF n
    <3> HIDE DEF before, after, went
    <3>5. CASE m = n
      <4>1. us[m] = notify(r.units[m], Offsets(prog[d]))
        BY <2>5, <3>5
      <4>2. \A x \in Int : after[x] >= before[x] /\ (x \in Offsets(prog[d]) => after[x] >= before[x] + 1)
        BY <3>4, <3>5
      <4>3. Offsets(prog[d]) \in SUBSET (0 .. Len(Inputs(Functions[m])) - 1)
        BY <2>3, <3>5
      <4>4. /\ Tokens(Functions[m], us[m], c, after, went)
            /\ \A x \in Results(Functions[m]) : us[m].outputFIFO[x] = r.units[m].outputFIFO[x]
        <5> DEFINE body == Functions[m]
                   u == r.units[m]
                   ids == Offsets(prog[d])
        <5>1. /\ body \in Function /\ u \in UnitState(body) /\ c \in [DOMAIN body -> Nat]
              /\ went \in [DOMAIN body -> Nat] /\ Tokens(body, u, c, before, went)
              /\ ids \in SUBSET (0 .. Len(Inputs(body)) - 1)
              /\ Grown(before, after, ids)
          BY <2>4, <3>1, <3>3, <4>2, <4>3 DEF Grown
        <5>2. us[m] = notify(u, ids)
          BY <4>1
        <5> HIDE DEF body, u, ids
        <5>3. Tokens(body, notify(u, ids), c, after, went)
          BY <3>2, <5>1, HandTokens
        <5>4. SameOutputs(body, u, notify(u, ids))
          BY <3>2, <5>1, HandTokens
        <5>5. QED
          BY <5>2, <5>3, <5>4, Zenon DEF body, u, SameOutputs
      <4>5. QED
        BY <4>4 DEF after, went
    <3>6. CASE m # n
      <4>1. us[m] = r.units[m]
        BY <2>5, <3>6
      <4>2. ASSUME NEW k \in DOMAIN Functions[m], NEW x \in DynDeps(Functions[m], k),
                   x < Len(Inputs(Functions[m]))
            PROVE  r.units[m].internalFIFO[k][x] + c[k] <= after[x]
        <5>1. r.units[m].internalFIFO[k][x] + c[k] <= before[x]
          BY <3>1, <4>2, Zenon DEF Tokens
        <5>2. x \in Int /\ r.units[m].internalFIFO[k] \in [DynDeps(Functions[m], k) -> Int]
          BY <2>4, Numbers, UnitIs
        <5>3. /\ r.units[m].internalFIFO[k][x] \in Int /\ c[k] \in Nat /\ before[x] \in Nat /\ after[x] \in Nat
              /\ after[x] >= before[x]
          BY <3>2, <3>4, <5>2
        <5>4. QED
          BY <5>1, <5>3
      <4>3. Tokens(Functions[m], us[m], c, after, went)
        BY <3>1, <4>1, <4>2, Zenon DEF Tokens
      <4>4. QED
        BY <4>1, <4>3 DEF after, went
    <3>7. QED
      BY <3>5, <3>6
  <2>7. Accounts(q.units, q.handedOver, q.answered)
    BY <2>2, <2>6, Zenon DEF Accounts
  <2>8. q.handedOver = r.handedOver \cup (IF isPackingFunc(d) THEN {d} ELSE {})
    BY <1>2, <2>2 DEF over
  <2>9. QED
    BY <2>2, <2>6, <2>7, <2>8
<1>3. QED
  BY <1>1, <1>2

Asks(r, d) ==
  isExtractFunc(d) /\ canGetData(Functions[prog[d].unit], r.units[prog[d].unit], prog[d].offset)
LEMMA TakeStep ==
  ASSUME TypeOK, NEW r \in Execs, NEW d \in Insns, Accounts(r.units, r.handedOver, r.answered),
         NEW q, q = TakeResult(r, d)
  PROVE  /\ q.handedOver = r.handedOver
         /\ q.answered = r.answered \cup (IF Asks(r, d) THEN {d} ELSE {})
         /\ Accounts(q.units, q.handedOver, q.answered)
         /\ \A n \in DOMAIN Functions : \A x \in Results(Functions[n]) :
              q.units[n].outputFIFO[x] <= r.units[n].outputFIFO[x]
<1> DEFINE n == prog[d].unit
           v == getData(Functions[n], r.units[n], prog[d].offset)
           us == [r.units EXCEPT ![n] = v]
           told == r.answered \cup {d}
<1>1. /\ r.units \in UnitStates /\ r.handedOver \in SUBSET Insns /\ r.answered \in SUBSET Insns
  BY DEF Execs
<1>2. \A m \in DOMAIN Functions : r.units[m] \in UnitState(Functions[m]) /\ Functions[m] \in Function
  BY <1>1, CallsAre DEF UnitStates
<1>3. \A m \in DOMAIN Functions : \A x \in Results(Functions[m]) : r.units[m].outputFIFO[x] \in Int
  BY <1>2, UnitIs
<1>4. CASE ~Asks(r, d)
  <2>1. q = r
    BY <1>4 DEF TakeResult, Asks
  <2>2. r.answered = r.answered \cup (IF Asks(r, d) THEN {d} ELSE {})
    BY <1>4
  <2>3. \A m \in DOMAIN Functions : \A x \in Results(Functions[m]) :
              r.units[m].outputFIFO[x] <= r.units[m].outputFIFO[x]
    BY <1>3
  <2>4. QED
    BY <2>1, <2>2, <2>3
<1>5. CASE Asks(r, d)
  <2>1. q = [r EXCEPT !.units = us, !.answered = told]
    BY <1>5 DEF TakeResult, Asks
  <2> HIDE DEF us, told
  <2>2. q.units = us /\ q.answered = told /\ q.handedOver = r.handedOver
    BY <2>1 DEF Execs
  <2>3. n \in DOMAIN Functions /\ prog[d].offset + 1 \in DOMAIN Outputs(Functions[n])
    BY <1>5, CallsAre DEF Asks
  <2>4. \A m \in DOMAIN Functions : us[m] = IF m = n THEN v ELSE r.units[m]
    <3>1. DOMAIN r.units = DOMAIN Functions
      BY <1>1 DEF UnitStates
    <3> HIDE DEF n, v
    <3>2. QED
      BY <3>1 DEF us
  <2>5. canGetData(Functions[n], r.units[n], prog[d].offset) /\ ResultOf(prog[d]) = Outputs(Functions[n])[prog[d].offset + 1]
    BY <1>5 DEF Asks, ResultOf
  <2> HIDE DEF n
  <2>6. ASSUME NEW m \in DOMAIN Functions
        PROVE  /\ \E c \in [DOMAIN Functions[m] -> Nat] :
                    Tokens(Functions[m], us[m], c, Came(m, r.handedOver), Went(m, told))
               /\ \A x \in Results(Functions[m]) : us[m].outputFIFO[x] <= r.units[m].outputFIFO[x]
    <3> DEFINE before == Went(m, r.answered)
               after == Went(m, told)
               came == Came(m, r.handedOver)
    <3>1. PICK c \in [DOMAIN Functions[m] -> Nat] : Tokens(Functions[m], r.units[m], c, came, before)
      BY Zenon DEF Accounts
    <3>2. told = r.answered \cup {d} /\ told \in SUBSET Insns
      BY <1>1 DEF told
    <3>3. before \in [DOMAIN Functions[m] -> Nat] /\ after \in [DOMAIN Functions[m] -> Nat]
      BY <1>1, <3>2, WentIs
    <3>4. \A k \in DOMAIN Functions[m] :
            /\ after[k] <= before[k] + 1
            /\ ~(m = n /\ ResultOf(prog[d]) = k) => after[k] <= before[k]
      BY <1>1, <3>2, WentIs DEF n
    <3> HIDE DEF before, after, came
    <3>5. CASE m = n
      <4>1. us[m] = getData(Functions[m], r.units[m], prog[d].offset)
        BY <2>4, <3>5
      <4>2. \A k \in DOMAIN Functions[m] :
              after[k] <= before[k] + 1 /\ (k # Outputs(Functions[m])[prog[d].offset + 1] => after[k] <= before[k])
        BY <2>5, <3>4, <3>5
      <4>3. /\ prog[d].offset + 1 \in DOMAIN Outputs(Functions[m])
            /\ canGetData(Functions[m], r.units[m], prog[d].offset)
        BY <2>3, <2>5, <3>5
      <4>4. Tokens(Functions[m], us[m], c, came, after)
        BY <1>2, <3>1, <3>3, <4>1, <4>2, <4>3, TakeTokens
      <4>5. \A x \in Results(Functions[m]) : us[m].outputFIFO[x] <= r.units[m].outputFIFO[x]
        <5> TAKE x \in Results(Functions[m])
        <5>1. us[m].outputFIFO[x] = r.units[m].outputFIFO[x] - 1 \/ us[m].outputFIFO[x] = r.units[m].outputFIFO[x]
          BY <1>2, <4>1, GetDoes
        <5>2. QED
          BY <1>3, <5>1
      <4>6. QED
        BY <4>4, <4>5 DEF after, came
    <3>6. CASE m # n
      <4>1. us[m] = r.units[m]
        BY <2>4, <3>6
      <4>2. ASSUME NEW k \in DOMAIN Functions[m], InsnId(Functions[m], k) \in Results(Functions[m])
            PROVE  r.units[m].outputFIFO[InsnId(Functions[m], k)] + after[k] <= Done(r.units[m], c, k)
        <5> DEFINE a == r.units[m].outputFIFO[InsnId(Functions[m], k)]
                   b == Done(r.units[m], c, k)
        <5>1. a + before[k] <= b
          BY <3>1, <4>2, Zenon DEF Tokens
        <5>2. a \in Int /\ b \in Int
          BY <1>3, <4>2 DEF Done
        <5> HIDE DEF a, b
        <5>3. before[k] \in Nat /\ after[k] \in Nat /\ after[k] <= before[k]
          BY <3>3, <3>4, <3>6
        <5>4. a + after[k] <= b
          BY <5>1, <5>2, <5>3
        <5>5. QED
          BY <5>4 DEF a, b
      <4>3. Tokens(Functions[m], us[m], c, came, after)
        BY <3>1, <4>1, <4>2, Zenon DEF Tokens
      <4>4. \A x \in Results(Functions[m]) : us[m].outputFIFO[x] <= r.units[m].outputFIFO[x]
        BY <1>3, <4>1
      <4>5. QED
        BY <4>3, <4>4 DEF after, came
    <3>7. QED
      BY <3>5, <3>6
  <2>7. Accounts(q.units, q.handedOver, q.answered)
    BY <2>2, <2>6, Zenon DEF Accounts
  <2>8. q.answered = r.answered \cup (IF Asks(r, d) THEN {d} ELSE {})
    BY <1>5, <2>2 DEF told
  <2>9. QED
    BY <2>2, <2>6, <2>7, <2>8
<1>6. QED
  BY <1>4, <1>5

-----------------------------------------------------------------------------
(* Execute, for the order of requests and the tokens.                      *)

NotMore(r, q) ==
  \A n \in DOMAIN Functions : \A x \in Results(Functions[n]) :
    q.units[n].outputFIFO[x] <= r.units[n].outputFIFO[x]

LEMMA OutputTypes ==
  ASSUME TypeOK, NEW r \in Execs, NEW n \in DOMAIN Functions, NEW x \in Results(Functions[n])
  PROVE  r.units[n].outputFIFO[x] \in Int
<1>1. r.units[n] \in UnitState(Functions[n])
  BY DEF Execs, UnitStates
<1>2. QED
  BY <1>1, UnitIs

LEMMA AsksLess ==
  ASSUME TypeOK, NEW r \in Execs, NEW q \in Execs, NotMore(r, q), NEW d \in Insns, Asks(q, d)
  PROVE  Asks(r, d)
<1> DEFINE n == prog[d].unit
           x == offsetDynID(Functions[n], prog[d].offset)
           a == r.units[n].outputFIFO[x]
           b == q.units[n].outputFIFO[x]
<1>1. isExtractFunc(d) /\ b > 0
  BY DEF Asks, canGetData
<1>2. n \in DOMAIN Functions /\ x \in Results(Functions[n])
  BY <1>1, CallsAre
<1>3. b <= a
  BY <1>2, Zenon DEF NotMore
<1>4. a \in Int /\ b \in Int
  BY <1>2, OutputTypes
<1> HIDE DEF a, b
<1>5. a > 0
  BY <1>1, <1>3, <1>4
<1>6. QED
  BY <1>1, <1>5 DEF Asks, canGetData, a

(* Past the k-th instruction in flight: a result that waits there is not   *)
(* left for an instruction behind.                                         *)
Through(r, k) ==
  /\ Accounts(r.units, r.handedOver, r.answered)
  /\ r.handedOver = handedOver \cup {d \in Gone(inFlightInsn, k) : isPackingFunc(d)}
  /\ answered \subseteq r.answered
  /\ \A d \in r.answered \ answered : d \in Gone(inFlightInsn, k) /\ isExtractFunc(d)
  /\ \A d \in Gone(inFlightInsn, k) : isExtractFunc(d) => d \in r.answered \/ ~Asks(r, d)
  /\ FirstAnswered(r.answered)

LEMMA StepIs ==
  ASSUME TypeOK, NEW r \in Execs, NEW d \in Insns, Accounts(r.units, r.handedOver, r.answered),
         NEW q, q = ExecuteInsn(r, d)
  PROVE  /\ q \in Execs /\ Accounts(q.units, q.handedOver, q.answered)
         /\ q.handedOver = r.handedOver \cup (IF isPackingFunc(d) THEN {d} ELSE {})
         /\ q.answered = r.answered \/ (q.answered = r.answered \cup {d} /\ Asks(r, d))
         /\ NotMore(r, q)
         /\ isExtractFunc(d) => d \in q.answered \/ ~Asks(q, d)
<1> DEFINE t == IF status[d] = "SLEEP" THEN Release(r, d) ELSE r
           h == HandOver(t, d)
<1>1. machine \in Machine
  BY ProgIs
<1>2. r.ports \in PortState(machine) /\ r.using \in Holdings /\ r.using[d] \in Seq(Units(machine))
  BY DEF Execs, Holdings
<1>3. /\ t \in Execs /\ t.units = r.units /\ t.answered = r.answered /\ t.handedOver = r.handedOver
  <2> DEFINE p == freeFU(machine, r.ports, r.using[d])
             g == [r.using EXCEPT ![d] = <<>>]
  <2>1. Release(r, d) = [r EXCEPT !.ports = p, !.using = g]
    BY DEF Release
  <2>2. p \in PortState(machine)
    BY <1>1, <1>2, PortTypes
  <2>3. g \in Holdings
    BY <1>2 DEF Holdings
  <2> HIDE DEF p, g
  <2>4. QED
    BY <2>1, <2>2, <2>3 DEF Execs
<1>4. q = TakeResult(h, d)
  BY Zenon DEF ExecuteInsn
<1> HIDE DEF t
<1>5. h \in Execs
  BY <1>3, HandedOver
<1>6. /\ h.answered = r.answered
      /\ h.handedOver = r.handedOver \cup (IF isPackingFunc(d) THEN {d} ELSE {})
      /\ Accounts(h.units, h.handedOver, h.answered)
      /\ \A n \in DOMAIN Functions : \A x \in Results(Functions[n]) :
           h.units[n].outputFIFO[x] = t.units[n].outputFIFO[x]
  <2>1. Accounts(t.units, t.handedOver, t.answered)
    BY <1>3
  <2>2. QED
    BY <1>3, <2>1, HandStep
<1> HIDE DEF h
<1>7. /\ q.handedOver = h.handedOver
      /\ q.answered = h.answered \cup (IF Asks(h, d) THEN {d} ELSE {})
      /\ Accounts(q.units, q.handedOver, q.answered)
      /\ \A n \in DOMAIN Functions : \A x \in Results(Functions[n]) :
           q.units[n].outputFIFO[x] <= h.units[n].outputFIFO[x]
  BY <1>4, <1>5, <1>6, TakeStep
<1>8. q \in Execs
  BY <1>4, <1>5, ResultTaken
<1>9. NotMore(r, h) /\ NotMore(h, q) /\ NotMore(r, q)
  <2>1. \A n \in DOMAIN Functions : \A x \in Results(Functions[n]) :
           h.units[n].outputFIFO[x] = r.units[n].outputFIFO[x] /\ r.units[n].outputFIFO[x] \in Int
    BY <1>3, <1>6, OutputTypes
  <2>2. QED
    BY <1>7, <2>1 DEF NotMore
<1>10. Asks(h, d) => Asks(r, d)
  BY <1>5, <1>9, AsksLess
<1>11. Asks(q, d) => Asks(h, d)
  BY <1>5, <1>8, <1>9, AsksLess
<1>12. CASE Asks(h, d)
  BY <1>6, <1>7, <1>8, <1>9, <1>10, <1>12
<1>13. CASE ~Asks(h, d)
  BY <1>6, <1>7, <1>8, <1>9, <1>11, <1>13
<1>14. QED
  BY <1>12, <1>13

(* Two extracts of a result that have issued: the later one asks after.    *)
LEMMA EarlierAsked ==
  ASSUME IInv, TokensKept, NEW k \in 1 .. Len(inFlightInsn), NEW e, e = inFlightInsn[k],
         NEW d \in Insns, isExtractFunc(d), isExtractFunc(e), SameResult(d, e), d < e
  PROVE  d \in answered \/ d \in Gone(inFlightInsn, k - 1)
<1> DEFINE s == inFlightInsn
           past == Past(issueQueue, insnQueue)
<1>1. s \in Seq(Insns) /\ Insns \in SUBSET Nat
  BY Facts
<1>2. /\ Len(s) \in Nat /\ DOMAIN s = 1 .. Len(s) /\ k \in 1 .. Len(s)
      /\ e \in Insns /\ e \in ToSet(s) /\ e \in Nat /\ d \in Nat
  BY <1>1, Parts
<1>3. SameStream(d, e) /\ SameStream(e, d)
  BY DEF SameResult, SameStream, hashTwoInts, isRequest, isExtractFunc
<1>4. e \in past
  <2>1. ToSet(issueQueue) \cap ToSet(s) = {} /\ ToSet(issueQueue) \cup ToSet(s) \subseteq 1 .. insnQueue
    BY Facts DEF Agree
  <2>2. QED
    BY <1>2, <2>1 DEF Past
<1>5. d \in past /\ StreamOrder(s)
  BY <1>3, <1>4 DEF TokensKept, InOrderOfStreams
<1>6. d \in ToSet(s) \/ d \in answered
  BY <1>5 DEF TokensKept, AnsweredInOrder
<1>7. CASE d \in ToSet(s)
  <2>1. PICK j \in 1 .. Len(s) : d = s[j]
    BY <1>2, <1>7 DEF ToSet
  <2>2. ~(k < j)
    <3>1. ASSUME k < j PROVE e < d
      BY <1>2, <1>3, <1>5, <2>1, <3>1 DEF StreamOrder
    <3>2. QED
      BY <1>2, <3>1
  <2>3. j # k
    BY <1>2, <2>1
  <2>4. j \in 1 .. k - 1
    BY <1>2, <2>1, <2>2, <2>3
  <2>5. QED
    BY <2>1, <2>4 DEF Gone
<1>8. QED
  BY <1>6, <1>7

LEMMA ThroughGoesOn ==
  ASSUME IInv, TokensKept, NEW k \in 1 .. Len(inFlightInsn), NEW r \in Execs, Through(r, k - 1),
         NEW q, q = ExecuteInsn(r, inFlightInsn[k])
  PROVE  Through(q, k)
<1> DEFINE s == inFlightInsn
           e == s[k]
<1>1. TypeOK /\ s \in Seq(Insns) /\ Insns \in SUBSET Nat
  BY Facts
<1>2. e \in Insns /\ Gone(s, k) = Gone(s, k - 1) \cup {e} /\ k \in 1 .. Len(s)
  BY <1>1, Parts
<1>3. /\ Accounts(r.units, r.handedOver, r.answered)
      /\ r.handedOver = handedOver \cup {d \in Gone(s, k - 1) : isPackingFunc(d)}
      /\ answered \subseteq r.answered
      /\ \A d \in r.answered \ answered : d \in Gone(s, k - 1) /\ isExtractFunc(d)
      /\ \A d \in Gone(s, k - 1) : isExtractFunc(d) => d \in r.answered \/ ~Asks(r, d)
      /\ FirstAnswered(r.answered)
  BY Zenon DEF Through
<1>4. q = ExecuteInsn(r, e)
  OBVIOUS
<1>e. e = inFlightInsn[k]
  OBVIOUS
<1> HIDE DEF e
<1>5. /\ q \in Execs /\ Accounts(q.units, q.handedOver, q.answered)
      /\ q.handedOver = r.handedOver \cup (IF isPackingFunc(e) THEN {e} ELSE {})
      /\ q.answered = r.answered \/ (q.answered = r.answered \cup {e} /\ Asks(r, e))
      /\ NotMore(r, q)
      /\ isExtractFunc(e) => e \in q.answered \/ ~Asks(q, e)
  BY <1>1, <1>2, <1>3, <1>4, StepIs
<1>6. \A d \in Gone(s, k - 1) : d \in Insns
  <2>1. Len(s) \in Nat /\ \A j \in 1 .. Len(s) : s[j] \in Insns
    BY <1>1
  <2>2. QED
    BY <1>2, <2>1 DEF Gone
<1>7. q.handedOver = handedOver \cup {d \in Gone(s, k) : isPackingFunc(d)}
  BY <1>2, <1>3, <1>5
<1>8. Asks(r, e) => isExtractFunc(e)
  BY DEF Asks
<1>9. answered \subseteq q.answered /\ \A d \in q.answered \ answered : d \in Gone(s, k) /\ isExtractFunc(d)
  BY <1>2, <1>3, <1>5, <1>8
<1>10. ASSUME NEW d \in Gone(s, k), isExtractFunc(d) PROVE d \in q.answered \/ ~Asks(q, d)
  <2>1. CASE d = e
    BY <1>5, <1>10, <2>1
  <2>2. CASE d \in Gone(s, k - 1)
    <3>1. d \in r.answered \/ ~Asks(r, d)
      BY <1>3, <1>10, <2>2
    <3>2. Asks(q, d) => Asks(r, d)
      BY <1>1, <1>5, <1>6, <2>2, AsksLess
    <3>3. QED
      BY <1>5, <3>1, <3>2
  <2>3. QED
    BY <1>2, <2>1, <2>2
<1>11. ASSUME NEW f \in q.answered, NEW d \in Insns, isExtractFunc(d), isExtractFunc(f), SameResult(d, f), d < f
       PROVE  d \in q.answered
  <2>1. CASE f \in r.answered
    <3>1. d \in r.answered
      BY <1>3, <1>11, <2>1 DEF FirstAnswered
    <3>2. QED
      BY <1>5, <3>1
  <2>2. CASE f = e /\ Asks(r, e)
    <3>1. Asks(r, d)
      BY <1>11, <2>2 DEF Asks, SameResult
    <3>2. d \in answered \/ d \in Gone(s, k - 1)
      BY <1>2, <1>11, <1>e, <2>2, EarlierAsked
    <3>3. QED
      BY <1>3, <1>5, <1>11, <3>1, <3>2
  <2>3. QED
    BY <1>5, <2>1, <2>2
<1>12. FirstAnswered(q.answered)
  BY <1>11 DEF FirstAnswered
<1>13. QED
  BY <1>5, <1>7, <1>9, <1>10, <1>12, Zenon DEF Through

LEMMA ThroughAll ==
  ASSUME IInv, TokensKept, NEW after,
         after = ExecAll([ports |-> ports, using |-> using, units |-> units, answered |-> answered,
                          handedOver |-> handedOver], inFlightInsn)
  PROVE  after \in Execs /\ Through(after, Len(inFlightInsn))
<1> DEFINE s == inFlightInsn
           base == [ports |-> ports, using |-> using, units |-> units, answered |-> answered,
                    handedOver |-> handedOver]
           T == Execs
           P == [k \in 0 .. Len(s) |-> {r \in T : Through(r, k)}]
<1>1. /\ TypeOK /\ machine \in Machine /\ s \in Seq(Insns) /\ base \in T
  BY Facts DEF Execs
<1>2. /\ Len(s) \in Nat /\ DOMAIN s = 1 .. Len(s) /\ \A k \in 1 .. Len(s) : s[k] \in Insns
      /\ Gone(s, 0) = {}
  BY <1>1, Parts
<1>3. Through(base, 0)
  <2>1. /\ base.units = units /\ base.handedOver = handedOver /\ base.answered = answered
    OBVIOUS
  <2>2. Accounts(units, handedOver, answered) /\ FirstAnswered(answered)
    BY Zenon DEF TokensKept, AnsweredInOrder
  <2> HIDE DEF base
  <2>3. QED
    BY <1>2, <2>1, <2>2 DEF Through
<1>4. /\ base \in P[0] /\ P[Len(s)] = {r \in T : Through(r, Len(s))}
      /\ \A k \in 1 .. Len(s) : /\ P[k - 1] = {r \in T : Through(r, k - 1)}
                                /\ P[k] = {r \in T : Through(r, k)}
  <2> HIDE DEF base, s, T
  <2>1. QED
    BY <1>1, <1>2, <1>3
<1> HIDE DEF s, base, P, T
<1>5. \A k \in 1 .. Len(s), r \in T : ExecuteInsn(r, s[k]) \in T
  BY <1>1, <1>2, ExecuteIs DEF T
<1>6. \A k \in 1 .. Len(s), r \in T : Through(r, k - 1) => Through(ExecuteInsn(r, s[k]), k)
  BY ThroughGoesOn DEF s, T
<1>7. \A k \in 1 .. Len(s), r \in T : r \in P[k - 1] => ExecuteInsn(r, s[k]) \in P[k]
  BY <1>4, <1>5, <1>6
<1>8. ExecAll(base, s) \in T /\ ExecAll(base, s) \in P[Len(s)]
  BY <1>1, <1>2, <1>4, <1>5, <1>7, ExecInduct
<1>9. after \in T /\ Through(after, Len(s))
  BY <1>4, <1>8 DEF s, base
<1>10. QED
  BY <1>9 DEF T, s

-----------------------------------------------------------------------------
(* Streams within sequences.                                               *)

LEMMA StreamAppended ==
  ASSUME Insns \in SUBSET Nat, NEW s \in Seq(Insns), NEW e \in Insns, StreamOrder(s),
         \A x \in ToSet(s) : SameStream(x, e) => x < e
  PROVE  StreamOrder(Append(s, e))
<1> DEFINE a == Append(s, e)
<1>1. /\ Len(s) \in Nat /\ DOMAIN s = 1 .. Len(s) /\ DOMAIN a = 1 .. Len(s) + 1
      /\ a[Len(s) + 1] = e /\ \A k \in 1 .. Len(s) : a[k] = s[k]
  <2>1. /\ Len(s) \in Nat /\ DOMAIN s = 1 .. Len(s) /\ Len(a) = Len(s) + 1 /\ a \in Seq(Insns)
        /\ a[Len(s) + 1] = e /\ \A k \in 1 .. Len(s) : a[k] = s[k]
    BY AppendIs
  <2> HIDE DEF a
  <2>2. QED
    BY <2>1
<1> HIDE DEF a
<1>2. ASSUME NEW i \in 1 .. Len(s) + 1, NEW j \in 1 .. Len(s) + 1, i < j, SameStream(a[i], a[j])
      PROVE  a[i] < a[j]
  <2>1. i \in 1 .. Len(s)
    BY <1>1, <1>2
  <2>2. CASE j \in 1 .. Len(s)
    <3>1. SameStream(s[i], s[j])
      BY <1>1, <1>2, <2>1, <2>2
    <3>2. QED
      BY <1>1, <1>2, <2>1, <2>2, <3>1 DEF StreamOrder
  <2>3. CASE j = Len(s) + 1
    <3>1. SameStream(s[i], e) /\ s[i] \in ToSet(s)
      BY <1>1, <1>2, <2>1, <2>3 DEF ToSet
    <3>2. QED
      BY <1>1, <2>1, <2>3, <3>1
  <2>4. QED
    BY <1>1, <2>2, <2>3
<1>3. QED
  BY <1>1, <1>2 DEF StreamOrder, a

LEMMA StreamJoined ==
  ASSUME Insns \in SUBSET Nat, NEW s \in Seq(Insns), NEW t \in Seq(Insns), StreamOrder(s), Increasing(t),
         \A x \in ToSet(s), y \in ToSet(t) : SameStream(x, y) => x < y
  PROVE  StreamOrder(s \o t)
<1> DEFINE a == s \o t
<1>1. /\ Len(s) \in Nat /\ DOMAIN s = 1 .. Len(s) /\ DOMAIN a = 1 .. Len(s) + Len(t)
      /\ Len(t) \in Nat /\ DOMAIN t = 1 .. Len(t)
      /\ \A k \in 1 .. Len(s) : a[k] = s[k] /\ s[k] \in Insns
      /\ \A k \in 1 .. Len(t) : a[Len(s) + k] = t[k] /\ t[k] \in Insns
  BY CatIs
<1> HIDE DEF a
<1>2. \A k \in 1 .. Len(s) + Len(t) :
        k \in 1 .. Len(s) \/ (k - Len(s) \in 1 .. Len(t) /\ Len(s) + (k - Len(s)) = k)
  BY <1>1
<1>3. ASSUME NEW i \in 1 .. Len(s) + Len(t), NEW j \in 1 .. Len(s) + Len(t), i < j, SameStream(a[i], a[j])
      PROVE  a[i] < a[j]
  <2>1. CASE j \in 1 .. Len(s)
    <3>1. i \in 1 .. Len(s)
      BY <1>1, <1>3, <2>1
    <3>2. SameStream(s[i], s[j])
      BY <1>1, <1>3, <2>1, <3>1
    <3>3. QED
      BY <1>1, <1>3, <2>1, <3>1, <3>2 DEF StreamOrder
  <2>2. CASE j \notin 1 .. Len(s)
    <3>1. j - Len(s) \in 1 .. Len(t) /\ Len(s) + (j - Len(s)) = j
      BY <1>2, <2>2
    <3>2. a[j] = t[j - Len(s)] /\ a[j] \in ToSet(t)
      BY <1>1, <3>1 DEF ToSet
    <3>3. CASE i \in 1 .. Len(s)
      <4>1. a[i] \in ToSet(s)
        BY <1>1, <3>3 DEF ToSet
      <4>2. QED
        BY <1>3, <3>2, <4>1
    <3>4. CASE i \notin 1 .. Len(s)
      <4>1. i - Len(s) \in 1 .. Len(t) /\ Len(s) + (i - Len(s)) = i
        BY <1>2, <3>4
      <4>2. a[i] = t[i - Len(s)] /\ i - Len(s) < j - Len(s)
        BY <1>1, <1>3, <4>1
      <4>3. QED
        BY <1>1, <3>1, <3>2, <4>1, <4>2 DEF Increasing
    <3>5. QED
      BY <3>3, <3>4
  <2>3. QED
    BY <2>1, <2>2
<1>4. QED
  BY <1>1, <1>3 DEF StreamOrder, a

LEMMA HeadLeast ==
  ASSUME NEW T \in SUBSET Nat, NEW s \in Seq(T), Increasing(s), NEW x \in ToSet(s)
  PROVE  ~(x < Head(s))
<1>1. /\ Len(s) \in Nat /\ DOMAIN s = 1 .. Len(s) /\ \A k \in 1 .. Len(s) : s[k] \in T
  OBVIOUS
<1>2. PICK j \in 1 .. Len(s) : x = s[j]
  BY <1>1 DEF ToSet
<1>3. Head(s) = s[1] /\ 1 \in 1 .. Len(s) /\ s[1] \in Nat /\ s[j] \in Nat
  <2>1. 1 \in 1 .. Len(s) /\ s # <<>>
    BY <1>1, <1>2
  <2>2. s[1] \in T /\ s[j] \in T /\ Head(s) = s[1]
    BY <1>1, <2>1
  <2>3. QED
    BY <2>1, <2>2
<1>4. CASE j = 1
  BY <1>2, <1>3, <1>4
<1>5. CASE j # 1
  <2>1. s[1] < s[j]
    BY <1>1, <1>2, <1>3, <1>5 DEF Increasing
  <2>2. QED
    BY <1>2, <1>3, <2>1
<1>6. QED
  BY <1>4, <1>5

(* What write back leaves in flight, in its order.                         *)
LEMMA WbStepIs ==
  ASSUME machine \in Machine, Insns \in SUBSET Nat, NEW done,
         NEW r \in [ports : PortState(machine), using : Holdings, left : Seq(Insns)],
         NEW d \in Insns, NEW q, q = WbStep(done, r, d)
  PROVE  /\ q \in [ports : PortState(machine), using : Holdings, left : Seq(Insns)]
         /\ q.left = IF d \in done THEN r.left ELSE Append(r.left, d)
<1> DEFINE p == freeFU(machine, r.ports, r.using[d])
           h == [r.using EXCEPT ![d] = <<>>]
           x == Append(r.left, d)
<1>1. CASE d \in done
  <2>1. q = [r EXCEPT !.ports = p, !.using = h]
    BY <1>1 DEF WbStep, Release
  <2>2. r.using[d] \in Seq(Units(machine)) /\ r.ports \in PortState(machine)
    BY DEF Holdings
  <2>3. p \in PortState(machine)
    BY <2>2, PortTypes
  <2>4. h \in Holdings
    BY DEF Holdings
  <2> HIDE DEF p, h
  <2>5. QED
    BY <1>1, <2>1, <2>3, <2>4
<1>2. CASE d \notin done
  <2>1. q = [r EXCEPT !.left = x]
    BY <1>2 DEF WbStep
  <2>2. x \in Seq(Insns)
    OBVIOUS
  <2> HIDE DEF x
  <2>3. q.left = x /\ q \in [ports : PortState(machine), using : Holdings, left : Seq(Insns)]
    BY <2>1, <2>2
  <2>4. QED
    BY <1>2, <2>3 DEF x
<1>3. QED
  BY <1>1, <1>2

LEMMA LeftInOrder ==
  ASSUME TypeOK, StreamOrder(inFlightInsn), NEW done, NEW after,
         after = WbAll(done, [ports |-> ports, using |-> using, left |-> <<>>], inFlightInsn)
  PROVE  StreamOrder(after.left) /\ ToSet(after.left) = ToSet(inFlightInsn) \ done
<1> DEFINE s == inFlightInsn
           base == [ports |-> ports, using |-> using, left |-> <<>>]
           T == [ports : PortState(machine), using : Holdings, left : Seq(Insns)]
           Good(r, k) == StreamOrder(r.left) /\ ToSet(r.left) = Gone(s, k) \ done
           P == [k \in 0 .. Len(s) |-> {r \in T : Good(r, k)}]
<1>1. /\ machine \in Machine /\ s \in Seq(Insns) /\ ports \in PortState(machine)
      /\ using \in Holdings /\ Insns \in SUBSET Nat
  BY ProgIs DEF TypeOK, Holdings
<1>2. /\ Len(s) \in Nat /\ DOMAIN s = 1 .. Len(s) /\ \A k \in 1 .. Len(s) : s[k] \in Insns
      /\ \A k \in 1 .. Len(s) : Gone(s, k) = Gone(s, k - 1) \cup {s[k]}
      /\ Gone(s, Len(s)) = ToSet(s) /\ Gone(s, 0) = {}
  BY <1>1, Parts
<1>3. base \in T /\ Good(base, 0)
  <2>1. ToSet(<<>>) = {} /\ <<>> \in Seq(Insns) /\ StreamOrder(<<>>)
    BY DEF ToSet, StreamOrder
  <2>2. QED
    BY <1>1, <1>2, <2>1
<1>o. StreamOrder(s)
  OBVIOUS
<1> HIDE DEF s, base
<1>4. ASSUME NEW k \in 1 .. Len(s), NEW r \in T
      PROVE  /\ WbStep(done, r, s[k]) \in T
             /\ WbStep(done, r, s[k]).left = IF s[k] \in done THEN r.left ELSE Append(r.left, s[k])
  <2> DEFINE d == s[k]
             q == WbStep(done, r, d)
  <2>1. d \in Insns
    BY <1>2
  <2> HIDE DEF d, q
  <2>2. q = WbStep(done, r, d)
    BY DEF q
  <2>3. q \in T /\ q.left = IF d \in done THEN r.left ELSE Append(r.left, d)
    BY <1>1, <2>1, <2>2, WbStepIs
  <2>4. QED
    BY <2>3 DEF d, q
<1>5. ASSUME NEW k \in 1 .. Len(s), NEW r \in T, Good(r, k - 1) PROVE Good(WbStep(done, r, s[k]), k)
  <2> DEFINE q == WbStep(done, r, s[k])
             l == r.left
             e == s[k]
  <2>1. q.left = (IF e \in done THEN l ELSE Append(l, e)) /\ l \in Seq(Insns) /\ e \in Insns
    BY <1>2, <1>4
  <2>2. StreamOrder(l) /\ ToSet(l) = Gone(s, k - 1) \ done /\ Gone(s, k) = Gone(s, k - 1) \cup {e}
    BY <1>2, <1>5
  <2>3. \A x \in Gone(s, k - 1) : SameStream(x, e) => x < e
    <3>1. \A j \in 1 .. k - 1 : j \in DOMAIN s /\ k \in DOMAIN s /\ j < k
      BY <1>2
    <3>2. QED
      BY <1>o, <3>1 DEF StreamOrder, Gone
  <2> HIDE DEF q, l, e, T
  <2>4. CASE e \in done
    BY <2>1, <2>2, <2>4 DEF q
  <2>5. CASE e \notin done
    <3>1. q.left = Append(l, e) /\ ToSet(Append(l, e)) = ToSet(l) \cup {e}
      BY <1>1, <2>1, <2>5, Appended
    <3>2. StreamOrder(Append(l, e))
      BY <1>1, <2>1, <2>2, <2>3, StreamAppended
    <3>3. QED
      BY <2>2, <2>5, <3>1, <3>2 DEF q, e
  <2>6. QED
    BY <2>4, <2>5
<1>6. base \in P[0] /\ \A k \in 1 .. Len(s) : /\ P[k - 1] = {r \in T : Good(r, k - 1)}
                                             /\ P[k] = {r \in T : Good(r, k)}
  BY <1>2, <1>3
<1>7. P[Len(s)] = {r \in T : Good(r, Len(s))}
  BY <1>2
<1> HIDE DEF Good, P, T
<1>8. \A k \in 1 .. Len(s), r \in T : r \in P[k - 1] => WbStep(done, r, s[k]) \in P[k]
  BY <1>4, <1>5, <1>6
<1>9. WbAll(done, base, s) \in T /\ WbAll(done, base, s) \in P[Len(s)]
  BY <1>2, <1>3, <1>4, <1>6, <1>8, WbInduct
<1>10. Good(after, Len(s))
  BY <1>7, <1>9 DEF s, base
<1>11. QED
  BY <1>2, <1>10 DEF Good, s

(* What issues is in program order, and nothing older of its stream is     *)
(* left or still to come.                                                  *)
OldestIssue(r, s, k) ==
  /\ Scanned(r, s, k) /\ Increasing(r.issued)
  /\ ToSet(r.issued) \cup ToSet(r.left) = Gone(s, k)
  /\ \A e \in ToSet(r.issued) : \A d \in Insns :
       d < e /\ SameStream(d, e) => d \notin ToSet(r.left) \cup Rest(s, k)

LEMMA OldestGoesOn ==
  ASSUME IInv, NEW k \in 1 .. Len(issueQueue), NEW r \in Considered, OldestIssue(r, issueQueue, k - 1),
         NEW q, q = Consider(r, issueQueue[k])
  PROVE  OldestIssue(q, issueQueue, k)
<1> DEFINE s == issueQueue
           e == s[k]
<1>1. TypeOK /\ s \in Seq(Insns) /\ Increasing(s) /\ Insns \in SUBSET Nat
  BY Facts DEF Agree
<1>2. /\ e \in Insns /\ Gone(s, k) = Gone(s, k - 1) \cup {e} /\ Rest(s, k - 1) = Rest(s, k) \cup {e}
  BY <1>1, Parts
<1>3. \A x \in Gone(s, k - 1) : x < e
  BY <1>1, InOrder
<1>4. /\ Scanned(r, s, k - 1) /\ Increasing(r.issued)
      /\ ToSet(r.issued) \cup ToSet(r.left) = Gone(s, k - 1)
      /\ \A f \in ToSet(r.issued) : \A d \in Insns :
           d < f /\ SameStream(d, f) => d \notin ToSet(r.left) \cup Rest(s, k - 1)
  BY Zenon DEF OldestIssue
<1>5. Scanned(q, s, k)
  BY <1>4, ScanGoesOn
<1>6. Waits(r, q, e) \/ Issues(r, q, e)
  BY <1>1, <1>2, ConsiderIs
<1>7. r.left \in Seq(Insns) /\ r.issued \in Seq(Insns) /\ r.rou \in [DOMAIN rou -> Seq(Insns)]
  BY DEF Considered
<1> DEFINE l == r.left
           u == r.issued
<1>8. l \in Seq(Insns) /\ u \in Seq(Insns) /\ Increasing(u)
  BY <1>4, <1>7
<1> HIDE DEF s, e, l, u
<1>9. /\ ToSet(Append(l, e)) = ToSet(l) \cup {e} /\ ToSet(Append(u, e)) = ToSet(u) \cup {e}
      /\ (\A x \in ToSet(u) : x < e) => Increasing(Append(u, e))
  BY <1>1, <1>2, <1>8, Appended
<1>10. CASE Waits(r, q, e)
  <2>1. q.issued = u /\ q.left = Append(l, e)
    BY <1>10 DEF Waits, l, u
  <2>2. ToSet(q.left) \cup Rest(s, k) = ToSet(l) \cup Rest(s, k - 1)
    BY <1>2, <1>9, <2>1
  <2>3. ToSet(q.issued) \cup ToSet(q.left) = Gone(s, k)
    BY <1>2, <1>4, <1>9, <2>1 DEF u, l
  <2>4. QED
    BY <1>4, <1>5, <1>8, <2>1, <2>2, <2>3 DEF OldestIssue, s, u, l
<1>11. CASE Issues(r, q, e)
  <2>1. /\ canIssue(r.rou, hashTwoInts(prog[e]), prog[e], e)
        /\ q.issued = Append(u, e) /\ q.left = l
    BY <1>11 DEF Issues, l, u
  <2>2. Increasing(q.issued) /\ ToSet(q.issued) = ToSet(u) \cup {e}
    BY <1>3, <1>4, <1>9, <2>1 DEF u
  <2>3. ToSet(q.issued) \cup ToSet(q.left) = Gone(s, k)
    BY <1>2, <1>4, <2>1, <2>2 DEF u, l
  <2>4. ASSUME NEW d \in Insns, d < e, SameStream(d, e)
        PROVE  d \notin ToSet(q.left) \cup Rest(s, k)
    <3> DEFINE h == hashTwoInts(prog[e])
               D == ToSet(r.left) \cup Rest(s, k - 1)
    <3>1. InStreams(r.rou, D)
      BY <1>4 DEF Scanned
    <3>2. isRequest(prog[e]) /\ isRequest(prog[d]) /\ hashTwoInts(prog[d]) = h
      BY <2>4 DEF SameStream
    <3>3. Head(r.rou[h]) = e
      BY <2>1, <3>2 DEF canIssue
    <3>4. ASSUME d \in D PROVE FALSE
      <4>1. h \in DOMAIN r.rou
        BY <3>1, <3>2, <3>4 DEF InStreams
      <4>2. d \in ToSet(r.rou[h]) /\ Increasing(r.rou[h]) /\ r.rou[h] \in Seq(Insns)
        BY <1>7, <3>1, <3>2, <3>4, <4>1 DEF InStreams
      <4>3. ~(d < Head(r.rou[h]))
        BY <1>1, <4>2, HeadLeast
      <4>4. QED
        BY <2>4, <3>3, <4>3
    <3>5. ToSet(q.left) \cup Rest(s, k) \subseteq D
      BY <1>2, <2>1 DEF l
    <3>6. QED
      BY <3>4, <3>5
  <2>5. ASSUME NEW f \in ToSet(q.issued), NEW d \in Insns, d < f, SameStream(d, f)
        PROVE  d \notin ToSet(q.left) \cup Rest(s, k)
    <3>1. CASE f = e
      BY <2>4, <2>5, <3>1
    <3>2. CASE f \in ToSet(u)
      BY <1>2, <1>4, <2>1, <2>5, <3>2 DEF u, l
    <3>3. QED
      BY <2>2, <3>1, <3>2
  <2>6. QED
    BY <1>5, <2>2, <2>3, <2>5 DEF OldestIssue, s
<1>12. QED
  BY <1>6, <1>10, <1>11

LEMMA OldestIssued ==
  ASSUME IInv, NEW after,
         after = IssueAll([ports |-> ports, occupied |-> <<>>, rou |-> rou, using |-> using,
                           issued |-> <<>>, ready |-> {}, left |-> <<>>], issueQueue)
  PROVE  after \in Considered /\ OldestIssue(after, issueQueue, Len(issueQueue))
<1> DEFINE s == issueQueue
           base == [ports |-> ports, occupied |-> <<>>, rou |-> rou, using |-> using,
                    issued |-> <<>>, ready |-> {}, left |-> <<>>]
           T == Considered
           P == [k \in 0 .. Len(s) |-> {r \in T : OldestIssue(r, s, k)}]
<1>1. TypeOK /\ s \in Seq(Insns)
  BY DEF IInv, TypeOK
<1>2. /\ Len(s) \in Nat /\ DOMAIN s = 1 .. Len(s) /\ \A k \in 1 .. Len(s) : s[k] \in Insns
      /\ Gone(s, 0) = {} /\ Rest(s, 0) = ToSet(s)
  BY <1>1, Parts
<1>3. base \in T
  BY DEF IInv, TypeOK, Considered, Holdings
<1>4. OldestIssue(base, s, 0)
  <2>1. ToSet(<<>>) = {} /\ Increasing(<<>>) /\ Len(<<>>) = 0
    BY DEF ToSet, Increasing
  <2>2. /\ base.ports = ports /\ base.using = using /\ base.rou = rou /\ base.issued = <<>> /\ base.left = <<>>
    OBVIOUS
  <2>3. /\ Accounted(machine, ports, using) /\ InStreams(rou, ToSet(s))
        /\ \A d \in Insns : using[d] # <<>> => d \in ToSet(inFlightInsn)
    BY DEF IInv, QueuesAgree, Agree
  <2> HIDE DEF base, s
  <2>4. {} \cup Rest(s, 0) = ToSet(s)
    BY <1>2
  <2>5. InStreams(base.rou, ToSet(base.left) \cup Rest(s, 0))
    BY <2>1, <2>2, <2>3, <2>4
  <2>6. Scanned(base, s, 0)
    BY <1>2, <2>1, <2>2, <2>3, <2>5 DEF Scanned
  <2>7. QED
    BY <1>2, <2>1, <2>2, <2>6 DEF OldestIssue
<1>5. /\ base \in P[0] /\ P[Len(s)] = {r \in T : OldestIssue(r, s, Len(s))}
      /\ \A k \in 1 .. Len(s) : /\ P[k - 1] = {r \in T : OldestIssue(r, s, k - 1)}
                                /\ P[k] = {r \in T : OldestIssue(r, s, k)}
  <2> HIDE DEF base, s, T
  <2>1. QED
    BY <1>2, <1>3, <1>4
<1>6. \A k \in 1 .. Len(s), r \in T : Consider(r, s[k]) \in T
  BY <1>1, <1>2, ConsiderIs
<1>7. \A k \in 1 .. Len(s), r \in T : OldestIssue(r, s, k - 1) => OldestIssue(Consider(r, s[k]), s, k)
  BY OldestGoesOn
<1> HIDE DEF s, base, T, P
<1>8. \A k \in 1 .. Len(s), r \in T : r \in P[k - 1] => Consider(r, s[k]) \in P[k]
  BY <1>5, <1>6, <1>7
<1>9. IssueAll(base, s) \in T /\ IssueAll(base, s) \in P[Len(s)]
  BY <1>2, <1>3, <1>5, <1>6, <1>8, IssueInduct
<1>10. after \in T /\ OldestIssue(after, s, Len(s))
  BY <1>5, <1>9 DEF s, base
<1>11. QED
  BY <1>10 DEF T, s

-----------------------------------------------------------------------------
(* The stages, for the order of requests and the tokens.                   *)

LEMMA TokensCarried ==
  ASSUME machine' = machine, prog' = prog,
         InOrderOfStreams(issueQueue', inFlightInsn', insnQueue'),
         HandedInOrder(Past(issueQueue', insnQueue'), inFlightInsn', currentCycle', handedOver', stage'),
         AnsweredInOrder(Past(issueQueue', insnQueue'), inFlightInsn', answered'),
         Accounts(units', handedOver', answered')
  PROVE  TokensKept'
<1>1. Insns' = Insns /\ Past(issueQueue, insnQueue)' = Past(issueQueue', insnQueue')
  BY DEF Insns, Past
<1>2. InOrderOfStreams(issueQueue, inFlightInsn, insnQueue)'
  BY <1>1 DEF InOrderOfStreams, StreamOrder, SameStream, hashTwoInts
<1>3. HandedInOrder(Past(issueQueue, insnQueue), inFlightInsn, currentCycle, handedOver, stage)'
  BY <1>1 DEF HandedInOrder, FirstHanded, SameStream, hashTwoInts, isPackingFunc
<1>4. AnsweredInOrder(Past(issueQueue, insnQueue), inFlightInsn, answered)'
  BY <1>1 DEF AnsweredInOrder, FirstAnswered, SameResult, isExtractFunc
<1>5. Accounts(units, handedOver, answered)'
  <2>1. \A n : /\ Came(n, handedOver)' = Came(n, handedOver')
               /\ Went(n, answered)' = Went(n, answered')
    BY DEF Came, Went, isExtractFunc
  <2>2. QED
    BY <2>1 DEF Accounts
<1>6. QED
  BY <1>2, <1>3, <1>4, <1>5 DEF TokensKept

LEMMA Apart ==
  ASSUME IInv
  PROVE  /\ ToSet(inFlightInsn) \in SUBSET Past(issueQueue, insnQueue)
         /\ ToSet(issueQueue) \in SUBSET (1 .. insnQueue)
         /\ ToSet(issueQueue) \cap Past(issueQueue, insnQueue) = {}
         /\ Past(issueQueue, insnQueue) \in SUBSET Insns
         /\ ToSet(inFlightInsn) \in SUBSET Insns
<1>1. /\ ToSet(issueQueue) \cap ToSet(inFlightInsn) = {}
      /\ ToSet(issueQueue) \cup ToSet(inFlightInsn) \subseteq 1 .. insnQueue
      /\ insnQueue \in 0 .. Len(prog) /\ inFlightInsn \in Seq(Insns)
  BY Facts DEF Agree
<1>2. Insns = 1 .. Len(prog) /\ Len(prog) \in Nat
  BY Facts, ProgIs
<1>3. 1 .. insnQueue \in SUBSET Insns
  BY <1>1, <1>2
<1>4. QED
  BY <1>1, <1>3 DEF Past

LEMMA WriteBackTokens ==
  ASSUME IInv, TokensKept, WriteBack
  PROVE  TokensKept'
<1> DEFINE done == {d \in ToSet(inFlightInsn) : status[d] # "FINISHED" /\ finishes(d)}
           after == WbAll(done, [ports |-> ports, using |-> using, left |-> <<>>], inFlightInsn)
           past == Past(issueQueue, insnQueue)
<1>1. inFlightInsn' = after.left
  BY Zenon DEF WriteBack, WbAll, WbStep
<1>2. /\ stage = "writeBack" /\ stage' = "execute" /\ machine' = machine /\ prog' = prog /\ units' = units
      /\ currentCycle' = currentCycle /\ answered' = answered /\ handedOver' = handedOver
      /\ insnQueue' = insnQueue /\ issueQueue' = issueQueue
  BY DEF WriteBack, GoOn, After
<1>3. /\ InOrderOfStreams(issueQueue, inFlightInsn, insnQueue)
      /\ HandedInOrder(past, inFlightInsn, currentCycle, handedOver, stage)
      /\ AnsweredInOrder(past, inFlightInsn, answered)
      /\ Accounts(units, handedOver, answered)
  BY Zenon DEF TokensKept
<1>4. StreamOrder(after.left) /\ ToSet(after.left) = ToSet(inFlightInsn) \ done
  <2>1. TypeOK /\ StreamOrder(inFlightInsn)
    BY <1>3, Facts DEF InOrderOfStreams
  <2> HIDE DEF done
  <2>2. QED
    BY <2>1, LeftInOrder
<1>5. \A d \in done : isExtractFunc(d) => d \in answered
  BY DEF finishes
<1>6. ASSUME NEW d \in done, isPackingFunc(d), currentCycle[d] = 0 PROVE FALSE
  <2>1. d \in Insns /\ TypeOK
    BY Apart, Facts
  <2>2. prog[d].cycles >= 1 /\ prog[d].cycles \in Nat
    BY <1>6, <2>1, CallsAre, ProgIs
  <2>3. 0 >= prog[d].cycles
    BY <1>6 DEF finishes
  <2>4. QED
    BY <2>2, <2>3
<1> HIDE DEF after, done, past
<1>7. InOrderOfStreams(issueQueue, after.left, insnQueue)
  BY <1>3, <1>4 DEF InOrderOfStreams
<1>8. HandedInOrder(past, after.left, currentCycle, handedOver, "execute")
  BY <1>3, <1>4, <1>6 DEF HandedInOrder
<1>9. AnsweredInOrder(past, after.left, answered)
  BY <1>3, <1>4, <1>5 DEF AnsweredInOrder
<1>10. QED
  BY <1>1, <1>2, <1>3, <1>7, <1>8, <1>9, TokensCarried DEF past

LEMMA ExecuteTokens ==
  ASSUME IInv, TokensKept, Execute
  PROVE  TokensKept'
<1> DEFINE after == ExecAll([ports |-> ports, using |-> using, units |-> units, answered |-> answered,
                             handedOver |-> handedOver], inFlightInsn)
           more(d) == Min({currentCycle[d] + 1, Max({prog[d].cycles, MaxLoadCycles})})
           past == Past(issueQueue, insnQueue)
           s == inFlightInsn
<1>1. units' = after.units /\ answered' = after.answered /\ handedOver' = after.handedOver
  BY Zenon DEF Execute, ExecAll
<1>2. /\ currentCycle' = [d \in Insns |-> IF Contains(s, d) THEN more(d) ELSE currentCycle[d]]
      /\ stage' = "lsu" /\ machine' = machine /\ prog' = prog
      /\ insnQueue' = insnQueue /\ issueQueue' = issueQueue /\ inFlightInsn' = s
  BY DEF Execute, GoOn, After, queueVars
<1>3. Through(after, Len(s))
  BY ThroughAll
<1> HIDE DEF after, more
<1>4. Gone(s, Len(s)) = ToSet(s)
  BY Facts, Parts
<1>5. /\ ToSet(s) \in SUBSET past /\ past \in SUBSET Insns
  BY Apart
<1>6. /\ Accounts(after.units, after.handedOver, after.answered)
      /\ after.handedOver = handedOver \cup {d \in ToSet(s) : isPackingFunc(d)}
      /\ answered \subseteq after.answered
      /\ \A d \in after.answered \ answered : d \in ToSet(s) /\ isExtractFunc(d)
      /\ FirstAnswered(after.answered)
  BY <1>3, <1>4 DEF Through
<1>7. /\ InOrderOfStreams(issueQueue, s, insnQueue)
      /\ HandedInOrder(past, s, currentCycle, handedOver, stage)
      /\ AnsweredInOrder(past, s, answered)
  BY Zenon DEF TokensKept
<1>8. \A d \in Insns \ past : currentCycle'[d] = 0
  <2>1. \A d : Contains(s, d) => d \in ToSet(s)
    BY Facts DEF Contains, ToSet
  <2>2. \A d \in Insns \ past : currentCycle[d] = 0
    BY <1>7 DEF HandedInOrder
  <2> HIDE DEF s, past
  <2>3. QED
    BY <1>2, <1>5, <2>1, <2>2
<1> HIDE DEF s
<1>9. /\ \A d \in handedOver : d \in past /\ isPackingFunc(d)
      /\ \A d \in past \ handedOver : isPackingFunc(d) => d \in ToSet(s)
  BY <1>7 DEF HandedInOrder
<1>10. \A d \in after.handedOver : d \in past /\ isPackingFunc(d)
  BY <1>5, <1>6, <1>9
<1>11. \A d \in past : isPackingFunc(d) => d \in after.handedOver
  BY <1>6, <1>9
<1>12. FirstHanded(after.handedOver)
  BY <1>7, <1>10, <1>11 DEF InOrderOfStreams, FirstHanded, past
<1>13. HandedInOrder(past, s, currentCycle', after.handedOver, "lsu")
  BY <1>8, <1>10, <1>11, <1>12 DEF HandedInOrder
<1>14. AnsweredInOrder(past, s, after.answered)
  BY <1>5, <1>6, <1>7 DEF AnsweredInOrder
<1>15. QED
  BY <1>1, <1>2, <1>6, <1>7, <1>13, <1>14, TokensCarried DEF past

LEMMA LsuProcessTokens ==
  ASSUME IInv, TokensKept, LsuProcess
  PROVE  TokensKept'
<1> DEFINE past == Past(issueQueue, insnQueue)
<1>1. PICK arrived : answered' = answered \cup arrived /\ \A d \in arrived : isLoad(d)
  BY DEF LsuProcess
<1>2. /\ stage = "lsu" /\ stage' = "tick" /\ machine' = machine /\ prog' = prog
      /\ units' = units /\ currentCycle' = currentCycle /\ handedOver' = handedOver
      /\ insnQueue' = insnQueue /\ issueQueue' = issueQueue /\ inFlightInsn' = inFlightInsn
  BY DEF LsuProcess, GoOn, After, queueVars
<1>3. \A d \in answered' : isExtractFunc(d) => d \in answered
  BY <1>1 DEF isLoad, isExtractFunc
<1>4. /\ InOrderOfStreams(issueQueue, inFlightInsn, insnQueue)
      /\ HandedInOrder(past, inFlightInsn, currentCycle, handedOver, stage)
      /\ AnsweredInOrder(past, inFlightInsn, answered)
      /\ Accounts(units, handedOver, answered)
  BY Zenon DEF TokensKept
<1>5. AnsweredInOrder(past, inFlightInsn, answered')
  BY <1>1, <1>3, <1>4 DEF AnsweredInOrder, FirstAnswered
<1>6. ASSUME NEW n PROVE Went(n, answered') = Went(n, answered)
  <2>1. \A k : Went1(n, answered', k) = Went1(n, answered, k)
    BY <1>1, <1>3 DEF Went1
  <2>2. \A have : Went(n, have) = [k \in DOMAIN Functions[n] |-> Cardinality(Went1(n, have, k))]
    BY Zenon DEF Went, Went1
  <2>3. QED
    BY <2>1, <2>2
<1>7. Accounts(units', handedOver', answered')
  BY <1>2, <1>4, <1>6 DEF Accounts
<1>8. HandedInOrder(past, inFlightInsn, currentCycle, handedOver, "tick")
  BY <1>2, <1>4 DEF HandedInOrder
<1>9. QED
  BY <1>2, <1>4, <1>5, <1>7, <1>8, TokensCarried

LEMMA DyserTickTokens ==
  ASSUME IInv, TokensKept, DyserTick
  PROVE  TokensKept'
<1> DEFINE past == Past(issueQueue, insnQueue)
<1>1. /\ units' = [n \in DOMAIN units |-> processQueue(Functions[n], units[n])]
      /\ stage = "tick" /\ stage' = "issue" /\ machine' = machine /\ prog' = prog
      /\ currentCycle' = currentCycle /\ answered' = answered /\ handedOver' = handedOver
      /\ insnQueue' = insnQueue /\ issueQueue' = issueQueue /\ inFlightInsn' = inFlightInsn
  BY DEF DyserTick, GoOn, After, queueVars, coreVars
<1>2. /\ TypeOK /\ units \in UnitStates /\ handedOver \in SUBSET Insns /\ answered \in SUBSET Insns
  BY Facts
<1>3. DOMAIN units = DOMAIN Functions /\ \A n \in DOMAIN Functions : units[n] \in UnitState(Functions[n])
  BY <1>2 DEF UnitStates
<1>4. ASSUME NEW n \in DOMAIN Functions
      PROVE  \E c \in [DOMAIN Functions[n] -> Nat] :
               Tokens(Functions[n], units'[n], c, Came(n, handedOver), Went(n, answered))
  <2> DEFINE body == Functions[n]
             u == units[n]
             came == Came(n, handedOver)
             went == Went(n, answered)
  <2>1. body \in Function /\ u \in UnitState(body)
    BY <1>2, <1>3, CallsAre
  <2>2. came \in [Int -> Nat] /\ went \in [DOMAIN body -> Nat]
    BY <1>2, CameIs, WentIs
  <2>3. PICK c \in [DOMAIN body -> Nat] : Tokens(body, u, c, came, went)
    BY Zenon DEF TokensKept, Accounts
  <2> HIDE DEF body, u, came, went
  <2>4. \E more \in [DOMAIN body -> Nat] : Tokens(body, processQueue(body, u), more, came, went)
    BY <2>1, <2>2, <2>3, TickTokens
  <2>5. units'[n] = processQueue(body, u)
    BY <1>1, <1>3 DEF body, u
  <2>6. QED
    BY <2>4, <2>5 DEF body, came, went
<1>5. Accounts(units', handedOver, answered)
  BY <1>4 DEF Accounts
<1>6. /\ InOrderOfStreams(issueQueue, inFlightInsn, insnQueue)
      /\ HandedInOrder(past, inFlightInsn, currentCycle, handedOver, stage)
      /\ AnsweredInOrder(past, inFlightInsn, answered)
  BY Zenon DEF TokensKept
<1>7. HandedInOrder(past, inFlightInsn, currentCycle, handedOver, "issue")
  BY <1>1, <1>6 DEF HandedInOrder
<1>8. QED
  BY <1>1, <1>5, <1>6, <1>7, TokensCarried

LEMMA IssueTokens ==
  ASSUME IInv, TokensKept, Issue
  PROVE  TokensKept'
<1> DEFINE after == IssueAll([ports |-> ports, occupied |-> <<>>, rou |-> rou, using |-> using,
                              issued |-> <<>>, ready |-> {}, left |-> <<>>], issueQueue)
           past == Past(issueQueue, insnQueue)
           new == after.issued
           left == after.left
           all == Past(left, insnQueue)
           flight == inFlightInsn \o new
<1>1. issueQueue' = left /\ inFlightInsn' = flight
  BY Zenon DEF Issue, IssueAll
<1>2. /\ stage = "issue" /\ stage' = "dispatch" /\ machine' = machine /\ prog' = prog /\ units' = units
      /\ currentCycle' = currentCycle /\ answered' = answered /\ handedOver' = handedOver
      /\ insnQueue' = insnQueue
  BY DEF Issue, GoOn, After
<1>3. after \in Considered /\ OldestIssue(after, issueQueue, Len(issueQueue))
  BY OldestIssued
<1> HIDE DEF after
<1>4. new \in Seq(Insns) /\ left \in Seq(Insns) /\ inFlightInsn \in Seq(Insns) /\ Insns \in SUBSET Nat
  BY <1>3, Facts DEF Considered
<1>5. Gone(issueQueue, Len(issueQueue)) = ToSet(issueQueue) /\ Rest(issueQueue, Len(issueQueue)) = {}
  BY Facts, Parts
<1>6. /\ ToSet(new) \cap ToSet(left) = {} /\ Increasing(new) /\ ToSet(new) \cup ToSet(left) = ToSet(issueQueue)
      /\ \A e \in ToSet(new) : \A d \in Insns : d < e /\ SameStream(d, e) => d \notin ToSet(left)
  BY <1>3, <1>5 DEF OldestIssue, Scanned
<1> HIDE DEF new, left
<1>7. ToSet(flight) = ToSet(inFlightInsn) \cup ToSet(new)
  BY <1>4, Joined
<1>8. /\ ToSet(inFlightInsn) \in SUBSET past
      /\ ToSet(issueQueue) \in SUBSET (1 .. insnQueue)
      /\ ToSet(issueQueue) \cap past = {} /\ past \in SUBSET Insns /\ insnQueue \in 0 .. Len(prog)
      /\ Insns = 1 .. Len(prog) /\ Len(prog) \in Nat
  BY Apart, Facts, ProgIs
<1>9. all = past \cup ToSet(new)
  BY <1>6, <1>8 DEF Past
<1>10. /\ InOrderOfStreams(issueQueue, inFlightInsn, insnQueue)
       /\ HandedInOrder(past, inFlightInsn, currentCycle, handedOver, stage)
       /\ AnsweredInOrder(past, inFlightInsn, answered)
       /\ Accounts(units, handedOver, answered)
  BY Zenon DEF TokensKept
<1>11. \A e \in past : \A d \in Insns : d < e /\ SameStream(d, e) => d \in past
  BY <1>10, Zenon DEF InOrderOfStreams
<1>12. ASSUME NEW e \in all, NEW d \in Insns, d < e, SameStream(d, e) PROVE d \in all
  <2>1. CASE e \in past
    BY <1>9, <1>11, <1>12, <2>1
  <2>2. CASE e \in ToSet(new)
    <3>1. d \notin ToSet(left)
      BY <1>6, <1>12, <2>2
    <3>2. e \in 1 .. insnQueue
      BY <1>6, <1>8, <2>2
    <3>3. d \in 1 .. insnQueue
      BY <1>8, <1>12, <3>2
    <3>4. QED
      BY <3>1, <3>3 DEF Past
  <2>3. QED
    BY <1>9, <2>1, <2>2
<1>13. ASSUME NEW x \in ToSet(inFlightInsn), NEW y \in ToSet(new), SameStream(x, y) PROVE x < y
  <2>1. x \in past /\ y \notin past /\ y \in Insns /\ x \in Nat /\ y \in Nat
    <3>1. x \in past /\ y \notin past /\ y \in 1 .. insnQueue
      BY <1>6, <1>8
    <3>2. y \in Insns /\ x \in Insns
      BY <1>8, <3>1
    <3>3. QED
      BY <1>4, <3>1, <3>2
  <2>2. SameStream(y, x)
    BY <1>13 DEF SameStream
  <2>3. ~(y < x) /\ x # y
    BY <1>11, <2>1, <2>2
  <2>4. QED
    BY <2>1, <2>3
<1>14. StreamOrder(flight)
  <2>1. StreamOrder(inFlightInsn)
    BY <1>10 DEF InOrderOfStreams
  <2>2. QED
    BY <1>4, <1>6, <1>13, <2>1, StreamJoined
<1> HIDE DEF past, flight
<1>15. InOrderOfStreams(left, flight, insnQueue)
  BY <1>12, <1>14 DEF InOrderOfStreams
<1> HIDE DEF all
<1>16. \A d \in ToSet(new) : d \in Insns \ past
  <2>1. ToSet(new) \subseteq Insns
    BY <1>4, Parts
  <2>2. QED
    BY <1>6, <1>8, <2>1
<1>17. HandedInOrder(all, flight, currentCycle, handedOver, "dispatch")
  <2>1. /\ \A d \in handedOver : d \in past /\ isPackingFunc(d)
        /\ \A d \in past \ handedOver : ~isPackingFunc(d)
        /\ \A d \in Insns \ past : currentCycle[d] = 0
        /\ FirstHanded(handedOver)
    BY <1>2, <1>10 DEF HandedInOrder
  <2>2. QED
    BY <1>7, <1>9, <1>16, <2>1 DEF HandedInOrder
<1>18. AnsweredInOrder(all, flight, answered)
  BY <1>7, <1>9, <1>10 DEF AnsweredInOrder
<1>19. QED
  BY <1>1, <1>2, <1>10, <1>15, <1>17, <1>18, TokensCarried DEF all

LEMMA DispatchTokens ==
  ASSUME IInv, TokensKept, Dispatch
  PROVE  TokensKept'
<1> DEFINE room == Min({WindowSize, Len(prog) - insnQueue, IssueQueueCapacity - Len(issueQueue)})
           new == [k \in 1 .. room |-> insnQueue + k]
           past == Past(issueQueue, insnQueue)
<1>1. insnQueue' = insnQueue + room /\ issueQueue' = issueQueue \o new
  BY Zenon DEF Dispatch
<1>2. /\ stage = "dispatch" /\ stage' = "writeBack" /\ machine' = machine /\ prog' = prog /\ units' = units
      /\ currentCycle' = currentCycle /\ answered' = answered
      /\ handedOver' = handedOver /\ inFlightInsn' = inFlightInsn
  BY DEF Dispatch, GoOn, After
<1>3. /\ insnQueue + room \in insnQueue .. Len(prog)
      /\ new \in Seq(Insns) /\ ToSet(new) = insnQueue + 1 .. insnQueue + room
  BY Facts, NewOnes DEF Agree
<1> HIDE DEF room, new
<1>4. issueQueue \in Seq(Insns) /\ Insns \in SUBSET Nat /\ insnQueue \in Nat
  BY Facts
<1>5. ToSet(issueQueue \o new) = ToSet(issueQueue) \cup ToSet(new)
  BY <1>3, <1>4, Joined
<1>6. Past(issueQueue', insnQueue') = past
  <2>1. 1 .. insnQueue + room = (1 .. insnQueue) \cup (insnQueue + 1 .. insnQueue + room)
    BY <1>3, <1>4
  <2>2. (1 .. insnQueue) \cap (insnQueue + 1 .. insnQueue + room) = {}
    BY <1>3, <1>4
  <2>3. QED
    BY <1>1, <1>3, <1>5, <2>1, <2>2 DEF Past
<1>7. /\ InOrderOfStreams(issueQueue, inFlightInsn, insnQueue)
      /\ HandedInOrder(past, inFlightInsn, currentCycle, handedOver, stage)
      /\ AnsweredInOrder(past, inFlightInsn, answered)
      /\ Accounts(units, handedOver, answered)
  BY Zenon DEF TokensKept
<1> HIDE DEF past
<1>8. HandedInOrder(past, inFlightInsn, currentCycle, handedOver, "writeBack")
  BY <1>2, <1>7 DEF HandedInOrder
<1>9. InOrderOfStreams(issueQueue', inFlightInsn, insnQueue')
  BY <1>6, <1>7 DEF InOrderOfStreams, past
<1>10. QED
  BY <1>2, <1>6, <1>7, <1>8, <1>9, TokensCarried

LEMMA StutterTokens ==
  ASSUME TokensKept, UNCHANGED vars
  PROVE  TokensKept'
<1>1. /\ machine' = machine /\ prog' = prog /\ units' = units
      /\ currentCycle' = currentCycle /\ answered' = answered
      /\ handedOver' = handedOver /\ insnQueue' = insnQueue /\ issueQueue' = issueQueue
      /\ inFlightInsn' = inFlightInsn /\ stage' = stage
  BY DEF vars, coreVars, queueVars
<1>2. /\ InOrderOfStreams(issueQueue, inFlightInsn, insnQueue)
      /\ HandedInOrder(Past(issueQueue, insnQueue), inFlightInsn, currentCycle, handedOver, stage)
      /\ AnsweredInOrder(Past(issueQueue, insnQueue), inFlightInsn, answered)
      /\ Accounts(units, handedOver, answered)
  BY Zenon DEF TokensKept
<1>3. QED
  BY <1>1, <1>2, TokensCarried

LEMMA InitTokens ==
  ASSUME Init
  PROVE  TokensKept
<1>1. /\ TypeOK /\ units = [n \in DOMAIN Functions |-> fetch(Functions[n])]
      /\ currentCycle = [d \in Insns |-> 0] /\ answered = {} /\ handedOver = {}
      /\ insnQueue = 0 /\ issueQueue = <<>> /\ inFlightInsn = <<>> /\ stage = "writeBack"
  BY InitOK DEF Init, IInv
<1>2. Past(issueQueue, insnQueue) = {}
  BY <1>1 DEF Past
<1>3. InOrderOfStreams(issueQueue, inFlightInsn, insnQueue)
  BY <1>1, <1>2 DEF InOrderOfStreams, StreamOrder
<1>4. HandedInOrder({}, inFlightInsn, currentCycle, handedOver, stage)
  BY <1>1 DEF HandedInOrder, FirstHanded
<1>5. AnsweredInOrder({}, inFlightInsn, answered)
  BY <1>1 DEF AnsweredInOrder, FirstAnswered
<1>6. ASSUME NEW n \in DOMAIN Functions
      PROVE  \E c \in [DOMAIN Functions[n] -> Nat] : Tokens(Functions[n], units[n], c, Came(n, {}), Went(n, {}))
  <2> DEFINE body == Functions[n]
             u == units[n]
             c == [k \in DOMAIN body |-> 0]
             came == Came(n, {})
             went == Went(n, {})
  <2>1. body \in Function /\ u = fetch(body)
    BY <1>1, CallsAre
  <2>2. came \in [Int -> Nat] /\ went \in [DOMAIN body -> Nat]
    BY <1>1, CameIs, WentIs
  <2>3. \A k \in DOMAIN body : went[k] = 0
    <3>1. \A k \in DOMAIN body : went[k] = Cardinality(Went1(n, {}, k)) /\ Went1(n, {}, k) = {}
      BY <1>1, WentIs DEF Went1
    <3>2. QED
      BY <3>1, FS_EmptySet
  <2> HIDE DEF body, u, came, went
  <2>4. /\ u.internalFIFO = [k \in DOMAIN body |-> [x \in DynDeps(body, k) |-> 0]]
        /\ u.outputFIFO = [x \in Results(body) |-> 0] /\ u.inflight = {}
    BY <2>1 DEF fetch, Results
  <2>5. \A k \in DOMAIN body : Done(u, c, k) = 0
    BY <2>4 DEF Done
  <2>6. \A k \in DOMAIN body : \A x \in DynDeps(body, k) : u.internalFIFO[k][x] = 0 /\ x \in Int
    BY <2>1, <2>4, Numbers
  <2>7. \A k \in DOMAIN body : \A x \in DynDeps(body, k) : came[x] >= 0
    BY <2>2, <2>6
  <2>8. Tokens(body, u, c, came, went)
    BY <2>3, <2>4, <2>5, <2>6, <2>7 DEF Tokens
  <2>9. c \in [DOMAIN body -> Nat]
    OBVIOUS
  <2> HIDE DEF c
  <2>10. QED
    BY <2>8, <2>9 DEF body, u, came, went
<1>7. Accounts(units, handedOver, answered)
  BY <1>1, <1>6 DEF Accounts
<1>8. QED
  BY <1>2, <1>3, <1>4, <1>5, <1>7 DEF TokensKept

(* The accounts of the tokens: a token that waits for an instruction, or   *)
(* for an extract, was handed over or computed and has not been used, and  *)
(* the calls of a stream are issued, handed over and answered in program   *)
(* order, for any functions of the units and any program that keeps to     *)
(* what the tools make.                                                    *)
THEOREM TokensAccounted == Spec => []TokensKept
<1>1. Init => TokensKept
  BY InitTokens
<1>2. IInv /\ TokensKept /\ [Next]_vars => TokensKept'
  <2> SUFFICES ASSUME IInv, TokensKept, [Next]_vars PROVE TokensKept'
    OBVIOUS
  <2>1. CASE WriteBack
    BY <2>1, WriteBackTokens
  <2>2. CASE Execute
    BY <2>2, ExecuteTokens
  <2>3. CASE LsuProcess
    BY <2>3, LsuProcessTokens
  <2>4. CASE DyserTick
    BY <2>4, DyserTickTokens
  <2>5. CASE Issue
    BY <2>5, IssueTokens
  <2>6. CASE Dispatch
    BY <2>6, DispatchTokens
  <2>7. CASE UNCHANGED vars
    BY <2>7, StutterTokens
  <2>8. QED
    BY <2>1, <2>2, <2>3, <2>4, <2>5, <2>6, <2>7, Zenon DEF Next
<1>3. QED
  BY <1>1, <1>2, Inductive, PTL DEF Spec

-----------------------------------------------------------------------------
(* What an answer follows.                                                 *)

(* As often as a result was taken, everything it is computed from started, *)
(* and the inputs of that came.                                            *)
LEMMA InputsCame ==
  ASSUME TypeOK, NEW n \in DOMAIN Functions, NEW body, body = Functions[n],
         NEW u \in UnitState(body), NEW c \in [DOMAIN body -> Nat], NEW came \in [Int -> Nat],
         NEW went \in [DOMAIN body -> Nat], Tokens(body, u, c, came, went),
         NEW k \in DOMAIN body, InsnId(body, k) \in Results(body), NEW x \in InputsOf(body, k)
  PROVE  x \in Int /\ went[k] <= came[x]
<1> DEFINE S == {j \in DOMAIN body : c[j] >= went[k]}
<1>1. body \in Function
  BY CallsAre
<1>2. /\ u.outputFIFO \in [Results(body) -> Int]
      /\ \A j \in DOMAIN body : u.internalFIFO[j] \in [DynDeps(body, j) -> Int]
  BY UnitIs
<1>3. \A j \in DOMAIN body : Done(u, c, j) \in Int /\ Done(u, c, j) <= c[j]
  BY DEF Done
<1>4. k \in S
  <2> DEFINE a == u.outputFIFO[InsnId(body, k)]
             b == Done(u, c, k)
  <2>1. a >= 0 /\ a + went[k] <= b
    BY Zenon DEF Tokens
  <2>2. a \in Int /\ b \in Int /\ b <= c[k]
    BY <1>2, <1>3
  <2> HIDE DEF a, b
  <2>3. QED
    BY <2>1, <2>2
<1>5. ASSUME NEW j \in S, NEW v \in ToSet(body[j].operands), v[1] = "insn" PROVE v[2] \in S
  <2>1. v[2] \in DOMAIN body /\ dynID(body, v) = InsnId(body, v[2]) /\ dynID(body, v) \in DynDeps(body, j)
    <3>1. j \in DOMAIN body /\ v[1] # "arg"
      BY <1>5
    <3>2. \A i \in DOMAIN body : \A w \in ToSet(body[i].operands) :
            /\ dynID(body, w) \in DynDeps(body, i)
            /\ w[1] # "arg" => w[2] \in DOMAIN body /\ dynID(body, w) = InsnId(body, w[2])
      BY <1>1, Numbers, Zenon
    <3> HIDE DEF S
    <3>3. QED
      BY <3>1, <3>2, Zenon
  <2> DEFINE a == u.internalFIFO[j][dynID(body, v)]
             b == Done(u, c, v[2])
  <2>2. a >= 0 /\ a + c[j] <= b
    BY <2>1, Zenon DEF Tokens
  <2>3. a \in Int /\ b \in Int /\ b <= c[v[2]]
    BY <1>2, <1>3, <2>1
  <2> HIDE DEF a, b
  <2>4. c[j] \in Nat /\ c[v[2]] \in Nat /\ went[k] \in Nat /\ c[j] >= went[k]
    BY <2>1
  <2>5. c[v[2]] >= went[k]
    BY <2>2, <2>3, <2>4
  <2>6. QED
    BY <2>1, <2>5
<1>6. Closed(body, S) /\ S \in SUBSET DOMAIN body
  BY <1>5 DEF Closed
<1> HIDE DEF S
<1>7. \A i \in ComputedFrom(body, k) : i \in S
  BY <1>4, <1>6 DEF ComputedFrom
<1>8. PICK i \in ComputedFrom(body, k) : \E v \in ToSet(body[i].operands) : v[1] = "arg" /\ x = dynID(body, v)
  BY DEF InputsOf
<1>9. PICK v \in ToSet(body[i].operands) : v[1] = "arg" /\ x = dynID(body, v)
  BY <1>8
<1>10. i \in DOMAIN body /\ c[i] >= went[k]
  BY <1>7 DEF S
<1>11. x \in DynDeps(body, i) /\ x \in Int /\ x < Len(Inputs(body))
  BY <1>1, <1>9, <1>10, Numbers
<1> DEFINE a == u.internalFIFO[i][x]
<1>12. a >= 0 /\ a + c[i] <= came[x]
  BY <1>10, <1>11, Zenon DEF Tokens
<1>13. a \in Int /\ c[i] \in Nat /\ came[x] \in Nat /\ went[k] \in Nat
  BY <1>2, <1>10, <1>11
<1> HIDE DEF a
<1>14. QED
  BY <1>10, <1>11, <1>12, <1>13

LEMMA ExtractsWent ==
  ASSUME TypeOK, TokensKept, NEW e \in answered, e \in Insns, isExtractFunc(e), answered \in SUBSET Insns
  PROVE  LET own == Extracts(prog, prog[e].unit, prog[e].offset, e)
         IN  /\ Cardinality(own) <= Went(prog[e].unit, answered)[ResultOf(prog[e])]
             /\ Cardinality(own) \in Nat
<1> DEFINE n == prog[e].unit
           k == ResultOf(prog[e])
           own == Extracts(prog, n, prog[e].offset, e)
           all == Went1(n, answered, k)
<1>1. k \in DOMAIN Functions[n] /\ Insns = 1 .. Len(prog) /\ Len(prog) \in Nat /\ e \in Insns
  BY CallsAre, ProgIs
<1>2. Went(n, answered)[k] = Cardinality(all) /\ IsFiniteSet(all)
  BY <1>1, WentIs
<1>3. ASSUME NEW b \in own PROVE b \in all
  <2>1. b \in 1 .. e /\ prog[b].kind = "extract" /\ prog[b].unit = n /\ prog[b].offset = prog[e].offset
    BY <1>3 DEF Extracts
  <2>2. b \in Insns /\ (b < e \/ b = e)
    BY <1>1, <2>1
  <2>3. isExtractFunc(b) /\ SameResult(b, e) /\ ResultOf(prog[b]) = k
    BY <2>1 DEF isExtractFunc, SameResult, ResultOf
  <2>4. FirstAnswered(answered)
    BY DEF TokensKept, AnsweredInOrder
  <2>5. b \in answered
    BY <2>2, <2>3, <2>4 DEF FirstAnswered
  <2>6. QED
    BY <2>1, <2>3, <2>5 DEF Went1
<1>4. own \in SUBSET all
  BY <1>3
<1> HIDE DEF own, all
<1>5. Cardinality(own) <= Cardinality(all) /\ IsFiniteSet(own)
  BY <1>2, <1>4, FS_Subset
<1>6. Cardinality(own) \in Nat
  BY <1>5, FS_CardinalityType
<1>7. QED
  BY <1>2, <1>5, <1>6 DEF own

LEMMA LatePacking ==
  ASSUME TypeOK, TokensKept, handedOver \in SUBSET Insns, NEW a \in Insns, isPackingFunc(a),
         a \notin handedOver, NEW x \in Offsets(prog[a]), x \in Int
  PROVE  LET own == Packings(prog, prog[a].unit, x, a)
         IN  /\ Came(prog[a].unit, handedOver)[x] < Cardinality(own)
             /\ Cardinality(own) \in Nat
<1> DEFINE n == prog[a].unit
           own == Packings(prog, n, x, a)
           over == Came1(n, handedOver, x)
<1>1. Insns = 1 .. Len(prog) /\ Len(prog) \in Nat /\ a \in Nat
  BY ProgIs
<1>2. Came(n, handedOver)[x] = Cardinality(over)
  BY CameIs
<1>3. ASSUME NEW d \in over PROVE d \in own \ {a}
  <2>1. d \in handedOver /\ prog[d].unit = n /\ x \in Offsets(prog[d]) /\ d \in Insns /\ d \in Nat
    BY <1>1, <1>3 DEF Came1
  <2>2. FirstHanded(handedOver) /\ isPackingFunc(d)
    BY <2>1 DEF TokensKept, HandedInOrder
  <2>3. InvocationsInOrder(prog)
    BY InvocationAssumption DEF TypeOK
  <2>4. d \in Packings(prog, n, x, Len(prog)) /\ a \in {b \in DOMAIN prog : prog[b].kind = "packing"}
    BY <1>1, <2>1, <2>2 DEF Packings, isPackingFunc, Insns
  <2>5. prog[d].offset = prog[a].offset
    BY <2>3, <2>4, Zenon DEF InvocationsInOrder
  <2>6. SameStream(a, d)
    BY <2>1, <2>2, <2>5 DEF SameStream, isRequest, isPackingFunc, hashTwoInts
  <2>7. ~(a < d) /\ d # a
    BY <2>1, <2>2, <2>6 DEF FirstHanded
  <2>8. d \in 1 .. a
    BY <1>1, <2>1, <2>7
  <2>9. QED
    BY <2>1, <2>2, <2>7, <2>8 DEF Packings, isPackingFunc
<1>4. a \in own /\ own \in SUBSET (1 .. a)
  BY <1>1 DEF Packings, isPackingFunc
<1>5. over \in SUBSET (own \ {a})
  BY <1>3
<1> HIDE DEF own, over
<1>6. IsFiniteSet(own) /\ Cardinality(own) \in Nat
  <2>1. IsFiniteSet(1 .. a)
    BY <1>1, FS_Interval
  <2>2. IsFiniteSet(own)
    BY <1>4, <2>1, FS_Subset
  <2>3. QED
    BY <2>2, FS_CardinalityType
<1>7. IsFiniteSet(own \ {a}) /\ Cardinality(own \ {a}) = Cardinality(own) - 1
  BY <1>4, <1>6, FS_RemoveElement
<1>8. IsFiniteSet(over) /\ Cardinality(over) <= Cardinality(own \ {a})
  BY <1>5, <1>7, FS_Subset
<1>9. Cardinality(over) \in Nat
  BY <1>8, FS_CardinalityType
<1>10. Cardinality(over) < Cardinality(own)
  BY <1>6, <1>7, <1>8, <1>9
<1>11. QED
  BY <1>2, <1>6, <1>10 DEF own

LEMMA AnswersFollow ==
  ASSUME IInv, TokensKept
  PROVE  ResultsFollowArguments
<1>1. /\ TypeOK /\ answered \in SUBSET Insns /\ handedOver \in SUBSET Insns /\ units \in UnitStates
      /\ Len(prog) \in Nat /\ Insns = 1 .. Len(prog)
  BY Facts, ProgIs
<1>2. ASSUME NEW e \in answered, NEW a \in Insns, isExtractFunc(e), isPackingFunc(a),
             prog[e].unit = prog[a].unit, prog[e].invocation = prog[a].invocation,
             Offsets(prog[a]) \cap InputsOf(Functions[prog[e].unit], ResultOf(prog[e])) # {},
             a \notin handedOver
      PROVE  FALSE
  <2> DEFINE n == prog[e].unit
             body == Functions[n]
             k == ResultOf(prog[e])
             came == Came(n, handedOver)
             went == Went(n, answered)
  <2>1. PICK x \in Offsets(prog[a]) : x \in InputsOf(body, k)
    BY <1>2
  <2>2. e \in Insns /\ n \in DOMAIN Functions /\ k \in DOMAIN body
    BY <1>1, <1>2, CallsAre
  <2>3. InsnId(body, k) \in Results(body)
    <3>1. offsetDynID(body, prog[e].offset) \in Results(body) /\ body \in Function
      BY <1>1, <1>2, <2>2, CallsAre
    <3>2. offsetDynID(body, prog[e].offset) = dynID(body, <<"insn", k>>)
      BY DEF offsetDynID, ResultOf
    <3>3. QED
      BY <2>2, <3>1, <3>2, Numbers
  <2>4. came \in [Int -> Nat] /\ went \in [DOMAIN body -> Nat]
    BY <1>1, CameIs, WentIs
  <2>5. units[n] \in UnitState(body)
    BY <1>1, <2>2 DEF UnitStates
  <2>6. PICK c \in [DOMAIN body -> Nat] : Tokens(body, units[n], c, came, went)
    BY <2>2, Zenon DEF TokensKept, Accounts
  <2>7. x \in Int /\ went[k] <= came[x]
    <3> DEFINE u == units[n]
    <3> HIDE DEF came, went, k, u
    <3>1. u \in UnitState(body) /\ Tokens(body, u, c, came, went)
      BY <2>5, <2>6 DEF u
    <3> DEFINE b == body
    <3>2. b = Functions[n]
      OBVIOUS
    <3> HIDE DEF b, n
    <3>3. x \in InputsOf(b, k) /\ k \in DOMAIN b
      BY <2>1, <2>2, <3>2
    <3>4. QED
      BY <1>1, <2>2, <2>3, <2>4, <3>1, <3>2, <3>3, InputsCame
  <2> DEFINE asked == Extracts(prog, n, prog[e].offset, e)
             packed == Packings(prog, n, x, a)
  <2>8. Cardinality(asked) <= went[k] /\ Cardinality(asked) \in Nat
    BY <1>1, <1>2, <2>2, ExtractsWent
  <2>9. came[x] < Cardinality(packed) /\ Cardinality(packed) \in Nat
    BY <1>1, <1>2, <2>7, LatePacking
  <2>10. Cardinality(packed) <= Cardinality(asked)
    <3>1. InvocationsInOrder(prog)
      BY <1>1, InvocationAssumption DEF TypeOK
    <3>2. e \in {d \in DOMAIN prog : prog[d].kind = "extract"}
      BY <1>2, <2>2 DEF isExtractFunc, Insns
    <3>3. a \in Packings(prog, n, x, Len(prog))
      BY <1>1, <1>2 DEF Packings, isPackingFunc
    <3>4. QED
      BY <1>2, <2>1, <3>1, <3>2, <3>3, Zenon DEF InvocationsInOrder
  <2>11. came[x] \in Nat /\ went[k] \in Nat
    BY <2>2, <2>4, <2>7
  <2> HIDE DEF came, went, k, asked, packed
  <2>12. QED
    BY <2>7, <2>8, <2>9, <2>10, <2>11
<1>3. QED
  BY <1>2 DEF ResultsFollowArguments

(* An extract never takes a result before the arguments of its own          *)
(* invocation are handed over: tokens carry no names, but the request       *)
(* ordering unit issues the calls of a stream in program order, and an      *)
(* instruction of the unit starts only with a token of every operand.       *)
THEOREM ResultsInOrder == Spec => []ResultsFollowArguments
<1>1. IInv /\ TokensKept => ResultsFollowArguments
  BY AnswersFollow
<1>2. QED
  BY <1>1, Inductive, TokensAccounted, PTL
=============================================================================
