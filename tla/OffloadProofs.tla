--------------------------- MODULE OffloadProofs ---------------------------
(***************************************************************************)
(* The core and the accelerator taking turns are proved for every set of   *)
(* programs and traces the assumptions allow and every size of the queues. *)
(***************************************************************************)
EXTENDS Offload, Reader, Basics

-----------------------------------------------------------------------------
(* The inductive invariant.                                                *)

Ids == 1 .. Len(insns)
Names == DOMAIN Blocks
AccNames == CHOOSE names \in SUBSET Names : IsAccelerated(names, Blocks)

IsStatic(op) == \E b \in Names : \E k \in DOMAIN Blocks[b] : op = Blocks[b][k]

(* What core and accelerator may have to fetch.                            *)
HostCode(ops) ==
  /\ IsCode(ops, Names)
  /\ \A k \in DOMAIN ops : ops[k].kind = "offload" => ops[k].dest[1] \in AccNames
AccCode(ops) ==
  /\ IsCode(ops, AccNames)
  /\ \A k \in DOMAIN ops : ops[k].kind # "offload" /\ IsStatic(ops[k])

Insn == [op : Ops, dynID : Nat, hw : {"core", "acc"}, pos : Nat,
         status : {"INIT", "ALLOCATED", "ISSUED", "FINISHED", "COMMITED"},
         cycle : Nat, deps : SUBSET Nat, data : BOOLEAN]

TypeOK ==
  /\ scenario \in Scenarios
  /\ tracePos \in Nat /\ rollbackPos \in Nat /\ insns \in Seq(Insn)
  /\ hostID \in Nat /\ globalDynID \in Nat /\ used_port \in Nat
  /\ hostQ \in Seq(Nat) /\ reservation \in Seq(Nat) /\ scoreboard \in Seq(Nat)
  /\ inflight \in SUBSET Ids /\ lsq \in SUBSET Ids
  /\ {offloading, hostOffloading, fetchForRet, hostForRet, abnormalExit, hostAbnormal}
       \subseteq BOOLEAN
  /\ stage \in {"commit", "execute", "accFetch", "accRetire", "accIssue", "dispatch",
                "fetch", "memory"}
  /\ pos \in Nat

(* What is left to fetch is code, each on its side.                        *)
CodeAgrees ==
  /\ targetBB \in AccNames \union {NoBlock}
  /\ returnStack \in Seq(Seq(Ops)) /\ \A k \in 1 .. Len(returnStack) : AccCode(returnStack[k])
  /\ hostBB \in Names \union {NoBlock}
  /\ hostReturnStack \in Seq(Seq(Ops))
  /\ \A k \in 1 .. Len(hostReturnStack) : HostCode(hostReturnStack[k])

IsAcc(i) == insns[i].hw = "acc"
Queued(i) == \E k \in 1 .. Len(reservation) : reservation[k] = i
OnBoard(i) == \E k \in 1 .. Len(scoreboard) : scoreboard[k] = i

(* A load or store in the accelerator's scoreboard that has left           *)
(* inflightQueue leaves the scoreboard when those before it have left.     *)
Ended(i) ==
  /\ insns[i].status = "ISSUED"
  /\ insns[i].cycle >= insns[i].op.lat
  /\ Is({"load"}, i) => insns[i].data

(* Whose the instructions in the queues are, and how far they have got.    *)
HostAgrees == \A k \in 1 .. Len(hostQ) : hostQ[k] \in Ids /\ ~IsAcc(hostQ[k])

AccAgrees ==
  /\ \A k \in 1 .. Len(reservation) : reservation[k] \in Ids
  /\ \A k \in 1 .. Len(scoreboard) : scoreboard[k] \in Ids
  /\ \A k, l \in 1 .. Len(reservation) : k < l => reservation[k] < reservation[l]
  /\ \A k, l \in 1 .. Len(scoreboard) : scoreboard[k] = scoreboard[l] => k = l
  /\ \A i \in Ids :
       /\ Queued(i) => IsAcc(i) /\ insns[i].status \in {"INIT", "ALLOCATED"}
       /\ i \in inflight => IsAcc(i) /\ insns[i].status \in {"ISSUED", "COMMITED"}
       /\ OnBoard(i) => /\ IsAcc(i) /\ isMem(insns[i].op)
                        /\ insns[i].status \in {"ALLOCATED", "ISSUED"}
                        /\ Queued(i) \/ i \in inflight \/ Ended(i)

(* The accelerator loses sight of nothing that it has not retired.         *)
Accounted ==
  \A i \in Ids : IsAcc(i) =>
    /\ insns[i].status # "COMMITED" => Queued(i) \/ i \in inflight \/ OnBoard(i)
    /\ isMem(insns[i].op) /\ insns[i].status \notin {"INIT", "COMMITED"} => OnBoard(i)

NothingToFetch == targetBB = NoBlock /\ ~fetchForRet

(* The first of the scoreboard still waits or runs.                        *)
HeadRuns ==
  scoreboard # <<>> =>
    \E i \in Ids : i = Head(scoreboard) /\ (Queued(i) \/ i \in inflight)

(* What an empty reservation list, and then an empty accelerator, say      *)
(* about the rest of it, in the course of a tick.                          *)
TickAgrees ==
  /\ NothingToFetch => abnormalExit \/ returnStack = <<>>
  /\ stage = "accRetire" /\ reservation = <<>> => NothingToFetch
  /\ stage = "accIssue" /\ isFinish => NothingToFetch
  /\ stage = "accIssue" => HeadRuns
  /\ ~offloading => isFinish

(* Who may fetch.                                                          *)
HandOver ==
  /\ hostOffloading = offloading
  /\ offloading \/ offloadCall # 0 => hostBB = NoBlock /\ ~hostForRet
  /\ offloadCall # 0 =>
       /\ ~offloading
       /\ offloadCall = Len(insns) /\ offloadCall \in Ids
       /\ insns[offloadCall].op.dest[1] \in AccNames
       /\ insns[offloadCall].dynID + 1 = hostID

(* What the next number is larger than, and what a failed run takes back.  *)
NumbersAgree ==
  /\ \A i \in Live : insns[i].dynID < (IF offloading THEN globalDynID ELSE hostID)
  /\ offloading => /\ hostID <= globalDynID
                   /\ \A i \in Live : insns[i].dynID >= hostID => IsAcc(i)

Started(i) == insns[i].status \in {"ISSUED", "COMMITED"}
Done(i) == i \notin inflight /\ Started(i)
Uid(i) == insns[i].op.uid

(* The accelerator's instructions are those of the program, and begin in   *)
(* an order: memory instructions enter the load/store unit, and instances  *)
(* of one instruction start, in that of the program.                       *)
OrderAgrees ==
  /\ \A i \in Ids : IsAcc(i) => IsStatic(insns[i].op)
  /\ \A i, j \in Ids : IsAcc(i) /\ IsAcc(j) /\ i < j =>
       /\ isMem(insns[i].op) /\ isMem(insns[j].op) /\ insns[i].status = "INIT"
            => insns[j].status = "INIT"
       /\ Uid(i) = Uid(j) /\ Started(j) => Done(i)

(* i is the latest instance before j of its instruction.                   *)
LatestBefore(i, j) ==
  /\ IsAcc(i) /\ i < j
  /\ \A k \in Ids : i < k /\ k < j /\ IsAcc(k) => Uid(k) # Uid(i)

(* What an instruction waits for.                                          *)
DepsAgree ==
  \A j \in Ids : IsAcc(j) =>
    /\ Started(j) => insns[j].deps = {}
    /\ \A d \in insns[j].deps :
         /\ d \in Ids /\ d < j /\ IsAcc(d) /\ ~Done(d)
         /\ Uid(d) \in insns[j].op.deps
         /\ insns[j].op.kind # "phi"
    /\ insns[j].op.kind # "phi" =>
         \A i \in Ids : LatestBefore(i, j) /\ Uid(i) \in insns[j].op.deps =>
           Done(i) \/ i \in insns[j].deps

(* In its pass over the reservation list the accelerator has left behind   *)
(* only what could not go, and still cannot.                               *)
Blocked(i) ==
  IF isMem(insns[i].op) /\ insns[i].status = "INIT"
  THEN ~mayAllocate(i)
  ELSE UIDActive(i) \/ ~ready(i)

PassAgrees ==
  stage = "accIssue" =>
    /\ pos >= 1 /\ pos <= Len(reservation) + 1
    /\ \A i \in Ids : (\E k \in 1 .. pos - 1 : reservation[k] = i) => Blocked(i)

IInv ==
  /\ TypeOK /\ CodeAgrees /\ HostAgrees /\ AccAgrees /\ Accounted
  /\ TickAgrees /\ HandOver /\ NothingLeftBehind
  /\ NumbersAgree /\ NumbersFollowProgram
  /\ OrderAgrees /\ DepsAgree /\ PassAgrees

-----------------------------------------------------------------------------
(* What Leading(s, S) is, whatever s and S are.                            *)
LEMMA LeadingIs ==
  ASSUME NEW T, NEW s \in Seq(T), NEW S
  PROVE  /\ Leading(s, S) \in 0 .. Len(s)
         /\ \A k \in 1 .. Leading(s, S) : s[k] \in S
         /\ Leading(s, S) < Len(s) => s[Leading(s, S) + 1] \notin S
<1> DEFINE ends == {n \in 0 .. Len(s) : n < Len(s) => s[n + 1] \notin S}
<1>1. Len(s) \in Nat
  BY LenProperties
<1>2. ends \in SUBSET Nat /\ Len(s) \in ends
  BY <1>1
<1>3. PICK n \in ends : \A m \in ends : n <= m
  <2> HIDE DEF ends
  <2>1. QED
    BY <1>2, Smallest
<1>4. ASSUME NEW k \in 1 .. n PROVE s[k] \in S
  <2>1. k - 1 \in 0 .. Len(s) /\ k - 1 < Len(s) /\ ~(n <= k - 1) /\ k - 1 + 1 = k
    BY <1>1, <1>3
  <2>2. k - 1 \notin ends
    BY <1>3, <2>1
  <2>3. QED
    BY <2>1, <2>2
<1>5. n \in 0 .. Len(s) /\ (n < Len(s) => s[n + 1] \notin S)
  BY <1>3
<1>6. QED
  BY <1>4, <1>5 DEF Leading

-----------------------------------------------------------------------------
(* Programs.                                                               *)

LEMMA ProgramIs ==
  ASSUME scenario \in Scenarios
  PROVE  /\ NoBlock \notin Names
         /\ Trace \in Seq([site : STRING, val : BOOLEAN])
         /\ AccNames \in SUBSET Names /\ IsAccelerated(AccNames, Blocks)
         /\ \A b \in Names : HostCode(Blocks[b])
         /\ \A b \in AccNames : AccCode(Blocks[b])
<1>1. /\ NoBlock \notin Names
      /\ Trace \in Seq([site : STRING, val : BOOLEAN])
      /\ \A b \in Names : IsCode(Blocks[b], Names)
  BY ScenarioAssumption DEF Names, Blocks, Trace
<1>2. \E names \in SUBSET Names : IsAccelerated(names, Blocks)
  BY ScenarioAssumption, Zenon DEF Names, Blocks
<1>3. AccNames \in SUBSET Names /\ IsAccelerated(AccNames, Blocks)
  BY <1>2, Zenon DEF AccNames
<1>4. \A b \in Names : HostCode(Blocks[b])
  BY <1>1, <1>3 DEF HostCode, IsAccelerated, Names
<1>5. ASSUME NEW b \in AccNames PROVE AccCode(Blocks[b])
  <2>1. /\ b \in Names /\ IsCode(Blocks[b], AccNames)
        /\ \A k \in DOMAIN Blocks[b] : Blocks[b][k].kind # "offload"
    BY <1>3, Zenon DEF IsAccelerated, Names
  <2>2. \A k \in DOMAIN Blocks[b] : IsStatic(Blocks[b][k])
    BY <2>1, Zenon DEF IsStatic
  <2>3. QED
    BY <2>1, <2>2, Zenon DEF AccCode
<1>6. QED
  BY <1>1, <1>3, <1>4, <1>5

(* A number names one instruction, and none but a phi is an operand of     *)
(* itself.                                                                 *)
LEMMA StaticIs ==
  ASSUME scenario \in Scenarios, NEW x, NEW y, IsStatic(x), IsStatic(y)
  PROVE  /\ x.uid = y.uid => x = y
         /\ x.kind # "phi" => x.uid \notin x.deps
<1>1. PICK b \in Names : \E k \in DOMAIN Blocks[b] : x = Blocks[b][k]
  BY DEF IsStatic
<1>2. PICK k \in DOMAIN Blocks[b] : x = Blocks[b][k]
  BY <1>1
<1>3. PICK c \in Names : \E l \in DOMAIN Blocks[c] : y = Blocks[c][l]
  BY DEF IsStatic
<1>4. PICK l \in DOMAIN Blocks[c] : y = Blocks[c][l]
  BY <1>3
<1>5. /\ Blocks[b][k].uid = Blocks[c][l].uid => Blocks[b][k] = Blocks[c][l]
      /\ Blocks[b][k].kind # "phi" => Blocks[b][k].uid \notin Blocks[b][k].deps
  BY ScenarioAssumption, Zenon DEF Names, Blocks
<1>6. QED
  BY <1>2, <1>4, <1>5

LEMMA CodeIs ==
  ASSUME NEW ops, NEW names, IsCode(ops, names)
  PROVE  /\ ops \in Seq(Ops) /\ Len(ops) \in Nat \ {0} /\ DOMAIN ops = 1 .. Len(ops)
         /\ \A k \in 1 .. Len(ops) : ops[k] \in Ops
         /\ ops[Len(ops)].kind \in {"br", "jmp", "ret"}
<1>1. ops \in Seq(Ops) /\ ops # <<>> /\ ops[Len(ops)].kind \in {"br", "jmp", "ret"}
  BY DEF IsCode, Last
<1>2. /\ Len(ops) \in Nat /\ DOMAIN ops = 1 .. Len(ops)
      /\ \A k \in 1 .. Len(ops) : ops[k] \in Ops
  BY <1>1, LenProperties, ElementOfSeq
<1>3. Len(ops) # 0
  BY <1>1, EmptySeq
<1>4. QED
  BY <1>1, <1>2, <1>3

(* Something is fetched of every block, and the last that is, and no other, *)
(* stops it.                                                               *)
LEMMA FetchedIs ==
  ASSUME NEW ops, NEW names, IsCode(ops, names), NEW p
  PROVE  /\ Fetched(ops, p) \in 1 .. Len(ops) /\ Stops(ops, p, Fetched(ops, p))
         /\ \A j \in 1 .. Fetched(ops, p) - 1 : ~Stops(ops, p, j)
<1> DEFINE stops == {k \in 1 .. Len(ops) : Stops(ops, p, k)}
<1>1. Len(ops) \in Nat \ {0} /\ ops[Len(ops)].kind \in {"br", "jmp", "ret"}
  BY CodeIs
<1>2. Len(ops) \in stops /\ stops \in SUBSET Nat
  BY <1>1 DEF Stops
<1>3. PICK n \in stops : \A m \in stops : n <= m
  <2> HIDE DEF stops
  <2>1. QED
    BY <1>2, Smallest
<1>4. n \in 1 .. Len(ops) /\ Stops(ops, p, n)
  OBVIOUS
<1>5. ASSUME NEW j \in 1 .. n - 1 PROVE ~Stops(ops, p, j)
  <2>1. j \in 1 .. Len(ops) /\ ~(n <= j)
    BY <1>1, <1>4
  <2>2. j \notin stops
    BY <1>3, <2>1
  <2>3. QED
    BY <2>1, <2>2
<1> HIDE DEF stops
<1>6. \E k \in 1 .. Len(ops) : Stops(ops, p, k) /\ \A j \in 1 .. k - 1 : ~Stops(ops, p, j)
  BY <1>4, <1>5
<1>7. QED
  BY <1>6, Zenon DEF Fetched

LEMMA RestIs ==
  ASSUME NEW ops, NEW names, IsCode(ops, names), NEW n \in 1 .. Len(ops),
         ops[n].kind \notin {"br", "jmp", "ret"}
  PROVE  /\ IsCode(SubSeq(ops, n + 1, Len(ops)), names)
         /\ \A k \in DOMAIN SubSeq(ops, n + 1, Len(ops)) :
              \E l \in DOMAIN ops : SubSeq(ops, n + 1, Len(ops))[k] = ops[l]
<1> DEFINE rest == SubSeq(ops, n + 1, Len(ops))  m == Len(ops)
<1>1. /\ ops \in Seq(Ops) /\ m \in Nat \ {0} /\ DOMAIN ops = 1 .. m
      /\ ops[m].kind \in {"br", "jmp", "ret"}
  BY CodeIs
<1>2. n # m /\ n \in 1 .. m
  BY <1>1
<1>3. /\ n + 1 \in 1 .. m + 1 /\ m \in 0 .. m /\ n + 1 <= m + 1
      /\ m + 1 - (n + 1) = m - n /\ m - n \in Nat \ {0}
      /\ \A k \in Int : n + 1 + k - 1 = n + k
      /\ \A k \in 1 .. m - n : n + k \in 1 .. m
      /\ n + (m - n) = m
  <2> HIDE DEF m
  <2>1. QED
    BY <1>1, <1>2
<1>4. /\ rest \in Seq(Ops) /\ Len(rest) = m - n
      /\ \A k \in 1 .. m - n : rest[k] = ops[n + k]
  <2>1. /\ rest \in Seq(Ops) /\ Len(rest) = m + 1 - (n + 1)
        /\ \A k \in 1 .. m + 1 - (n + 1) : rest[k] = ops[n + 1 + k - 1]
    <3>1. /\ n + 1 \in 1 .. Len(ops) + 1 /\ Len(ops) \in 0 .. Len(ops)
          /\ n + 1 <= Len(ops) + 1 /\ ops \in Seq(Ops)
      BY <1>1, <1>3
    <3>2. QED
      BY <3>1, SubSeqIs
  <2>2. QED
    BY <1>3, <2>1
<1>5. DOMAIN rest = 1 .. m - n
  BY <1>4, LenProperties
<1> HIDE DEF rest, m
<1>6. rest # <<>>
  BY <1>3, <1>4
<1>7. Last(rest).kind \in {"br", "jmp", "ret"}
  <2>1. m - n \in 1 .. m - n
    BY <1>3, SMTT(30)
  <2>2. rest[m - n] = ops[m]
    BY <1>3, <1>4, <2>1
  <2>3. QED
    BY <2>2, <1>1, <1>4 DEF Last
<1>8. \A k \in DOMAIN rest : \E l \in DOMAIN ops : rest[k] = ops[l]
  BY <1>1, <1>3, <1>4, <1>5
<1>9. ASSUME NEW k \in DOMAIN rest
      PROVE  /\ rest[k].kind \in {"br", "jmp", "call", "offload"} => rest[k].dest # <<>>
             /\ rest[k].kind = "br" => Len(rest[k].dest) = 2
             /\ \A d \in DOMAIN rest[k].dest : rest[k].dest[d] \in names
  <2>1. PICK l \in DOMAIN ops : rest[k] = ops[l]
    BY <1>8
  <2>2. /\ ops[l].kind \in {"br", "jmp", "call", "offload"} => ops[l].dest # <<>>
        /\ ops[l].kind = "br" => Len(ops[l].dest) = 2
        /\ \A d \in DOMAIN ops[l].dest : ops[l].dest[d] \in names
    BY DEF IsCode
  <2>3. QED
    BY <2>1, <2>2, Zenon
<1>10. IsCode(rest, names)
  BY <1>4, <1>6, <1>7, <1>9, Zenon DEF IsCode
<1>11. QED
  BY <1>8, <1>10 DEF rest, m

LEMMA RestIsHostCode ==
  ASSUME NEW ops, HostCode(ops), NEW n \in 1 .. Len(ops),
         ops[n].kind \notin {"br", "jmp", "ret"}
  PROVE  HostCode(SubSeq(ops, n + 1, Len(ops)))
<1> DEFINE rest == SubSeq(ops, n + 1, Len(ops))
<1>1. /\ IsCode(rest, Names)
      /\ \A k \in DOMAIN rest : \E l \in DOMAIN ops : rest[k] = ops[l]
  BY RestIs DEF HostCode
<1> HIDE DEF rest
<1>2. \A k \in DOMAIN ops : ops[k].kind = "offload" => ops[k].dest[1] \in AccNames
  BY DEF HostCode
<1>3. HostCode(rest)
  BY <1>1, <1>2, Zenon DEF HostCode
<1>4. QED
  BY <1>3 DEF rest

LEMMA RestIsAccCode ==
  ASSUME NEW ops, AccCode(ops), NEW n \in 1 .. Len(ops),
         ops[n].kind \notin {"br", "jmp", "ret"}
  PROVE  AccCode(SubSeq(ops, n + 1, Len(ops)))
<1> DEFINE rest == SubSeq(ops, n + 1, Len(ops))
<1>1. /\ IsCode(rest, AccNames)
      /\ \A k \in DOMAIN rest : \E l \in DOMAIN ops : rest[k] = ops[l]
  BY RestIs DEF AccCode
<1> HIDE DEF rest
<1>2. \A k \in DOMAIN ops : ops[k].kind # "offload" /\ IsStatic(ops[k])
  BY DEF AccCode
<1>3. AccCode(rest)
  BY <1>1, <1>2, Zenon DEF AccCode
<1>4. QED
  BY <1>3 DEF rest

LEMMA ReadPosIs ==
  ASSUME scenario \in Scenarios, NEW ops, NEW p \in Nat, NEW k \in Nat
  PROVE  ReadPos(ops, p, k) \in Nat
<1> DEFINE before == {j \in 1 .. k - 1 : reads(ops[j])}
<1>1. EndPos \in Nat
  BY ProgramIs, LenProperties DEF EndPos
<1>2. IsFiniteSet(before)
  <2>1. IsFiniteSet(1 .. k - 1) /\ before \subseteq 1 .. k - 1
    BY FS_Interval
  <2>2. QED
    BY <2>1, FS_Subset
<1>3. Cardinality(before) \in Nat
  BY <1>2, FS_CardinalityType
<1> HIDE DEF before
<1>4. (IF p + Cardinality(before) > EndPos THEN EndPos + 1 ELSE p + Cardinality(before)) \in Nat
  BY <1>1, <1>3
<1>5. QED
  BY <1>4 DEF ReadPos, before

AreNew(new, ops, n, gid, hw) ==
  /\ new \in Seq(Insn) /\ Len(new) = n
  /\ \A k \in 1 .. n :
       /\ new[k].op = ops[k] /\ new[k].dynID = gid + k - 1 /\ new[k].hw = hw
       /\ new[k].status = "INIT" /\ new[k].cycle = 0 /\ new[k].deps = {}
       /\ new[k].data = FALSE /\ new[k].pos \in Nat

LEMMA NewInsnsAre ==
  ASSUME scenario \in Scenarios, NEW ops \in Seq(Ops), NEW p \in Nat,
         NEW n \in 1 .. Len(ops), NEW gid \in Nat, NEW hw \in {"core", "acc"},
         NEW new, new = NewInsns(ops, p, n, gid, hw)
  PROVE  AreNew(new, ops, n, gid, hw)
<1>1. Len(ops) \in Nat /\ \A k \in 1 .. Len(ops) : ops[k] \in Ops
  BY LenProperties, ElementOfSeq
<1>2. ASSUME NEW k \in 1 .. n
      PROVE  /\ k \in Nat /\ ops[k] \in Ops /\ gid + k - 1 \in Nat
             /\ (IF reads(ops[k]) THEN ReadPos(ops, p, k) ELSE 0) \in Nat
  <2>1. k \in Nat /\ k \in 1 .. Len(ops) /\ gid + k - 1 \in Nat
    BY <1>1
  <2>2. ReadPos(ops, p, k) \in Nat
    BY <2>1, ReadPosIs
  <2>3. QED
    BY <1>1, <2>1, <2>2
<1>3. new \in [1 .. n -> Insn]
  BY <1>2, Zenon DEF NewInsns, Insn
<1>4. \A k \in 1 .. n :
        /\ new[k].op = ops[k] /\ new[k].dynID = gid + k - 1 /\ new[k].hw = hw
        /\ new[k].status = "INIT" /\ new[k].cycle = 0 /\ new[k].deps = {}
        /\ new[k].data = FALSE
        /\ new[k].pos = IF reads(ops[k]) THEN ReadPos(ops, p, k) ELSE 0
  BY DEF NewInsns
<1>5. \A k \in 1 .. n : new[k].pos \in Nat
  BY <1>2, <1>4
<1>6. n \in Nat
  BY <1>1
<1>7. new \in Seq(Insn) /\ Len(new) = n
  BY <1>3, <1>6, FunctionIsSeq
<1>8. QED
  BY <1>4, <1>5, <1>7, Zenon DEF AreNew
-----------------------------------------------------------------------------
(* What the core does leaves the accelerator's side alone.                 *)

StaysFor(i) ==
  /\ insns'[i].op = insns[i].op /\ insns'[i].hw = insns[i].hw
  /\ insns'[i].dynID = insns[i].dynID
  /\ IsAcc(i) => /\ insns'[i].status = insns[i].status
                 /\ insns'[i].cycle = insns[i].cycle
                 /\ insns'[i].deps = insns[i].deps
                 /\ insns[i].data => insns'[i].data

HostOnly ==
  /\ UNCHANGED <<scenario, reservation, scoreboard, inflight>>
  /\ Len(insns') \in Nat /\ Len(insns) <= Len(insns')
  /\ \A i \in Ids : StaysFor(i)
  /\ \A i \in Ids' : i \notin Ids => insns'[i].hw = "core"

LEMMA HostStep ==
  ASSUME TypeOK, AccAgrees, Accounted, OrderAgrees, DepsAgree, HostOnly
  PROVE  AccAgrees' /\ Accounted' /\ OrderAgrees' /\ DepsAgree'
<1>1. /\ scenario' = scenario /\ reservation' = reservation
      /\ scoreboard' = scoreboard /\ inflight' = inflight
  BY DEF HostOnly
<1>2. Ids \subseteq Ids'
  BY LenProperties DEF TypeOK, HostOnly, Ids
<1>3. ASSUME NEW i \in Ids
      PROVE  /\ IsAcc(i)' = IsAcc(i)
             /\ (isMem(insns[i].op))' = isMem(insns[i].op) /\ Uid(i)' = Uid(i)
             /\ insns'[i].op = insns[i].op
             /\ IsAcc(i) => /\ insns'[i].status = insns[i].status
                            /\ insns'[i].deps = insns[i].deps
                            /\ Started(i)' = Started(i) /\ Done(i)' = Done(i)
                            /\ Ended(i) => Ended(i)'
  <2>1. StaysFor(i)
    BY DEF HostOnly
  <2>2. QED
    BY <1>1, <2>1, Zenon DEF StaysFor, IsAcc, isMem, Uid, Started, Done, Ended, Is
<1>4. \A i \in Ids' : IsAcc(i)' => i \in Ids
  BY Zenon DEF HostOnly, IsAcc
<1>5. \A i : Queued(i)' = Queued(i) /\ OnBoard(i)' = OnBoard(i)
  BY <1>1 DEF Queued, OnBoard
<1>6. \A op : IsStatic(op)' = IsStatic(op)
  BY <1>1 DEF IsStatic, Names, Blocks
<1>7. AccAgrees'
  <2>1. /\ \A k \in 1 .. Len(reservation') : reservation'[k] \in Ids'
        /\ \A k \in 1 .. Len(scoreboard') : scoreboard'[k] \in Ids'
        /\ \A k, l \in 1 .. Len(reservation') : k < l => reservation'[k] < reservation'[l]
        /\ \A k, l \in 1 .. Len(scoreboard') : scoreboard'[k] = scoreboard'[l] => k = l
    BY <1>1, <1>2 DEF AccAgrees
  <2>2. ASSUME NEW i \in Ids', Queued(i)' \/ OnBoard(i)' \/ i \in inflight' PROVE i \in Ids
    <3>1. \A k \in 1 .. Len(reservation) : reservation[k] \in Ids
      BY Zenon DEF AccAgrees
    <3>2. \A k \in 1 .. Len(scoreboard) : scoreboard[k] \in Ids
      BY Zenon DEF AccAgrees
    <3>3. Queued(i) => i \in Ids
      BY <3>1, Zenon DEF Queued
    <3>4. OnBoard(i) => i \in Ids
      BY <3>2, Zenon DEF OnBoard
    <3>5. i \in inflight => i \in Ids
      BY DEF TypeOK
    <3>6. QED
      BY <2>2, <1>1, <1>5, <3>3, <3>4, <3>5, Zenon
  <2>3. ASSUME NEW i \in Ids'
        PROVE  /\ Queued(i)' => IsAcc(i)' /\ insns'[i].status \in {"INIT", "ALLOCATED"}
               /\ i \in inflight' => IsAcc(i)' /\ insns'[i].status \in {"ISSUED", "COMMITED"}
               /\ OnBoard(i)' => /\ IsAcc(i)' /\ (isMem(insns[i].op))'
                                 /\ insns'[i].status \in {"ALLOCATED", "ISSUED"}
                                 /\ Queued(i)' \/ i \in inflight' \/ Ended(i)'
    <3>1. CASE i \in Ids
      <4>1. /\ Queued(i) => IsAcc(i) /\ insns[i].status \in {"INIT", "ALLOCATED"}
            /\ i \in inflight => IsAcc(i) /\ insns[i].status \in {"ISSUED", "COMMITED"}
            /\ OnBoard(i) => /\ IsAcc(i) /\ isMem(insns[i].op)
                             /\ insns[i].status \in {"ALLOCATED", "ISSUED"}
                             /\ Queued(i) \/ i \in inflight \/ Ended(i)
        BY <3>1, Zenon DEF AccAgrees
      <4>2. QED
        BY <3>1, <4>1, <1>1, <1>3, <1>5, Zenon
    <3>2. QED
      BY <2>2, <3>1, Zenon
  <2>4. QED
    BY <2>1, <2>3, Zenon DEF AccAgrees
<1>8. Accounted'
  BY <1>1, <1>3, <1>4, <1>5, Zenon DEF Accounted
<1>9. OrderAgrees'
  <2>1. ASSUME NEW i \in Ids', IsAcc(i)' PROVE (IsStatic(insns[i].op))'
    BY <2>1, <1>3, <1>4, <1>6 DEF OrderAgrees
  <2>2. ASSUME NEW i \in Ids', NEW j \in Ids', IsAcc(i)', IsAcc(j)', i < j
        PROVE  /\ (isMem(insns[i].op))' /\ (isMem(insns[j].op))' /\ insns'[i].status = "INIT"
                    => insns'[j].status = "INIT"
               /\ Uid(i)' = Uid(j)' /\ Started(j)' => Done(i)'
    <3>1. i \in Ids /\ j \in Ids
      BY <2>2, <1>4
    <3>2. /\ isMem(insns[i].op) /\ isMem(insns[j].op) /\ insns[i].status = "INIT"
               => insns[j].status = "INIT"
          /\ Uid(i) = Uid(j) /\ Started(j) => Done(i)
      BY <2>2, <3>1, <1>3 DEF OrderAgrees
    <3>3. QED
      BY <2>2, <3>1, <3>2, <1>3
  <2>3. QED
    BY <2>1, <2>2, Zenon DEF OrderAgrees
<1>10. ASSUME NEW i \in Ids', NEW j \in Ids, LatestBefore(i, j)' PROVE i \in Ids /\ LatestBefore(i, j)
  <2>1. IsAcc(i)' /\ i < j /\ \A k \in Ids' : i < k /\ k < j /\ IsAcc(k)' => Uid(k)' # Uid(i)'
    BY <1>10, Zenon DEF LatestBefore
  <2>2. i \in Ids
    BY <2>1, <1>4
  <2>3. \A k \in Ids : i < k /\ k < j /\ IsAcc(k) => Uid(k) # Uid(i)
    BY <2>1, <2>2, <1>2, <1>3
  <2>4. QED
    BY <2>1, <2>2, <2>3, <1>3 DEF LatestBefore
<1>11. DepsAgree'
  <2>1. SUFFICES ASSUME NEW j \in Ids', IsAcc(j)'
        PROVE  /\ Started(j)' => insns'[j].deps = {}
               /\ \A d \in insns'[j].deps :
                    /\ d \in Ids' /\ d < j /\ IsAcc(d)' /\ ~Done(d)'
                    /\ Uid(d)' \in insns'[j].op.deps
                    /\ insns'[j].op.kind # "phi"
               /\ insns'[j].op.kind # "phi" =>
                    \A i \in Ids' : LatestBefore(i, j)' /\ Uid(i)' \in insns'[j].op.deps =>
                      Done(i)' \/ i \in insns'[j].deps
    BY Zenon DEF DepsAgree
  <2>2. j \in Ids /\ IsAcc(j)
    BY <2>1, <1>3, <1>4
  <2>3. /\ Started(j) => insns[j].deps = {}
        /\ \A d \in insns[j].deps :
             /\ d \in Ids /\ d < j /\ IsAcc(d) /\ ~Done(d)
             /\ Uid(d) \in insns[j].op.deps
             /\ insns[j].op.kind # "phi"
        /\ insns[j].op.kind # "phi" =>
             \A i \in Ids : LatestBefore(i, j) /\ Uid(i) \in insns[j].op.deps =>
               Done(i) \/ i \in insns[j].deps
    BY <2>2, Zenon DEF DepsAgree
  <2>4. insns'[j].deps = insns[j].deps /\ insns'[j].op = insns[j].op /\ Started(j)' = Started(j)
    BY <2>2, <1>3
  <2>5. \A d \in insns[j].deps :
             /\ d \in Ids' /\ d < j /\ IsAcc(d)' /\ ~Done(d)'
             /\ Uid(d)' \in insns[j].op.deps
             /\ insns[j].op.kind # "phi"
    BY <2>3, <1>2, <1>3
  <2>6. ASSUME insns[j].op.kind # "phi", NEW i \in Ids', LatestBefore(i, j)',
               Uid(i)' \in insns[j].op.deps
        PROVE  Done(i)' \/ i \in insns[j].deps
    <3>1. i \in Ids /\ LatestBefore(i, j) /\ IsAcc(i)
      BY <2>6, <2>2, <1>10 DEF LatestBefore
    <3>2. Uid(i)' = Uid(i) /\ Done(i)' = Done(i)
      BY <3>1, <1>3
    <3>3. QED
      BY <3>1, <3>2, <2>3, <2>6
  <2>7. QED
    BY <2>3, <2>4, <2>5, <2>6, Zenon
<1>12. QED
  BY <1>7, <1>8, <1>9, <1>11
-----------------------------------------------------------------------------
(* The accelerator retires.                                                *)

Out(i) == \E k \in 1 .. Retired : scoreboard[k] = i

(* The scoreboard loses a prefix of instructions that leave it, and what   *)
(* stands behind that does not leave.                                      *)
LEMMA RetiredIs ==
  ASSUME TypeOK, AccAgrees, scoreboard' = SubSeq(scoreboard, Retired + 1, Len(scoreboard))
  PROVE  /\ scoreboard' \in Seq(Nat)
         /\ \A k \in 1 .. Len(scoreboard') :
              \E m \in 1 .. Len(scoreboard) : m = k + Retired /\ scoreboard'[k] = scoreboard[m]
         /\ \A i : i \in ToSet(SubSeq(scoreboard, 1, Retired)) <=> Out(i)
         /\ \A i : Out(i) => OnBoard(i) /\ Leaves(i)
         /\ \A i : OnBoard(i)' <=> OnBoard(i) /\ ~Out(i)
         /\ scoreboard' # <<>> => OnBoard(Head(scoreboard')) /\ ~Leaves(Head(scoreboard'))
         /\ Retired \in Nat
<1> DEFINE S == {i \in ToSet(scoreboard) : Leaves(i)}  n == Retired  L == Len(scoreboard)
<1>1. scoreboard \in Seq(Nat) /\ L \in Nat /\ DOMAIN scoreboard = 1 .. L
  BY LenProperties DEF TypeOK
<1>2. /\ n \in 0 .. L
      /\ \A k \in 1 .. n : scoreboard[k] \in S
      /\ n < L => scoreboard[n + 1] \notin S
  <2> HIDE DEF S
  <2>1. /\ Leading(scoreboard, S) \in 0 .. Len(scoreboard)
        /\ \A k \in 1 .. Leading(scoreboard, S) : scoreboard[k] \in S
        /\ Leading(scoreboard, S) < Len(scoreboard) => scoreboard[Leading(scoreboard, S) + 1] \notin S
    BY <1>1, LeadingIs
  <2>2. n = Leading(scoreboard, S)
    BY DEF Retired, S
  <2>3. QED
    BY <2>1, <2>2
<1>3. \A k \in 1 .. L : scoreboard[k] \in ToSet(scoreboard)
  BY <1>1 DEF ToSet
<1>4. scoreboard \in Seq(Nat) /\ n \in 0 .. Len(scoreboard)
  BY <1>1, <1>2
<1>5. /\ SubSeq(scoreboard, 1, n) \in Seq(Nat) /\ Len(SubSeq(scoreboard, 1, n)) = n
      /\ \A k \in 1 .. n : SubSeq(scoreboard, 1, n)[k] = scoreboard[k]
      /\ scoreboard' \in Seq(Nat) /\ Len(scoreboard') = L - n
      /\ \A k \in 1 .. L - n : scoreboard'[k] = scoreboard[n + k]
  BY <1>4, CutIs
<1> HIDE DEF n, L
<1>6. \A i : i \in ToSet(SubSeq(scoreboard, 1, n)) <=> \E k \in 1 .. n : scoreboard[k] = i
  <2>1. DOMAIN SubSeq(scoreboard, 1, n) = 1 .. n
    BY <1>5, LenProperties
  <2>2. QED
    BY <2>1, <1>5 DEF ToSet
<1>7. \A k \in 1 .. n : k \in 1 .. L /\ Leaves(scoreboard[k])
  BY <1>1, <1>2
<1>8. ASSUME NEW i, \E k \in 1 .. n : scoreboard[k] = i
      PROVE  (\E k \in 1 .. L : scoreboard[k] = i) /\ Leaves(i)
  BY <1>7, <1>8
<1>9. \A k \in 1 .. L - n : n + k \in 1 .. L /\ n + k = k + n
  BY <1>1, <1>2
<1>10. ASSUME NEW i
       PROVE  (\E k \in 1 .. L - n : scoreboard'[k] = i)
                <=> (\E k \in 1 .. L : scoreboard[k] = i) /\ ~(\E k \in 1 .. n : scoreboard[k] = i)
  <2>1. ASSUME NEW k \in 1 .. L - n, scoreboard'[k] = i, NEW m \in 1 .. n, scoreboard[m] = i
        PROVE  FALSE
    <3>1. scoreboard[n + k] = scoreboard[m] /\ n + k \in 1 .. L /\ m \in 1 .. L
      BY <2>1, <1>5, <1>7, <1>9
    <3>2. n + k = m
      BY <3>1 DEF AccAgrees, L
    <3>3. QED
      BY <3>2, <1>2, <2>1
  <2>2. ASSUME NEW k \in 1 .. L, scoreboard[k] = i, k \notin 1 .. n
        PROVE  \E j \in 1 .. L - n : scoreboard'[j] = i
    <3> DEFINE j == k - n
    <3>1. j \in 1 .. L - n /\ n + j = k
      BY <1>1, <1>2, <2>2
    <3> HIDE DEF j
    <3>2. QED
      BY <3>1, <2>2, <1>5
  <2>3. QED
    BY <2>1, <2>2, <1>5, <1>9
<1>11. ASSUME scoreboard' # <<>>
       PROVE  OnBoard(Head(scoreboard')) /\ ~Leaves(Head(scoreboard'))
  <2>1. Len(scoreboard') # 0 /\ Head(scoreboard') = scoreboard'[1]
    BY <1>5, <1>11, EmptySeq, HeadTailProperties
  <2>2. 1 \in 1 .. L - n /\ n < L /\ n + 1 \in 1 .. L
    BY <1>1, <1>2, <1>5, <2>1
  <2>3. Head(scoreboard') = scoreboard[n + 1]
    BY <1>5, <2>1, <2>2
  <2>4. scoreboard[n + 1] \in ToSet(scoreboard) /\ scoreboard[n + 1] \notin S
    BY <1>2, <1>3, <2>2 DEF L
  <2>5. QED
    BY <2>2, <2>3, <2>4 DEF OnBoard, L
<1>12. \A i : OnBoard(i)' <=> \E k \in 1 .. L - n : scoreboard'[k] = i
  BY <1>5 DEF OnBoard
<1>13. \A i : OnBoard(i) <=> \E k \in 1 .. L : scoreboard[k] = i
  BY DEF OnBoard, L
<1>14. \A i : Out(i) <=> \E k \in 1 .. n : scoreboard[k] = i
  BY DEF Out, n
<1>15. \A k \in 1 .. Len(scoreboard') :
         \E m \in 1 .. Len(scoreboard) : m = k + Retired /\ scoreboard'[k] = scoreboard[m]
  BY <1>5, <1>9 DEF n, L
<1>16. \A i : i \in ToSet(SubSeq(scoreboard, 1, Retired)) <=> Out(i)
  BY <1>6, <1>14 DEF n
<1>17. \A i : Out(i) => OnBoard(i) /\ Leaves(i)
  BY <1>8, <1>13, <1>14
<1>18. \A i : OnBoard(i)' <=> OnBoard(i) /\ ~Out(i)
  BY <1>10, <1>12, <1>13, <1>14
<1>19. Retired \in Nat
  BY <1>1, <1>2 DEF n
<1>20. QED
  BY <1>5, <1>11, <1>15, <1>16, <1>17, <1>18, <1>19
Retires(i) == Out(i) \/ (i \in Finished /\ ~isMem(insns[i].op))

LEMMA RetireEffect ==
  ASSUME TypeOK, AccAgrees, Retire
  PROVE  /\ insns' \in Seq(Insn) /\ Len(insns') = Len(insns) /\ Ids' = Ids
         /\ \A i \in Ids :
              /\ insns'[i].op = insns[i].op /\ insns'[i].hw = insns[i].hw
              /\ insns'[i].dynID = insns[i].dynID /\ insns'[i].pos = insns[i].pos
              /\ insns'[i].data = insns[i].data
              /\ insns'[i].cycle = Executed(i)
              /\ insns'[i].deps = insns[i].deps \ Finished
              /\ insns'[i].status = IF Retires(i) THEN "COMMITED" ELSE insns[i].status
<1> DEFINE status(i) == IF \/ i \in ToSet(SubSeq(scoreboard, 1, Retired))
                           \/ i \in Finished /\ ~isMem(insns[i].op)
                        THEN "COMMITED" ELSE insns[i].status
           new == [i \in 1 .. Len(insns) |->
                     [insns[i] EXCEPT !.deps = signalUser(Finished, i),
                                      !.cycle = Executed(i), !.status = status(i)]]
<1>1. insns' = new
  BY Zenon DEF Retire
<1>2. insns \in Seq(Insn) /\ Len(insns) \in Nat /\ \A i \in 1 .. Len(insns) : insns[i] \in Insn
  BY LenProperties, ElementOfSeq DEF TypeOK
<1>3. ASSUME NEW i \in 1 .. Len(insns)
      PROVE  /\ [insns[i] EXCEPT !.deps = signalUser(Finished, i),
                                 !.cycle = Executed(i), !.status = status(i)] \in Insn
             /\ status(i) = IF Retires(i) THEN "COMMITED" ELSE insns[i].status
  <2>1. insns[i] \in Insn
    BY <1>2
  <2>2. insns[i].cycle \in Nat /\ insns[i].deps \in SUBSET Nat
        /\ insns[i].status \in {"INIT", "ALLOCATED", "ISSUED", "FINISHED", "COMMITED"}
    BY <2>1 DEF Insn
  <2>3. Executed(i) \in Nat /\ signalUser(Finished, i) \in SUBSET Nat
    BY <2>2 DEF Executed, signalUser
  <2>4. status(i) \in {"INIT", "ALLOCATED", "ISSUED", "FINISHED", "COMMITED"}
    BY <2>2
  <2>5. status(i) = IF Retires(i) THEN "COMMITED" ELSE insns[i].status
    BY RetiredIs DEF Retires, Retire
  <2> HIDE DEF status
  <2>6. QED
    BY <2>1, <2>3, <2>4, <2>5 DEF Insn
<1>4. ASSUME NEW i \in 1 .. Len(insns)
      PROVE  /\ new[i].op = insns[i].op /\ new[i].hw = insns[i].hw
             /\ new[i].dynID = insns[i].dynID /\ new[i].pos = insns[i].pos
             /\ new[i].data = insns[i].data
             /\ new[i].cycle = Executed(i)
             /\ new[i].deps = insns[i].deps \ Finished
             /\ new[i].status = status(i)
  <2>1. insns[i] \in Insn
    BY <1>2
  <2> HIDE DEF status
  <2>2. new[i] = [insns[i] EXCEPT !.deps = signalUser(Finished, i),
                                  !.cycle = Executed(i), !.status = status(i)]
    OBVIOUS
  <2>3. QED
    BY <2>1, <2>2 DEF Insn, signalUser
<1>5. new \in [1 .. Len(insns) -> Insn]
  <2> HIDE DEF status
  <2>1. QED
    BY <1>3
<1> HIDE DEF new, status
<1>6. new \in Seq(Insn) /\ Len(new) = Len(insns)
  BY <1>2, <1>5, FunctionIsSeq
<1>7. QED
  BY <1>1, <1>3, <1>4, <1>6 DEF Ids

(* What has finished is gone from inflightQueue, and a memory instruction  *)
(* from the scoreboard no later than its last predecessor there.           *)
LEMMA RetireStep ==
  ASSUME TypeOK, AccAgrees, Accounted, OrderAgrees, DepsAgree, Retire, scenario' = scenario
  PROVE  /\ AccAgrees' /\ Accounted' /\ OrderAgrees' /\ DepsAgree'
         /\ HeadRuns'
         /\ scoreboard' \in Seq(Nat)
<1>1. /\ reservation' = reservation /\ inflight' = inflight \ Finished
      /\ scoreboard' = SubSeq(scoreboard, Retired + 1, Len(scoreboard))
  BY DEF Retire
<1>2. Ids' = Ids
  BY RetireEffect
<1>3. \A i : Queued(i)' = Queued(i)
  BY <1>1 DEF Queued
<1>4. \A i : OnBoard(i)' <=> OnBoard(i) /\ ~Out(i)
  BY <1>1, RetiredIs
<1>5. \A i : Queued(i) \/ OnBoard(i) \/ i \in inflight => i \in Ids
  BY DEF AccAgrees, Queued, OnBoard, TypeOK
<1>6. ASSUME NEW i \in Ids
      PROVE  /\ IsAcc(i)' = IsAcc(i) /\ (isMem(insns[i].op))' = isMem(insns[i].op)
             /\ insns'[i].op = insns[i].op /\ Uid(i)' = Uid(i)
             /\ insns'[i].deps = insns[i].deps \ Finished
             /\ insns'[i].status = IF Retires(i) THEN "COMMITED" ELSE insns[i].status
  BY RetireEffect, Zenon DEF IsAcc, Uid, isMem
<1>7. ASSUME NEW i \in Ids, IsAcc(i), Retires(i) PROVE insns[i].status \in {"ISSUED", "COMMITED"}
  <2>1. CASE Out(i)
    BY <2>1, <1>1, RetiredIs DEF Leaves
  <2>2. CASE i \in Finished
    BY <2>2 DEF Finished, AccAgrees
  <2>3. QED
    BY <1>7, <2>1, <2>2 DEF Retires
<1>8. ASSUME NEW i \in Ids, IsAcc(i)
      PROVE  /\ Started(i)' = Started(i) /\ (Done(i)' <=> Done(i) \/ i \in Finished)
             /\ insns'[i].status = "INIT" <=> insns[i].status = "INIT"
  <2>1. i \in Finished => i \in inflight /\ Started(i)
    BY DEF Finished, AccAgrees, Started
  <2>2. Started(i)' = Started(i) /\ (insns'[i].status = "INIT" <=> insns[i].status = "INIT")
    BY <1>6, <1>7, <1>8 DEF Started
  <2>3. QED
    BY <2>1, <2>2, <1>1 DEF Done
<1>9. ASSUME NEW i \in Ids, OnBoard(i), Ended(i) \/ i \in Finished PROVE Leaves(i)
  <2>1. insns[i].status \in {"ALLOCATED", "ISSUED"}
    BY <1>9 DEF AccAgrees
  <2>2. /\ insns[i].status = "ISSUED" /\ insns[i].cycle >= insns[i].op.lat
        /\ Is({"load"}, i) => insns[i].data
    BY <1>9, <2>1 DEF Ended, Finished, finish, AccAgrees
  <2>3. Executed(i) >= insns[i].op.lat
    <3>1. i \in inflight \ Finished /\ insns[i].cycle < insns[i].op.lat => FALSE
      <4>1. insns[i].cycle \in Nat /\ insns[i].op.lat \in Nat
        <5>1. insns[i] \in Insn
          BY ElementOfSeq DEF TypeOK, Ids
        <5>2. QED
          BY <5>1 DEF Insn, Ops
      <4>2. QED
        BY <4>1, <2>2
    <3>2. QED
      BY <3>1, <2>2, Zenon DEF Executed
  <2>4. QED
    BY <2>2, <2>3 DEF Leaves
<1>10. AccAgrees'
  <2>1. /\ \A k \in 1 .. Len(reservation') : reservation'[k] \in Ids'
        /\ \A k, l \in 1 .. Len(reservation') : k < l => reservation'[k] < reservation'[l]
    BY <1>1, <1>2 DEF AccAgrees
  <2>2. ASSUME NEW k \in 1 .. Len(scoreboard') PROVE scoreboard'[k] \in Ids'
    <3>1. PICK m \in 1 .. Len(scoreboard) : scoreboard'[k] = scoreboard[m]
      BY <1>1, RetiredIs
    <3>2. QED
      BY <3>1, <1>2 DEF AccAgrees
  <2>3. ASSUME NEW k \in 1 .. Len(scoreboard'), NEW l \in 1 .. Len(scoreboard'),
               scoreboard'[k] = scoreboard'[l]
        PROVE  k = l
    <3>1. PICK m \in 1 .. Len(scoreboard) : m = k + Retired /\ scoreboard'[k] = scoreboard[m]
      BY <1>1, RetiredIs
    <3>2. PICK p \in 1 .. Len(scoreboard) : p = l + Retired /\ scoreboard'[l] = scoreboard[p]
      BY <1>1, RetiredIs
    <3>3. m = p /\ Retired \in Nat
      BY <2>3, <3>1, <3>2, <1>1, RetiredIs DEF AccAgrees
    <3>4. QED
      BY <3>1, <3>2, <3>3
  <2>4. ASSUME NEW i \in Ids
        PROVE  /\ Queued(i)' => IsAcc(i)' /\ insns'[i].status \in {"INIT", "ALLOCATED"}
               /\ i \in inflight' => IsAcc(i)' /\ insns'[i].status \in {"ISSUED", "COMMITED"}
               /\ OnBoard(i)' => /\ IsAcc(i)' /\ (isMem(insns[i].op))'
                                 /\ insns'[i].status \in {"ALLOCATED", "ISSUED"}
                                 /\ Queued(i)' \/ i \in inflight' \/ Ended(i)'
    <3>1. /\ Queued(i) => IsAcc(i) /\ insns[i].status \in {"INIT", "ALLOCATED"}
          /\ i \in inflight => IsAcc(i) /\ insns[i].status \in {"ISSUED", "COMMITED"}
          /\ OnBoard(i) => /\ IsAcc(i) /\ isMem(insns[i].op)
                           /\ insns[i].status \in {"ALLOCATED", "ISSUED"}
                           /\ Queued(i) \/ i \in inflight \/ Ended(i)
      BY Zenon DEF AccAgrees
    <3>2. ASSUME Queued(i) PROVE IsAcc(i)' /\ insns'[i].status \in {"INIT", "ALLOCATED"}
      BY <3>1, <3>2, <1>6, <1>7
    <3>3. ASSUME i \in inflight' PROVE IsAcc(i)' /\ insns'[i].status \in {"ISSUED", "COMMITED"}
      BY <3>1, <3>3, <1>1, <1>6
    <3>4. ASSUME OnBoard(i)'
          PROVE  /\ IsAcc(i)' /\ (isMem(insns[i].op))'
                 /\ insns'[i].status \in {"ALLOCATED", "ISSUED"}
                 /\ Queued(i)' \/ i \in inflight' \/ Ended(i)'
      <4>1. OnBoard(i) /\ ~Out(i)
        BY <3>4, <1>4
      <4>2. ~Retires(i)
        BY <3>1, <4>1 DEF Retires
      <4>3. IsAcc(i)' /\ (isMem(insns[i].op))' /\ insns'[i].status = insns[i].status
        BY <3>1, <4>1, <4>2, <1>6
      <4>4. CASE Ended(i) \/ i \in Finished
        <5>1. Leaves(i)
          BY <4>1, <4>4, <1>9
        <5>2. /\ insns'[i].cycle = Executed(i) /\ insns'[i].data = insns[i].data
              /\ insns'[i].op = insns[i].op
          BY RetireEffect
        <5>3. Ended(i)'
          BY <4>3, <5>1, <5>2 DEF Leaves, Ended, Is
        <5>4. QED
          BY <3>1, <4>1, <4>3, <5>3
      <4>5. CASE Queued(i) \/ (i \in inflight /\ i \notin Finished)
        BY <3>1, <4>1, <4>3, <4>5, <1>1, <1>3
      <4>6. QED
        BY <3>1, <4>1, <4>4, <4>5
    <3>5. QED
      BY <3>2, <3>3, <3>4, <1>3
  <2>5. QED
    BY <2>1, <2>2, <2>3, <2>4, <1>2, Zenon DEF AccAgrees

<1>11. Accounted'
  <2>1. ASSUME NEW i \in Ids, IsAcc(i)
        PROVE  /\ insns'[i].status # "COMMITED" => Queued(i)' \/ i \in inflight' \/ OnBoard(i)'
               /\ (isMem(insns[i].op))' /\ insns'[i].status \notin {"INIT", "COMMITED"}
                    => OnBoard(i)'
    <3>1. /\ insns[i].status # "COMMITED" => Queued(i) \/ i \in inflight \/ OnBoard(i)
          /\ isMem(insns[i].op) /\ insns[i].status \notin {"INIT", "COMMITED"} => OnBoard(i)
      BY <2>1 DEF Accounted
    <3>2. SUFFICES ASSUME insns'[i].status # "COMMITED"
          PROVE  /\ Queued(i)' \/ i \in inflight' \/ OnBoard(i)'
                 /\ isMem(insns[i].op) /\ insns[i].status # "INIT" => OnBoard(i)'
      BY <2>1, <1>6, <1>8
    <3>3. ~Retires(i) /\ insns[i].status # "COMMITED"
      BY <3>2, <1>6
    <3>4. OnBoard(i) => OnBoard(i)'
      BY <3>3, <1>4 DEF Retires
    <3>5. i \in Finished => isMem(insns[i].op) /\ insns[i].status # "INIT"
      BY <3>3 DEF Retires, Finished, AccAgrees
    <3>6. QED
      BY <3>1, <3>3, <3>4, <3>5, <1>1, <1>3
  <2>2. QED
    BY <2>1, <1>2, <1>6, Zenon DEF Accounted
<1>12. \A op : IsStatic(op)' = IsStatic(op)
  BY DEF IsStatic, Names, Blocks
<1>13. OrderAgrees'
  <2>1. ASSUME NEW i \in Ids, IsAcc(i) PROVE (IsStatic(insns[i].op))'
    BY <2>1, <1>6, <1>12 DEF OrderAgrees
  <2>2. ASSUME NEW i \in Ids, NEW j \in Ids, IsAcc(i), IsAcc(j), i < j
        PROVE  /\ (isMem(insns[i].op))' /\ (isMem(insns[j].op))' /\ insns'[i].status = "INIT"
                    => insns'[j].status = "INIT"
               /\ Uid(i)' = Uid(j)' /\ Started(j)' => Done(i)'
    <3>1. /\ isMem(insns[i].op) /\ isMem(insns[j].op) /\ insns[i].status = "INIT"
               => insns[j].status = "INIT"
          /\ Uid(i) = Uid(j) /\ Started(j) => Done(i)
      BY <2>2 DEF OrderAgrees
    <3>2. QED
      BY <2>2, <3>1, <1>6, <1>8
  <2>3. QED
    BY <2>1, <2>2, <1>2, <1>6, Zenon DEF OrderAgrees
<1>14. ASSUME NEW i \in Ids, NEW j \in Ids PROVE LatestBefore(i, j)' => LatestBefore(i, j)
  BY <1>2, <1>6, Zenon DEF LatestBefore
<1>15. DepsAgree'
  <2>1. SUFFICES ASSUME NEW j \in Ids, IsAcc(j)
        PROVE  /\ Started(j)' => insns'[j].deps = {}
               /\ \A d \in insns'[j].deps :
                    /\ d \in Ids' /\ d < j /\ IsAcc(d)' /\ ~Done(d)'
                    /\ Uid(d)' \in insns'[j].op.deps
                    /\ insns'[j].op.kind # "phi"
               /\ insns'[j].op.kind # "phi" =>
                    \A i \in Ids' : LatestBefore(i, j)' /\ Uid(i)' \in insns'[j].op.deps =>
                      Done(i)' \/ i \in insns'[j].deps
    BY <1>2, <1>6, Zenon DEF DepsAgree
  <2>2. /\ Started(j) => insns[j].deps = {}
        /\ \A d \in insns[j].deps :
             /\ d \in Ids /\ d < j /\ IsAcc(d) /\ ~Done(d)
             /\ Uid(d) \in insns[j].op.deps
             /\ insns[j].op.kind # "phi"
        /\ insns[j].op.kind # "phi" =>
             \A i \in Ids : LatestBefore(i, j) /\ Uid(i) \in insns[j].op.deps =>
               Done(i) \/ i \in insns[j].deps
    BY <2>1, Zenon DEF DepsAgree
  <2>3. /\ insns'[j].deps = insns[j].deps \ Finished /\ insns'[j].op = insns[j].op
        /\ Started(j)' = Started(j)
    BY <2>1, <1>6, <1>8
  <2>4. ASSUME NEW d \in insns'[j].deps
        PROVE  /\ d \in Ids' /\ d < j /\ IsAcc(d)' /\ ~Done(d)'
               /\ Uid(d)' \in insns'[j].op.deps
               /\ insns'[j].op.kind # "phi"
    <3>1. d \in insns[j].deps /\ d \notin Finished
      BY <2>3
    <3>2. QED
      BY <3>1, <2>2, <2>3, <1>2, <1>6, <1>8
  <2>5. ASSUME insns'[j].op.kind # "phi", NEW i \in Ids', LatestBefore(i, j)',
               Uid(i)' \in insns'[j].op.deps
        PROVE  Done(i)' \/ i \in insns'[j].deps
    <3>1. i \in Ids /\ LatestBefore(i, j) /\ IsAcc(i)
      BY <2>5, <2>1, <1>2, <1>14 DEF LatestBefore
    <3>2. Done(i) \/ i \in insns[j].deps
      BY <3>1, <2>2, <2>3, <2>5, <1>6
    <3>3. QED
      BY <3>1, <3>2, <2>3, <1>8
  <2>6. QED
    BY <2>2, <2>3, <2>4, <2>5
<1>16. ASSUME scoreboard' # <<>>
       PROVE  \E i \in Ids' : i = Head(scoreboard') /\ (Queued(i)' \/ i \in inflight')
  <2> DEFINE h == Head(scoreboard')
  <2>1. OnBoard(h) /\ ~Leaves(h)
    BY <1>1, <1>16, RetiredIs
  <2> HIDE DEF h
  <2>2. h \in Ids /\ ~Ended(h) /\ h \notin Finished
    BY <2>1, <1>5, <1>9
  <2>3. Queued(h) \/ h \in inflight'
    BY <2>1, <2>2, <1>1 DEF AccAgrees
  <2>4. QED
    BY <2>2, <2>3, <1>2, <1>3 DEF h
<1>17. scoreboard' \in Seq(Nat)
  BY <1>1, RetiredIs
<1>18. QED
  BY <1>10, <1>11, <1>13, <1>15, <1>16, <1>17, Zenon DEF HeadRuns
-----------------------------------------------------------------------------
(* The accelerator issues.                                                 *)

(* Of the instances of an instruction before j one is the latest.          *)
LEMMA LatestExists ==
  ASSUME TypeOK, NEW j \in Ids, NEW d \in Ids, d < j, IsAcc(d)
  PROVE  \E e \in Ids : d <= e /\ Uid(e) = Uid(d) /\ LatestBefore(e, j)
<1> DEFINE E == {e \in Ids : IsAcc(e) /\ Uid(e) = Uid(d) /\ d <= e /\ e < j}
           gaps == {j - e : e \in E}
<1>1. Ids \subseteq Nat
  BY LenProperties DEF Ids, TypeOK
<1>2. gaps \in SUBSET Nat /\ gaps # {}
  BY <1>1
<1>3. PICK n \in gaps : \A m \in gaps : n <= m
  <2> HIDE DEF gaps
  <2>1. QED
    BY <1>2, Smallest
<1>4. PICK e \in E : n = j - e
  BY <1>3
<1>5. ASSUME NEW k \in Ids, e < k, k < j, IsAcc(k), Uid(k) = Uid(e) PROVE FALSE
  <2>1. d <= k
    BY <1>1, <1>4, <1>5
  <2>2. k \in E
    BY <2>1, <1>4, <1>5
  <2>3. j - k \in gaps
    BY <2>2
  <2>4. ~(j - e <= j - k)
    BY <1>1, <1>4, <1>5
  <2>5. QED
    BY <2>3, <2>4, <1>3, <1>4
<1>6. QED
  BY <1>4, <1>5 DEF LatestBefore

(* What has not started is still in the reservation list.                  *)
LEMMA NotStartedIsQueued ==
  ASSUME TypeOK, AccAgrees, Accounted, NEW i \in Ids, IsAcc(i), ~Started(i)
  PROVE  Queued(i)
<1>1. Queued(i) \/ i \in inflight \/ OnBoard(i)
  BY DEF Accounted, Started
<1>2. i \notin inflight /\ ~Ended(i)
  BY DEF AccAgrees, Started, Ended
<1>3. QED
  BY <1>1, <1>2 DEF AccAgrees

(* An instruction that was passed over earlier in the pass keeps the later *)
(* instances of itself back, and if it had no room in the load/store unit, *)
(* all later memory instructions.                                          *)
LEMMA InstancesInOrder ==
  ASSUME TypeOK, AccAgrees, Accounted, OrderAgrees, DepsAgree, PassAgrees,
         stage = "accIssue", NEW i \in Ids, pos \in 1 .. Len(reservation), i = reservation[pos],
         NEW x \in Ids, IsAcc(x), x < i,
         isMem(insns[i].op) /\ insns[i].status = "INIT" => mayAllocate(i)
  PROVE  /\ isMem(insns[x].op) /\ isMem(insns[i].op) /\ insns[x].status = "INIT"
              => insns[i].status # "INIT"
         /\ ~UIDActive(i) /\ ready(i) /\ Uid(x) = Uid(i) => Done(x)
<1>1. IsAcc(i) /\ ~Started(i) /\ Queued(i) /\ reservation \in Seq(Nat) /\ Len(reservation) \in Nat
  BY LenProperties DEF AccAgrees, Queued, Started, TypeOK
<1>2. ASSUME ~Started(x) PROVE Blocked(x)
  <2>1. PICK k \in 1 .. Len(reservation) : reservation[k] = x
    BY <1>2, NotStartedIsQueued DEF Queued
  <2>2. k \in 1 .. pos - 1
    <3>1. ~(pos < k)
      <4>1. pos < k => i < x
        BY <2>1 DEF AccAgrees
      <4>2. i \in Int /\ x \in Int
        BY DEF Ids
      <4>3. QED
        BY <4>1, <4>2
    <3>2. pos # k
      <4>1. i \in Int /\ x \in Int
        BY DEF Ids
      <4>2. QED
        BY <2>1, <4>1
    <3>3. QED
      BY <3>1, <3>2, <1>1
  <2>3. QED
    BY <2>1, <2>2 DEF PassAgrees
<1>3. mayAllocate(x) = mayAllocate(i)
  BY DEF mayAllocate
<1>4. ASSUME isMem(insns[x].op), isMem(insns[i].op), insns[x].status = "INIT", insns[i].status = "INIT"
      PROVE  FALSE
  <2>1. ~mayAllocate(x)
    BY <1>2, <1>4 DEF Blocked, Started
  <2>2. QED
    BY <2>1, <1>3, <1>4
<1>5. ASSUME ~UIDActive(i), ready(i), Uid(x) = Uid(i), ~Done(x) PROVE FALSE
  <2>1. x \notin inflight /\ ~UIDActive(x)
    BY <1>5 DEF UIDActive, Uid
  <2>2. Blocked(x)
    BY <2>1, <1>2, <1>5 DEF Done
  <2>3. insns[x].op = insns[i].op
    <3>1. IsStatic(insns[x].op) /\ IsStatic(insns[i].op)
      BY <1>1 DEF OrderAgrees
    <3>2. QED
      BY <3>1, <1>5, StaticIs DEF Uid, TypeOK
  <2>4. ~(isMem(insns[x].op) /\ insns[x].status = "INIT")
    BY <1>1, <1>4, <2>3 DEF OrderAgrees
  <2>5. PICK d \in insns[x].deps : TRUE
    BY <2>1, <2>2, <2>4 DEF Blocked, ready
  <2>6. /\ d \in Ids /\ d < x /\ IsAcc(d) /\ ~Done(d)
        /\ Uid(d) \in insns[i].op.deps /\ insns[i].op.kind # "phi"
    BY <2>3, <2>5 DEF DepsAgree
  <2>7. d < i
    BY <2>6 DEF Ids
  <2>8. PICK e \in Ids : d <= e /\ Uid(e) = Uid(d) /\ LatestBefore(e, i)
    BY <2>6, <2>7, LatestExists
  <2>9. Done(e)
    BY <2>6, <2>8, <1>1, <1>5 DEF DepsAgree, ready
  <2>10. d = e \/ d < e
    BY <2>6, <2>8 DEF Ids
  <2>11. QED
    BY <2>6, <2>8, <2>9, <2>10 DEF OrderAgrees, Done, LatestBefore
<1>6. QED
  BY <1>4, <1>5
Allocates(i) == isMem(insns[i].op) /\ insns[i].status = "INIT"
Issues(i) == ~UIDActive(i) /\ ready(i)

(* What the pass does to the instruction i it has reached, if the          *)
(* load/store unit has room for it.                                        *)
ConsiderEffect(i) ==
  /\ insns' \in Seq(Insn) /\ Len(insns') = Len(insns) /\ Ids' = Ids
  /\ \A j \in Ids : insns'[j].op = insns[j].op /\ insns'[j].hw = insns[j].hw
                    /\ insns'[j].dynID = insns[j].dynID /\ insns'[j].pos = insns[j].pos
                    /\ insns'[j].deps = insns[j].deps
  /\ \A j \in Ids : j # i => insns'[j] = insns[j]
  /\ insns'[i].status = IF Issues(i) THEN "ISSUED"
                        ELSE IF Allocates(i) THEN "ALLOCATED" ELSE insns[i].status
  /\ lsq' = IF Allocates(i) THEN lsq \union {i} ELSE lsq
  /\ used_port' = IF Allocates(i) THEN used_port + 1 ELSE used_port
  /\ inflight' = IF Issues(i) THEN inflight \union {i} ELSE inflight
  /\ scoreboard' \in Seq(Nat) /\ reservation' \in Seq(Nat)
  /\ Len(scoreboard') \in Nat /\ Len(reservation') \in Nat
  /\ \A j : OnBoard(j)' <=> OnBoard(j) \/ (Allocates(i) /\ j = i)
  /\ \A j : Queued(j)' <=> Queued(j) /\ ~(Issues(i) /\ j = i)
  /\ \A k, l \in 1 .. Len(reservation') : k < l => reservation'[k] < reservation'[l]
  /\ \A k, l \in 1 .. Len(scoreboard') : scoreboard'[k] = scoreboard'[l] => k = l
  /\ \A k \in 1 .. pos - 1 : reservation'[k] = reservation[k]
  /\ ~Issues(i) => reservation' = reservation
  /\ Len(reservation') = IF Issues(i) THEN Len(reservation) - 1 ELSE Len(reservation)
  /\ scoreboard # <<>> => Head(scoreboard') = Head(scoreboard)
  /\ scoreboard = <<>> /\ scoreboard' # <<>> => Head(scoreboard') = i

LEMMA ConsiderHasEffect ==
  ASSUME TypeOK, AccAgrees, NEW i \in Ids, pos \in 1 .. Len(reservation), i = reservation[pos],
         Consider(pos), ~Allocates(i) \/ mayAllocate(i)
  PROVE  ConsiderEffect(i)
<1>1. /\ insns \in Seq(Insn) /\ Len(insns) \in Nat /\ reservation \in Seq(Nat)
      /\ Len(reservation) \in Nat /\ scoreboard \in Seq(Nat) /\ Len(scoreboard) \in Nat
      /\ i \in Nat
  BY LenProperties DEF TypeOK, Ids
<1>2. /\ lsq' = IF Allocates(i) THEN lsq \union {i} ELSE lsq
      /\ scoreboard' = IF Allocates(i) THEN Append(scoreboard, i) ELSE scoreboard
      /\ used_port' = IF Allocates(i) THEN used_port + 1 ELSE used_port
      /\ reservation' = IF Issues(i) THEN RemoveAt(reservation, pos) ELSE reservation
      /\ inflight' = IF Issues(i) THEN inflight \union {i} ELSE inflight
      /\ insns' = [insns EXCEPT
           ![i].status = IF Issues(i) THEN "ISSUED"
                         ELSE IF Allocates(i) THEN "ALLOCATED" ELSE @,
           ![i].cycle = IF Issues(i) /\ @ < insns[i].op.lat THEN @ + 1 ELSE @]
  BY DEF Consider, Allocates, Issues
<1>3. /\ insns' \in Seq(Insn) /\ Len(insns') = Len(insns)
      /\ \A j \in Ids : insns'[j].op = insns[j].op /\ insns'[j].hw = insns[j].hw
                    /\ insns'[j].dynID = insns[j].dynID /\ insns'[j].pos = insns[j].pos
                    /\ insns'[j].deps = insns[j].deps
      /\ \A j \in Ids : j # i => insns'[j] = insns[j]
      /\ insns'[i].status = IF Issues(i) THEN "ISSUED"
                            ELSE IF Allocates(i) THEN "ALLOCATED" ELSE insns[i].status
  <2> DEFINE st == IF Issues(i) THEN "ISSUED"
                   ELSE IF Allocates(i) THEN "ALLOCATED" ELSE insns[i].status
             cy == IF Issues(i) /\ insns[i].cycle < insns[i].op.lat
                   THEN insns[i].cycle + 1 ELSE insns[i].cycle
             one == [insns EXCEPT ![i].status = st]
             two == [one EXCEPT ![i].cycle = cy]
  <2>1. insns[i] \in Insn /\ insns \in [Ids -> Insn]
    BY <1>1, ElementOfSeq, LenProperties DEF Ids
  <2>2. cy \in Nat /\ st \in {"INIT", "ALLOCATED", "ISSUED", "FINISHED", "COMMITED"}
    BY <2>1 DEF Insn
  <2>3. insns' = two
    <3>1. one[i].cycle = insns[i].cycle
      BY <2>1 DEF Insn
    <3> HIDE DEF st
    <3>2. QED
      BY <1>2, <3>1 DEF st
  <2> HIDE DEF st, cy
  <2>4. /\ one \in [Ids -> Insn]
        /\ \A j \in Ids : j # i => one[j] = insns[j]
        /\ one[i] = [insns[i] EXCEPT !.status = st]
    BY <2>1, <2>2 DEF Insn
  <2>5. /\ one[i].op = insns[i].op /\ one[i].hw = insns[i].hw /\ one[i].dynID = insns[i].dynID
        /\ one[i].pos = insns[i].pos /\ one[i].deps = insns[i].deps /\ one[i].status = st
    BY <2>1, <2>4 DEF Insn
  <2> HIDE DEF one
  <2>6. /\ two \in [Ids -> Insn]
        /\ \A j \in Ids : j # i => two[j] = one[j]
        /\ two[i] = [one[i] EXCEPT !.cycle = cy]
    <3>1. one[i] \in Insn
      BY <2>4
    <3>2. [one[i] EXCEPT !.cycle = cy] \in Insn
      BY <2>2, <3>1 DEF Insn
    <3>3. QED
      BY <2>4, <3>2
  <2>7. /\ two[i].op = one[i].op /\ two[i].hw = one[i].hw /\ two[i].dynID = one[i].dynID
        /\ two[i].pos = one[i].pos /\ two[i].deps = one[i].deps /\ two[i].status = one[i].status
    BY <2>4, <2>6 DEF Insn
  <2> HIDE DEF two
  <2>8. two \in Seq(Insn) /\ Len(two) = Len(insns)
    BY <2>6, <1>1, FunctionIsSeq DEF Ids
  <2>9. QED
    <3>1. \A j \in Ids : j # i => two[j] = insns[j]
      BY <2>4, <2>6
    <3>2. /\ two[i].op = insns[i].op /\ two[i].hw = insns[i].hw
          /\ two[i].dynID = insns[i].dynID /\ two[i].pos = insns[i].pos
          /\ two[i].deps = insns[i].deps /\ two[i].status = st
      BY <2>5, <2>7
    <3>3. \A j \in Ids :
            /\ two[j].op = insns[j].op /\ two[j].hw = insns[j].hw
            /\ two[j].dynID = insns[j].dynID /\ two[j].pos = insns[j].pos
            /\ two[j].deps = insns[j].deps
      BY <3>1, <3>2
    <3>4. QED
      BY <2>3, <2>8, <3>1, <3>2, <3>3 DEF st
<1>4. /\ scoreboard' \in Seq(Nat) /\ Len(scoreboard') \in Nat
      /\ \A j : OnBoard(j)' <=> OnBoard(j) \/ (Allocates(i) /\ j = i)
      /\ \A k, l \in 1 .. Len(scoreboard') : scoreboard'[k] = scoreboard'[l] => k = l
      /\ scoreboard # <<>> => Head(scoreboard') = Head(scoreboard)
      /\ scoreboard = <<>> /\ scoreboard' # <<>> => Head(scoreboard') = i
  <2>1. CASE ~Allocates(i)
    BY <2>1, <1>1, <1>2 DEF OnBoard, AccAgrees
  <2>2. CASE Allocates(i)
    <3> DEFINE n == Len(scoreboard)
    <3>1. scoreboard' = Append(scoreboard, i)
      BY <2>2, <1>2
    <3>2. /\ scoreboard' \in Seq(Nat) /\ n \in Nat /\ Len(scoreboard') = n + 1
          /\ scoreboard'[n + 1] = i
          /\ \A k \in 1 .. n : scoreboard'[k] = scoreboard[k]
      BY <3>1, <1>1, AppendIs
    <3>3. ~OnBoard(i)
      BY <2>2 DEF Allocates, AccAgrees
    <3>4. \A k \in 1 .. n : scoreboard[k] # i
      BY <3>3 DEF OnBoard
    <3>5. \A k, l \in 1 .. n : scoreboard[k] = scoreboard[l] => k = l
      BY DEF AccAgrees
    <3>6. \A j : OnBoard(j) <=> \E k \in 1 .. n : scoreboard[k] = j
      BY DEF OnBoard
    <3>7. \A j : OnBoard(j)' <=> \E k \in 1 .. n + 1 : scoreboard'[k] = j
      BY <3>2 DEF OnBoard
    <3>8. /\ scoreboard # <<>> => 1 \in 1 .. n /\ Head(scoreboard) = scoreboard[1]
          /\ Head(scoreboard') = scoreboard'[1] /\ (scoreboard = <<>> => n = 0)
      <4>1. scoreboard # <<>> => n # 0
        BY <1>1, EmptySeq
      <4>2. Len(scoreboard') # 0
        BY <3>2
      <4>3. scoreboard' # <<>>
        BY <4>2, EmptySeq
      <4>4. QED
        BY <3>2, <4>1, <4>3, <1>1, HeadTailProperties, EmptySeq
    <3> HIDE DEF n
    <3>9. \A k \in 1 .. n + 1 : k \in 1 .. n \/ k = n + 1
      BY <3>2
    <3>10. \A k \in 1 .. n : k \in 1 .. n + 1
      BY <3>2
    <3>11. n + 1 \in 1 .. n + 1 /\ (n = 0 => n + 1 = 1)
      BY <3>2
    <3>12. \A j : OnBoard(j)' <=> OnBoard(j) \/ j = i
      BY <3>2, <3>6, <3>7, <3>9, <3>10, <3>11
    <3>13. \A k, l \in 1 .. n + 1 : scoreboard'[k] = scoreboard'[l] => k = l
      BY <3>2, <3>4, <3>5, <3>9
    <3>14. QED
      BY <2>2, <3>2, <3>8, <3>11, <3>12, <3>13
  <2>3. QED
    BY <2>1, <2>2
<1>5. /\ reservation' \in Seq(Nat) /\ Len(reservation') \in Nat
      /\ \A j : Queued(j)' <=> Queued(j) /\ ~(Issues(i) /\ j = i)
      /\ \A k, l \in 1 .. Len(reservation') : k < l => reservation'[k] < reservation'[l]
      /\ \A k \in 1 .. pos - 1 : reservation'[k] = reservation[k]
      /\ ~Issues(i) => reservation' = reservation
      /\ Len(reservation') = IF Issues(i) THEN Len(reservation) - 1 ELSE Len(reservation)
  <2>1. CASE ~Issues(i)
    BY <2>1, <1>1, <1>2 DEF Queued, AccAgrees
  <2>2. CASE Issues(i)
    <3> DEFINE n == Len(reservation)
    <3>1. reservation' = RemoveAt(reservation, pos)
      BY <2>2, <1>2
    <3>2. /\ reservation' \in Seq(Nat) /\ Len(reservation') = n - 1
          /\ \A k \in 1 .. n - 1 :
               reservation'[k] = IF k < pos THEN reservation[k] ELSE reservation[k + 1]
      BY <3>1, <1>1, RemoveAtIs
    <3>3. /\ \A k, l \in 1 .. n : k < l => reservation[k] < reservation[l]
          /\ \A k \in 1 .. n : reservation[k] \in Nat
          /\ n \in Nat /\ pos \in 1 .. n
      BY <1>1, ElementOfSeq DEF AccAgrees
    <3>4. \A j : Queued(j) <=> \E k \in 1 .. n : reservation[k] = j
      BY DEF Queued
    <3>5. \A j : Queued(j)' <=> \E k \in 1 .. n - 1 : reservation'[k] = j
      BY <3>2 DEF Queued
    <3> HIDE DEF n
    <3>6. /\ \A k \in 1 .. n - 1 : k \in 1 .. n /\ k + 1 \in 1 .. n
          /\ n - 1 \in Nat /\ \A k \in 1 .. pos - 1 : k \in 1 .. n - 1 /\ k < pos
          /\ \A k, l \in 1 .. n - 1 : k < l => k < l + 1 /\ k + 1 < l + 1
          /\ \A k, l \in 1 .. n - 1 : k < l /\ l < pos => k < pos
      BY <3>3
    <3>7. ASSUME NEW k \in 1 .. n - 1, NEW l \in 1 .. n - 1, k < l
          PROVE  reservation'[k] < reservation'[l]
      <4>1. /\ k \in 1 .. n /\ l \in 1 .. n /\ k + 1 \in 1 .. n /\ l + 1 \in 1 .. n
            /\ k < l + 1 /\ k + 1 < l + 1 /\ (l < pos => k < pos)
        BY <3>6, <3>7
      <4>2. /\ reservation[k] < reservation[l] /\ reservation[k] < reservation[l + 1]
            /\ reservation[k + 1] < reservation[l + 1]
        BY <4>1, <3>3, <3>7
      <4>3. QED
        BY <4>1, <4>2, <3>2
    <3>8. ASSUME NEW j, NEW k \in 1 .. n, reservation[k] = j, j # i
          PROVE  \E m \in 1 .. n - 1 : reservation'[m] = j
      <4>1. k # pos
        BY <3>8
      <4>2. CASE k < pos
        <5>1. k \in 1 .. n - 1
          BY <4>2, <3>3
        <5>2. QED
          BY <5>1, <4>2, <3>2, <3>8
      <4>3. CASE pos < k
        <5> DEFINE m == k - 1
        <5>1. m \in 1 .. n - 1 /\ m + 1 = k /\ ~(m < pos)
          BY <4>3, <3>3
        <5> HIDE DEF m
        <5>2. QED
          BY <5>1, <3>2, <3>8
      <4>4. QED
        BY <4>1, <4>2, <4>3, <3>3
    <3>9. ASSUME NEW k \in 1 .. n - 1
          PROVE  reservation'[k] # i /\ \E m \in 1 .. n : reservation[m] = reservation'[k]
      <4>1. k \in 1 .. n /\ k + 1 \in 1 .. n
        BY <3>6
      <4>2. CASE k < pos
        <5>1. reservation'[k] = reservation[k] /\ reservation[k] < reservation[pos]
          BY <4>1, <4>2, <3>2, <3>3
        <5>2. QED
          BY <4>1, <5>1, <3>3
      <4>3. CASE ~(k < pos)
        <5>1. pos < k + 1
          BY <4>3, <3>3
        <5>2. reservation'[k] = reservation[k + 1] /\ reservation[pos] < reservation[k + 1]
          BY <4>1, <4>3, <5>1, <3>2, <3>3
        <5>3. QED
          BY <4>1, <5>2, <3>3
      <4>4. QED
        BY <4>2, <4>3
    <3>10. \A j : Queued(j)' <=> Queued(j) /\ j # i
      BY <3>4, <3>5, <3>8, <3>9
    <3>11. \A k \in 1 .. pos - 1 : reservation'[k] = reservation[k]
      BY <3>2, <3>6
    <3>12. QED
      BY <2>2, <3>2, <3>6, <3>7, <3>10, <3>11 DEF n
  <2>3. QED
    BY <2>1, <2>2
<1>6. QED
  BY <1>2, <1>3, <1>4, <1>5 DEF ConsiderEffect, Ids
(* The load/store unit does not empty during the pass.                     *)
LEMMA FullStaysFull ==
  ASSUME TypeOK, NEW i \in Ids, ConsiderEffect(i), NEW j \in Ids, ~mayAllocate(j)
  PROVE  (~mayAllocate(j))'
<1>1. /\ lsq \subseteq lsq' /\ IsFiniteSet(lsq') /\ used_port \in Nat /\ used_port' \in Nat
      /\ used_port <= used_port' /\ lsq' \subseteq Ids
  <2>1. IsFiniteSet(Ids)
    BY LenProperties, FS_Interval DEF Ids, TypeOK
  <2>2. lsq \subseteq lsq' /\ lsq' \subseteq Ids
    BY DEF ConsiderEffect, TypeOK
  <2>3. used_port \in Nat /\ used_port' \in Nat /\ used_port <= used_port'
    BY DEF ConsiderEffect, TypeOK
  <2>4. IsFiniteSet(lsq')
    BY <2>1, <2>2, FS_Subset
  <2>5. QED
    BY <2>2, <2>3, <2>4
<1>2. ASSUME NEW kind
      PROVE  LET held == {k \in lsq : Is({kind}, k)}
                 held2 == {k \in lsq' : insns'[k].op.kind \in {kind}}
             IN  Cardinality(held) \in Nat /\ Cardinality(held2) \in Nat
                 /\ Cardinality(held) <= Cardinality(held2)
  <2> DEFINE held == {k \in lsq : Is({kind}, k)}
             held2 == {k \in lsq' : insns'[k].op.kind \in {kind}}
  <2>1. held \subseteq held2
    BY <1>1 DEF ConsiderEffect, Is, TypeOK
  <2>2. held2 \subseteq lsq'
    OBVIOUS
  <2> HIDE DEF held, held2
  <2>3. IsFiniteSet(held2) /\ IsFiniteSet(held) /\ Cardinality(held) <= Cardinality(held2)
    BY <2>1, <2>2, <1>1, FS_Subset
  <2>4. QED
    BY <2>3, FS_CardinalityType DEF held, held2
<1>3. ifLDQFull => ifLDQFull'
  <2> DEFINE a == Cardinality({k \in lsq : Is({"load"}, k)})
             b == Cardinality({k \in lsq' : insns'[k].op.kind \in {"load"}})
  <2>1. a \in Nat /\ b \in Nat /\ a <= b /\ LdqSize \in Nat
    BY <1>2, LimitAssumption
  <2>2. (ifLDQFull <=> a >= LdqSize) /\ (ifLDQFull' <=> b >= LdqSize)
    BY DEF ifLDQFull, Is
  <2> HIDE DEF a, b
  <2>3. QED
    BY <2>1, <2>2
<1>4. ifSTQFull => ifSTQFull'
  <2> DEFINE a == Cardinality({k \in lsq : Is({"store"}, k)})
             b == Cardinality({k \in lsq' : insns'[k].op.kind \in {"store"}})
  <2>1. a \in Nat /\ b \in Nat /\ a <= b /\ StqSize \in Nat
    BY <1>2, LimitAssumption
  <2>2. (ifSTQFull <=> a >= StqSize) /\ (ifSTQFull' <=> b >= StqSize)
    BY DEF ifSTQFull, Is
  <2> HIDE DEF a, b
  <2>3. QED
    BY <2>1, <2>2
<1>5. ~(used_port < LsuPorts) => ~(used_port' < LsuPorts)
  BY <1>1, LimitAssumption
<1>6. QED
  BY <1>3, <1>4, <1>5 DEF mayAllocate

(* The pass goes on behind instruction i.                                  *)
PassStep == pos' = IF Len(reservation') < Len(reservation) THEN pos ELSE pos + 1

(* What a step of the pass leaves.                                         *)
IssueEnds ==
  /\ AccAgrees' /\ Accounted' /\ OrderAgrees' /\ DepsAgree' /\ PassAgrees' /\ HeadRuns'
  /\ ~isFinish' /\ insns' \in Seq(Insn) /\ reservation' \in Seq(Nat)
  /\ scoreboard' \in Seq(Nat) /\ inflight' \in SUBSET Ids' /\ lsq' \in SUBSET Ids'
  /\ used_port' \in Nat /\ Len(insns') = Len(insns)
  /\ \A j \in Ids : insns'[j].op = insns[j].op /\ insns'[j].hw = insns[j].hw
                    /\ insns'[j].dynID = insns[j].dynID
                    /\ (~IsAcc(j) => insns'[j] = insns[j])

LEMMA IssueEffectAgrees ==
  ASSUME TypeOK, AccAgrees, Accounted, OrderAgrees, DepsAgree, PassAgrees, HeadRuns,
         stage = "accIssue", pos \in 1 .. Len(reservation), NEW i \in Ids, i = reservation[pos],
         ConsiderEffect(i), ~Allocates(i) \/ mayAllocate(i), PassStep, UNCHANGED <<scenario, stage>>
  PROVE  IssueEnds
<1>1. /\ IsAcc(i) /\ insns[i].status \in {"INIT", "ALLOCATED"} /\ i \notin inflight
      /\ Queued(i) /\ ~Started(i)
  <2>1. Queued(i)
    BY DEF Queued
  <2>2. QED
    BY <2>1 DEF AccAgrees, Started
<1>2. Ids' = Ids /\ Len(reservation) \in Nat /\ pos \in Nat
  BY LenProperties DEF TypeOK, ConsiderEffect
<1>3. ASSUME NEW j \in Ids
      PROVE  /\ IsAcc(j)' = IsAcc(j) /\ (isMem(insns[j].op))' = isMem(insns[j].op)
             /\ insns'[j].op = insns[j].op /\ Uid(j)' = Uid(j)
             /\ insns'[j].deps = insns[j].deps
  BY Zenon DEF ConsiderEffect, IsAcc, Uid, isMem
<1>4. ASSUME NEW j \in Ids, j # i
      PROVE  /\ insns'[j] = insns[j] /\ Ended(j)' = Ended(j) /\ Started(j)' = Started(j)
             /\ (j \in inflight' <=> j \in inflight)
             /\ (Queued(j)' <=> Queued(j)) /\ (OnBoard(j)' <=> OnBoard(j))
  <2>1. insns'[j] = insns[j]
    BY <1>4 DEF ConsiderEffect
  <2>2. Ended(j)' = Ended(j) /\ Started(j)' = Started(j)
    BY <2>1, Zenon DEF Ended, Started, Is
  <2>3. QED
    BY <2>1, <2>2, <1>4 DEF ConsiderEffect
<1>5. /\ IF Issues(i) THEN i \in inflight' /\ ~Queued(i)' ELSE i \notin inflight' /\ Queued(i)'
      /\ OnBoard(i)' <=> OnBoard(i) \/ Allocates(i)
      /\ insns'[i].status = IF Issues(i) THEN "ISSUED"
                            ELSE IF Allocates(i) THEN "ALLOCATED" ELSE insns[i].status
  BY <1>1 DEF ConsiderEffect
<1>6. \A j \in Ids : Done(j)' <=> Done(j)
  <2>1. ~Done(i) /\ ~Done(i)'
    BY <1>1, <1>5 DEF Done, Started
  <2>2. \A j \in Ids : j # i => (Done(j)' <=> Done(j))
    BY <1>4 DEF Done
  <2>3. QED
    BY <2>1, <2>2
<1>7. \A j : Queued(j) \/ OnBoard(j) \/ j \in inflight => j \in Ids
  BY DEF AccAgrees, Queued, OnBoard, TypeOK
<1>8. \A j : Queued(j)' \/ OnBoard(j)' \/ j \in inflight' => j \in Ids
  BY <1>7 DEF ConsiderEffect
<1>9. isMem(insns[i].op) /\ ~Allocates(i) => insns[i].status = "ALLOCATED" /\ OnBoard(i)
  BY <1>1 DEF Allocates, Accounted
<1>10. AccAgrees'
  <2>1. ASSUME NEW j \in Ids
        PROVE  /\ Queued(j)' => IsAcc(j)' /\ insns'[j].status \in {"INIT", "ALLOCATED"}
               /\ j \in inflight' => IsAcc(j)' /\ insns'[j].status \in {"ISSUED", "COMMITED"}
               /\ OnBoard(j)' => /\ IsAcc(j)' /\ (isMem(insns[j].op))'
                                 /\ insns'[j].status \in {"ALLOCATED", "ISSUED"}
                                 /\ Queued(j)' \/ j \in inflight' \/ Ended(j)'
    <3>1. /\ Queued(j) => IsAcc(j) /\ insns[j].status \in {"INIT", "ALLOCATED"}
          /\ j \in inflight => IsAcc(j) /\ insns[j].status \in {"ISSUED", "COMMITED"}
          /\ OnBoard(j) => /\ IsAcc(j) /\ isMem(insns[j].op)
                           /\ insns[j].status \in {"ALLOCATED", "ISSUED"}
                           /\ Queued(j) \/ j \in inflight \/ Ended(j)
      BY Zenon DEF AccAgrees
    <3>2. CASE j # i
      BY <3>1, <3>2, <1>3, <1>4
    <3>3. CASE j = i
      <4>1. Queued(i)' => insns'[i].status \in {"INIT", "ALLOCATED"}
        BY <1>1, <1>5
      <4>2. i \in inflight' => insns'[i].status \in {"ISSUED", "COMMITED"}
        BY <1>5
      <4>3. OnBoard(i)' => /\ isMem(insns[i].op) /\ insns'[i].status \in {"ALLOCATED", "ISSUED"}
                           /\ Queued(i)' \/ i \in inflight'
        <5>1. OnBoard(i)' => isMem(insns[i].op)
          BY <1>5, <3>1, <3>3 DEF Allocates
        <5>2. OnBoard(i) => insns[i].status = "ALLOCATED"
          BY <3>1, <3>3, <1>1
        <5>3. QED
          BY <5>1, <5>2, <1>5
      <4>4. QED
        BY <3>3, <4>1, <4>2, <4>3, <1>1, <1>3
    <3>4. QED
      BY <3>2, <3>3
  <2>2. /\ \A k, l \in 1 .. Len(reservation') : k < l => reservation'[k] < reservation'[l]
        /\ \A k, l \in 1 .. Len(scoreboard') : scoreboard'[k] = scoreboard'[l] => k = l
    BY Zenon DEF ConsiderEffect
  <2>3. /\ \A k \in 1 .. Len(reservation') : reservation'[k] \in Ids'
        /\ \A k \in 1 .. Len(scoreboard') : scoreboard'[k] \in Ids'
    <3>1. /\ \A k \in 1 .. Len(reservation') : \E m \in 1 .. Len(reservation') : reservation'[m] = reservation'[k]
          /\ \A k \in 1 .. Len(scoreboard') : \E m \in 1 .. Len(scoreboard') : scoreboard'[m] = scoreboard'[k]
      OBVIOUS
    <3>2. /\ \A j : (\E k \in 1 .. Len(reservation') : reservation'[k] = j) => j \in Ids
          /\ \A j : (\E k \in 1 .. Len(scoreboard') : scoreboard'[k] = j) => j \in Ids
      BY <1>8, Zenon DEF Queued, OnBoard
    <3>3. QED
      BY <3>1, <3>2, <1>2
  <2>4. QED
    BY <2>1, <2>2, <2>3, <1>2, Zenon DEF AccAgrees
<1>11. Accounted'
  <2>1. ASSUME NEW j \in Ids, IsAcc(j)
        PROVE  /\ insns'[j].status # "COMMITED" => Queued(j)' \/ j \in inflight' \/ OnBoard(j)'
               /\ isMem(insns[j].op) /\ insns'[j].status \notin {"INIT", "COMMITED"} => OnBoard(j)'
    <3>1. /\ insns[j].status # "COMMITED" => Queued(j) \/ j \in inflight \/ OnBoard(j)
          /\ isMem(insns[j].op) /\ insns[j].status \notin {"INIT", "COMMITED"} => OnBoard(j)
      BY <2>1 DEF Accounted
    <3>2. CASE j # i
      BY <3>1, <3>2, <1>4
    <3>3. CASE j = i
      BY <3>3, <1>5, <1>9
    <3>4. QED
      BY <3>2, <3>3
  <2>2. QED
    BY <2>1, <1>2, <1>3, Zenon DEF Accounted
<1>12. \A op : IsStatic(op)' = IsStatic(op)
  BY DEF IsStatic, Names, Blocks
<1>13. OrderAgrees'
  <2>1. ASSUME NEW j \in Ids, IsAcc(j) PROVE (IsStatic(insns[j].op))'
    BY <2>1, <1>3, <1>12 DEF OrderAgrees
  <2>2. ASSUME NEW x \in Ids, NEW y \in Ids, IsAcc(x), IsAcc(y), x < y
        PROVE  /\ isMem(insns[x].op) /\ isMem(insns[y].op) /\ insns'[x].status = "INIT"
                    => insns'[y].status = "INIT"
               /\ Uid(x) = Uid(y) /\ Started(y)' => Done(x)
    <3>1. /\ isMem(insns[x].op) /\ isMem(insns[y].op) /\ insns[x].status = "INIT"
               => insns[y].status = "INIT"
          /\ Uid(x) = Uid(y) /\ Started(y) => Done(x)
      BY <2>2 DEF OrderAgrees
    <3>2. x # y
      BY <2>2 DEF Ids
    <3>3. CASE y # i
      <4>1. insns'[x].status = "INIT" => insns[x].status = "INIT"
        BY <1>4, <1>5
      <4>2. QED
        BY <3>1, <3>3, <4>1, <1>4
    <3>4. CASE y = i
      <4>1. /\ isMem(insns[x].op) /\ isMem(insns[i].op) /\ insns[x].status = "INIT"
                 => insns[i].status # "INIT"
            /\ ~UIDActive(i) /\ ready(i) /\ Uid(x) = Uid(i) => Done(x)
        <5>1. isMem(insns[i].op) /\ insns[i].status = "INIT" => mayAllocate(i)
          BY DEF Allocates
        <5>2. QED
          BY <5>1, <2>2, <3>4, InstancesInOrder
      <4>2. insns'[x].status = insns[x].status
        BY <3>2, <3>4, <1>4
      <4>3. ~(isMem(insns[x].op) /\ isMem(insns[y].op) /\ insns'[x].status = "INIT")
        BY <3>1, <3>4, <4>1, <4>2
      <4>4. Started(i)' => Issues(i)
        BY <1>1, <1>5 DEF Started
      <4>5. QED
        BY <3>4, <4>1, <4>3, <4>4 DEF Issues
    <3>5. QED
      BY <3>3, <3>4
  <2>3. QED
    BY <2>1, <2>2, <1>2, <1>3, <1>6, Zenon DEF OrderAgrees
<1>14. ASSUME NEW x \in Ids, NEW j \in Ids PROVE LatestBefore(x, j)' => LatestBefore(x, j)
  BY <1>2, <1>3, Zenon DEF LatestBefore
<1>15. DepsAgree'
  <2>1. SUFFICES ASSUME NEW j \in Ids, IsAcc(j)
        PROVE  /\ Started(j)' => insns[j].deps = {}
               /\ \A d \in insns[j].deps :
                    /\ d \in Ids' /\ d < j /\ IsAcc(d)' /\ ~Done(d)'
                    /\ Uid(d)' \in insns[j].op.deps
                    /\ insns[j].op.kind # "phi"
               /\ insns[j].op.kind # "phi" =>
                    \A x \in Ids : LatestBefore(x, j)' /\ Uid(x)' \in insns[j].op.deps =>
                      Done(x)' \/ x \in insns[j].deps
    BY <1>2, <1>3, Zenon DEF DepsAgree
  <2>2. /\ Started(j) => insns[j].deps = {}
        /\ \A d \in insns[j].deps :
             /\ d \in Ids /\ d < j /\ IsAcc(d) /\ ~Done(d)
             /\ Uid(d) \in insns[j].op.deps
             /\ insns[j].op.kind # "phi"
        /\ insns[j].op.kind # "phi" =>
             \A x \in Ids : LatestBefore(x, j) /\ Uid(x) \in insns[j].op.deps =>
               Done(x) \/ x \in insns[j].deps
    BY <2>1, Zenon DEF DepsAgree
  <2>3. Started(j)' => insns[j].deps = {}
    <3>1. CASE j # i
      BY <3>1, <2>2, <1>4
    <3>2. CASE j = i
      BY <3>2, <1>1, <1>5 DEF Started, Issues, ready
    <3>3. QED
      BY <3>1, <3>2
  <2>4. \A d \in insns[j].deps :
             /\ d \in Ids' /\ d < j /\ IsAcc(d)' /\ ~Done(d)'
             /\ Uid(d)' \in insns[j].op.deps
             /\ insns[j].op.kind # "phi"
    BY <2>2, <1>2, <1>3, <1>6
  <2>5. insns[j].op.kind # "phi" =>
          \A x \in Ids : LatestBefore(x, j)' /\ Uid(x)' \in insns[j].op.deps =>
            Done(x)' \/ x \in insns[j].deps
    BY <2>1, <2>2, <1>3, <1>6, <1>14
  <2>6. QED
    BY <2>3, <2>4, <2>5
<1>16. \A j \in Ids : UIDActive(j) \/ ~ready(j) => (UIDActive(j) \/ ~ready(j))'
  <2>1. ASSUME NEW j \in Ids, UIDActive(j) PROVE UIDActive(j)'
    <3>1. PICK k \in inflight : insns[k].op.uid = insns[j].op.uid
      BY <2>1 DEF UIDActive
    <3>2. k \in inflight' /\ insns'[k].op.uid = insns'[j].op.uid
      BY <3>1, <1>3, <1>7 DEF ConsiderEffect
    <3>3. QED
      BY <3>2 DEF UIDActive
  <2>2. ASSUME NEW j \in Ids, ~ready(j) PROVE (~ready(j))'
    BY <2>2, <1>3 DEF ready
  <2>3. QED
    BY <2>1, <2>2
<1>17. ASSUME NEW j \in Ids, Blocked(j) PROVE Blocked(j)'
  <2>1. CASE Allocates(j)
    <3>1. ~mayAllocate(j)
      BY <2>1, <1>17 DEF Blocked, Allocates
    <3>2. (~mayAllocate(j))'
      BY <3>1, FullStaysFull
    <3>3. j # i
      BY <2>1, <3>1
    <3>4. (isMem(insns[j].op))' /\ insns'[j].status = "INIT"
      BY <2>1, <3>3, <1>3, <1>4 DEF Allocates
    <3>5. QED
      BY <3>2, <3>4 DEF Blocked
  <2>2. CASE ~Allocates(j)
    <3>1. (UIDActive(j) \/ ~ready(j))'
      BY <2>2, <1>16, <1>17 DEF Blocked, Allocates
    <3>2. ~((isMem(insns[j].op))' /\ insns'[j].status = "INIT")
      BY <2>2, <1>3, <1>4, <1>5 DEF Allocates
    <3>3. QED
      BY <3>1, <3>2 DEF Blocked
  <2>3. QED
    BY <2>1, <2>2
<1>18. PassAgrees'
  <2>1. pos' = IF Issues(i) THEN pos ELSE pos + 1
    BY <1>2 DEF PassStep, ConsiderEffect
  <2>2. pos' >= 1 /\ pos' <= Len(reservation') + 1
    BY <2>1, <1>2 DEF ConsiderEffect
  <2>3. ASSUME NEW j \in Ids, NEW k \in 1 .. pos' - 1, reservation'[k] = j PROVE Blocked(j)'
    <3>1. k \in 1 .. pos - 1 \/ (k = pos /\ ~Issues(i))
      BY <2>1, <1>2
    <3>2. CASE k \in 1 .. pos - 1
      <4>1. reservation[k] = j
        BY <2>3, <3>2 DEF ConsiderEffect
      <4>2. Blocked(j)
        BY <3>2, <4>1 DEF PassAgrees
      <4>3. QED
        BY <4>2, <1>17
    <3>3. CASE k = pos /\ ~Issues(i)
      <4>1. j = i
        BY <2>3, <3>3 DEF ConsiderEffect
      <4>2. (UIDActive(i) \/ ~ready(i))'
        BY <3>3, <1>16 DEF Issues
      <4>3. ~((isMem(insns[i].op))' /\ insns'[i].status = "INIT")
        BY <3>3, <1>3, <1>5 DEF Allocates
      <4>4. QED
        BY <4>1, <4>2, <4>3 DEF Blocked
    <3>4. QED
      BY <3>1, <3>2, <3>3
  <2>4. \A j \in Ids' : (\E k \in 1 .. pos' - 1 : reservation'[k] = j) => Blocked(j)'
    BY <2>3, <1>2
  <2>5. QED
    BY <2>2, <2>4, Zenon DEF PassAgrees
<1>19. HeadRuns'
  <2>1. SUFFICES ASSUME scoreboard' # <<>>
        PROVE  \E j \in Ids : j = Head(scoreboard') /\ (Queued(j)' \/ j \in inflight')
    BY <1>2, Zenon DEF HeadRuns
  <2>2. CASE scoreboard = <<>>
    BY <2>1, <2>2, <1>5 DEF ConsiderEffect
  <2>3. CASE scoreboard # <<>>
    <3>1. PICK j \in Ids : j = Head(scoreboard) /\ (Queued(j) \/ j \in inflight)
      BY <2>3 DEF HeadRuns
    <3>2. Queued(j)' \/ j \in inflight'
      BY <3>1, <1>4, <1>5
    <3>3. QED
      BY <2>3, <3>1, <3>2 DEF ConsiderEffect
  <2>4. QED
    BY <2>2, <2>3
<1>20. ~isFinish'
  <2>1. CASE Issues(i)
    BY <2>1, <1>5 DEF isFinish
  <2>2. CASE ~Issues(i)
    <3>1. reservation' = reservation /\ Len(reservation) # 0
      BY <2>2, <1>2 DEF ConsiderEffect
    <3>2. QED
      BY <3>1, EmptySeq DEF isFinish
  <2>3. QED
    BY <2>1, <2>2
<1>21. /\ insns' \in Seq(Insn) /\ reservation' \in Seq(Nat) /\ scoreboard' \in Seq(Nat)
       /\ inflight' \in SUBSET Ids' /\ lsq' \in SUBSET Ids' /\ used_port' \in Nat
       /\ Len(insns') = Len(insns)
  <2>1. inflight \in SUBSET Ids /\ lsq \in SUBSET Ids /\ used_port \in Nat
    BY DEF TypeOK
  <2>2. inflight' \in SUBSET Ids' /\ lsq' \in SUBSET Ids' /\ used_port' \in Nat
    <3>1. inflight' \subseteq Ids /\ lsq' \subseteq Ids
      BY <2>1, <1>8 DEF ConsiderEffect
    <3>2. used_port' \in Nat
      BY <2>1 DEF ConsiderEffect
    <3>3. QED
      BY <3>1, <3>2, <1>2
  <2>3. QED
    BY <2>2, Zenon DEF ConsiderEffect
<1>22. \A j \in Ids : insns'[j].op = insns[j].op /\ insns'[j].hw = insns[j].hw
                    /\ insns'[j].dynID = insns[j].dynID
                    /\ (~IsAcc(j) => insns'[j] = insns[j])
  BY <1>1 DEF ConsiderEffect
<1>23. QED
  BY <1>10, <1>11, <1>13, <1>15, <1>18, <1>19, <1>20, <1>21, <1>22 DEF IssueEnds

LEMMA IssueStep ==
  ASSUME TypeOK, AccAgrees, Accounted, OrderAgrees, DepsAgree, PassAgrees, HeadRuns,
         stage = "accIssue", pos \in 1 .. Len(reservation), Consider(pos),
         PassStep, UNCHANGED <<scenario, stage>>
  PROVE  IssueEnds
<1> DEFINE i == reservation[pos]
<1>1. /\ i \in Ids /\ IsAcc(i) /\ insns[i].status \in {"INIT", "ALLOCATED"} /\ i \notin inflight
      /\ Queued(i) /\ ~Started(i)
  <2>1. i \in Ids /\ Queued(i)
    BY DEF AccAgrees, Queued
  <2>2. QED
    BY <2>1 DEF AccAgrees, Started
<1>2. Len(reservation) \in Nat /\ reservation # <<>> /\ pos \in Nat
  BY LenProperties, EmptySeq DEF TypeOK
<1>3. CASE Allocates(i) /\ ~mayAllocate(i)
  <2>1. UNCHANGED <<insns, lsq, scoreboard, used_port, reservation, inflight>>
    BY <1>3, Zenon DEF Consider, Allocates
  <2>2. pos' = pos + 1
    BY <2>1, <1>2 DEF PassStep
  <2>3. UNCHANGED <<Ids, isFinish>> /\ Ids' = Ids
    BY <2>1 DEF Ids, isFinish
  <2>4. ~isFinish
    BY <1>2 DEF isFinish
  <2>5. HostOnly
    BY <2>1, <1>2, LenProperties DEF HostOnly, StaysFor, TypeOK, Ids
  <2>6. AccAgrees' /\ Accounted' /\ OrderAgrees' /\ DepsAgree'
    BY <2>5, HostStep
  <2>10. HeadRuns'
    BY <2>1, Zenon DEF HeadRuns, Queued, Ids
  <2>7. \A j : (Blocked(j))' = Blocked(j)
    BY <2>1, Zenon DEF Blocked, isMem, mayAllocate, ifLDQFull, ifSTQFull, UIDActive, ready, Is
  <2>8. PassAgrees'
    <3>1. ASSUME NEW j \in Ids, NEW k \in 1 .. pos' - 1, reservation[k] = j PROVE Blocked(j)
      <4>1. k \in 1 .. pos - 1 \/ k = pos
        BY <2>2, <1>2, <3>1
      <4>2. CASE k = pos
        BY <4>2, <3>1, <1>3 DEF Blocked, Allocates
      <4>3. CASE k \in 1 .. pos - 1
        BY <4>3, <3>1 DEF PassAgrees
      <4>4. QED
        BY <4>1, <4>2, <4>3
    <3>2. pos' >= 1 /\ pos' <= Len(reservation') + 1
      BY <2>1, <2>2, <1>2
    <3>3. \A j \in Ids : (\E k \in 1 .. pos' - 1 : reservation[k] = j) => Blocked(j)'
      BY <3>1, <2>7
    <3>4. QED
      BY <2>1, <2>3, <3>2, <3>3 DEF PassAgrees
  <2>9. QED
    BY <2>1, <2>3, <2>4, <2>6, <2>8, <2>10 DEF TypeOK, IssueEnds
<1>4. CASE ~Allocates(i) \/ mayAllocate(i)
  <2>1. ConsiderEffect(i)
    BY <1>1, <1>4, ConsiderHasEffect
  <2>2. QED
    BY <2>1, <1>1, <1>2, <1>4, IssueEffectAgrees
<1>5. QED
  BY <1>3, <1>4
-----------------------------------------------------------------------------
(* The accelerator fetches.                                                *)

LEMMA Largest ==
  ASSUME NEW N \in Nat, NEW S \in SUBSET (0 .. N), S # {}
  PROVE  \E n \in S : \A m \in S : m <= n
<1> DEFINE T == {N - m : m \in S}
<1>1. T \in SUBSET Nat /\ T # {}
  <2>1. \A m \in 0 .. N : N - m \in Nat
    OBVIOUS
  <2>2. \A m \in S : N - m \in Nat
    BY <2>1
  <2>3. T \subseteq Nat /\ T # {}
    BY <2>2, Zenon
  <2>4. QED
    BY <2>3
<1>2. PICK x \in T : \A y \in T : x <= y
  <2> HIDE DEF T
  <2>1. QED
    BY <1>1, Smallest
<1>3. PICK n \in S : x = N - n
  BY <1>2
<1>4. ASSUME NEW m \in S PROVE m <= n
  <2>1. N - n <= N - m
    BY <1>2, <1>3
  <2>2. QED
    BY <2>1
<1>5. QED
  BY <1>4

InList(i, resv) == \E m \in 1 .. Len(resv) : resv[m] = i

(* resv is the reservation list with the instructions behind those fetched *)
(* before, up to j, and all holds the instructions themselves.             *)
ListUpTo(resv, all, j) ==
  /\ resv \in Seq(Nat)
  /\ \A m \in 1 .. Len(resv) : resv[m] \in 1 .. j /\ (resv[m] \in Ids => Queued(resv[m]))
  /\ \A k, l \in 1 .. Len(resv) : k < l => resv[k] < resv[l]
  /\ \A i \in Ids : all[i] = insns[i] /\ (Queued(i) => InList(i, resv))
  /\ \A i \in 1 .. j : i \notin Ids => InList(i, resv)

(* i is an instance of the instruction u before j, and the latest.         *)
LatestOf(u, i, j, all) ==
  /\ all[i].op.uid = u
  /\ i \in Ids => IsAcc(i)
  /\ \A k \in 1 .. j - 1 : i < k /\ (k \in Ids => IsAcc(k)) => all[k].op.uid # u

IsProducer(P, u, j, resv, all) ==
  /\ P \in Nat /\ P < j
  /\ P # 0 => all[P].op.uid = u /\ (InList(P, resv) \/ P \in inflight)
  /\ \A i \in 1 .. j - 1 : LatestOf(u, i, j, all) => (i \in Ids /\ Done(i)) \/ P = i

(* findDynamicDeps finds the latest instance, unless that is done: the     *)
(* search begins with what has not started, and what runs is later than    *)
(* what is done.                                                           *)
LEMMA ProducerIs ==
  ASSUME TypeOK, AccAgrees, Accounted, OrderAgrees, NEW j \in Nat, j > Len(insns),
         NEW all, NEW resv, ListUpTo(resv, all, j), NEW u, all[j].op.uid # u
  PROVE  IsProducer(Producer(u, resv, all), u, j, resv, all)
<1> DEFINE queued == {k \in 1 .. Len(resv) : all[resv[k]].op.uid = u}
           executing == {i \in inflight : all[i].op.uid = u}
           P == Producer(u, resv, all)
<1>1. /\ Len(resv) \in Nat /\ Len(insns) \in Nat /\ Ids = 1 .. Len(insns)
      /\ \A i \in Ids : i \in Nat /\ i < j /\ i \in 1 .. j - 1
  BY LenProperties DEF TypeOK, ListUpTo, Ids
<1>2. \A m \in 1 .. Len(resv) : resv[m] \in 1 .. j /\ (resv[m] \in Ids => Queued(resv[m]))
  BY DEF ListUpTo
<1>3. /\ inflight \subseteq Ids /\ \A i \in inflight : IsAcc(i) /\ Started(i)
      /\ \A i \in Ids : all[i] = insns[i]
  BY DEF TypeOK, AccAgrees, Started, ListUpTo
<1>4. P = IF queued # {} THEN resv[CHOOSE k \in queued : \A l \in queued : l <= k]
          ELSE IF executing # {} THEN CHOOSE i \in executing : TRUE
          ELSE 0
  BY DEF Producer
<1>5. ASSUME NEW i \in 1 .. j - 1, LatestOf(u, i, j, all), ~InList(i, resv),
             ~(i \in Ids /\ Done(i))
      PROVE  i \in executing /\ i \in Ids /\ IsAcc(i) /\ Started(i) /\ Uid(i) = u
  <2>1. i \in Ids
    BY <1>5, <1>1 DEF ListUpTo
  <2>2. IsAcc(i) /\ all[i].op.uid = u /\ ~Queued(i)
    BY <2>1, <1>5 DEF LatestOf, ListUpTo
  <2>3. Started(i)
    BY <2>1, <2>2, NotStartedIsQueued
  <2>4. QED
    BY <2>1, <2>2, <2>3, <1>3, <1>5 DEF Done, Uid
<1> HIDE DEF P
<1>6. CASE queued # {}
  <2> DEFINE K == CHOOSE k \in queued : \A l \in queued : l <= k
  <2>1. queued \in SUBSET (0 .. Len(resv))
    BY <1>1
  <2>2. \E k \in queued : \A l \in queued : l <= k
    <3> HIDE DEF queued
    <3>1. QED
      BY <2>1, <1>1, <1>6, Largest
  <2>3. K \in queued /\ \A l \in queued : l <= K
    <3> HIDE DEF queued
    <3>1. QED
      BY <2>2
  <2>4. P = resv[K]
    BY <1>4, <1>6
  <2> HIDE DEF K
  <2>5. /\ K \in 1 .. Len(resv) /\ P \in 1 .. j /\ all[P].op.uid = u /\ P # j
        /\ InList(P, resv) /\ (P \in Ids => Queued(P))
    BY <2>3, <2>4, <1>2 DEF InList
  <2>6. P \in Nat /\ P < j /\ P \in 1 .. j - 1
    BY <2>5
  <2>7. P \in Ids => IsAcc(P) /\ ~Started(P) /\ Uid(P) = u
    BY <2>5, <1>3 DEF AccAgrees, Started, Uid
  <2>8. ASSUME NEW i \in 1 .. j - 1, LatestOf(u, i, j, all), ~(i \in Ids /\ Done(i)), P # i
        PROVE  FALSE
    <3>1. ~(i < P)
      BY <2>5, <2>6, <2>7, <2>8 DEF LatestOf
    <3>2. P < i
      BY <2>6, <2>8, <3>1
    <3>3. CASE InList(i, resv)
      <4>1. PICK m \in 1 .. Len(resv) : resv[m] = i
        BY <3>3 DEF InList
      <4>2. m \in queued
        BY <4>1, <2>8 DEF LatestOf
      <4>3. m = K \/ m < K
        BY <4>2, <2>3, <2>5
      <4>4. m < K => i < P
        BY <4>1, <2>4, <2>5 DEF ListUpTo
      <4>5. QED
        BY <4>1, <4>3, <4>4, <2>4, <2>8, <3>1
    <3>4. CASE ~InList(i, resv)
      <4>1. i \in Ids /\ IsAcc(i) /\ Started(i) /\ Uid(i) = u
        BY <3>4, <2>8, <1>5
      <4>2. P \in Ids
        BY <4>1, <3>2, <2>5, <1>1
      <4>3. Done(P)
        BY <4>1, <4>2, <2>7, <3>2 DEF OrderAgrees
      <4>4. QED
        BY <4>2, <4>3, <2>7 DEF Done
    <3>5. QED
      BY <3>3, <3>4
  <2>9. QED
    BY <2>5, <2>6, <2>8 DEF IsProducer, P
<1>7. CASE queued = {} /\ executing # {}
  <2>1. P \in executing
    BY <1>4, <1>7
  <2>2. P \in inflight /\ P \in Ids /\ IsAcc(P) /\ Started(P) /\ all[P].op.uid = u /\ Uid(P) = u
    BY <2>1, <1>3 DEF Uid
  <2>3. ASSUME NEW i \in 1 .. j - 1, LatestOf(u, i, j, all), ~(i \in Ids /\ Done(i)), P # i
        PROVE  FALSE
    <3>1. ~InList(i, resv)
      BY <2>3, <1>7 DEF InList, LatestOf
    <3>2. i \in Ids /\ IsAcc(i) /\ Started(i) /\ Uid(i) = u
      BY <3>1, <2>3, <1>5
    <3>3. ~(i < P)
      BY <2>2, <2>3, <1>1 DEF LatestOf
    <3>4. P < i
      BY <2>2, <2>3, <3>2, <3>3, <1>1
    <3>5. Done(P)
      BY <2>2, <3>2, <3>4 DEF OrderAgrees
    <3>6. QED
      BY <3>5, <2>2 DEF Done
  <2>4. P \in Nat /\ P < j
    BY <2>2, <1>1
  <2>5. QED
    BY <2>2, <2>3, <2>4 DEF IsProducer, P
<1>8. CASE queued = {} /\ executing = {}
  <2>1. P = 0
    BY <1>4, <1>8
  <2>2. ASSUME NEW i \in 1 .. j - 1, LatestOf(u, i, j, all), ~(i \in Ids /\ Done(i))
        PROVE  FALSE
    <3>1. ~InList(i, resv)
      BY <2>2, <1>8 DEF InList, LatestOf
    <3>2. QED
      BY <3>1, <2>2, <1>5, <1>8
  <2>3. QED
    BY <2>1, <2>2 DEF IsProducer, P
<1>9. QED
  BY <1>6, <1>7, <1>8
(* findDynamicDeps for all operands of instruction j.                      *)
DepsFound(j, resv, all) ==
  LET deps == DepsOf(j, resv, all)
  IN
  /\ deps \in SUBSET Nat
  /\ \A d \in deps :
       /\ d \in 1 .. j - 1 /\ all[d].op.uid \in all[j].op.deps
       /\ d \in Ids => Queued(d) \/ d \in inflight
       /\ all[j].op.kind # "phi"
  /\ all[j].op.kind # "phi" =>
       \A i \in 1 .. j - 1 :
         all[i].op.uid \in all[j].op.deps /\ LatestOf(all[i].op.uid, i, j, all)
         => (i \in Ids /\ Done(i)) \/ i \in deps

LEMMA DepsAreFound ==
  ASSUME TypeOK, AccAgrees, Accounted, OrderAgrees, NEW j \in Nat, j > Len(insns),
         NEW all, NEW resv, ListUpTo(resv, all, j), IsStatic(all[j].op)
  PROVE  DepsFound(j, resv, all)
<1> DEFINE deps == DepsOf(j, resv, all)  P(u) == Producer(u, resv, all)
<1>1. deps = IF all[j].op.kind = "phi" THEN {} ELSE {P(u) : u \in all[j].op.deps} \ {0}
  BY DEF DepsOf
<1> HIDE DEF P, deps
<1>2. CASE all[j].op.kind = "phi"
  BY <1>1, <1>2 DEF DepsFound, deps
<1>3. CASE all[j].op.kind # "phi"
  <2>1. all[j].op.uid \notin all[j].op.deps
    BY <1>3, StaticIs DEF TypeOK
  <2>2. ASSUME NEW u \in all[j].op.deps PROVE IsProducer(P(u), u, j, resv, all)
    <3>1. all[j].op.uid # u
      BY <2>1
    <3>2. QED
      BY <3>1, ProducerIs DEF P
  <2>3. ASSUME NEW d \in deps
        PROVE  /\ d \in 1 .. j - 1 /\ all[d].op.uid \in all[j].op.deps
               /\ d \in Ids => Queued(d) \/ d \in inflight
    <3>1. PICK u \in all[j].op.deps : d = P(u) /\ d # 0
      BY <1>1, <1>3
    <3>2. d \in Nat /\ d < j /\ all[d].op.uid = u /\ (InList(d, resv) \/ d \in inflight)
      BY <2>2, <3>1 DEF IsProducer
    <3>3. d \in Ids => Queued(d) \/ d \in inflight
      BY <3>2 DEF ListUpTo, InList
    <3>4. QED
      BY <3>1, <3>2, <3>3
  <2>4. ASSUME NEW i \in 1 .. j - 1, all[i].op.uid \in all[j].op.deps,
               LatestOf(all[i].op.uid, i, j, all), ~(i \in Ids /\ Done(i))
        PROVE  i \in deps
    <3>1. P(all[i].op.uid) = i
      BY <2>2, <2>4 DEF IsProducer
    <3>2. i # 0
      OBVIOUS
    <3>3. QED
      BY <3>1, <3>2, <2>4, <1>1, <1>3
  <2>5. deps \in SUBSET Nat
    BY <2>3
  <2>6. QED
    BY <1>3, <2>3, <2>4, <2>5 DEF DepsFound, deps
<1>4. QED
  BY <1>2, <1>3

(* The block as FetchBlock takes it in: how much of it, the instructions   *)
(* with it, and the reservation list up to instruction j.                  *)
Taken(ops) == Fetched(ops, tracePos)
WithBlock(ops) == insns \o NewInsns(ops, tracePos, Taken(ops), globalDynID, "acc")
BlockIds(ops) == [k \in 1 .. Taken(ops) |-> Len(insns) + k]
ResvUpTo(ops, j) == reservation \o SubSeq(BlockIds(ops), 1, j - Len(insns))

FetchEffect(ops) ==
  LET n == Taken(ops)
      all == WithBlock(ops)
  IN
  /\ n \in 1 .. Len(ops) /\ Len(insns) \in Nat /\ Len(reservation) \in Nat
  /\ insns' \in Seq(Insn) /\ Len(insns') = Len(insns) + n
  /\ \A i \in Ids : insns'[i] = insns[i] /\ all[i] = insns[i]
  /\ \A k \in 1 .. n :
       LET j == Len(insns) + k
       IN /\ insns'[j].op = ops[k] /\ all[j].op = ops[k]
          /\ insns'[j].dynID = globalDynID + k - 1
          /\ insns'[j].hw = "acc" /\ insns'[j].status = "INIT"
          /\ insns'[j].deps = DepsOf(j, ResvUpTo(ops, j), all)
          /\ DepsFound(j, ResvUpTo(ops, j), all)
  /\ reservation' \in Seq(Nat) /\ Len(reservation') = Len(reservation) + n
  /\ \A k \in 1 .. Len(reservation) : reservation'[k] = reservation[k]
  /\ \A k \in 1 .. n : reservation'[Len(reservation) + k] = Len(insns) + k

LEMMA ResvUpToIs ==
  ASSUME TypeOK, AccAgrees, NEW n \in Nat, NEW k \in 1 .. n, NEW all,
         \A i \in Ids : all[i] = insns[i]
  PROVE  LET ids == [m \in 1 .. n |-> Len(insns) + m]
             resv == reservation \o SubSeq(ids, 1, k)
         IN  /\ ListUpTo(resv, all, Len(insns) + k)
             /\ reservation \o ids \in Seq(Nat)
             /\ Len(reservation \o ids) = Len(reservation) + n
             /\ \A m \in 1 .. Len(reservation) : (reservation \o ids)[m] = reservation[m]
             /\ \A m \in 1 .. n : (reservation \o ids)[Len(reservation) + m] = Len(insns) + m
<1> DEFINE ids == [m \in 1 .. n |-> Len(insns) + m]  some == SubSeq(ids, 1, k)
           resv == reservation \o some  R == Len(reservation)  L == Len(insns)
<1>1. L \in Nat /\ R \in Nat /\ reservation \in Seq(Nat)
  BY LenProperties DEF TypeOK
<1>2. ids \in Seq(Nat) /\ Len(ids) = n
  <2>1. ids \in [1 .. n -> Nat]
    BY <1>1
  <2> HIDE DEF ids
  <2>2. QED
    BY <2>1, FunctionIsSeq
<1>3. \A m \in 1 .. n : ids[m] = L + m
  OBVIOUS
<1> HIDE DEF ids
<1>4. /\ some \in Seq(Nat) /\ Len(some) = k
      /\ \A m \in 1 .. k : some[m] = ids[m] /\ m \in 1 .. n
  <2>1. k \in 0 .. Len(ids) /\ \A m \in 1 .. k : m \in 1 .. n
    BY <1>2
  <2>2. QED
    BY <2>1, <1>2, CutIs
<1> HIDE DEF some
<1>5. /\ resv \in Seq(Nat) /\ Len(resv) = R + k
      /\ \A m \in 1 .. R : resv[m] = reservation[m]
      /\ \A m \in 1 .. k : resv[R + m] = L + m
  <2>1. /\ resv \in Seq(Nat) /\ Len(resv) = R + Len(some)
        /\ \A m \in 1 .. R : resv[m] = reservation[m]
        /\ \A m \in 1 .. Len(some) : resv[R + m] = some[m]
    <3>1. reservation \in Seq(Nat) /\ some \in Seq(Nat)
      BY <1>1, <1>4
    <3>2. QED
      BY <3>1, CatIs
  <2>2. QED
    BY <2>1, <1>3, <1>4
<1>6. /\ reservation \o ids \in Seq(Nat) /\ Len(reservation \o ids) = R + n
      /\ \A m \in 1 .. R : (reservation \o ids)[m] = reservation[m]
      /\ \A m \in 1 .. n : (reservation \o ids)[R + m] = L + m
  <2>1. /\ reservation \o ids \in Seq(Nat) /\ Len(reservation \o ids) = R + Len(ids)
        /\ \A m \in 1 .. R : (reservation \o ids)[m] = reservation[m]
        /\ \A m \in 1 .. Len(ids) : (reservation \o ids)[R + m] = ids[m]
    <3>1. reservation \in Seq(Nat) /\ ids \in Seq(Nat)
      BY <1>1, <1>2
    <3>2. QED
      BY <3>1, CatIs
  <2>2. QED
    BY <2>1, <1>2, <1>3
<1>7. /\ \A m \in 1 .. R : reservation[m] \in 1 .. L
      /\ \A x, y \in 1 .. R : x < y => reservation[x] < reservation[y]
  BY DEF AccAgrees, Ids
<1> HIDE DEF resv, R, L
<1>8. \A m \in 1 .. R + k : m \in 1 .. R \/ \E x \in 1 .. k : m = R + x
  <2>1. ASSUME NEW m \in 1 .. R + k, m \notin 1 .. R PROVE m - R \in 1 .. k /\ m = R + (m - R)
    BY <2>1, <1>1
  <2>2. QED
    BY <2>1
<1>9. \A m \in 1 .. k : m \in Nat /\ L + m \in 1 .. L + k /\ L + m \notin 1 .. L
  BY <1>1
<1>10. \A m \in 1 .. L : m \in 1 .. L + k /\ m \in Nat
  BY <1>1
<1>11. ASSUME NEW m \in 1 .. R + k
       PROVE  resv[m] \in 1 .. L + k /\ (resv[m] \in Ids => Queued(resv[m]))
  <2>1. CASE m \in 1 .. R
    BY <2>1, <1>5, <1>7, <1>10 DEF Queued, R
  <2>2. CASE \E x \in 1 .. k : m = R + x
    BY <2>2, <1>5, <1>9 DEF Ids, L
  <2>3. QED
    BY <2>1, <2>2, <1>8
<1>12. ASSUME NEW x \in 1 .. R + k, NEW y \in 1 .. R + k, x < y PROVE resv[x] < resv[y]
  <2>1. CASE x \in 1 .. R /\ y \in 1 .. R
    BY <2>1, <1>5, <1>7, <1>12
  <2>2. CASE x \in 1 .. R /\ y \notin 1 .. R
    <3>1. PICK b \in 1 .. k : y = R + b
      BY <2>2, <1>8
    <3>2. resv[x] \in 1 .. L /\ resv[y] = L + b
      BY <2>2, <3>1, <1>5, <1>7
    <3>3. QED
      BY <3>2, <1>1
  <2>3. CASE x \notin 1 .. R
    <3>1. PICK a \in 1 .. k : x = R + a
      BY <2>3, <1>8
    <3>2. y \notin 1 .. R
      BY <3>1, <1>1, <1>12
    <3>3. PICK b \in 1 .. k : y = R + b
      BY <3>2, <1>8
    <3>4. a < b
      BY <3>1, <3>3, <1>1, <1>12
    <3>5. resv[x] = L + a /\ resv[y] = L + b
      BY <3>1, <3>3, <1>5
    <3>6. QED
      BY <3>4, <3>5, <1>1
  <2>4. QED
    BY <2>1, <2>2, <2>3
<1>13. \A m \in 1 .. R : m \in 1 .. R + k
  BY <1>1
<1>14. \A m \in 1 .. k : R + m \in 1 .. R + k
  BY <1>1
<1>15. \A i : Queued(i) => InList(i, resv)
  BY <1>5, <1>13 DEF Queued, InList, R
<1>16. ASSUME NEW i \in 1 .. L + k, i \notin Ids PROVE InList(i, resv)
  <2>1. i - L \in 1 .. k /\ L + (i - L) = i
    BY <1>1, <1>16 DEF Ids, L
  <2>2. R + (i - L) \in 1 .. Len(resv) /\ resv[R + (i - L)] = i
    BY <2>1, <1>5, <1>14
  <2>3. QED
    BY <2>2 DEF InList
<1>17. ListUpTo(resv, all, L + k)
  BY <1>5, <1>11, <1>12, <1>15, <1>16 DEF ListUpTo
<1>18. QED
  BY <1>6, <1>17 DEF resv, some, ids, R, L

LEMMA FetchHasEffect ==
  ASSUME TypeOK, AccAgrees, Accounted, OrderAgrees, NEW ops, AccCode(ops), FetchBlock(ops)
  PROVE  FetchEffect(ops)
<1> DEFINE n == Taken(ops)  all == WithBlock(ops)  L == Len(insns)
           new == NewInsns(ops, tracePos, n, globalDynID, "acc")
           cy(i) == IF all[i].op.kind = "op" THEN 1 ELSE 0
           linked == [i \in 1 .. Len(all) |->
                        IF i <= L THEN all[i]
                        ELSE [all[i] EXCEPT !.deps = DepsOf(i, ResvUpTo(ops, i), all),
                                            !.cycle = cy(i)]]
<1>1. insns' = linked /\ reservation' = reservation \o BlockIds(ops)
  BY Zenon DEF FetchBlock, Taken, WithBlock, BlockIds, ResvUpTo
<1>2. /\ L \in Nat /\ insns \in Seq(Insn) /\ tracePos \in Nat /\ globalDynID \in Nat
      /\ Len(reservation) \in Nat /\ Ids = 1 .. L /\ scenario \in Scenarios
  BY LenProperties DEF TypeOK, Ids
<1>3. /\ ops \in Seq(Ops) /\ Len(ops) \in Nat /\ n \in 1 .. Len(ops)
      /\ \A k \in 1 .. Len(ops) : ops[k] \in Ops
  BY CodeIs, FetchedIs DEF AccCode, Taken
<1> HIDE DEF n
<1>4. /\ new \in Seq(Insn) /\ Len(new) = n
      /\ \A k \in 1 .. n :
           /\ new[k].op = ops[k] /\ new[k].dynID = globalDynID + k - 1 /\ new[k].hw = "acc"
           /\ new[k].status = "INIT"
  <2>1. /\ scenario \in Scenarios /\ ops \in Seq(Ops) /\ tracePos \in Nat
        /\ n \in 1 .. Len(ops) /\ globalDynID \in Nat /\ "acc" \in {"core", "acc"}
    BY <1>2, <1>3
  <2>2. new = NewInsns(ops, tracePos, n, globalDynID, "acc")
    OBVIOUS
  <2> HIDE DEF new
  <2>3. AreNew(new, ops, n, globalDynID, "acc")
    BY <2>1, <2>2, NewInsnsAre
  <2>4. QED
    BY <2>3, Zenon DEF AreNew
<1> HIDE DEF new
<1>5. all = insns \o new
  BY DEF WithBlock, new, n
<1> HIDE DEF all
<1>6. /\ all \in Seq(Insn) /\ Len(all) = L + n
      /\ \A k \in 1 .. L : all[k] = insns[k]
      /\ \A k \in 1 .. n : all[L + k] = new[k]
  <2>1. /\ insns \o new \in Seq(Insn) /\ Len(insns \o new) = Len(insns) + Len(new)
        /\ \A k \in 1 .. Len(insns) : (insns \o new)[k] = insns[k]
        /\ \A k \in 1 .. Len(new) : (insns \o new)[Len(insns) + k] = new[k]
    <3>1. insns \in Seq(Insn) /\ new \in Seq(Insn)
      BY <1>2, <1>4
    <3>2. QED
      BY <3>1, CatIs
  <2>2. QED
    BY <2>1, <1>4, <1>5
<1>7. ASSUME NEW k \in 1 .. n
      PROVE  /\ L + k \in 1 .. L + n /\ ~(L + k <= L)
             /\ ListUpTo(ResvUpTo(ops, L + k), all, L + k)
             /\ reservation' \in Seq(Nat) /\ Len(reservation') = Len(reservation) + n
             /\ \A m \in 1 .. Len(reservation) : reservation'[m] = reservation[m]
             /\ \A m \in 1 .. n : reservation'[Len(reservation) + m] = Len(insns) + m
  <2>1. L + k \in 1 .. L + n /\ ~(L + k <= L) /\ L + k - L = k /\ n \in Nat
    BY <1>2, <1>3
  <2>2. BlockIds(ops) = [m \in 1 .. n |-> L + m]
    BY DEF BlockIds, n
  <2>3. ResvUpTo(ops, L + k) = reservation \o SubSeq([m \in 1 .. n |-> L + m], 1, k)
    BY <2>1, <2>2 DEF ResvUpTo
  <2>4. \A i \in Ids : all[i] = insns[i]
    BY <1>2, <1>6
  <2> HIDE DEF linked
  <2>5. QED
    BY <2>1, <2>2, <2>3, <2>4, <1>1, ResvUpToIs, ZenonT(40)
<1>8. n \in Nat /\ n >= 1
  BY <1>3
<1>9. \A i \in 1 .. L + n : i \in 1 .. L \/ \E k \in 1 .. n : i = L + k
  <2>1. ASSUME NEW i \in 1 .. L + n, i \notin 1 .. L PROVE i - L \in 1 .. n /\ i = L + (i - L)
    BY <2>1, <1>2, <1>8
  <2>2. QED
    BY <2>1
<1>10. ASSUME NEW k \in 1 .. n
       PROVE  LET j == L + k
              IN  /\ DepsFound(j, ResvUpTo(ops, j), all)
                  /\ insns'[j] = [all[j] EXCEPT !.deps = DepsOf(j, ResvUpTo(ops, j), all),
                                                !.cycle = cy(j)]
                  /\ insns'[j] \in Insn
                  /\ insns'[j].op = ops[k] /\ all[j].op = ops[k]
                  /\ insns'[j].dynID = globalDynID + k - 1
                  /\ insns'[j].hw = "acc" /\ insns'[j].status = "INIT"
                  /\ insns'[j].deps = DepsOf(j, ResvUpTo(ops, j), all)
  <2> DEFINE j == L + k
  <2>1. j \in 1 .. L + n /\ ~(j <= L) /\ j \in Nat /\ j > L
    BY <1>2, <1>7
  <2>2. all[j] = new[k] /\ all[j] \in Insn
    BY <1>6, <2>1, ElementOfSeq
  <2>3. k \in 1 .. Len(ops)
    BY <1>3
  <2>4. all[j].op = ops[k] /\ IsStatic(all[j].op)
    BY <2>2, <2>3, <1>3, <1>4 DEF AccCode
  <2> HIDE DEF j
  <2>5. DepsFound(j, ResvUpTo(ops, j), all)
    BY <2>1, <2>4, <1>7, DepsAreFound DEF j, L
  <2>6. insns'[j] = [all[j] EXCEPT !.deps = DepsOf(j, ResvUpTo(ops, j), all), !.cycle = cy(j)]
    BY <2>1, <1>1, <1>6
  <2> DEFINE D == DepsOf(j, ResvUpTo(ops, j), all)
  <2>7. D \in SUBSET Nat
    BY <2>5 DEF DepsFound
  <2>8. cy(j) \in Nat
    OBVIOUS
  <2> HIDE DEF D, cy
  <2>9. insns'[j] = [all[j] EXCEPT !.deps = D, !.cycle = cy(j)]
    BY <2>6 DEF D
  <2>10. /\ insns'[j] \in Insn
         /\ insns'[j].op = all[j].op /\ insns'[j].dynID = all[j].dynID
         /\ insns'[j].hw = all[j].hw /\ insns'[j].status = all[j].status
         /\ insns'[j].deps = D
    BY <2>2, <2>7, <2>8, <2>9 DEF Insn
  <2>11. QED
    BY <2>2, <2>4, <2>5, <2>6, <2>10, <1>4 DEF D, j
<1>11. \A i \in 1 .. L : insns'[i] = insns[i] /\ i \in 1 .. L + n
  <2>1. ASSUME NEW i \in 1 .. L PROVE insns'[i] = insns[i] /\ i \in 1 .. L + n
    <3>1. i \in 1 .. Len(all) /\ i <= L
      BY <1>2, <1>6, <1>8
    <3>2. QED
      BY <3>1, <1>1, <1>6
  <2>2. QED
    BY <2>1
<1>12. insns' \in Seq(Insn) /\ Len(insns') = L + n
  <2>1. \A i \in 1 .. L : insns[i] \in Insn
    BY <1>2, ElementOfSeq
  <2>2. \A i \in 1 .. L + n : insns'[i] \in Insn
    BY <2>1, <1>9, <1>10, <1>11, ZenonT(40)
  <2>3. insns' = [i \in 1 .. L + n |-> insns'[i]]
    BY <1>1, <1>6
  <2>4. insns' \in [1 .. L + n -> Insn]
    <3> HIDE DEF linked
    <3>1. QED
      BY <2>2, <2>3
  <2>5. L + n \in Nat
    BY <1>2, <1>8
  <2>6. QED
    BY <2>4, <2>5, FunctionIsSeq
<1>13. 1 \in 1 .. n
  BY <1>8
<1>14. QED
  BY <1>2, <1>3, <1>6, <1>7, <1>10, <1>11, <1>12, <1>13 DEF FetchEffect, n, all
(* A block fetched leaves everything in order: its instructions come after *)
(* all others and have not begun.                                          *)
LEMMA FetchStep ==
  ASSUME TypeOK, AccAgrees, Accounted, OrderAgrees, DepsAgree, NEW ops, AccCode(ops),
         FetchEffect(ops), UNCHANGED <<scenario, inflight, scoreboard>>
  PROVE  AccAgrees' /\ Accounted' /\ OrderAgrees' /\ DepsAgree'
<1> DEFINE n == Taken(ops)  all == WithBlock(ops)  L == Len(insns)  R == Len(reservation)
           Fresh == {L + k : k \in 1 .. n}
<1>1. /\ n \in Nat /\ n \in 1 .. Len(ops) /\ L \in Nat /\ R \in Nat
      /\ insns' \in Seq(Insn) /\ Len(insns') = L + n /\ Len(ops) \in Nat
      /\ DOMAIN ops = 1 .. Len(ops)
  BY CodeIs DEF FetchEffect, AccCode
<1>2. Ids = 1 .. L /\ Ids' = 1 .. L + n
  BY <1>1 DEF Ids
<1> HIDE DEF n, all, R
<1>3. /\ \A j \in Ids : j \in Ids' /\ j \in Nat
      /\ \A j \in Ids' : j \in Nat /\ (j \in Ids \/ j \in Fresh)
      /\ \A j \in Fresh : j \in Ids' /\ j \notin Ids /\ \A i \in Ids : i < j
  <2>1. ASSUME NEW j \in 1 .. L + n, j \notin 1 .. L PROVE j \in Fresh
    <3>1. j - L \in 1 .. n /\ L + (j - L) = j
      BY <2>1, <1>1
    <3>2. QED
      BY <3>1
  <2>2. \A k \in 1 .. n : L + k \in 1 .. L + n /\ L + k \notin 1 .. L /\ \A i \in 1 .. L : i < L + k
    BY <1>1
  <2>3. \A j \in 1 .. L : j \in 1 .. L + n
    BY <1>1
  <2>4. QED
    BY <1>2, <2>1, <2>2, <2>3, SMTT(30)
<1>4. ASSUME NEW i \in Ids
      PROVE  /\ insns'[i] = insns[i] /\ all[i] = insns[i]
             /\ IsAcc(i)' = IsAcc(i) /\ Uid(i)' = Uid(i) /\ Started(i)' = Started(i)
             /\ Done(i)' = Done(i) /\ Ended(i)' = Ended(i)
             /\ (isMem(insns[i].op))' = isMem(insns[i].op)
  <2>1. insns'[i] = insns[i] /\ all[i] = insns[i] /\ inflight' = inflight
    BY DEF FetchEffect, all
  <2>2. QED
    BY <2>1, Zenon DEF IsAcc, Uid, Started, Done, Ended, Is, isMem
<1>5. ASSUME NEW j \in Fresh
      PROVE  /\ insns'[j].status = "INIT" /\ IsAcc(j)' /\ ~Started(j)' /\ ~Done(j)'
             /\ insns'[j].op = all[j].op /\ IsStatic(insns'[j].op)
             /\ insns'[j].deps = DepsOf(j, ResvUpTo(ops, j), all)
             /\ DepsFound(j, ResvUpTo(ops, j), all)
  <2>1. PICK k \in 1 .. n : j = L + k
    OBVIOUS
  <2>2. /\ insns'[j].status = "INIT" /\ insns'[j].hw = "acc"
        /\ insns'[j].op = ops[k] /\ all[j].op = ops[k]
        /\ insns'[j].deps = DepsOf(j, ResvUpTo(ops, j), all)
        /\ DepsFound(j, ResvUpTo(ops, j), all)
    BY <2>1 DEF FetchEffect, n, all
  <2>3. k \in DOMAIN ops
    BY <1>1
  <2>4. QED
    BY <2>2, <2>3 DEF AccCode, IsAcc, Started, Done
<1>6. \A op : IsStatic(op)' = IsStatic(op)
  BY DEF IsStatic, Names, Blocks
<1>7. \A i : OnBoard(i)' = OnBoard(i)
  BY DEF OnBoard
<1>8. \A i \in Ids' : Uid(i)' = all[i].op.uid
  <2>1. \A i \in Ids : Uid(i)' = all[i].op.uid
    BY <1>4 DEF Uid
  <2>2. \A i \in Fresh : Uid(i)' = all[i].op.uid
    BY <1>5 DEF Uid
  <2>3. QED
    BY <2>1, <2>2, <1>3
<1>9. /\ reservation' \in Seq(Nat) /\ Len(reservation') = R + n
      /\ \A k \in 1 .. R : reservation'[k] = reservation[k]
      /\ \A k \in 1 .. n : reservation'[R + k] = L + k
  BY DEF FetchEffect, R, n
<1>10. \A m \in 1 .. R + n : m \in 1 .. R \/ \E k \in 1 .. n : m = R + k
  <2>1. ASSUME NEW m \in 1 .. R + n, m \notin 1 .. R PROVE m - R \in 1 .. n /\ m = R + (m - R)
    BY <2>1, <1>1 DEF R
  <2>2. QED
    BY <2>1
<1>11. /\ \A m \in 1 .. R : reservation[m] \in Ids
       /\ \A k, l \in 1 .. R : k < l => reservation[k] < reservation[l]
  BY DEF AccAgrees, R
<1>12. \A k \in 1 .. R : k \in 1 .. R + n
  BY <1>1 DEF R
<1>13. \A k \in 1 .. n : R + k \in 1 .. R + n
  BY <1>1 DEF R
<1> HIDE DEF L
<1>14. \A i : Queued(i)' <=> Queued(i) \/ i \in Fresh
  <2>1. ASSUME NEW i, NEW m \in 1 .. R + n, reservation'[m] = i PROVE Queued(i) \/ i \in Fresh
    <3>1. CASE m \in 1 .. R
      BY <3>1, <2>1, <1>9 DEF Queued, R
    <3>2. CASE m \notin 1 .. R
      <4>1. PICK k \in 1 .. n : m = R + k
        BY <3>2, <1>10
      <4>2. QED
        BY <4>1, <2>1, <1>9
    <3>3. QED
      BY <3>1, <3>2
  <2>2. ASSUME NEW i, NEW m \in 1 .. R, reservation[m] = i
        PROVE  \E k \in 1 .. R + n : reservation'[k] = i
    BY <2>2, <1>9, <1>12
  <2>3. ASSUME NEW k \in 1 .. n PROVE \E m \in 1 .. R + n : reservation'[m] = L + k
    BY <1>9, <1>13
  <2>4. \A i : Queued(i)' <=> \E m \in 1 .. R + n : reservation'[m] = i
    BY <1>9 DEF Queued
  <2>5. \A i : Queued(i) <=> \E m \in 1 .. R : reservation[m] = i
    BY DEF Queued, R
  <2>6. QED
    BY <2>1, <2>2, <2>3, <2>4, <2>5
<1>15. AccAgrees'
  <2>1. ASSUME NEW m \in 1 .. R + n PROVE reservation'[m] \in Ids'
    <3>1. CASE m \in 1 .. R
      BY <3>1, <1>3, <1>9, <1>11
    <3>2. CASE m \notin 1 .. R
      <4>1. PICK k \in 1 .. n : m = R + k
        BY <3>2, <1>10
      <4>2. QED
        BY <4>1, <1>3, <1>9
    <3>3. QED
      BY <3>1, <3>2
  <2>2. ASSUME NEW x \in 1 .. R + n, NEW y \in 1 .. R + n, x < y
        PROVE  reservation'[x] < reservation'[y]
    <3>1. CASE x \in 1 .. R /\ y \in 1 .. R
      BY <3>1, <2>2, <1>9, <1>11
    <3>2. CASE x \in 1 .. R /\ y \notin 1 .. R
      <4>1. PICK b \in 1 .. n : y = R + b
        BY <3>2, <1>10
      <4>2. reservation'[x] \in Ids /\ reservation'[y] \in Fresh
        BY <3>2, <4>1, <1>9, <1>11
      <4>3. QED
        BY <4>2, <1>3
    <3>3. CASE x \notin 1 .. R
      <4>1. PICK a \in 1 .. n : x = R + a
        BY <3>3, <1>10
      <4>2. y \notin 1 .. R
        BY <4>1, <1>1, <2>2 DEF R
      <4>3. PICK b \in 1 .. n : y = R + b
        BY <4>2, <1>10
      <4>4. a < b
        BY <4>1, <4>3, <1>1, <2>2 DEF R
      <4>5. reservation'[x] = L + a /\ reservation'[y] = L + b
        BY <4>1, <4>3, <1>9
      <4>6. QED
        BY <4>4, <4>5, <1>1 DEF L
    <3>4. QED
      BY <3>1, <3>2, <3>3
  <2>3. /\ \A k \in 1 .. Len(scoreboard') : scoreboard'[k] \in Ids'
        /\ \A k, l \in 1 .. Len(scoreboard') : scoreboard'[k] = scoreboard'[l] => k = l
    BY <1>3 DEF AccAgrees
  <2>4. ASSUME NEW i \in Ids'
        PROVE  /\ Queued(i)' => IsAcc(i)' /\ insns'[i].status \in {"INIT", "ALLOCATED"}
               /\ i \in inflight' => IsAcc(i)' /\ insns'[i].status \in {"ISSUED", "COMMITED"}
               /\ OnBoard(i)' => /\ IsAcc(i)' /\ (isMem(insns[i].op))'
                                 /\ insns'[i].status \in {"ALLOCATED", "ISSUED"}
                                 /\ Queued(i)' \/ i \in inflight' \/ Ended(i)'
    <3>1. CASE i \in Ids
      <4>1. /\ Queued(i) => IsAcc(i) /\ insns[i].status \in {"INIT", "ALLOCATED"}
            /\ i \in inflight => IsAcc(i) /\ insns[i].status \in {"ISSUED", "COMMITED"}
            /\ OnBoard(i) => /\ IsAcc(i) /\ isMem(insns[i].op)
                             /\ insns[i].status \in {"ALLOCATED", "ISSUED"}
                             /\ Queued(i) \/ i \in inflight \/ Ended(i)
        BY <3>1, Zenon DEF AccAgrees
      <4>2. i \notin Fresh
        BY <3>1, <1>3
      <4>3. QED
        BY <3>1, <4>1, <4>2, <1>4, <1>7, <1>14
    <3>2. CASE i \in Fresh
      <4>1. i \notin inflight'
        BY <3>2, <1>3 DEF TypeOK
      <4>2. \A k \in 1 .. Len(scoreboard) : scoreboard[k] \in Ids
        BY Zenon DEF AccAgrees
      <4>3. ~OnBoard(i)
        BY <3>2, <4>2, <1>3, Zenon DEF OnBoard
      <4>4. QED
        BY <3>2, <4>1, <4>3, <1>5, <1>7
    <3>3. QED
      BY <3>1, <3>2, <1>3
  <2>5. QED
    BY <2>1, <2>2, <2>3, <2>4, <1>9, Zenon DEF AccAgrees
<1>16. Accounted'
  <2>1. ASSUME NEW i \in Ids', IsAcc(i)'
        PROVE  /\ insns'[i].status # "COMMITED" => Queued(i)' \/ i \in inflight' \/ OnBoard(i)'
               /\ (isMem(insns[i].op))' /\ insns'[i].status \notin {"INIT", "COMMITED"}
                    => OnBoard(i)'
    <3>1. CASE i \in Ids
      BY <3>1, <2>1, <1>4, <1>7, <1>14 DEF Accounted
    <3>2. CASE i \in Fresh
      BY <3>2, <1>5, <1>14
    <3>3. QED
      BY <3>1, <3>2, <1>3
  <2>2. QED
    BY <2>1, Zenon DEF Accounted
<1>17. OrderAgrees'
  <2>1. ASSUME NEW i \in Ids', IsAcc(i)' PROVE (IsStatic(insns[i].op))'
    BY <2>1, <1>3, <1>4, <1>5, <1>6 DEF OrderAgrees
  <2>2. ASSUME NEW i \in Ids', NEW j \in Ids', IsAcc(i)', IsAcc(j)', i < j
        PROVE  /\ (isMem(insns[i].op))' /\ (isMem(insns[j].op))' /\ insns'[i].status = "INIT"
                    => insns'[j].status = "INIT"
               /\ Uid(i)' = Uid(j)' /\ Started(j)' => Done(i)'
    <3>1. CASE j \in Fresh
      BY <3>1, <1>5
    <3>2. CASE j \in Ids
      <4>1. i \in Ids
        BY <3>2, <2>2, <1>1, <1>2 DEF L
      <4>2. /\ isMem(insns[i].op) /\ isMem(insns[j].op) /\ insns[i].status = "INIT"
                 => insns[j].status = "INIT"
            /\ Uid(i) = Uid(j) /\ Started(j) => Done(i)
        BY <2>2, <3>2, <4>1, <1>4 DEF OrderAgrees
      <4>3. QED
        BY <3>2, <4>1, <4>2, <1>4
    <3>3. QED
      BY <3>1, <3>2, <1>3
  <2>3. QED
    BY <2>1, <2>2, Zenon DEF OrderAgrees
<1>18. ASSUME NEW j \in Ids', IsAcc(j)'
       PROVE  /\ Started(j)' => insns'[j].deps = {}
              /\ \A d \in insns'[j].deps :
                   /\ d \in Ids' /\ d < j /\ IsAcc(d)' /\ ~Done(d)'
                   /\ Uid(d)' \in insns'[j].op.deps
                   /\ insns'[j].op.kind # "phi"
              /\ insns'[j].op.kind # "phi" =>
                   \A i \in Ids' : LatestBefore(i, j)' /\ Uid(i)' \in insns'[j].op.deps =>
                     Done(i)' \/ i \in insns'[j].deps
  <2>1. CASE j \in Ids
    <3>1. /\ Started(j) => insns[j].deps = {}
          /\ \A d \in insns[j].deps :
               /\ d \in Ids /\ d < j /\ IsAcc(d) /\ ~Done(d)
               /\ Uid(d) \in insns[j].op.deps
               /\ insns[j].op.kind # "phi"
          /\ insns[j].op.kind # "phi" =>
               \A i \in Ids : LatestBefore(i, j) /\ Uid(i) \in insns[j].op.deps =>
                 Done(i) \/ i \in insns[j].deps
      BY <2>1, <1>4, <1>18, Zenon DEF DepsAgree
    <3>2. insns'[j] = insns[j] /\ Started(j)' = Started(j)
      BY <2>1, <1>4
    <3>3. \A d \in insns[j].deps :
               /\ d \in Ids' /\ d < j /\ IsAcc(d)' /\ ~Done(d)'
               /\ Uid(d)' \in insns[j].op.deps
               /\ insns[j].op.kind # "phi"
      BY <3>1, <1>3, <1>4
    <3>4. ASSUME insns[j].op.kind # "phi", NEW i \in Ids', LatestBefore(i, j)',
                 Uid(i)' \in insns[j].op.deps
          PROVE  Done(i)' \/ i \in insns[j].deps
      <4>1. IsAcc(i)' /\ i < j /\ \A k \in Ids' : i < k /\ k < j /\ IsAcc(k)' => Uid(k)' # Uid(i)'
        BY <3>4, Zenon DEF LatestBefore
      <4>2. i \in Ids
        BY <2>1, <4>1, <1>1, <1>2 DEF L
      <4>3. LatestBefore(i, j)
        BY <4>1, <4>2, <1>3, <1>4 DEF LatestBefore
      <4>4. QED
        BY <3>1, <3>4, <4>2, <4>3, <1>4
    <3>5. QED
      BY <3>1, <3>2, <3>3, <3>4, Zenon
  <2>2. CASE j \in Fresh
    <3> DEFINE deps == DepsOf(j, ResvUpTo(ops, j), all)
    <3>1. /\ insns'[j].deps = deps /\ ~Started(j)' /\ insns'[j].op = all[j].op
          /\ DepsFound(j, ResvUpTo(ops, j), all)
      BY <2>2, <1>5
    <3>2. /\ \A d \in deps :
               /\ d \in 1 .. j - 1 /\ all[d].op.uid \in all[j].op.deps
               /\ d \in Ids => Queued(d) \/ d \in inflight
               /\ all[j].op.kind # "phi"
          /\ all[j].op.kind # "phi" =>
               \A i \in 1 .. j - 1 :
                 all[i].op.uid \in all[j].op.deps /\ LatestOf(all[i].op.uid, i, j, all)
                 => (i \in Ids /\ Done(i)) \/ i \in deps
      BY <3>1, Zenon DEF DepsFound
    <3> HIDE DEF deps
    <3>3. /\ \A d \in 1 .. j - 1 : d \in Ids' /\ d < j
          /\ \A d \in Ids' : d < j => d \in 1 .. j - 1
      BY <1>1, <1>2 DEF L
    <3>4. ASSUME NEW d \in deps
          PROVE  /\ d \in Ids' /\ d < j /\ IsAcc(d)' /\ ~Done(d)'
                 /\ Uid(d)' \in insns'[j].op.deps
                 /\ insns'[j].op.kind # "phi"
      <4>1. d \in Ids' /\ d < j /\ Uid(d)' \in insns'[j].op.deps /\ insns'[j].op.kind # "phi"
        BY <3>1, <3>2, <3>3, <1>8
      <4>2. CASE d \in Ids
        <5>1. IsAcc(d) /\ ~Done(d)
          BY <4>2, <3>2 DEF AccAgrees, Done, Started
        <5>2. QED
          BY <4>1, <4>2, <5>1, <1>4
      <4>3. CASE d \in Fresh
        BY <4>1, <4>3, <1>5
      <4>4. QED
        BY <4>1, <4>2, <4>3, <1>3
    <3>5. ASSUME insns'[j].op.kind # "phi", NEW i \in Ids', LatestBefore(i, j)',
                 Uid(i)' \in insns'[j].op.deps
          PROVE  Done(i)' \/ i \in deps
      <4>1. IsAcc(i)' /\ i < j /\ \A k \in Ids' : i < k /\ k < j /\ IsAcc(k)' => Uid(k)' # Uid(i)'
        BY <3>5, Zenon DEF LatestBefore
      <4>2. i \in 1 .. j - 1
        BY <4>1, <3>3
      <4>3. ASSUME NEW k \in Ids', k \in Ids => IsAcc(k) PROVE IsAcc(k)'
        BY <4>3, <1>3, <1>4, <1>5
      <4>4. i \in Ids => IsAcc(i)
        BY <4>1, <1>4
      <4>5. LatestOf(all[i].op.uid, i, j, all)
        BY <4>1, <4>3, <4>4, <3>3, <1>8 DEF LatestOf
      <4>6. (i \in Ids /\ Done(i)) \/ i \in deps
        BY <3>1, <3>2, <3>5, <4>2, <4>5, <1>8
      <4>7. QED
        BY <4>6, <1>4
    <3>6. QED
      BY <3>1, <3>4, <3>5
  <2>3. QED
    BY <2>1, <2>2, <1>3
<1>19. DepsAgree'
  BY <1>18, Zenon DEF DepsAgree
<1>20. QED
  BY <1>15, <1>16, <1>17, <1>19
(* Where a terminator or a call goes is code of the same side.             *)
LEMMA DestIs ==
  ASSUME NEW ops, NEW names, IsCode(ops, names), NEW n \in 1 .. Len(ops)
  PROVE  /\ ops[n].kind \in {"br", "jmp", "call", "offload"} => ops[n].dest[1] \in names
         /\ ops[n].kind = "br" => ops[n].dest[2] \in names
<1>1. /\ n \in DOMAIN ops /\ ops[n] \in Ops
  BY CodeIs
<1>2. /\ ops[n].kind \in {"br", "jmp", "call", "offload"} => ops[n].dest # <<>>
      /\ ops[n].kind = "br" => Len(ops[n].dest) = 2
      /\ \A d \in DOMAIN ops[n].dest : ops[n].dest[d] \in names
  BY <1>1 DEF IsCode
<1>3. ops[n].dest \in Seq(STRING)
  BY <1>1 DEF Ops
<1>4. Len(ops[n].dest) \in Nat /\ DOMAIN ops[n].dest = 1 .. Len(ops[n].dest)
      /\ (ops[n].dest # <<>> => Len(ops[n].dest) # 0)
  BY <1>3, LenProperties, EmptySeq
<1>5. QED
  BY <1>2, <1>4

(* Where the accelerator goes on behind a block.                           *)
GoesOn ==
  /\ tracePos' \in Nat /\ abnormalExit' \in BOOLEAN /\ fetchForRet' \in BOOLEAN
  /\ targetBB' \in AccNames \union {NoBlock}
  /\ returnStack' \in Seq(Seq(Ops))
  /\ \A k \in 1 .. Len(returnStack') : AccCode(returnStack'[k])
  /\ targetBB' = NoBlock /\ ~fetchForRet' => abnormalExit'

LEMMA FetchGoesOn ==
  ASSUME TypeOK, NEW ops, AccCode(ops), FetchBlock(ops),
         NEW rest \in Seq(Seq(Ops)), \A k \in 1 .. Len(rest) : AccCode(rest[k]),
         returnStack' = Push(ops, rest)
  PROVE  GoesOn
<1> DEFINE n == Fetched(ops, tracePos)  p == ReadPos(ops, tracePos, n)
           abnormal == reads(ops[n]) /\ at_end(p)
           next == IF ops[n].kind = "jmp" THEN ops[n].dest[1]
                   ELSE IF Condition(p) THEN ops[n].dest[1] ELSE ops[n].dest[2]
           branch == ops[n].kind \in {"br", "jmp"} /\ ~abnormal
<1>1. IsCode(ops, AccNames) /\ \A k \in DOMAIN ops : ops[k].kind # "offload"
  BY DEF AccCode
<1>2. /\ n \in 1 .. Len(ops) /\ Stops(ops, tracePos, n)
      /\ ops[n].kind # "offload"
      /\ ops \in Seq(Ops) /\ Len(ops) \in Nat
  BY <1>1, FetchedIs, CodeIs
<1>3. /\ ops[n].kind \in {"br", "jmp", "call"} => ops[n].dest[1] \in AccNames
      /\ ops[n].kind = "br" => ops[n].dest[2] \in AccNames
  BY <1>1, <1>2, DestIs
<1>4. tracePos' \in Nat
  <2>1. tracePos' = ReadPos(ops, tracePos, n + 1)
    BY DEF FetchBlock
  <2>2. n + 1 \in Nat /\ tracePos \in Nat /\ scenario \in Scenarios
    BY <1>2 DEF TypeOK
  <2>3. QED
    BY <2>1, <2>2, ReadPosIs
<1>5. /\ abnormalExit' = (abnormalExit \/ abnormal)
      /\ fetchForRet' = (ops[n].kind = "ret")
      /\ targetBB' = IF abnormalExit' THEN NoBlock
                     ELSE IF branch THEN next
                     ELSE IF ops[n].kind = "call" THEN ops[n].dest[1]
                     ELSE NoBlock
  BY DEF FetchBlock
<1>6. abnormalExit' \in BOOLEAN /\ fetchForRet' \in BOOLEAN
  BY <1>5 DEF TypeOK, reads, at_end
<1>7. NoBlock \notin AccNames
  BY ProgramIs DEF TypeOK
<1>8. branch => next \in AccNames
  BY <1>3
<1>9. ~abnormal => ops[n].kind \in {"br", "jmp", "ret", "call"}
  BY <1>2 DEF Stops
<1> HIDE DEF next
<1>10. targetBB' \in AccNames \union {NoBlock}
  BY <1>3, <1>5, <1>8
<1>11. targetBB' = NoBlock /\ ~fetchForRet' => abnormalExit'
  <2>1. SUFFICES ASSUME ~abnormalExit', ~fetchForRet' PROVE targetBB' # NoBlock
    OBVIOUS
  <2>2. ~abnormal /\ ops[n].kind \in {"br", "jmp", "call"}
    BY <2>1, <1>5, <1>9
  <2>3. targetBB' \in AccNames
    BY <2>1, <2>2, <1>3, <1>5, <1>8
  <2>4. QED
    BY <2>3, <1>7
<1>12. returnStack' \in Seq(Seq(Ops)) /\ \A k \in 1 .. Len(returnStack') : AccCode(returnStack'[k])
  <2>1. CASE ops[n].kind = "call"
    <3> DEFINE back == SubSeq(ops, n + 1, Len(ops))
    <3>1. AccCode(back)
      BY <1>2, <2>1, RestIsAccCode
    <3>2. returnStack' = <<back>> \o rest
      BY <2>1 DEF Push
    <3> HIDE DEF back
    <3>3. back \in Seq(Ops)
      BY <3>1 DEF AccCode, IsCode
    <3>4. /\ returnStack' \in Seq(Seq(Ops)) /\ Len(rest) \in Nat
          /\ Len(returnStack') = Len(rest) + 1
          /\ returnStack'[1] = back
          /\ \A k \in 2 .. Len(rest) + 1 : k - 1 \in 1 .. Len(rest) /\ returnStack'[k] = rest[k - 1]
      BY <3>2, <3>3, ConsIs
    <3>5. ASSUME NEW k \in 1 .. Len(rest) + 1 PROVE AccCode(returnStack'[k])
      <4>1. k = 1 \/ k \in 2 .. Len(rest) + 1
        BY <3>4
      <4>2. CASE k = 1
        BY <4>2, <3>1, <3>4
      <4>3. CASE k \in 2 .. Len(rest) + 1
        BY <4>3, <3>4
      <4>4. QED
        BY <4>1, <4>2, <4>3
    <3>6. QED
      BY <3>4, <3>5
  <2>2. CASE ops[n].kind # "call"
    <3>1. returnStack' = rest
      BY <2>2 DEF Push
    <3>2. QED
      BY <3>1
  <2>3. QED
    BY <2>1, <2>2
<1>13. QED
  BY <1>4, <1>6, <1>10, <1>11, <1>12 DEF GoesOn
-----------------------------------------------------------------------------
(* What most steps leave alone.                                            *)

SameInsns ==
  /\ Len(insns') = Len(insns)
  /\ \A i \in Ids : insns'[i].op = insns[i].op /\ insns'[i].hw = insns[i].hw
                    /\ insns'[i].dynID = insns[i].dynID

LEMMA NumbersStay ==
  ASSUME SameInsns, NumbersAgree, NumbersFollowProgram,
         UNCHANGED <<failed, hostID, globalDynID, offloading>>
  PROVE  NumbersAgree' /\ NumbersFollowProgram'
<1>1. Live' = Live /\ Live \subseteq Ids
  BY DEF Live, SameInsns, Ids
<1>2. \A i \in Live : insns'[i].dynID = insns[i].dynID /\ IsAcc(i)' = IsAcc(i)
  BY <1>1 DEF SameInsns, IsAcc
<1>3. NumbersAgree'
  BY <1>1, <1>2, Zenon DEF NumbersAgree
<1>4. NumbersFollowProgram'
  BY <1>1, <1>2 DEF NumbersFollowProgram
<1>5. QED
  BY <1>3, <1>4

LEMMA HandOverStays ==
  ASSUME SameInsns, HandOver,
         UNCHANGED <<scenario, hostOffloading, offloading, offloadCall, hostBB, hostForRet, hostID>>
  PROVE  HandOver'
<1>1. Ids' = Ids /\ AccNames' = AccNames
  BY DEF SameInsns, Ids, AccNames, Names, Blocks
<1>2. QED
  BY <1>1 DEF SameInsns, HandOver

LEMMA SameCode ==
  ASSUME UNCHANGED scenario
  PROVE  /\ Names' = Names /\ AccNames' = AccNames /\ Blocks' = Blocks
         /\ \A ops : HostCode(ops)' = HostCode(ops) /\ AccCode(ops)' = AccCode(ops)
<1>1. Blocks' = Blocks /\ Names' = Names /\ AccNames' = AccNames
  BY DEF Blocks, Names, AccNames
<1>2. \A op : IsStatic(op)' = IsStatic(op)
  BY <1>1 DEF IsStatic
<1>3. QED
  BY <1>1, <1>2, Zenon DEF HostCode, AccCode

LEMMA CodeStays ==
  ASSUME CodeAgrees, UNCHANGED <<scenario, targetBB, returnStack, hostBB, hostReturnStack>>
  PROVE  CodeAgrees'
<1>1. QED
  BY SameCode, Zenon DEF CodeAgrees

(* The accelerator's side of a step of the core that is no hand-over.      *)
AccSide ==
  /\ AccAgrees' /\ Accounted' /\ OrderAgrees' /\ DepsAgree'
  /\ TickAgrees' /\ NothingLeftBehind' /\ PassAgrees'

LEMMA AccSideStays ==
  ASSUME IInv, HostOnly, stage' \notin {"accRetire", "accIssue"},
         UNCHANGED <<targetBB, fetchForRet, returnStack, abnormalExit, offloading>>
  PROVE  AccSide
<1>1. AccAgrees' /\ Accounted' /\ OrderAgrees' /\ DepsAgree'
  BY HostStep DEF IInv
<1>2. /\ reservation' = reservation /\ scoreboard' = scoreboard /\ inflight' = inflight
      /\ Ids' = 1 .. Len(insns')
  BY DEF HostOnly, Ids
<1>3. NothingToFetch' = NothingToFetch /\ isFinish' = isFinish
  BY <1>2 DEF NothingToFetch, isFinish
<1>4. TickAgrees'
  BY <1>3, Zenon DEF TickAgrees, IInv
<1>5. ASSUME ~offloading, NEW i \in Ids', insns'[i].hw = "acc" PROVE insns'[i].status = "COMMITED"
  <2>1. i \in Ids
    BY <1>5 DEF HostOnly
  <2>2. insns'[i].hw = insns[i].hw /\ (IsAcc(i) => insns'[i].status = insns[i].status)
    BY <2>1 DEF HostOnly, StaysFor
  <2>3. QED
    BY <1>5, <2>1, <2>2 DEF IInv, NothingLeftBehind, IsAcc, Ids
<1>6. NothingLeftBehind'
  BY <1>2, <1>5 DEF IInv, NothingLeftBehind
<1>7. PassAgrees'
  BY Zenon DEF PassAgrees
<1>8. QED
  BY <1>1, <1>4, <1>6, <1>7 DEF AccSide

(* How the core's pipeline changes the state of its instructions.          *)
HostChange ==
  /\ insns' \in Seq(Insn) /\ Len(insns') = Len(insns) /\ Ids' = Ids
  /\ \A i \in Ids : StaysFor(i)

Statuses == {"INIT", "ALLOCATED", "ISSUED", "FINISHED", "COMMITED"}

LEMMA StatusChange ==
  ASSUME TypeOK, NEW X, \A i \in Ids : i \in X => ~IsAcc(i), NEW st \in Statuses,
         insns' = [i \in 1 .. Len(insns) |->
           IF i \in X THEN [insns[i] EXCEPT !.status = st] ELSE insns[i]]
  PROVE  HostChange
<1>1. /\ Len(insns) \in Nat /\ \A i \in Ids : insns[i] \in Insn
      /\ Ids = 1 .. Len(insns)
  BY LenProperties, ElementOfSeq DEF TypeOK, Ids
<1>2. ASSUME NEW i \in Ids
      PROVE  /\ insns'[i] = IF i \in X THEN [insns[i] EXCEPT !.status = st] ELSE insns[i]
             /\ insns'[i] \in Insn
             /\ insns'[i].op = insns[i].op /\ insns'[i].hw = insns[i].hw
             /\ insns'[i].dynID = insns[i].dynID
             /\ i \notin X => insns'[i] = insns[i]
  BY <1>1 DEF Insn, Statuses
<1>3. insns' \in [1 .. Len(insns) -> Insn]
  BY <1>1, <1>2
<1>4. insns' \in Seq(Insn) /\ Len(insns') = Len(insns)
  BY <1>1, <1>3, FunctionIsSeq
<1>5. \A i \in Ids : StaysFor(i)
  BY <1>2 DEF StaysFor
<1>6. QED
  BY <1>4, <1>5 DEF HostChange, Ids

LEMMA HostSet ==
  ASSUME TypeOK, HostAgrees
  PROVE  /\ \A i \in ToSet(hostQ) : i \in Ids /\ ~IsAcc(i)
         /\ \A k \in 1 .. Len(hostQ) : hostQ[k] \in Ids /\ ~IsAcc(hostQ[k]) /\ hostQ[k] \in ToSet(hostQ)
<1>1. DOMAIN hostQ = 1 .. Len(hostQ)
  BY LenProperties DEF TypeOK
<1>2. QED
  BY <1>1 DEF ToSet, HostAgrees

(* A step of the core's pipeline behind the fetch.                         *)
LEMMA PipelineStep ==
  ASSUME IInv, HostChange, hostQ' \in Seq(Nat),
         \A k \in 1 .. Len(hostQ') : hostQ'[k] \in Ids /\ ~IsAcc(hostQ'[k]),
         lsq' \in SUBSET Ids, pos' \in Nat,
         stage' \in {"commit", "execute", "accFetch", "dispatch", "fetch", "memory"},
         UNCHANGED <<scenario, tracePos, accVars, hostBB, hostForRet, hostReturnStack, hostID,
                     hostAbnormal, rollbackPos, offloadCall, hostOffloading, failed>>
  PROVE  IInv'
<1>1. SameInsns /\ Ids' = Ids
  BY Zenon DEF SameInsns, HostChange, StaysFor
<1>2. /\ reservation' = reservation /\ scoreboard' = scoreboard /\ inflight' = inflight
      /\ used_port' = used_port /\ targetBB' = targetBB /\ fetchForRet' = fetchForRet
      /\ returnStack' = returnStack /\ globalDynID' = globalDynID
      /\ abnormalExit' = abnormalExit /\ offloading' = offloading
  BY DEF accVars, fetchVars, queueVars
<1>3. HostOnly
  <2>1. Len(insns) \in Nat
    BY LenProperties DEF IInv, TypeOK
  <2>2. QED
    BY <1>2, <2>1 DEF HostChange, HostOnly, StaysFor
<1>4. AccSide
  BY <1>2, <1>3, AccSideStays
<1>5. NumbersAgree' /\ NumbersFollowProgram'
  BY <1>1, <1>2, NumbersStay DEF IInv
<1>6. HandOver'
  BY <1>1, <1>2, HandOverStays DEF IInv
<1>7. CodeAgrees'
  BY <1>2, CodeStays DEF IInv
<1>8. HostAgrees'
  BY <1>1 DEF HostAgrees, IsAcc, SameInsns
<1>9. TypeOK'
  BY <1>1, <1>2 DEF IInv, TypeOK, HostChange
<1>10. QED
  BY <1>4, <1>5, <1>6, <1>7, <1>8, <1>9, Zenon DEF AccSide, IInv

LEMMA CommitStep ==
  ASSUME IInv, Commit
  PROVE  IInv'
<1> DEFINE S == {i \in ToSet(hostQ) : insns[i].status = "FINISHED"}  n == Leading(hostQ, S)
           X == ToSet(SubSeq(hostQ, 1, n))
<1>1. /\ hostQ' = SubSeq(hostQ, n + 1, Len(hostQ))
      /\ insns' = [i \in 1 .. Len(insns) |->
           IF i \in X THEN [insns[i] EXCEPT !.status = "COMMITED"] ELSE insns[i]]
  BY DEF Commit
<1>2. hostQ \in Seq(Nat) /\ TypeOK /\ HostAgrees
  BY DEF IInv, TypeOK
<1>3. n \in 0 .. Len(hostQ)
  <2> HIDE DEF S
  <2>1. QED
    BY <1>2, LeadingIs
<1> HIDE DEF n
<1>4. /\ SubSeq(hostQ, 1, n) \in Seq(Nat) /\ Len(SubSeq(hostQ, 1, n)) = n
      /\ \A k \in 1 .. n : SubSeq(hostQ, 1, n)[k] = hostQ[k]
      /\ hostQ' \in Seq(Nat) /\ Len(hostQ') = Len(hostQ) - n
      /\ \A k \in 1 .. Len(hostQ) - n : hostQ'[k] = hostQ[n + k]
  BY <1>1, <1>2, <1>3, CutIs, ZenonT(40)
<1>5. Len(hostQ) \in Nat /\ \A k \in 1 .. n : k \in 1 .. Len(hostQ)
  BY <1>2, <1>3, LenProperties
<1>6. \A k \in 1 .. Len(hostQ) - n : n + k \in 1 .. Len(hostQ)
  BY <1>3, <1>5
<1>7. \A i \in X : ~IsAcc(i)
  <2>1. DOMAIN SubSeq(hostQ, 1, n) = 1 .. n
    BY <1>4, LenProperties
  <2>2. QED
    BY <2>1, <1>2, <1>4, <1>5 DEF ToSet, HostAgrees
<1> HIDE DEF X
<1>8. HostChange
  BY <1>1, <1>2, <1>7, StatusChange DEF Statuses
<1>9. \A k \in 1 .. Len(hostQ') : hostQ'[k] \in Ids /\ ~IsAcc(hostQ'[k])
  BY <1>2, <1>4, <1>6 DEF HostAgrees
<1>10. /\ UNCHANGED <<scenario, tracePos, lsq, accVars, hostBB, hostForRet, hostReturnStack,
                      hostID, hostAbnormal, rollbackPos, offloadCall, hostOffloading, failed>>
       /\ stage' = "execute" /\ pos' = 1
  BY Zenon DEF Commit, GoTo, hostFetchVars
<1>11. lsq' \in SUBSET Ids /\ pos' \in Nat
  BY <1>2, <1>10 DEF TypeOK
<1>12. QED
  BY <1>4, <1>8, <1>9, <1>10, <1>11, PipelineStep

LEMMA MemoryStep ==
  ASSUME IInv, NEW S \in SUBSET (Waiting \union Stores), Memory(S)
  PROVE  IInv'
<1> DEFINE X == S \intersect Waiting
<1>1. TypeOK /\ HostAgrees
  BY DEF IInv
<1>2. /\ UNCHANGED <<scenario, tracePos, hostQ, accVars, hostBB, hostForRet, hostReturnStack,
                     hostID, hostAbnormal, rollbackPos, offloadCall, hostOffloading, failed>>
      /\ stage' = "commit" /\ pos' = 1 /\ lsq' \subseteq lsq
      /\ insns' = [i \in 1 .. Len(insns) |->
           IF i \in X THEN [insns[i] EXCEPT !.data = TRUE] ELSE insns[i]]
  BY DEF Memory, GoTo, hostFetchVars
<1> HIDE DEF X
<1>3. HostChange
  <2>1. /\ Len(insns) \in Nat /\ \A i \in Ids : insns[i] \in Insn
        /\ Ids = 1 .. Len(insns)
    BY <1>1, LenProperties, ElementOfSeq DEF TypeOK, Ids
  <2>2. ASSUME NEW i \in Ids
        PROVE  /\ insns'[i] \in Insn
               /\ insns'[i].op = insns[i].op /\ insns'[i].hw = insns[i].hw
               /\ insns'[i].dynID = insns[i].dynID
               /\ insns'[i].status = insns[i].status
               /\ insns'[i].cycle = insns[i].cycle
               /\ insns'[i].deps = insns[i].deps
               /\ insns[i].data => insns'[i].data
    <3>1. insns'[i] = IF i \in X THEN [insns[i] EXCEPT !.data = TRUE] ELSE insns[i]
      BY <2>1, <1>2
    <3>2. QED
      BY <2>1, <3>1 DEF Insn
  <2>3. insns' \in [1 .. Len(insns) -> Insn]
    BY <2>1, <2>2, <1>2
  <2>4. insns' \in Seq(Insn) /\ Len(insns') = Len(insns)
    BY <2>1, <2>3, FunctionIsSeq
  <2>5. QED
    BY <2>2, <2>4 DEF HostChange, StaysFor, Ids
<1>4. lsq' \in SUBSET Ids /\ pos' \in Nat /\ hostQ' \in Seq(Nat)
  BY <1>1, <1>2 DEF TypeOK
<1>5. \A k \in 1 .. Len(hostQ') : hostQ'[k] \in Ids /\ ~IsAcc(hostQ'[k])
  BY <1>1, <1>2 DEF HostAgrees
<1>6. QED
  BY <1>2, <1>3, <1>4, <1>5, PipelineStep

LEMMA DispatchStep ==
  ASSUME IInv, Dispatch
  PROVE  IInv'
<1> DEFINE S == {i \in ToSet(hostQ) : insns[i].status # "INIT"}
           n == Leading(hostQ, S)  i == hostQ[n + 1]
<1>1. /\ TypeOK /\ HostAgrees /\ hostQ \in Seq(Nat) /\ Len(hostQ) \in Nat /\ pos \in Nat
      /\ Len(insns) \in Nat
  BY LenProperties DEF IInv, TypeOK
<1>2. n \in 0 .. Len(hostQ)
  <2> HIDE DEF S
  <2>1. QED
    BY <1>1, LeadingIs
<1>3. /\ UNCHANGED <<scenario, tracePos, hostQ, accVars, hostBB, hostForRet, hostReturnStack,
                     hostID, hostAbnormal, rollbackPos, offloadCall, hostOffloading, failed>>
      /\ stage' \in {"dispatch", "fetch"} /\ pos' \in {pos, 1}
      /\ \/ UNCHANGED <<insns, lsq>>
         \/ /\ n # Len(hostQ)
            /\ insns' = [insns EXCEPT ![i].status = "ALLOCATED"]
            /\ lsq' = IF isMem(insns[i].op) THEN lsq \union {i} ELSE lsq
  BY Zenon DEF Dispatch, GoTo, hostFetchVars
<1> HIDE DEF n
<1>4. HostChange /\ lsq' \in SUBSET Ids
  <2>1. CASE UNCHANGED <<insns, lsq>>
    BY <2>1, <1>1 DEF HostChange, StaysFor, TypeOK, Ids
  <2>2. CASE /\ n # Len(hostQ)
             /\ insns' = [insns EXCEPT ![i].status = "ALLOCATED"]
             /\ lsq' = IF isMem(insns[i].op) THEN lsq \union {i} ELSE lsq
    <3>1. n + 1 \in 1 .. Len(hostQ)
      BY <1>1, <1>2, <2>2
    <3>2. i \in Ids /\ ~IsAcc(i)
      BY <1>1, <3>1 DEF HostAgrees
    <3> HIDE DEF i
    <3> DEFINE X == {i}
    <3>3. insns' = [j \in 1 .. Len(insns) |->
             IF j \in X THEN [insns[j] EXCEPT !.status = "ALLOCATED"] ELSE insns[j]]
      <4>1. insns \in [1 .. Len(insns) -> Insn]
        BY <1>1, ElementOfSeq, LenProperties DEF TypeOK
      <4>2. DOMAIN insns = 1 .. Len(insns)
        BY <1>1, LenProperties DEF TypeOK
      <4>3. QED
        BY <2>2, <3>2, <4>1, <4>2 DEF Ids
    <3>4. \A j \in Ids : j \in X => ~IsAcc(j)
      BY <3>2
    <3> HIDE DEF X
    <3>5. HostChange
      BY <1>1, <3>3, <3>4, StatusChange DEF Statuses
    <3>6. lsq' \in SUBSET Ids
      BY <2>2, <3>2, <1>1 DEF TypeOK
    <3>7. QED
      BY <3>5, <3>6
  <2>3. QED
    BY <1>3, <2>1, <2>2
<1>5. hostQ' \in Seq(Nat) /\ pos' \in Nat
  BY <1>1, <1>3
<1>6. \A k \in 1 .. Len(hostQ') : hostQ'[k] \in Ids /\ ~IsAcc(hostQ'[k])
  BY <1>1, <1>3 DEF HostAgrees
<1>7. QED
  BY <1>3, <1>4, <1>5, <1>6, PipelineStep
(* The offloaded call executes: the accelerator goes on with its numbers.  *)
LEMMA ExecuteStep ==
  ASSUME IInv, NEW S \in SUBSET Dispatched, Execute(S)
  PROVE  IInv'
<1>1. /\ TypeOK /\ HostAgrees /\ hostQ \in Seq(Nat)
      /\ S \subseteq ToSet(hostQ) /\ \A i \in ToSet(hostQ) : i \in Ids /\ ~IsAcc(i)
  BY HostSet DEF IInv, TypeOK, Dispatched
<1>2. /\ UNCHANGED <<scenario, tracePos, lsq, queueVars, hostQ, hostBB, hostForRet,
                     hostReturnStack, hostID, hostAbnormal, rollbackPos, failed>>
      /\ stage' = "accFetch" /\ pos' = 1
      /\ insns' = [i \in 1 .. Len(insns) |->
           IF i \in S THEN [insns[i] EXCEPT !.status = "FINISHED"] ELSE insns[i]]
  BY Zenon DEF Execute, GoTo
<1>3. HostChange
  BY <1>1, <1>2, StatusChange DEF Statuses
<1>4. lsq' \in SUBSET Ids /\ pos' \in Nat /\ hostQ' \in Seq(Nat)
  BY <1>1, <1>2 DEF TypeOK
<1>5. \A k \in 1 .. Len(hostQ') : hostQ'[k] \in Ids /\ ~IsAcc(hostQ'[k])
  BY <1>1, <1>2 DEF HostAgrees
<1>6. CASE UNCHANGED <<fetchVars, offloading, hostOffloading, offloadCall>>
  <2>1. UNCHANGED accVars
    BY <1>2, <1>6, Zenon DEF accVars
  <2>2. QED
    BY <1>2, <1>3, <1>4, <1>5, <1>6, <2>1, PipelineStep
<1>7. CASE /\ offloadCall \in S /\ ~hostOffloading
           /\ targetBB' = insns[offloadCall].op.dest[1]
           /\ globalDynID' = insns[offloadCall].dynID + 1
           /\ offloading' = TRUE /\ hostOffloading' = TRUE /\ offloadCall' = 0
           /\ UNCHANGED <<fetchForRet, returnStack, abnormalExit>>
  <2>1. /\ offloadCall \in Ids /\ offloadCall # 0 /\ hostBB = NoBlock /\ ~hostForRet
        /\ targetBB' \in AccNames /\ globalDynID' = hostID /\ ~offloading
    BY <1>1, <1>7 DEF IInv, HandOver, Ids
  <2>2. /\ Ids' = Ids /\ SameInsns /\ Len(insns) \in Nat
        /\ AccNames' = AccNames /\ Names' = Names
        /\ reservation' = reservation /\ scoreboard' = scoreboard /\ inflight' = inflight
        /\ used_port' = used_port
    <3>1. /\ scenario' = scenario /\ reservation' = reservation /\ scoreboard' = scoreboard
          /\ inflight' = inflight /\ used_port' = used_port
      BY <1>2 DEF queueVars
    <3>2. Ids' = Ids /\ SameInsns
      BY <1>3, Zenon DEF HostChange, SameInsns, StaysFor
    <3>3. Len(insns) \in Nat
      BY <1>1, LenProperties DEF TypeOK
    <3>4. QED
      BY <3>1, <3>2, <3>3, SameCode
  <2>3. AccAgrees' /\ Accounted' /\ OrderAgrees' /\ DepsAgree'
    <3>1. HostOnly
      BY <1>2, <1>3, <2>2 DEF HostOnly, HostChange, StaysFor
    <3>2. QED
      BY <3>1, HostStep DEF IInv
  <2>4. NoBlock \notin AccNames
    BY <1>1, ProgramIs DEF TypeOK
  <2>5. TickAgrees' /\ NothingLeftBehind' /\ PassAgrees'
    BY <1>2, <1>7, <2>1, <2>4 DEF TickAgrees, NothingToFetch, NothingLeftBehind, PassAgrees
  <2>6. HandOver'
    BY <1>2, <1>7, <2>1 DEF HandOver
  <2>7. CodeAgrees'
    <3>1. \A ops : HostCode(ops)' = HostCode(ops) /\ AccCode(ops)' = AccCode(ops)
      BY <1>2, SameCode
    <3>2. QED
      BY <1>2, <1>7, <2>1, <2>2, <3>1 DEF CodeAgrees, IInv
  <2>8. HostAgrees'
    BY <1>1, <1>2, <2>2 DEF HostAgrees, IsAcc, SameInsns
  <2>9. TypeOK'
    BY <1>1, <1>2, <1>3, <1>7, <2>1, <2>2 DEF TypeOK, HostChange
  <2>10. /\ Live' = Live /\ Live \subseteq Ids
         /\ \A i \in Live : insns'[i].dynID = insns[i].dynID /\ insns[i].dynID < hostID
                            /\ insns[i].dynID \in Nat /\ hostID \in Nat
    <3>1. Live' = Live /\ Live \subseteq Ids
      BY <1>2, <2>2 DEF Live, SameInsns, Ids
    <3>2. \A i \in Live : insns[i].dynID < hostID
      BY <2>1 DEF IInv, NumbersAgree
    <3>3. \A i \in Ids : insns[i] \in Insn
      BY <1>1, ElementOfSeq DEF TypeOK, Ids
    <3>4. QED
      BY <1>1, <2>2, <3>1, <3>2, <3>3 DEF SameInsns, Insn, TypeOK
  <2>11. NumbersAgree' /\ NumbersFollowProgram'
    <3>1. NumbersFollowProgram'
      BY <2>10 DEF IInv, NumbersFollowProgram
    <3>2. NumbersAgree'
      <4>1. /\ hostID' = hostID /\ globalDynID' = hostID /\ offloading' = TRUE /\ hostID \in Nat
        BY <1>1, <1>2, <1>7, <2>1 DEF TypeOK
      <4>2. \A i \in Live' : insns'[i].dynID < hostID /\ ~(insns'[i].dynID >= hostID)
        BY <2>10
      <4>3. hostID <= hostID
        BY <4>1
      <4>4. QED
        BY <4>1, <4>2, <4>3, Zenon DEF NumbersAgree
    <3>3. QED
      BY <3>1, <3>2
  <2>12. QED
    BY <2>3, <2>5, <2>6, <2>7, <2>8, <2>9, <2>11, Zenon DEF IInv
<1>8. QED
  <2>1. CASE offloadCall \in S /\ ~hostOffloading
    BY <2>1, <1>7, Zenon DEF Execute, switchContext
  <2>2. CASE ~(offloadCall \in S /\ ~hostOffloading)
    BY <2>2, <1>6, Zenon DEF Execute
  <2>3. QED
    BY <2>1, <2>2

(* The instructions that the core fetches come last, and have the next     *)
(* numbers.                                                                *)
HostTakes(ops, n) ==
  /\ n \in 1 .. Len(ops)
  /\ insns' \in Seq(Insn) /\ Len(insns) \in Nat /\ Len(insns') = Len(insns) + n
  /\ \A i \in Ids : insns'[i] = insns[i]
  /\ \A k \in 1 .. n :
       LET j == Len(insns) + k
       IN /\ insns'[j].hw = "core" /\ insns'[j].dynID = hostID + k - 1
          /\ ops[k].kind = "offload" => insns'[j].op = ops[k]
  /\ hostQ' \in Seq(Nat)
  /\ \A k \in 1 .. Len(hostQ') : hostQ'[k] \in Ids' /\ insns'[hostQ'[k]].hw = "core"

LEMMA PreprocessTakes ==
  ASSUME TypeOK, HostAgrees, NEW ops, HostCode(ops), NEW rest, Preprocess(ops, rest)
  PROVE  HostTakes(ops, Fetched(ops, tracePos))
<1> DEFINE n == Fetched(ops, tracePos)  L == Len(insns)
           judges == ops[n].kind = "br"
                     /\ ~(reads(ops[n]) /\ at_end(ReadPos(ops, tracePos, n)))
                     /\ switching /\ scenario.speculative
           ops2 == IF judges THEN [ops EXCEPT ![n].kind = "jmp"] ELSE ops
           new == NewInsns(ops2, tracePos, n, hostID, "core")
           ids == [k \in 1 .. n |-> L + k]
<1>1. insns' = insns \o new /\ hostQ' = hostQ \o ids
  BY Zenon DEF Preprocess
<1>2. /\ n \in 1 .. Len(ops) /\ ops \in Seq(Ops) /\ Len(ops) \in Nat
      /\ DOMAIN ops = 1 .. Len(ops) /\ \A k \in 1 .. Len(ops) : ops[k] \in Ops
  BY FetchedIs, CodeIs DEF HostCode
<1>3. /\ L \in Nat /\ insns \in Seq(Insn) /\ hostQ \in Seq(Nat) /\ Len(hostQ) \in Nat
      /\ scenario \in Scenarios /\ tracePos \in Nat /\ hostID \in Nat
  BY LenProperties DEF TypeOK
<1> HIDE DEF n
<1>4. /\ ops2 \in Seq(Ops) /\ Len(ops2) = Len(ops)
      /\ \A k \in 1 .. Len(ops) : ops[k].kind = "offload" => ops2[k] = ops[k]
  <2>1. CASE judges
    <3> DEFINE o == [ops EXCEPT ![n].kind = "jmp"]
    <3>1. o = [ops EXCEPT ![n] = [ops[n] EXCEPT !.kind = "jmp"]]
      OBVIOUS
    <3>2. [ops[n] EXCEPT !.kind = "jmp"] \in Ops
      BY <1>2 DEF Ops, Kinds
    <3>3. ops \in [1 .. Len(ops) -> Ops]
      BY <1>2
    <3>4. o \in [1 .. Len(ops) -> Ops]
      BY <3>1, <3>2, <3>3, <1>2
    <3>5. \A k \in 1 .. Len(ops) : k # n => o[k] = ops[k]
      BY <3>1, <3>3
    <3>6. ops[n].kind # "offload"
      BY <2>1
    <3> HIDE DEF o
    <3>7. o \in Seq(Ops) /\ Len(o) = Len(ops)
      BY <1>2, <3>4, FunctionIsSeq
    <3>8. ops2 = o
      BY <2>1 DEF o
    <3>9. QED
      BY <3>5, <3>6, <3>7, <3>8
  <2>2. CASE ~judges
    BY <2>2, <1>2
  <2>3. QED
    BY <2>1, <2>2
<1> HIDE DEF ops2
<1>5. AreNew(new, ops2, n, hostID, "core")
  <2>1. /\ scenario \in Scenarios /\ ops2 \in Seq(Ops) /\ tracePos \in Nat
        /\ n \in 1 .. Len(ops2) /\ hostID \in Nat /\ "core" \in {"core", "acc"}
    BY <1>2, <1>3, <1>4
  <2>2. new = NewInsns(ops2, tracePos, n, hostID, "core")
    OBVIOUS
  <2> HIDE DEF new
  <2>3. QED
    BY <2>1, <2>2, NewInsnsAre
<1> HIDE DEF new
<1>6. /\ new \in Seq(Insn) /\ Len(new) = n
      /\ \A k \in 1 .. n : new[k].op = ops2[k] /\ new[k].dynID = hostID + k - 1
                           /\ new[k].hw = "core"
  BY <1>5, Zenon DEF AreNew
<1>7. /\ insns' \in Seq(Insn) /\ Len(insns') = L + n
      /\ \A k \in 1 .. L : insns'[k] = insns[k]
      /\ \A k \in 1 .. n : insns'[L + k] = new[k]
  <2>1. /\ insns \o new \in Seq(Insn) /\ Len(insns \o new) = Len(insns) + Len(new)
        /\ \A k \in 1 .. Len(insns) : (insns \o new)[k] = insns[k]
        /\ \A k \in 1 .. Len(new) : (insns \o new)[Len(insns) + k] = new[k]
    <3>1. insns \in Seq(Insn) /\ new \in Seq(Insn)
      BY <1>3, <1>6
    <3>2. QED
      BY <3>1, CatIs
  <2>2. QED
    BY <2>1, <1>1, <1>6
<1>8. ids \in Seq(Nat) /\ Len(ids) = n /\ \A k \in 1 .. n : ids[k] = L + k
  <2>1. ids \in [1 .. n -> Nat] /\ n \in Nat
    BY <1>2, <1>3
  <2>2. \A k \in 1 .. n : ids[k] = L + k
    OBVIOUS
  <2> HIDE DEF ids
  <2>3. QED
    BY <2>1, <2>2, FunctionIsSeq
<1> HIDE DEF ids
<1>9. /\ hostQ' \in Seq(Nat) /\ Len(hostQ') = Len(hostQ) + n
      /\ \A k \in 1 .. Len(hostQ) : hostQ'[k] = hostQ[k]
      /\ \A k \in 1 .. n : hostQ'[Len(hostQ) + k] = L + k
  <2>1. /\ hostQ \o ids \in Seq(Nat) /\ Len(hostQ \o ids) = Len(hostQ) + Len(ids)
        /\ \A k \in 1 .. Len(hostQ) : (hostQ \o ids)[k] = hostQ[k]
        /\ \A k \in 1 .. Len(ids) : (hostQ \o ids)[Len(hostQ) + k] = ids[k]
    <3>1. hostQ \in Seq(Nat) /\ ids \in Seq(Nat)
      BY <1>3, <1>8
    <3>2. QED
      BY <3>1, CatIs
  <2>2. QED
    BY <2>1, <1>1, <1>8
<1>10. Ids = 1 .. L /\ Ids' = 1 .. L + n
  BY <1>7 DEF Ids
<1>11. ASSUME NEW k \in 1 .. n
       PROVE  /\ insns'[L + k].hw = "core" /\ insns'[L + k].dynID = hostID + k - 1
              /\ ops[k].kind = "offload" => insns'[L + k].op = ops[k]
              /\ L + k \in Ids'
  <2>1. k \in 1 .. Len(ops) /\ L + k \in 1 .. L + n
    BY <1>2, <1>3
  <2>2. QED
    BY <2>1, <1>4, <1>6, <1>7, <1>10
<1>12. ASSUME NEW k \in 1 .. Len(hostQ') PROVE hostQ'[k] \in Ids' /\ insns'[hostQ'[k]].hw = "core"
  <2>1. CASE k \in 1 .. Len(hostQ)
    <3>1. hostQ[k] \in Ids /\ ~IsAcc(hostQ[k])
      BY <2>1 DEF HostAgrees
    <3>2. insns[hostQ[k]] \in Insn
      BY <3>1, <1>3, <1>10, ElementOfSeq
    <3>3. insns[hostQ[k]].hw = "core"
      BY <3>1, <3>2 DEF IsAcc, Insn
    <3>4. hostQ[k] \in 1 .. L + n
      BY <3>1, <1>2, <1>3, <1>10
    <3>5. QED
      BY <2>1, <3>1, <3>3, <3>4, <1>7, <1>9, <1>10
  <2>2. CASE k \notin 1 .. Len(hostQ)
    <3>1. k - Len(hostQ) \in 1 .. n /\ Len(hostQ) + (k - Len(hostQ)) = k
      BY <2>2, <1>2, <1>3, <1>9
    <3>2. hostQ'[Len(hostQ) + (k - Len(hostQ))] = L + (k - Len(hostQ))
      BY <3>1, <1>9
    <3>3. QED
      BY <3>1, <3>2, <1>11
  <2>3. QED
    BY <2>1, <2>2
<1>13. QED
  BY <1>2, <1>3, <1>7, <1>9, <1>10, <1>11, <1>12 DEF HostTakes, n, L
LEMMA PreprocessStep ==
  ASSUME IInv, NEW ops, HostCode(ops),
         NEW rest \in Seq(Seq(Ops)), \A k \in 1 .. Len(rest) : HostCode(rest[k]),
         Preprocess(ops, rest), ~offloading, offloadCall = 0, stage' = "memory", pos' = 1,
         UNCHANGED <<scenario, lsq, accVars, hostOffloading, failed>>
  PROVE  IInv'
<1> DEFINE n == Fetched(ops, tracePos)  L == Len(insns)
           abnormal == reads(ops[n]) /\ at_end(ReadPos(ops, tracePos, n))
           judges == ops[n].kind = "br" /\ ~abnormal /\ switching /\ scenario.speculative
           enters == ops[n].kind \in {"call", "offload"} /\ ~abnormal
           branch == ops[n].kind \in {"br", "jmp"} /\ ~abnormal
           p2 == IF judges THEN resetReadingPos(ReadPos(ops, tracePos, n))
                 ELSE ReadPos(ops, tracePos, n + 1)
           cond == IF judges THEN ~rollback ELSE Condition(ReadPos(ops, tracePos, n))
<1>1. TypeOK /\ HostAgrees /\ NothingLeftBehind /\ HandOver /\ NumbersAgree /\ CodeAgrees
  BY DEF IInv
<1>2. /\ reservation' = reservation /\ scoreboard' = scoreboard /\ inflight' = inflight
      /\ used_port' = used_port /\ targetBB' = targetBB /\ fetchForRet' = fetchForRet
      /\ returnStack' = returnStack /\ globalDynID' = globalDynID
      /\ abnormalExit' = abnormalExit /\ offloading' = offloading
  BY DEF accVars, fetchVars, queueVars
<1>3. HostTakes(ops, n)
  BY <1>1, PreprocessTakes
<1>4. /\ n \in 1 .. Len(ops) /\ insns' \in Seq(Insn) /\ L \in Nat /\ Len(insns') = L + n
      /\ \A i \in Ids : insns'[i] = insns[i]
      /\ hostQ' \in Seq(Nat)
      /\ \A k \in 1 .. Len(hostQ') : hostQ'[k] \in Ids' /\ insns'[hostQ'[k]].hw = "core"
      /\ \A k \in 1 .. n :
           /\ insns'[L + k].hw = "core" /\ insns'[L + k].dynID = hostID + k - 1
           /\ ops[k].kind = "offload" => insns'[L + k].op = ops[k]
  BY <1>3 DEF HostTakes
<1>5. /\ hostID' = hostID + n /\ tracePos' = p2 /\ hostAbnormal' = abnormal
      /\ hostForRet' = (ops[n].kind = "ret")
      /\ hostReturnStack' = IF enters THEN <<SubSeq(ops, n + 1, Len(ops))>> \o rest ELSE rest
      /\ offloadCall' = IF enters /\ ops[n].kind = "offload" THEN L + n ELSE offloadCall
      /\ hostBB' = IF abnormal \/ (branch /\ at_end(p2)) THEN NoBlock
                   ELSE IF ops[n].kind = "jmp" THEN ops[n].dest[1]
                   ELSE IF branch THEN (IF cond THEN ops[n].dest[1] ELSE ops[n].dest[2])
                   ELSE IF ops[n].kind = "call" THEN ops[n].dest[1]
                   ELSE NoBlock
      /\ rollbackPos' = IF enters /\ scenario.speculative THEN ReadPos(ops, tracePos, n) ELSE rollbackPos
  BY DEF Preprocess
<1>6. /\ ops \in Seq(Ops) /\ Len(ops) \in Nat
      /\ ops[n].kind \in {"br", "jmp", "call", "offload"} => ops[n].dest[1] \in Names
      /\ ops[n].kind = "br" => ops[n].dest[2] \in Names
      /\ ops[n].kind = "offload" => ops[n].dest[1] \in AccNames
  <2>1. IsCode(ops, Names) /\ n \in DOMAIN ops
    BY <1>4, CodeIs DEF HostCode
  <2>2. QED
    BY <1>4, <2>1, CodeIs, DestIs DEF HostCode
<1>7. p2 \in Nat
  <2>1. /\ n + 1 \in Nat /\ n \in Nat /\ tracePos \in Nat /\ scenario \in Scenarios
        /\ rollbackPos \in Nat
    BY <1>1, <1>4 DEF TypeOK
  <2>2. ReadPos(ops, tracePos, n) \in Nat /\ ReadPos(ops, tracePos, n + 1) \in Nat
    BY <2>1, ReadPosIs
  <2>3. QED
    BY <2>1, <2>2 DEF resetReadingPos
<1> HIDE DEF p2, cond, n
<1>8. rollbackPos' \in Nat
  <2>1. n \in Nat /\ tracePos \in Nat /\ scenario \in Scenarios /\ rollbackPos \in Nat
    BY <1>1, <1>4 DEF TypeOK
  <2>2. ReadPos(ops, tracePos, n) \in Nat
    BY <2>1, ReadPosIs
  <2>3. QED
    BY <2>1, <2>2, <1>5
<1>9. Ids = 1 .. L /\ Ids' = 1 .. L + n /\ L + n \in Ids' /\ n \in Nat
  BY <1>4 DEF Ids
<1>10. ASSUME NEW j \in Ids'
       PROVE  /\ j \in Ids \/ \E k \in 1 .. n : j = L + k
              /\ j \notin Ids => insns'[j].hw = "core" /\ insns'[j].dynID = hostID + (j - L) - 1
                                 /\ L < j
  <2>1. CASE j \in Ids
    BY <2>1
  <2>2. CASE j \notin Ids
    <3>1. j - L \in 1 .. n /\ L + (j - L) = j /\ L < j
      BY <2>2, <1>4, <1>9
    <3>2. insns'[L + (j - L)].hw = "core" /\ insns'[L + (j - L)].dynID = hostID + (j - L) - 1
      BY <3>1, <1>4
    <3>3. QED
      BY <3>1, <3>2
  <2>3. QED
    BY <2>1, <2>2
<1>11. HostOnly
  BY <1>2, <1>4, <1>9, <1>10 DEF HostOnly, StaysFor
<1>12. AccSide
  BY <1>2, <1>11, AccSideStays
<1>13. HostAgrees'
  BY <1>4 DEF HostAgrees, IsAcc
<1>14. NoBlock \notin Names
  BY <1>1, ProgramIs DEF TypeOK
<1>15. HandOver'
  <2>1. AccNames' = AccNames
    BY SameCode
  <2>2. offloading' = FALSE /\ hostOffloading' = hostOffloading /\ hostOffloading = FALSE
    BY <1>1, <1>2 DEF HandOver, TypeOK
  <2>3. CASE enters /\ ops[n].kind = "offload"
    <3>1. /\ offloadCall' = L + n /\ hostBB' = NoBlock /\ hostForRet' = FALSE
      BY <2>3, <1>5
    <3>2. /\ insns'[L + n].op = ops[n] /\ insns'[L + n].dynID = hostID + n - 1
      BY <2>3, <1>4
    <3>3. hostID + n - 1 + 1 = hostID'
      BY <1>1, <1>5, <1>9 DEF TypeOK
    <3>4. insns'[L + n].op.dest[1] \in AccNames'
      BY <2>1, <2>3, <3>2, <1>6
    <3>5. QED
      BY <2>2, <3>1, <3>2, <3>3, <3>4, <1>4, <1>9 DEF HandOver
  <2>4. CASE ~(enters /\ ops[n].kind = "offload")
    <3>1. offloadCall' = 0
      BY <2>4, <1>5
    <3>2. QED
      BY <2>2, <3>1 DEF HandOver
  <2>5. QED
    BY <2>3, <2>4
<1>16. \A c : HostCode(c)' = HostCode(c) /\ AccCode(c)' = AccCode(c)
  BY SameCode
<1>17. hostReturnStack' \in Seq(Seq(Ops))
       /\ \A k \in 1 .. Len(hostReturnStack') : HostCode(hostReturnStack'[k])
  <2>1. CASE enters
    <3> DEFINE back == SubSeq(ops, n + 1, Len(ops))
    <3>1. HostCode(back)
      BY <1>4, <2>1, RestIsHostCode
    <3>2. hostReturnStack' = <<back>> \o rest
      BY <2>1, <1>5
    <3> HIDE DEF back
    <3>3. back \in Seq(Ops)
      BY <3>1 DEF HostCode, IsCode
    <3>4. /\ hostReturnStack' \in Seq(Seq(Ops)) /\ Len(rest) \in Nat
          /\ Len(hostReturnStack') = Len(rest) + 1
          /\ hostReturnStack'[1] = back
          /\ \A k \in 2 .. Len(rest) + 1 :
               k - 1 \in 1 .. Len(rest) /\ hostReturnStack'[k] = rest[k - 1]
      BY <3>2, <3>3, ConsIs
    <3>5. ASSUME NEW k \in 1 .. Len(rest) + 1 PROVE HostCode(hostReturnStack'[k])
      <4>1. k = 1 \/ k \in 2 .. Len(rest) + 1
        BY <3>4
      <4>2. CASE k = 1
        BY <4>2, <3>1, <3>4
      <4>3. CASE k \in 2 .. Len(rest) + 1
        BY <4>3, <3>4
      <4>4. QED
        BY <4>1, <4>2, <4>3
    <3>6. QED
      BY <3>4, <3>5
  <2>2. CASE ~enters
    BY <2>2, <1>5
  <2>3. QED
    BY <2>1, <2>2
<1>18. CodeAgrees'
  <2>1. Names' = Names /\ AccNames' = AccNames
    BY SameCode
  <2>2. hostBB' \in Names \union {NoBlock}
    BY <1>5, <1>6
  <2>3. QED
    BY <2>1, <2>2, <1>1, <1>2, <1>16, <1>17, Zenon DEF CodeAgrees
<1>19. TypeOK'
  <2>1. /\ hostAbnormal' \in BOOLEAN /\ hostForRet' \in BOOLEAN /\ hostID' \in Nat
    BY <1>1, <1>5, <1>9 DEF TypeOK, reads, at_end
  <2>2. /\ inflight' \in SUBSET Ids' /\ lsq' \in SUBSET Ids'
    BY <1>1, <1>2, <1>4, <1>9, SMTT(30) DEF TypeOK
  <2>3. hostOffloading' = hostOffloading /\ tracePos' \in Nat
    BY <1>5, <1>7
  <2>4. QED
    BY <2>1, <2>2, <2>3, <1>1, <1>2, <1>4, <1>8 DEF TypeOK
<1>20. /\ \A i \in Ids : i \in Live' <=> i \in Live
       /\ Live' \subseteq Ids' /\ Live \subseteq Ids
       /\ hostID \in Nat /\ hostID' = hostID + n
       /\ \A i \in Live : insns[i].dynID \in Nat /\ insns[i].dynID < hostID
  <2>1. \A i \in Ids : i \in Live' <=> i \in Live
    BY <1>4, <1>9 DEF Live
  <2>2. Live' \subseteq Ids' /\ Live \subseteq Ids
    BY DEF Live, Ids
  <2>3. \A i \in Ids : insns[i].dynID \in Nat
    <3>1. \A i \in Ids : insns[i] \in Insn
      BY <1>1, ElementOfSeq DEF TypeOK, Ids
    <3>2. QED
      BY <3>1 DEF Insn
  <2>4. QED
    BY <2>1, <2>2, <2>3, <1>1, <1>5 DEF NumbersAgree, TypeOK
<1>21. ASSUME NEW i \in Live' PROVE insns'[i].dynID < hostID'
  <2>1. CASE i \in Ids
    <3>1. insns'[i].dynID = insns[i].dynID /\ i \in Live
      BY <2>1, <1>4, <1>20
    <3>2. QED
      BY <3>1, <1>9, <1>20
  <2>2. CASE i \notin Ids
    <3>1. insns'[i].dynID = hostID + (i - L) - 1 /\ i \in 1 .. L + n
      BY <2>2, <1>9, <1>10, <1>20
    <3>2. QED
      BY <3>1, <1>4, <1>9, <1>20
  <2>3. QED
    BY <2>1, <2>2
<1>22. NumbersAgree'
  BY <1>2, <1>21 DEF NumbersAgree
<1>23. NumbersFollowProgram'
  <2>1. ASSUME NEW i \in Live', NEW j \in Live', i < j PROVE insns'[i].dynID < insns'[j].dynID
    <3>1. CASE j \in Ids
      <4>1. i \in Ids
        BY <2>1, <3>1, <1>4, <1>9, <1>20
      <4>2. insns[i].dynID < insns[j].dynID
        BY <2>1, <3>1, <4>1, <1>20 DEF IInv, NumbersFollowProgram
      <4>3. QED
        BY <3>1, <4>1, <4>2, <1>4
    <3>2. CASE j \notin Ids /\ i \in Ids
      <4>1. insns'[j].dynID = hostID + (j - L) - 1 /\ j \in 1 .. L + n /\ L < j
        BY <3>2, <1>9, <1>10, <1>20
      <4>2. insns'[i].dynID = insns[i].dynID /\ i \in Live
        BY <3>2, <1>4, <1>20
      <4>3. QED
        BY <4>1, <4>2, <1>4, <1>9, <1>20
    <3>3. CASE j \notin Ids /\ i \notin Ids
      <4>1. /\ insns'[j].dynID = hostID + (j - L) - 1 /\ j \in 1 .. L + n
            /\ insns'[i].dynID = hostID + (i - L) - 1 /\ i \in 1 .. L + n
        BY <3>3, <1>9, <1>10, <1>20
      <4>2. QED
        BY <2>1, <4>1, <1>4, <1>20
    <3>4. QED
      BY <3>1, <3>2, <3>3
  <2>2. QED
    BY <2>1 DEF NumbersFollowProgram
<1>24. QED
  BY <1>12, <1>13, <1>15, <1>18, <1>19, <1>22, <1>23, Zenon DEF AccSide, IInv
LEMMA HeadTailIs ==
  ASSUME NEW T, NEW s \in Seq(T), s # <<>>
  PROVE  /\ Len(s) \in Nat /\ 1 \in 1 .. Len(s) /\ Head(s) = s[1]
         /\ Tail(s) \in Seq(T)
         /\ \A k \in 1 .. Len(Tail(s)) : k + 1 \in 1 .. Len(s) /\ Tail(s)[k] = s[k + 1]
<1>1. Len(s) \in Nat /\ Len(s) # 0
  BY LenProperties, EmptySeq
<1>2. /\ Tail(s) \in Seq(T) /\ Len(Tail(s)) = Len(s) - 1
      /\ \A k \in 1 .. Len(Tail(s)) : Tail(s)[k] = s[k + 1]
  BY HeadTailProperties
<1>3. 1 \in 1 .. Len(s) /\ \A k \in 1 .. Len(s) - 1 : k + 1 \in 1 .. Len(s)
  BY <1>1
<1>4. Head(s) = s[1]
  OBVIOUS
<1>5. QED
  BY <1>1, <1>2, <1>3, <1>4

(* Core::fetch.                                                            *)
LEMMA HostFetchStep ==
  ASSUME IInv, Fetch
  PROVE  IInv'
<1>1. TypeOK /\ HostAgrees /\ CodeAgrees /\ HandOver
  BY DEF IInv
<1>2. /\ UNCHANGED <<scenario, lsq, accVars, hostOffloading, failed>>
      /\ stage' = "memory" /\ pos' = 1
  BY Zenon DEF Fetch
<1>3. CASE hostForRet /\ hostReturnStack # <<>>
           /\ Preprocess(Head(hostReturnStack), Tail(hostReturnStack))
  <2> DEFINE T == Seq(Ops)  top == Head(hostReturnStack)  rest == Tail(hostReturnStack)
  <2>1. hostReturnStack \in Seq(T)
    BY <1>1 DEF CodeAgrees
  <2>2. ~offloading /\ offloadCall = 0
    BY <1>1, <1>3 DEF HandOver, TypeOK
  <2> HIDE DEF T
  <2>3. /\ 1 \in 1 .. Len(hostReturnStack) /\ top = hostReturnStack[1] /\ rest \in Seq(T)
        /\ \A k \in 1 .. Len(rest) :
             k + 1 \in 1 .. Len(hostReturnStack) /\ rest[k] = hostReturnStack[k + 1]
    BY <1>3, <2>1, HeadTailIs
  <2>4. HostCode(top) /\ \A k \in 1 .. Len(rest) : HostCode(rest[k])
    BY <2>3, <1>1 DEF CodeAgrees
  <2>5. Preprocess(top, rest)
    BY <1>3
  <2> HIDE DEF top, rest
  <2>6. QED
    BY <1>2, <2>2, <2>3, <2>4, <2>5, PreprocessStep DEF T
<1>4. CASE ~hostForRet /\ hostBB # NoBlock /\ Preprocess(Blocks[hostBB], hostReturnStack)
  <2> DEFINE ops == Blocks[hostBB]
  <2>1. ~offloading /\ offloadCall = 0
    BY <1>1, <1>4 DEF HandOver, TypeOK
  <2>2. HostCode(ops)
    BY <1>1, <1>4, ProgramIs DEF CodeAgrees, TypeOK
  <2>3. /\ hostReturnStack \in Seq(Seq(Ops))
        /\ \A k \in 1 .. Len(hostReturnStack) : HostCode(hostReturnStack[k])
    BY <1>1 DEF CodeAgrees
  <2>4. Preprocess(ops, hostReturnStack)
    BY <1>4
  <2> HIDE DEF ops
  <2>5. QED
    BY <1>2, <2>1, <2>2, <2>3, <2>4, PreprocessStep
<1>5. CASE /\ hostForRet' \in {hostForRet, FALSE} /\ hostBB' \in {hostBB, NoBlock}
           /\ UNCHANGED <<insns, hostQ, tracePos, hostReturnStack, hostID, offloadCall,
                          hostAbnormal, rollbackPos>>
  <2>1. /\ reservation' = reservation /\ scoreboard' = scoreboard /\ inflight' = inflight
        /\ used_port' = used_port /\ targetBB' = targetBB /\ fetchForRet' = fetchForRet
        /\ returnStack' = returnStack /\ globalDynID' = globalDynID
        /\ abnormalExit' = abnormalExit /\ offloading' = offloading
    BY <1>2 DEF accVars, fetchVars, queueVars
  <2>2. Ids' = Ids /\ SameInsns
    BY <1>5 DEF Ids, SameInsns
  <2>3. HostOnly
    <3>1. Len(insns) \in Nat
      BY <1>1, LenProperties DEF TypeOK
    <3>2. QED
      BY <1>2, <1>5, <2>1, <2>2, <3>1 DEF HostOnly, StaysFor
  <2>4. AccSide
    BY <1>2, <2>1, <2>3, AccSideStays
  <2>5. NumbersAgree' /\ NumbersFollowProgram'
    BY <1>2, <1>5, <2>1, <2>2, NumbersStay DEF IInv
  <2>6. HandOver'
    <3>1. AccNames' = AccNames
      BY <1>2, SameCode
    <3>2. hostBB = NoBlock => hostBB' = NoBlock
      BY <1>5
    <3>3. ~hostForRet => ~hostForRet'
      <4>1. hostForRet' = hostForRet \/ hostForRet' = FALSE
        BY <1>5
      <4>2. QED
        BY <4>1, Zenon
    <3>4. QED
      BY <1>1, <1>2, <1>5, <2>1, <2>2, <3>1, <3>2, <3>3 DEF HandOver
  <2>7. CodeAgrees'
    <3>1. /\ Names' = Names /\ AccNames' = AccNames
          /\ \A ops : HostCode(ops)' = HostCode(ops) /\ AccCode(ops)' = AccCode(ops)
      BY <1>2, SameCode
    <3>2. hostBB' \in Names \union {NoBlock}
      BY <1>1, <1>5 DEF CodeAgrees
    <3>3. QED
      BY <1>1, <1>5, <2>1, <3>1, <3>2, Zenon DEF CodeAgrees
  <2>8. HostAgrees'
    BY <1>1, <1>5, <2>2 DEF HostAgrees, IsAcc
  <2>9. TypeOK'
    <3>1. hostForRet' \in BOOLEAN
      BY <1>1, <1>5 DEF TypeOK
    <3>2. QED
      BY <1>1, <1>2, <1>5, <2>1, <2>2, <3>1 DEF TypeOK
  <2>10. QED
    BY <2>4, <2>5, <2>6, <2>7, <2>8, <2>9, Zenon DEF AccSide, IInv
<1>6. QED
  BY <1>3, <1>4, <1>5 DEF Fetch, hostFetchVars
-----------------------------------------------------------------------------
(* The tick of the accelerator.                                            *)

(* A block fetched by the accelerator, which numbers it behind the call    *)
(* that is the core's last.                                                *)
LEMMA AccBlockStep ==
  ASSUME IInv, offloading, NEW ops, AccCode(ops), FetchBlock(ops),
         NEW rest \in Seq(Seq(Ops)), \A k \in 1 .. Len(rest) : AccCode(rest[k]),
         returnStack' = Push(ops, rest), stage' \in {"accFetch", "accRetire"}, pos' \in Nat,
         UNCHANGED <<scenario, lsq, inflight, scoreboard, used_port, offloading, hostQ,
                     hostFetchVars, offloadCall, hostOffloading, failed>>
  PROVE  IInv'
<1> DEFINE n == Taken(ops)  L == Len(insns)
<1>1. TypeOK /\ HostAgrees /\ CodeAgrees /\ HandOver /\ NumbersAgree /\ NumbersFollowProgram
  BY DEF IInv
<1>2. FetchEffect(ops)
  BY FetchHasEffect DEF IInv
<1>3. AccAgrees' /\ Accounted' /\ OrderAgrees' /\ DepsAgree'
  BY <1>2, FetchStep DEF IInv
<1>4. GoesOn
  BY <1>1, FetchGoesOn
<1>5. /\ hostBB' = hostBB /\ hostForRet' = hostForRet /\ hostReturnStack' = hostReturnStack
      /\ hostID' = hostID /\ hostAbnormal' = hostAbnormal /\ rollbackPos' = rollbackPos
  BY DEF hostFetchVars
<1>6. globalDynID' = globalDynID + n
  BY DEF FetchBlock, Taken
<1>7. /\ n \in 1 .. Len(ops) /\ L \in Nat /\ Len(reservation) \in Nat
      /\ insns' \in Seq(Insn) /\ Len(insns') = L + n
      /\ \A i \in Ids : insns'[i] = insns[i]
      /\ \A k \in 1 .. n :
           insns'[L + k].dynID = globalDynID + k - 1 /\ insns'[L + k].hw = "acc"
      /\ reservation' \in Seq(Nat) /\ Len(reservation') = Len(reservation) + n
  BY <1>2, Zenon DEF FetchEffect
<1> HIDE DEF n
<1>8. /\ n \in Nat \ {0} /\ Ids = 1 .. L /\ Ids' = 1 .. L + n
      /\ Ids \subseteq Ids'
  BY <1>7 DEF Ids
<1>9. reservation' # <<>>
  <2>1. Len(reservation') # 0
    BY <1>7, <1>8
  <2>2. QED
    BY <2>1, EmptySeq
<1>10. TickAgrees'
  <2>1. NothingToFetch' => abnormalExit'
    BY <1>4 DEF GoesOn, NothingToFetch
  <2>2. QED
    BY <1>9, <2>1 DEF TickAgrees
<1>11. NothingLeftBehind' /\ PassAgrees'
  BY DEF NothingLeftBehind, PassAgrees
<1>12. HandOver'
  <2>1. offloadCall = 0
    BY <1>1 DEF HandOver
  <2>2. QED
    BY <1>1, <1>5, <2>1 DEF HandOver
<1>13. HostAgrees'
  BY <1>1, <1>7, <1>8 DEF HostAgrees, IsAcc
<1>14. CodeAgrees'
  <2>1. /\ Names' = Names /\ AccNames' = AccNames
        /\ \A c : HostCode(c)' = HostCode(c) /\ AccCode(c)' = AccCode(c)
    BY SameCode
  <2>2. QED
    BY <1>1, <1>4, <1>5, <2>1, Zenon DEF CodeAgrees, GoesOn
<1>15. TypeOK'
  <2>1. inflight' \in SUBSET Ids' /\ lsq' \in SUBSET Ids'
    BY <1>1, <1>8 DEF TypeOK
  <2>2. globalDynID' \in Nat
    BY <1>1, <1>6, <1>8 DEF TypeOK
  <2>3. QED
    BY <1>1, <1>4, <1>5, <1>7, <2>1, <2>2 DEF TypeOK, GoesOn
<1>16. /\ \A i \in Ids : i \in Live' <=> i \in Live
       /\ Live' \subseteq Ids' /\ Live \subseteq Ids
       /\ globalDynID \in Nat /\ hostID \in Nat /\ hostID <= globalDynID
       /\ \A i \in Live : insns[i].dynID \in Nat /\ insns[i].dynID < globalDynID
  <2>1. \A i \in Ids : i \in Live' <=> i \in Live
    BY <1>7, <1>8 DEF Live
  <2>2. Live' \subseteq Ids' /\ Live \subseteq Ids
    BY DEF Live, Ids
  <2>3. \A i \in Ids : insns[i].dynID \in Nat
    <3>1. \A i \in Ids : insns[i] \in Insn
      BY <1>1, ElementOfSeq DEF TypeOK, Ids
    <3>2. QED
      BY <3>1 DEF Insn
  <2>4. QED
    BY <2>1, <2>2, <2>3, <1>1 DEF NumbersAgree, TypeOK
<1>17. ASSUME NEW j \in Ids', j \notin Ids
       PROVE  insns'[j].hw = "acc" /\ insns'[j].dynID = globalDynID + (j - L) - 1
              /\ j \in Nat /\ L < j /\ j <= L + n
  <2>1. j - L \in 1 .. n /\ L + (j - L) = j /\ L < j /\ j <= L + n /\ j \in Nat
    BY <1>7, <1>8, <1>17
  <2>2. insns'[L + (j - L)].dynID = globalDynID + (j - L) - 1 /\ insns'[L + (j - L)].hw = "acc"
    BY <1>7, <2>1
  <2>3. QED
    BY <2>1, <2>2
<1>18. ASSUME NEW i \in Live'
       PROVE  /\ insns'[i].dynID < globalDynID'
              /\ insns'[i].dynID >= hostID => insns'[i].hw = "acc"
  <2>1. CASE i \in Ids
    <3>1. insns'[i] = insns[i] /\ i \in Live
      BY <2>1, <1>7, <1>16
    <3>2. insns[i].dynID >= hostID => IsAcc(i)
      BY <1>1, <3>1 DEF NumbersAgree
    <3>3. insns'[i].dynID < globalDynID'
      BY <3>1, <1>6, <1>8, <1>16
    <3>4. QED
      BY <3>1, <3>2, <3>3 DEF IsAcc
  <2>2. CASE i \notin Ids
    <3>1. /\ insns'[i].hw = "acc" /\ insns'[i].dynID = globalDynID + (i - L) - 1
          /\ i \in Nat /\ i <= L + n
      BY <2>2, <1>16, <1>17
    <3>2. QED
      BY <3>1, <1>6, <1>7, <1>8, <1>16
  <2>3. QED
    BY <2>1, <2>2
<1>19. NumbersAgree'
  <2>1. hostID <= globalDynID'
    BY <1>6, <1>8, <1>16
  <2>2. QED
    BY <2>1, <1>5, <1>18 DEF NumbersAgree, IsAcc
<1>20. NumbersFollowProgram'
  <2>1. ASSUME NEW i \in Live', NEW j \in Live', i < j PROVE insns'[i].dynID < insns'[j].dynID
    <3>1. CASE j \in Ids
      <4>1. i \in Ids
        BY <2>1, <3>1, <1>7, <1>8, <1>16
      <4>2. insns[i].dynID < insns[j].dynID
        BY <2>1, <3>1, <4>1, <1>1, <1>16 DEF NumbersFollowProgram
      <4>3. QED
        BY <3>1, <4>1, <4>2, <1>7
    <3>2. CASE j \notin Ids /\ i \in Ids
      <4>1. /\ insns'[j].dynID = globalDynID + (j - L) - 1 /\ j \in Nat /\ L < j
        BY <3>2, <1>16, <1>17
      <4>2. insns'[i].dynID = insns[i].dynID /\ i \in Live
        BY <3>2, <1>7, <1>16
      <4>3. globalDynID <= insns'[j].dynID
        BY <4>1, <1>7, <1>16
      <4>4. insns[i].dynID \in Nat /\ insns[i].dynID < globalDynID
        BY <4>2, <1>16
      <4>5. insns'[j].dynID \in Int
        BY <4>1, <1>7, <1>16
      <4>6. QED
        BY <4>2, <4>3, <4>4, <4>5, <1>16
    <3>3. CASE j \notin Ids /\ i \notin Ids
      <4>1. /\ insns'[j].dynID = globalDynID + (j - L) - 1 /\ j \in Nat
            /\ insns'[i].dynID = globalDynID + (i - L) - 1 /\ i \in Nat
        BY <3>3, <1>16, <1>17
      <4>2. QED
        BY <2>1, <4>1, <1>7, <1>16
    <3>4. QED
      BY <3>1, <3>2, <3>3
  <2>2. QED
    BY <2>1 DEF NumbersFollowProgram
<1>21. QED
  BY <1>3, <1>10, <1>11, <1>12, <1>13, <1>14, <1>15, <1>19, <1>20, Zenon DEF IInv

(* A call of fetch; when it takes in no block, either the reservation list *)
(* is full or nothing is left to fetch.                                    *)
LEMMA AccFetchStep ==
  ASSUME IInv, AccFetch
  PROVE  IInv'
<1>1. TypeOK /\ HostAgrees /\ CodeAgrees /\ HandOver /\ NothingLeftBehind /\ TickAgrees
  BY DEF IInv
<1>2. /\ UNCHANGED <<scenario, lsq, inflight, scoreboard, used_port, offloading, hostQ,
                     hostFetchVars, offloadCall, hostOffloading, failed>>
      /\ stage' \in {"accFetch", "accRetire"} /\ pos' \in Nat
      /\ stage' = "accFetch" => FetchesOn
  <2>1. /\ UNCHANGED <<lsq, inflight, scoreboard, used_port, offloading, hostQ,
                       hostFetchVars, offloadCall, hostOffloading, failed>>
        /\ stage = "accFetch"
        /\ IF FetchesOn THEN UNCHANGED <<scenario, running, stage, pos>> ELSE GoTo("accRetire")
    BY Zenon DEF AccFetch
  <2>2. CASE FetchesOn
    BY <1>1, <2>1, <2>2 DEF TypeOK
  <2>3. CASE ~FetchesOn
    BY <2>1, <2>3 DEF GoTo
  <2>4. QED
    BY <2>2, <2>3
<1>3. fetch
  BY DEF AccFetch
<1>4. CASE /\ fetchForRet /\ returnStack # <<>> /\ FetchBlock(Head(returnStack))
           /\ returnStack' = Push(Head(returnStack), Tail(returnStack))
  <2> DEFINE T == Seq(Ops)  top == Head(returnStack)  rest == Tail(returnStack)
  <2>1. returnStack \in Seq(T)
    BY <1>1 DEF CodeAgrees
  <2>2. offloading
    BY <1>1, <1>4 DEF NothingLeftBehind
  <2> HIDE DEF T
  <2>3. /\ 1 \in 1 .. Len(returnStack) /\ top = returnStack[1] /\ rest \in Seq(T)
        /\ \A k \in 1 .. Len(rest) :
             k + 1 \in 1 .. Len(returnStack) /\ rest[k] = returnStack[k + 1]
    BY <1>4, <2>1, HeadTailIs
  <2>4. AccCode(top) /\ \A k \in 1 .. Len(rest) : AccCode(rest[k])
    BY <2>3, <1>1 DEF CodeAgrees
  <2>5. FetchBlock(top) /\ returnStack' = Push(top, rest)
    BY <1>4
  <2> HIDE DEF top, rest
  <2>6. QED
    BY <1>2, <2>2, <2>3, <2>4, <2>5, AccBlockStep DEF T
<1>5. CASE /\ ~fetchForRet /\ targetBB # NoBlock /\ FetchBlock(Blocks[targetBB])
           /\ returnStack' = Push(Blocks[targetBB], returnStack)
  <2> DEFINE ops == Blocks[targetBB]
  <2>1. offloading
    BY <1>1, <1>5 DEF NothingLeftBehind
  <2>2. AccCode(ops)
    BY <1>1, <1>5, ProgramIs DEF CodeAgrees, TypeOK
  <2>3. /\ returnStack \in Seq(Seq(Ops))
        /\ \A k \in 1 .. Len(returnStack) : AccCode(returnStack[k])
    BY <1>1 DEF CodeAgrees
  <2>4. FetchBlock(ops) /\ returnStack' = Push(ops, returnStack)
    BY <1>5
  <2> HIDE DEF ops
  <2>5. QED
    BY <1>2, <2>1, <2>2, <2>3, <2>4, AccBlockStep
<1>6. CASE /\ \/ /\ IF fetchForRet THEN returnStack = <<>> ELSE targetBB = NoBlock
                 /\ fetchForRet' = FALSE /\ targetBB' = NoBlock
              \/ /\ reservation # <<>>
                 /\ fetchForRet' = fetchForRet /\ targetBB' = targetBB
           /\ UNCHANGED <<insns, reservation, globalDynID, tracePos, abnormalExit, returnStack>>
  <2>1. /\ hostBB' = hostBB /\ hostForRet' = hostForRet /\ hostReturnStack' = hostReturnStack
        /\ hostID' = hostID /\ hostAbnormal' = hostAbnormal /\ rollbackPos' = rollbackPos
    BY <1>2 DEF hostFetchVars
  <2>2. Ids' = Ids /\ SameInsns
    BY <1>6 DEF Ids, SameInsns
  <2>3. stage' = "accRetire"
    <3>1. Len(reservation) \in Nat
      BY <1>1, LenProperties DEF TypeOK
    <3>2. ~FetchesOn
      BY <3>1, <1>6 DEF FetchesOn
    <3>3. QED
      BY <3>2, <1>2
  <2>4. AccAgrees' /\ Accounted' /\ OrderAgrees' /\ DepsAgree'
    <3>1. Len(insns) \in Nat
      BY <1>1, LenProperties DEF TypeOK
    <3>2. HostOnly
      BY <1>2, <1>6, <2>2, <3>1 DEF HostOnly, StaysFor
    <3>3. QED
      BY <3>2, HostStep DEF IInv
  <2>5. /\ reservation = <<>> => NothingToFetch'
        /\ NothingToFetch => NothingToFetch'
        /\ NothingToFetch' => abnormalExit \/ returnStack = <<>>
    <3>1. NothingToFetch => abnormalExit \/ returnStack = <<>>
      BY <1>1 DEF TickAgrees
    <3>2. QED
      BY <1>6, <3>1 DEF NothingToFetch
  <2>6. TickAgrees'
    <3>1. isFinish' = isFinish
      BY <1>2, <1>6 DEF isFinish
    <3>2. ~offloading => isFinish
      BY <1>1 DEF TickAgrees
    <3>3. QED
      BY <3>1, <3>2, <2>3, <2>5, <1>2, <1>6 DEF TickAgrees
  <2>7. NothingLeftBehind'
    <3>1. ASSUME ~offloading
          PROVE  /\ scoreboard' = <<>> /\ NothingToFetch'
                 /\ abnormalExit' \/ returnStack' = <<>>
                 /\ \A i \in 1 .. Len(insns) : insns[i].hw = "acc" => insns[i].status = "COMMITED"
      BY <3>1, <1>1, <1>2, <1>6, <2>5 DEF NothingLeftBehind, NothingToFetch
    <3>2. QED
      BY <3>1, <1>2, <1>6 DEF NothingLeftBehind, NothingToFetch
  <2>8. PassAgrees'
    BY <2>3 DEF PassAgrees
  <2>9. NumbersAgree' /\ NumbersFollowProgram'
    BY <1>2, <1>6, <2>1, <2>2, NumbersStay DEF IInv
  <2>10. HandOver'
    BY <1>2, <2>1, <2>2, HandOverStays DEF IInv
  <2>11. CodeAgrees'
    <3>1. /\ Names' = Names /\ AccNames' = AccNames
          /\ \A ops : HostCode(ops)' = HostCode(ops) /\ AccCode(ops)' = AccCode(ops)
      BY <1>2, SameCode
    <3>2. targetBB' \in AccNames \union {NoBlock}
      BY <1>1, <1>6 DEF CodeAgrees
    <3>3. QED
      BY <1>1, <1>6, <2>1, <3>1, <3>2, Zenon DEF CodeAgrees
  <2>12. HostAgrees'
    BY <1>1, <1>2, <1>6, <2>2 DEF HostAgrees, IsAcc
  <2>13. TypeOK'
    <3>1. fetchForRet' \in BOOLEAN
      BY <1>1, <1>6 DEF TypeOK
    <3>2. QED
      BY <1>1, <1>2, <1>6, <2>1, <2>2, <3>1 DEF TypeOK
  <2>14. QED
    BY <2>4, <2>6, <2>7, <2>8, <2>9, <2>10, <2>11, <2>12, <2>13, Zenon DEF IInv
<1>7. Len(reservation) >= ReservationLimit => reservation # <<>>
  BY LimitAssumption
<1>8. QED
  BY <1>3, <1>4, <1>5, <1>6, <1>7 DEF fetch, fetchVars
LEMMA AccRetireStep ==
  ASSUME IInv, AccRetire
  PROVE  IInv'
<1>1. /\ TypeOK /\ HostAgrees /\ CodeAgrees /\ HandOver /\ NothingLeftBehind /\ TickAgrees
      /\ AccAgrees /\ Accounted /\ OrderAgrees /\ DepsAgree
  BY DEF IInv
<1>2. /\ UNCHANGED <<tracePos, lsq, fetchVars, offloading, hostQ, hostFetchVars,
                     offloadCall, hostOffloading, failed, scenario>>
      /\ stage = "accRetire" /\ stage' = "accIssue" /\ pos' = 1 /\ Retire
  BY Zenon DEF AccRetire, GoTo
<1>3. /\ hostBB' = hostBB /\ hostForRet' = hostForRet /\ hostReturnStack' = hostReturnStack
      /\ hostID' = hostID /\ hostAbnormal' = hostAbnormal /\ rollbackPos' = rollbackPos
      /\ targetBB' = targetBB /\ fetchForRet' = fetchForRet /\ returnStack' = returnStack
      /\ globalDynID' = globalDynID /\ abnormalExit' = abnormalExit
  BY <1>2 DEF hostFetchVars, fetchVars
<1>4. /\ insns' \in Seq(Insn) /\ Len(insns') = Len(insns) /\ Ids' = Ids
      /\ \A i \in Ids : /\ insns'[i].op = insns[i].op /\ insns'[i].hw = insns[i].hw
                        /\ insns'[i].dynID = insns[i].dynID
                        /\ insns[i].status = "COMMITED" => insns'[i].status = "COMMITED"
  BY <1>1, <1>2, RetireEffect
<1>5. /\ AccAgrees' /\ Accounted' /\ OrderAgrees' /\ DepsAgree' /\ HeadRuns'
      /\ scoreboard' \in Seq(Nat)
  BY <1>1, <1>2, RetireStep
<1>6. /\ inflight' \subseteq inflight /\ used_port' = 0 /\ reservation' = reservation
      /\ Len(reservation) \in Nat
  BY <1>1, <1>2, LenProperties DEF Retire, TypeOK
<1>7. NothingToFetch' = NothingToFetch
  BY <1>3 DEF NothingToFetch
<1>8. ~offloading => isFinish' /\ scoreboard' = <<>>
  <2>1. SUFFICES ASSUME ~offloading PROVE isFinish' /\ scoreboard' = <<>>
    OBVIOUS
  <2>2. isFinish'
    BY <2>1, <1>1, <1>6 DEF TickAgrees, isFinish
  <2>3. \A i : ~Queued(i)' /\ i \notin inflight'
    BY <2>2, EmptySeq DEF isFinish, Queued
  <2>4. QED
    BY <2>2, <2>3, <1>5 DEF HeadRuns
<1>9. TickAgrees'
  <2>1. NothingToFetch => abnormalExit \/ returnStack = <<>>
    BY <1>1 DEF TickAgrees
  <2>2. isFinish' => NothingToFetch
    BY <1>1, <1>2, <1>6 DEF isFinish, TickAgrees
  <2>3. QED
    BY <2>1, <2>2, <1>2, <1>3, <1>5, <1>7, <1>8 DEF TickAgrees
<1>10. NothingLeftBehind'
  <2>1. ASSUME ~offloading
        PROVE  /\ targetBB = NoBlock /\ ~fetchForRet
               /\ abnormalExit \/ returnStack = <<>>
               /\ \A i \in Ids : IsAcc(i) => insns[i].status = "COMMITED"
    BY <2>1, <1>1 DEF NothingLeftBehind, IsAcc, Ids
  <2>2. ASSUME ~offloading, NEW i \in 1 .. Len(insns'), insns'[i].hw = "acc"
        PROVE  insns'[i].status = "COMMITED"
    <3>1. i \in Ids
      BY <1>4 DEF Ids
    <3>2. QED
      BY <3>1, <2>1, <2>2, <1>4 DEF IsAcc
  <2>3. QED
    BY <2>1, <2>2, <1>2, <1>3, <1>8 DEF NothingLeftBehind
<1>11. PassAgrees'
  BY <1>2, <1>6 DEF PassAgrees
<1>12. SameInsns
  BY <1>4 DEF SameInsns
<1>13. NumbersAgree' /\ NumbersFollowProgram'
  BY <1>2, <1>3, <1>12, NumbersStay DEF IInv
<1>14. HandOver'
  BY <1>2, <1>3, <1>12, HandOverStays DEF IInv
<1>15. CodeAgrees'
  BY <1>1, <1>2, <1>3, CodeStays
<1>16. HostAgrees'
  BY <1>1, <1>2, <1>4 DEF HostAgrees, IsAcc
<1>17. TypeOK'
  <2>1. inflight' \in SUBSET Ids' /\ lsq' \in SUBSET Ids'
    BY <1>1, <1>2, <1>4, <1>6 DEF TypeOK
  <2>2. QED
    BY <2>1, <1>1, <1>2, <1>3, <1>4, <1>5, <1>6 DEF TypeOK
<1>18. QED
  BY <1>5, <1>9, <1>10, <1>11, <1>13, <1>14, <1>15, <1>16, <1>17, Zenon DEF IInv

LEMMA AccIssueStep ==
  ASSUME IInv, AccIssue
  PROVE  IInv'
<1>1. /\ TypeOK /\ HostAgrees /\ CodeAgrees /\ HandOver /\ TickAgrees /\ PassAgrees
      /\ AccAgrees /\ Accounted /\ OrderAgrees /\ DepsAgree
  BY DEF IInv
<1>2. /\ UNCHANGED <<scenario, stage, tracePos, fetchVars, offloading, hostQ, hostFetchVars,
                     offloadCall, hostOffloading, failed>>
      /\ stage = "accIssue" /\ Consider(pos) /\ PassStep
  BY Zenon DEF AccIssue, PassStep
<1>3. /\ hostBB' = hostBB /\ hostForRet' = hostForRet /\ hostReturnStack' = hostReturnStack
      /\ hostID' = hostID /\ hostAbnormal' = hostAbnormal /\ rollbackPos' = rollbackPos
      /\ targetBB' = targetBB /\ fetchForRet' = fetchForRet /\ returnStack' = returnStack
      /\ globalDynID' = globalDynID /\ abnormalExit' = abnormalExit
  BY <1>2 DEF hostFetchVars, fetchVars
<1>4. pos \in 1 .. Len(reservation) /\ Len(reservation) \in Nat /\ pos \in Nat
  BY <1>1, <1>2, LenProperties DEF AccIssue, TypeOK, PassAgrees
<1>5. IssueEnds
  <2>1. HeadRuns
    BY <1>1, <1>2 DEF TickAgrees
  <2>2. QED
    BY <2>1, <1>1, <1>2, <1>4, IssueStep
<1>6. /\ AccAgrees' /\ Accounted' /\ OrderAgrees' /\ DepsAgree' /\ PassAgrees' /\ HeadRuns'
      /\ ~isFinish' /\ insns' \in Seq(Insn) /\ reservation' \in Seq(Nat)
      /\ scoreboard' \in Seq(Nat) /\ inflight' \in SUBSET Ids' /\ lsq' \in SUBSET Ids'
      /\ used_port' \in Nat /\ Len(insns') = Len(insns)
      /\ \A i \in Ids : insns'[i].op = insns[i].op /\ insns'[i].hw = insns[i].hw
                        /\ insns'[i].dynID = insns[i].dynID
  BY <1>5, Zenon DEF IssueEnds
<1>7. SameInsns /\ Ids' = Ids
  BY <1>6 DEF SameInsns, Ids
<1>8. offloading
  <2>1. reservation # <<>>
    BY <1>4, EmptySeq
  <2>2. QED
    BY <2>1, <1>1 DEF TickAgrees, isFinish
<1>9. TickAgrees' /\ NothingLeftBehind'
  <2>1. NothingToFetch' = NothingToFetch
    BY <1>3 DEF NothingToFetch
  <2>2. QED
    BY <2>1, <1>1, <1>2, <1>3, <1>6, <1>8 DEF TickAgrees, NothingLeftBehind
<1>10. NumbersAgree' /\ NumbersFollowProgram'
  BY <1>2, <1>3, <1>7, NumbersStay DEF IInv
<1>11. HandOver'
  BY <1>2, <1>3, <1>7, HandOverStays DEF IInv
<1>12. CodeAgrees'
  BY <1>1, <1>2, <1>3, CodeStays
<1>13. HostAgrees'
  BY <1>1, <1>2, <1>6, <1>7 DEF HostAgrees, IsAcc
<1>14. TypeOK'
  <2>1. pos' \in Nat
    BY <1>2, <1>4 DEF PassStep
  <2>2. QED
    BY <2>1, <1>1, <1>2, <1>3, <1>6 DEF TypeOK
<1>15. QED
  BY <1>6, <1>9, <1>10, <1>11, <1>12, <1>13, <1>14, Zenon DEF IInv

(* The accelerator hands back.                                             *)
LEMMA AccEndStep ==
  ASSUME IInv, AccEnd
  PROVE  IInv'
<1>1. /\ TypeOK /\ HostAgrees /\ CodeAgrees /\ HandOver /\ TickAgrees /\ NumbersAgree
      /\ AccAgrees /\ Accounted /\ OrderAgrees /\ DepsAgree /\ NumbersFollowProgram
  BY DEF IInv
<1>2. /\ UNCHANGED <<scenario, tracePos, insns, lsq, fetchVars, queueVars, hostQ, hostBB,
                     hostReturnStack, rollbackPos, offloadCall>>
      /\ stage = "accIssue" /\ stage' = "dispatch" /\ pos' = 1
  BY Zenon DEF AccEnd, GoTo
<1>3. /\ reservation' = reservation /\ scoreboard' = scoreboard /\ inflight' = inflight
      /\ used_port' = used_port /\ targetBB' = targetBB /\ fetchForRet' = fetchForRet
      /\ returnStack' = returnStack /\ globalDynID' = globalDynID
      /\ abnormalExit' = abnormalExit
  BY <1>2 DEF fetchVars, queueVars
<1>4. Ids' = Ids /\ SameInsns /\ Len(insns) \in Nat
  BY <1>1, <1>2, LenProperties DEF Ids, SameInsns, TypeOK
<1>5. HostOnly
  BY <1>2, <1>3, <1>4 DEF HostOnly, StaysFor
<1>6. CASE /\ isFinish /\ offloading
           /\ offloading' = FALSE /\ hostOffloading' = FALSE /\ takeNumber
           /\ hostAbnormal' = abnormalExit /\ hostForRet' = TRUE
           /\ failed' = IF failure
                        THEN failed \union {i \in 1 .. Len(insns) :
                               insns[i].hw = "acc" /\ insns[i].dynID >= hostID}
                        ELSE failed
  <2>1. NothingToFetch /\ (abnormalExit \/ returnStack = <<>>)
    BY <1>1, <1>2, <1>6 DEF TickAgrees
  <2>2. \A i : ~Queued(i) /\ i \notin inflight
    BY <1>6, EmptySeq DEF isFinish, Queued
  <2>3. scoreboard = <<>>
    BY <2>2, <1>1, <1>2 DEF TickAgrees, HeadRuns
  <2>4. \A i : ~OnBoard(i)
    BY <2>3, EmptySeq DEF OnBoard
  <2>5. \A i \in Ids : IsAcc(i) => insns[i].status = "COMMITED"
    BY <2>2, <2>4, <1>1 DEF Accounted
  <2>6. AccAgrees' /\ Accounted' /\ OrderAgrees' /\ DepsAgree'
    BY <1>1, <1>5, HostStep
  <2>7. TickAgrees'
    BY <2>1, <1>2, <1>3, <1>6 DEF TickAgrees, NothingToFetch, isFinish
  <2>8. NothingLeftBehind'
    BY <2>1, <2>3, <2>5, <1>2, <1>3, <1>6 DEF NothingLeftBehind, NothingToFetch, IsAcc, Ids
  <2>9. PassAgrees'
    BY <1>2 DEF PassAgrees
  <2>10. HandOver'
    <3>1. offloadCall = 0
      BY <1>1, <1>6 DEF HandOver
    <3>2. QED
      BY <3>1, <1>2, <1>6 DEF HandOver
  <2>11. /\ hostID \in Nat /\ globalDynID \in Nat /\ hostID <= globalDynID
         /\ \A i \in Live : insns[i].dynID < globalDynID /\ insns[i].dynID \in Nat
         /\ \A i \in Live : insns[i].dynID >= hostID => IsAcc(i)
    <3>1. \A i \in Live : insns[i] \in Insn
      BY <1>1, ElementOfSeq DEF TypeOK, Live
    <3>2. QED
      BY <3>1, <1>1, <1>6 DEF NumbersAgree, TypeOK, Insn
  <2>12. hostID' \in Nat /\ Live' \subseteq Live /\ \A i \in Live' : insns[i].dynID < hostID'
    <3>1. CASE failure
      <4>1. hostID' = hostID
        BY <1>6, <3>1, Zenon DEF takeNumber
      <4>2. failed' = failed \union {i \in 1 .. Len(insns) :
                        insns[i].hw = "acc" /\ insns[i].dynID >= hostID}
        BY <1>6, <3>1, Zenon
      <4>3. Live' \subseteq Live /\ \A i \in Live' : ~(IsAcc(i) /\ insns[i].dynID >= hostID)
        BY <4>2, <1>2 DEF Live, IsAcc
      <4>4. QED
        BY <4>1, <4>3, <2>11
    <3>2. CASE ~failure
      <4>1. hostID' = globalDynID
        BY <1>6, <3>2, Zenon DEF takeNumber
      <4>2. failed' = failed
        BY <1>6, <3>2, Zenon
      <4>3. Live' = Live
        BY <4>2, <1>2 DEF Live
      <4>4. QED
        BY <4>1, <4>3, <2>11
    <3>3. QED
      BY <3>1, <3>2
  <2>13. NumbersAgree'
    BY <2>12, <1>2, <1>6 DEF NumbersAgree
  <2>14. NumbersFollowProgram'
    BY <2>12, <1>1, <1>2 DEF NumbersFollowProgram
  <2>15. CodeAgrees'
    BY <1>1, <1>2, <1>3, CodeStays
  <2>16. HostAgrees'
    BY <1>1, <1>2, <1>4 DEF HostAgrees, IsAcc
  <2>17. TypeOK'
    BY <2>12, <1>1, <1>2, <1>3, <1>4, <1>6 DEF TypeOK
  <2>18. QED
    BY <2>6, <2>7, <2>8, <2>9, <2>10, <2>13, <2>14, <2>15, <2>16, <2>17, Zenon DEF IInv
<1>7. CASE UNCHANGED <<offloading, hostOffloading, hostID, hostAbnormal, hostForRet, failed>>
  <2>1. HostChange
    BY <1>1, <1>2, <1>4 DEF HostChange, StaysFor, TypeOK
  <2>2. UNCHANGED accVars
    BY <1>2, <1>7, Zenon DEF accVars
  <2>3. /\ hostQ' \in Seq(Nat) /\ lsq' \in SUBSET Ids /\ pos' \in Nat
        /\ \A k \in 1 .. Len(hostQ') : hostQ'[k] \in Ids /\ ~IsAcc(hostQ'[k])
    BY <1>1, <1>2 DEF TypeOK, HostAgrees
  <2>4. QED
    BY <2>1, <2>2, <2>3, <1>2, <1>7, PipelineStep
<1>8. QED
  BY <1>6, <1>7, Zenon DEF AccEnd
-----------------------------------------------------------------------------
(* The theorems.                                                           *)

LEMMA InitHolds ==
  ASSUME Init
  PROVE  IInv
<1>1. /\ scenario \in Scenarios /\ tracePos = 1 /\ insns = <<>> /\ lsq = {}
      /\ reservation = <<>> /\ inflight = {} /\ scoreboard = <<>> /\ used_port = 0
      /\ targetBB = NoBlock /\ fetchForRet = FALSE /\ returnStack = <<>>
      /\ globalDynID = 0 /\ offloading = FALSE /\ abnormalExit = FALSE
      /\ hostQ = <<>> /\ hostBB = "main" /\ hostForRet = FALSE
      /\ hostReturnStack = <<>> /\ hostID = 0 /\ hostAbnormal = FALSE
      /\ offloadCall = 0 /\ hostOffloading = FALSE /\ rollbackPos = 1
      /\ stage = "commit" /\ pos = 1
  BY DEF Init, AccInit
<1>2. Len(<<>>) = 0 /\ 1 .. 0 = {} /\ Ids = {} /\ \A T : <<>> \in Seq(T)
  BY <1>1 DEF Ids
<1>3. "main" \in Names
  BY <1>1, ScenarioAssumption DEF Names, Blocks
<1>4. TypeOK
  BY <1>1, <1>2 DEF TypeOK
<1>5. CodeAgrees /\ HostAgrees
  BY <1>1, <1>2, <1>3 DEF CodeAgrees, HostAgrees
<1>6. AccAgrees /\ Accounted /\ OrderAgrees /\ DepsAgree
  BY <1>1, <1>2 DEF AccAgrees, Accounted, OrderAgrees, DepsAgree
<1>7. TickAgrees /\ HandOver /\ NothingLeftBehind /\ PassAgrees
  BY <1>1, <1>2 DEF TickAgrees, HandOver, NothingLeftBehind, PassAgrees, isFinish
<1>8. NumbersAgree /\ NumbersFollowProgram
  <2>1. Live = {}
    BY <1>1, <1>2 DEF Live
  <2>2. QED
    BY <2>1, <1>1 DEF NumbersAgree, NumbersFollowProgram
<1>9. QED
  BY <1>4, <1>5, <1>6, <1>7, <1>8 DEF IInv

LEMMA Stutter ==
  ASSUME IInv, UNCHANGED vars
  PROVE  IInv'
<1>1. /\ UNCHANGED <<scenario, tracePos, insns, lsq, hostQ, offloadCall, hostOffloading,
                     running, stage, pos, failed>>
      /\ hostBB' = hostBB /\ hostForRet' = hostForRet /\ hostReturnStack' = hostReturnStack
      /\ hostID' = hostID /\ hostAbnormal' = hostAbnormal /\ rollbackPos' = rollbackPos
      /\ reservation' = reservation /\ scoreboard' = scoreboard /\ inflight' = inflight
      /\ used_port' = used_port /\ targetBB' = targetBB /\ fetchForRet' = fetchForRet
      /\ returnStack' = returnStack /\ globalDynID' = globalDynID
      /\ abnormalExit' = abnormalExit /\ offloading' = offloading
  BY DEF vars, accVars, fetchVars, queueVars, hostFetchVars
<1>2. Ids' = Ids /\ SameInsns
  BY <1>1 DEF Ids, SameInsns
<1>3. TypeOK'
  BY <1>1, <1>2, Zenon DEF IInv, TypeOK
<1>4. CodeAgrees'
  BY <1>1, CodeStays DEF IInv
<1>5. HostAgrees'
  BY <1>1, <1>2 DEF IInv, HostAgrees, IsAcc
<1>6. AccAgrees' /\ Accounted' /\ OrderAgrees' /\ DepsAgree'
  <2>1. HostOnly
    BY <1>1, <1>2, LenProperties DEF HostOnly, StaysFor, IInv, TypeOK
  <2>2. QED
    BY <2>1, HostStep DEF IInv
<1>7. TickAgrees'
  BY <1>1, Zenon DEF IInv, TickAgrees, NothingToFetch, isFinish, HeadRuns, Queued, Ids
<1>8. HandOver'
  BY <1>1, <1>2, HandOverStays DEF IInv
<1>9. NothingLeftBehind'
  BY <1>1, Zenon DEF IInv, NothingLeftBehind
<1>10. NumbersAgree' /\ NumbersFollowProgram'
  BY <1>1, <1>2, NumbersStay DEF IInv
<1>11. PassAgrees'
  BY <1>1, Zenon DEF IInv, PassAgrees, Blocked, isMem, mayAllocate, ifLDQFull, ifSTQFull,
                     UIDActive, ready, Is, Ids
<1>12. QED
  BY <1>3, <1>4, <1>5, <1>6, <1>7, <1>8, <1>9, <1>10, <1>11, Zenon DEF IInv

(* Every state core and accelerator can reach satisfies the inductive      *)
(* invariant, whatever the programs, their traces and the sizes.           *)
THEOREM Inductive == Spec => []IInv
<1>1. Init => IInv
  BY InitHolds
<1>2. IInv /\ [Next]_vars => IInv'
  <2>1. SUFFICES ASSUME IInv, [Next]_vars
                 PROVE  IInv'
    OBVIOUS
  <2>2. CASE Commit
    BY <2>1, <2>2, CommitStep
  <2>3. CASE \E S \in SUBSET Dispatched : Execute(S)
    BY <2>1, <2>3, ExecuteStep
  <2>4. CASE Dispatch
    BY <2>1, <2>4, DispatchStep
  <2>5. CASE Fetch
    BY <2>1, <2>5, HostFetchStep
  <2>6. CASE AccFetch
    BY <2>1, <2>6, AccFetchStep
  <2>7. CASE AccRetire
    BY <2>1, <2>7, AccRetireStep
  <2>8. CASE AccIssue
    BY <2>1, <2>8, AccIssueStep
  <2>9. CASE AccEnd
    BY <2>1, <2>9, AccEndStep
  <2>10. CASE \E S \in SUBSET (Waiting \union Stores) : Memory(S)
    BY <2>1, <2>10, MemoryStep
  <2>11. CASE Stopped \/ UNCHANGED vars
    BY <2>1, <2>11, Stutter DEF Stopped
  <2>12. QED
    BY <2>1, <2>2, <2>3, <2>4, <2>5, <2>6, <2>7, <2>8, <2>9, <2>10, <2>11, Zenon DEF Next
<1>3. QED
  BY <1>1, <1>2, PTL DEF Spec

(* Every state is one of the fields and queues of Core and Accelerator.    *)
THEOREM TypeCorrect == Spec => []TypeOK
<1>1. IInv => TypeOK
  BY DEF IInv
<1>2. QED
  BY <1>1, Inductive, PTL

(* The numbers of the instructions that count follow the program across    *)
(* every hand-over, be it after a call that failed or one that did not.    *)
THEOREM NumbersInOrder == Spec => []NumbersFollowProgram
<1>1. IInv => NumbersFollowProgram
  BY DEF IInv
<1>2. QED
  BY <1>1, Inductive, PTL

(* Two empty queues are enough for Accelerator::isFinish: then the         *)
(* scoreboard is empty too, and there is nothing to fetch.                 *)
THEOREM FinishedMeansEmpty == Spec => []NothingLeftBehind
<1>1. IInv => NothingLeftBehind
  BY DEF IInv
<1>2. QED
  BY <1>1, Inductive, PTL

(* findDynamicDeps looks backwards through the reservation list and then   *)
(* takes any instance in flight; what is issued has the latest all the     *)
(* same, for instances of one instruction run one at a time and in order.  *)
THEOREM LatestOperands == Spec => []OperandsAreLatest
<1>1. IInv => OperandsAreLatest
  <2>1. SUFFICES ASSUME IInv, NEW j \in 1 .. Len(insns), insns[j].hw = "acc", ~Is({"phi"}, j),
                        insns[j].status \in {"ISSUED", "COMMITED"},
                        NEW i \in 1 .. j - 1, insns[i].hw = "acc",
                        insns[i].op.uid \in insns[j].op.deps,
                        \A k \in i + 1 .. j - 1 : insns[k].op.uid # insns[i].op.uid
                 PROVE  i \notin inflight /\ insns[i].status \in {"ISSUED", "COMMITED"}
    BY DEF OperandsAreLatest
  <2>2. Len(insns) \in Nat
    BY <2>1, LenProperties DEF IInv, TypeOK
  <2>3. /\ i \in Ids /\ j \in Ids /\ i < j
        /\ \A k \in Ids : i < k /\ k < j => k \in i + 1 .. j - 1
    BY <2>1, <2>2 DEF Ids
  <2>4. LatestBefore(i, j)
    BY <2>1, <2>3 DEF LatestBefore, IsAcc, Uid
  <2>5. insns[j].op.kind # "phi" /\ Uid(i) \in insns[j].op.deps /\ Started(j) /\ IsAcc(j)
    BY <2>1 DEF Is, Uid, Started, IsAcc
  <2>6. insns[j].deps = {} /\ (Done(i) \/ i \in insns[j].deps)
    BY <2>1, <2>3, <2>4, <2>5 DEF IInv, DepsAgree
  <2>7. QED
    BY <2>6 DEF Done, Started
<1>2. QED
  BY <1>1, Inductive, PTL

-----------------------------------------------------------------------------
(* In step with the trace: the inductive invariant.                        *)

(* That the reader of program s comes into this state, back apart unless   *)
(* it matters.                                                             *)
Known(s, code, stack, caller, mode, p, back) ==
  \E r \in Readings[s] :
    /\ r = At(code, stack, caller, mode, r.back, p)
    /\ s.speculative /\ mode # "core" => r.back = back

(* Who has something to fetch.                                             *)
AccReads ==
  offloading /\ IF fetchForRet THEN returnStack # <<>> ELSE targetBB # NoBlock
HostReads ==
  /\ ~offloading /\ offloadCall = 0 /\ ~hostAbnormal
  /\ IF hostForRet THEN hostReturnStack # <<>> ELSE hostBB # NoBlock

(* The state of the reader that core and accelerator together stand for:   *)
(* when the call is fetched and not executed, while the accelerator has    *)
(* something to fetch, when it has not and has yet to become empty, and    *)
(* when the core has.                                                      *)
ReaderAgrees ==
  /\ offloadCall # 0 =>
       Known(scenario, Blocks[insns[offloadCall].op.dest[1]], <<>>, hostReturnStack,
             "running", tracePos, rollbackPos)
  /\ AccReads =>
       Known(scenario, IF fetchForRet THEN Head(returnStack) ELSE Blocks[targetBB],
             IF fetchForRet THEN Tail(returnStack) ELSE returnStack, hostReturnStack,
             IF failure THEN "failing" ELSE "running", tracePos, rollbackPos)
  /\ offloading /\ ~AccReads /\ ~abnormalExit =>
       Known(scenario, Head(hostReturnStack), Tail(hostReturnStack), <<>>,
             IF failure THEN "undone" ELSE "done", tracePos, rollbackPos)
  /\ HostReads =>
       Known(scenario, IF hostForRet THEN Head(hostReturnStack) ELSE Blocks[hostBB],
             IF hostForRet THEN Tail(hostReturnStack) ELSE hostReturnStack, <<>>,
             IF ~switching THEN "core" ELSE IF rollback THEN "undone" ELSE "done",
             tracePos, rollbackPos)

(* A run of the accelerator that meets the end of the trace is the last.   *)
EndAgrees ==
  /\ offloadCall # 0 => ~abnormalExit
  /\ abnormalExit => offloading \/ hostAbnormal
  /\ failure \in BOOLEAN /\ rollback \in BOOLEAN /\ switching \in BOOLEAN

ReadsBefore(p) == \A i \in Live : Reads(i) => insns[i].pos < p

(* What counts was read before the position of the trace, and before the   *)
(* position to which a failed run leads back.                              *)
OnceAgrees ==
  /\ tracePos \in 1 .. EndPos + 1 /\ rollbackPos \in 1 .. EndPos + 1
  /\ ReadsBefore(tracePos)
  /\ scenario.speculative =>
       /\ offloadCall # 0 => rollbackPos = tracePos
       /\ offloading =>
            \A i \in Live : Reads(i) /\ insns[i].dynID < hostID => insns[i].pos < rollbackPos
       /\ ~offloading /\ offloadCall = 0 /\ switching /\ rollback => ReadsBefore(rollbackPos)

SitesAgree == \A i \in Ids : Reads(i) => Trace[insns[i].pos].site = insns[i].op.site
ReadOnce == \A i, j \in Live : Reads(i) /\ insns[i].pos = insns[j].pos => i = j

StepInv == ReaderAgrees /\ EndAgrees /\ OnceAgrees /\ SitesAgree /\ ReadOnce

-----------------------------------------------------------------------------
(* The reader.                                                             *)

(* What is assumed of the program at hand and its reader.                  *)
LEMMA RecordedIs ==
  ASSUME scenario \in Scenarios
  PROVE  /\ Start(scenario) \in Readings[scenario] /\ scenario.speculative \in BOOLEAN
         /\ \A r \in Readings[scenario] :
              /\ Following(scenario, r) \subseteq Readings[scenario]
              /\ reads(Head(r.code)) /\ ~Judged(scenario, r) /\ r.p \in 1 .. Len(Trace) =>
                   Trace[r.p].site = Head(r.code).site
              /\ scenario.speculative /\ r.mode \in {"done", "undone"} =>
                   Head(r.code).kind \in {"op", "phi", "br"}
<1>1. Trace = scenario.trace
  BY DEF Trace
<1>2. QED
  BY <1>1, RecordedAssumption

(* A state in which the reader goes on behind an instruction that is not   *)
(* the last of its block.                                                  *)
LEMMA WalksOn ==
  ASSUME scenario \in Scenarios, NEW code, NEW stack, NEW caller, NEW mode, NEW back,
         NEW p \in Nat, At(code, stack, caller, mode, back, p) \in Readings[scenario]
  PROVE  /\ \/ Head(code).kind \in {"op", "phi"}
            \/ Head(code).kind \in {"call", "offload"} /\ p > EndPos
            => At(Tail(code), stack, caller, mode, back, p) \in Readings[scenario]
         /\ Head(code).kind \in {"load", "store"} /\ p <= EndPos
            => At(Tail(code), stack, caller, mode, back, p + 1) \in Readings[scenario]
<1> DEFINE r == At(code, stack, caller, mode, back, p)  kind == Head(code).kind
<1>1. /\ r.code = code /\ r.stack = stack /\ r.caller = caller
      /\ r.mode = mode /\ r.back = back /\ r.p = p
  BY DEF At
<1>2. Following(scenario, r) \subseteq Readings[scenario]
  BY RecordedIs
<1>3. End(scenario) = EndPos /\ EndPos \in Nat
  BY ProgramIs, LenProperties DEF End, EndPos, Trace
<1> HIDE DEF r
<1>4. ASSUME kind \in {"op", "phi"} \/ (kind \in {"call", "offload"} /\ p > EndPos)
      PROVE  Following(scenario, r) = {At(Tail(code), stack, caller, mode, back, p)}
  <2>1. ~(p <= EndPos)  \/ kind \in {"op", "phi"}
    BY <1>3, <1>4
  <2>2. QED
    BY <2>1, <1>1, <1>3, <1>4 DEF Following, Judged
<1>5. ASSUME kind \in {"load", "store"}, p <= EndPos
      PROVE  Following(scenario, r) = {At(Tail(code), stack, caller, mode, back, p + 1)}
  BY <1>1, <1>3, <1>5 DEF Following, Judged
<1>6. QED
  BY <1>2, <1>4, <1>5

(* A state in which the reader comes to the end of a block or to a call.   *)
InBlock(b, mode) ==
  IF mode \in {"running", "failing"} /\ b = "ret.fail" THEN "failing" ELSE mode

(* A state in which the reader comes to the end of a block or to a call.   *)
LEMMA TurnsTo ==
  ASSUME scenario \in Scenarios, NEW code, NEW stack, NEW caller, NEW mode, NEW back,
         NEW p \in Nat, At(code, stack, caller, mode, back, p) \in Readings[scenario],
         NEW op, op = Head(code)
  PROVE  /\ op.kind = "jmp" =>
              At(Blocks[op.dest[1]], stack, caller, InBlock(op.dest[1], mode), back, p)
                \in Readings[scenario]
         /\ op.kind = "call" /\ p <= EndPos =>
              At(Blocks[op.dest[1]], <<Tail(code)>> \o stack, caller, mode, back, p)
                \in Readings[scenario]
         /\ op.kind = "offload" /\ p <= EndPos =>
              At(Blocks[op.dest[1]], <<>>, <<Tail(code)>> \o stack, "running", p, p)
                \in Readings[scenario]
         /\ op.kind = "ret" /\ stack # <<>> =>
              At(Head(stack), Tail(stack), caller, mode, back, p) \in Readings[scenario]
         /\ op.kind = "ret" /\ stack = <<>> /\ mode \in {"running", "failing"} =>
              At(Head(caller), Tail(caller), <<>>,
                 IF mode = "running" THEN "done" ELSE "undone", back, p) \in Readings[scenario]
<1> DEFINE r == At(code, stack, caller, mode, back, p)
<1>1. /\ r.code = code /\ r.stack = stack /\ r.caller = caller
      /\ r.mode = mode /\ r.back = back /\ r.p = p
  BY DEF At
<1>2. Following(scenario, r) \subseteq Readings[scenario]
  BY RecordedIs
<1>3. End(scenario) = EndPos /\ EndPos \in Nat /\ scenario.blocks = Blocks
  BY ProgramIs, LenProperties DEF End, EndPos, Trace, Blocks
<1> HIDE DEF r
<1>4. \A b : ModeIn(r, b) = InBlock(b, mode)
  BY <1>1 DEF ModeIn, InBlock, Accelerated
<1>5. ASSUME op.kind = "jmp"
      PROVE  Following(scenario, r) =
               {At(Blocks[op.dest[1]], stack, caller, InBlock(op.dest[1], mode), back, p)}
  BY <1>1, <1>3, <1>4, <1>5 DEF Following, Judged
<1>6. ASSUME op.kind = "call", p <= EndPos
      PROVE  Following(scenario, r) =
               {At(Blocks[op.dest[1]], <<Tail(code)>> \o stack, caller, mode, back, p)}
  <2>1. ~(p > EndPos)
    BY <1>3, <1>6
  <2>2. QED
    BY <2>1, <1>1, <1>3, <1>6 DEF Following, Judged
<1>7. ASSUME op.kind = "offload", p <= EndPos
      PROVE  Following(scenario, r) =
               {At(Blocks[op.dest[1]], <<>>, <<Tail(code)>> \o stack, "running", p, p)}
  <2>1. ~(p > EndPos)
    BY <1>3, <1>7
  <2>2. QED
    BY <2>1, <1>1, <1>3, <1>7 DEF Following, Judged
<1>8. ASSUME op.kind = "ret", stack # <<>>
      PROVE  Following(scenario, r) =
               {At(Head(stack), Tail(stack), caller, mode, back, p)}
  BY <1>1, <1>3, <1>8 DEF Following, Judged
<1>9. ASSUME op.kind = "ret", stack = <<>>, mode \in {"running", "failing"}
      PROVE  Following(scenario, r) =
               {At(Head(caller), Tail(caller), <<>>,
                   IF mode = "running" THEN "done" ELSE "undone", back, p)}
  BY <1>1, <1>3, <1>9 DEF Following, Judged, Accelerated
<1>10. QED
  BY <1>2, <1>5, <1>6, <1>7, <1>8, <1>9

(* Where a conditional branch leads the reader, judging a run or not.      *)
LEMMA BranchesTo ==
  ASSUME scenario \in Scenarios, NEW code, NEW stack, NEW caller, NEW mode, NEW back,
         NEW p \in Nat, At(code, stack, caller, mode, back, p) \in Readings[scenario],
         NEW op, op = Head(code), op.kind = "br",
         NEW judges, judges = (scenario.speculative /\ mode \in {"done", "undone"}),
         NEW b, b = op.dest[IF IF judges THEN mode = "done" ELSE Trace[p].val THEN 1 ELSE 2]
  PROVE  /\ ~judges /\ p < EndPos =>
              At(Blocks[b], stack, caller,
                 IF mode \in {"running", "failing"} THEN InBlock(b, mode) ELSE "core",
                 back, p + 1) \in Readings[scenario]
         /\ judges /\ p <= EndPos =>
              At(Blocks[b], stack, caller, "core", back,
                 IF mode = "done" THEN p ELSE back) \in Readings[scenario]
<1> DEFINE r == At(code, stack, caller, mode, back, p)
<1>1. /\ r.code = code /\ r.stack = stack /\ r.caller = caller
      /\ r.mode = mode /\ r.back = back /\ r.p = p
  BY DEF At
<1>2. Following(scenario, r) \subseteq Readings[scenario]
  BY RecordedIs
<1>3. /\ End(scenario) = EndPos /\ EndPos \in Nat /\ scenario.blocks = Blocks
      /\ scenario.trace = Trace
  BY ProgramIs, LenProperties DEF End, EndPos, Trace, Blocks
<1> HIDE DEF r
<1>4. ModeIn(r, b) = InBlock(b, mode) /\ (Accelerated(r) <=> mode \in {"running", "failing"})
  BY <1>1 DEF ModeIn, InBlock, Accelerated
<1>5. Judged(scenario, r) <=> judges
  BY <1>1 DEF Judged
<1>6. b = op.dest[IF op.kind # "br" THEN 1
                  ELSE IF IF Judged(scenario, r) THEN r.mode = "done" ELSE scenario.trace[r.p].val
                  THEN 1 ELSE 2]
  BY <1>1, <1>3, <1>5
<1>7. ASSUME ~judges, p < EndPos
      PROVE  Following(scenario, r) =
               {At(Blocks[b], stack, caller,
                   IF mode \in {"running", "failing"} THEN InBlock(b, mode) ELSE "core",
                   back, p + 1)}
  BY <1>1, <1>3, <1>4, <1>5, <1>6, <1>7 DEF Following
<1>8. ASSUME judges, p <= EndPos
      PROVE  Following(scenario, r) =
               {At(Blocks[b], stack, caller, "core", back, IF mode = "done" THEN p ELSE back)}
  BY <1>1, <1>3, <1>4, <1>5, <1>6, <1>8 DEF Following
<1>9. QED
  BY <1>2, <1>7, <1>8

-----------------------------------------------------------------------------
(* Where the reads of a block are.                                         *)

(* Every instruction of a block that reads moves the position by one,      *)
(* until the trace is at its end.                                          *)
LEMMA ReadPosGrows ==
  ASSUME scenario \in Scenarios, NEW ops, NEW p \in 1 .. EndPos + 1, NEW k \in Nat \ {0}
  PROVE  /\ EndPos \in Nat
         /\ ReadPos(ops, p, 1) = p
         /\ ReadPos(ops, p, k) \in p .. EndPos + 1
         /\ ReadPos(ops, p, k + 1) =
              IF reads(ops[k]) /\ ReadPos(ops, p, k) <= EndPos
              THEN ReadPos(ops, p, k) + 1 ELSE ReadPos(ops, p, k)
<1> DEFINE before(m) == {j \in 1 .. m - 1 : reads(ops[j])}
           c(m) == Cardinality(before(m))
<1>1. EndPos \in Nat
  BY ProgramIs, LenProperties DEF EndPos
<1>2. \A m \in Nat : IsFiniteSet(before(m)) /\ c(m) \in Nat
  <2>1. ASSUME NEW m \in Nat PROVE IsFiniteSet(before(m))
    <3>1. IsFiniteSet(1 .. m - 1) /\ before(m) \subseteq 1 .. m - 1
      BY FS_Interval
    <3>2. QED
      BY <3>1, FS_Subset
  <2>2. QED
    BY <2>1, FS_CardinalityType
<1>3. c(1) = 0
  <2>1. before(1) = {}
    OBVIOUS
  <2>2. QED
    BY <2>1, FS_EmptySet
<1>4. c(k + 1) = IF reads(ops[k]) THEN c(k) + 1 ELSE c(k)
  <2>1. \A j : j \in 1 .. k + 1 - 1 <=> j \in 1 .. k - 1 \/ j = k
    OBVIOUS
  <2>2. CASE reads(ops[k])
    <3>1. before(k + 1) = before(k) \union {k} /\ k \notin before(k)
      BY <2>1, <2>2
    <3> HIDE DEF before
    <3>2. QED
      BY <3>1, <2>2, <1>2, FS_AddElement
  <2>3. CASE ~reads(ops[k])
    <3>1. before(k + 1) = before(k)
      BY <2>1, <2>3
    <3>2. QED
      BY <3>1, <2>3
  <2>4. QED
    BY <2>2, <2>3
<1>5. \A m : ReadPos(ops, p, m) = IF p + c(m) > EndPos THEN EndPos + 1 ELSE p + c(m)
  BY DEF ReadPos
<1>6. c(k) \in Nat /\ c(k + 1) \in Nat /\ p \in Nat /\ p <= EndPos + 1
  <2>1. k \in Nat /\ k + 1 \in Nat
    OBVIOUS
  <2> HIDE DEF c, before
  <2>2. QED
    BY <2>1, <1>1, <1>2
<1> HIDE DEF c, before
<1>7. ReadPos(ops, p, 1) = p
  BY <1>1, <1>3, <1>5, <1>6
<1>8. ReadPos(ops, p, k) \in p .. EndPos + 1
  BY <1>1, <1>5, <1>6
<1>9. CASE reads(ops[k])
  BY <1>1, <1>4, <1>5, <1>6, <1>7, <1>8, <1>9
<1>10. CASE ~reads(ops[k])
  BY <1>1, <1>4, <1>5, <1>6, <1>7, <1>8, <1>10
<1>11. QED
  BY <1>9, <1>10

(* Behind an instruction that reads the position is larger.                *)
LEMMA ReadPosAhead ==
  ASSUME scenario \in Scenarios, NEW ops, NEW p \in 1 .. EndPos + 1,
         NEW k \in Nat \ {0}, NEW l \in Nat, k < l
  PROVE  /\ ReadPos(ops, p, k) <= ReadPos(ops, p, l)
         /\ reads(ops[k]) /\ ReadPos(ops, p, k) <= EndPos =>
              ReadPos(ops, p, k) < ReadPos(ops, p, l)
<1> DEFINE at(m) == ReadPos(ops, p, m)
           S == {m \in Nat : at(k + 1) <= at(k + 1 + m)}
<1>1. \A m \in Nat \ {0} : at(m) \in Int /\ at(m) <= at(m + 1)
  <2>1. ASSUME NEW m \in Nat \ {0} PROVE at(m) \in Int /\ at(m) <= at(m + 1)
    <3>1. /\ EndPos \in Nat /\ at(m) \in p .. EndPos + 1
          /\ at(m + 1) = at(m) + 1 \/ at(m + 1) = at(m)
      BY ReadPosGrows
    <3> HIDE DEF at
    <3>2. QED
      BY <3>1
  <2>2. QED
    BY <2>1
<1>2. 0 \in S
  <2>1. k + 1 \in Nat \ {0} /\ k + 1 + 0 = k + 1
    OBVIOUS
  <2>2. QED
    BY <2>1, <1>1
<1>3. ASSUME NEW m \in S PROVE m + 1 \in S
  <2>1. m \in Nat /\ at(k + 1) <= at(k + 1 + m)
    BY <1>3
  <2>2. k + 1 + m \in Nat \ {0} /\ k + 1 \in Nat \ {0} /\ k + 1 + (m + 1) = k + 1 + m + 1
        /\ k + 1 + m + 1 \in Nat \ {0}
    BY <2>1
  <2> HIDE DEF at
  <2>3. QED
    BY <2>1, <2>2, <1>1
<1>4. S = Nat
  <2> HIDE DEF at
  <2>1. S \in SUBSET Nat
    OBVIOUS
  <2> HIDE DEF S
  <2>2. QED
    BY <2>1, <1>2, <1>3, InductionOnSet
<1>5. l - (k + 1) \in Nat /\ k + 1 + (l - (k + 1)) = l /\ k + 1 \in Nat \ {0} /\ l \in Nat \ {0}
  OBVIOUS
<1>6. at(k + 1) <= at(l) /\ at(k) \in Int /\ at(k + 1) \in Int /\ at(l) \in Int
      /\ at(k) <= at(k + 1)
  BY <1>1, <1>4, <1>5
<1>7. reads(ops[k]) /\ at(k) <= EndPos => at(k + 1) = at(k) + 1
  BY ReadPosGrows
<1> HIDE DEF at
<1>8. QED
  BY <1>6, <1>7 DEF at

(* What is left of a block behind an instruction.                          *)
LEMMA RestOf ==
  ASSUME NEW T, NEW s \in Seq(T), NEW k \in 1 .. Len(s)
  PROVE  /\ SubSeq(s, 1, Len(s)) = s
         /\ Head(SubSeq(s, k, Len(s))) = s[k]
         /\ Tail(SubSeq(s, k, Len(s))) = SubSeq(s, k + 1, Len(s))
<1> DEFINE a == SubSeq(s, k, Len(s))  b == SubSeq(s, k + 1, Len(s))
           m == Len(s) + 1 - k
<1>1. Len(s) \in Nat /\ s = [i \in 1 .. Len(s) |-> s[i]]
  BY LenProperties, ElementOfSeq
<1>2. SubSeq(s, 1, Len(s)) = s
  BY <1>1
<1>3. /\ a \in Seq(T) /\ Len(a) = m /\ \A i \in 1 .. m : a[i] = s[k + i - 1]
  <2>1. k \in 1 .. Len(s) + 1 /\ Len(s) \in 0 .. Len(s) /\ k <= Len(s) + 1
    BY <1>1
  <2>2. QED
    BY <2>1, SubSeqIs
<1>4. /\ b \in Seq(T) /\ Len(b) = m - 1 /\ \A i \in 1 .. m - 1 : b[i] = s[k + 1 + i - 1]
  <2>1. k + 1 \in 1 .. Len(s) + 1 /\ Len(s) \in 0 .. Len(s) /\ k + 1 <= Len(s) + 1
        /\ Len(s) + 1 - (k + 1) = m - 1
    BY <1>1
  <2>2. /\ b \in Seq(T) /\ Len(b) = Len(s) + 1 - (k + 1)
        /\ \A i \in 1 .. Len(s) + 1 - (k + 1) : b[i] = s[k + 1 + i - 1]
    BY <2>1, SubSeqIs
  <2>3. QED
    BY <2>1, <2>2
<1>5. m \in Nat \ {0} /\ k + 1 - 1 = k /\ \A i \in Nat : k + (i + 1) - 1 = k + 1 + i - 1
  BY <1>1
<1> HIDE DEF a, b, m
<1>6. a # <<>>
  BY <1>3, <1>5
<1>7. Head(a) = s[k]
  <2>1. Head(a) = a[1] /\ 1 \in 1 .. m
    BY <1>3, <1>5, <1>6, HeadTailProperties
  <2>2. QED
    BY <2>1, <1>3, <1>5
<1>8. /\ Tail(a) \in Seq(T) /\ Len(Tail(a)) = m - 1
      /\ \A i \in 1 .. m - 1 : Tail(a)[i] = a[i + 1]
  BY <1>3, <1>6, HeadTailProperties
<1>9. \A i \in 1 .. m - 1 : Tail(a)[i] = b[i]
  <2>1. ASSUME NEW i \in 1 .. m - 1 PROVE Tail(a)[i] = b[i]
    <3>1. i \in Nat /\ i + 1 \in 1 .. m
      BY <1>5
    <3>2. QED
      BY <3>1, <1>3, <1>4, <1>5, <1>8
  <2>2. QED
    BY <2>1
<1>10. Tail(a) = b
  <2>1. \A t \in Seq(T) : t = [i \in 1 .. Len(t) |-> t[i]]
    OBVIOUS
  <2>2. QED
    BY <2>1, <1>4, <1>8, <1>9
<1>11. QED
  BY <1>2, <1>7, <1>10 DEF a, b

(* The reader takes a block step by step up to where fetching it stops.    *)
LEMMA Walk ==
  ASSUME scenario \in Scenarios, NEW ops, NEW names, IsCode(ops, names),
         NEW p \in 1 .. EndPos + 1, NEW stack, NEW caller, NEW mode, NEW back,
         At(ops, stack, caller, mode, back, p) \in Readings[scenario],
         NEW k \in 1 .. Fetched(ops, p)
  PROVE  At(SubSeq(ops, k, Len(ops)), stack, caller, mode, back, ReadPos(ops, p, k))
           \in Readings[scenario]
<1> DEFINE n == Fetched(ops, p)
           r(m) == At(SubSeq(ops, m, Len(ops)), stack, caller, mode, back, ReadPos(ops, p, m))
           S == {m \in Nat : m + 1 <= n => r(m + 1) \in Readings[scenario]}
<1>1. /\ ops \in Seq(Ops) /\ Len(ops) \in Nat \ {0} /\ n \in 1 .. Len(ops)
      /\ \A j \in 1 .. n - 1 : ~Stops(ops, p, j)
  BY CodeIs, FetchedIs
<1>2. \A m \in 1 .. Len(ops) : ops[m].kind \in Kinds
  BY CodeIs DEF Ops
<1>3. EndPos \in Nat
  BY ReadPosGrows
<1> HIDE DEF n
<1>4. 0 \in S
  <2>1. 1 \in 1 .. Len(ops)
    BY <1>1
  <2>2. SubSeq(ops, 1, Len(ops)) = ops
    BY <1>1, <2>1, RestOf
  <2>3. ReadPos(ops, p, 1) = p
    BY ReadPosGrows
  <2>4. r(1) \in Readings[scenario]
    BY <2>2, <2>3, Zenon
  <2> HIDE DEF r
  <2>5. 0 + 1 = 1
    OBVIOUS
  <2>6. r(0 + 1) \in Readings[scenario]
    BY <2>4, <2>5
  <2>7. QED
    BY <2>6
<1>5. ASSUME NEW m \in S PROVE m + 1 \in S
  <2>1. SUFFICES ASSUME m + 1 + 1 <= n PROVE r(m + 1 + 1) \in Readings[scenario]
    BY <1>5
  <2> DEFINE j == m + 1
  <2>2. m \in Nat /\ j \in 1 .. n - 1 /\ j \in 1 .. Len(ops) /\ j \in Nat \ {0} /\ j <= n
    BY <1>1, <1>5, <2>1
  <2>3. r(j) \in Readings[scenario]
    BY <1>5, <2>2
  <2> DEFINE q == ReadPos(ops, p, j)  code == SubSeq(ops, j, Len(ops))
  <2> HIDE DEF j
  <2>4. /\ q \in p .. EndPos + 1
        /\ ReadPos(ops, p, j + 1) = IF reads(ops[j]) /\ q <= EndPos THEN q + 1 ELSE q
    BY <2>2, ReadPosGrows
  <2>5. q \in Nat
    BY <2>4, <1>3
  <2>6. Head(code) = ops[j] /\ Tail(code) = SubSeq(ops, j + 1, Len(ops))
    BY <1>1, <2>2, RestOf
  <2>7. ~Stops(ops, p, j)
    BY <1>1, <2>2
  <2>8. /\ ops[j].kind \in {"op", "phi", "load", "store", "call", "offload"}
        /\ ops[j].kind \in {"call", "offload"} => q > EndPos
        /\ ops[j].kind \in {"load", "store"} => ~(q > EndPos)
    BY <1>2, <2>2, <2>7 DEF Stops, Kinds, reads, at_end
  <2> HIDE DEF q, code
  <2>9. At(code, stack, caller, mode, back, q) \in Readings[scenario]
    BY <2>3 DEF q, code
  <2>10. CASE ops[j].kind \in {"load", "store"}
    <3>1. q <= EndPos
      BY <2>5, <2>8, <2>10, <1>3
    <3>2. At(Tail(code), stack, caller, mode, back, q + 1) \in Readings[scenario]
      BY <3>1, <2>5, <2>6, <2>9, <2>10, WalksOn
    <3>3. ReadPos(ops, p, j + 1) = q + 1
      BY <3>1, <2>4, <2>10 DEF reads
    <3>4. QED
      BY <3>2, <3>3, <2>6 DEF j
  <2>11. CASE ops[j].kind \notin {"load", "store"}
    <3>1. \/ ops[j].kind \in {"op", "phi"}
          \/ ops[j].kind \in {"call", "offload"} /\ q > EndPos
      BY <2>8, <2>11
    <3>2. At(Tail(code), stack, caller, mode, back, q) \in Readings[scenario]
      BY <3>1, <2>5, <2>6, <2>9, WalksOn
    <3>3. ReadPos(ops, p, j + 1) = q
      BY <2>4, <2>8, <2>11 DEF reads
    <3>4. QED
      BY <3>2, <3>3, <2>6 DEF j
  <2>12. QED
    BY <2>10, <2>11
<1>6. S = Nat
  <2>1. S \in SUBSET Nat
    OBVIOUS
  <2> HIDE DEF S
  <2>2. QED
    BY <2>1, <1>4, <1>5, InductionOnSet
<1>7. k - 1 \in Nat /\ k - 1 + 1 = k /\ k <= n
  BY <1>1 DEF n
<1>8. r(k) \in Readings[scenario]
  BY <1>6, <1>7
<1>9. QED
  BY <1>8

-----------------------------------------------------------------------------
(* The instructions of a block fetched, and what they read.                *)

TakesBlock(ops, judged) ==
  LET n == Fetched(ops, tracePos)
  IN /\ Len(insns) \in Nat /\ Len(insns') = Len(insns) + n
     /\ \A i \in Ids : insns'[i] = insns[i]
     /\ \A k \in 1 .. n :
          /\ insns'[Len(insns) + k].op.site = ops[k].site
          /\ insns'[Len(insns) + k].pos =
               IF reads(ops[k]) /\ ~(judged /\ k = n) THEN ReadPos(ops, tracePos, k) ELSE 0
     /\ UNCHANGED <<scenario, failed>>

(* Whether the reader, and the core, judge a run by the end of this block. *)
EndOfTrace(ops) ==
  LET n == Fetched(ops, tracePos) IN reads(ops[n]) /\ at_end(ReadPos(ops, tracePos, n))
Judging(ops, mode) ==
  /\ scenario.speculative /\ mode \in {"done", "undone"}
  /\ ops[Fetched(ops, tracePos)].kind = "br" /\ ~EndOfTrace(ops)

(* An instruction known after a fetch was known before or is of the block. *)
LEMMA NewIds ==
  ASSUME NEW ops, NEW names, IsCode(ops, names), NEW judged, TakesBlock(ops, judged)
  PROVE  \A i \in Ids' : i \in Ids \/ \E k \in 1 .. Fetched(ops, tracePos) : i = Len(insns) + k
<1> DEFINE n == Fetched(ops, tracePos)  L == Len(insns)
<1>1. L \in Nat /\ Ids' = 1 .. L + n /\ Ids = 1 .. L /\ n \in 1 .. Len(ops)
  BY FetchedIs DEF TakesBlock, Ids
<1> HIDE DEF n, L
<1>2. ASSUME NEW i \in 1 .. L + n, i \notin 1 .. L PROVE i - L \in 1 .. n /\ i = L + (i - L)
  BY <1>1, <1>2
<1>3. QED
  BY <1>1, <1>2 DEF n, L

(* An instruction of the block finds its own site, if the reader finds it. *)
LEMMA SitesStep ==
  ASSUME TypeOK, tracePos \in 1 .. EndPos + 1, SitesAgree, NEW ops, NEW names, IsCode(ops, names),
         NEW stack, NEW caller, NEW mode, NEW back,
         At(ops, stack, caller, mode, back, tracePos) \in Readings[scenario],
         TakesBlock(ops, Judging(ops, mode))
  PROVE  SitesAgree'
<1> DEFINE n == Fetched(ops, tracePos)  L == Len(insns)
<1>1. scenario \in Scenarios /\ EndPos \in Nat /\ Len(Trace) + 1 = EndPos /\ Len(Trace) \in Nat
  BY ProgramIs, LenProperties DEF TypeOK, EndPos
<1>2. /\ n \in 1 .. Len(ops) /\ Len(ops) \in Nat /\ ops \in Seq(Ops)
  BY CodeIs, FetchedIs
<1>3. Trace' = Trace
  BY DEF TakesBlock, Trace
<1>4. SUFFICES ASSUME NEW i \in Ids', Reads(i)'
               PROVE  Trace[insns'[i].pos].site = insns'[i].op.site
  BY <1>3, Zenon DEF SitesAgree
<1>5. insns'[i].pos \in 1 .. Len(Trace)
  BY <1>3, <1>4 DEF Reads
<1>6. CASE i \in Ids
  BY <1>5, <1>6 DEF TakesBlock, SitesAgree, Reads
<1>7. CASE \E k \in 1 .. n : i = L + k
  <2>1. PICK k \in 1 .. n : i = L + k
    BY <1>7
  <2>2. /\ insns'[i].op.site = ops[k].site
        /\ insns'[i].pos = IF reads(ops[k]) /\ ~(Judging(ops, mode) /\ k = n)
                           THEN ReadPos(ops, tracePos, k) ELSE 0
    BY <2>1 DEF TakesBlock
  <2> DEFINE q == ReadPos(ops, tracePos, k)
             r == At(SubSeq(ops, k, Len(ops)), stack, caller, mode, back, q)
  <2>3. reads(ops[k]) /\ ~(Judging(ops, mode) /\ k = n) /\ q \in 1 .. Len(Trace)
        /\ insns'[i].pos = q
    BY <2>2, <1>1, <1>5
  <2>4. r \in Readings[scenario]
    BY <1>1, <2>1, Walk
  <2>5. r.code = SubSeq(ops, k, Len(ops)) /\ r.mode = mode /\ r.p = q
    BY DEF At
  <2>6. Head(SubSeq(ops, k, Len(ops))) = ops[k]
    <3>1. k \in 1 .. Len(ops)
      BY <1>2, <2>1
    <3>2. QED
      BY <1>2, <3>1, RestOf
  <2> HIDE DEF r, q
  <2>7. ~Judged(scenario, r)
    <3>1. SUFFICES ASSUME Judged(scenario, r) PROVE FALSE
      OBVIOUS
    <3>2. scenario.speculative /\ mode \in {"done", "undone"} /\ ops[k].kind = "br"
      BY <3>1, <2>5, <2>6 DEF Judged
    <3>3. k = n
      <4>1. SUFFICES ASSUME k # n PROVE FALSE
        OBVIOUS
      <4>2. k \in 1 .. n - 1
        BY <4>1, <1>2, <2>1
      <4>3. ~Stops(ops, tracePos, k)
        BY <4>2, FetchedIs
      <4>4. QED
        BY <3>2, <4>3 DEF Stops
    <3>4. ~at_end(q)
      BY <1>1, <2>3 DEF at_end
    <3>5. Judging(ops, mode)
      BY <3>2, <3>3, <3>4 DEF Judging, EndOfTrace, q, n
    <3>6. QED
      BY <2>3, <3>3, <3>5
  <2>8. Trace[q].site = ops[k].site
    BY <1>1, <2>3, <2>4, <2>5, <2>6, <2>7, RecordedIs
  <2>9. QED
    BY <2>2, <2>3, <2>8
<1>8. QED
  BY <1>6, <1>7, NewIds

(* The reads of the block lie between the position before and after it.    *)
LEMMA OnceStep ==
  ASSUME TypeOK, tracePos \in 1 .. EndPos + 1, ReadOnce, ReadsBefore(tracePos),
         NEW ops, NEW names, IsCode(ops, names), NEW judged, TakesBlock(ops, judged)
  PROVE  /\ ReadOnce'
         /\ \A i \in Live' : Reads(i)' =>
              insns'[i].pos < ReadPos(ops, tracePos, Fetched(ops, tracePos) + 1)
<1> DEFINE n == Fetched(ops, tracePos)  L == Len(insns)  q(k) == ReadPos(ops, tracePos, k)
<1>1. scenario \in Scenarios /\ EndPos \in Nat /\ Len(Trace) + 1 = EndPos /\ Len(Trace) \in Nat
  BY ProgramIs, LenProperties DEF TypeOK, EndPos
<1>2. /\ n \in 1 .. Len(ops) /\ Len(ops) \in Nat /\ n + 1 \in Nat /\ n \in Nat
  BY CodeIs, FetchedIs
<1>3. Trace' = Trace /\ failed' = failed /\ L \in Nat
  BY DEF TakesBlock, Trace
<1>4. ASSUME NEW i \in Live', Reads(i)'
      PROVE  \/ i \in Live /\ Reads(i) /\ insns'[i].pos = insns[i].pos /\ insns[i].pos < tracePos
             \/ \E k \in 1 .. n : /\ i = L + k /\ reads(ops[k]) /\ insns'[i].pos = q(k)
                                  /\ q(k) \in 1 .. Len(Trace)
  <2>1. i \in Ids' /\ i \notin failed
    BY <1>3 DEF Live, Ids
  <2>2. insns'[i].pos \in 1 .. Len(Trace)
    BY <1>3, <1>4 DEF Reads
  <2>3. CASE i \in Ids
    <3>1. i \in Live /\ insns'[i] = insns[i]
      BY <2>1, <2>3 DEF TakesBlock, Live, Ids
    <3>2. QED
      BY <2>2, <3>1 DEF Reads, ReadsBefore
  <2>4. CASE \E k \in 1 .. n : i = L + k
    <3>1. PICK k \in 1 .. n : i = L + k
      BY <2>4
    <3>2. insns'[i].pos = IF reads(ops[k]) /\ ~(judged /\ k = n) THEN q(k) ELSE 0
      BY <3>1 DEF TakesBlock
    <3> HIDE DEF q
    <3>3. reads(ops[k]) /\ insns'[i].pos = q(k) /\ q(k) \in 1 .. Len(Trace)
      BY <1>1, <2>2, <3>2
    <3>4. QED
      BY <3>1, <3>3
  <2>5. QED
    BY <2>1, <2>3, <2>4, NewIds
<1>5. ASSUME NEW k \in 1 .. n PROVE q(k) \in tracePos .. EndPos + 1
  <2>1. k \in Nat \ {0}
    BY <1>2
  <2>2. QED
    BY <1>1, <2>1, ReadPosGrows
<1>6. ASSUME NEW k \in 1 .. n + 1, NEW l \in 1 .. n + 1, k < l, reads(ops[k]), q(k) \in 1 .. Len(Trace)
      PROVE  q(k) < q(l)
  <2>1. k \in Nat \ {0} /\ l \in Nat /\ q(k) <= EndPos
    BY <1>1, <1>2, <1>6
  <2>2. QED
    BY <1>1, <1>6, <2>1, ReadPosAhead
<1>7. q(n + 1) \in tracePos .. EndPos + 1
  <2>1. n + 1 \in Nat \ {0}
    BY <1>2
  <2>2. QED
    BY <1>1, <2>1, ReadPosGrows
<1>8. ASSUME NEW i \in Live PROVE insns[i].pos \in Nat
  <2>1. insns[i] \in Insn
    BY ElementOfSeq DEF TypeOK, Live
  <2>2. QED
    BY <2>1 DEF Insn
<1> HIDE DEF q
<1>9. ASSUME NEW i \in Live', Reads(i)' PROVE insns'[i].pos < q(n + 1)
  <2>1. CASE i \in Live /\ insns'[i].pos = insns[i].pos /\ insns[i].pos < tracePos
    BY <2>1, <1>1, <1>7, <1>8
  <2>2. CASE \E k \in 1 .. n : /\ i = L + k /\ reads(ops[k]) /\ insns'[i].pos = q(k)
                               /\ q(k) \in 1 .. Len(Trace)
    <3>1. PICK k \in 1 .. n : reads(ops[k]) /\ insns'[i].pos = q(k) /\ q(k) \in 1 .. Len(Trace)
      BY <2>2
    <3>2. k \in 1 .. n + 1 /\ n + 1 \in 1 .. n + 1 /\ k < n + 1
      BY <1>2
    <3>3. QED
      BY <3>1, <3>2, <1>6
  <2>3. QED
    BY <2>1, <2>2, <1>4, <1>9
<1>10. ASSUME NEW i \in Live', NEW j \in Live', Reads(i)', Reads(j)', insns'[i].pos = insns'[j].pos,
              i # j
       PROVE  FALSE
  <2>1. CASE i \in Live /\ j \in Live
    <3>1. i \in Ids /\ j \in Ids
      BY <2>1 DEF Live, Ids
    <3>2. insns'[i] = insns[i] /\ insns'[j] = insns[j]
      BY <3>1 DEF TakesBlock
    <3>3. Reads(i) /\ Reads(j)
      BY <3>2, <1>3, <1>10 DEF Reads
    <3>4. QED
      BY <2>1, <3>2, <3>3, <1>10 DEF ReadOnce
  <2>2. CASE i \in Live /\ j \notin Live
    <3>1. PICK k \in 1 .. n : insns'[j].pos = q(k)
      BY <2>2, <1>4, <1>10
    <3>2. insns'[i].pos < tracePos /\ insns'[i].pos \in Nat
      <4>1. i \in Ids /\ insns'[i] = insns[i]
        BY <2>2 DEF TakesBlock, Live, Ids
      <4>2. Reads(i)
        BY <4>1, <1>3, <1>10 DEF Reads
      <4>3. QED
        BY <4>1, <4>2, <2>2, <1>8 DEF ReadsBefore
    <3>3. q(k) \in Int /\ tracePos \in Int /\ tracePos <= q(k)
      BY <1>1, <1>5
    <3>4. insns'[i].pos = q(k)
      BY <3>1, <1>10
    <3>5. QED
      BY <3>2, <3>3, <3>4
  <2>3. CASE i \notin Live /\ j \in Live
    <3>1. PICK k \in 1 .. n : insns'[i].pos = q(k)
      BY <2>3, <1>4, <1>10
    <3>2. insns'[j].pos < tracePos /\ insns'[j].pos \in Nat
      <4>1. j \in Ids /\ insns'[j] = insns[j]
        BY <2>3 DEF TakesBlock, Live, Ids
      <4>2. Reads(j)
        BY <4>1, <1>3, <1>10 DEF Reads
      <4>3. QED
        BY <4>1, <4>2, <2>3, <1>8 DEF ReadsBefore
    <3>3. q(k) \in Int /\ tracePos \in Int /\ tracePos <= q(k)
      BY <1>1, <1>5
    <3>4. insns'[j].pos = q(k)
      BY <3>1, <1>10
    <3>5. QED
      BY <3>2, <3>3, <3>4
  <2>4. CASE i \notin Live /\ j \notin Live
    <3>1. PICK k \in 1 .. n : /\ i = L + k /\ reads(ops[k]) /\ insns'[i].pos = q(k)
                              /\ q(k) \in 1 .. Len(Trace)
      BY <2>4, <1>4, <1>10
    <3>2. PICK l \in 1 .. n : /\ j = L + l /\ reads(ops[l]) /\ insns'[j].pos = q(l)
                              /\ q(l) \in 1 .. Len(Trace)
      BY <2>4, <1>4, <1>10
    <3>3. k \in 1 .. n + 1 /\ l \in 1 .. n + 1 /\ (k < l \/ l < k)
      BY <3>1, <3>2, <1>2, <1>10
    <3>4. q(k) \in Int /\ q(l) \in Int /\ q(k) = q(l)
      BY <3>1, <3>2, <1>10
    <3>5. ~(q(k) < q(l)) /\ ~(q(l) < q(k))
      BY <3>4
    <3>6. QED
      BY <3>1, <3>2, <3>3, <3>5, <1>6
  <2>5. QED
    BY <2>1, <2>2, <2>3, <2>4
<1>11. ReadOnce'
  <2>1. \A i, j \in Live' : Reads(i)' /\ insns'[i].pos = insns'[j].pos => Reads(j)'
    BY DEF Reads
  <2>2. \A i, j \in Live' : Reads(i)' /\ insns'[i].pos = insns'[j].pos => i = j
    BY <2>1, <1>10
  <2>3. QED
    BY <2>2, Zenon DEF ReadOnce
<1>12. QED
  BY <1>9, <1>11 DEF q

(* The accelerator takes a block of its code.                              *)
LEMMA AccTakes ==
  ASSUME TypeOK, NEW ops, AccCode(ops), FetchBlock(ops), FetchEffect(ops),
         UNCHANGED <<scenario, failed>>
  PROVE  TakesBlock(ops, FALSE)
<1> DEFINE n == Taken(ops)  all == WithBlock(ops)  L == Len(insns)
           new == NewInsns(ops, tracePos, n, globalDynID, "acc")
           cy(i) == IF all[i].op.kind = "op" THEN 1 ELSE 0
           linked == [i \in 1 .. Len(all) |->
                        IF i <= L THEN all[i]
                        ELSE [all[i] EXCEPT !.deps = DepsOf(i, ResvUpTo(ops, i), all),
                                            !.cycle = cy(i)]]
<1>1. insns' = linked
  BY Zenon DEF FetchBlock, Taken, WithBlock, BlockIds, ResvUpTo
<1>2. /\ L \in Nat /\ insns \in Seq(Insn) /\ tracePos \in Nat /\ globalDynID \in Nat
      /\ Ids = 1 .. L /\ scenario \in Scenarios
  BY LenProperties DEF TypeOK, Ids
<1>3. /\ ops \in Seq(Ops) /\ Len(ops) \in Nat /\ n \in 1 .. Len(ops)
      /\ n = Fetched(ops, tracePos)
  BY CodeIs, FetchedIs DEF AccCode, Taken
<1> HIDE DEF n
<1>4. /\ new \in Seq(Insn) /\ Len(new) = n
      /\ \A k \in 1 .. n :
           /\ new[k].op = ops[k]
           /\ new[k].pos = IF reads(ops[k]) THEN ReadPos(ops, tracePos, k) ELSE 0
  <2>1. /\ scenario \in Scenarios /\ ops \in Seq(Ops) /\ tracePos \in Nat
        /\ n \in 1 .. Len(ops) /\ globalDynID \in Nat /\ "acc" \in {"core", "acc"}
    BY <1>2, <1>3
  <2>2. AreNew(new, ops, n, globalDynID, "acc")
    BY <2>1, NewInsnsAre
  <2>3. \A k \in 1 .. n : new[k].pos = IF reads(ops[k]) THEN ReadPos(ops, tracePos, k) ELSE 0
    BY DEF NewInsns
  <2> HIDE DEF new
  <2>4. QED
    BY <2>2, <2>3, Zenon DEF AreNew
<1> HIDE DEF new
<1>5. all = insns \o new
  BY DEF WithBlock, new, n
<1> HIDE DEF all
<1>6. /\ all \in Seq(Insn) /\ Len(all) = L + n
      /\ \A k \in 1 .. L : all[k] = insns[k]
      /\ \A k \in 1 .. n : all[L + k] = new[k]
  <2>1. /\ insns \o new \in Seq(Insn) /\ Len(insns \o new) = Len(insns) + Len(new)
        /\ \A k \in 1 .. Len(insns) : (insns \o new)[k] = insns[k]
        /\ \A k \in 1 .. Len(new) : (insns \o new)[Len(insns) + k] = new[k]
    <3>1. insns \in Seq(Insn) /\ new \in Seq(Insn)
      BY <1>2, <1>4
    <3>2. QED
      BY <3>1, CatIs
  <2>2. QED
    BY <2>1, <1>4, <1>5
<1>7. n \in Nat
  BY <1>3
<1>8. Len(insns') = L + n /\ \A i \in Ids : insns'[i] = insns[i]
  BY Zenon DEF FetchEffect, n
<1>10. ASSUME NEW k \in 1 .. n
       PROVE  /\ insns'[L + k].op.site = ops[k].site
              /\ insns'[L + k].pos = IF reads(ops[k]) THEN ReadPos(ops, tracePos, k) ELSE 0
  <2>1. L + k \in 1 .. L + n /\ ~(L + k <= L)
    BY <1>2, <1>7
  <2>2. all[L + k] \in Insn /\ all[L + k] = new[k]
    BY <2>1, <1>6, ElementOfSeq
  <2> DEFINE D == DepsOf(L + k, ResvUpTo(ops, L + k), all)
  <2>3. insns'[L + k] = [all[L + k] EXCEPT !.deps = D, !.cycle = cy(L + k)]
    BY <2>1, <1>1, <1>6
  <2> HIDE DEF D, cy
  <2>4. insns'[L + k].op = all[L + k].op /\ insns'[L + k].pos = all[L + k].pos
    BY <2>2, <2>3 DEF Insn
  <2>5. QED
    BY <2>2, <2>4, <1>4
<1>11. QED
  BY <1>2, <1>3, <1>8, <1>10 DEF TakesBlock

(* The core takes a block; the branch that judges a run becomes a jump.    *)
LEMMA CoreTakes ==
  ASSUME TypeOK, NEW ops, HostCode(ops), NEW rest, Preprocess(ops, rest),
         UNCHANGED <<scenario, failed>>, NEW judges,
         judges = (/\ ops[Fetched(ops, tracePos)].kind = "br" /\ ~EndOfTrace(ops)
                   /\ switching /\ scenario.speculative)
  PROVE  TakesBlock(ops, judges)
<1> DEFINE n == Fetched(ops, tracePos)  L == Len(insns)
           ops2 == IF judges THEN [ops EXCEPT ![n].kind = "jmp"] ELSE ops
           new == NewInsns(ops2, tracePos, n, hostID, "core")
<1>1. insns' = insns \o new
  BY Zenon DEF Preprocess, EndOfTrace
<1>2. /\ n \in 1 .. Len(ops) /\ ops \in Seq(Ops) /\ Len(ops) \in Nat
      /\ DOMAIN ops = 1 .. Len(ops) /\ \A k \in 1 .. Len(ops) : ops[k] \in Ops
  BY FetchedIs, CodeIs DEF HostCode
<1>3. /\ L \in Nat /\ insns \in Seq(Insn) /\ Ids = 1 .. L
      /\ scenario \in Scenarios /\ tracePos \in Nat /\ hostID \in Nat
  BY LenProperties DEF TypeOK, Ids
<1> HIDE DEF n
<1>4. /\ ops2 \in Seq(Ops) /\ Len(ops2) = Len(ops)
      /\ \A k \in 1 .. Len(ops) :
           /\ ~(judges /\ k = n) => ops2[k] = ops[k]
           /\ judges /\ k = n => ops2[k] = [ops[k] EXCEPT !.kind = "jmp"]
  <2>1. CASE judges
    <3> DEFINE o == [ops EXCEPT ![n].kind = "jmp"]
    <3>1. o = [ops EXCEPT ![n] = [ops[n] EXCEPT !.kind = "jmp"]]
      OBVIOUS
    <3>2. [ops[n] EXCEPT !.kind = "jmp"] \in Ops
      BY <1>2 DEF Ops, Kinds
    <3>3. ops \in [1 .. Len(ops) -> Ops]
      BY <1>2
    <3>4. o \in [1 .. Len(ops) -> Ops]
      BY <3>1, <3>2, <3>3, <1>2
    <3>5. \A k \in 1 .. Len(ops) : (k # n => o[k] = ops[k])
                                   /\ (k = n => o[k] = [ops[k] EXCEPT !.kind = "jmp"])
      BY <3>1, <3>3
    <3> HIDE DEF o
    <3>6. o \in Seq(Ops) /\ Len(o) = Len(ops)
      BY <1>2, <3>4, FunctionIsSeq
    <3>7. ops2 = o
      BY <2>1 DEF o
    <3>8. QED
      BY <2>1, <3>5, <3>6, <3>7
  <2>2. CASE ~judges
    BY <2>2, <1>2
  <2>3. QED
    BY <2>1, <2>2
<1> HIDE DEF ops2
<1>5. ASSUME NEW k \in 1 .. n
      PROVE  /\ ops2[k].site = ops[k].site
             /\ reads(ops2[k]) <=> reads(ops[k]) /\ ~(judges /\ k = n)
             /\ ReadPos(ops2, tracePos, k) = ReadPos(ops, tracePos, k)
  <2>1. k \in 1 .. Len(ops) /\ ops[k] \in Ops
    BY <1>2
  <2>2. ops2[k].site = ops[k].site /\ (reads(ops2[k]) <=> reads(ops[k]) /\ ~(judges /\ k = n))
    BY <2>1, <1>4 DEF Ops, reads
  <2>3. ASSUME NEW j \in 1 .. k - 1 PROVE ops2[j] = ops[j]
    <3>1. j \in 1 .. Len(ops) /\ j # n
      BY <1>2
    <3>2. QED
      BY <3>1, <1>4
  <2>4. {j \in 1 .. k - 1 : reads(ops2[j])} = {j \in 1 .. k - 1 : reads(ops[j])}
    BY <2>3
  <2>5. QED
    BY <2>2, <2>4, Zenon DEF ReadPos
<1>6. /\ new \in Seq(Insn) /\ Len(new) = n
      /\ \A k \in 1 .. n :
           /\ new[k].op = ops2[k]
           /\ new[k].pos = IF reads(ops2[k]) THEN ReadPos(ops2, tracePos, k) ELSE 0
  <2>1. /\ scenario \in Scenarios /\ ops2 \in Seq(Ops) /\ tracePos \in Nat
        /\ n \in 1 .. Len(ops2) /\ hostID \in Nat /\ "core" \in {"core", "acc"}
    BY <1>2, <1>3, <1>4
  <2>2. AreNew(new, ops2, n, hostID, "core")
    BY <2>1, NewInsnsAre
  <2>3. \A k \in 1 .. n : new[k].pos = IF reads(ops2[k]) THEN ReadPos(ops2, tracePos, k) ELSE 0
    BY DEF NewInsns
  <2> HIDE DEF new
  <2>4. QED
    BY <2>2, <2>3, Zenon DEF AreNew
<1> HIDE DEF new
<1>7. /\ Len(insns') = L + n
      /\ \A k \in 1 .. L : insns'[k] = insns[k]
      /\ \A k \in 1 .. n : insns'[L + k] = new[k]
  <2>1. /\ Len(insns \o new) = Len(insns) + Len(new)
        /\ \A k \in 1 .. Len(insns) : (insns \o new)[k] = insns[k]
        /\ \A k \in 1 .. Len(new) : (insns \o new)[Len(insns) + k] = new[k]
    <3>1. insns \in Seq(Insn) /\ new \in Seq(Insn)
      BY <1>3, <1>6
    <3>2. QED
      BY <3>1, CatIs
  <2>2. QED
    BY <2>1, <1>1, <1>6
<1>8. ASSUME NEW k \in 1 .. n
      PROVE  /\ insns'[L + k].op.site = ops[k].site
             /\ insns'[L + k].pos = IF reads(ops[k]) /\ ~(judges /\ k = n)
                                    THEN ReadPos(ops, tracePos, k) ELSE 0
  BY <1>5, <1>6, <1>7
<1>9. QED
  BY <1>3, <1>7, <1>8 DEF TakesBlock, n

-----------------------------------------------------------------------------
(* Steps that fetch nothing and hand nothing over.                         *)

SameReads ==
  /\ Len(insns') = Len(insns)
  /\ \A i \in Ids : insns'[i].op = insns[i].op /\ insns'[i].pos = insns[i].pos
                    /\ insns'[i].dynID = insns[i].dynID

(* Such a step leaves what was read as it is.                              *)
LEMMA ReadsStay ==
  ASSUME SameReads, UNCHANGED scenario
  PROVE  /\ Ids' = Ids /\ Trace' = Trace /\ EndPos' = EndPos /\ Blocks' = Blocks
         /\ \A i \in Ids : Reads(i)' <=> Reads(i)
         /\ SitesAgree => SitesAgree'
<1>1. Ids' = Ids /\ Trace' = Trace /\ EndPos' = EndPos /\ Blocks' = Blocks
  BY DEF SameReads, Ids, Trace, EndPos, Blocks
<1>2. \A i \in Ids : Reads(i)' <=> Reads(i)
  BY <1>1 DEF SameReads, Reads
<1>3. SitesAgree => SitesAgree'
  BY <1>1, <1>2 DEF SameReads, SitesAgree
<1>4. QED
  BY <1>1, <1>2, <1>3

(* Such a step leaves the instructions that count as they are.             *)
LEMMA LiveStays ==
  ASSUME SameReads, UNCHANGED <<scenario, failed>>
  PROVE  /\ Live' = Live /\ Live \subseteq Ids
         /\ \A p : ReadsBefore(p)' <=> ReadsBefore(p)
         /\ ReadOnce => ReadOnce'
<1>1. Live' = Live /\ Live \subseteq Ids
  BY DEF SameReads, Live, Ids
<1>2. \A i \in Live : /\ Reads(i)' <=> Reads(i)
                      /\ insns'[i].pos = insns[i].pos /\ insns'[i].dynID = insns[i].dynID
  BY <1>1, ReadsStay DEF SameReads
<1>3. \A p : ReadsBefore(p)' <=> ReadsBefore(p)
  BY <1>1, <1>2 DEF ReadsBefore
<1>4. ReadOnce => ReadOnce'
  BY <1>1, <1>2 DEF ReadOnce
<1>5. QED
  BY <1>1, <1>3, <1>4

(* Such a step keeps the invariant.                                        *)
LEMMA QuietStep ==
  ASSUME IInv, StepInv, SameReads,
         UNCHANGED <<scenario, tracePos, targetBB, fetchForRet, returnStack, failure,
                     abnormalExit, hostBB, hostForRet, hostReturnStack, hostAbnormal, hostID,
                     rollback, switching, rollbackPos, offloadCall, offloading, failed>>
  PROVE  StepInv'
<1>1. /\ Ids' = Ids /\ EndPos' = EndPos /\ Blocks' = Blocks /\ SitesAgree'
      /\ \A i \in Ids : Reads(i)' <=> Reads(i)
  BY ReadsStay DEF StepInv
<1>2. /\ Live' = Live /\ Live \subseteq Ids /\ ReadOnce'
      /\ \A p : ReadsBefore(p)' <=> ReadsBefore(p)
  BY LiveStays DEF StepInv
<1>3. offloadCall # 0 => insns'[offloadCall].op = insns[offloadCall].op
  BY DEF IInv, HandOver, SameReads
<1>4. AccReads' = AccReads /\ HostReads' = HostReads
  BY DEF AccReads, HostReads
<1>5. ReaderAgrees'
  BY <1>1, <1>3, <1>4 DEF StepInv, ReaderAgrees, Known
<1>6. EndAgrees'
  BY DEF StepInv, EndAgrees
<1>7. OnceAgrees'
  BY <1>1, <1>2 DEF StepInv, OnceAgrees, SameReads, ReadsBefore
<1>8. QED
  BY <1>1, <1>2, <1>5, <1>6, <1>7, Zenon DEF StepInv

(* The length of a function that is a sequence.                            *)
LEMMA LenOfFunction ==
  ASSUME NEW n \in Nat, NEW f, DOMAIN f = 1 .. n, f = [i \in 1 .. n |-> f[i]]
  PROVE  Len(f) = n
<1>1. f \in Seq({f[i] : i \in 1 .. n})
  <2>1. f \in [1 .. n -> {f[i] : i \in 1 .. n}]
    OBVIOUS
  <2>2. QED
    BY <2>1, FunctionIsSeq
<1>2. DOMAIN f = 1 .. Len(f) /\ Len(f) \in Nat
  BY <1>1, LenProperties
<1>3. QED
  BY <1>2

(* Changing the status of instructions reads nothing.                      *)
LEMMA StatusReads ==
  ASSUME TypeOK, NEW X, NEW st,
         insns' = [i \in 1 .. Len(insns) |->
           IF i \in X THEN [insns[i] EXCEPT !.status = st] ELSE insns[i]]
  PROVE  SameReads
<1>1. /\ Len(insns) \in Nat /\ \A i \in Ids : insns[i] \in Insn
      /\ Ids = 1 .. Len(insns)
  BY LenProperties, ElementOfSeq DEF TypeOK, Ids
<1>2. \A i \in Ids : insns'[i].op = insns[i].op /\ insns'[i].pos = insns[i].pos
                     /\ insns'[i].dynID = insns[i].dynID
  BY <1>1 DEF Insn
<1>3. Len(insns') = Len(insns)
  BY <1>1, LenOfFunction
<1>4. QED
  BY <1>2, <1>3 DEF SameReads

(* The core retires.                                                       *)
LEMMA CommitKeeps ==
  ASSUME IInv, StepInv, Commit
  PROVE  StepInv'
<1> DEFINE S == {i \in ToSet(hostQ) : insns[i].status = "FINISHED"}  n == Leading(hostQ, S)
           X == ToSet(SubSeq(hostQ, 1, n))
<1>1. insns' = [i \in 1 .. Len(insns) |->
           IF i \in X THEN [insns[i] EXCEPT !.status = "COMMITED"] ELSE insns[i]]
  BY DEF Commit
<1> HIDE DEF X
<1>2. SameReads
  BY <1>1, StatusReads DEF IInv
<1>3. UNCHANGED <<scenario, tracePos, accVars, hostFetchVars, offloadCall, failed>>
  BY Zenon DEF Commit, GoTo
<1>4. QED
  BY <1>2, <1>3, QuietStep DEF accVars, fetchVars, hostFetchVars

(* Loads are answered and stores leave.                                    *)
LEMMA MemoryKeeps ==
  ASSUME IInv, StepInv, NEW S \in SUBSET (Waiting \union Stores), Memory(S)
  PROVE  StepInv'
<1> DEFINE X == S \intersect Waiting
<1>1. insns' = [i \in 1 .. Len(insns) |->
           IF i \in X THEN [insns[i] EXCEPT !.data = TRUE] ELSE insns[i]]
  BY DEF Memory
<1> HIDE DEF X
<1>2. /\ Len(insns) \in Nat /\ \A i \in Ids : insns[i] \in Insn
      /\ Ids = 1 .. Len(insns)
  BY LenProperties, ElementOfSeq DEF IInv, TypeOK, Ids
<1>3. ASSUME NEW i \in Ids
      PROVE  insns'[i].op = insns[i].op /\ insns'[i].pos = insns[i].pos
             /\ insns'[i].dynID = insns[i].dynID
  BY <1>1, <1>2 DEF Insn
<1>4. Len(insns') = Len(insns)
  BY <1>1, <1>2, LenOfFunction
<1>5. SameReads
  BY <1>3, <1>4 DEF SameReads
<1>6. UNCHANGED <<scenario, tracePos, accVars, hostFetchVars, offloadCall, failed>>
  BY Zenon DEF Memory, GoTo
<1>7. QED
  BY <1>5, <1>6, QuietStep DEF accVars, fetchVars, hostFetchVars

(* The core dispatches.                                                    *)
LEMMA DispatchKeeps ==
  ASSUME IInv, StepInv, Dispatch
  PROVE  StepInv'
<1> DEFINE S == {i \in ToSet(hostQ) : insns[i].status # "INIT"}
           n == Leading(hostQ, S)  i == hostQ[n + 1]
<1>1. \/ insns' = insns
      \/ insns' = [insns EXCEPT ![i].status = "ALLOCATED"]
  BY Zenon DEF Dispatch
<1> HIDE DEF i
<1>2. SameReads
  <2>1. CASE insns' = insns
    BY <2>1 DEF SameReads
  <2>2. CASE insns' = [insns EXCEPT ![i].status = "ALLOCATED"]
    <3> DEFINE X == {i}
    <3>1. insns' = [j \in 1 .. Len(insns) |->
             IF j \in X THEN [insns[j] EXCEPT !.status = "ALLOCATED"] ELSE insns[j]]
      <4>1. DOMAIN insns = 1 .. Len(insns) /\ insns \in [1 .. Len(insns) -> Insn]
        BY LenProperties, ElementOfSeq DEF IInv, TypeOK
      <4>2. QED
        BY <2>2, <4>1
    <3> HIDE DEF X
    <3>2. QED
      BY <3>1, StatusReads DEF IInv
  <2>3. QED
    BY <1>1, <2>1, <2>2
<1>3. UNCHANGED <<scenario, tracePos, accVars, hostFetchVars, offloadCall, failed>>
  BY Zenon DEF Dispatch, GoTo
<1>4. QED
  BY <1>2, <1>3, QuietStep DEF accVars, fetchVars, hostFetchVars

(* The accelerator retires.                                                *)
LEMMA RetireKeeps ==
  ASSUME IInv, StepInv, AccRetire
  PROVE  StepInv'
<1>1. SameReads
  <2>1. Retire /\ TypeOK /\ AccAgrees
    BY DEF AccRetire, IInv
  <2>2. QED
    BY <2>1, RetireEffect DEF SameReads
<1>2. UNCHANGED <<scenario, tracePos, fetchVars, offloading, hostFetchVars, offloadCall, failed>>
  BY Zenon DEF AccRetire, GoTo
<1>3. QED
  BY <1>1, <1>2, QuietStep DEF fetchVars, hostFetchVars

(* The accelerator considers an instruction of its reservation list.       *)
LEMMA IssueKeeps ==
  ASSUME IInv, StepInv, AccIssue
  PROVE  StepInv'
<1> DEFINE i == reservation[pos]
<1>1. Consider(pos) /\ pos \in 1 .. Len(reservation) /\ TypeOK /\ AccAgrees
  BY LenProperties DEF AccIssue, IInv, TypeOK, PassAgrees
<1>2. i \in Ids
  BY <1>1 DEF AccAgrees
<1>3. SameReads
  <2>1. CASE Allocates(i) /\ ~mayAllocate(i)
    <3>1. insns' = insns
      BY <1>1, <2>1, Zenon DEF Consider, Allocates
    <3>2. QED
      BY <3>1 DEF SameReads
  <2>2. CASE ~Allocates(i) \/ mayAllocate(i)
    <3>1. ConsiderEffect(i)
      BY <1>1, <1>2, <2>2, ConsiderHasEffect
    <3>2. QED
      BY <3>1 DEF ConsiderEffect, SameReads
  <2>3. QED
    BY <2>1, <2>2
<1>4. UNCHANGED <<scenario, tracePos, fetchVars, offloading, hostFetchVars, offloadCall, failed>>
  BY Zenon DEF AccIssue
<1>5. QED
  BY <1>3, <1>4, QuietStep DEF fetchVars, hostFetchVars

-----------------------------------------------------------------------------
(* Handing over.                                                           *)

(* The accelerator takes over where the call was fetched.                  *)
LEMMA StartKeeps ==
  ASSUME IInv, StepInv, SameReads, offloadCall # 0,
         targetBB' = insns[offloadCall].op.dest[1],
         offloading' = TRUE, failure' = FALSE, rollback' = FALSE, offloadCall' = 0,
         UNCHANGED <<scenario, tracePos, fetchForRet, returnStack, abnormalExit, hostBB,
                     hostForRet, hostReturnStack, hostAbnormal, hostID, switching,
                     rollbackPos, failed>>
  PROVE  StepInv'
<1>1. /\ Ids' = Ids /\ EndPos' = EndPos /\ Blocks' = Blocks /\ SitesAgree'
      /\ \A i \in Ids : Reads(i)' <=> Reads(i)
  BY ReadsStay DEF StepInv
<1>2. /\ Live' = Live /\ Live \subseteq Ids /\ ReadOnce'
      /\ \A p : ReadsBefore(p)' <=> ReadsBefore(p)
  BY LiveStays DEF StepInv
<1>3. ~offloading /\ targetBB' # NoBlock
  BY ProgramIs DEF IInv, TypeOK, HandOver
<1>4. ~fetchForRet /\ ~abnormalExit /\ returnStack = <<>>
  BY <1>3 DEF IInv, NothingLeftBehind, StepInv, EndAgrees
<1>5. AccReads' /\ ~HostReads'
  BY <1>3, <1>4 DEF AccReads, HostReads
<1>6. ReaderAgrees'
  BY <1>1, <1>4, <1>5 DEF StepInv, ReaderAgrees, Known
<1>7. EndAgrees'
  BY <1>4 DEF StepInv, EndAgrees
<1>8. OnceAgrees'
  <2>1. scenario.speculative => ReadsBefore(rollbackPos)
    BY DEF StepInv, OnceAgrees
  <2>2. scenario.speculative =>
          \A i \in Live' : Reads(i)' /\ insns'[i].dynID < hostID' => insns'[i].pos < rollbackPos'
    BY <1>1, <1>2, <2>1 DEF SameReads, ReadsBefore
  <2>3. QED
    BY <1>1, <1>2, <2>2 DEF StepInv, OnceAgrees
<1>9. QED
  BY <1>1, <1>2, <1>6, <1>7, <1>8, Zenon DEF StepInv

(* The core executes; with the offloaded call the accelerator takes over.  *)
LEMMA ExecuteKeeps ==
  ASSUME IInv, StepInv, NEW S \in SUBSET Dispatched, Execute(S)
  PROVE  StepInv'
<1>1. SameReads
  <2>1. insns' = [i \in 1 .. Len(insns) |->
           IF i \in S THEN [insns[i] EXCEPT !.status = "FINISHED"] ELSE insns[i]]
    BY Zenon DEF Execute
  <2>2. QED
    BY <2>1, StatusReads DEF IInv
<1>2. UNCHANGED <<scenario, tracePos, hostBB, hostForRet, hostReturnStack, hostID, hostAbnormal,
                  switching, rollbackPos, failed>>
  BY Zenon DEF Execute, GoTo
<1>3. CASE offloadCall \in S /\ ~hostOffloading
  <2>1. offloadCall # 0
    <3>1. offloadCall \in Ids
      BY <1>3, HostSet DEF IInv, Dispatched
    <3>2. QED
      BY <3>1 DEF Ids
  <2>2. /\ targetBB' = insns[offloadCall].op.dest[1]
        /\ offloading' = TRUE /\ failure' = FALSE /\ rollback' = FALSE /\ offloadCall' = 0
        /\ UNCHANGED <<fetchForRet, returnStack, abnormalExit>>
    BY <1>3, Zenon DEF Execute, switchContext
  <2>3. QED
    BY <1>1, <1>2, <2>1, <2>2, StartKeeps
<1>4. CASE ~(offloadCall \in S /\ ~hostOffloading)
  <2>1. UNCHANGED <<fetchVars, offloading, hostOffloading, rollback, offloadCall>>
    BY <1>4, Zenon DEF Execute
  <2>2. QED
    BY <1>1, <1>2, <2>1, QuietStep DEF fetchVars
<1>5. QED
  BY <1>3, <1>4

(* The core takes over again behind the call.                              *)
LEMMA EndKeeps ==
  ASSUME IInv, StepInv, AccEnd
  PROVE  StepInv'
<1>1. /\ UNCHANGED <<scenario, tracePos, insns, fetchVars, hostBB, hostReturnStack, rollbackPos,
                     offloadCall>>
      /\ stage = "accIssue"
  BY Zenon DEF AccEnd, GoTo
<1>2. SameReads
  BY <1>1 DEF SameReads
<1>3. CASE /\ isFinish /\ offloading /\ offloading' = FALSE
           /\ rollback' = failure /\ switching' = TRUE
           /\ hostAbnormal' = abnormalExit /\ hostForRet' = TRUE
           /\ failed' = IF failure
                        THEN failed \union {i \in 1 .. Len(insns) :
                               insns[i].hw = "acc" /\ insns[i].dynID >= hostID}
                        ELSE failed
  <2>1. /\ Ids' = Ids /\ EndPos' = EndPos /\ Blocks' = Blocks /\ SitesAgree'
        /\ \A i \in Ids : Reads(i)' <=> Reads(i)
    BY <1>2, <1>1, ReadsStay DEF StepInv
  <2>2. Live' \subseteq Live /\ Live \subseteq Ids
    BY <1>1, <1>3 DEF Live, Ids
  <2>3. NothingToFetch
    BY <1>1, <1>3 DEF IInv, TickAgrees
  <2>4. ~AccReads /\ ~AccReads' /\ offloadCall = 0
    BY <1>3, <2>3 DEF AccReads, NothingToFetch, IInv, HandOver
  <2>5. UNCHANGED <<tracePos, hostReturnStack, rollbackPos, offloadCall, abnormalExit>>
    BY <1>1 DEF fetchVars
  <2>6. ReaderAgrees'
    <3>1. HostReads' => ~abnormalExit
      BY <1>3 DEF HostReads
    <3>2. ~abnormalExit =>
            Known(scenario, Head(hostReturnStack), Tail(hostReturnStack), <<>>,
                  IF failure THEN "undone" ELSE "done", tracePos, rollbackPos)
      BY <1>3, <2>4 DEF StepInv, ReaderAgrees
    <3>3. QED
      BY <1>1, <1>3, <2>4, <2>5, <3>1, <3>2 DEF ReaderAgrees, Known
  <2>7. EndAgrees'
    BY <1>1, <1>3, <2>4, <2>5 DEF StepInv, EndAgrees, fetchVars
  <2>8. ReadOnce' /\ ReadsBefore(tracePos)'
    <3>1. ReadOnce'
      BY <1>1, <2>1, <2>2 DEF StepInv, ReadOnce
    <3>2. ReadsBefore(tracePos)'
      BY <1>1, <2>1, <2>2 DEF StepInv, OnceAgrees, ReadsBefore
    <3>3. QED
      BY <3>1, <3>2
  <2>9. scenario.speculative /\ failure => ReadsBefore(rollbackPos)'
    <3>1. SUFFICES ASSUME scenario.speculative, failure, NEW i \in Live', Reads(i)'
                   PROVE  insns'[i].pos < rollbackPos'
      BY DEF ReadsBefore
    <3>2. i \in Live /\ i \in Ids /\ Reads(i) /\ insns'[i].pos = insns[i].pos
      BY <1>1, <2>1, <2>2, <3>1
    <3>3. ~(IsAcc(i) /\ insns[i].dynID >= hostID)
      BY <1>1, <1>3, <3>1, <3>2 DEF Live, IsAcc, Ids
    <3>4. /\ insns[i].dynID >= hostID => IsAcc(i)
          /\ insns[i].dynID < hostID => insns[i].pos < rollbackPos
      BY <1>3, <3>1, <3>2 DEF IInv, NumbersAgree, StepInv, OnceAgrees
    <3>5. insns[i].dynID \in Nat /\ hostID \in Nat
      <4>1. insns \in Seq(Insn) /\ i \in 1 .. Len(insns) /\ hostID \in Nat
        BY <3>2 DEF IInv, TypeOK, Ids
      <4>2. insns[i] \in Insn
        BY <4>1, ElementOfSeq
      <4>3. QED
        BY <4>1, <4>2 DEF Insn
    <3>6. QED
      BY <2>5, <3>2, <3>3, <3>4, <3>5
  <2>10. OnceAgrees'
    BY <1>1, <1>3, <2>1, <2>4, <2>5, <2>8, <2>9 DEF StepInv, OnceAgrees
  <2>11. QED
    BY <2>1, <2>6, <2>7, <2>8, <2>10, Zenon DEF StepInv
<1>4. CASE UNCHANGED <<offloading, hostID, rollback, switching, hostAbnormal, hostForRet, failed>>
  BY <1>1, <1>2, <1>4, QuietStep DEF fetchVars
<1>5. QED
  BY <1>3, <1>4, Zenon DEF AccEnd

(* In the beginning the core is about to fetch what the reader is about to *)
(* execute.                                                                *)
LEMMA InitKeeps ==
  ASSUME Init
  PROVE  StepInv
<1>1. /\ scenario \in Scenarios /\ tracePos = 1 /\ insns = <<>>
      /\ offloading = FALSE /\ failure = FALSE /\ abnormalExit = FALSE
      /\ hostBB = "main" /\ hostForRet = FALSE /\ hostReturnStack = <<>>
      /\ offloadCall = 0 /\ rollback = FALSE /\ switching = FALSE /\ rollbackPos = 1
  BY DEF Init, AccInit
<1>2. Ids = {} /\ Live = {} /\ EndPos \in Nat /\ 1 \in 1 .. EndPos + 1
  <2>1. Len(insns) = 0
    BY <1>1
  <2>2. EndPos \in Nat \ {0}
    BY <1>1, ProgramIs, LenProperties DEF EndPos
  <2>3. QED
    BY <2>1, <2>2 DEF Ids, Live
<1>3. Start(scenario) \in Readings[scenario]
  BY <1>1, RecordedIs
<1>4. Start(scenario) = At(Blocks["main"], <<>>, <<>>, "core", 1, 1)
  BY DEF Start, Blocks
<1>5. At(Blocks["main"], <<>>, <<>>, "core", 1, 1).back = 1
      /\ At(Blocks["main"], <<>>, <<>>, "core", 1, 1).mode = "core"
  BY DEF At
<1>6. Known(scenario, Blocks["main"], <<>>, <<>>, "core", 1, 1)
  BY <1>3, <1>4, <1>5 DEF Known
<1>7. ReaderAgrees
  BY <1>1, <1>6 DEF ReaderAgrees, AccReads
<1>8. EndAgrees
  BY <1>1 DEF EndAgrees
<1>9. OnceAgrees /\ SitesAgree /\ ReadOnce
  BY <1>1, <1>2 DEF OnceAgrees, ReadsBefore, SitesAgree, ReadOnce
<1>10. QED
  BY <1>7, <1>8, <1>9 DEF StepInv

-----------------------------------------------------------------------------
(* Fetching a block.                                                       *)

(* Where the reader goes on behind the instruction that stops a fetch.     *)
Leads(ops, stack, caller, mode, back) ==
  LET n == Fetched(ops, tracePos)
      q == ReadPos(ops, tracePos, n)
      stop == ops[n]
      left == SubSeq(ops, n + 1, Len(ops))
      judges == scenario.speculative /\ mode \in {"done", "undone"}
      b == stop.dest[IF IF judges THEN mode = "done" ELSE Trace[q].val THEN 1 ELSE 2]
  IN
  /\ stop.kind = "jmp" =>
       At(Blocks[stop.dest[1]], stack, caller, InBlock(stop.dest[1], mode), back, q)
         \in Readings[scenario]
  /\ stop.kind = "call" /\ q <= EndPos =>
       At(Blocks[stop.dest[1]], <<left>> \o stack, caller, mode, back, q)
         \in Readings[scenario]
  /\ stop.kind = "offload" /\ q <= EndPos =>
       At(Blocks[stop.dest[1]], <<>>, <<left>> \o stack, "running", q, q)
         \in Readings[scenario]
  /\ stop.kind = "ret" /\ stack # <<>> =>
       At(Head(stack), Tail(stack), caller, mode, back, q) \in Readings[scenario]
  /\ stop.kind = "ret" /\ stack = <<>> /\ mode \in {"running", "failing"} =>
       At(Head(caller), Tail(caller), <<>>,
          IF mode = "running" THEN "done" ELSE "undone", back, q) \in Readings[scenario]
  /\ stop.kind = "br" /\ ~judges /\ q < EndPos =>
       At(Blocks[b], stack, caller,
          IF mode \in {"running", "failing"} THEN InBlock(b, mode) ELSE "core",
          back, q + 1) \in Readings[scenario]
  /\ stop.kind = "br" /\ judges /\ q <= EndPos =>
       At(Blocks[b], stack, caller, "core", back,
          IF mode = "done" THEN q ELSE back) \in Readings[scenario]

(* What stops a fetch, and the position behind it.                         *)
LEMMA StopIs ==
  ASSUME scenario \in Scenarios, NEW ops, NEW names, IsCode(ops, names),
         tracePos \in 1 .. EndPos + 1, NEW n, n = Fetched(ops, tracePos),
         NEW q, q = ReadPos(ops, tracePos, n)
  PROVE  /\ n \in 1 .. Len(ops) /\ EndPos \in Nat /\ q \in Nat /\ q \in tracePos .. EndPos + 1
         /\ ops[n].kind \in Kinds /\ Stops(ops, tracePos, n)
         /\ ReadPos(ops, tracePos, n + 1) = IF reads(ops[n]) /\ q <= EndPos THEN q + 1 ELSE q
         /\ at_end(q) <=> ~(q <= EndPos)
<1>1. /\ ops \in Seq(Ops) /\ Len(ops) \in Nat /\ n \in 1 .. Len(ops) /\ Stops(ops, tracePos, n)
      /\ ops[n].kind \in Kinds
  BY CodeIs, FetchedIs DEF Ops
<1>2. n \in Nat \ {0}
  BY <1>1
<1>3. /\ EndPos \in Nat /\ q \in tracePos .. EndPos + 1
      /\ ReadPos(ops, tracePos, n + 1) = IF reads(ops[n]) /\ q <= EndPos THEN q + 1 ELSE q
  BY <1>2, ReadPosGrows
<1>4. q \in Nat /\ (at_end(q) <=> ~(q <= EndPos))
  BY <1>3 DEF at_end
<1>5. QED
  BY <1>1, <1>3, <1>4

(* The reader who is at the beginning of a block goes on behind what stops *)
(* the fetch.                                                              *)
LEMMA LeadsTo ==
  ASSUME scenario \in Scenarios, NEW ops, NEW names, IsCode(ops, names),
         tracePos \in 1 .. EndPos + 1, NEW stack, NEW caller, NEW mode, NEW back,
         At(ops, stack, caller, mode, back, tracePos) \in Readings[scenario]
  PROVE  Leads(ops, stack, caller, mode, back)
<1> DEFINE n == Fetched(ops, tracePos)
           q == ReadPos(ops, tracePos, n)
           stop == ops[n]
           left == SubSeq(ops, n + 1, Len(ops))
           judges == scenario.speculative /\ mode \in {"done", "undone"}
           b == stop.dest[IF IF judges THEN mode = "done" ELSE Trace[q].val THEN 1 ELSE 2]
           code == SubSeq(ops, n, Len(ops))
<1>1. ops \in Seq(Ops) /\ n \in 1 .. Len(ops) /\ q \in Nat
  BY CodeIs, StopIs
<1>2. At(code, stack, caller, mode, back, q) \in Readings[scenario]
  <2>1. n \in 1 .. Fetched(ops, tracePos)
    BY <1>1
  <2>2. QED
    BY <2>1, Walk
<1>3. stop = Head(code) /\ Tail(code) = left
  BY <1>1, RestOf
<1> HIDE DEF code, n, q, left, judges, b
<1>4. /\ stop.kind = "jmp" =>
           At(Blocks[stop.dest[1]], stack, caller, InBlock(stop.dest[1], mode), back, q)
             \in Readings[scenario]
      /\ stop.kind = "call" /\ q <= EndPos =>
           At(Blocks[stop.dest[1]], <<left>> \o stack, caller, mode, back, q)
             \in Readings[scenario]
      /\ stop.kind = "offload" /\ q <= EndPos =>
           At(Blocks[stop.dest[1]], <<>>, <<left>> \o stack, "running", q, q)
             \in Readings[scenario]
      /\ stop.kind = "ret" /\ stack # <<>> =>
           At(Head(stack), Tail(stack), caller, mode, back, q) \in Readings[scenario]
      /\ stop.kind = "ret" /\ stack = <<>> /\ mode \in {"running", "failing"} =>
           At(Head(caller), Tail(caller), <<>>,
              IF mode = "running" THEN "done" ELSE "undone", back, q) \in Readings[scenario]
  BY <1>1, <1>2, <1>3, TurnsTo
<1>5. stop.kind = "br" =>
      /\ ~judges /\ q < EndPos =>
           At(Blocks[b], stack, caller,
              IF mode \in {"running", "failing"} THEN InBlock(b, mode) ELSE "core",
              back, q + 1) \in Readings[scenario]
      /\ judges /\ q <= EndPos =>
           At(Blocks[b], stack, caller, "core", back,
              IF mode = "done" THEN q ELSE back) \in Readings[scenario]
  <2>1. /\ judges = (scenario.speculative /\ mode \in {"done", "undone"})
        /\ b = stop.dest[IF IF judges THEN mode = "done" ELSE Trace[q].val THEN 1 ELSE 2]
    BY DEF judges, b
  <2>2. stop = Head(code)
    BY <1>3
  <2> HIDE DEF stop
  <2>3. SUFFICES ASSUME stop.kind = "br"
                 PROVE  /\ ~judges /\ q < EndPos =>
                             At(Blocks[b], stack, caller,
                                IF mode \in {"running", "failing"} THEN InBlock(b, mode)
                                ELSE "core",
                                back, q + 1) \in Readings[scenario]
                        /\ judges /\ q <= EndPos =>
                             At(Blocks[b], stack, caller, "core", back,
                                IF mode = "done" THEN q ELSE back) \in Readings[scenario]
    OBVIOUS
  <2>4. QED
    BY <1>1, <1>2, <2>1, <2>2, <2>3, BranchesTo
<1>6. QED
  BY <1>4, <1>5 DEF Leads, n, q, left, judges, b

(* A state of the reader is known whatever position he remembers, if it    *)
(* does not matter.                                                        *)
LEMMA KnownIs ==
  ASSUME NEW s, NEW code, NEW stack, NEW caller, NEW mode, NEW p, NEW back, NEW to,
         At(code, stack, caller, mode, back, p) \in Readings[s],
         s.speculative /\ mode # "core" => back = to
  PROVE  Known(s, code, stack, caller, mode, p, to)
<1> DEFINE r == At(code, stack, caller, mode, back, p)
<1>1. r.back = back /\ r.mode = mode
  BY DEF At
<1>2. r = At(code, stack, caller, mode, r.back, p)
  BY <1>1
<1> HIDE DEF r
<1>3. r \in Readings[s]
  BY DEF r
<1>4. QED
  BY <1>1, <1>2, <1>3 DEF Known

(* What is known is a state of the reader with some position to go back    *)
(* to.                                                                     *)
LEMMA KnownAs ==
  ASSUME NEW s, NEW code, NEW stack, NEW caller, NEW mode, NEW p, NEW to,
         Known(s, code, stack, caller, mode, p, to)
  PROVE  \E back : /\ At(code, stack, caller, mode, back, p) \in Readings[s]
                   /\ s.speculative /\ mode # "core" => back = to
<1>1. PICK r \in Readings[s] :
         /\ r = At(code, stack, caller, mode, r.back, p)
         /\ s.speculative /\ mode # "core" => r.back = to
  BY DEF Known
<1>2. QED
  BY <1>1

(* A block that the accelerator fetches leads to where the reader goes.    *)
LEMMA AccReaderStep ==
  ASSUME scenario \in Scenarios, tracePos \in 1 .. EndPos + 1, offloading, offloadCall = 0,
         failure \in BOOLEAN,
         NEW ops, AccCode(ops), FetchBlock(ops), NEW rest, returnStack' = Push(ops, rest),
         Known(scenario, ops, rest, hostReturnStack,
               IF failure THEN "failing" ELSE "running", tracePos, rollbackPos),
         UNCHANGED <<scenario, offloading, hostReturnStack, rollbackPos, offloadCall>>
  PROVE  ReaderAgrees'
<1> DEFINE n == Fetched(ops, tracePos)  q == ReadPos(ops, tracePos, n)  stop == ops[n]
           left == SubSeq(ops, n + 1, Len(ops))
           mode == IF failure THEN "failing" ELSE "running"
           abnormal == reads(stop) /\ at_end(q)
           branch == stop.kind \in {"br", "jmp"} /\ ~abnormal
           b == stop.dest[IF Trace[q].val THEN 1 ELSE 2]
           next == IF stop.kind = "jmp" THEN stop.dest[1]
                   ELSE IF Condition(q) THEN stop.dest[1] ELSE stop.dest[2]
           p2 == ReadPos(ops, tracePos, n + 1)
<1>1. PICK back : /\ At(ops, rest, hostReturnStack, mode, back, tracePos) \in Readings[scenario]
                  /\ scenario.speculative => back = rollbackPos
  <2>1. mode # "core"
    OBVIOUS
  <2>2. QED
    BY <2>1, KnownAs
<1>2. IsCode(ops, AccNames) /\ \A k \in DOMAIN ops : ops[k].kind # "offload"
  BY DEF AccCode
<1>3. /\ branch => ~at_end(p2)
      /\ tracePos' = p2
      /\ abnormalExit' = (abnormalExit \/ abnormal)
      /\ failure' = (failure \/ (branch /\ next = "ret.fail"))
      /\ fetchForRet' = (stop.kind = "ret")
      /\ targetBB' = IF abnormalExit' THEN NoBlock
                     ELSE IF branch THEN next
                     ELSE IF stop.kind = "call" THEN stop.dest[1]
                     ELSE NoBlock
  BY Zenon DEF FetchBlock
<1>4. returnStack' = IF stop.kind = "call" THEN <<left>> \o rest ELSE rest
  BY Zenon DEF Push
<1>5. /\ stop.kind = "jmp" =>
           At(Blocks[stop.dest[1]], rest, hostReturnStack, InBlock(stop.dest[1], mode), back, q)
             \in Readings[scenario]
      /\ stop.kind = "call" /\ q <= EndPos =>
           At(Blocks[stop.dest[1]], <<left>> \o rest, hostReturnStack, mode, back, q)
             \in Readings[scenario]
      /\ stop.kind = "ret" /\ rest # <<>> =>
           At(Head(rest), Tail(rest), hostReturnStack, mode, back, q) \in Readings[scenario]
      /\ stop.kind = "ret" /\ rest = <<>> =>
           At(Head(hostReturnStack), Tail(hostReturnStack), <<>>,
              IF failure THEN "undone" ELSE "done", back, q) \in Readings[scenario]
      /\ stop.kind = "br" /\ q < EndPos =>
           At(Blocks[b], rest, hostReturnStack, InBlock(b, mode), back, q + 1)
             \in Readings[scenario]
  <2>1. Leads(ops, rest, hostReturnStack, mode, back)
    BY <1>1, <1>2, LeadsTo
  <2>2. /\ mode \in {"running", "failing"} /\ ~(mode \in {"done", "undone"})
        /\ (IF mode = "running" THEN "done" ELSE "undone") = IF failure THEN "undone" ELSE "done"
    OBVIOUS
  <2> HIDE DEF mode
  <2>3. QED
    BY <2>1, <2>2 DEF Leads
<1>6. /\ n \in 1 .. Len(ops) /\ EndPos \in Nat /\ q \in Nat
      /\ stop.kind \in Kinds /\ Stops(ops, tracePos, n)
      /\ p2 = IF reads(stop) /\ q <= EndPos THEN q + 1 ELSE q
      /\ at_end(q) <=> ~(q <= EndPos)
  BY <1>2, StopIs
<1>7. /\ stop.kind \in {"br", "jmp", "call"} => stop.dest[1] \in AccNames
      /\ stop.kind = "br" => stop.dest[2] \in AccNames
      /\ stop.kind # "offload" /\ NoBlock \notin AccNames
  <2>1. n \in DOMAIN ops
    BY <1>2, <1>6, CodeIs
  <2>2. QED
    BY <1>2, <1>6, <2>1, DestIs, ProgramIs
<1>8. Blocks' = Blocks
  BY DEF Blocks
<1> HIDE DEF n, q, left, p2
<1>9. CASE stop.kind = "ret"
  <2>1. /\ fetchForRet' = TRUE /\ returnStack' = rest /\ failure' = failure /\ p2 = q
        /\ tracePos' = q
    BY <1>3, <1>4, <1>6, <1>9 DEF reads
  <2>2. rest # <<>> => Known(scenario, Head(rest), Tail(rest), hostReturnStack, mode, q, rollbackPos)
    BY <1>1, <1>5, <1>9, KnownIs
  <2>3. rest = <<>> => Known(scenario, Head(hostReturnStack), Tail(hostReturnStack), <<>>,
                             IF failure THEN "undone" ELSE "done", q, rollbackPos)
    BY <1>1, <1>5, <1>9, KnownIs
  <2>4. QED
    BY <2>1, <2>2, <2>3 DEF ReaderAgrees, AccReads, HostReads, Known
<1>10. CASE stop.kind # "ret" /\ abnormalExit'
  <2>1. ~fetchForRet' /\ targetBB' = NoBlock
    BY <1>3, <1>10
  <2>2. QED
    BY <2>1, <1>10 DEF ReaderAgrees, AccReads, HostReads
<1>11. CASE stop.kind \in {"br", "jmp"} /\ ~abnormalExit'
  <2>1. /\ ~fetchForRet' /\ branch /\ targetBB' = next /\ returnStack' = rest
        /\ failure' = (failure \/ next = "ret.fail") /\ next \in AccNames
    BY <1>3, <1>4, <1>7, <1>11
  <2>2. Known(scenario, Blocks[next], rest, hostReturnStack, InBlock(next, mode), p2, rollbackPos)
    <3>1. CASE stop.kind = "jmp"
      <4>1. next = stop.dest[1] /\ p2 = q
        BY <1>6, <3>1 DEF reads
      <4> HIDE DEF next, mode
      <4>2. QED
        BY <3>1, <4>1, <1>1, <1>5, KnownIs
    <3>2. CASE stop.kind = "br"
      <4>1. q < EndPos /\ p2 = q + 1
        <5>1. reads(stop)
          BY <3>2 DEF reads
        <5>2. q <= EndPos /\ p2 = q + 1
          BY <2>1, <1>6, <5>1
        <5>3. ~(p2 > EndPos)
          BY <1>3, <2>1 DEF at_end
        <5>4. QED
          BY <1>6, <5>2, <5>3
      <4>2. next = b
        BY <3>2, <4>1 DEF Condition
      <4> HIDE DEF next, mode, b
      <4>3. QED
        BY <3>2, <4>1, <4>2, <1>1, <1>5, KnownIs
    <3>3. QED
      BY <1>11, <3>1, <3>2
  <2>3. InBlock(next, mode) = IF failure' THEN "failing" ELSE "running"
    BY <2>1 DEF InBlock
  <2> HIDE DEF next, mode
  <2>4. Known(scenario, Blocks[next], rest, hostReturnStack,
              IF failure' THEN "failing" ELSE "running", p2, rollbackPos)
    BY <2>2, <2>3
  <2>5. next # NoBlock
    BY <2>1, <1>7
  <2>6. AccReads' /\ ~HostReads' /\ offloadCall' = 0
    BY <2>1, <2>5 DEF AccReads, HostReads
  <2>7. Known(scenario, Blocks[targetBB], returnStack, hostReturnStack,
              IF failure THEN "failing" ELSE "running", tracePos, rollbackPos)'
    BY <2>1, <2>4, <1>3, <1>8 DEF Known
  <2>8. QED
    BY <2>1, <2>6, <2>7 DEF ReaderAgrees
<1>12. CASE stop.kind = "call" /\ ~abnormalExit'
  <2>1. ~at_end(q)
    BY <1>6, <1>12 DEF Stops, q, reads
  <2>2. /\ ~fetchForRet' /\ targetBB' = stop.dest[1] /\ returnStack' = <<left>> \o rest
        /\ failure' = failure /\ stop.dest[1] \in AccNames /\ p2 = q
    BY <1>3, <1>4, <1>6, <1>7, <1>12 DEF reads
  <2>3. Known(scenario, Blocks[stop.dest[1]], <<left>> \o rest, hostReturnStack, mode, q, rollbackPos)
    BY <2>1, <1>1, <1>5, <1>6, <1>12, KnownIs
  <2>4. stop.dest[1] # NoBlock
    BY <2>2, <1>7
  <2> HIDE DEF stop
  <2>5. AccReads' /\ ~HostReads' /\ offloadCall' = 0
    BY <2>2, <2>4 DEF AccReads, HostReads
  <2>6. Known(scenario, Blocks[targetBB], returnStack, hostReturnStack,
              IF failure THEN "failing" ELSE "running", tracePos, rollbackPos)'
    <3>1. /\ scenario' = scenario /\ hostReturnStack' = hostReturnStack
          /\ rollbackPos' = rollbackPos /\ tracePos' = q
      BY <2>2, <1>3
    <3>2. QED
      BY <2>2, <2>3, <3>1, <1>8, Zenon DEF Known
  <2>7. QED
    BY <2>2, <2>5, <2>6 DEF ReaderAgrees
<1>13. stop.kind \in {"ret", "br", "jmp", "call"} \/ abnormalExit'
  BY <1>3, <1>6, <1>7 DEF Stops, q, stop
<1>14. QED
  BY <1>9, <1>10, <1>11, <1>12, <1>13

(* The accelerator fetches a block.                                        *)
LEMMA AccBlockKeeps ==
  ASSUME IInv, StepInv, offloading, NEW ops, AccCode(ops), FetchBlock(ops), NEW rest,
         returnStack' = Push(ops, rest),
         Known(scenario, ops, rest, hostReturnStack,
               IF failure THEN "failing" ELSE "running", tracePos, rollbackPos),
         UNCHANGED <<scenario, offloading, hostFetchVars, offloadCall, failed>>
  PROVE  StepInv'
<1> DEFINE n == Fetched(ops, tracePos)  L == Len(insns)
           mode == IF failure THEN "failing" ELSE "running"
<1>1. /\ TypeOK /\ tracePos \in 1 .. EndPos + 1 /\ scenario \in Scenarios
      /\ rollbackPos \in 1 .. EndPos + 1 /\ failure \in BOOLEAN /\ offloadCall = 0
      /\ IsCode(ops, AccNames)
  BY DEF IInv, TypeOK, HandOver, StepInv, OnceAgrees, EndAgrees, AccCode
<1>2. UNCHANGED <<hostReturnStack, hostAbnormal, hostID, rollback, switching, rollbackPos>>
  BY DEF hostFetchVars
<1>3. FetchEffect(ops)
  BY FetchHasEffect DEF IInv
<1>4. TakesBlock(ops, FALSE)
  BY <1>1, <1>3, AccTakes
<1>5. ReaderAgrees'
  BY <1>1, <1>2, AccReaderStep
<1>6. SitesAgree'
  <2>1. PICK back : At(ops, rest, hostReturnStack, mode, back, tracePos) \in Readings[scenario]
    BY KnownAs
  <2>2. Judging(ops, mode) = FALSE
    BY DEF Judging
  <2> HIDE DEF mode
  <2>3. TakesBlock(ops, Judging(ops, mode))
    BY <2>2, <1>4
  <2>4. QED
    BY <2>1, <2>3, <1>1, SitesStep DEF StepInv
<1>7. ReadOnce' /\ \A i \in Live' : Reads(i)' => insns'[i].pos < ReadPos(ops, tracePos, n + 1)
  BY <1>1, <1>4, OnceStep DEF StepInv, OnceAgrees
<1>8. tracePos' = ReadPos(ops, tracePos, n + 1) /\ EndPos' = EndPos /\ failure' \in BOOLEAN
  <2>1. tracePos' = ReadPos(ops, tracePos, n + 1)
    BY Zenon DEF FetchBlock
  <2>2. \E x : failure' = (failure \/ x) /\ x \in BOOLEAN
    BY DEF FetchBlock
  <2>3. EndPos' = EndPos
    BY DEF EndPos, Trace
  <2>4. QED
    BY <2>1, <2>2, <2>3, <1>1
<1>9. tracePos' \in 1 .. EndPos + 1 /\ ReadsBefore(tracePos)'
  <2>1. /\ n \in 1 .. Len(ops) /\ EndPos \in Nat
        /\ ReadPos(ops, tracePos, n) \in tracePos .. EndPos + 1
        /\ \/ ReadPos(ops, tracePos, n + 1) = ReadPos(ops, tracePos, n)
           \/ /\ ReadPos(ops, tracePos, n) <= EndPos
              /\ ReadPos(ops, tracePos, n + 1) = ReadPos(ops, tracePos, n) + 1
    BY <1>1, StopIs
  <2>2. tracePos' \in 1 .. EndPos + 1
    BY <2>1, <1>1, <1>8
  <2>3. QED
    BY <2>2, <1>7, <1>8 DEF ReadsBefore
<1>10. scenario.speculative =>
         \A i \in Live' : Reads(i)' /\ insns'[i].dynID < hostID => insns'[i].pos < rollbackPos
  <2>1. SUFFICES ASSUME scenario.speculative, NEW i \in Live', Reads(i)', insns'[i].dynID < hostID
                 PROVE  insns'[i].pos < rollbackPos
    OBVIOUS
  <2>2. i \in Ids' /\ i \notin failed
    BY <1>4 DEF Live, Ids, TakesBlock
  <2>3. CASE i \in Ids
    <3>1. insns'[i] = insns[i] /\ i \in Live
      BY <2>2, <2>3, <1>4 DEF TakesBlock, Live, Ids
    <3>2. Reads(i)
      BY <2>1, <3>1 DEF Reads, Trace
    <3>3. QED
      BY <2>1, <3>1, <3>2 DEF StepInv, OnceAgrees
  <2>4. CASE \E k \in 1 .. n : i = L + k
    <3>1. PICK k \in 1 .. n : i = L + k
      BY <2>4
    <3>2. insns'[i].dynID = globalDynID + k - 1
      BY <3>1, <1>3 DEF FetchEffect, Taken
    <3>3. k \in Nat \ {0}
      BY <1>1, StopIs
    <3>4. hostID \in Nat /\ globalDynID \in Nat /\ hostID <= globalDynID
      BY <1>1 DEF IInv, NumbersAgree, TypeOK
    <3>5. QED
      BY <2>1, <3>2, <3>3, <3>4
  <2>5. QED
    BY <2>2, <2>3, <2>4, <1>1, <1>4, NewIds
<1>11. OnceAgrees'
  BY <1>1, <1>2, <1>8, <1>9, <1>10 DEF OnceAgrees
<1>12. EndAgrees'
  BY <1>1, <1>2, <1>8 DEF StepInv, EndAgrees
<1>13. QED
  BY <1>5, <1>6, <1>7, <1>11, <1>12, Zenon DEF StepInv

(* The accelerator fetches.                                                *)
LEMMA AccFetchKeeps ==
  ASSUME IInv, StepInv, AccFetch
  PROVE  StepInv'
<1>1. UNCHANGED <<scenario, offloading, hostFetchVars, offloadCall, failed>>
  BY Zenon DEF AccFetch, GoTo
<1>2. fetch /\ NothingLeftBehind /\ ReaderAgrees
  BY DEF AccFetch, IInv, StepInv
<1>3. CASE /\ fetchForRet /\ returnStack # <<>> /\ FetchBlock(Head(returnStack))
           /\ returnStack' = Push(Head(returnStack), Tail(returnStack))
  <2> DEFINE top == Head(returnStack)  rest == Tail(returnStack)
  <2>1. offloading /\ AccReads
    BY <1>2, <1>3 DEF NothingLeftBehind, AccReads
  <2>2. AccCode(top)
    <3>1. returnStack \in Seq(Seq(Ops)) /\ \A k \in 1 .. Len(returnStack) : AccCode(returnStack[k])
      BY DEF IInv, CodeAgrees
    <3>2. 1 \in 1 .. Len(returnStack) /\ top = returnStack[1]
      BY <3>1, <1>3, HeadTailIs
    <3>3. QED
      BY <3>1, <3>2
  <2>3. Known(scenario, top, rest, hostReturnStack,
              IF failure THEN "failing" ELSE "running", tracePos, rollbackPos)
    BY <2>1, <1>2, <1>3 DEF ReaderAgrees, Known
  <2>4. FetchBlock(top) /\ returnStack' = Push(top, rest)
    BY <1>3
  <2> HIDE DEF top, rest
  <2>5. QED
    BY <2>1, <2>2, <2>3, <2>4, <1>1, AccBlockKeeps
<1>4. CASE /\ ~fetchForRet /\ targetBB # NoBlock /\ FetchBlock(Blocks[targetBB])
           /\ returnStack' = Push(Blocks[targetBB], returnStack)
  <2> DEFINE ops == Blocks[targetBB]
  <2>1. offloading /\ AccReads
    BY <1>2, <1>4 DEF NothingLeftBehind, AccReads
  <2>2. AccCode(ops)
    BY <1>4, ProgramIs DEF IInv, CodeAgrees, TypeOK
  <2>3. Known(scenario, ops, returnStack, hostReturnStack,
              IF failure THEN "failing" ELSE "running", tracePos, rollbackPos)
    BY <2>1, <1>2, <1>4 DEF ReaderAgrees, Known
  <2>4. FetchBlock(ops) /\ returnStack' = Push(ops, returnStack)
    BY <1>4
  <2> HIDE DEF ops
  <2>5. QED
    BY <2>1, <2>2, <2>3, <2>4, <1>1, AccBlockKeeps
<1>5. CASE /\ \/ /\ IF fetchForRet THEN returnStack = <<>> ELSE targetBB = NoBlock
                 /\ fetchForRet' = FALSE /\ targetBB' = NoBlock
              \/ fetchForRet' = fetchForRet /\ targetBB' = targetBB
           /\ UNCHANGED <<insns, tracePos, abnormalExit, failure, returnStack>>
  <2>1. SameReads
    BY <1>5 DEF SameReads
  <2>2. UNCHANGED <<hostBB, hostForRet, hostReturnStack, hostAbnormal, hostID, rollback,
                    switching, rollbackPos>>
    BY <1>1 DEF hostFetchVars
  <2>3. CASE fetchForRet' = fetchForRet /\ targetBB' = targetBB
    BY <2>1, <2>2, <2>3, <1>1, <1>5, QuietStep
  <2>4. CASE /\ IF fetchForRet THEN returnStack = <<>> ELSE targetBB = NoBlock
             /\ fetchForRet' = FALSE /\ targetBB' = NoBlock
    <3>1. /\ Ids' = Ids /\ EndPos' = EndPos /\ Blocks' = Blocks /\ SitesAgree'
          /\ \A i \in Ids : Reads(i)' <=> Reads(i)
      BY <2>1, <1>1, ReadsStay DEF StepInv
    <3>2. /\ Live' = Live /\ Live \subseteq Ids /\ ReadOnce'
          /\ \A p : ReadsBefore(p)' <=> ReadsBefore(p)
      BY <2>1, <1>1, LiveStays DEF StepInv
    <3>3. ~AccReads /\ ~AccReads' /\ HostReads' = HostReads
      BY <2>2, <2>4, <1>1 DEF AccReads, HostReads
    <3>4. ReaderAgrees'
      BY <3>1, <3>3, <2>2, <1>1, <1>2, <1>5 DEF ReaderAgrees, Known
    <3>5. EndAgrees'
      BY <2>2, <1>1, <1>5 DEF StepInv, EndAgrees
    <3>6. OnceAgrees'
      BY <3>1, <3>2, <2>2, <1>1, <1>5 DEF StepInv, OnceAgrees
    <3>7. QED
      BY <3>1, <3>2, <3>4, <3>5, <3>6, Zenon DEF StepInv
  <2>5. QED
    BY <1>5, <2>3, <2>4
<1>6. QED
  BY <1>2, <1>3, <1>4, <1>5, Zenon DEF fetch, fetchVars

(* Behind a speculative run nothing is called and nothing read.            *)
HostMode == IF ~switching THEN "core" ELSE IF rollback THEN "undone" ELSE "done"

(* Up to the branch that judges a run, a block holds neither calls nor     *)
(* reads.                                                                  *)
LEMMA NothingBetween ==
  ASSUME scenario \in Scenarios, tracePos \in 1 .. EndPos + 1, NEW ops, NEW names,
         IsCode(ops, names), NEW stack, NEW caller, NEW mode, NEW back,
         At(ops, stack, caller, mode, back, tracePos) \in Readings[scenario],
         scenario.speculative, mode \in {"done", "undone"}
  PROVE  \A k \in 1 .. Fetched(ops, tracePos) : ops[k].kind \in {"op", "phi", "br"}
<1>1. SUFFICES ASSUME NEW k \in 1 .. Fetched(ops, tracePos)
               PROVE  ops[k].kind \in {"op", "phi", "br"}
  OBVIOUS
<1> DEFINE code == SubSeq(ops, k, Len(ops))
           r == At(code, stack, caller, mode, back, ReadPos(ops, tracePos, k))
<1>2. r \in Readings[scenario]
  BY Walk
<1>3. Head(code) = ops[k]
  <2>1. ops \in Seq(Ops) /\ Fetched(ops, tracePos) \in 1 .. Len(ops) /\ Len(ops) \in Nat
    BY CodeIs, FetchedIs
  <2>2. k \in 1 .. Len(ops)
    BY <2>1
  <2>3. QED
    BY <2>1, <2>2, RestOf
<1> HIDE DEF code
<1>4. r.code = code /\ r.mode = mode
  BY DEF At
<1> HIDE DEF r
<1>5. QED
  BY <1>2, <1>3, <1>4, RecordedIs

(* Up to that branch nothing that counts is read.                          *)
LEMMA NothingReadBetween ==
  ASSUME scenario \in Scenarios, tracePos \in 1 .. EndPos + 1, NEW ops, NEW names,
         IsCode(ops, names), NEW stack, NEW caller, NEW mode, NEW back,
         At(ops, stack, caller, mode, back, tracePos) \in Readings[scenario],
         scenario.speculative, mode \in {"done", "undone"},
         TakesBlock(ops, Judging(ops, mode))
  PROVE  \A i \in Live' : Reads(i)' => i \in Live /\ Reads(i) /\ insns'[i].pos = insns[i].pos
<1> DEFINE n == Fetched(ops, tracePos)  L == Len(insns)
<1>1. SUFFICES ASSUME NEW i \in Live', Reads(i)'
               PROVE  i \in Live /\ Reads(i) /\ insns'[i].pos = insns[i].pos
  OBVIOUS
<1>2. i \in Ids' /\ i \notin failed /\ Trace' = Trace
  BY DEF Live, Ids, TakesBlock, Trace
<1>3. CASE i \in Ids
  <2>1. insns'[i] = insns[i] /\ i \in Live
    BY <1>2, <1>3 DEF TakesBlock, Live, Ids
  <2>2. QED
    BY <1>1, <1>2, <2>1 DEF Reads
<1>4. CASE \E k \in 1 .. n : i = L + k
  <2>1. PICK k \in 1 .. n : i = L + k
    BY <1>4
  <2>2. insns'[i].pos = IF reads(ops[k]) /\ ~(Judging(ops, mode) /\ k = n)
                        THEN ReadPos(ops, tracePos, k) ELSE 0
    BY <2>1 DEF TakesBlock
  <2>3. Len(Trace) \in Nat /\ insns'[i].pos \in 1 .. Len(Trace)
    BY <1>1, <1>2, ProgramIs, LenProperties DEF Reads
  <2>4. reads(ops[k]) /\ ~(Judging(ops, mode) /\ k = n) /\ ReadPos(ops, tracePos, k) \in 1 .. Len(Trace)
    BY <2>2, <2>3
  <2>5. ops[k].kind = "br"
    BY <2>4, NothingBetween DEF reads
  <2>6. k = n
    <3>1. SUFFICES ASSUME k # n PROVE FALSE
      OBVIOUS
    <3>2. n \in 1 .. Len(ops) /\ Len(ops) \in Nat
      BY CodeIs, FetchedIs
    <3>3. k \in 1 .. n - 1
      BY <3>1, <3>2
    <3>4. ~Stops(ops, tracePos, k)
      BY <3>3, FetchedIs
    <3>5. QED
      BY <2>5, <3>4 DEF Stops
  <2>7. ~at_end(ReadPos(ops, tracePos, k))
    BY <2>3, <2>4 DEF at_end, EndPos
  <2>8. QED
    BY <2>4, <2>5, <2>6, <2>7 DEF Judging, EndOfTrace
<1>5. QED
  BY <1>2, <1>3, <1>4, NewIds

(* A block that the core fetches leads to where the reader goes.           *)
LEMMA HostReaderStep ==
  ASSUME scenario \in Scenarios, tracePos \in 1 .. EndPos + 1, ~offloading, offloadCall = 0,
         rollback \in BOOLEAN, switching \in BOOLEAN, Len(insns) \in Nat,
         NEW ops, HostCode(ops), NEW rest, Preprocess(ops, rest),
         ops[Fetched(ops, tracePos)].kind = "offload" =>
           insns'[Len(insns) + Fetched(ops, tracePos)].op = ops[Fetched(ops, tracePos)],
         Known(scenario, ops, rest, <<>>, HostMode, tracePos, rollbackPos),
         UNCHANGED <<scenario, offloading>>
  PROVE  ReaderAgrees'
<1> DEFINE n == Fetched(ops, tracePos)  q == ReadPos(ops, tracePos, n)  stop == ops[n]
           left == SubSeq(ops, n + 1, Len(ops))
           abnormal == reads(stop) /\ at_end(q)
           judges == stop.kind = "br" /\ ~abnormal /\ switching /\ scenario.speculative
           p2 == ReadPos(ops, tracePos, n + 1)
           branch == stop.kind \in {"br", "jmp"} /\ ~abnormal
           enters == stop.kind \in {"call", "offload"} /\ ~abnormal
           cond == IF judges THEN ~rollback ELSE Condition(q)
<1>1. PICK back : /\ At(ops, rest, <<>>, HostMode, back, tracePos) \in Readings[scenario]
                  /\ scenario.speculative /\ HostMode # "core" => back = rollbackPos
  BY KnownAs
<1>2. IsCode(ops, Names) /\ HostMode \notin {"running", "failing"}
  BY DEF HostCode, HostMode
<1>3. /\ tracePos' = (IF judges THEN resetReadingPos(q) ELSE p2)
      /\ hostAbnormal' = abnormal /\ hostForRet' = (stop.kind = "ret")
      /\ hostReturnStack' = (IF enters THEN <<left>> \o rest ELSE rest)
      /\ rollbackPos' = (IF enters /\ scenario.speculative THEN q ELSE rollbackPos)
      /\ switching' = (IF stop.kind = "br" /\ ~abnormal THEN FALSE ELSE switching)
      /\ rollback' = (IF judges THEN FALSE ELSE rollback)
      /\ offloadCall' = (IF enters /\ stop.kind = "offload" THEN Len(insns) + n ELSE offloadCall)
      /\ hostBB' = (IF abnormal \/ (branch /\ at_end(tracePos')) THEN NoBlock
                    ELSE IF stop.kind = "jmp" THEN stop.dest[1]
                    ELSE IF branch THEN (IF cond THEN stop.dest[1] ELSE stop.dest[2])
                    ELSE IF stop.kind = "call" THEN stop.dest[1]
                    ELSE NoBlock)
  BY Zenon DEF Preprocess
<1>4. Leads(ops, rest, <<>>, HostMode, back)
  BY <1>1, <1>2, LeadsTo
<1>5. /\ n \in 1 .. Len(ops) /\ EndPos \in Nat /\ q \in Nat
      /\ stop.kind \in Kinds /\ Stops(ops, tracePos, n)
      /\ p2 = IF reads(stop) /\ q <= EndPos THEN q + 1 ELSE q
      /\ at_end(q) <=> ~(q <= EndPos)
  BY <1>2, StopIs
<1>6. scenario.speculative /\ HostMode # "core" => stop.kind \in {"op", "phi", "br"}
  <2>1. HostMode # "core" => HostMode \in {"done", "undone"}
    BY DEF HostMode
  <2>2. n \in 1 .. n
    BY <1>5
  <2>3. QED
    BY <2>1, <2>2, <1>1, <1>2, NothingBetween
<1>7. Blocks' = Blocks /\ ~AccReads'
  BY DEF Blocks, AccReads
<1> DEFINE b == stop.dest[IF Trace[q].val THEN 1 ELSE 2]
           d == stop.dest[IF HostMode = "done" THEN 1 ELSE 2]
<1>8. /\ stop.kind = "jmp" =>
           At(Blocks[stop.dest[1]], rest, <<>>, HostMode, back, q) \in Readings[scenario]
      /\ stop.kind = "call" /\ q <= EndPos =>
           At(Blocks[stop.dest[1]], <<left>> \o rest, <<>>, HostMode, back, q)
             \in Readings[scenario]
      /\ stop.kind = "offload" /\ q <= EndPos =>
           At(Blocks[stop.dest[1]], <<>>, <<left>> \o rest, "running", q, q)
             \in Readings[scenario]
      /\ stop.kind = "ret" /\ rest # <<>> =>
           At(Head(rest), Tail(rest), <<>>, HostMode, back, q) \in Readings[scenario]
      /\ stop.kind = "br" /\ ~(scenario.speculative /\ switching) /\ q < EndPos =>
           At(Blocks[b], rest, <<>>, "core", back, q + 1) \in Readings[scenario]
      /\ stop.kind = "br" /\ scenario.speculative /\ switching /\ q <= EndPos =>
           At(Blocks[d], rest, <<>>, "core", back, IF HostMode = "done" THEN q ELSE back)
             \in Readings[scenario]
  <2>1. (HostMode \in {"done", "undone"} <=> switching) /\ \A x : InBlock(x, HostMode) = HostMode
    BY DEF HostMode, InBlock
  <2>2. QED
    BY <2>1, <1>2, <1>4 DEF Leads
<1> HIDE DEF n, q, left, p2, b, d
<1>9. CASE abnormal
  <2>1. hostAbnormal' /\ offloadCall' = 0
    BY <1>3, <1>9
  <2>2. QED
    BY <2>1, <1>7 DEF ReaderAgrees, HostReads
<1>10. CASE stop.kind = "ret"
  <2>1. /\ offloadCall' = 0 /\ hostForRet' /\ hostReturnStack' = rest /\ tracePos' = q
        /\ rollbackPos' = rollbackPos /\ switching' = switching /\ rollback' = rollback
    BY <1>3, <1>5, <1>10 DEF reads
  <2>2. rest # <<>> => Known(scenario, Head(rest), Tail(rest), <<>>, HostMode, q, rollbackPos)
    BY <1>1, <1>8, <1>10, KnownIs
  <2>3. QED
    BY <2>1, <2>2, <1>7 DEF ReaderAgrees, HostReads, HostMode, Known
<1>11. CASE stop.kind = "jmp"
  <2>1. /\ offloadCall' = 0 /\ ~hostForRet' /\ hostReturnStack' = rest /\ tracePos' = q
        /\ rollbackPos' = rollbackPos /\ switching' = switching /\ rollback' = rollback
        /\ hostBB' = NoBlock \/ hostBB' = stop.dest[1]
    BY <1>3, <1>5, <1>11 DEF reads
  <2>2. Known(scenario, Blocks[stop.dest[1]], rest, <<>>, HostMode, q, rollbackPos)
    BY <1>1, <1>8, <1>11, KnownIs
  <2> HIDE DEF stop
  <2>3. QED
    BY <2>1, <2>2, <1>7 DEF ReaderAgrees, HostReads, HostMode, Known
<1>12. CASE stop.kind = "br" /\ ~abnormal /\ judges
  <2>1. /\ offloadCall' = 0 /\ ~hostForRet' /\ hostReturnStack' = rest
        /\ ~switching' /\ tracePos' = resetReadingPos(q)
        /\ hostBB' = NoBlock \/ hostBB' = IF ~rollback THEN stop.dest[1] ELSE stop.dest[2]
    BY <1>3, <1>12
  <2>2. /\ HostMode = (IF rollback THEN "undone" ELSE "done")
        /\ tracePos' = IF rollback THEN rollbackPos ELSE q
        /\ back = rollbackPos
    BY <2>1, <1>1, <1>12 DEF HostMode, resetReadingPos
  <2>3. q <= EndPos
    BY <1>5, <1>12 DEF reads
  <2>4. d = (IF ~rollback THEN stop.dest[1] ELSE stop.dest[2])
    BY <2>2 DEF d
  <2>5. (IF HostMode = "done" THEN q ELSE back) = tracePos'
    BY <2>2
  <2>6. Known(scenario, Blocks[d], rest, <<>>, "core", tracePos', rollbackPos')
    BY <2>3, <2>5, <1>8, <1>12, KnownIs
  <2> HIDE DEF stop
  <2>7. QED
    BY <2>1, <2>4, <2>6, <1>7 DEF ReaderAgrees, HostReads, Known
<1>13. CASE stop.kind = "br" /\ ~abnormal /\ ~judges
  <2>1. /\ offloadCall' = 0 /\ ~hostForRet' /\ hostReturnStack' = rest
        /\ ~switching' /\ tracePos' = p2
        /\ hostBB' = NoBlock \/ (~at_end(p2) /\ hostBB' = IF Condition(q) THEN stop.dest[1]
                                                          ELSE stop.dest[2])
    BY <1>3, <1>13
  <2>2. p2 = q + 1
    BY <1>5, <1>13 DEF reads
  <2>3. ~at_end(p2) => q < EndPos
    BY <2>2, <1>5 DEF at_end
  <2>4. q < EndPos => b = IF Condition(q) THEN stop.dest[1] ELSE stop.dest[2]
    BY DEF b, Condition
  <2>5. q < EndPos => Known(scenario, Blocks[b], rest, <<>>, "core", p2, rollbackPos')
    BY <2>2, <1>8, <1>13, KnownIs
  <2> HIDE DEF stop
  <2>6. QED
    BY <2>1, <2>3, <2>4, <2>5, <1>7 DEF ReaderAgrees, HostReads, Known
<1>14. CASE stop.kind = "call"
  <2>1. ~abnormal /\ q <= EndPos
    BY <1>5, <1>14 DEF Stops, q, reads
  <2>2. /\ offloadCall' = 0 /\ ~hostForRet' /\ hostReturnStack' = <<left>> \o rest /\ tracePos' = q
        /\ switching' = switching /\ rollback' = rollback /\ hostBB' = stop.dest[1]
    BY <2>1, <1>3, <1>5, <1>14 DEF reads
  <2>3. ~(scenario.speculative /\ HostMode # "core")
    BY <1>6, <1>14
  <2>4. Known(scenario, Blocks[stop.dest[1]], <<left>> \o rest, <<>>, HostMode, q, rollbackPos')
    BY <2>1, <2>3, <1>8, <1>14, KnownIs
  <2> HIDE DEF stop
  <2>5. QED
    BY <2>2, <2>4, <1>7 DEF ReaderAgrees, HostReads, HostMode, Known
<1>15. CASE stop.kind = "offload"
  <2>1. ~abnormal /\ q <= EndPos
    BY <1>5, <1>15 DEF Stops, q, reads
  <2>2. /\ offloadCall' = Len(insns) + n /\ hostReturnStack' = <<left>> \o rest /\ tracePos' = q
        /\ scenario.speculative => rollbackPos' = q
    BY <2>1, <1>3, <1>5, <1>15 DEF reads
  <2>3. offloadCall' # 0
    BY <2>2, <1>5
  <2>4. insns'[offloadCall'].op = stop
    BY <2>2, <1>15 DEF n
  <2>5. Known(scenario, Blocks[stop.dest[1]], <<>>, <<left>> \o rest, "running", q, rollbackPos')
    BY <2>1, <2>2, <1>8, <1>15, KnownIs
  <2> HIDE DEF stop
  <2>6. QED
    BY <2>2, <2>3, <2>4, <2>5, <1>7 DEF ReaderAgrees, HostReads, Known
<1>16. stop.kind \in {"ret", "br", "jmp", "call", "offload"} \/ abnormal
  BY <1>5 DEF Stops, q, stop
<1>17. QED
  BY <1>9, <1>10, <1>11, <1>12, <1>13, <1>14, <1>15, <1>16

(* The core fetches a block.                                               *)
LEMMA HostBlockKeeps ==
  ASSUME IInv, StepInv, ~offloading, offloadCall = 0, ~hostAbnormal,
         NEW ops, HostCode(ops), NEW rest, Preprocess(ops, rest),
         Known(scenario, ops, rest, <<>>, HostMode, tracePos, rollbackPos),
         UNCHANGED <<scenario, offloading, failure, abnormalExit, failed>>
  PROVE  StepInv'
<1> DEFINE n == Fetched(ops, tracePos)  q == ReadPos(ops, tracePos, n)  stop == ops[n]
           abnormal == reads(stop) /\ at_end(q)
           judges == stop.kind = "br" /\ ~abnormal /\ switching /\ scenario.speculative
           p2 == ReadPos(ops, tracePos, n + 1)
           enters == stop.kind \in {"call", "offload"} /\ ~abnormal
           judging == scenario.speculative /\ HostMode # "core"
<1>1. /\ TypeOK /\ HostAgrees /\ tracePos \in 1 .. EndPos + 1 /\ scenario \in Scenarios
      /\ rollbackPos \in 1 .. EndPos + 1 /\ rollback \in BOOLEAN /\ switching \in BOOLEAN
      /\ failure \in BOOLEAN /\ ~abnormalExit /\ IsCode(ops, Names) /\ Len(insns) \in Nat
  BY LenProperties DEF IInv, TypeOK, StepInv, OnceAgrees, EndAgrees, HostCode
<1>2. PICK back : At(ops, rest, <<>>, HostMode, back, tracePos) \in Readings[scenario]
  BY KnownAs
<1>3. /\ n \in 1 .. Len(ops) /\ EndPos \in Nat /\ q \in tracePos .. EndPos + 1
      /\ p2 = IF reads(stop) /\ q <= EndPos THEN q + 1 ELSE q
      /\ at_end(q) <=> ~(q <= EndPos)
  BY <1>1, StopIs
<1>4. /\ tracePos' = (IF judges THEN resetReadingPos(q) ELSE p2)
      /\ rollbackPos' = (IF enters /\ scenario.speculative THEN q ELSE rollbackPos)
      /\ switching' = (IF stop.kind = "br" /\ ~abnormal THEN FALSE ELSE switching)
      /\ rollback' = (IF judges THEN FALSE ELSE rollback)
      /\ offloadCall' = (IF enters /\ stop.kind = "offload" THEN Len(insns) + n ELSE offloadCall)
  BY Zenon DEF Preprocess
<1>5. ReaderAgrees'
  <2>1. HostTakes(ops, n)
    BY <1>1, PreprocessTakes
  <2>2. \A j \in 1 .. n : ops[j].kind = "offload" => insns'[Len(insns) + j].op = ops[j]
    BY <2>1, Zenon DEF HostTakes
  <2>3. n \in 1 .. n
    BY <1>3
  <2>4. stop.kind = "offload" => insns'[Len(insns) + n].op = stop
    BY <2>2, <2>3, Zenon
  <2>5. QED
    BY <2>4, <1>1, HostReaderStep
<1>6. HostMode \in {"core", "undone", "done"} /\ (HostMode \in {"done", "undone"} <=> switching)
      /\ (HostMode = "undone" <=> switching /\ rollback)
  BY DEF HostMode
<1>7. TakesBlock(ops, judges) /\ judges = Judging(ops, HostMode)
  <2>1. judges = (stop.kind = "br" /\ ~EndOfTrace(ops) /\ switching /\ scenario.speculative)
    BY DEF EndOfTrace
  <2>2. judges = Judging(ops, HostMode)
    BY <1>6 DEF Judging, EndOfTrace
  <2> HIDE DEF judges
  <2>3. QED
    BY <2>1, <2>2, <1>1, CoreTakes
<1>8. SitesAgree'
  <2>1. TakesBlock(ops, Judging(ops, HostMode))
    BY <1>7
  <2>2. QED
    BY <2>1, <1>1, <1>2, SitesStep DEF StepInv
<1>9. ReadOnce' /\ \A i \in Live' : Reads(i)' => insns'[i].pos < p2
  <2> HIDE DEF judges
  <2>1. QED
    BY <1>1, <1>7, OnceStep DEF StepInv, OnceAgrees
<1>10. judging => /\ \A i \in Live' : Reads(i)' =>
                       i \in Live /\ Reads(i) /\ insns'[i].pos = insns[i].pos
                  /\ stop.kind \in {"op", "phi", "br"}
  <2>1. SUFFICES ASSUME judging
                 PROVE  /\ \A i \in Live' : Reads(i)' =>
                             i \in Live /\ Reads(i) /\ insns'[i].pos = insns[i].pos
                        /\ stop.kind \in {"op", "phi", "br"}
    OBVIOUS
  <2>2. HostMode \in {"done", "undone"} /\ scenario.speculative /\ n \in 1 .. n
    BY <2>1, <1>3, <1>6
  <2>3. TakesBlock(ops, Judging(ops, HostMode))
    BY <1>7
  <2>4. \A i \in Live' : Reads(i)' => i \in Live /\ Reads(i) /\ insns'[i].pos = insns[i].pos
    BY <2>2, <2>3, <1>1, <1>2, NothingReadBetween
  <2>5. stop.kind \in {"op", "phi", "br"}
    BY <2>2, <1>1, <1>2, NothingBetween
  <2>6. QED
    BY <2>4, <2>5
<1>11. /\ judging => \A p : ReadsBefore(p) => \A i \in Live' : Reads(i)' => insns'[i].pos < p
       /\ ReadsBefore(tracePos)
       /\ scenario.speculative /\ switching /\ rollback => ReadsBefore(rollbackPos)
  BY <1>10 DEF ReadsBefore, StepInv, OnceAgrees
<1>12. EndPos' = EndPos /\ Trace' = Trace
  BY DEF EndPos, Trace
<1>13. tracePos' \in 1 .. EndPos + 1 /\ \A i \in Live' : Reads(i)' => insns'[i].pos < tracePos'
  <2>1. CASE ~judges
    <3>1. tracePos' = p2 /\ p2 \in 1 .. EndPos + 1
      BY <2>1, <1>1, <1>3, <1>4
    <3>2. QED
      BY <3>1, <1>9
  <2>2. CASE judges /\ rollback
    <3>1. tracePos' = rollbackPos /\ judging
      BY <2>2, <1>4, <1>6 DEF resetReadingPos
    <3>2. QED
      BY <2>2, <3>1, <1>1, <1>11
  <2>3. CASE judges /\ ~rollback
    <3>1. tracePos' = q /\ judging
      BY <2>3, <1>4, <1>6 DEF resetReadingPos
    <3>2. ASSUME NEW i \in Live', Reads(i)' PROVE insns'[i].pos < q
      <4>1. insns'[i].pos < tracePos /\ insns'[i].pos \in 1 .. Len(Trace)
        BY <3>1, <3>2, <1>11, <1>12 DEF Reads
      <4>2. Len(Trace) \in Nat
        BY <1>1, ProgramIs, LenProperties
      <4>3. QED
        BY <4>1, <4>2, <1>1, <1>3
    <3>3. q \in 1 .. EndPos + 1
      BY <1>1, <1>3
    <3>4. QED
      BY <3>1, <3>2, <3>3
  <2>4. QED
    BY <2>1, <2>2, <2>3
<1>14. offloadCall' # 0 => tracePos' = q /\ (scenario.speculative => rollbackPos' = q)
  BY <1>3, <1>4 DEF reads
<1>15. scenario.speculative /\ switching' /\ rollback' =>
         \A i \in Live' : Reads(i)' => insns'[i].pos < rollbackPos'
  <2>1. SUFFICES ASSUME scenario.speculative, switching', rollback'
                 PROVE  \A i \in Live' : Reads(i)' => insns'[i].pos < rollbackPos'
    OBVIOUS
  <2>2. switching /\ rollback /\ judging
    BY <2>1, <1>1, <1>4, <1>6
  <2>3. rollbackPos' = rollbackPos
    BY <2>2, <1>4, <1>10
  <2>4. QED
    BY <2>1, <2>2, <2>3, <1>11
<1>16. rollbackPos' \in 1 .. EndPos + 1 /\ rollback' \in BOOLEAN /\ switching' \in BOOLEAN
  <2>1. q \in 1 .. EndPos + 1
    BY <1>1, <1>3
  <2>2. rollbackPos' \in {q, rollbackPos}
    BY <1>4, Zenon
  <2>3. rollback' \in {FALSE, rollback} /\ switching' \in {FALSE, switching}
    BY <1>4, Zenon
  <2>4. QED
    BY <1>1, <2>1, <2>2, <2>3, Zenon
<1>17. OnceAgrees'
  BY <1>12, <1>13, <1>14, <1>15, <1>16 DEF OnceAgrees, ReadsBefore
<1>18. EndAgrees'
  BY <1>1, <1>16 DEF EndAgrees
<1>19. QED
  BY <1>5, <1>8, <1>9, <1>17, <1>18, Zenon DEF StepInv

(* The core fetches.                                                       *)
LEMMA HostFetchKeeps ==
  ASSUME IInv, StepInv, Fetch
  PROVE  StepInv'
<1>1. UNCHANGED <<scenario, accVars, failed>> /\ HandOver /\ CodeAgrees /\ ReaderAgrees
  BY Zenon DEF Fetch, IInv, StepInv
<1>2. UNCHANGED <<targetBB, fetchForRet, returnStack, failure, abnormalExit, offloading>>
  BY <1>1 DEF accVars, fetchVars
<1>3. CASE /\ ~hostAbnormal /\ hostForRet /\ hostReturnStack # <<>>
           /\ Preprocess(Head(hostReturnStack), Tail(hostReturnStack))
  <2> DEFINE top == Head(hostReturnStack)  rest == Tail(hostReturnStack)
  <2>1. ~offloading /\ offloadCall = 0
    BY <1>1, <1>3 DEF HandOver, IInv, TypeOK
  <2>2. HostCode(top)
    <3>1. /\ hostReturnStack \in Seq(Seq(Ops))
          /\ \A k \in 1 .. Len(hostReturnStack) : HostCode(hostReturnStack[k])
      BY <1>1 DEF CodeAgrees
    <3>2. 1 \in 1 .. Len(hostReturnStack) /\ top = hostReturnStack[1]
      BY <3>1, <1>3, HeadTailIs
    <3>3. QED
      BY <3>1, <3>2
  <2>3. Known(scenario, top, rest, <<>>, HostMode, tracePos, rollbackPos)
    BY <2>1, <1>1, <1>3 DEF ReaderAgrees, HostReads, HostMode, Known
  <2>4. Preprocess(top, rest)
    BY <1>3
  <2> HIDE DEF top, rest
  <2>5. QED
    BY <2>1, <2>2, <2>3, <2>4, <1>1, <1>2, <1>3, HostBlockKeeps
<1>4. CASE ~hostAbnormal /\ ~hostForRet /\ hostBB # NoBlock
           /\ Preprocess(Blocks[hostBB], hostReturnStack)
  <2> DEFINE ops == Blocks[hostBB]
  <2>1. ~offloading /\ offloadCall = 0
    BY <1>1, <1>4 DEF HandOver, IInv, TypeOK
  <2>2. HostCode(ops)
    BY <1>1, <1>4, ProgramIs DEF CodeAgrees, IInv, TypeOK
  <2>3. Known(scenario, ops, hostReturnStack, <<>>, HostMode, tracePos, rollbackPos)
    BY <2>1, <1>1, <1>4 DEF ReaderAgrees, HostReads, HostMode, Known
  <2>4. Preprocess(ops, hostReturnStack)
    BY <1>4
  <2> HIDE DEF ops
  <2>5. QED
    BY <2>1, <2>2, <2>3, <2>4, <1>1, <1>2, <1>4, HostBlockKeeps
<1>5. CASE /\ \/ /\ IF hostForRet THEN hostReturnStack = <<>> ELSE hostBB = NoBlock
                 /\ hostForRet' = FALSE /\ hostBB' = NoBlock
              \/ hostForRet' = hostForRet /\ hostBB' = hostBB
           /\ UNCHANGED <<insns, tracePos, hostReturnStack, hostID, offloadCall, hostAbnormal,
                          rollback, switching, rollbackPos>>
  <2>1. SameReads
    BY <1>5 DEF SameReads
  <2>2. CASE hostForRet' = hostForRet /\ hostBB' = hostBB
    BY <2>1, <2>2, <1>1, <1>2, <1>5, QuietStep
  <2>3. CASE /\ IF hostForRet THEN hostReturnStack = <<>> ELSE hostBB = NoBlock
             /\ hostForRet' = FALSE /\ hostBB' = NoBlock
    <3>1. /\ Ids' = Ids /\ EndPos' = EndPos /\ Blocks' = Blocks /\ SitesAgree'
          /\ \A i \in Ids : Reads(i)' <=> Reads(i)
      BY <2>1, <1>1, ReadsStay DEF StepInv
    <3>2. /\ Live' = Live /\ Live \subseteq Ids /\ ReadOnce'
          /\ \A p : ReadsBefore(p)' <=> ReadsBefore(p)
      BY <2>1, <1>1, LiveStays DEF StepInv
    <3>3. ~HostReads' /\ AccReads' = AccReads
      BY <2>3, <1>2 DEF AccReads, HostReads
    <3>4. ReaderAgrees'
      BY <3>1, <3>3, <1>1, <1>2, <1>5 DEF ReaderAgrees, Known
    <3>5. EndAgrees'
      BY <1>2, <1>5 DEF StepInv, EndAgrees
    <3>6. OnceAgrees'
      BY <3>1, <3>2, <1>1, <1>2, <1>5 DEF StepInv, OnceAgrees
    <3>7. QED
      BY <3>1, <3>2, <3>4, <3>5, <3>6, Zenon DEF StepInv
  <2>4. QED
    BY <1>5, <2>2, <2>3
<1>6. QED
  BY <1>3, <1>4, <1>5, Zenon DEF Fetch, hostFetchVars

(* Whatever core and accelerator do together is what one reader of the     *)
(* trace does who executes the program one instruction at a time; the      *)
(* instructions that count have read each entry at most once.              *)
THEOREM StepInductive == Spec => []StepInv
<1>1. Init => StepInv
  BY InitKeeps
<1>2. IInv /\ StepInv /\ [Next]_vars => StepInv'
  <2>1. SUFFICES ASSUME IInv, StepInv, [Next]_vars
                 PROVE  StepInv'
    OBVIOUS
  <2>2. CASE Commit
    BY <2>1, <2>2, CommitKeeps
  <2>3. CASE \E S \in SUBSET Dispatched : Execute(S)
    BY <2>1, <2>3, ExecuteKeeps
  <2>4. CASE Dispatch
    BY <2>1, <2>4, DispatchKeeps
  <2>5. CASE Fetch
    BY <2>1, <2>5, HostFetchKeeps
  <2>6. CASE AccFetch
    BY <2>1, <2>6, AccFetchKeeps
  <2>7. CASE AccRetire
    BY <2>1, <2>7, RetireKeeps
  <2>8. CASE AccIssue
    BY <2>1, <2>8, IssueKeeps
  <2>9. CASE AccEnd
    BY <2>1, <2>9, EndKeeps
  <2>10. CASE \E S \in SUBSET (Waiting \union Stores) : Memory(S)
    BY <2>1, <2>10, MemoryKeeps
  <2>11. CASE Stopped \/ UNCHANGED vars
    <3>1. UNCHANGED vars
      BY <2>11 DEF Stopped
    <3>2. SameReads
      BY <3>1 DEF vars, SameReads
    <3>3. QED
      BY <2>1, <3>1, <3>2, QuietStep DEF vars, accVars, fetchVars, hostFetchVars
  <2>12. QED
    BY <2>1, <2>2, <2>3, <2>4, <2>5, <2>6, <2>7, <2>8, <2>9, <2>10, <2>11, Zenon DEF Next
<1>3. QED
  BY <1>1, <1>2, Inductive, PTL DEF Spec

(* What an instruction reads of the trace is what the same instruction of  *)
(* the recorded program wrote, on the core, on the accelerator and across  *)
(* every hand-over, and nothing is read twice but what runs again because  *)
(* the accelerator failed.                                                 *)
THEOREM InStepWithTrace == Spec => []TraceInStep
<1>1. StepInv => TraceInStep
  BY DEF StepInv, SitesAgree, ReadOnce, TraceInStep, Ids
<1>2. QED
  BY <1>1, StepInductive, PTL
=============================================================================
