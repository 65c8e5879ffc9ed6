------------------------------- MODULE Accel -------------------------------
(***************************************************************************)
(* The accelerator (class Accelerator): a dataflow engine that runs the    *)
(* function it is handed, reading the same trace file as the core and      *)
(* using the same load/store unit.                                         *)
(*                                                                         *)
(* Each tick fetches basic blocks up to and including the first one that   *)
(* does not end in an unconditional branch, retires what is finished, and  *)
(* moves ready instructions from the reservation list to the units.  Loads *)
(* and stores enter the load/store unit in program order; a static         *)
(* instruction executes one of its instances at a time.                    *)
(*                                                                         *)
(* A fetched instruction is an index of insns.  Opcodes are the six kinds  *)
(* of Kinds, an "op" being any instruction without effect on control or    *)
(* memory.  A trace is a sequence of [site, val]: what the instruction     *)
(* "site" of the recorded program wrote, a branch condition or an address  *)
(* (0).  A traced program and its accelerated form share sites.            *)
(***************************************************************************)
EXTENDS Integers, FiniteSets, SequencesExt

CONSTANTS Scenarios,   \* the programs: blocks, their trace, speculative
          LdqSize, StqSize, LsuPorts,
          ReservationLimit  \* 1024 in the code

Kinds == {"op", "phi", "load", "store", "br", "jmp", "call", "offload", "ret"}
Ops == [kind : Kinds, uid : Nat, site : STRING, deps : SUBSET Nat, lat : Nat,
        dest : Seq(STRING)]
NoBlock == "null"

(* A block, or what is left of it behind a call: it ends in a terminator   *)
(* and goes to blocks of the set names only.                               *)
IsCode(ops, names) ==
  /\ ops \in Seq(Ops) \ {<<>>}
  /\ Last(ops).kind \in {"br", "jmp", "ret"}
  /\ \A k \in DOMAIN ops :
       /\ ops[k].kind \in {"br", "jmp", "call", "offload"} => ops[k].dest # <<>>
       /\ ops[k].kind = "br" => Len(ops[k].dest) = 2
       /\ \A d \in DOMAIN ops[k].dest : ops[k].dest[d] \in names

(* The blocks that the accelerator runs: those that the offloaded calls    *)
(* enter and what these lead to, with no offloaded call among them.        *)
IsAccelerated(names, blocks) ==
  /\ names \subseteq DOMAIN blocks
  /\ \A b \in DOMAIN blocks : \A k \in DOMAIN blocks[b] :
       /\ blocks[b][k].kind = "offload" => blocks[b][k].dest[1] \in names
       /\ b \in names => blocks[b][k].kind # "offload"
  /\ \A b \in names : IsCode(blocks[b], names)

\* Every program begins at main, is made of such blocks, and a number names one
\* instruction, which is no operand of itself unless it is a phi.
ASSUME ScenarioAssumption ==
  \A s \in Scenarios :
    /\ "main" \in DOMAIN s.blocks /\ DOMAIN s.blocks \subseteq STRING \ {NoBlock}
    /\ s.trace \in Seq([site : STRING, val : BOOLEAN])
    /\ \A b \in DOMAIN s.blocks : IsCode(s.blocks[b], DOMAIN s.blocks)
    /\ \E names \in SUBSET DOMAIN s.blocks : IsAccelerated(names, s.blocks)
    /\ \A b, c \in DOMAIN s.blocks :
         \A k \in DOMAIN s.blocks[b], l \in DOMAIN s.blocks[c] :
           /\ s.blocks[b][k].uid = s.blocks[c][l].uid => s.blocks[b][k] = s.blocks[c][l]
           /\ s.blocks[b][k].kind # "phi" => s.blocks[b][k].uid \notin s.blocks[b][k].deps

ASSUME LimitAssumption ==
  {LdqSize, StqSize, LsuPorts} \subseteq Nat /\ ReservationLimit \in Nat \ {0}

VARIABLES
  scenario,
  tracePos,      \* the next entry of the trace; one more than EndPos once a
                 \* read has failed, which is what Task::at_end tests
  insns,         \* the instructions fetched so far, by core and accelerator
  lsq,           \* the loads and stores that have an entry in the LSU
  reservation, inflight, scoreboard, used_port,
  targetBB, fetchForRet, returnStack, globalDynID,
  offloading, failure, abnormalExit

fetchVars == <<targetBB, fetchForRet, returnStack, globalDynID, failure,
               abnormalExit>>
queueVars == <<reservation, inflight, scoreboard, used_port>>
accVars == <<fetchVars, queueVars, offloading>>

Trace == scenario.trace
Blocks == scenario.blocks
EndPos == Len(Trace) + 1
at_end(p) == p > EndPos

(* How many elements at the front of s are in S.                           *)
Leading(s, S) ==
  CHOOSE n \in 0 .. Len(s) :
    /\ \A k \in 1 .. n : s[k] \in S
    /\ n < Len(s) => s[n + 1] \notin S

isMem(op) == op.kind \in {"load", "store"}
reads(op) == op.kind \in {"load", "store", "br"}
Is(S, i) == insns[i].op.kind \in S

-----------------------------------------------------------------------------
(* Reading a block against the trace, as Core::preprocess and              *)
(* Accelerator::fetch both do it.                                          *)

(* The reading position before op k of ops, read from position p on.       *)
ReadPos(ops, p, k) ==
  LET r == p + Cardinality({j \in 1 .. k - 1 : reads(ops[j])})
  IN IF r > EndPos THEN EndPos + 1 ELSE r

(* Nothing after op k is fetched with it: it ends the block, or it needs a *)
(* value and the trace has ended.  At the end of the trace a call finds no *)
(* function to enter.                                                      *)
Stops(ops, p, k) ==
  \/ ops[k].kind \in {"br", "jmp", "ret"}
  \/ ops[k].kind \in {"call", "offload"} /\ ~at_end(ReadPos(ops, p, k))
  \/ reads(ops[k]) /\ at_end(ReadPos(ops, p, k))

(* How many ops of the block are fetched.                                  *)
Fetched(ops, p) ==
  CHOOSE k \in 1 .. Len(ops) : Stops(ops, p, k) /\ \A j \in 1 .. k - 1 : ~Stops(ops, p, j)

Condition(p) == IF p < EndPos THEN Trace[p].val ELSE FALSE

(* The instructions ops[1 .. n], numbered from gid on.                     *)
NewInsns(ops, p, n, gid, hw) ==
  [k \in 1 .. n |-> [op |-> ops[k], dynID |-> gid + k - 1, hw |-> hw,
                     pos |-> IF reads(ops[k]) THEN ReadPos(ops, p, k) ELSE 0,
                     status |-> "INIT", cycle |-> 0, deps |-> {}, data |-> FALSE]]

-----------------------------------------------------------------------------
(* Accelerator::fetch.                                                     *)

(* Mutant: what is in flight is taken before what is queued.               *)
ProducerInFlightFirst(u, resv, all) ==
  LET queued == {k \in 1 .. Len(resv) : all[resv[k]].op.uid = u}
      executing == {i \in inflight : all[i].op.uid = u}
  IN IF executing # {} THEN CHOOSE i \in executing : TRUE
     ELSE IF queued # {} THEN resv[CHOOSE k \in queued : \A l \in queued : l <= k]
     ELSE 0

(* findDynamicDeps: the instance that instruction j finds for its operand  *)
(* u, looking backwards through the reservation list and then among the    *)
(* instructions in flight, or 0.  A phi is looked up before it is told     *)
(* where control came from, and so has no operands.                        *)
Producer(u, resv, all) ==
  LET queued == {k \in 1 .. Len(resv) : all[resv[k]].op.uid = u}
      executing == {i \in inflight : all[i].op.uid = u}
  IN IF queued # {} THEN resv[CHOOSE k \in queued : \A l \in queued : l <= k]
     ELSE IF executing # {} THEN CHOOSE i \in executing : TRUE
     ELSE 0

DepsOf(j, resv, all) ==
  IF all[j].op.kind = "phi" THEN {}
  ELSE {Producer(u, resv, all) : u \in all[j].op.deps} \ {0}

(* Fetching the block ops; instructions that are neither memory nor        *)
(* control count one cycle of execution already here.                      *)
FetchBlock(ops) ==
  LET n == Fetched(ops, tracePos)
      stop == ops[n]
      p == ReadPos(ops, tracePos, n)
      p2 == ReadPos(ops, tracePos, n + 1)
      abnormal == reads(stop) /\ at_end(p)
      all == insns \o NewInsns(ops, tracePos, n, globalDynID, "acc")
      ids == [k \in 1 .. n |-> Len(insns) + k]
      linked == [i \in 1 .. Len(all) |->
                   IF i <= Len(insns) THEN all[i]
                   ELSE [all[i] EXCEPT
                          !.deps = DepsOf(i, reservation \o
                                     SubSeq(ids, 1, i - Len(insns)), all),
                          !.cycle = IF all[i].op.kind = "op" THEN 1 ELSE 0]]
      branch == stop.kind \in {"br", "jmp"} /\ ~abnormal
      next == IF stop.kind = "jmp" THEN stop.dest[1]
              ELSE IF Condition(p) THEN stop.dest[1] ELSE stop.dest[2]
  IN
  /\ branch => ~at_end(p2)      \* otherwise a null block is dereferenced
  /\ insns' = linked
  /\ reservation' = reservation \o ids
  /\ globalDynID' = globalDynID + n
  /\ tracePos' = p2
  /\ abnormalExit' = (abnormalExit \/ abnormal)
  /\ failure' = (failure \/ (branch /\ next = "ret.fail"))
  /\ fetchForRet' = (stop.kind = "ret")
  /\ targetBB' = IF abnormalExit' THEN NoBlock
                 ELSE IF branch THEN next
                 ELSE IF stop.kind = "call" THEN stop.dest[1]
                 ELSE NoBlock

(* The return stack after fetching ops, with the stack rest below it.      *)
Push(ops, rest) ==
  LET n == Fetched(ops, tracePos)
  IN IF ops[n].kind = "call" THEN <<SubSeq(ops, n + 1, Len(ops))>> \o rest
                             ELSE rest

(* One call of fetch.  A return goes on behind the last call, or, when it  *)
(* ends the offloaded function, fetches nothing.                           *)
fetch ==
  \/ /\ Len(reservation) < ReservationLimit
     /\ fetchForRet /\ returnStack # <<>>
     /\ FetchBlock(Head(returnStack))
     /\ returnStack' = Push(Head(returnStack), Tail(returnStack))
  \/ /\ Len(reservation) < ReservationLimit
     /\ ~fetchForRet /\ targetBB # NoBlock
     /\ FetchBlock(Blocks[targetBB])
     /\ returnStack' = Push(Blocks[targetBB], returnStack)
  \/ /\ Len(reservation) < ReservationLimit
     /\ IF fetchForRet THEN returnStack = <<>> ELSE targetBB = NoBlock
     /\ fetchForRet' = FALSE
     /\ targetBB' = NoBlock
     /\ UNCHANGED <<insns, reservation, globalDynID, tracePos, abnormalExit,
                    failure, returnStack>>
  \/ /\ Len(reservation) >= ReservationLimit
     /\ UNCHANGED <<insns, reservation, tracePos, fetchVars>>

(* Fetching goes on in the same tick behind an unconditional branch.       *)
FetchesOn ==
  Len(reservation') > Len(reservation) /\ insns'[Len(insns')].op.kind = "jmp"

-----------------------------------------------------------------------------
(* Accelerator::processQueue.                                              *)

finish(i) ==
  /\ insns[i].cycle >= insns[i].op.lat
  /\ Is({"load"}, i) => insns[i].data

Finished == {i \in inflight : finish(i)}

(* What is in flight and not finished executes for one more cycle.         *)
Executed(i) ==
  IF i \in inflight \ Finished /\ insns[i].cycle < insns[i].op.lat
  THEN insns[i].cycle + 1 ELSE insns[i].cycle

(* A load or store leaves the scoreboard with its last cycle.              *)
Leaves(i) ==
  /\ insns[i].status = "ISSUED"
  /\ Executed(i) >= insns[i].op.lat
  /\ Is({"load"}, i) => insns[i].data

(* Mutant: one memory instruction leaves the scoreboard in a cycle.        *)
RetiredOne == IF scoreboard # <<>> /\ Leaves(Head(scoreboard)) THEN 1 ELSE 0

(* The scoreboard is retired in order: how many leave it.                  *)
Retired == Leading(scoreboard, {i \in ToSet(scoreboard) : Leaves(i)})

(* Mutant: users are not told of the result of a load.                     *)
signalUserNotLoads(done, i) == insns[i].deps \ {j \in done : ~Is({"load"}, j)}

(* signalUser of the instructions done: they are no longer waited for.     *)
signalUser(done, i) == insns[i].deps \ done

(* The two loops that retire.                                              *)
Retire ==
  /\ insns' = [i \in 1 .. Len(insns) |->
       [insns[i] EXCEPT
         !.deps = signalUser(Finished, i),
         !.cycle = Executed(i),
         !.status = IF \/ i \in ToSet(SubSeq(scoreboard, 1, Retired))
                       \/ i \in Finished /\ ~isMem(insns[i].op)
                    THEN "COMMITED" ELSE @]]
  /\ inflight' = inflight \ Finished
  /\ scoreboard' = SubSeq(scoreboard, Retired + 1, Len(scoreboard))
  /\ used_port' = 0
  /\ UNCHANGED reservation

ifLDQFull == Cardinality({i \in lsq : Is({"load"}, i)}) >= LdqSize
ifSTQFull == Cardinality({i \in lsq : Is({"store"}, i)}) >= StqSize

(* canDispatch(inst, false), and a port of the unit is left.               *)
mayAllocate(i) == ~ifLDQFull /\ ~ifSTQFull /\ used_port < LsuPorts

UIDActive(i) == \E j \in inflight : insns[j].op.uid = insns[i].op.uid

ready(i) == insns[i].deps = {}

(* The reservation loop at its element k.                                  *)
Consider(k) ==
  LET i == reservation[k]
      allocates == isMem(insns[i].op) /\ insns[i].status = "INIT"
      issues == ~UIDActive(i) /\ ready(i)
  IN
  IF allocates /\ ~mayAllocate(i)
  THEN UNCHANGED <<insns, lsq, scoreboard, used_port, reservation, inflight>>
  ELSE /\ lsq' = IF allocates THEN lsq \union {i} ELSE lsq
       /\ scoreboard' = IF allocates THEN Append(scoreboard, i) ELSE scoreboard
       /\ used_port' = IF allocates THEN used_port + 1 ELSE used_port
       /\ reservation' = IF issues THEN RemoveAt(reservation, k) ELSE reservation
       /\ inflight' = IF issues THEN inflight \union {i} ELSE inflight
       /\ insns' = [insns EXCEPT
            ![i].status = IF issues THEN "ISSUED"
                          ELSE IF allocates THEN "ALLOCATED" ELSE @,
            ![i].cycle = IF issues /\ @ < insns[i].op.lat THEN @ + 1 ELSE @]

isFinish == inflight = {} /\ reservation = <<>>

-----------------------------------------------------------------------------
(* Handing over.                                                           *)

(* Accelerator::switchContext.                                             *)
switchContext(entry, gid) ==
  /\ targetBB' = entry
  /\ globalDynID' = gid
  /\ offloading' = TRUE
  /\ failure' = FALSE

AccInit ==
  /\ reservation = <<>> /\ inflight = {} /\ scoreboard = <<>> /\ used_port = 0
  /\ targetBB = NoBlock /\ fetchForRet = FALSE /\ returnStack = <<>>
  /\ globalDynID = 0 /\ offloading = FALSE /\ failure = FALSE
  /\ abnormalExit = FALSE
=============================================================================
