------------------------------ MODULE Offload ------------------------------
(***************************************************************************)
(* The core and the accelerator taking turns (class Core, the parts that   *)
(* offload).                                                               *)
(*                                                                         *)
(* When the core fetches a call of the offloaded function it stops         *)
(* fetching; when the call executes, the accelerator goes on with the      *)
(* trace and the instruction numbers from there.  Once the accelerator is  *)
(* empty the core takes both back and fetches what follows the call.  In   *)
(* speculative mode the accelerator may report failure: then the first     *)
(* conditional branch behind the call, which reads no condition of its     *)
(* own, goes to the original code, and the trace is read again from where  *)
(* the call was fetched.                                                   *)
(*                                                                         *)
(* The core's pipeline (module Core) is reduced to what this depends on:   *)
(* instructions are dispatched in program order, finish in any order and   *)
(* leave in program order.  One cycle of Core::run is a round of steps.    *)
(***************************************************************************)
EXTENDS Accel

CONSTANT HostLimit  \* the core fetches a block when it holds fewer
                    \* instructions than this

VARIABLES
  hostQ,         \* the core's instructions in program order, until they retire
  hostBB, hostForRet, hostReturnStack, hostID,
  hostAbnormal,
  offloadCall,   \* the call whose targetBB, globalDynID are set, or 0
  hostOffloading, rollback, switching,
  rollbackPos, running, stage, pos,
  failed         \* history: what failed runs of the accelerator fetched

hostFetchVars == <<hostBB, hostForRet, hostReturnStack, hostID, hostAbnormal,
                   rollback, switching, rollbackPos>>
vars == <<scenario, tracePos, insns, lsq, accVars, hostQ, hostFetchVars,
          offloadCall, hostOffloading, running, stage, pos, failed>>

GoTo(s) == stage' = s /\ pos' = 1 /\ UNCHANGED <<scenario, running>>

Init ==
  /\ scenario \in Scenarios
  /\ tracePos = 1 /\ insns = <<>> /\ lsq = {}
  /\ AccInit
  /\ hostQ = <<>> /\ hostBB = "main" /\ hostForRet = FALSE
  /\ hostReturnStack = <<>> /\ hostID = 0 /\ hostAbnormal = FALSE
  /\ offloadCall = 0 /\ hostOffloading = FALSE /\ rollback = FALSE
  /\ switching = FALSE /\ rollbackPos = 1 /\ running = TRUE
  /\ stage = "commit" /\ pos = 1 /\ failed = {}

-----------------------------------------------------------------------------
(* The core's pipeline.                                                    *)

Dispatched == {i \in ToSet(hostQ) : insns[i].status = "ALLOCATED"}

(* Core::commit: what is finished leaves, in order.                        *)
Commit ==
  /\ stage = "commit" /\ running
  /\ LET n == Leading(hostQ, {i \in ToSet(hostQ) : insns[i].status = "FINISHED"})
     IN /\ hostQ' = SubSeq(hostQ, n + 1, Len(hostQ))
        /\ insns' = [i \in 1 .. Len(insns) |->
             IF i \in ToSet(SubSeq(hostQ, 1, n))
             THEN [insns[i] EXCEPT !.status = "COMMITED"] ELSE insns[i]]
  /\ GoTo("execute")
  /\ UNCHANGED <<tracePos, lsq, accVars, hostFetchVars, offloadCall,
                 hostOffloading, failed>>

(* Core::execute: the instructions S get their units, run and finish; the  *)
(* offloaded call starts the accelerator.                                  *)
Execute(S) ==
  /\ stage = "execute"
  /\ S \subseteq Dispatched
  /\ insns' = [i \in 1 .. Len(insns) |->
       IF i \in S THEN [insns[i] EXCEPT !.status = "FINISHED"] ELSE insns[i]]
  /\ IF offloadCall \in S /\ ~hostOffloading
     THEN LET op == insns[offloadCall].op
          IN /\ switchContext(op.dest[1], insns[offloadCall].dynID + 1)
             /\ hostOffloading' = TRUE
             /\ rollback' = FALSE
             /\ offloadCall' = 0
             /\ UNCHANGED <<fetchForRet, returnStack, abnormalExit>>
     ELSE UNCHANGED <<fetchVars, offloading, hostOffloading, rollback, offloadCall>>
  /\ GoTo("accFetch")
  /\ UNCHANGED <<tracePos, lsq, queueVars, hostQ, hostBB, hostForRet,
                 hostReturnStack, hostID, hostAbnormal, switching, rollbackPos,
                 failed>>

(* One step of the loop of Core::dispatch over the instructions fetched:   *)
(* it stops at the first that finds its queue full.                        *)
Dispatch ==
  /\ stage = "dispatch"
  /\ LET n == Leading(hostQ, {i \in ToSet(hostQ) : insns[i].status # "INIT"})
         i == hostQ[n + 1]
     IN IF n = Len(hostQ)
           \/ (Is({"load"}, i) /\ ifLDQFull)
           \/ (Is({"store"}, i) /\ ifSTQFull)
        THEN /\ GoTo("fetch")
             /\ UNCHANGED <<insns, lsq>>
        ELSE /\ insns' = [insns EXCEPT ![i].status = "ALLOCATED"]
             /\ lsq' = IF isMem(insns[i].op) THEN lsq \union {i} ELSE lsq
             /\ UNCHANGED <<scenario, running, stage, pos>>
  /\ UNCHANGED <<tracePos, accVars, hostQ, hostFetchVars, offloadCall,
                 hostOffloading, failed>>

-----------------------------------------------------------------------------
(* Core::preprocess.                                                       *)

(* Mutant: the trace is not read again after a failed run.                 *)
resetReadingPosNever(p) == p

(* Task::resetReadingPos, when the first branch behind a failed run is     *)
(* fetched.                                                                *)
resetReadingPos(p) == IF switching /\ rollback THEN rollbackPos ELSE p

(* Fetching ops, with the return stack rest below it.  The branch that     *)
(* ends a speculative call reads no condition: rollback is its condition.  *)
Preprocess(ops, rest) ==
  LET n == Fetched(ops, tracePos)
      stop == ops[n]
      p == ReadPos(ops, tracePos, n)
      abnormal == reads(stop) /\ at_end(p)
      judges == stop.kind = "br" /\ ~abnormal /\ switching /\ scenario.speculative
      p2 == IF judges THEN resetReadingPos(p) ELSE ReadPos(ops, tracePos, n + 1)
      cond == IF judges THEN ~rollback ELSE Condition(p)
      branch == stop.kind \in {"br", "jmp"} /\ ~abnormal
      enters == stop.kind \in {"call", "offload"} /\ ~abnormal
      new == NewInsns(IF judges THEN [ops EXCEPT ![n].kind = "jmp"] ELSE ops,
                      tracePos, n, hostID, "core")
  IN
  /\ insns' = insns \o new
  /\ hostQ' = hostQ \o [k \in 1 .. n |-> Len(insns) + k]
  /\ hostID' = hostID + n
  /\ tracePos' = p2
  /\ hostAbnormal' = abnormal
  /\ hostForRet' = (stop.kind = "ret")
  /\ hostReturnStack' = IF enters THEN <<SubSeq(ops, n + 1, Len(ops))>> \o rest ELSE rest
  /\ rollbackPos' = IF enters /\ scenario.speculative THEN p ELSE rollbackPos
  /\ switching' = IF stop.kind = "br" /\ ~abnormal THEN FALSE ELSE switching
  /\ rollback' = IF judges THEN FALSE ELSE rollback
  /\ offloadCall' = IF enters /\ stop.kind = "offload" THEN Len(insns) + n ELSE offloadCall
  /\ hostBB' = IF abnormal \/ (branch /\ at_end(p2)) THEN NoBlock
               ELSE IF stop.kind = "jmp" THEN stop.dest[1]
               ELSE IF branch THEN (IF cond THEN stop.dest[1] ELSE stop.dest[2])
               ELSE IF stop.kind = "call" THEN stop.dest[1]
               ELSE NoBlock

(* Core::fetch.  While the accelerator runs there is no block to fetch.    *)
Fetch ==
  /\ stage = "fetch"
  /\ \/ /\ Len(hostQ) < HostLimit /\ ~hostAbnormal
        /\ hostForRet /\ hostReturnStack # <<>>
        /\ Preprocess(Head(hostReturnStack), Tail(hostReturnStack))
     \/ /\ Len(hostQ) < HostLimit /\ ~hostAbnormal
        /\ ~hostForRet /\ hostBB # NoBlock
        /\ Preprocess(Blocks[hostBB], hostReturnStack)
     \/ /\ IF hostForRet THEN hostReturnStack = <<>> ELSE hostBB = NoBlock
        /\ Len(hostQ) < HostLimit /\ ~hostAbnormal
        /\ hostForRet' = FALSE /\ hostBB' = NoBlock
        /\ UNCHANGED <<insns, hostQ, tracePos, hostReturnStack, hostID, offloadCall,
                       hostAbnormal, rollback, switching, rollbackPos>>
     \/ /\ Len(hostQ) >= HostLimit \/ hostAbnormal
        /\ UNCHANGED <<insns, hostQ, tracePos, hostFetchVars, offloadCall>>
  /\ stage' = "memory" /\ pos' = 1
  /\ running' = (hostQ' # <<>> \/ hostOffloading)
  /\ UNCHANGED <<scenario, lsq, accVars, hostOffloading, failed>>

-----------------------------------------------------------------------------
(* Accelerator::tick, between the execute and the issue of the core.       *)

AccFetch ==
  /\ stage = "accFetch"
  /\ fetch
  /\ IF FetchesOn THEN UNCHANGED <<scenario, running, stage, pos>>
                  ELSE GoTo("accRetire")
  /\ UNCHANGED <<lsq, inflight, scoreboard, used_port, offloading, hostQ,
                 hostFetchVars, offloadCall, hostOffloading, failed>>

AccRetire ==
  /\ stage = "accRetire"
  /\ Retire
  /\ GoTo("accIssue")
  /\ UNCHANGED <<tracePos, lsq, fetchVars, offloading, hostQ, hostFetchVars,
                 offloadCall, hostOffloading, failed>>

AccIssue ==
  /\ stage = "accIssue" /\ pos <= Len(reservation)
  /\ Consider(pos)
  /\ pos' = IF Len(reservation') < Len(reservation) THEN pos ELSE pos + 1
  /\ UNCHANGED <<scenario, running, stage, tracePos, fetchVars, offloading, hostQ,
                 hostFetchVars, offloadCall, hostOffloading, failed>>

(* Mutant: the core goes on numbering where it stopped.                    *)
takeNumberNever == UNCHANGED hostID

(* The number the core goes on with: the accelerator's, unless it failed.  *)
takeNumber == hostID' = IF failure THEN hostID ELSE globalDynID

(* The end of the tick.  An empty accelerator hands back, notifyHostFinish *)
(* and Core::switchContext.                                                *)
AccEnd ==
  /\ stage = "accIssue" /\ pos > Len(reservation)
  /\ IF isFinish /\ offloading
     THEN /\ offloading' = FALSE
          /\ hostOffloading' = FALSE
          /\ takeNumber
          /\ rollback' = failure
          /\ switching' = TRUE
          /\ hostAbnormal' = abnormalExit
          /\ hostReturnStack # <<>>  \* asserted
          /\ hostForRet' = TRUE
          /\ failed' = IF failure
                       THEN failed \union {i \in 1 .. Len(insns) :
                              insns[i].hw = "acc" /\ insns[i].dynID >= hostID}
                       ELSE failed
     ELSE UNCHANGED <<offloading, hostOffloading, hostID, rollback, switching,
                      hostAbnormal, hostForRet, failed>>
  /\ GoTo("dispatch")
  /\ UNCHANGED <<tracePos, insns, lsq, fetchVars, queueVars, hostQ, hostBB,
                 hostReturnStack, rollbackPos, offloadCall>>

-----------------------------------------------------------------------------
(* The caches and LSUnit::process: loads get their data, and what retired  *)
(* leaves the queues, a store when the cache accepts it.                   *)

Waiting ==
  {i \in lsq : Is({"load"}, i) /\ insns[i].status = "ISSUED" /\ ~insns[i].data}
Stores == {i \in lsq : Is({"store"}, i) /\ insns[i].status = "COMMITED"}

Memory(S) ==
  /\ stage = "memory" /\ running
  /\ insns' = [i \in 1 .. Len(insns) |->
       IF i \in S \intersect Waiting THEN [insns[i] EXCEPT !.data = TRUE] ELSE insns[i]]
  /\ lsq' = lsq \ ((S \intersect Stores) \union
                   {i \in lsq : Is({"load"}, i) /\ insns[i].status = "COMMITED"})
  /\ GoTo("commit")
  /\ UNCHANGED <<tracePos, accVars, hostQ, hostFetchVars, offloadCall,
                 hostOffloading, failed>>

Stopped == ~running /\ UNCHANGED vars

Next ==
  \/ Commit
  \/ \E S \in SUBSET Dispatched : Execute(S)
  \/ Dispatch
  \/ Fetch
  \/ AccFetch
  \/ AccRetire
  \/ AccIssue
  \/ AccEnd
  \/ \E S \in SUBSET (Waiting \union Stores) : Memory(S)
  \/ Stopped

(* Core::run is called again until it stops.  Units come free and the      *)
(* caches answer, so that now and then all that can finish does.           *)
Fairness ==
  /\ WF_vars(Next)
  /\ SF_vars(Execute(Dispatched) /\ Dispatched # {})
  /\ SF_vars(Memory(Waiting \union Stores) /\ Waiting \union Stores # {})

Spec == Init /\ [][Next]_vars /\ Fairness

-----------------------------------------------------------------------------
(* Properties.                                                             *)

Live == {i \in 1 .. Len(insns) : i \notin failed}
Reads(i) == insns[i].pos \in 1 .. Len(Trace)

(* Core and accelerator stay in step with the trace file that both read:   *)
(* what an instruction reads is what the same instruction of the recorded  *)
(* program wrote, and nothing is read twice except by code that runs again *)
(* because the accelerator failed.                                         *)
TraceInStep ==
  /\ \A i \in 1 .. Len(insns) : Reads(i) => Trace[insns[i].pos].site = insns[i].op.site
  /\ \A i, j \in Live : Reads(i) /\ insns[i].pos = insns[j].pos => i = j

(* The load/store unit orders by dynID what the core and the accelerator   *)
(* put into it: the numbers of instructions that count follow the program, *)
(* across every hand-over (Core::switchContext, Accelerator::switchContext).*)
NumbersFollowProgram ==
  \A i, j \in Live : i < j => insns[i].dynID < insns[j].dynID

(* Accelerator::isFinish looks at two of its queues only.  When the        *)
(* accelerator hands back nothing of its run is left anyway: no memory     *)
(* instruction still to retire, without which its stores would stay in the *)
(* store queue for ever, no block to fetch and no return to make.          *)
NothingLeftBehind ==
  ~offloading =>
    /\ scoreboard = <<>>
    /\ targetBB = NoBlock /\ ~fetchForRet
    /\ abnormalExit \/ returnStack = <<>>
    /\ \A i \in 1 .. Len(insns) : insns[i].hw = "acc" => insns[i].status = "COMMITED"

(* Every offload ends, and the simulation stops with the whole trace read  *)
(* and the core's queues empty, for any timing of the memory.              *)
RunsToTheEnd ==
  <>[](/\ ~running /\ hostQ = <<>> /\ ~offloading
       /\ {insns[i].pos : i \in {j \in Live : Reads(j)}} = 1 .. Len(Trace))

(* "assert(sop->getDynID() != dynID)" (lsu.cpp:215): when a load looks for  *)
(* the youngest store before it, LSUnit::forwardData finds one of that     *)
(* number.  (All addresses are one here.)  LDSTQ finds its entries by the  *)
(* number too.  The set lsq does not, so from the first state in which two *)
(* stores share a number the code goes on otherwise than this model.       *)
Searches(l) == /\ Is({"load"}, l)
               /\ \/ insns[l].hw = "core" /\ insns[l].status = "ALLOCATED"
                  \/ insns[l].hw = "acc" /\ insns[l].status = "ISSUED" /\ ~insns[l].data
Before(l) == {i \in lsq : Is({"store"}, i) /\ insns[i].dynID < insns[l].dynID}
ForwardingFindsOne ==
  \A l \in {i \in lsq : Searches(i)} : \A i, j \in Before(l) :
    /\ insns[i].dynID = insns[j].dynID
    /\ \A k \in Before(l) : insns[k].dynID <= insns[i].dynID
    => i = j

(* "only 1 instance of any instruction can exist in them" (accel.cpp, of   *)
(* the queues that findDynamicDeps searches last): although instances of a *)
(* loop overlap, what the accelerator issues has the result of the latest  *)
(* earlier instance of each of its operands.  Phis are not held to it.     *)
OperandsAreLatest ==
  \A j \in 1 .. Len(insns) :
    /\ insns[j].hw = "acc" /\ ~Is({"phi"}, j)
    /\ insns[j].status \in {"ISSUED", "COMMITED"}
    => \A i \in 1 .. j - 1 :
         /\ insns[i].hw = "acc" /\ insns[i].op.uid \in insns[j].op.deps
         /\ \A k \in i + 1 .. j - 1 : insns[k].op.uid # insns[i].op.uid
         => i \notin inflight /\ insns[i].status \in {"ISSUED", "COMMITED"}
=============================================================================
