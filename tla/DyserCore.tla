----------------------------- MODULE DyserCore -----------------------------
(***************************************************************************)
(* The core with issue ports and DySER units: the stages of Core::run from *)
(* writeBack to dispatch.  The window is here only its test that the       *)
(* operands are there, retirement is left out, and the load/store unit is  *)
(* external: a load may sleep and answers within MaxLoadCycles.  The other *)
(* modules have those parts in full.                                       *)
(***************************************************************************)
EXTENDS IssuePorts, Dyser

CONSTANTS Machines, Programs,  \* issue ports and sequences of instructions
          Functions,           \* unit number -> the function of the unit
          WindowSize,          \* instructions dispatched per cycle
          IssueQueueCapacity,
          MaxLoadCycles        \* bound on the time of a load

\* An instruction of a program for machine m.
Insn(m) == [kind : STRING, unit : Nat, offset : Int, stride : Int, invocation : Nat,
            deps : SUBSET Nat, cycles : Nat, portMapping : Seq(Nat \X Seq(Ports(m))),
            fus : Seq(Seq(FUs))]

ASSUME DyserCoreAssumption ==
    /\ WindowSize \in Nat \ {0} /\ IssueQueueCapacity \in Nat \ {0}
    /\ MaxLoadCycles \in Nat \ {0}
    /\ IsFiniteSet(FUs) /\ Machines \subseteq Machine
    /\ \A m \in Machines : Programs \subseteq Seq(Insn(m))
    /\ \A n \in DOMAIN Functions : Functions[n] \in Function

VARIABLES
    machine, prog,
    ports,      \* usage, free units and blocked ports
    units,      \* the DySER units
    rou,        \* instructions dispatched and not issued, per stream
    status, currentCycle,
    using,      \* the units that an instruction holds
    answered,   \* extracts that have their result, loads that have their data
    handedOver, \* packings that have notified their unit (offset is -1)
    insnQueue,  \* the number of instructions dispatched
    issueQueue, inFlightInsn,
    stage

coreVars == <<status, currentCycle, using, answered, handedOver>>
queueVars == <<insnQueue, issueQueue, inFlightInsn>>
vars == <<machine, prog, ports, units, rou, coreVars, queueVars, stage>>

Insns == DOMAIN prog
isPackingFunc(d) == prog[d].kind = "packing"
isExtractFunc(d) == prog[d].kind = "extract"
isLoad(d) == prog[d].kind = "load"

\* hashTwoInts of unit number and offset; on some machines streams collide.
hashTwoInts(i) == IF machine.collide THEN <<0, 0>> ELSE <<i.unit, i.offset>>

Init ==
    /\ machine \in Machines /\ prog \in Programs
    /\ ports = AllFree(machine)
    /\ units = [n \in DOMAIN Functions |-> fetch(Functions[n])]
    /\ rou = <<>>
    /\ status = [d \in Insns |-> "INIT"]
    /\ currentCycle = [d \in Insns |-> 0]
    /\ using = [d \in Insns |-> <<>>]
    /\ answered = {} /\ handedOver = {}
    /\ insnQueue = 0 /\ issueQueue = <<>> /\ inFlightInsn = <<>>
    /\ stage = "writeBack"

-----------------------------------------------------------------------------

\* The stages in the order of Core::run.
After == [writeBack |-> "execute", execute |-> "lsu", lsu |-> "tick", tick |-> "issue",
          issue |-> "dispatch", dispatch |-> "writeBack"]
GoOn == stage' = After[stage]

\* finish() of the classes of instructions.
finishes(d) ==
    /\ currentCycle[d] >= prog[d].cycles
    /\ isExtractFunc(d) \/ isLoad(d) => d \in answered

\* The units of d become free, and d holds none any more.
Release(s, d) == [s EXCEPT !.ports = freeFU(machine, @, s.using[d]), !.using[d] = <<>>]

\* Finished instructions free their units; finished ones also leave
\* inFlightInsn here, where the code waits until they retire.
WriteBack ==
    /\ stage = "writeBack"
    /\ LET done == {d \in ToSet(inFlightInsn) : status[d] # "FINISHED" /\ finishes(d)}
           Step(s, d) == IF d \in done THEN Release(s, d) ELSE [s EXCEPT !.left = Append(@, d)]
       IN /\ status' = [d \in Insns |-> IF d \in done THEN "FINISHED" ELSE status[d]]
          /\ \E after \in {FoldLeft(Step, [ports |-> ports, using |-> using, left |-> <<>>], inFlightInsn)} :
                ports' = after.ports /\ using' = after.using /\ inFlightInsn' = after.left
    /\ GoOn
    /\ UNCHANGED <<machine, prog, units, rou, currentCycle, answered, handedOver, insnQueue, issueQueue>>

-----------------------------------------------------------------------------
(* execute, instruction by instruction in the order of issue               *)

Offsets(i) == i.offset .. i.offset + i.stride - 1

HandOverAgain(s, d) ==   \* mutant: a packing notifies in every cycle
    IF ~isPackingFunc(d) THEN s
    ELSE [s EXCEPT !.units[prog[d].unit] = notify(@, Offsets(prog[d])), !.handedOver = @ \cup {d}]
HandOver(s, d) ==
    IF ~isPackingFunc(d) \/ d \in s.handedOver THEN s
    ELSE [s EXCEPT !.units[prog[d].unit] = notify(@, Offsets(prog[d])), !.handedOver = @ \cup {d}]

TakeResult(s, d) ==
    LET n == prog[d].unit
    IN IF isExtractFunc(d) /\ canGetData(Functions[n], s.units[n], prog[d].offset)
       THEN [s EXCEPT !.units[n] = getData(Functions[n], @, prog[d].offset), !.answered = @ \cup {d}]
       ELSE s

\* An instruction that sleeps gives its units back.
ExecuteInsn(s, d) ==
    TakeResult(HandOver(IF status[d] = "SLEEP" THEN Release(s, d) ELSE s, d), d)

Execute ==
    /\ stage = "execute"
    /\ \E after \in {FoldLeft(ExecuteInsn,
                        [ports |-> ports, using |-> using, units |-> units, answered |-> answered,
                         handedOver |-> handedOver], inFlightInsn)} :
          /\ ports' = after.ports /\ using' = after.using
          /\ units' = after.units /\ answered' = after.answered /\ handedOver' = after.handedOver
    /\ status' = [d \in Insns |-> IF status[d] = "ISSUED" /\ ~isLoad(d) THEN "EXECUTING" ELSE status[d]]
    /\ currentCycle' = [d \in Insns |->
            IF Contains(inFlightInsn, d)
            THEN Min({currentCycle[d] + 1, Max({prog[d].cycles, MaxLoadCycles})}) ELSE currentCycle[d]]
    /\ GoOn
    /\ UNCHANGED <<machine, prog, rou, queueVars>>

\* The load/store unit: a load asks the cache or sleeps until a store has its
\* data, and is answered at some time.
LsuProcess ==
    /\ stage = "lsu"
    /\ LET loads == {d \in ToSet(inFlightInsn) : isLoad(d) /\ d \notin answered}
           late == {d \in loads : currentCycle[d] >= MaxLoadCycles}
       IN \E arrived \in {a \in SUBSET loads : late \subseteq a} :
          \E sleeping \in SUBSET {d \in loads \ arrived : status[d] = "ISSUED"} :
            /\ answered' = answered \cup arrived
            /\ status' = [d \in Insns |->
                    IF d \in sleeping THEN "SLEEP"
                    ELSE IF d \in loads /\ status[d] = "ISSUED" THEN "EXECUTING" ELSE status[d]]
    /\ GoOn
    /\ UNCHANGED <<machine, prog, ports, units, rou, currentCycle, using, handedOver, queueVars>>

DyserTick ==
    /\ stage = "tick"
    /\ units' = [n \in DOMAIN units |-> processQueue(Functions[n], units[n])]
    /\ GoOn
    /\ UNCHANGED <<machine, prog, ports, rou, coreVars, queueVars>>

-----------------------------------------------------------------------------
(* issue, and dispatch behind it                                           *)

HasOperands(d) == \A e \in prog[d].deps : status[e] = "FINISHED"

\* d goes to the unit when schedule found one, as t tells, or waits.
Granted(s, d, t) ==
    IF ~t.ok THEN [s EXCEPT !.occupied = t.occupied, !.ready = @ \cup {d}, !.left = Append(@, d)]
    ELSE [s EXCEPT !.ports = t.p, !.occupied = t.occupied,
                   !.rou = releaseEntry(@, hashTwoInts(prog[d]), prog[d], d),
                   !.issued = Append(@, d), !.using[d] = t.taken]

\* The scan of the issue queue reaches d, unless all ports were occupied.
Consider(s, d) ==
    IF /\ Len(s.occupied) # Cardinality(Ports(machine))
       /\ HasOperands(d) /\ canIssue(s.rou, hashTwoInts(prog[d]), prog[d], d)
    THEN Granted(s, d, schedule(machine, s.ports, prog[d], s.occupied))
    ELSE [s EXCEPT !.left = Append(@, d)]

Issue ==
    /\ stage = "issue"
    /\ \E after \in {FoldLeft(Consider,
                        [ports |-> ports, occupied |-> <<>>, rou |-> rou, using |-> using,
                         issued |-> <<>>, ready |-> {}, left |-> <<>>], issueQueue)} :
          /\ ports' = after.ports /\ rou' = after.rou /\ using' = after.using
          /\ status' = [d \in Insns |-> IF Contains(after.issued, d) THEN "ISSUED"
                                        ELSE IF d \in after.ready THEN "READY" ELSE status[d]]
          /\ issueQueue' = after.left
          /\ inFlightInsn' = inFlightInsn \o after.issued
    /\ GoOn
    /\ UNCHANGED <<machine, prog, units, currentCycle, answered, handedOver, insnQueue>>

\* The front end, also external, always has instructions ready.  The next
\* cycle begins, and ports are blocked for one cycle less.
Dispatch ==
    /\ stage = "dispatch"
    /\ LET room == Min({WindowSize, Len(prog) - insnQueue, IssueQueueCapacity - Len(issueQueue)})
           new == [k \in 1..room |-> insnQueue + k]
       IN /\ insnQueue' = insnQueue + room
          /\ issueQueue' = issueQueue \o new
          /\ rou' = FoldLeft(LAMBDA r, d : addInstruction(r, hashTwoInts(prog[d]), prog[d], d), rou, new)
          /\ status' = [d \in Insns |-> IF Contains(new, d) THEN "ALLOCATED" ELSE status[d]]
    /\ ports' = [ports EXCEPT !.release = [q \in Ports(machine) |-> Max({0, ports.release[q] - 1})]]
    /\ GoOn
    /\ UNCHANGED <<machine, prog, units, currentCycle, using, answered, handedOver, inFlightInsn>>

Next == WriteBack \/ Execute \/ LsuProcess \/ DyserTick \/ Issue \/ Dispatch

\* main() calls Core::run again and again: the next stage is always reached.
Spec == Init /\ [][Next]_vars /\ WF_stage(GoOn)

-----------------------------------------------------------------------------

\* Every unit that is busy is held by exactly one instruction in flight, no
\* instruction that sleeps or has finished keeps one, and the counts by which
\* alternatives are sorted are those of the free units (occupyFU and freeFU
\* are called from schedule, writeBack and execute, some of them repeatedly).
UnitsAccounted ==
    /\ \A u \in Units(machine) :
         (u \in ports.usage) <=> Cardinality({d \in Insns : Contains(using[d], u)}) = 1
    /\ \A d, e \in Insns : d # e => ToSet(using[d]) \cap ToSet(using[e]) = {}
    /\ \A d \in Insns : using[d] # <<>> => Contains(inFlightInsn, d)
    /\ \A fu \in FUs : ports.aval[fu] = Cardinality(UnitsOf(machine, fu) \ ports.usage)

\* The streams hold, in program order, the requests in the issue queue and no
\* others: the assertions of RequestOrderingUnit hold, and the oldest request
\* of a stream is never held up by one that has gone.
StreamsMatchQueue ==
    /\ \A d \in ToSet(issueQueue) : isRequest(prog[d]) => hashTwoInts(prog[d]) \in DOMAIN rou
    /\ \A h \in DOMAIN rou :
         /\ ToSet(rou[h]) = {d \in ToSet(issueQueue) : isRequest(prog[d]) /\ hashTwoInts(prog[d]) = h}
         /\ \A i, j \in DOMAIN rou[h] : i < j => rou[h][i] < rou[h][j]

\* What the k-th instruction of a function is computed from: itself and, with
\* an instruction, those whose results are its operands; and their inputs.
Closed(body, S) == \A k \in S : \A v \in ToSet(body[k].operands) : v[1] = "insn" => v[2] \in S
ComputedFrom(body, k) ==
    {j \in DOMAIN body : \A S \in SUBSET DOMAIN body : k \in S /\ Closed(body, S) => j \in S}
InputsOf(body, k) ==
    UNION {{dynID(body, v) : v \in {w \in ToSet(body[j].operands) : w[1] = "arg"}} : j \in ComputedFrom(body, k)}
ResultOf(i) == Outputs(Functions[i.unit])[i.offset + 1]

\* The instructions of program p up to d that pack input x of unit n, and
\* those that take the result at an offset.
Packings(p, n, x, d) == {b \in 1 .. d : p[b].kind = "packing" /\ p[b].unit = n /\ x \in Offsets(p[b])}
Extracts(p, n, offset, d) == {b \in 1 .. d : p[b].kind = "extract" /\ p[b].unit = n /\ p[b].offset = offset}

\* What the tools and the configuration make of a unit's calls: packings execute
\* for at least a cycle, cover inputs only and an input always in the same
\* stream; extracts name an output; and no call to pack of an invocation comes
\* later among those of its input than a call to extract that depends on it
\* comes among those of its output.
InvocationsInOrder(p) ==
    /\ \A a \in {d \in DOMAIN p : p[d].kind = "packing"} :
         /\ p[a].cycles >= 1 /\ p[a].unit \in DOMAIN Functions
         /\ Offsets(p[a]) \subseteq 0 .. Len(Inputs(Functions[p[a].unit])) - 1
         /\ \A x \in Offsets(p[a]) : \A b \in Packings(p, p[a].unit, x, Len(p)) : p[b].offset = p[a].offset
    /\ \A e \in {d \in DOMAIN p : p[d].kind = "extract"} :
         /\ p[e].unit \in DOMAIN Functions
         /\ p[e].offset + 1 \in DOMAIN Outputs(Functions[p[e].unit])
         /\ \A x \in InputsOf(Functions[p[e].unit], ResultOf(p[e])) :
            \A a \in Packings(p, p[e].unit, x, Len(p)) :
              p[a].invocation = p[e].invocation =>
                Cardinality(Packings(p, p[e].unit, x, a)) <= Cardinality(Extracts(p, p[e].unit, p[e].offset, e))
ASSUME InvocationAssumption == \A p \in Programs : InvocationsInOrder(p)

\* A result is taken only after the arguments of its own invocation have been
\* handed over, in whatever order the calls of the invocations issue: tokens
\* carry no names, so this rests on the order of the streams alone.
ResultsFollowArguments ==
    \A e \in answered, a \in Insns :
        /\ isExtractFunc(e) /\ isPackingFunc(a)
        /\ prog[e].unit = prog[a].unit /\ prog[e].invocation = prog[a].invocation
        /\ Offsets(prog[a]) \cap InputsOf(Functions[prog[e].unit], ResultOf(prog[e])) # {}
        => a \in handedOver

\* Every instruction finishes: requests do not wait for each other in the
\* streams, for ports that are noted as occupied in vain, or for tokens.
AllFinish == <>(\A d \in Insns : status[d] = "FINISHED")
=============================================================================
