------------------------------- MODULE Window -------------------------------
(***************************************************************************)
(* The instruction window of the core (class Window): the reorder buffer,  *)
(* the map from instructions to its entries and the issue queue.           *)
(*                                                                         *)
(* The core calls the window from its dispatch, issue and commit stages.   *)
(* Here those calls come in any order, and what happens to an instruction  *)
(* between issue and writeback (execution units, load/store unit) is any   *)
(* sequence of status changes the rest of the core can make; Core composes *)
(* the window with the stages and the load/store unit of the code.         *)
(***************************************************************************)
EXTENDS DynOp, FiniteSets

CONSTANTS RobSize,            \* robSize
          IssueQueueCapacity  \* issueQueueCapacity

ASSUME RobSizeAssumption == RobSize \in Nat \ {0}
ASSUME IssueQueueCapacityAssumption == IssueQueueCapacity \in Nat

VARIABLES
  status,          \* status[d]: DynamicOperation::status of instruction d
  dynDeps,         \* dynDeps[d]: the instructions whose results d reads
  nextOp,          \* the instruction at the front of insnQueue
  ROB,             \* ROB[i]: an instruction and whether the entry is free
  opEntryMap,      \* opEntryMap[d]: the ROB entry noted for d, or None
  robHead,
  robTail,
  robUsed,
  issueQueue,      \* its instructions; its order is that of their dynIDs
  issueQueueUsed,
  totalCommit

robVars == <<ROB, opEntryMap, robHead, robTail, robUsed>>
vars == <<status, dynDeps, nextOp, robVars, issueQueue, issueQueueUsed,
          totalCommit>>

Slots == 0 .. RobSize - 1

-----------------------------------------------------------------------------
(* Guards.                                                                 *)

canDispatch == issueQueueUsed < IssueQueueCapacity
ifROBFull   == ~ROB[robTail].empty
ifROBEmpty  == ROB[robHead].empty

(* Mutant: every dependency found in the map is waited for, even one whose *)
(* entry is free.                                                          *)
checkInsnReadyNoEmptyTest(d) ==
  \A e \in dynDeps[d] :
    opEntryMap[e] # None => status[ROB[opEntryMap[e]].op] = FINISHED

(* Mutant: an instruction in execution counts as finished.                 *)
checkInsnReadyExecuting(d) ==
  \A e \in dynDeps[d] :
    (opEntryMap[e] # None /\ ~ROB[opEntryMap[e]].empty)
      => status[ROB[opEntryMap[e]].op] >= EXECUTING

(* The window's test that an instruction has its operands.  A dependency   *)
(* that is not in the map, or whose entry is free, is in the registers.    *)
checkInsnReady(d) ==
  \A e \in dynDeps[d] :
    (opEntryMap[e] # None /\ ~ROB[opEntryMap[e]].empty)
      => status[ROB[opEntryMap[e]].op] = FINISHED

(* The loop of Window::retireInstruction goes on while this holds.         *)
canRetire ==
  /\ ~ROB[robHead].empty
  /\ status[ROB[robHead].op] = FINISHED

-----------------------------------------------------------------------------
(* Operations on the reorder buffer.                                       *)

(* Erase the first key of the map that has this value.                     *)
removeItemByValue(map, slot) ==
  LET keys == {d \in Ops : map[d] = slot}
  IN IF keys = {} THEN map
     ELSE [map EXCEPT ![CHOOSE d \in keys : \A e \in keys : d <= e] = None]

(* Mutant: the key of the entry's former occupant stays in the map.        *)
addInstructionKeepsKey(d) ==
  /\ ROB' = [ROB EXCEPT ![robTail] = [op |-> d, empty |-> FALSE]]
  /\ opEntryMap' = [opEntryMap EXCEPT ![d] = robTail]
  /\ robTail' = (robTail + 1) % RobSize
  /\ robUsed' = robUsed + 1

addInstruction(d) ==
  /\ ROB' = [ROB EXCEPT ![robTail] = [op |-> d, empty |-> FALSE]]
  /\ opEntryMap' = [removeItemByValue(opEntryMap, robTail) EXCEPT ![d] = robTail]
  /\ robTail' = (robTail + 1) % RobSize
  /\ robUsed' = robUsed + 1

(* Mutant: the entry is not marked free.                                   *)
releaseHeadKeepsEntry ==
  /\ ROB' = ROB
  /\ robHead' = (robHead + 1) % RobSize
  /\ robUsed' = robUsed - 1

releaseHead ==
  /\ ROB' = [ROB EXCEPT ![robHead].empty = TRUE]
  /\ robHead' = (robHead + 1) % RobSize
  /\ robUsed' = robUsed - 1

-----------------------------------------------------------------------------
(* The operations of the window, one instruction at a time.                *)

Init ==
  /\ status = [d \in Ops |-> INIT]
  /\ dynDeps = [d \in Ops |-> {}]
  /\ nextOp = 0
  /\ ROB = [i \in Slots |-> [op |-> None, empty |-> TRUE]]
  /\ opEntryMap = [d \in Ops |-> None]
  /\ robHead = 0
  /\ robTail = 0
  /\ robUsed = 0
  /\ issueQueue = {}
  /\ issueQueueUsed = 0
  /\ totalCommit = 0

(* One iteration of the loop of Core::dispatch, with its part of           *)
(* insnToIssueQueues.  The dependencies D are instructions dispatched      *)
(* before, each the latest instance of a static instruction.               *)
Dispatch(D) ==
  /\ nextOp \in Ops
  /\ canDispatch
  /\ ~ifROBFull
  /\ status[nextOp] = INIT
  /\ status' = [status EXCEPT ![nextOp] = ALLOCATED]
  /\ addInstruction(nextOp)
  /\ issueQueue' = issueQueue \union {nextOp}
  /\ issueQueueUsed' = issueQueueUsed + 1
  /\ dynDeps' = [dynDeps EXCEPT ![nextOp] = D]
  /\ nextOp' = nextOp + 1
  /\ UNCHANGED <<robHead, totalCommit>>

(* IssueUnit::issue finds the operands of d but no free port.              *)
WaitForPort(d) ==
  /\ d \in issueQueue
  /\ checkInsnReady(d)
  /\ status[d] = ALLOCATED
  /\ status' = [status EXCEPT ![d] = READY]
  /\ UNCHANGED <<dynDeps, nextOp, robVars, issueQueue, issueQueueUsed,
                 totalCommit>>

(* IssueUnit::issue finds the operands of d and a port for it.             *)
Issue(d) ==
  /\ d \in issueQueue
  /\ checkInsnReady(d)
  /\ status' = [status EXCEPT ![d] = ISSUED]
  /\ issueQueue' = issueQueue \ {d}
  /\ issueQueueUsed' = issueQueueUsed - 1
  /\ UNCHANGED <<dynDeps, nextOp, robVars, totalCommit>>

(* The rest of the core: instructions that left the issue queue start to   *)
(* execute, go to sleep or finish, in any order and several in one step.   *)
Executing == {d \in Ops : status[d] \in InExecution}

Execute(S, becomes) ==
  /\ S \subseteq Executing
  /\ status' = [d \in Ops |-> IF d \in S THEN becomes[d] ELSE status[d]]
  /\ UNCHANGED <<dynDeps, nextOp, robVars, issueQueue, issueQueueUsed,
                 totalCommit>>

(* One iteration of the loop of Window::retireInstruction.                 *)
Retire ==
  /\ canRetire
  /\ status' = [status EXCEPT ![ROB[robHead].op] = COMMITED]
  /\ releaseHead
  /\ totalCommit' = totalCommit + 1
  /\ UNCHANGED <<dynDeps, nextOp, opEntryMap, robTail, issueQueue,
                 issueQueueUsed>>

(* The trace is exhausted and the window is empty: the simulation stops.   *)
Stopped ==
  /\ nextOp = NumOps
  /\ ifROBEmpty
  /\ UNCHANGED vars

Next ==
  \/ \E D \in SUBSET (0 .. nextOp - 1) : Dispatch(D)
  \/ \E d \in issueQueue : WaitForPort(d)
  \/ \E d \in issueQueue : Issue(d)
  \/ \E S \in SUBSET Executing :
       \E becomes \in [S -> {EXECUTING, SLEEP, FINISHED}] : Execute(S, becomes)
  \/ Retire
  \/ Stopped

Spec == Init /\ [][Next]_vars
-----------------------------------------------------------------------------
(* Properties.                                                             *)

(* Every variable has the type of its C++ member, and the two indices of   *)
(* the ring stay inside it.                                                *)
TypeOK ==
  /\ status \in [Ops -> Status]
  /\ dynDeps \in [Ops -> SUBSET Ops]
  /\ nextOp \in 0 .. NumOps
  /\ ROB \in [Slots -> [op : Ops \union {None}, empty : BOOLEAN]]
  /\ opEntryMap \in [Ops -> Slots \union {None}]
  /\ robHead \in Slots
  /\ robTail \in Slots
  /\ robUsed \in 0 .. RobSize
  /\ issueQueue \in SUBSET Ops
  /\ issueQueueUsed \in Int
  /\ totalCommit \in 0 .. NumOps

(* The entry i places after the head of the ring.                          *)
SlotAt(i) == IF robHead + i < RobSize THEN robHead + i ELSE robHead + i - RobSize

(* The reorder buffer holds exactly the instructions dispatched and not    *)
(* retired, from the head in program order, and the entries behind them    *)
(* are free; so the tests of one entry's flag by which ifROBFull and       *)
(* ifROBEmpty decide agree with the number of entries in use.              *)
RobHoldsInFlight ==
  /\ robUsed = nextOp - totalCommit
  /\ \A i \in 0 .. RobSize - 1 :
       IF i < robUsed
       THEN ROB[SlotAt(i)] = [op |-> totalCommit + i, empty |-> FALSE]
       ELSE ROB[SlotAt(i)].empty
  /\ ifROBFull <=> robUsed = RobSize
  /\ ifROBEmpty <=> robUsed = 0

(* The map names, for a key, the entry that holds that very instruction:   *)
(* no key outlives the reuse of its entry, and every instruction in flight *)
(* has its key.  The readiness test reads entries through this map only.   *)
MapNamesOccupant ==
  /\ \A d \in Ops : opEntryMap[d] # None => ROB[opEntryMap[d]].op = d
  /\ \A i \in Slots : ~ROB[i].empty => opEntryMap[ROB[i].op] = i

(* The window cannot block on data: when the oldest instruction in flight  *)
(* waits in the issue queue, the readiness test finds its operands.        *)
OldestCanIssue ==
  totalCommit \in issueQueue => checkInsnReady(totalCommit)

(* The window is an in-order-commit back end: its ring, map and statuses   *)
(* give only the behaviours of InOrderCommit.  In particular no            *)
(* instruction is issued before all the results it reads exist, and        *)
(* instructions retire in program order.                                   *)
Abstract == INSTANCE InOrderCommit WITH
  MaxInFlight <- RobSize,
  entered <- nextOp,
  committed <- totalCommit,
  deps <- dynDeps,
  started <- {d \in Ops : status[d] \in InExecution \union HasResult},
  done <- {d \in Ops : status[d] \in HasResult}

ImplementsInOrderCommit == Abstract!Spec
=============================================================================
