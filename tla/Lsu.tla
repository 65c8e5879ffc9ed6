-------------------------------- MODULE Lsu --------------------------------
(***************************************************************************)
(* The load/store unit (class LSUnit): a load queue, a store queue, store  *)
(* to load forwarding and the traffic with the first-level data cache.     *)
(*                                                                         *)
(* A store leaves for the cache after it retired; until then it stays in   *)
(* the store queue, and after as long as the cache refuses it.  A load is  *)
(* given the data of the youngest older store to its address in the store  *)
(* queue, or goes to the cache.  When that store has not its operands yet  *)
(* the load sleeps on the store's forwardList.                             *)
(*                                                                         *)
(* The core's part (dispatch in program order, issue in any order,         *)
(* execution, retirement in program order) is here as free as the unit can *)
(* see it.  The cache is external: it accepts any set of the requests      *)
(* offered in a cycle and answers loads in any order.                      *)
(***************************************************************************)
EXTENDS DynOp, FiniteSets

CONSTANTS LdqSize, StqSize,
          Programs  \* the traces: functions from Ops to kinds and addresses

ASSUME QueueSizesAssumption == LdqSize \in Nat /\ StqSize \in Nat

Kind == {"load", "store", "other"}

VARIABLES
  prog,          \* prog[d]: kind and address of instruction d, fixed
  status,        \* status[d]: DynamicOperation::status of instruction d
  nextOp,        \* the next instruction to dispatch
  totalCommit,   \* the oldest instruction that has not retired
  LDQ,           \* the loads that have an entry of the load queue
  STQ,           \* STQ[i]: the store in entry i of the store queue, or None
  forwardOp,     \* forwardOp[d]: the store that load d is forwarded from, or
                 \* None while dataForwarded is false
  forwardList,   \* forwardList[s]: the loads that wait for store s
  finished,      \* the loads whose flag finished is set
  outstanding,   \* the loads whose request the cache holds
  responses      \* the loads the cache has answered since the last wb()

queueVars == <<LDQ, STQ, forwardOp, forwardList>>
memVars == <<finished, outstanding, responses>>
vars == <<prog, status, nextOp, totalCommit, queueVars, memVars>>

isLoad(d)  == prog[d].kind = "load"
isStore(d) == prog[d].kind = "store"
getAddr(d) == prog[d].addr

StqSlots == 1 .. StqSize
Queued(q) == {q[i] : i \in StqSlots} \ {None}
InSTQ == Queued(STQ)

-----------------------------------------------------------------------------
(* Dispatch and retirement.                                                *)

ifLDQFull == Cardinality(LDQ) >= LdqSize
ifSTQFull == \A i \in StqSlots : STQ[i] # None

canDispatch(d) ==
  /\ isLoad(d) => ~ifLDQFull
  /\ isStore(d) => ~ifSTQFull

(* The first free entry: entries are not taken in program order.           *)
getFreeEntry ==
  CHOOSE i \in StqSlots : /\ STQ[i] = None
                          /\ \A j \in StqSlots : STQ[j] = None => i <= j

addInstruction(d) ==
  /\ LDQ' = IF isLoad(d) THEN LDQ \union {d} ELSE LDQ
  /\ STQ' = IF isStore(d) THEN [STQ EXCEPT ![getFreeEntry] = d] ELSE STQ
  /\ UNCHANGED <<forwardOp, forwardList>>

(* The test for a memory-order violation that retireInstruction makes for  *)
(* a store, and whose answer nothing in the core acts on.                  *)
shouldFlush(s) ==
  \E d \in LDQ :
    /\ d > s
    /\ getAddr(d) = getAddr(s)
    /\ IF forwardOp[d] # None THEN forwardOp[d] < s
                              ELSE status[d] >= EXECUTING

-----------------------------------------------------------------------------
(* The cycle of the unit.                                                  *)

(* Mutant: the oldest aliasing store, not the youngest.                    *)
forwardDataOldest(d, q) ==
  LET alias == {s \in Queued(q) : getAddr(s) = getAddr(d) /\ s < d /\ s > 0}
  IN IF alias = {} THEN None ELSE CHOOSE s \in alias : \A t \in alias : s <= t

(* Mutant: a store whose operands are not ready is passed over.            *)
forwardDataIfReady(d, q) ==
  LET alias == {s \in Queued(q) : /\ getAddr(s) = getAddr(d) /\ s < d /\ s > 0
                                  /\ status[s] >= READY}
  IN IF alias = {} THEN None ELSE CHOOSE s \in alias : \A t \in alias : t <= s

(* The youngest older store to the same address in the queue q.  The       *)
(* search starts with dynID = 0 as if it meant none, so it never finds     *)
(* instruction 0.                                                          *)
forwardData(d, q) ==
  LET alias == {s \in Queued(q) : getAddr(s) = getAddr(d) /\ s < d /\ s > 0}
  IN IF alias = {} THEN None ELSE CHOOSE s \in alias : \A t \in alias : t <= s

Committed == {d \in Ops : status[d] = COMMITED}

(* Stores the loop over the store queue may send, and the queue after it.  *)
Sendable == InSTQ \intersect Committed
AfterDrain(sent) == [i \in StqSlots |-> IF STQ[i] \in sent THEN None ELSE STQ[i]]

(* Loads that look for their data in this cycle.                           *)
Seeking == {d \in LDQ : status[d] = ISSUED}
Forwarded(q) == {d \in Seeking : forwardData(d, q) # None}

(* Stores whose data can be forwarded.                                     *)
DataReady == {s \in Ops : status[s] >= READY}

Woken == UNION {forwardList[s] : s \in InSTQ \intersect DataReady}

(* Mutant: a load forwarded from a store without data is put on no list.   *)
ListsAfterForgetful(q) ==
  [s \in Ops |-> IF s \in InSTQ \intersect DataReady THEN {} ELSE forwardList[s]]

(* Mutant: a store wakes the loads on its list and keeps the list.         *)
ListsAfterKeeping(q) ==
  [s \in Ops |-> forwardList[s] \union
                 {d \in Forwarded(q) : forwardData(d, q) = s /\ s \notin DataReady}]

(* The lists after both loops: those of stores with data are emptied, and  *)
(* loads forwarded from a store without data join its list.                *)
ListsAfter(q) ==
  [s \in Ops |-> IF s \in DataReady
                 THEN IF s \in InSTQ THEN {} ELSE forwardList[s]
                 ELSE forwardList[s] \union {d \in Forwarded(q) : forwardData(d, q) = s}]

(* LSUnit::process.  The loop over the store queue sends retired stores    *)
(* that the cache accepts, frees their entries, and wakes the loads that   *)
(* wait for a store whose operands are ready.  Then the loop over the load *)
(* queue serves the loads that were issued, from the store queue q as the  *)
(* first loop left it or by a request the cache accepts, and frees the     *)
(* entries of retired loads.                                               *)
process(sent, asked) ==
  LET q == AfterDrain(sent)
      forwarded == Forwarded(q)
      served == {d \in forwarded : forwardData(d, q) \in DataReady}
  IN
  /\ sent \subseteq Sendable
  /\ asked \subseteq Seeking \ forwarded
  /\ STQ' = q
  /\ LDQ' = LDQ \ Committed
  /\ status' = [d \in Ops |-> IF d \in forwarded THEN SLEEP
                              ELSE IF d \in asked THEN EXECUTING
                              ELSE status[d]]
  /\ forwardOp' = [d \in Ops |-> IF d \in forwarded THEN forwardData(d, q)
                                 ELSE forwardOp[d]]
  /\ forwardList' = ListsAfter(q)
  /\ finished' = finished \union Woken \union served
  /\ outstanding' = outstanding \union asked
  /\ UNCHANGED <<prog, nextOp, totalCommit, responses>>

(* LSUnit::wb: the answered loads have their data.                         *)
wb ==
  /\ finished' = finished \union responses
  /\ responses' = {}
  /\ UNCHANGED outstanding

(* The cache answers some of its loads.                                    *)
CacheRespond(S) ==
  /\ S # {}
  /\ S \subseteq outstanding
  /\ outstanding' = outstanding \ S
  /\ responses' = responses \union S
  /\ UNCHANGED <<prog, status, nextOp, totalCommit, queueVars, finished>>

-----------------------------------------------------------------------------
(* The core around the unit.                                               *)

Init ==
  /\ prog \in Programs
  /\ status = [d \in Ops |-> INIT]
  /\ nextOp = 0
  /\ totalCommit = 0
  /\ LDQ = {}
  /\ STQ = [i \in StqSlots |-> None]
  /\ forwardOp = [d \in Ops |-> None]
  /\ forwardList = [d \in Ops |-> {}]
  /\ finished = {}
  /\ outstanding = {}
  /\ responses = {}

(* One iteration of the loop of Core::dispatch.                            *)
Dispatch ==
  /\ nextOp \in Ops
  /\ canDispatch(nextOp)
  /\ status' = [status EXCEPT ![nextOp] = ALLOCATED]
  /\ addInstruction(nextOp)
  /\ nextOp' = nextOp + 1
  /\ UNCHANGED <<prog, totalCommit, memVars>>

(* The issue unit finds the operands of d, and a port for it or not.       *)
Issue(d, s) ==
  /\ status[d] \in {ALLOCATED, READY}
  /\ status' = [status EXCEPT ![d] = s]
  /\ UNCHANGED <<prog, nextOp, totalCommit, queueVars, memVars>>

(* Core::execute: instructions other than loads start to execute.          *)
Execute ==
  /\ status' = [d \in Ops |-> IF status[d] = ISSUED /\ ~isLoad(d) THEN EXECUTING
                              ELSE status[d]]
  /\ UNCHANGED <<prog, nextOp, totalCommit, queueVars, memVars>>

(* Core::writeBack: a load with data, and any other instruction once its   *)
(* execution time is over, becomes FINISHED.                               *)
MayFinish(d) == IF isLoad(d) THEN d \in finished' /\ status[d] \in {EXECUTING, SLEEP}
                             ELSE status[d] \in {ISSUED, EXECUTING}

WriteBack(S) ==
  /\ wb
  /\ \A d \in S : MayFinish(d)
  /\ status' = [d \in Ops |-> IF d \in S THEN FINISHED ELSE status[d]]
  /\ UNCHANGED <<prog, nextOp, totalCommit, queueVars>>

(* One iteration of the loop of Window::retireInstruction.                 *)
Commit ==
  /\ totalCommit < nextOp
  /\ status[totalCommit] = FINISHED
  /\ status' = [status EXCEPT ![totalCommit] = COMMITED]
  /\ totalCommit' = totalCommit + 1
  /\ UNCHANGED <<prog, nextOp, queueVars, memVars>>

Stopped ==
  /\ totalCommit = NumOps
  /\ UNCHANGED vars

Next ==
  \/ Dispatch
  \/ \E d \in Ops, s \in {READY, ISSUED} : Issue(d, s)
  \/ Execute
  \/ \E S \in SUBSET {d \in Ops : status[d] \in InExecution} : WriteBack(S)
  \/ Commit
  \/ \E sent \in SUBSET Sendable, asked \in SUBSET Seeking : process(sent, asked)
  \/ \E S \in SUBSET outstanding : CacheRespond(S)
  \/ Stopped

Spec == Init /\ [][Next]_vars
-----------------------------------------------------------------------------
(* Properties.                                                             *)

(* LSUnit::shouldFlush answers false for every store that may still        *)
(* retire.  Window::retireInstruction drops the answer, so the core is     *)
(* right to do so only if no load ever runs ahead of an aliasing store.    *)
NoFlushNeeded == \A s \in InSTQ : status[s] < COMMITED => ~shouldFlush(s)

(* No wakeup is lost: a load that sleeps without data is on the list of    *)
(* the store it was forwarded from, and that store is in the store queue,  *)
(* whose loop in LSUnit::process is all that can ever wake it.             *)
NoLostWakeup ==
  \A d \in Ops : status[d] = SLEEP /\ d \notin finished =>
    /\ forwardOp[d] \in InSTQ
    /\ d \in forwardList[forwardOp[d]]

(* The assertions of doForwardData and LDSTQ::completeInstruction: a load  *)
(* that is woken sleeps, and a load that is answered waits for the cache,  *)
(* each of them still in the load queue and without data so far.           *)
CompletionAssertsHold ==
  /\ \A s \in Ops : \A d \in forwardList[s] :
       d \in LDQ /\ status[d] = SLEEP /\ d \notin finished
  /\ \A d \in responses \union outstanding :
       d \in LDQ /\ status[d] = EXECUTING /\ d \notin finished

(* A load has the data of the youngest older store to its address that is  *)
(* still in the store queue; a load that asks the cache has none there.    *)
(* LSUnit::forwardData decides this once, while stores drain around it.    *)
LoadsFollowStores ==
  \A d \in LDQ, s \in InSTQ : s < d /\ getAddr(s) = getAddr(d) =>
    IF forwardOp[d] # None THEN s <= forwardOp[d] ELSE status[d] < EXECUTING

=============================================================================
