-------------------------------- MODULE Core --------------------------------
(***************************************************************************)
(* The back end of the core (class Core): the stages that Core::run calls  *)
(* once per cycle, over the instruction window and the load/store unit.    *)
(*                                                                         *)
(* A cycle is: the data cache answers, commit, writeBack, execute with     *)
(* LSUnit::process, issue, dispatch, fetch.  The stages run one after the  *)
(* other, so what one of them leaves behind the next one sees in the same  *)
(* cycle; the loops of a stage are steps of their own.                     *)
(*                                                                         *)
(* External here: the front end (some instructions of the trace become     *)
(* available in a cycle), the issue ports (an instruction finds one or     *)
(* not) and the data cache (it accepts and answers any of its requests).   *)
(***************************************************************************)
EXTENDS DynOp, FiniteSets

CONSTANTS RobSize, IssueQueueCapacity, LdqSize, StqSize,
          RetireSize, WindowSize,  \* instructions per cycle
          Programs  \* the traces: kind, address, static instruction (uid) and
                    \* its operands (deps), execution time in cycles (lat)

ASSUME WidthsAssumption == RetireSize \in Nat \ {0} /\ WindowSize \in Nat
ASSUME SizesAssumption ==
  /\ RobSize \in Nat \ {0}
  /\ IssueQueueCapacity \in Nat /\ LdqSize \in Nat /\ StqSize \in Nat
ASSUME TracesAssumption ==
  \A p \in Programs : \A d \in Ops : p[d].uid \in Ops /\ p[d].deps \subseteq Ops

VARIABLES
  prog, status, nextOp, totalCommit,
  dynDeps, ROB, opEntryMap, robHead, robTail, robUsed,
  issueQueue, issueQueueUsed,
  LDQ, STQ, forwardOp, forwardList, finished, outstanding, responses,
  uidDynOpMap,   \* the latest dispatched instance of a static instruction
  inFlightInsn,  \* the instructions issued and not yet removed by commit
  currentCycle,  \* currentCycle[d]: cycles d has executed, up to its lat
  fetched,       \* insnQueue holds instructions nextOp .. fetched - 1
  running,
  stage,         \* the stage of Core::run that is next
  n,             \* instructions the stage has handled in this cycle
  pos            \* the scan of the issue queue goes on at this instruction

W == INSTANCE Window
L == INSTANCE Lsu

robVars == <<ROB, opEntryMap, robHead, robTail, robUsed>>
queueVars == <<LDQ, STQ, forwardOp, forwardList>>
memVars == <<finished, outstanding, responses>>
windowVars == <<dynDeps, robVars, issueQueue, issueQueueUsed>>
opVars == <<prog, status, nextOp, totalCommit>>
coreVars == <<uidDynOpMap, inFlightInsn, currentCycle, fetched>>
vars == <<opVars, windowVars, queueVars, memVars, coreVars, running, stage, n,
          pos>>

GoTo(s) == stage' = s /\ n' = 0 /\ pos' = 0 /\ UNCHANGED running
Continue == n' = n + 1 /\ UNCHANGED <<running, stage, pos>>

isLoad(d) == L!isLoad(d)

Init ==
  /\ W!Init
  /\ L!Init
  /\ uidDynOpMap = [u \in Ops |-> None]
  /\ inFlightInsn = {}
  /\ currentCycle = [d \in Ops |-> 0]
  /\ fetched = 0
  /\ running = TRUE
  /\ stage = "cache"
  /\ n = 0
  /\ pos = 0

-----------------------------------------------------------------------------
(* The data cache.                                                         *)

Cache(S) ==
  /\ stage = "cache" /\ running
  /\ IF S = {} THEN UNCHANGED <<opVars, queueVars, memVars>>
              ELSE L!CacheRespond(S)
  /\ GoTo("commit")
  /\ UNCHANGED <<windowVars, coreVars>>

-----------------------------------------------------------------------------
(* Core::commit.                                                           *)

Retire ==
  /\ stage = "commit" /\ n < RetireSize
  /\ W!Retire
  /\ L!Commit
  /\ Continue
  /\ UNCHANGED coreVars

(* Mutant: retired instructions stay among those in flight.                *)
EndCommitKeepsRetired ==
  /\ stage = "commit"
  /\ n >= RetireSize \/ ~W!canRetire
  /\ GoTo("writeBack")
  /\ UNCHANGED <<opVars, windowVars, queueVars, memVars, coreVars>>

EndCommit ==
  /\ stage = "commit"
  /\ n >= RetireSize \/ ~W!canRetire
  /\ inFlightInsn' = inFlightInsn \ L!Committed
  /\ GoTo("writeBack")
  /\ UNCHANGED <<opVars, windowVars, queueVars, memVars, uidDynOpMap, currentCycle, fetched>>

-----------------------------------------------------------------------------
(* Core::writeBack and Core::execute.                                      *)

(* Mutant: a load is finished by its execution time alone.                 *)
finishByTime(d) == currentCycle[d] >= prog[d].lat

(* finish(), after wb() set the flags of answered loads.                   *)
finish(d) ==
  /\ currentCycle[d] >= prog[d].lat
  /\ isLoad(d) => d \in finished'

WriteBack ==
  /\ stage = "writeBack"
  /\ L!wb
  /\ status' = [d \in Ops |-> IF d \in inFlightInsn /\ finish(d) THEN FINISHED
                              ELSE status[d]]
  /\ GoTo("execute")
  /\ UNCHANGED <<prog, nextOp, totalCommit, windowVars, queueVars, coreVars>>

(* The loop of Core::execute.                                              *)
Execute ==
  /\ stage = "execute"
  /\ LET active == {d \in inFlightInsn : status[d] # FINISHED}
     IN /\ status' = [d \in Ops |->
                        IF d \in active /\ status[d] = ISSUED /\ ~isLoad(d)
                        THEN EXECUTING ELSE status[d]]
        /\ currentCycle' = [d \in Ops |->
                              IF d \in active /\ currentCycle[d] < prog[d].lat
                              THEN currentCycle[d] + 1 ELSE currentCycle[d]]
  /\ GoTo("lsu")
  /\ UNCHANGED <<prog, nextOp, totalCommit, windowVars, queueVars, memVars,
                 uidDynOpMap, inFlightInsn, fetched>>

(* The call of LSUnit::process that ends Core::execute.                    *)
LsuProcess(sent, asked) ==
  /\ stage = "lsu"
  /\ L!process(sent, asked)
  /\ GoTo("issue")
  /\ UNCHANGED <<windowVars, coreVars>>

-----------------------------------------------------------------------------
(* Core::issue: IssueUnit::issue scans the issue queue, oldest first.      *)

(* The instruction of the queue whose turn it is: the first one from pos   *)
(* on that has its operands.                                               *)
Ready == {d \in issueQueue : d >= pos /\ W!checkInsnReady(d)}
IsNext(d) == d \in Ready /\ \A e \in Ready : d <= e

(* The scan goes on, or stops because all ports are occupied.              *)
ScanOn(d) == pos' = d + 1 /\ UNCHANGED <<running, stage, n>>
ScanOnOrStop(d) == ScanOn(d) \/ GoTo("dispatch")

Issue(d) ==
  /\ stage = "issue"
  /\ IsNext(d)
  /\ W!Issue(d)
  /\ L!Issue(d, ISSUED)
  /\ inFlightInsn' = inFlightInsn \union {d}
  /\ ScanOnOrStop(d)
  /\ UNCHANGED <<uidDynOpMap, currentCycle, fetched>>

NoPort(d) ==
  /\ stage = "issue"
  /\ IsNext(d)
  /\ status' = [status EXCEPT ![d] = READY]
  /\ ScanOnOrStop(d)
  /\ UNCHANGED <<prog, nextOp, totalCommit, windowVars, queueVars, memVars,
                 coreVars>>

EndIssue ==
  /\ stage = "issue"
  /\ Ready = {}
  /\ GoTo("dispatch")
  /\ UNCHANGED <<opVars, windowVars, queueVars, memVars, coreVars>>

-----------------------------------------------------------------------------
(* Core::dispatch.                                                         *)

(* Mutant: the first instance of an operand is kept, not the latest.       *)
registeredFirst(d) ==
  IF uidDynOpMap[prog[d].uid] = None THEN [uidDynOpMap EXCEPT ![prog[d].uid] = d]
                                     ELSE uidDynOpMap

(* uidDynOpMap once d is registered as the latest instance of its static   *)
(* instruction, which insnToIssueQueues does before it looks up operands.  *)
registered(d) == [uidDynOpMap EXCEPT ![prog[d].uid] = d]

addDynDeps(d) == {registered(d)[u] : u \in prog[d].deps} \ {None}

DispatchGuard ==
  /\ n < WindowSize
  /\ nextOp < fetched
  /\ W!canDispatch
  /\ ~W!ifROBFull
  /\ L!canDispatch(nextOp)

Dispatch ==
  /\ stage = "dispatch"
  /\ DispatchGuard
  /\ W!Dispatch(addDynDeps(nextOp))
  /\ L!Dispatch
  /\ uidDynOpMap' = registered(nextOp)
  /\ Continue
  /\ UNCHANGED <<inFlightInsn, currentCycle, fetched>>

EndDispatch ==
  /\ stage = "dispatch"
  /\ ~DispatchGuard
  /\ GoTo("fetch")
  /\ UNCHANGED <<opVars, windowVars, queueVars, memVars, coreVars>>

-----------------------------------------------------------------------------
(* The end of Core::run: k instructions arrive in insnQueue, and the       *)
(* simulation stops when nothing is left to do.                            *)

(* Mutant: the test forgets the instructions in flight and in the ROB.     *)
nothingLeftEarly(f) == f = NumOps /\ nextOp = NumOps /\ issueQueue = {}

nothingLeft(f) ==
  /\ f = NumOps
  /\ nextOp = NumOps
  /\ issueQueue = {}
  /\ inFlightInsn = {}
  /\ W!ifROBEmpty

Fetch(k) ==
  /\ stage = "fetch"
  /\ fetched' = fetched + k
  /\ running' = ~nothingLeft(fetched + k)
  /\ stage' = "cache" /\ n' = 0 /\ pos' = 0
  /\ UNCHANGED <<opVars, windowVars, queueVars, memVars, uidDynOpMap,
                 inFlightInsn, currentCycle>>

(* The loop of main() ends when the core no longer runs.                   *)
Stopped == ~running /\ UNCHANGED vars

Next ==
  \/ \E S \in SUBSET outstanding : Cache(S)
  \/ Retire \/ EndCommit \/ WriteBack \/ Execute
  \/ \E sent \in SUBSET L!Sendable, asked \in SUBSET L!Seeking :
       LsuProcess(sent, asked)
  \/ \E d \in issueQueue : Issue(d) \/ NoPort(d)
  \/ EndIssue \/ Dispatch \/ EndDispatch
  \/ \E k \in 0 .. NumOps - fetched : Fetch(k)
  \/ Stopped

Spec == Init /\ [][Next]_vars

-----------------------------------------------------------------------------
(* Fairness.  main() calls Core::run as long as the core runs; the port,   *)
(* the cache and the front end may refuse for any time but not for ever.   *)

(* The cache takes the oldest instruction's request, and a retired store.  *)
CacheAccepts ==
  \E sent \in SUBSET L!Sendable, asked \in SUBSET L!Seeking :
    /\ L!Sendable # {} => sent # {}
    /\ totalCommit \in L!Seeking =>
         totalCommit \in asked \union L!Forwarded(L!AfterDrain(sent))
    /\ LsuProcess(sent, asked)

Fairness ==
  /\ WF_vars(Next)
  /\ SF_vars(\E d \in issueQueue : d = totalCommit /\ Issue(d))
  /\ SF_vars(CacheAccepts)
  /\ SF_vars(\E S \in SUBSET outstanding :
               /\ totalCommit \in outstanding => totalCommit \in S
               /\ Cache(S))
  /\ SF_vars(\E k \in 1 .. NumOps - fetched : Fetch(k))

FairSpec == Spec /\ Fairness
-----------------------------------------------------------------------------
(* Properties.                                                             *)

(* The stages of the core, its execution and the load/store unit make only *)
(* the steps that the window allows: what they do to the status of an      *)
(* instruction never surprises the window, though none of them asks it.    *)
(* With WindowImplementsInOrderCommit, the core is an InOrderCommit.       *)
ImplementsWindow == W!Spec

(* inFlightInsn, the only way by which writeBack finds instructions, holds *)
(* those that have been issued and have not retired; the retired ones are  *)
(* gone before writeBack looks at them.                                    *)
InFlightAgrees ==
  LET issued == {d \in Ops : status[d] \in InExecution \union {FINISHED}}
  IN /\ inFlightInsn \ L!Committed = issued
     /\ stage # "commit" => inFlightInsn = issued

(* "we just want to build dependency to last instance (dynop) of static    *)
(* insn" (Core::insnToIssueQueues): an instruction reads, of each operand, *)
(* the instance that precedes it most closely in the trace, if there is    *)
(* one.                                                                    *)
LastInstance(u, d) ==
  CHOOSE e \in 0 .. d - 1 : /\ prog[e].uid = u
                            /\ \A f \in e + 1 .. d - 1 : prog[f].uid # u

DepsAreLastInstances ==
  \A d \in 0 .. nextOp - 1 :
    dynDeps[d] = {LastInstance(u, d) :
                    u \in {v \in prog[d].deps : \E e \in 0 .. d - 1 : prog[e].uid = v}}

(* The core stops only when the whole trace has retired: the queues that   *)
(* the test at the end of Core::run looks at miss no instruction.          *)
StopsWhenDone == ~running => totalCommit = NumOps

(* The simulation of a trace comes to its end: the core never waits for    *)
(* itself, through a full queue, a sleeping load, an operand that never    *)
(* comes or an instruction that no stage looks at any more.                *)
SimulationStops == <>~running
=============================================================================
