----------------------------- MODULE CoreProofs -----------------------------
(***************************************************************************)
(* Theorems about Core: its stages make only steps that Window and Lsu     *)
(* allow, so what is proved of these two holds in the core.                *)
(***************************************************************************)
EXTENDS Core, TLAPS

WP == INSTANCE WindowProofs
LP == INSTANCE LsuProofs

USE DEF Ops, W!Ops, WP!Ops, L!Ops, LP!Ops, None, W!None, WP!None, L!None, LP!None,
  INIT, W!INIT, WP!INIT, L!INIT, LP!INIT,
  ALLOCATED, W!ALLOCATED, WP!ALLOCATED, L!ALLOCATED, LP!ALLOCATED,
  READY, W!READY, WP!READY, L!READY, LP!READY,
  ISSUED, W!ISSUED, WP!ISSUED, L!ISSUED, LP!ISSUED,
  EXECUTING, W!EXECUTING, WP!EXECUTING, L!EXECUTING, LP!EXECUTING,
  FINISHED, W!FINISHED, WP!FINISHED, L!FINISHED, LP!FINISHED,
  COMMITED, W!COMMITED, WP!COMMITED, L!COMMITED, LP!COMMITED,
  SLEEP, W!SLEEP, WP!SLEEP, L!SLEEP, LP!SLEEP,
  InExecution, W!InExecution, WP!InExecution, L!InExecution, LP!InExecution

-----------------------------------------------------------------------------
(* The two instances of a module are the same specification.               *)

LEMMA SameWindow ==
  /\ W!Init <=> WP!Init
  /\ W!Next <=> WP!Next
  /\ W!vars = WP!vars
BY DEF W!HasResult, WP!HasResult, W!robVars, WP!robVars, W!vars, WP!vars,
       W!Slots, WP!Slots, W!canDispatch, WP!canDispatch, W!ifROBFull,
       WP!ifROBFull, W!ifROBEmpty, WP!ifROBEmpty, W!checkInsnReady,
       WP!checkInsnReady, W!canRetire, WP!canRetire, W!removeItemByValue,
       WP!removeItemByValue, W!addInstruction, WP!addInstruction,
       W!releaseHead, WP!releaseHead, W!Dispatch, WP!Dispatch, W!WaitForPort,
       WP!WaitForPort, W!Issue, WP!Issue, W!Executing, WP!Executing,
       W!Execute, WP!Execute, W!Retire, WP!Retire, W!Stopped, WP!Stopped,
       W!Next, WP!Next, W!Init, WP!Init

LEMMA SameWindowStep == [W!Next]_(W!vars) <=> [WP!Next]_(WP!vars)
BY SameWindow DEF W!vars, WP!vars, W!robVars, WP!robVars

LEMMA SameLsuInit == (L!Init <=> LP!Init) /\ L!vars = LP!vars
BY DEF L!Init, LP!Init, L!StqSlots, LP!StqSlots, L!vars, LP!vars, L!queueVars,
       LP!queueVars, L!memVars, LP!memVars

LEMMA SameLsuOperators ==
  /\ \A q : L!Queued(q) = LP!Queued(q)
  /\ \A d, q : L!forwardData(d, q) = LP!forwardData(d, q)
  /\ L!getFreeEntry = LP!getFreeEntry
  /\ \A sent : L!AfterDrain(sent) = LP!AfterDrain(sent)
  /\ \A q : L!Forwarded(q) = LP!Forwarded(q)
  /\ L!InSTQ = LP!InSTQ /\ L!DataReady = LP!DataReady
  /\ L!Committed = LP!Committed /\ L!Sendable = LP!Sendable
  /\ L!Seeking = LP!Seeking /\ L!Woken = LP!Woken
<1> USE DEF L!StqSlots, LP!StqSlots
<1>1. \A q : L!Queued(q) = LP!Queued(q)
  BY DEF L!Queued, LP!Queued
<1>2. L!Committed = LP!Committed /\ L!DataReady = LP!DataReady /\ L!Seeking = LP!Seeking
  BY DEF L!Committed, LP!Committed, L!DataReady, LP!DataReady, L!Seeking, LP!Seeking
<1>3. L!InSTQ = LP!InSTQ
  BY <1>1 DEF L!InSTQ, LP!InSTQ
<1>4. L!Sendable = LP!Sendable /\ L!Woken = LP!Woken
  BY <1>2, <1>3 DEF L!Sendable, LP!Sendable, L!Woken, LP!Woken
<1>5. ASSUME NEW d, NEW q PROVE L!forwardData(d, q) = LP!forwardData(d, q)
  <2> DEFINE alias(queued) == {s \in queued : prog[s].addr = prog[d].addr /\ s < d /\ s > 0}
  <2> DEFINE youngest(queued) ==
        IF alias(queued) = {} THEN None
        ELSE CHOOSE s \in alias(queued) : \A e \in alias(queued) : e <= s
  <2>1. L!forwardData(d, q) = youngest(L!Queued(q))
    BY Zenon DEF L!forwardData, L!getAddr
  <2>2. LP!forwardData(d, q) = youngest(LP!Queued(q))
    BY Zenon DEF LP!forwardData, LP!getAddr
  <2> HIDE DEF youngest
  <2>3. QED
    BY <1>1, <2>1, <2>2
<1>6. ASSUME NEW q PROVE L!Forwarded(q) = LP!Forwarded(q)
  BY <1>2, <1>5 DEF L!Forwarded, LP!Forwarded
<1>7. ASSUME NEW sent PROVE L!AfterDrain(sent) = LP!AfterDrain(sent)
  BY DEF L!AfterDrain, LP!AfterDrain
<1>8. L!getFreeEntry = LP!getFreeEntry
  BY DEF L!getFreeEntry, LP!getFreeEntry
<1>9. QED
  BY <1>1, <1>2, <1>3, <1>4, <1>5, <1>6, <1>7, <1>8

LEMMA SameProcess ==
  ASSUME NEW sent, NEW asked
  PROVE  L!process(sent, asked) <=> LP!process(sent, asked)
<1>1. \A q : L!ListsAfter(q) = LP!ListsAfter(q)
  BY SameLsuOperators DEF L!ListsAfter, LP!ListsAfter
<1>2. QED
  BY <1>1, SameLsuOperators DEF L!process, LP!process

LEMMA SameLsu == L!Next <=> LP!Next
<1>1. L!Dispatch <=> LP!Dispatch
  <2>1. \A d : L!addInstruction(d) <=> LP!addInstruction(d)
    BY SameLsuOperators DEF L!addInstruction, LP!addInstruction, L!isLoad,
       LP!isLoad, L!isStore, LP!isStore
  <2>2. \A d : L!canDispatch(d) <=> LP!canDispatch(d)
    <3>1. L!Cardinality(LDQ) = LP!Cardinality(LDQ)
      BY DEF L!Cardinality, LP!Cardinality
    <3>2. QED
      BY <3>1 DEF L!canDispatch, LP!canDispatch, L!isLoad, LP!isLoad, L!isStore,
         LP!isStore, L!ifLDQFull, LP!ifLDQFull, L!ifSTQFull, LP!ifSTQFull,
         L!StqSlots, LP!StqSlots
  <2>3. QED
    BY <2>1, <2>2 DEF L!Dispatch, LP!Dispatch, L!memVars, LP!memVars
<1>2. \A d, s : L!Issue(d, s) <=> LP!Issue(d, s)
  BY DEF L!Issue, LP!Issue, L!queueVars, LP!queueVars, L!memVars, LP!memVars
<1>3. L!Execute <=> LP!Execute
  BY DEF L!Execute, LP!Execute, L!isLoad, LP!isLoad, L!queueVars,
         LP!queueVars, L!memVars, LP!memVars
<1>4. \A S : L!WriteBack(S) <=> LP!WriteBack(S)
  BY DEF L!WriteBack, LP!WriteBack, L!wb, LP!wb, L!MayFinish, LP!MayFinish,
         L!isLoad, LP!isLoad, L!queueVars, LP!queueVars
<1>5. L!Commit <=> LP!Commit
  BY DEF L!Commit, LP!Commit, L!queueVars, LP!queueVars, L!memVars, LP!memVars
<1>6. \A S : L!CacheRespond(S) <=> LP!CacheRespond(S)
  BY DEF L!CacheRespond, LP!CacheRespond, L!queueVars, LP!queueVars
<1>7. L!Stopped <=> LP!Stopped
  BY DEF L!Stopped, LP!Stopped, L!vars, LP!vars, L!queueVars, LP!queueVars,
         L!memVars, LP!memVars
<1>8. QED
  BY <1>1, <1>2, <1>3, <1>4, <1>5, <1>6, <1>7, SameLsuOperators, SameProcess
  DEF L!Next, LP!Next

LEMMA SameLsuStep == [L!Next]_(L!vars) <=> [LP!Next]_(LP!vars)
BY SameLsu DEF L!vars, LP!vars, L!queueVars, LP!queueVars, L!memVars, LP!memVars

-----------------------------------------------------------------------------
(* The inductive invariant.                                                *)

(* uidDynOpMap has, of each static instruction, the last dispatched        *)
(* instance, if there is one.                                              *)
LastDispatched ==
  /\ uidDynOpMap \in [Ops -> Ops \union {None}]
  /\ \A u \in Ops :
       LET i == uidDynOpMap[u]
       IN IF \E e \in 0 .. nextOp - 1 : prog[e].uid = u
          THEN /\ i \in 0 .. nextOp - 1
               /\ prog[i].uid = u
               /\ \A f \in i + 1 .. nextOp - 1 : prog[f].uid # u
          ELSE i = None

(* A core that has stopped is between two cycles.                          *)
StoppedAtEnd == ~running => stage = "cache" /\ totalCommit = NumOps

CInv ==
  /\ WP!IInv
  /\ LP!IInv
  /\ inFlightInsn \in SUBSET Ops
  /\ InFlightAgrees
  /\ LastDispatched
  /\ DepsAreLastInstances
  /\ StoppedAtEnd

(* What the core asks of a trace: no instruction is an operand of itself.  *)
(* insnToIssueQueues would make such an instruction wait for itself.       *)
NoOwnOperand ==
  \A p \in Programs : \A d \in Ops : p[d].uid \notin p[d].deps

(* What the invariants of the window and of the load/store unit say of the *)
(* statuses.                                                               *)
LEMMA Statuses ==
  ASSUME CInv
  PROVE  /\ prog \in Programs
         /\ status \in [Ops -> 0 .. 7]
         /\ nextOp \in 0 .. NumOps
         /\ totalCommit \in 0 .. NumOps
         /\ issueQueue \in SUBSET Ops
         /\ \A d \in Ops : d \in issueQueue <=> status[d] \in {ALLOCATED, READY}
         /\ \A d \in Ops : d >= nextOp => status[d] = INIT
         /\ \A d \in Ops : status[d] = SLEEP => isLoad(d)
         /\ \A d \in finished \union responses : d \in Ops /\ status[d] >= EXECUTING
<1>1. /\ prog \in Programs /\ finished \in SUBSET Ops /\ responses \in SUBSET Ops
      /\ status \in [Ops -> 0 .. 7] /\ nextOp \in 0 .. NumOps
      /\ totalCommit \in 0 .. NumOps
  BY DEF CInv, LP!IInv, LP!TypeOK, LP!Status
<1>2. /\ issueQueue \in SUBSET Ops
      /\ \A d \in Ops : d \in issueQueue <=> status[d] \in {ALLOCATED, READY}
      /\ \A d \in Ops : d >= nextOp => status[d] = INIT
  BY DEF CInv, WP!IInv, WP!TypeOK, WP!StatusAgrees
<1>3. \A d \in Ops : status[d] = SLEEP => isLoad(d)
  BY DEF CInv, LP!IInv, LP!StatusAgrees, LP!isLoad, isLoad, L!isLoad
<1>4. \A d \in finished : status[d] >= EXECUTING
  BY <1>1 DEF CInv, LP!IInv, LP!StatusAgrees
<1>5. \A d \in responses : status[d] >= EXECUTING
  BY <1>1 DEF CInv, LP!IInv, LP!CompletionAssertsHold
<1>6. QED
  BY <1>1, <1>2, <1>3, <1>4, <1>5

-----------------------------------------------------------------------------
(* Every step of the core is one of the window, or leaves it alone.        *)

(* Instructions in execution may change their statuses in any way.         *)
LEMMA ExecutionStep ==
  ASSUME status \in [Ops -> 0 .. 7],
         status' = [d \in Ops |-> status'[d]],
         \A d \in Ops : \/ status'[d] = status[d]
                        \/ /\ status[d] \in InExecution
                           /\ status'[d] \in {EXECUTING, SLEEP, FINISHED},
         UNCHANGED <<nextOp, totalCommit, windowVars>>
  PROVE  W!Next
<1> DEFINE S == {d \in Ops : status[d] \in InExecution /\ status'[d] # status[d]}
<1> DEFINE becomes == [d \in S |-> status'[d]]
<1>1. S \in SUBSET W!Executing /\ becomes \in [S -> {EXECUTING, SLEEP, FINISHED}]
  BY DEF W!Executing
<1>2. status' = [d \in Ops |-> IF d \in S THEN becomes[d] ELSE status[d]]
  OBVIOUS
<1>3. W!Execute(S, becomes)
  BY <1>1, <1>2 DEF W!Execute, windowVars, robVars, W!robVars
<1>4. QED
  BY <1>1, <1>3 DEF W!Next

LEMMA RegisteredEarlier ==
  ASSUME NoOwnOperand, CInv, nextOp \in Ops
  PROVE  addDynDeps(nextOp) \in SUBSET (0 .. nextOp - 1)
<1>1. prog \in Programs
  BY Statuses
<1>2. /\ prog[nextOp].uid \in Ops /\ prog[nextOp].deps \subseteq Ops
      /\ prog[nextOp].uid \notin prog[nextOp].deps
  BY <1>1, TracesAssumption DEF NoOwnOperand
<1>3. \A u \in prog[nextOp].deps : registered(nextOp)[u] = uidDynOpMap[u]
  BY <1>2 DEF registered, CInv, LastDispatched
<1>4. \A u \in Ops : uidDynOpMap[u] \in (0 .. nextOp - 1) \union {None}
  BY DEF CInv, LastDispatched
<1>5. QED
  BY <1>2, <1>3, <1>4 DEF addDynDeps

LEMMA WindowStep ==
  ASSUME NoOwnOperand, CInv, Next
  PROVE  [W!Next]_(W!vars)
<1> USE DEF opVars, windowVars, robVars, W!robVars, W!vars
<1>1. ASSUME NEW S \in SUBSET outstanding, Cache(S) PROVE UNCHANGED W!vars
  BY <1>1 DEF Cache, L!CacheRespond
<1>2. ASSUME Retire PROVE W!Next
  BY <1>2 DEF Retire, W!Next
<1>3. ASSUME EndCommit PROVE UNCHANGED W!vars
  BY <1>3 DEF EndCommit
<1>4. ASSUME WriteBack PROVE W!Next
  <2>1. \A d \in inFlightInsn : d \in Ops /\ status[d] \in InExecution \union {FINISHED}
    BY <1>4 DEF WriteBack, CInv, InFlightAgrees
  <2>2. \A d \in Ops : \/ status'[d] = status[d]
                       \/ status[d] \in InExecution /\ status'[d] = FINISHED
    BY <1>4, <2>1 DEF WriteBack
  <2>3. status' = [d \in Ops |-> status'[d]]
    BY <1>4 DEF WriteBack
  <2>4. QED
    BY <1>4, <2>2, <2>3, Statuses, ExecutionStep DEF WriteBack
<1>5. ASSUME Execute PROVE W!Next
  <2>1. \A d \in Ops : \/ status'[d] = status[d]
                       \/ status[d] = ISSUED /\ status'[d] = EXECUTING
    BY <1>5 DEF Execute
  <2>2. status' = [d \in Ops |-> status'[d]]
    BY <1>5 DEF Execute
  <2>3. QED
    BY <1>5, <2>1, <2>2, Statuses, ExecutionStep DEF Execute
<1>6. ASSUME NEW sent, NEW asked, LsuProcess(sent, asked) PROVE W!Next
  <2>1. \A d \in Ops : \/ status'[d] = status[d]
                       \/ status[d] = ISSUED /\ status'[d] \in {EXECUTING, SLEEP}
    BY <1>6 DEF LsuProcess, L!process, L!Forwarded, L!Seeking
  <2>2. status' = [d \in Ops |-> status'[d]]
    BY <1>6 DEF LsuProcess, L!process
  <2>3. UNCHANGED <<nextOp, totalCommit, windowVars>>
    BY <1>6 DEF LsuProcess, L!process
  <2>4. QED
    BY <2>1, <2>2, <2>3, Statuses, ExecutionStep
<1>7. ASSUME NEW d \in issueQueue, Issue(d) PROVE W!Next
  BY <1>7 DEF Issue, W!Next
<1>8. ASSUME NEW d \in issueQueue, NoPort(d) PROVE [W!Next]_(W!vars)
  <2>1. /\ status[d] \in {ALLOCATED, READY} /\ status \in [Ops -> 0 .. 7]
        /\ d \in Ops
    BY Statuses
  <2>2. W!checkInsnReady(d) /\ status' = [status EXCEPT ![d] = READY]
    BY <1>8 DEF NoPort, IsNext, Ready
  <2>3. CASE status[d] = ALLOCATED
    <3>1. W!WaitForPort(d)
      BY <1>8, <2>2, <2>3 DEF NoPort, W!WaitForPort
    <3>2. QED
      BY <3>1 DEF W!Next
  <2>4. CASE status[d] = READY
    <3>1. status' = status
      BY <2>1, <2>2, <2>4
    <3>2. QED
      BY <1>8, <3>1 DEF NoPort
  <2>5. QED
    BY <2>1, <2>3, <2>4
<1>9. ASSUME EndIssue \/ EndDispatch PROVE UNCHANGED W!vars
  BY <1>9 DEF EndIssue, EndDispatch
<1>10. ASSUME Dispatch PROVE W!Next
  <2>1. nextOp \in Ops
    BY <1>10 DEF Dispatch, W!Dispatch
  <2>2. W!Dispatch(addDynDeps(nextOp))
    BY <1>10 DEF Dispatch
  <2>3. QED
    BY <2>1, <2>2, RegisteredEarlier DEF W!Next
<1>11. ASSUME NEW k, Fetch(k) PROVE UNCHANGED W!vars
  BY <1>11 DEF Fetch
<1>12. ASSUME Stopped PROVE UNCHANGED W!vars
  BY <1>12 DEF Stopped, vars
<1>13. QED
  BY <1>1, <1>2, <1>3, <1>4, <1>5, <1>6, <1>7, <1>8, <1>9, <1>10, <1>11, <1>12
  DEF Next

-----------------------------------------------------------------------------
(* Every step of the core is one of the load/store unit, or leaves it      *)
(* alone.                                                                  *)

LEMMA LsuStep ==
  ASSUME CInv, Next
  PROVE  [L!Next]_(L!vars)
<1> USE DEF opVars, queueVars, memVars, L!queueVars, L!memVars, L!vars
<1>1. ASSUME NEW S \in SUBSET outstanding, Cache(S) PROVE [L!Next]_(L!vars)
  <2>1. CASE S = {}
    BY <1>1, <2>1 DEF Cache
  <2>2. CASE S # {}
    BY <1>1, <2>2 DEF Cache, L!Next
  <2>3. QED
    BY <2>1, <2>2
<1>2. ASSUME Retire PROVE L!Next
  BY <1>2 DEF Retire, L!Next
<1>3. ASSUME EndCommit PROVE UNCHANGED L!vars
  BY <1>3 DEF EndCommit
<1>4. ASSUME WriteBack PROVE L!Next
  <2> DEFINE S == {d \in inFlightInsn : finish(d) /\ status[d] # FINISHED}
  <2>1. \A d \in inFlightInsn : d \in Ops /\ status[d] \in InExecution \union {FINISHED}
    BY <1>4 DEF WriteBack, CInv, InFlightAgrees
  <2>2. S \in SUBSET {d \in Ops : status[d] \in L!InExecution}
    BY <2>1
  <2>3. status' = [d \in Ops |-> IF d \in S THEN FINISHED ELSE status[d]]
    <3>1. \A d \in Ops : status'[d] = IF d \in S THEN FINISHED ELSE status[d]
      BY <1>4 DEF WriteBack
    <3>2. QED
      BY <1>4, <3>1 DEF WriteBack
  <2>4. ASSUME NEW d \in S PROVE L!MayFinish(d)
    <3>1. CASE L!isLoad(d)
      <4>1. d \in finished'
        BY <3>1 DEF finish, isLoad
      <4>2. d \in finished \union responses
        BY <1>4, <4>1 DEF WriteBack, L!wb
      <4>3. QED
        BY <2>1, <3>1, <4>1, <4>2, Statuses DEF L!MayFinish
    <3>2. CASE ~L!isLoad(d)
      BY <2>1, <3>2, Statuses DEF L!MayFinish, isLoad
    <3>3. QED
      BY <3>1, <3>2
  <2> HIDE DEF S
  <2>5. L!WriteBack(S)
    BY <1>4, <2>3, <2>4 DEF WriteBack, L!WriteBack
  <2>6. QED
    BY <2>2, <2>5 DEF L!Next
<1>5. ASSUME Execute PROVE L!Next
  <2>1. \A d \in Ops : status[d] = ISSUED => d \in inFlightInsn
    BY <1>5 DEF Execute, CInv, InFlightAgrees
  <2>2. status' = [d \in Ops |-> IF status[d] = ISSUED /\ ~L!isLoad(d)
                                 THEN EXECUTING ELSE status[d]]
    <3>1. \A d \in Ops : status'[d] = IF status[d] = ISSUED /\ ~L!isLoad(d)
                                      THEN EXECUTING ELSE status[d]
      BY <1>5, <2>1 DEF Execute, isLoad
    <3>2. QED
      BY <1>5, <3>1 DEF Execute
  <2>3. L!Execute
    BY <1>5, <2>2 DEF Execute, L!Execute
  <2>4. QED
    BY <2>3 DEF L!Next
<1>6. ASSUME NEW sent \in SUBSET L!Sendable, NEW asked \in SUBSET L!Seeking,
             LsuProcess(sent, asked)
      PROVE  L!Next
  BY <1>6 DEF LsuProcess, L!Next
<1>7. ASSUME NEW d \in issueQueue, Issue(d) PROVE L!Next
  <2>1. d \in Ops /\ L!Issue(d, ISSUED)
    BY <1>7, Statuses DEF Issue
  <2>2. QED
    BY <2>1 DEF L!Next
<1>8. ASSUME NEW d \in issueQueue, NoPort(d) PROVE L!Next
  <2>1. d \in Ops /\ L!Issue(d, READY)
    BY <1>8, Statuses DEF NoPort, L!Issue
  <2>2. QED
    BY <2>1 DEF L!Next
<1>9. ASSUME EndIssue \/ EndDispatch PROVE UNCHANGED L!vars
  BY <1>9 DEF EndIssue, EndDispatch
<1>10. ASSUME Dispatch PROVE L!Next
  BY <1>10 DEF Dispatch, L!Next
<1>11. ASSUME NEW k, Fetch(k) PROVE UNCHANGED L!vars
  BY <1>11 DEF Fetch
<1>12. ASSUME Stopped PROVE UNCHANGED L!vars
  BY <1>12 DEF Stopped, vars
<1>13. QED
  BY <1>1, <1>2, <1>3, <1>4, <1>5, <1>6, <1>7, <1>8, <1>9, <1>10, <1>11, <1>12
  DEF Next

-----------------------------------------------------------------------------
(* The instructions in flight.                                             *)

issuedOps == {d \in Ops : status[d] \in InExecution \union {FINISHED}}

(* Statuses change within those of issued instructions only.               *)
LEMMA SameInFlight ==
  ASSUME CInv, UNCHANGED inFlightInsn, stage # "commit",
         status' \in [Ops -> 0 .. 7],
         \A d \in Ops : status[d] # status'[d] =>
           \/ d \in issuedOps /\ d \in issuedOps'
           \/ {status[d], status'[d]} \subseteq {INIT, ALLOCATED, READY}
  PROVE  (inFlightInsn \in SUBSET Ops)' /\ InFlightAgrees'
<1>1. issuedOps' = issuedOps
  BY DEF issuedOps
<1>2. inFlightInsn = issuedOps /\ inFlightInsn \in SUBSET Ops
  BY DEF CInv, InFlightAgrees, issuedOps
<1>3. inFlightInsn' \ L!Committed' = inFlightInsn'
  BY <1>1, <1>2 DEF L!Committed, issuedOps
<1>4. QED
  BY <1>1, <1>2, <1>3 DEF InFlightAgrees, issuedOps

LEMMA InFlightStep ==
  ASSUME CInv, Next
  PROVE  (inFlightInsn \in SUBSET Ops)' /\ InFlightAgrees'
<1> USE DEF opVars, coreVars
<1>1. ASSUME NEW S \in SUBSET outstanding, Cache(S)
      PROVE  (inFlightInsn \in SUBSET Ops)' /\ InFlightAgrees'
  <2>1. UNCHANGED <<status, inFlightInsn>> /\ stage = "cache"
    BY <1>1 DEF Cache, L!CacheRespond
  <2>2. inFlightInsn \in SUBSET Ops
    BY DEF CInv
  <2>3. QED
    BY <1>1, <2>1, <2>2 DEF Cache, GoTo, CInv, InFlightAgrees, L!Committed
<1>2. ASSUME Retire
      PROVE  (inFlightInsn \in SUBSET Ops)' /\ InFlightAgrees'
  <2>1. /\ stage = "commit" /\ stage' = "commit" /\ inFlightInsn' = inFlightInsn
        /\ totalCommit < nextOp /\ status[totalCommit] = FINISHED
        /\ status' = [status EXCEPT ![totalCommit] = COMMITED]
    BY <1>2 DEF Retire, L!Commit, Continue
  <2>2. totalCommit \in Ops
    BY <2>1, NumOpsAssumption, Statuses
  <2>3. \A d \in Ops : status'[d] = IF d = totalCommit THEN COMMITED ELSE status[d]
    BY <2>1, <2>2, Statuses
  <2>4. inFlightInsn \in SUBSET Ops
    BY DEF CInv
  <2>5. QED
    BY <2>1, <2>2, <2>3, <2>4 DEF CInv, InFlightAgrees, L!Committed
<1>3. ASSUME EndCommit
      PROVE  (inFlightInsn \in SUBSET Ops)' /\ InFlightAgrees'
  <2>1. inFlightInsn \in SUBSET Ops
    BY DEF CInv
  <2>2. status' = status /\ inFlightInsn' = inFlightInsn \ L!Committed
    BY <1>3 DEF EndCommit
  <2>3. QED
    BY <2>1, <2>2 DEF CInv, InFlightAgrees, L!Committed
<1>4. ASSUME WriteBack
      PROVE  (inFlightInsn \in SUBSET Ops)' /\ InFlightAgrees'
  <2>1. stage = "writeBack" /\ inFlightInsn' = inFlightInsn
    BY <1>4 DEF WriteBack
  <2>2. \A d \in inFlightInsn : d \in issuedOps
    BY <2>1 DEF CInv, InFlightAgrees, issuedOps
  <2>3. \A d \in Ops : status'[d] # status[d] => d \in inFlightInsn /\ status'[d] = FINISHED
    BY <1>4 DEF WriteBack
  <2>4. status' \in [Ops -> 0 .. 7]
    BY <1>4, Statuses DEF WriteBack
  <2>5. QED
    BY <2>1, <2>2, <2>3, <2>4, SameInFlight DEF issuedOps
<1>5. ASSUME Execute
      PROVE  (inFlightInsn \in SUBSET Ops)' /\ InFlightAgrees'
  <2>1. stage = "execute" /\ inFlightInsn' = inFlightInsn
    BY <1>5 DEF Execute
  <2>2. \A d \in Ops : status'[d] # status[d] => status[d] = ISSUED /\ status'[d] = EXECUTING
    BY <1>5 DEF Execute
  <2>3. status' \in [Ops -> 0 .. 7]
    BY <1>5, Statuses DEF Execute
  <2>4. QED
    BY <2>1, <2>2, <2>3, SameInFlight DEF issuedOps
<1>6. ASSUME NEW sent \in SUBSET L!Sendable, NEW asked \in SUBSET L!Seeking,
             LsuProcess(sent, asked)
      PROVE  (inFlightInsn \in SUBSET Ops)' /\ InFlightAgrees'
  <2>1. /\ stage = "lsu" /\ inFlightInsn' = inFlightInsn
        /\ status' \in [Ops -> 0 .. 7]
        /\ \A d \in Ops : status'[d] # status[d] =>
             status[d] = ISSUED /\ status'[d] \in {EXECUTING, SLEEP}
    BY <1>6, Statuses DEF LsuProcess, L!process, L!Forwarded, L!Seeking
  <2>2. QED
    BY <2>1, SameInFlight DEF issuedOps
<1>7. ASSUME NEW d \in issueQueue, Issue(d)
      PROVE  (inFlightInsn \in SUBSET Ops)' /\ InFlightAgrees'
  <2>1. /\ stage = "issue" /\ inFlightInsn' = inFlightInsn \union {d}
        /\ status' = [status EXCEPT ![d] = ISSUED] /\ d \in Ops
    BY <1>7, Statuses DEF Issue, L!Issue
  <2>2. \A e \in Ops : status'[e] = IF e = d THEN ISSUED ELSE status[e]
    BY <2>1, Statuses
  <2>3. inFlightInsn = issuedOps
    BY <2>1 DEF CInv, InFlightAgrees, issuedOps
  <2>4. inFlightInsn' = issuedOps' /\ inFlightInsn' \in SUBSET Ops
    BY <2>1, <2>2, <2>3 DEF issuedOps
  <2>5. inFlightInsn' \ L!Committed' = inFlightInsn'
    BY <2>4 DEF L!Committed, issuedOps
  <2>6. QED
    BY <2>4, <2>5 DEF InFlightAgrees, issuedOps
<1>8. ASSUME NEW d \in issueQueue, NoPort(d)
      PROVE  (inFlightInsn \in SUBSET Ops)' /\ InFlightAgrees'
  <2>1. /\ stage = "issue" /\ inFlightInsn' = inFlightInsn
        /\ status' = [status EXCEPT ![d] = READY] /\ d \in Ops
        /\ status[d] \in {ALLOCATED, READY}
    BY <1>8, Statuses DEF NoPort
  <2>2. QED
    BY <2>1, Statuses, SameInFlight
<1>9. ASSUME EndIssue \/ EndDispatch
      PROVE  (inFlightInsn \in SUBSET Ops)' /\ InFlightAgrees'
  BY <1>9, Statuses, SameInFlight DEF EndIssue, EndDispatch
<1>10. ASSUME Dispatch
      PROVE  (inFlightInsn \in SUBSET Ops)' /\ InFlightAgrees'
  <2>1. /\ stage = "dispatch" /\ inFlightInsn' = inFlightInsn /\ nextOp \in Ops
        /\ status[nextOp] = INIT
        /\ status' = [status EXCEPT ![nextOp] = ALLOCATED]
    BY <1>10 DEF Dispatch, W!Dispatch
  <2>2. QED
    BY <2>1, Statuses, SameInFlight
<1>11. ASSUME NEW k, Fetch(k)
      PROVE  (inFlightInsn \in SUBSET Ops)' /\ InFlightAgrees'
  BY <1>11, Statuses, SameInFlight DEF Fetch
<1>12. ASSUME Stopped
      PROVE  (inFlightInsn \in SUBSET Ops)' /\ InFlightAgrees'
  BY <1>12 DEF Stopped, vars, CInv, InFlightAgrees, L!Committed
<1>13. QED
  BY <1>1, <1>2, <1>3, <1>4, <1>5, <1>6, <1>7, <1>8, <1>9, <1>10, <1>11, <1>12
  DEF Next

-----------------------------------------------------------------------------
(* Operands and the end of the simulation.                                 *)

LEMMA LastInstanceIs ==
  ASSUME NEW u, NEW d \in Int, NEW i \in 0 .. d - 1,
         prog[i].uid = u, \A f \in i + 1 .. d - 1 : prog[f].uid # u
  PROVE  LastInstance(u, d) = i
<1> DEFINE last(e) == prog[e].uid = u /\ \A f \in e + 1 .. d - 1 : prog[f].uid # u
<1>1. \A e \in 0 .. d - 1 : last(e) => e = i
  OBVIOUS
<1>2. last(i)
  OBVIOUS
<1>3. LastInstance(u, d) = CHOOSE e \in 0 .. d - 1 : last(e)
  BY DEF LastInstance
<1> HIDE DEF last
<1>4. QED
  BY <1>1, <1>2, <1>3

LEMMA OnlyDispatchRegisters ==
  ASSUME Next
  PROVE  Dispatch \/ UNCHANGED <<prog, dynDeps, nextOp, uidDynOpMap>>
<1> USE DEF opVars, windowVars, coreVars, vars
<1>1. ASSUME NEW S \in SUBSET outstanding, Cache(S)
      PROVE  UNCHANGED <<prog, dynDeps, nextOp, uidDynOpMap>>
  BY <1>1 DEF Cache, L!CacheRespond
<1>2. ASSUME Retire PROVE UNCHANGED <<prog, dynDeps, nextOp, uidDynOpMap>>
  BY <1>2 DEF Retire, W!Retire, L!Commit
<1>3. ASSUME EndCommit \/ WriteBack \/ Execute \/ EndIssue \/ EndDispatch \/ Stopped
      PROVE  UNCHANGED <<prog, dynDeps, nextOp, uidDynOpMap>>
  BY <1>3 DEF EndCommit, WriteBack, Execute, EndIssue, EndDispatch, Stopped
<1>4. ASSUME NEW sent, NEW asked, LsuProcess(sent, asked)
      PROVE  UNCHANGED <<prog, dynDeps, nextOp, uidDynOpMap>>
  BY <1>4 DEF LsuProcess, L!process
<1>5. ASSUME NEW d \in issueQueue, Issue(d) \/ NoPort(d)
      PROVE  UNCHANGED <<prog, dynDeps, nextOp, uidDynOpMap>>
  BY <1>5 DEF Issue, NoPort, W!Issue, L!Issue
<1>6. ASSUME NEW k, Fetch(k) PROVE UNCHANGED <<prog, dynDeps, nextOp, uidDynOpMap>>
  BY <1>6 DEF Fetch
<1>7. QED
  BY <1>1, <1>2, <1>3, <1>4, <1>5, <1>6 DEF Next

LEMMA OperandsStep ==
  ASSUME NoOwnOperand, CInv, Next
  PROVE  LastDispatched' /\ DepsAreLastInstances'
<1>1. CASE UNCHANGED <<prog, dynDeps, nextOp, uidDynOpMap>>
  <2>1. LastDispatched'
    BY <1>1 DEF CInv, LastDispatched
  <2>2. DepsAreLastInstances'
    BY <1>1 DEF CInv, DepsAreLastInstances, LastInstance
  <2>3. QED
    BY <2>1, <2>2
<1>2. CASE Dispatch
  <2> DEFINE d == nextOp
  <2>1. /\ d \in Ops /\ nextOp' = d + 1 /\ prog' = prog
        /\ dynDeps' = [dynDeps EXCEPT ![d] = addDynDeps(d)]
        /\ uidDynOpMap' = [uidDynOpMap EXCEPT ![prog[d].uid] = d]
    BY <1>2 DEF Dispatch, W!Dispatch, L!Dispatch, registered
  <2>2. /\ prog[d].uid \in Ops /\ prog[d].deps \subseteq Ops
        /\ prog[d].uid \notin prog[d].deps
    BY <2>1, Statuses, TracesAssumption DEF NoOwnOperand
  <2>3. dynDeps \in [Ops -> SUBSET Ops]
    BY DEF CInv, WP!IInv, WP!TypeOK
  <2>4. LastDispatched'
    <3>1. uidDynOpMap' \in [Ops -> Ops \union {None}]
      BY <2>1, <2>2 DEF CInv, LastDispatched
    <3>2. ASSUME NEW u \in Ops, u # prog[d].uid
          PROVE  LET i == uidDynOpMap'[u]
                 IN IF \E e \in 0 .. d : prog[e].uid = u
                    THEN i \in 0 .. d /\ prog[i].uid = u
                         /\ \A f \in i + 1 .. d : prog[f].uid # u
                    ELSE i = None
      <4>1. uidDynOpMap'[u] = uidDynOpMap[u]
        BY <2>1, <3>2 DEF CInv, LastDispatched
      <4>2. \A e \in 0 .. d : e # d => e \in 0 .. d - 1
        BY <2>1
      <4>3. QED
        BY <2>1, <3>2, <4>1, <4>2 DEF CInv, LastDispatched
    <3>3. uidDynOpMap'[prog[d].uid] = d
      BY <2>1, <2>2 DEF CInv, LastDispatched
    <3>4. QED
      BY <2>1, <3>1, <3>2, <3>3 DEF LastDispatched
  <2>5. DepsAreLastInstances'
    <3> DEFINE known == {u \in prog[d].deps : \E e \in 0 .. d - 1 : prog[e].uid = u}
    <3>1. \A u \in prog[d].deps : registered(d)[u] = uidDynOpMap[u]
      BY <2>2 DEF registered, CInv, LastDispatched
    <3>2. \A u \in known : uidDynOpMap[u] = LastInstance(u, d) /\ uidDynOpMap[u] # None
      <4>1. ASSUME NEW u \in known
            PROVE  /\ uidDynOpMap[u] \in 0 .. d - 1 /\ prog[uidDynOpMap[u]].uid = u
                   /\ \A f \in uidDynOpMap[u] + 1 .. d - 1 : prog[f].uid # u
        BY <2>1, <2>2 DEF CInv, LastDispatched
      <4>2. d \in Int
        BY <2>1
      <4> HIDE DEF d, known
      <4>3. QED
        BY <4>1, <4>2, LastInstanceIs
    <3>3. \A u \in prog[d].deps : u \notin known => uidDynOpMap[u] = None
      BY <2>2 DEF CInv, LastDispatched
    <3>4. addDynDeps(d) = {LastInstance(u, d) : u \in known}
      BY <3>1, <3>2, <3>3 DEF addDynDeps
    <3>5. \A u, e : LastInstance(u, e)' = LastInstance(u, e)
      BY <2>1 DEF LastInstance
    <3>6. QED
      BY <2>1, <2>3, <3>4, <3>5 DEF CInv, DepsAreLastInstances
  <2>6. QED
    BY <2>4, <2>5
<1>3. QED
  BY <1>1, <1>2, OnlyDispatchRegisters

LEMMA EndStep ==
  ASSUME CInv, Next
  PROVE  StoppedAtEnd'
<1>1. CASE \E k \in 0 .. NumOps - fetched : Fetch(k)
  <2>1. PICK k : Fetch(k)
    BY <1>1
  <2>2. /\ stage' = "cache" /\ totalCommit' = totalCommit
        /\ running' = ~nothingLeft(fetched + k)
    BY <2>1 DEF Fetch, opVars
  <2>3. nothingLeft(fetched + k) => totalCommit = NumOps
    <3>1. WP!ifROBEmpty => totalCommit = nextOp
      BY Statuses DEF CInv, WP!IInv, WP!RobHoldsInFlight
    <3>2. QED
      BY <3>1 DEF nothingLeft, W!ifROBEmpty, WP!ifROBEmpty
  <2>4. QED
    BY <2>2, <2>3 DEF StoppedAtEnd
<1>2. CASE Stopped
  BY <1>2 DEF Stopped, vars, opVars, CInv, StoppedAtEnd
<1>3. CASE ~Stopped /\ ~\E k \in 0 .. NumOps - fetched : Fetch(k)
  <2>1. running
    BY <1>3 DEF Next, CInv, StoppedAtEnd, Cache, Retire, EndCommit, WriteBack,
                Execute, LsuProcess, Issue, NoPort, EndIssue, Dispatch, EndDispatch
  <2>2. running' = running
    BY <1>3 DEF Next, Cache, Retire, EndCommit, WriteBack, Execute, LsuProcess,
                Issue, NoPort, EndIssue, Dispatch, EndDispatch, GoTo, Continue,
                ScanOnOrStop, ScanOn
  <2>3. QED
    BY <2>1, <2>2 DEF StoppedAtEnd
<1>4. QED
  BY <1>1, <1>2, <1>3

LEMMA InitCInv == Init => CInv
<1> SUFFICES ASSUME Init PROVE CInv
  OBVIOUS
<1>1. WP!IInv
  BY SameWindow, WP!InitIInv, SizesAssumption, NumOpsAssumption DEF Init
<1>2. LP!IInv
  BY SameLsuInit, LP!InitIInv, SizesAssumption, NumOpsAssumption DEF Init
<1>3. InFlightAgrees
  BY DEF Init, W!Init, InFlightAgrees
<1>4. LastDispatched /\ DepsAreLastInstances
  BY DEF Init, W!Init, LastDispatched, DepsAreLastInstances
<1>5. QED
  BY <1>1, <1>2, <1>3, <1>4 DEF Init, CInv, StoppedAtEnd

LEMMA NextCInv == NoOwnOperand /\ CInv /\ [Next]_vars => CInv'
<1> SUFFICES ASSUME NoOwnOperand, CInv, [Next]_vars PROVE CInv'
  OBVIOUS
<1>1. CASE Next
  <2>1. WP!IInv'
    BY <1>1, WindowStep, SameWindowStep, WP!NextIInv, SizesAssumption, NumOpsAssumption
    DEF CInv
  <2>2. LP!IInv'
    BY <1>1, LsuStep, SameLsuStep, LP!NextIInv, SizesAssumption,
       NumOpsAssumption
    DEF CInv
  <2>3. QED
    BY <1>1, <2>1, <2>2, InFlightStep, OperandsStep, EndStep DEF CInv
<1>2. CASE UNCHANGED vars
  <2>1. UNCHANGED W!vars /\ UNCHANGED L!vars
    BY <1>2 DEF vars, opVars, windowVars, robVars, queueVars, memVars, W!vars,
                W!robVars, L!vars, L!queueVars, L!memVars
  <2>2. WP!IInv' /\ LP!IInv'
    BY <2>1, SameWindowStep, SameLsuStep, WP!NextIInv, LP!NextIInv, SizesAssumption,
       NumOpsAssumption
    DEF CInv
  <2>3. UNCHANGED <<prog, status, nextOp, totalCommit, dynDeps, inFlightInsn, uidDynOpMap,
                    running, stage>>
    BY <1>2 DEF vars, opVars, windowVars, coreVars
  <2>4. (inFlightInsn \in SUBSET Ops)' /\ InFlightAgrees' /\ LastDispatched' /\ StoppedAtEnd'
    BY <2>3 DEF CInv, InFlightAgrees, L!Committed, LastDispatched, StoppedAtEnd
  <2>5. DepsAreLastInstances'
    BY <2>3 DEF CInv, DepsAreLastInstances, LastInstance
  <2>6. QED
    BY <2>2, <2>4, <2>5 DEF CInv
<1>3. QED
  BY <1>1, <1>2

-----------------------------------------------------------------------------
(* The theorems.                                                           *)

(* The invariant of the core, with those of its window and its load/store  *)
(* unit, for every trace in which no instruction is its own operand and    *)
(* for every size of the structures and width of the stages.               *)
THEOREM CoreInvariant ==
  ASSUME NoOwnOperand
  PROVE  Spec => []CInv
<1>1. Init => CInv
  BY InitCInv
<1>2. CInv /\ [Next]_vars => CInv'
  BY NextCInv
<1>3. QED
  BY <1>1, <1>2, PTL DEF Spec

(* The stages of Core::run and the load/store unit make only the steps     *)
(* that the window allows.                                                 *)
THEOREM CoreImplementsWindow ==
  ASSUME NoOwnOperand
  PROVE  Spec => ImplementsWindow
<1>1. Init => W!Init
  BY DEF Init
<1>2. CInv /\ [Next]_vars => [W!Next]_(W!vars)
  <2>1. CInv /\ Next => [W!Next]_(W!vars)
    BY WindowStep
  <2>2. UNCHANGED vars => UNCHANGED W!vars
    BY DEF vars, opVars, windowVars, robVars, W!vars, W!robVars
  <2>3. QED
    BY <2>1, <2>2
<1>3. QED
  BY <1>1, <1>2, CoreInvariant, PTL DEF Spec, ImplementsWindow, W!Spec

(* So the core starts an instruction only when the results it reads exist, *)
(* and retires in program order.                                           *)
THEOREM CoreCommitsInOrder ==
  ASSUME NoOwnOperand
  PROVE  Spec => WP!ImplementsInOrderCommit
<1>1. W!Spec => WP!Spec
  BY SameWindow, SameWindowStep, PTL DEF W!Spec, WP!Spec
<1>2. QED
  BY <1>1, CoreImplementsWindow, WP!WindowImplementsInOrderCommit,
     SizesAssumption, NumOpsAssumption, PTL
  DEF ImplementsWindow

(* And its steps are those that the load/store unit allows: no sleeping    *)
(* load of the core ever loses its wakeup, and each answer finds the load  *)
(* that waits for it.                                                      *)
THEOREM CoreImplementsLsu ==
  ASSUME NoOwnOperand
  PROVE  Spec => L!Spec /\ []L!NoLostWakeup /\ []L!CompletionAssertsHold
<1>1. Init => L!Init
  BY DEF Init
<1>2. CInv /\ [Next]_vars => [L!Next]_(L!vars)
  <2>1. CInv /\ Next => [L!Next]_(L!vars)
    BY LsuStep
  <2>2. UNCHANGED vars => UNCHANGED L!vars
    BY DEF vars, opVars, queueVars, memVars, L!vars, L!queueVars, L!memVars
  <2>3. QED
    BY <2>1, <2>2
<1>3. CInv => L!NoLostWakeup /\ L!CompletionAssertsHold
  BY SameLsuOperators
  DEF CInv, LP!IInv, LP!NoLostWakeup, L!NoLostWakeup, LP!CompletionAssertsHold,
      L!CompletionAssertsHold
<1>4. QED
  BY <1>1, <1>2, <1>3, CoreInvariant, PTL DEF Spec, L!Spec

(* writeBack finds every issued instruction in inFlightInsn, and no        *)
(* retired one.                                                            *)
THEOREM InFlightCorrect ==
  ASSUME NoOwnOperand
  PROVE  Spec => []InFlightAgrees
<1>1. CInv => InFlightAgrees
  BY DEF CInv
<1>2. QED
  BY <1>1, CoreInvariant, PTL

(* The operands found in uidDynOpMap are the closest earlier instances.    *)
THEOREM OperandsCorrect ==
  ASSUME NoOwnOperand
  PROVE  Spec => []DepsAreLastInstances
<1>1. CInv => DepsAreLastInstances
  BY DEF CInv
<1>2. QED
  BY <1>1, CoreInvariant, PTL

(* Core::run answers false only when the whole trace has retired.          *)
THEOREM StopsCorrectly ==
  ASSUME NoOwnOperand
  PROVE  Spec => []StopsWhenDone
<1>1. CInv => StopsWhenDone
  BY DEF CInv, StoppedAtEnd, StopsWhenDone
<1>2. QED
  BY <1>1, CoreInvariant, PTL
=============================================================================
