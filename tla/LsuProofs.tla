----------------------------- MODULE LsuProofs -----------------------------
(***************************************************************************)
(* The load/store unit is proved for every set of traces, every trace      *)
(* length and every size of its queues.                                    *)
(***************************************************************************)
EXTENDS Lsu, Basics

(* A non-empty set of instructions has a youngest one.                     *)
LEMMA Youngest ==
  ASSUME NEW S \in SUBSET Ops, S # {}
  PROVE  \E n \in S : \A m \in S : m <= n
<1> DEFINE ages == {NumOps - m : m \in S}
<1>1. ages \in SUBSET Nat /\ ages # {}
  <2>1. \A m \in S : m \in Nat /\ NumOps - m \in Nat
    BY NumOpsAssumption DEF Ops
  <2>2. QED
    BY <2>1
<1>2. PICK a \in ages : \A b \in ages : a <= b
  <2> HIDE DEF ages
  <2>1. QED
    BY <1>1, Smallest
<1>3. PICK n \in S : a = NumOps - n
  BY <1>2
<1>4. \A m \in S : m <= n
  <2>1. \A m \in S : NumOps - n <= NumOps - m
    BY <1>2, <1>3
  <2>2. QED
    BY <2>1, NumOpsAssumption DEF Ops
<1>5. QED
  BY <1>4

USE DEF None, INIT, ALLOCATED, READY, ISSUED, EXECUTING, FINISHED, COMMITED,
        SLEEP

-----------------------------------------------------------------------------
(* The inductive invariant.                                                *)

TypeOK ==
  /\ prog \in Programs
  /\ status \in [Ops -> Status]
  /\ nextOp \in 0 .. NumOps
  /\ totalCommit \in 0 .. NumOps
  /\ LDQ \in SUBSET Ops
  /\ STQ \in [StqSlots -> Ops \union {None}]
  /\ forwardOp \in [Ops -> Ops \union {None}]
  /\ forwardList \in [Ops -> SUBSET Ops]
  /\ finished \in SUBSET Ops
  /\ outstanding \in SUBSET Ops
  /\ responses \in SUBSET Ops

(* The queues hold what belongs there, and only what was dispatched.       *)
QueuesAgree ==
  /\ \A d \in LDQ : isLoad(d) /\ d < nextOp
  /\ \A s \in InSTQ : isStore(s) /\ s < nextOp

(* Before a load started to execute it has no data and is not forwarded,   *)
(* nothing happened yet to an instruction that is to be dispatched, and    *)
(* only loads sleep.                                                       *)
StatusAgrees ==
  /\ \A d \in Ops : d >= nextOp => status[d] = INIT
  /\ \A d \in Ops : status[d] < EXECUTING => d \notin finished /\ forwardOp[d] = None
  /\ \A d \in Ops : status[d] = SLEEP => isLoad(d)

(* A load waits on one list, that of the store it is forwarded from, which *)
(* is in the queue, and for one answer.                                    *)
OneWait ==
  /\ \A s \in Ops : \A d \in forwardList[s] : forwardOp[d] = s /\ s \in InSTQ
  /\ outstanding \intersect responses = {}

(* No store that is still queued lies between a load and the store that it *)
(* is forwarded from.                                                      *)
YoungestForwarded ==
  \A d \in LDQ : forwardOp[d] # None =>
    \A s \in InSTQ : s < d /\ getAddr(s) = getAddr(d) => s <= forwardOp[d]

(* A load that asks the cache has no older store to its address in the      *)
(* store queue, but for instruction 0, which forwarding overlooks.          *)
LoadsFollowLaterStores ==
  \A d \in LDQ : forwardOp[d] = None /\ status[d] >= EXECUTING =>
    \A s \in InSTQ : 0 < s /\ s < d => getAddr(s) # getAddr(d)

IInv ==
  /\ TypeOK
  /\ QueuesAgree
  /\ StatusAgrees
  /\ OneWait
  /\ YoungestForwarded
  /\ CompletionAssertsHold
  /\ NoLostWakeup
  /\ LoadsFollowLaterStores

-----------------------------------------------------------------------------
(* Facts about the operators of the unit.                                  *)

(* forwardData finds the youngest older store to the address, if any but   *)
(* instruction 0.                                                          *)
LEMMA ForwardedFromYoungest ==
  ASSUME NEW d \in Ops, NEW q \in [StqSlots -> Ops \union {None}]
  PROVE  \/ /\ forwardData(d, q) = None
            /\ \A s \in Queued(q) : 0 < s /\ s < d => getAddr(s) # getAddr(d)
         \/ /\ forwardData(d, q) \in Queued(q) \intersect Ops
            /\ \A s \in Queued(q) : s < d /\ getAddr(s) = getAddr(d)
                                      => s <= forwardData(d, q)
<1> DEFINE alias == {s \in Queued(q) : getAddr(s) = getAddr(d) /\ s < d /\ s > 0}
<1>1. Queued(q) \subseteq Ops
  BY DEF Queued
<1>2. CASE alias = {}
  <2>1. forwardData(d, q) = None
    BY <1>2 DEF forwardData
  <2>2. \A s \in Queued(q) : 0 < s /\ s < d => getAddr(s) # getAddr(d)
    BY <1>1, <1>2 DEF Ops
  <2>3. QED
    BY <2>1, <2>2
<1>3. CASE alias # {}
  <2>1. alias \in SUBSET Ops
    BY <1>1
  <2>2. \E s \in alias : \A t \in alias : t <= s
    <3> HIDE DEF alias
    <3>1. QED
      BY <1>3, <2>1, Youngest
  <2> DEFINE f == CHOOSE s \in alias : \A t \in alias : t <= s
  <2>3. f \in alias /\ \A t \in alias : t <= f
    <3> HIDE DEF alias
    <3>1. QED
      BY <2>2
  <2>4. forwardData(d, q) = f
    BY <1>3 DEF forwardData
  <2> HIDE DEF f
  <2>5. f \in Queued(q) \intersect Ops /\ f > 0
    BY <1>1, <2>3
  <2>6. ASSUME NEW s \in Queued(q), s < d, getAddr(s) = getAddr(d)
        PROVE  s <= f
    <3>1. CASE s > 0
      BY <2>3, <2>6, <3>1
    <3>2. CASE ~(s > 0)
      BY <1>1, <2>5, <3>2 DEF Ops
    <3>3. QED
      BY <3>1, <3>2
  <2>7. QED
    BY <2>4, <2>5, <2>6
<1>4. QED
  BY <1>2, <1>3

(* A store queue that is not full has a first free entry.                  *)
LEMMA FreeEntry ==
  ASSUME ~ifSTQFull
  PROVE  getFreeEntry \in StqSlots /\ STQ[getFreeEntry] = None
<1> DEFINE free == {i \in StqSlots : STQ[i] = None}
<1>1. free \in SUBSET Nat /\ free # {}
  BY DEF ifSTQFull, StqSlots
<1>2. PICK i \in free : \A j \in free : i <= j
  <2> HIDE DEF free
  <2>1. QED
    BY <1>1, Smallest
<1>3. \E k \in StqSlots : STQ[k] = None /\ \A j \in StqSlots : STQ[j] = None => k <= j
  BY <1>2
<1>4. QED
  BY <1>3 DEF getFreeEntry

(* What draining leaves in the store queue.                                *)
LEMMA Drained ==
  ASSUME STQ \in [StqSlots -> Ops \union {None}], NEW sent
  PROVE  /\ AfterDrain(sent) \in [StqSlots -> Ops \union {None}]
         /\ Queued(AfterDrain(sent)) = InSTQ \ sent
BY DEF AfterDrain, Queued, InSTQ

-----------------------------------------------------------------------------
(* The invariant holds initially and every action preserves it.            *)

LEMMA InitIInv == Init => IInv
<1> SUFFICES ASSUME Init PROVE IInv
  OBVIOUS
<1> USE NumOpsAssumption DEF Init
<1>1. TypeOK
  BY DEF TypeOK, Status
<1>2. InSTQ = {}
  BY DEF InSTQ, Queued
<1>3. QueuesAgree /\ OneWait /\ YoungestForwarded /\ LoadsFollowLaterStores
  BY <1>2 DEF QueuesAgree, OneWait, YoungestForwarded, LoadsFollowLaterStores
<1>4. StatusAgrees /\ CompletionAssertsHold /\ NoLostWakeup
  BY DEF StatusAgrees, CompletionAssertsHold, NoLostWakeup
<1>5. QED
  BY <1>1, <1>3, <1>4 DEF IInv

(* The queues after a dispatch.                                            *)
LEMMA DispatchedQueues ==
  ASSUME TypeOK, Dispatch
  PROVE  /\ LDQ' = LDQ \union (IF isLoad(nextOp) THEN {nextOp} ELSE {})
         /\ InSTQ' = InSTQ \union (IF isStore(nextOp) THEN {nextOp} ELSE {})
         /\ STQ' \in [StqSlots -> Ops \union {None}]
<1>1. LDQ' = LDQ \union (IF isLoad(nextOp) THEN {nextOp} ELSE {})
  BY DEF Dispatch, addInstruction
<1>2. CASE ~isStore(nextOp)
  BY <1>1, <1>2 DEF Dispatch, addInstruction, InSTQ, TypeOK
<1>3. CASE isStore(nextOp)
  <2> DEFINE i == getFreeEntry
  <2>1. i \in StqSlots /\ STQ[i] = None
    BY <1>3, FreeEntry DEF Dispatch, canDispatch
  <2>2. STQ' = [STQ EXCEPT ![i] = nextOp] /\ nextOp \in Ops
    BY <1>3 DEF Dispatch, addInstruction
  <2> HIDE DEF i
  <2>3. STQ' \in [StqSlots -> Ops \union {None}]
    BY <2>2 DEF TypeOK
  <2>4. \A j \in StqSlots : STQ'[j] = IF j = i THEN nextOp ELSE STQ[j]
    BY <2>2 DEF TypeOK
  <2>5. nextOp # None
    BY <2>2 DEF Ops
  <2>6. InSTQ' = InSTQ \union {nextOp}
    BY <2>1, <2>4, <2>5 DEF InSTQ, Queued
  <2>7. QED
    BY <1>1, <1>3, <2>3, <2>6
<1>4. QED
  BY <1>2, <1>3

LEMMA DispatchIInv == IInv /\ Dispatch => IInv'
<1> SUFFICES ASSUME IInv, Dispatch PROVE IInv'
  OBVIOUS
<1> USE DEF memVars
<1>1. /\ nextOp \in Ops /\ nextOp' = nextOp + 1 /\ prog' = prog
      /\ status' = [status EXCEPT ![nextOp] = ALLOCATED]
      /\ UNCHANGED <<totalCommit, finished, outstanding, responses, forwardOp, forwardList>>
  BY DEF Dispatch, addInstruction
<1>2. /\ LDQ' = LDQ \union (IF isLoad(nextOp) THEN {nextOp} ELSE {})
      /\ InSTQ' = InSTQ \union (IF isStore(nextOp) THEN {nextOp} ELSE {})
      /\ STQ' \in [StqSlots -> Ops \union {None}]
  BY DispatchedQueues DEF IInv
<1>3. \A d \in Ops : status'[d] = IF d = nextOp THEN ALLOCATED ELSE status[d]
  BY <1>1 DEF IInv, TypeOK
<1>4. status[nextOp] = INIT /\ nextOp \notin finished /\ forwardOp[nextOp] = None
  BY <1>1 DEF IInv, StatusAgrees, TypeOK, Ops
<1>5. TypeOK'
  BY <1>1, <1>2, NumOpsAssumption DEF IInv, TypeOK, Status, Ops
<1>6. QueuesAgree'
  <2>1. nextOp < nextOp + 1 /\ \A n \in Ops : n < nextOp => n < nextOp + 1
    BY <1>1 DEF Ops
  <2>2. LDQ \subseteq Ops /\ InSTQ \subseteq Ops
    BY DEF IInv, TypeOK, InSTQ, Queued
  <2>3. ASSUME NEW d \in LDQ' PROVE isLoad(d) /\ d < nextOp + 1
    BY <1>2, <2>1, <2>2, <2>3 DEF IInv, QueuesAgree
  <2>4. ASSUME NEW s \in InSTQ' PROVE isStore(s) /\ s < nextOp + 1
    BY <1>2, <2>1, <2>2, <2>4 DEF IInv, QueuesAgree
  <2>5. QED
    BY <1>1, <2>3, <2>4 DEF QueuesAgree, isLoad, isStore
<1>7. StatusAgrees'
  BY <1>1, <1>3, <1>4 DEF IInv, StatusAgrees, isLoad, Ops
<1>8. OneWait'
  BY <1>1, <1>2 DEF IInv, OneWait
<1>9. YoungestForwarded'
  <2>1. ASSUME NEW d \in LDQ', forwardOp[d] # None,
               NEW s \in InSTQ', s < d, getAddr(s) = getAddr(d)
        PROVE  s <= forwardOp[d]
    <3>1. d \in LDQ /\ d < nextOp
      BY <1>2, <1>4, <2>1 DEF IInv, QueuesAgree
    <3>2. s \in InSTQ
      BY <1>1, <1>2, <2>1, <3>1 DEF IInv, TypeOK, Ops
    <3>3. QED
      BY <2>1, <3>1, <3>2 DEF IInv, YoungestForwarded
  <2>2. QED
    BY <1>1, <2>1 DEF YoungestForwarded, getAddr
<1>10. CompletionAssertsHold'
  BY <1>1, <1>2, <1>3, <1>4 DEF IInv, TypeOK, CompletionAssertsHold
<1>11. NoLostWakeup'
  BY <1>1, <1>2, <1>3 DEF IInv, NoLostWakeup
<1>12. LoadsFollowLaterStores'
  <2>1. ASSUME NEW d \in LDQ', forwardOp[d] = None, status'[d] >= EXECUTING,
               NEW s \in InSTQ', 0 < s, s < d
        PROVE  getAddr(s) # getAddr(d)
    <3>1. d \in LDQ /\ d < nextOp /\ status[d] >= EXECUTING
      <4>1. d \in Ops
        BY <1>5 DEF TypeOK
      <4>2. d # nextOp /\ status[d] >= EXECUTING
        BY <1>3, <2>1, <4>1
      <4>3. QED
        BY <1>2, <4>2 DEF IInv, QueuesAgree
    <3>2. s \in InSTQ
      BY <1>1, <1>2, <2>1, <3>1 DEF IInv, TypeOK, Ops
    <3>3. QED
      BY <2>1, <3>1, <3>2 DEF IInv, LoadsFollowLaterStores
  <2>2. QED
    BY <1>1, <2>1 DEF LoadsFollowLaterStores, getAddr
<1>13. QED
  BY <1>5, <1>6, <1>7, <1>8, <1>9, <1>10, <1>11, <1>12 DEF IInv

(* What is enough for a change of statuses that leaves the queues alone:   *)
(* nothing begins or ends to sleep, loads in execution stay as they are,   *)
(* no load of the queue begins to execute, and nobody goes back.           *)
StatusesAdvance ==
  /\ status' \in [Ops -> Status]
  /\ \A d \in Ops :
       /\ status'[d] = SLEEP <=> status[d] = SLEEP
       /\ isLoad(d) /\ status[d] = EXECUTING => status'[d] = EXECUTING
       /\ isLoad(d) /\ status'[d] >= EXECUTING => status[d] >= EXECUTING
       /\ status'[d] < EXECUTING => status[d] < EXECUTING
       /\ d >= nextOp => status'[d] = INIT

LEMMA StatusIInv ==
  ASSUME IInv, StatusesAdvance, totalCommit' \in 0 .. NumOps,
         UNCHANGED <<prog, nextOp, queueVars, memVars>>
  PROVE  IInv'
<1> USE DEF queueVars, memVars
<1>1. InSTQ' = InSTQ /\ LDQ' = LDQ /\ LDQ \subseteq Ops
  BY DEF IInv, TypeOK, InSTQ
<1>2. \A d \in LDQ : isLoad(d)
  BY DEF IInv, QueuesAgree
<1>3. TypeOK'
  BY DEF IInv, TypeOK, StatusesAdvance
<1>4. QueuesAgree' /\ OneWait'
  BY <1>1 DEF IInv, QueuesAgree, OneWait, isLoad, isStore
<1>5. YoungestForwarded'
  BY <1>1 DEF IInv, YoungestForwarded, getAddr
<1>6. StatusAgrees'
  BY DEF IInv, StatusAgrees, StatusesAdvance, isLoad
<1>7. CompletionAssertsHold'
  <2>1. ASSUME NEW s \in Ops, NEW d \in forwardList[s]
        PROVE  d \in LDQ /\ status'[d] = SLEEP /\ d \notin finished
    BY <1>1 DEF IInv, TypeOK, CompletionAssertsHold, StatusesAdvance
  <2>2. ASSUME NEW d \in responses \union outstanding
        PROVE  d \in LDQ /\ status'[d] = EXECUTING /\ d \notin finished
    BY <1>1, <1>2 DEF IInv, TypeOK, CompletionAssertsHold, StatusesAdvance
  <2>3. QED
    BY <2>1, <2>2 DEF CompletionAssertsHold
<1>8. NoLostWakeup'
  BY <1>1 DEF IInv, NoLostWakeup, StatusesAdvance
<1>9. LoadsFollowLaterStores'
  <2>1. ASSUME NEW d \in LDQ, status'[d] >= EXECUTING
        PROVE  status[d] >= EXECUTING
    BY <1>1, <1>2, <2>1 DEF StatusesAdvance
  <2>2. QED
    BY <1>1, <2>1 DEF IInv, LoadsFollowLaterStores, getAddr
<1>10. QED
  BY <1>3, <1>4, <1>5, <1>6, <1>7, <1>8, <1>9 DEF IInv

LEMMA IssueIInv ==
  ASSUME IInv, NEW d \in Ops, NEW s \in {READY, ISSUED}, Issue(d, s)
  PROVE  IInv'
<1>1. \A e \in Ops : status'[e] = IF e = d THEN s ELSE status[e]
  BY DEF Issue, IInv, TypeOK
<1>2. d < nextOp
  BY DEF Issue, IInv, TypeOK, StatusAgrees, Ops
<1>3. StatusesAdvance
  <2>1. status' \in [Ops -> Status]
    BY DEF Issue, IInv, TypeOK, Status
  <2>2. \A e \in Ops : status[e] \in Status
    BY DEF IInv, TypeOK
  <2>3. QED
    BY <1>1, <1>2, <2>1, <2>2 DEF StatusesAdvance, Issue, IInv, TypeOK, StatusAgrees, Ops
<1>4. QED
  BY <1>3, StatusIInv DEF Issue, IInv, TypeOK

LEMMA ExecuteIInv == IInv /\ Execute => IInv'
<1> SUFFICES ASSUME IInv, Execute PROVE IInv'
  OBVIOUS
<1>1. StatusesAdvance
  BY DEF Execute, StatusesAdvance, IInv, TypeOK, StatusAgrees, Status
<1>2. QED
  BY <1>1, StatusIInv DEF Execute, IInv, TypeOK

LEMMA CommitIInv == IInv /\ Commit => IInv'
<1> SUFFICES ASSUME IInv, Commit PROVE IInv'
  OBVIOUS
<1>1. totalCommit \in Ops /\ totalCommit' \in 0 .. NumOps
  BY NumOpsAssumption DEF Commit, IInv, TypeOK, Ops
<1>2. \A e \in Ops : status'[e] = IF e = totalCommit THEN COMMITED ELSE status[e]
  BY DEF Commit, IInv, TypeOK
<1>3. StatusesAdvance
  <2>1. status' \in [Ops -> Status]
    BY <1>1 DEF Commit, IInv, TypeOK, Status
  <2>2. \A e \in Ops : status[e] \in Status
    BY DEF IInv, TypeOK
  <2>3. QED
    BY <1>1, <1>2, <2>1, <2>2 DEF StatusesAdvance, Commit, IInv, TypeOK, StatusAgrees, Ops
<1>4. QED
  BY <1>1, <1>3, StatusIInv DEF Commit

LEMMA CacheRespondIInv ==
  ASSUME IInv, NEW S \in SUBSET outstanding, CacheRespond(S)
  PROVE  IInv'
<1> USE DEF CacheRespond, queueVars
<1>1. InSTQ' = InSTQ
  BY DEF InSTQ
<1>2. TypeOK'
  BY DEF IInv, TypeOK
<1>3. QueuesAgree' /\ StatusAgrees' /\ OneWait'
  BY <1>1 DEF IInv, QueuesAgree, StatusAgrees, OneWait, isLoad, isStore
<1>4. YoungestForwarded' /\ LoadsFollowLaterStores'
  BY <1>1 DEF IInv, YoungestForwarded, LoadsFollowLaterStores, getAddr
<1>5. CompletionAssertsHold' /\ NoLostWakeup'
  BY <1>1 DEF IInv, CompletionAssertsHold, NoLostWakeup
<1>6. QED
  BY <1>2, <1>3, <1>4, <1>5 DEF IInv

LEMMA WriteBackIInv ==
  ASSUME IInv, NEW S \in SUBSET {d \in Ops : status[d] \in InExecution}, WriteBack(S)
  PROVE  IInv'
<1> USE DEF queueVars
<1>1. /\ finished' = finished \union responses /\ responses' = {}
      /\ UNCHANGED <<outstanding, prog, nextOp, totalCommit, LDQ, STQ, forwardOp, forwardList>>
  BY DEF WriteBack, wb
<1>2. \A d \in Ops : status'[d] = IF d \in S THEN FINISHED ELSE status[d]
  BY DEF WriteBack
<1>3. \A d \in S : /\ d \in Ops /\ status[d] \in InExecution
                   /\ isLoad(d) => d \in finished' /\ status[d] \in {EXECUTING, SLEEP}
                   /\ ~isLoad(d) => status[d] \in {ISSUED, EXECUTING}
  BY DEF WriteBack, MayFinish
<1>4. InSTQ' = InSTQ /\ LDQ \subseteq Ops /\ \A d \in LDQ : isLoad(d)
  BY <1>1 DEF InSTQ, IInv, TypeOK, QueuesAgree
<1>5. \A d \in responses : d \in Ops /\ status[d] = EXECUTING /\ d \notin outstanding
  BY DEF IInv, TypeOK, CompletionAssertsHold, OneWait
<1>6. TypeOK'
  <2>1. status' \in [Ops -> Status]
    BY DEF WriteBack, IInv, TypeOK, Status
  <2>2. QED
    BY <1>1, <2>1 DEF IInv, TypeOK
<1>7. QueuesAgree' /\ OneWait'
  BY <1>1, <1>4 DEF IInv, QueuesAgree, OneWait, isLoad, isStore
<1>8. YoungestForwarded'
  BY <1>1, <1>4 DEF IInv, YoungestForwarded, getAddr
<1>9. StatusAgrees'
  BY <1>1, <1>2, <1>3, <1>5 DEF IInv, StatusAgrees, InExecution, isLoad
<1>10. CompletionAssertsHold'
  <2>1. ASSUME NEW s \in Ops, NEW d \in forwardList[s]
        PROVE  d \in LDQ /\ status'[d] = SLEEP /\ d \notin finished'
    <3>1. d \in Ops /\ d \in LDQ /\ status[d] = SLEEP /\ d \notin finished
      BY DEF IInv, TypeOK, CompletionAssertsHold
    <3>2. d \notin finished'
      BY <1>1, <1>5, <3>1
    <3>3. d \notin S
      BY <1>3, <1>4, <3>1, <3>2
    <3>4. QED
      BY <1>2, <3>1, <3>2, <3>3
  <2>2. ASSUME NEW d \in outstanding
        PROVE  d \in LDQ /\ status'[d] = EXECUTING /\ d \notin finished'
    <3>1. d \in Ops /\ d \in LDQ /\ status[d] = EXECUTING /\ d \notin finished
      BY DEF IInv, TypeOK, CompletionAssertsHold
    <3>2. d \notin finished'
      BY <1>1, <1>5, <3>1
    <3>3. d \notin S
      BY <1>3, <1>4, <3>1, <3>2
    <3>4. QED
      BY <1>2, <3>1, <3>2, <3>3
  <2>3. QED
    BY <1>1, <2>1, <2>2 DEF CompletionAssertsHold
<1>11. NoLostWakeup'
  <2>1. ASSUME NEW d \in Ops, status'[d] = SLEEP, d \notin finished'
        PROVE  status[d] = SLEEP /\ d \notin finished
    BY <1>1, <1>2, <2>1
  <2>2. QED
    BY <1>1, <1>4, <2>1 DEF IInv, NoLostWakeup
<1>12. LoadsFollowLaterStores'
  <2>1. ASSUME NEW d \in LDQ, status'[d] >= EXECUTING
        PROVE  status[d] >= EXECUTING
    BY <1>2, <1>3, <1>4, <2>1
  <2>2. QED
    BY <1>1, <1>4, <2>1 DEF IInv, LoadsFollowLaterStores, getAddr
<1>13. QED
  BY <1>6, <1>7, <1>8, <1>9, <1>10, <1>11, <1>12 DEF IInv

LEMMA ProcessIInv ==
  ASSUME IInv, NEW sent, NEW asked, process(sent, asked)
  PROVE  IInv'
<1> DEFINE q == AfterDrain(sent)
<1> DEFINE forwarded == Forwarded(q)
<1> DEFINE from(d) == forwardData(d, q)
<1> DEFINE served == {d \in forwarded : from(d) \in DataReady}
(* What the two loops do.                                                  *)
<1>1. /\ sent \subseteq InSTQ \intersect DataReady /\ asked \subseteq Seeking \ forwarded
      /\ finished' = finished \union Woken \union served
      /\ outstanding' = outstanding \union asked
      /\ UNCHANGED <<prog, nextOp, totalCommit, responses>>
  BY DEF process, Sendable, Committed, DataReady
<1>2. /\ LDQ' = LDQ \ Committed
      /\ q \in [StqSlots -> Ops \union {None}] /\ STQ' = q
      /\ Queued(q) = InSTQ \ sent /\ InSTQ' = InSTQ \ sent
  BY Drained DEF process, IInv, TypeOK, InSTQ
<1>3. ASSUME NEW d \in Seeking
      PROVE  /\ d \in Ops /\ d \in LDQ' /\ status[d] = ISSUED
             /\ d \notin finished /\ forwardOp[d] = None
  BY <1>2 DEF Seeking, Committed, IInv, TypeOK, StatusAgrees
<1>4. forwarded \subseteq Seeking /\ \A d \in Seeking \ forwarded : from(d) = None
  BY DEF Forwarded
<1>5. ASSUME NEW d \in forwarded
      PROVE  /\ from(d) \in InSTQ' /\ from(d) \in Ops
             /\ \A s \in InSTQ' : s < d /\ getAddr(s) = getAddr(d) => s <= from(d)
  <2>1. d \in Ops /\ from(d) # None
    BY <1>3, <1>4 DEF Forwarded
  <2>2. QED
    BY <1>2, <2>1, ForwardedFromYoungest
<1>6. ASSUME NEW d \in asked, NEW s \in InSTQ', 0 < s, s < d
      PROVE  getAddr(s) # getAddr(d)
  <2>1. d \in Ops /\ from(d) = None
    BY <1>1, <1>3, <1>4
  <2>2. from(d) \notin Ops
    BY <2>1 DEF Ops
  <2>3. QED
    BY <1>2, <1>6, <2>1, <2>2, ForwardedFromYoungest
<1>7. \A d \in Ops : /\ status'[d] = IF d \in forwarded THEN SLEEP
                                     ELSE IF d \in asked THEN EXECUTING ELSE status[d]
                     /\ forwardOp'[d] = IF d \in forwarded THEN from(d) ELSE forwardOp[d]
  BY DEF process
<1>8. \A s \in Ops : forwardList'[s] =
          IF s \in DataReady THEN IF s \in InSTQ THEN {} ELSE forwardList[s]
          ELSE forwardList[s] \union {d \in forwarded : from(d) = s}
  BY DEF process, ListsAfter
<1> HIDE DEF q, forwarded, from, served
(* Who is on a list before, and after.                                     *)
<1>9. ASSUME NEW s \in Ops, NEW d \in forwardList[s]
      PROVE  /\ d \in Ops /\ d \in LDQ' /\ status[d] = SLEEP /\ d \notin finished
             /\ forwardOp[d] = s /\ s \in InSTQ
  BY <1>2 DEF IInv, TypeOK, CompletionAssertsHold, OneWait, Committed
<1>10. ASSUME NEW s \in Ops, NEW d \in forwardList'[s]
       PROVE  /\ s \notin DataReady
              /\ \/ d \in forwardList[s]
                 \/ d \in forwarded /\ from(d) = s
  <2>1. CASE s \in DataReady
    <3>1. s \notin InSTQ /\ d \in forwardList[s]
      BY <1>8, <1>10, <2>1
    <3>2. QED
      BY <1>9, <3>1
  <2>2. CASE s \notin DataReady
    BY <1>8, <1>10, <2>2
  <2>3. QED
    BY <2>1, <2>2
<1>11. ASSUME NEW d \in Woken
       PROVE  \E s \in InSTQ \intersect DataReady : s \in Ops /\ d \in forwardList[s]
  BY DEF Woken, DataReady
<1>12. ASSUME NEW d \in Woken \union served
       PROVE  status[d] \in {SLEEP, ISSUED} /\ status'[d] = SLEEP
  <2>1. CASE d \in served
    BY <1>3, <1>4, <1>7, <2>1 DEF served
  <2>2. CASE d \in Woken
    <3>1. d \in Ops /\ status[d] = SLEEP
      BY <1>9, <1>11, <2>2
    <3>2. d \notin forwarded /\ d \notin asked
      BY <1>1, <1>3, <1>4, <3>1
    <3>3. QED
      BY <1>7, <3>1, <3>2
  <2>3. QED
    BY <2>1, <2>2
(* The parts of the invariant.                                             *)
<1>13. TypeOK'
  <2>1. forwarded \subseteq Ops /\ asked \subseteq Ops /\ served \subseteq Ops
    BY <1>1, <1>3, <1>4 DEF served
  <2>2. Woken \subseteq Ops
    BY <1>9, <1>11
  <2>3. status' \in [Ops -> Status]
    BY <1>7 DEF process, IInv, TypeOK, Status
  <2>4. forwardOp' \in [Ops -> Ops \union {None}]
    BY <1>5, <1>7 DEF process, IInv, TypeOK
  <2>5. forwardList' \in [Ops -> SUBSET Ops]
    <3>1. \A s \in Ops : forwardList'[s] \subseteq Ops
      BY <1>9, <1>10, <2>1
    <3>2. forwardList' = [s \in Ops |-> forwardList'[s]]
      BY DEF process, ListsAfter
    <3>3. QED
      BY <3>1, <3>2
  <2>6. QED
    BY <1>1, <1>2, <2>1, <2>2, <2>3, <2>4, <2>5 DEF IInv, TypeOK
<1>14. QueuesAgree'
  BY <1>1, <1>2 DEF IInv, QueuesAgree, isLoad, isStore
<1>15. StatusAgrees'
  <2>1. ASSUME NEW d \in Ops, status'[d] < EXECUTING
        PROVE  status'[d] = status[d] /\ d \notin finished' /\ forwardOp'[d] = None
    <3>1. d \notin forwarded /\ d \notin asked /\ d \notin Woken \union served
      BY <1>7, <1>12, <2>1
    <3>2. status'[d] = status[d] /\ forwardOp'[d] = forwardOp[d]
      BY <1>7, <3>1
    <3>3. QED
      BY <1>1, <2>1, <3>1, <3>2 DEF IInv, StatusAgrees
  <2>2. ASSUME NEW d \in Ops, d >= nextOp
        PROVE  status'[d] = INIT
    <3>1. status[d] = INIT
      BY <2>2 DEF IInv, StatusAgrees
    <3>2. d \notin forwarded /\ d \notin asked
      BY <1>1, <1>3, <1>4, <3>1
    <3>3. QED
      BY <1>7, <3>1, <3>2
  <2>3. ASSUME NEW d \in Ops, status'[d] = SLEEP
        PROVE  isLoad(d)
    <3>1. CASE d \in forwarded
      BY <1>4, <3>1 DEF Seeking, IInv, QueuesAgree
    <3>2. CASE d \notin forwarded
      BY <1>7, <2>3, <3>2 DEF IInv, StatusAgrees
    <3>3. QED
      BY <3>1, <3>2
  <2>4. QED
    BY <1>1, <2>1, <2>2, <2>3 DEF StatusAgrees, isLoad
<1>16. OneWait'
  <2>1. ASSUME NEW s \in Ops, NEW d \in forwardList'[s]
        PROVE  forwardOp'[d] = s /\ s \in InSTQ'
    <3>1. CASE d \in forwarded /\ from(d) = s
      BY <1>3, <1>4, <1>5, <1>7, <3>1
    <3>2. CASE d \in forwardList[s]
      <4>1. d \in Ops /\ d \notin forwarded
        BY <1>3, <1>4, <1>9, <3>2
      <4>2. s \in InSTQ'
        BY <1>1, <1>2, <1>9, <1>10, <3>2
      <4>3. QED
        BY <1>7, <1>9, <3>2, <4>1, <4>2
    <3>3. QED
      BY <1>10, <3>1, <3>2
  <2>2. asked \intersect responses = {}
    BY <1>1, <1>3 DEF IInv, CompletionAssertsHold
  <2>3. QED
    BY <1>1, <2>1, <2>2 DEF IInv, OneWait
<1>17. YoungestForwarded'
  <2>1. ASSUME NEW d \in LDQ', forwardOp'[d] # None,
               NEW s \in InSTQ', s < d, getAddr(s) = getAddr(d)
        PROVE  s <= forwardOp'[d]
    <3>1. d \in LDQ /\ d \in Ops /\ s \in InSTQ
      BY <1>2, <1>13 DEF TypeOK
    <3>2. CASE d \in forwarded
      BY <1>5, <1>7, <2>1, <3>1, <3>2
    <3>3. CASE d \notin forwarded
      BY <1>7, <2>1, <3>1, <3>3 DEF IInv, YoungestForwarded
    <3>4. QED
      BY <3>2, <3>3
  <2>2. QED
    BY <1>1, <2>1 DEF YoungestForwarded, getAddr
<1>18. CompletionAssertsHold'
  <2>1. ASSUME NEW s \in Ops, NEW d \in forwardList'[s]
        PROVE  d \in LDQ' /\ status'[d] = SLEEP /\ d \notin finished'
    <3>1. d \notin served
      BY <1>3, <1>4, <1>9, <1>10 DEF served
    <3>2. d \notin Woken
      <4>1. CASE d \in forwardList[s]
        BY <1>9, <1>10, <1>11, <4>1
      <4>2. CASE d \in forwarded
        BY <1>3, <1>4, <1>9, <1>11, <4>2
      <4>3. QED
        BY <1>10, <4>1, <4>2
    <3>3. CASE d \in forwardList[s]
      <4>1. d \in Ops /\ d \notin forwarded /\ d \notin asked
        BY <1>1, <1>3, <1>4, <1>9, <3>3
      <4>2. QED
        BY <1>1, <1>7, <1>9, <3>1, <3>2, <3>3, <4>1
    <3>4. CASE d \in forwarded
      BY <1>1, <1>3, <1>4, <1>7, <3>1, <3>2, <3>4
    <3>5. QED
      BY <1>10, <3>3, <3>4
  <2>2. ASSUME NEW d \in responses \union outstanding
        PROVE  d \in LDQ' /\ status'[d] = EXECUTING /\ d \notin finished'
    <3>1. d \in Ops /\ d \in LDQ /\ status[d] = EXECUTING /\ d \notin finished
      BY DEF IInv, TypeOK, CompletionAssertsHold
    <3>2. d \in LDQ' /\ d \notin forwarded /\ d \notin asked
      BY <1>1, <1>2, <1>3, <1>4, <3>1 DEF Committed
    <3>3. d \notin Woken \union served
      BY <1>12, <3>1
    <3>4. QED
      BY <1>1, <1>7, <3>1, <3>2, <3>3
  <2>3. ASSUME NEW d \in asked
        PROVE  d \in LDQ' /\ status'[d] = EXECUTING /\ d \notin finished'
    <3>1. /\ d \in Ops /\ d \in LDQ' /\ d \notin finished
          /\ d \notin forwarded /\ status'[d] = EXECUTING
      BY <1>1, <1>3, <1>7
    <3>2. d \notin Woken \union served
      BY <1>12, <3>1
    <3>3. QED
      BY <1>1, <3>1, <3>2
  <2>4. QED
    BY <1>1, <2>1, <2>2, <2>3 DEF CompletionAssertsHold
<1>19. NoLostWakeup'
  <2>1. ASSUME NEW d \in Ops, status'[d] = SLEEP, d \notin finished'
        PROVE  forwardOp'[d] \in InSTQ' /\ d \in forwardList'[forwardOp'[d]]
    <3>1. CASE d \in forwarded
      <4>1. from(d) \notin DataReady
        BY <1>1, <2>1, <3>1 DEF served
      <4>2. forwardOp'[d] = from(d) /\ from(d) \in InSTQ' /\ from(d) \in Ops
        BY <1>5, <1>7, <3>1
      <4>3. d \in forwardList'[from(d)]
        BY <1>8, <3>1, <4>1, <4>2
      <4>4. QED
        BY <4>2, <4>3
    <3>2. CASE d \notin forwarded
      <4>1. /\ status[d] = SLEEP /\ d \notin finished /\ d \notin Woken
            /\ forwardOp'[d] = forwardOp[d]
        BY <1>1, <1>7, <2>1, <3>2
      <4>2. /\ forwardOp[d] \in InSTQ /\ forwardOp[d] \in Ops
            /\ d \in forwardList[forwardOp[d]]
        BY <4>1 DEF IInv, TypeOK, NoLostWakeup, InSTQ, Queued
      <4>3. forwardOp[d] \notin DataReady
        BY <4>1, <4>2 DEF Woken
      <4>4. QED
        BY <1>1, <1>2, <1>8, <4>1, <4>2, <4>3
    <3>3. QED
      BY <3>1, <3>2
  <2>2. QED
    BY <2>1 DEF NoLostWakeup
<1>20. LoadsFollowLaterStores'
  <2>1. ASSUME NEW d \in LDQ', forwardOp'[d] = None, status'[d] >= EXECUTING,
               NEW s \in InSTQ', 0 < s, s < d
        PROVE  getAddr(s) # getAddr(d)
    <3>1. d \in LDQ /\ d \in Ops /\ s \in InSTQ
      BY <1>2, <1>13 DEF TypeOK
    <3>2. d \notin forwarded
      BY <1>5, <1>7, <2>1, <3>1 DEF Ops
    <3>3. CASE d \in asked
      BY <1>6, <2>1, <3>3
    <3>4. CASE d \notin asked
      BY <1>7, <2>1, <3>1, <3>2, <3>4 DEF IInv, LoadsFollowLaterStores
    <3>5. QED
      BY <3>3, <3>4
  <2>2. QED
    BY <1>1, <2>1 DEF LoadsFollowLaterStores, getAddr
<1>21. QED
  BY <1>13, <1>14, <1>15, <1>16, <1>17, <1>18, <1>19, <1>20 DEF IInv

LEMMA NextIInv == IInv /\ [Next]_vars => IInv'
<1> SUFFICES ASSUME IInv, [Next]_vars PROVE IInv'
  OBVIOUS
<1>1. ASSUME NEW d \in Ops, NEW s \in {READY, ISSUED}, Issue(d, s) PROVE IInv'
  BY <1>1, IssueIInv
<1>2. ASSUME NEW S \in SUBSET {d \in Ops : status[d] \in InExecution}, WriteBack(S)
      PROVE  IInv'
  BY <1>2, WriteBackIInv
<1>3. ASSUME NEW sent \in SUBSET Sendable, NEW asked \in SUBSET Seeking, process(sent, asked)
      PROVE  IInv'
  BY <1>3, ProcessIInv
<1>4. ASSUME NEW S \in SUBSET outstanding, CacheRespond(S) PROVE IInv'
  BY <1>4, CacheRespondIInv
<1>5. CASE UNCHANGED vars
  <2>1. /\ UNCHANGED <<prog, nextOp, queueVars, memVars>> /\ status' = status
        /\ totalCommit' = totalCommit
    BY <1>5 DEF vars
  <2>2. StatusesAdvance
    BY <2>1 DEF StatusesAdvance, IInv, TypeOK, StatusAgrees
  <2>3. QED
    BY <2>1, <2>2, StatusIInv DEF IInv, TypeOK
<1>6. QED
  BY <1>1, <1>2, <1>3, <1>4, <1>5, DispatchIInv, ExecuteIInv, CommitIInv DEF Next, Stopped

-----------------------------------------------------------------------------
(* The theorems.                                                           *)

(* The inductive invariant holds in every reachable state of the unit.     *)
THEOREM LsuInvariant == Spec => []IInv
<1>1. QED
  BY InitIInv, NextIInv, PTL DEF Spec

(* The assertions of doForwardData and of LDSTQ::completeInstruction hold  *)
(* whatever the trace and in whatever order the cache answers.             *)
THEOREM CompletionsCorrect == Spec => []CompletionAssertsHold
<1>1. IInv => CompletionAssertsHold
  BY DEF IInv
<1>2. QED
  BY <1>1, LsuInvariant, PTL

(* A load that sleeps can always be woken by the loop of LSUnit::process   *)
(* over the store queue.                                                   *)
THEOREM WakeupsKept == Spec => []NoLostWakeup
<1>1. IInv => NoLostWakeup
  BY DEF IInv
<1>2. QED
  BY <1>1, LsuInvariant, PTL

(* What forwarding asks of a trace: it does not begin with a store, which  *)
(* LSUnit::forwardData would take for "none found".                        *)
FirstIsNotStore == \A p \in Programs : 0 \in Ops => p[0].kind # "store"

LEMMA OrderFollows ==
  ASSUME FirstIsNotStore, IInv
  PROVE  LoadsFollowStores /\ NoFlushNeeded
<1>1. ASSUME NEW s \in InSTQ PROVE s \in Ops /\ s > 0
  <2>1. s \in Ops /\ isStore(s) /\ prog \in Programs
    BY DEF IInv, TypeOK, QueuesAgree, InSTQ, Queued
  <2>2. s # 0
    BY <2>1 DEF FirstIsNotStore, isStore
  <2>3. QED
    BY <2>1, <2>2 DEF Ops
<1>2. LoadsFollowStores
  <2>1. ASSUME NEW d \in LDQ, NEW s \in InSTQ, s < d, getAddr(s) = getAddr(d)
        PROVE  IF forwardOp[d] # None THEN s <= forwardOp[d] ELSE status[d] < EXECUTING
    <3>1. CASE forwardOp[d] # None
      BY <2>1, <3>1 DEF IInv, YoungestForwarded
    <3>2. CASE forwardOp[d] = None
      <4>1. ~(status[d] >= EXECUTING)
        BY <1>1, <2>1, <3>2 DEF IInv, LoadsFollowLaterStores
      <4>2. status[d] \in Int
        BY <2>1 DEF IInv, TypeOK, Status
      <4>3. QED
        BY <3>2, <4>1, <4>2
    <3>3. QED
      BY <3>1, <3>2
  <2>2. QED
    BY <2>1 DEF LoadsFollowStores
<1>3. NoFlushNeeded
  <2>1. ASSUME NEW s \in InSTQ, NEW d \in LDQ, d > s, getAddr(d) = getAddr(s)
        PROVE  IF forwardOp[d] # None THEN ~(forwardOp[d] < s) ELSE ~(status[d] >= EXECUTING)
    <3>1. s \in Ops /\ d \in Ops /\ s < d /\ forwardOp[d] \in Ops \union {None}
      BY <1>1, <2>1 DEF IInv, TypeOK, Ops
    <3>2. IF forwardOp[d] # None THEN s <= forwardOp[d] ELSE status[d] < EXECUTING
      BY <1>2, <2>1, <3>1 DEF LoadsFollowStores
    <3>3. status[d] \in Int
      BY <2>1 DEF IInv, TypeOK, Status
    <3>4. QED
      BY <3>1, <3>2, <3>3 DEF Ops
  <2>2. QED
    BY <2>1 DEF NoFlushNeeded, shouldFlush
<1>4. QED
  BY <1>2, <1>3

(* In every trace that does not begin with a store, no load runs ahead of  *)
(* an older store to its address that the store queue still holds, nor is  *)
(* it forwarded from a store older than that one.                          *)
THEOREM LoadsOrdered ==
  ASSUME FirstIsNotStore
  PROVE  Spec => []LoadsFollowStores
<1>1. IInv => LoadsFollowStores
  BY OrderFollows
<1>2. QED
  BY <1>1, LsuInvariant, PTL

(* In such traces the answer of LSUnit::shouldFlush is false whenever a    *)
(* store retires: Window::retireInstruction may drop it.                   *)
THEOREM FlushNeverNeeded ==
  ASSUME FirstIsNotStore
  PROVE  Spec => []NoFlushNeeded
<1>1. IInv => NoFlushNeeded
  BY OrderFollows
<1>2. QED
  BY <1>1, LsuInvariant, PTL
=============================================================================
