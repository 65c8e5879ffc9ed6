---------------------------- MODULE WindowProofs ----------------------------
(***************************************************************************)
(* The window is proved for every trace length, every size of the reorder  *)
(* buffer and every capacity of the issue queue.                           *)
(***************************************************************************)
EXTENDS Window, TLAPS

(* The step of a ring index, by which no reasoning about % is needed       *)
(* elsewhere: (robTail + 1) % robSize of Window::addInstruction.           *)
LEMMA RingStep ==
  ASSUME NEW n \in Nat \ {0}, NEW i \in 0 .. n - 1
  PROVE  (i + 1) % n = IF i + 1 = n THEN 0 ELSE i + 1
<1>1. CASE i + 1 = n
  BY <1>1, SMT
<1>2. CASE i + 1 # n
  <2>1. i + 1 \in 0 .. n - 1
    BY <1>2
  <2>2. QED
    BY <1>2, <2>1, SMT
<1>3. QED
  BY <1>1, <1>2

-----------------------------------------------------------------------------
(* The inductive invariant.                                                *)

(* The tail is as many places after the head as entries are in use.        *)
RingIndices == robTail = SlotAt(robUsed)

(* The status of an instruction says where it is: retired, in the issue    *)
(* queue, in execution or finished, or not dispatched.                     *)
StatusAgrees ==
  /\ totalCommit <= nextOp
  /\ \A d \in Ops :
       /\ d < totalCommit => status[d] = COMMITED
       /\ d >= nextOp => status[d] = INIT
       /\ totalCommit <= d /\ d < nextOp
            => status[d] \in {ALLOCATED, READY, FINISHED} \union InExecution
       /\ d \in issueQueue <=> status[d] \in {ALLOCATED, READY}

(* An instruction reads results of older instructions only.                *)
DepsOlder == \A d \in Ops : \A e \in dynDeps[d] : e < d

IInv ==
  /\ TypeOK
  /\ RobHoldsInFlight
  /\ MapNamesOccupant
  /\ RingIndices
  /\ StatusAgrees
  /\ DepsOlder

USE DEF None, INIT, ALLOCATED, READY, ISSUED, EXECUTING, FINISHED, COMMITED,
        SLEEP

-----------------------------------------------------------------------------
(* Facts about a state of the window.                                      *)

(* The entries of the ring are told apart by their distance to the head.   *)
LEMMA SlotsDistinct ==
  ASSUME RobSize \in Nat \ {0}, robHead \in Slots,
         NEW i \in 0 .. RobSize - 1, NEW j \in 0 .. RobSize - 1,
         SlotAt(i) = SlotAt(j)
  PROVE  i = j
BY DEF Slots, SlotAt

(* Every entry is at some distance from the head.                          *)
LEMMA SlotsCovered ==
  ASSUME RobSize \in Nat \ {0}, robHead \in Slots, NEW s \in Slots
  PROVE  \E i \in 0 .. RobSize - 1 : SlotAt(i) = s
<1>1. CASE s >= robHead
  <2>1. s - robHead \in 0 .. RobSize - 1 /\ SlotAt(s - robHead) = s
    BY <1>1 DEF Slots, SlotAt
  <2>2. QED
    BY <2>1
<1>2. CASE s < robHead
  <2>1. /\ s - robHead + RobSize \in 0 .. RobSize - 1
        /\ SlotAt(s - robHead + RobSize) = s
    BY <1>2 DEF Slots, SlotAt
  <2>2. QED
    BY <2>1
<1>3. QED
  BY <1>1, <1>2 DEF Slots

(* An instruction in flight is found through the map, in an entry in use.  *)
LEMMA InFlightFound ==
  ASSUME IInv, NEW d \in Ops, totalCommit <= d, d < nextOp
  PROVE  /\ opEntryMap[d] \in Slots
         /\ ROB[opEntryMap[d]] = [op |-> d, empty |-> FALSE]
<1> DEFINE i == d - totalCommit
<1>1. i \in 0 .. RobSize - 1 /\ i < robUsed
  BY RobSizeAssumption DEF IInv, TypeOK, RobHoldsInFlight, Ops
<1>2. ROB[SlotAt(i)] = [op |-> d, empty |-> FALSE]
  BY <1>1 DEF IInv, TypeOK, RobHoldsInFlight, Ops
<1>3. SlotAt(i) \in Slots
  BY <1>1, RobSizeAssumption DEF IInv, TypeOK, Slots, SlotAt
<1>4. opEntryMap[d] = SlotAt(i)
  BY <1>2, <1>3 DEF IInv, MapNamesOccupant
<1>5. QED
  BY <1>2, <1>3, <1>4

(* What the readiness test means: every dependency has its result.         *)
LEMMA ReadyMeansResults ==
  ASSUME IInv, NEW d \in Ops, d < nextOp, checkInsnReady(d)
  PROVE  \A e \in dynDeps[d] : status[e] \in HasResult
<1>1. SUFFICES ASSUME NEW e \in dynDeps[d]
               PROVE  status[e] \in HasResult
  OBVIOUS
<1>2. e \in Ops /\ e < d
  BY <1>1 DEF IInv, TypeOK, DepsOlder
<1>3. CASE e < totalCommit
  BY <1>2, <1>3 DEF IInv, StatusAgrees, HasResult
<1>4. CASE e >= totalCommit
  <2>1. e < nextOp
    BY <1>2 DEF IInv, TypeOK, Ops
  <2>2. opEntryMap[e] \in Slots /\ ROB[opEntryMap[e]] = [op |-> e, empty |-> FALSE]
    BY <1>2, <1>4, <2>1, InFlightFound
  <2>3. opEntryMap[e] # None
    BY <2>2 DEF Slots
  <2>4. status[e] = FINISHED
    BY <1>1, <2>2, <2>3 DEF checkInsnReady
  <2>5. QED
    BY <2>4 DEF HasResult
<1>5. QED
  BY <1>2, <1>3, <1>4 DEF IInv, TypeOK, Ops

(* The oldest instruction in flight reads retired instructions only, so    *)
(* whatever entries their keys name, none holds it up.                     *)
LEMMA OldestReady == IInv => OldestCanIssue
<1>1. SUFFICES ASSUME IInv, totalCommit \in issueQueue,
                      NEW e \in dynDeps[totalCommit],
                      opEntryMap[e] # None, ~ROB[opEntryMap[e]].empty
               PROVE  FALSE
  BY DEF OldestCanIssue, checkInsnReady
<1>2. totalCommit \in Ops /\ e \in Ops /\ e < totalCommit
  BY <1>1 DEF IInv, TypeOK, DepsOlder
<1>3. opEntryMap[e] \in Slots /\ ROB[opEntryMap[e]].op = e
  BY <1>1, <1>2 DEF IInv, TypeOK, MapNamesOccupant
<1>4. PICK i \in 0 .. RobSize - 1 : SlotAt(i) = opEntryMap[e]
  BY <1>1, <1>3, SlotsCovered, RobSizeAssumption DEF IInv, TypeOK
<1>5. i < robUsed
  BY <1>1, <1>4 DEF IInv, RobHoldsInFlight
<1>6. ROB[opEntryMap[e]].op = totalCommit + i
  <2>1. ROB[SlotAt(i)] = [op |-> totalCommit + i, empty |-> FALSE]
    BY <1>1, <1>5 DEF IInv, RobHoldsInFlight
  <2>2. QED
    BY <1>4, <2>1
<1>7. QED
  BY <1>1, <1>2, <1>3, <1>4, <1>6 DEF IInv, TypeOK, Ops

(* At the head of the ring is the oldest instruction in flight.            *)
LEMMA HeadOldest ==
  ASSUME IInv, ~ROB[robHead].empty
  PROVE  /\ robUsed > 0
         /\ totalCommit \in Ops
         /\ totalCommit < nextOp
         /\ ROB[robHead].op = totalCommit
<1>1. 0 \in 0 .. RobSize - 1 /\ SlotAt(0) = robHead
  BY RobSizeAssumption DEF IInv, TypeOK, Slots, SlotAt
<1>2. robUsed > 0
  BY DEF IInv, TypeOK, RobHoldsInFlight, ifROBEmpty
<1>3. ROB[SlotAt(0)] = [op |-> totalCommit + 0, empty |-> FALSE]
  BY <1>1, <1>2 DEF IInv, RobHoldsInFlight
<1>4. QED
  BY <1>1, <1>2, <1>3 DEF IInv, TypeOK, RobHoldsInFlight, Ops

(* Entries in use hold instructions that have been dispatched.             *)
LEMMA OccupantsDispatched ==
  ASSUME IInv, NEW s \in Slots, ~ROB[s].empty
  PROVE  ROB[s].op \in Ops /\ ROB[s].op < nextOp
<1>1. PICK i \in 0 .. RobSize - 1 : SlotAt(i) = s
  BY SlotsCovered, RobSizeAssumption DEF IInv, TypeOK
<1>2. i < robUsed
  BY <1>1 DEF IInv, RobHoldsInFlight
<1>3. ROB[SlotAt(i)] = [op |-> totalCommit + i, empty |-> FALSE]
  BY <1>2 DEF IInv, RobHoldsInFlight
<1>4. ROB[s].op = totalCommit + i
  BY <1>1, <1>3
<1>5. QED
  BY <1>2, <1>4 DEF IInv, TypeOK, RobHoldsInFlight, Ops

(* removeItemByValue removes every key of a value that has at most one.    *)
LEMMA RemoveUnique ==
  ASSUME NEW map \in [Ops -> Slots \union {None}], NEW slot \in Slots,
         \A d, e \in Ops : map[d] = slot /\ map[e] = slot => d = e
  PROVE  removeItemByValue(map, slot)
           = [d \in Ops |-> IF map[d] = slot THEN None ELSE map[d]]
<1> DEFINE keys == {d \in Ops : map[d] = slot}
<1>1. CASE keys = {}
  BY <1>1 DEF removeItemByValue
<1>2. CASE keys # {}
  <2>1. PICK k \in Ops : keys = {k}
    BY <1>2
  <2>2. \A e \in keys : k <= e
    BY <2>1 DEF Ops
  <2>3. (CHOOSE d \in keys : \A e \in keys : d <= e) = k
    BY <2>1, <2>2
  <2>4. removeItemByValue(map, slot) = [map EXCEPT ![k] = None]
    BY <1>2, <2>3 DEF removeItemByValue
  <2>5. QED
    BY <2>1, <2>4
<1>3. QED
  BY <1>1, <1>2

-----------------------------------------------------------------------------
(* The ring when an instruction enters and when one leaves.                *)

LEMMA TailFree ==
  ASSUME IInv, ~ifROBFull
  PROVE  robUsed \in 0 .. RobSize - 1 /\ robTail = SlotAt(robUsed)
BY RobSizeAssumption DEF IInv, TypeOK, RobHoldsInFlight, RingIndices

LEMMA EnterRing ==
  ASSUME IInv, nextOp \in Ops, ~ifROBFull, addInstruction(nextOp),
         nextOp' = nextOp + 1, UNCHANGED <<robHead, totalCommit>>
  PROVE  RobHoldsInFlight' /\ RingIndices'
<1> USE RobSizeAssumption
<1>1. robUsed \in 0 .. RobSize - 1 /\ robTail = SlotAt(robUsed)
  BY TailFree
<1>2. robTail' = IF robTail + 1 = RobSize THEN 0 ELSE robTail + 1
  <2>1. robTail \in 0 .. RobSize - 1
    BY DEF IInv, TypeOK, Slots
  <2>2. QED
    BY <2>1, RingStep DEF addInstruction
<1>3. ASSUME NEW i PROVE SlotAt(i)' = SlotAt(i)
  BY DEF SlotAt
<1>4. robTail' = SlotAt(robUsed + 1)
  BY <1>1, <1>2 DEF IInv, TypeOK, Slots, SlotAt
<1>5. ASSUME NEW i \in 0 .. RobSize - 1
      PROVE  IF i < robUsed + 1
             THEN ROB'[SlotAt(i)] = [op |-> totalCommit + i, empty |-> FALSE]
             ELSE ROB'[SlotAt(i)].empty
  <2>1. SlotAt(i) \in Slots
    BY DEF IInv, TypeOK, Slots, SlotAt
  <2>2. CASE i = robUsed
    <3>1. nextOp = totalCommit + robUsed
      BY DEF IInv, TypeOK, RobHoldsInFlight
    <3>2. ROB'[SlotAt(i)] = [op |-> nextOp, empty |-> FALSE]
      BY <1>1, <2>1, <2>2 DEF IInv, TypeOK, addInstruction
    <3>3. QED
      BY <1>1, <2>2, <3>1, <3>2
  <2>3. CASE i # robUsed
    <3>1. SlotAt(i) # robTail
      BY <1>1, <2>3, SlotsDistinct DEF IInv, TypeOK
    <3>2. ROB'[SlotAt(i)] = ROB[SlotAt(i)]
      BY <2>1, <3>1 DEF IInv, TypeOK, addInstruction
    <3>3. QED
      BY <1>1, <2>3, <3>2 DEF IInv, RobHoldsInFlight
  <2>4. QED
    BY <2>2, <2>3
<1>6. robUsed' = robUsed + 1
  BY DEF addInstruction
<1>7. ~ROB'[SlotAt(0)].empty
  <2>1. 0 \in 0 .. RobSize - 1 /\ 0 < robUsed + 1
    BY <1>1
  <2>2. ROB'[SlotAt(0)] = [op |-> totalCommit + 0, empty |-> FALSE]
    BY <1>5, <2>1
  <2>3. QED
    BY <2>2
<1>8. ifROBEmpty' <=> robUsed' = 0
  <2>1. SlotAt(0) = robHead
    BY DEF IInv, TypeOK, Slots, SlotAt
  <2>2. ~ROB'[SlotAt(0)].empty
    BY <1>7
  <2>3. QED
    BY <1>1, <1>6, <2>1, <2>2 DEF ifROBEmpty
<1>9. ifROBFull' <=> robUsed' = RobSize
  <2>1. CASE robUsed + 1 = RobSize
    <3>1. robTail' = SlotAt(0)
      BY <1>4, <2>1 DEF IInv, TypeOK, Slots, SlotAt
    <3>2. QED
      BY <1>6, <1>7, <2>1, <3>1 DEF ifROBFull
  <2>2. CASE robUsed + 1 # RobSize
    <3>1. robUsed + 1 \in 0 .. RobSize - 1
      BY <1>1, <2>2
    <3>2. ROB'[SlotAt(robUsed + 1)].empty
      <4>1. ~(robUsed + 1 < robUsed + 1)
        BY <1>1
      <4>2. QED
        BY <1>5, <3>1, <4>1
    <3>3. QED
      BY <1>4, <1>6, <2>2, <3>2 DEF ifROBFull
  <2>3. QED
    BY <2>1, <2>2
<1>10. robUsed' = nextOp' - totalCommit'
  BY <1>6 DEF IInv, TypeOK, RobHoldsInFlight
<1>11. RobHoldsInFlight'
  BY <1>3, <1>5, <1>6, <1>8, <1>9, <1>10 DEF RobHoldsInFlight
<1>12. RingIndices'
  BY <1>3, <1>4, <1>6 DEF RingIndices
<1>13. QED
  BY <1>11, <1>12

LEMMA LeaveRing ==
  ASSUME IInv, canRetire, releaseHead, totalCommit' = totalCommit + 1,
         UNCHANGED <<nextOp, robTail>>
  PROVE  RobHoldsInFlight' /\ RingIndices'
<1> USE RobSizeAssumption
<1> DEFINE S(i) == IF robHead' + i < RobSize THEN robHead' + i
                                             ELSE robHead' + i - RobSize
<1>1. ~ROB[robHead].empty
  BY DEF canRetire
<1>2. robUsed \in 1 .. RobSize /\ totalCommit < nextOp
  BY <1>1, HeadOldest DEF IInv, TypeOK
<1>3. robHead' = IF robHead + 1 = RobSize THEN 0 ELSE robHead + 1
  <2>1. robHead \in 0 .. RobSize - 1
    BY DEF IInv, TypeOK, Slots
  <2>2. QED
    BY <2>1, RingStep DEF releaseHead
<1>4. robUsed' = robUsed - 1
  BY DEF releaseHead
<1>5. ASSUME NEW i PROVE SlotAt(i)' = S(i)
  BY DEF SlotAt
<1>6. ASSUME NEW i \in 0 .. RobSize - 2
      PROVE  S(i) = SlotAt(i + 1)
  BY <1>3 DEF IInv, TypeOK, Slots, SlotAt
<1>7. S(RobSize - 1) = robHead
  BY <1>3 DEF IInv, TypeOK, Slots
<1>8. SlotAt(0) = robHead
  BY DEF IInv, TypeOK, Slots, SlotAt
<1>9. ASSUME NEW i \in 0 .. RobSize - 1
      PROVE  IF i < robUsed - 1
             THEN ROB'[S(i)] = [op |-> totalCommit + 1 + i, empty |-> FALSE]
             ELSE ROB'[S(i)].empty
  <2>1. CASE i = RobSize - 1
    <3>1. ROB'[S(i)].empty
      BY <1>7, <2>1 DEF IInv, TypeOK, releaseHead
    <3>2. ~(i < robUsed - 1)
      BY <1>2, <2>1
    <3>3. QED
      BY <3>1, <3>2
  <2>2. CASE i # RobSize - 1
    <3>1. i \in 0 .. RobSize - 2 /\ i + 1 \in 0 .. RobSize - 1
      BY <2>2
    <3>2. S(i) = SlotAt(i + 1)
      BY <1>6, <3>1
    <3>3. SlotAt(i + 1) # robHead
      BY <1>8, <3>1, SlotsDistinct DEF IInv, TypeOK
    <3>4. SlotAt(i + 1) \in Slots
      BY <3>1 DEF IInv, TypeOK, Slots, SlotAt
    <3>5. ROB'[S(i)] = ROB[SlotAt(i + 1)]
      BY <3>2, <3>3, <3>4 DEF IInv, TypeOK, releaseHead
    <3>6. CASE i < robUsed - 1
      <4>1. i + 1 < robUsed
        BY <1>2, <3>6
      <4>2. ROB[SlotAt(i + 1)] = [op |-> totalCommit + (i + 1), empty |-> FALSE]
        BY <3>1, <4>1 DEF IInv, RobHoldsInFlight
      <4>3. totalCommit + (i + 1) = totalCommit + 1 + i
        BY DEF IInv, TypeOK
      <4>4. QED
        BY <3>5, <3>6, <4>2, <4>3
    <3>7. CASE ~(i < robUsed - 1)
      <4>1. ~(i + 1 < robUsed)
        BY <1>2, <3>7
      <4>2. ROB[SlotAt(i + 1)].empty
        BY <3>1, <4>1 DEF IInv, RobHoldsInFlight
      <4>3. QED
        BY <3>5, <3>7, <4>2
    <3>8. QED
      BY <3>6, <3>7
  <2>3. QED
    BY <2>1, <2>2
<1>10. ifROBEmpty' <=> robUsed' = 0
  <2>1. S(0) = robHead'
    BY <1>3 DEF IInv, TypeOK, Slots
  <2>2. 0 \in 0 .. RobSize - 1
    OBVIOUS
  <2>3. CASE robUsed = 1
    <3>1. ROB'[S(0)].empty
      <4>1. ~(0 < robUsed - 1)
        BY <2>3
      <4>2. QED
        BY <1>9, <2>2, <4>1
    <3>2. QED
      BY <1>4, <2>1, <2>3, <3>1 DEF ifROBEmpty
  <2>4. CASE robUsed # 1
    <3>1. 0 < robUsed - 1
      BY <1>2, <2>4
    <3>2. ROB'[S(0)] = [op |-> totalCommit + 1 + 0, empty |-> FALSE]
      BY <1>9, <2>2, <3>1
    <3>3. ~ROB'[S(0)].empty
      BY <3>2
    <3>4. QED
      BY <1>4, <2>1, <3>1, <3>3 DEF ifROBEmpty
  <2>5. QED
    BY <2>3, <2>4
<1>11. RingIndices'
  <2>1. robTail' = SlotAt(robUsed)
    BY DEF IInv, RingIndices
  <2>2. S(robUsed - 1) = SlotAt(robUsed)
    BY <1>2, <1>3 DEF IInv, TypeOK, Slots, SlotAt
  <2>3. QED
    BY <1>4, <1>5, <2>1, <2>2 DEF RingIndices
<1>12. ifROBFull' <=> robUsed' = RobSize
  <2>1. robUsed - 1 \in 0 .. RobSize - 1 /\ ~(robUsed - 1 < robUsed - 1)
    BY <1>2
  <2>2. ROB'[S(robUsed - 1)].empty
    BY <1>9, <2>1
  <2>3. robTail' = S(robUsed - 1)
    BY <1>4, <1>5, <1>11 DEF RingIndices
  <2>4. QED
    BY <1>4, <2>1, <2>2, <2>3 DEF ifROBFull
<1>13. robUsed' = nextOp' - totalCommit'
  BY <1>4 DEF IInv, TypeOK, RobHoldsInFlight
<1>14. RobHoldsInFlight'
  BY <1>4, <1>5, <1>9, <1>10, <1>12, <1>13 DEF RobHoldsInFlight
<1>15. QED
  BY <1>11, <1>14

-----------------------------------------------------------------------------
(* The map when an instruction takes over an entry.                        *)

LEMMA EnterMap ==
  ASSUME IInv, nextOp \in Ops, ~ifROBFull, addInstruction(nextOp)
  PROVE  /\ opEntryMap' \in [Ops -> Slots \union {None}]
         /\ MapNamesOccupant'
<1> DEFINE m == removeItemByValue(opEntryMap, robTail)
<1>1. \A d, e \in Ops : opEntryMap[d] = robTail /\ opEntryMap[e] = robTail
                           => d = e
  BY DEF IInv, TypeOK, MapNamesOccupant, Slots
<1>2. m = [d \in Ops |-> IF opEntryMap[d] = robTail THEN None ELSE opEntryMap[d]]
  BY <1>1, RemoveUnique DEF IInv, TypeOK
<1>3. opEntryMap' = [m EXCEPT ![nextOp] = robTail]
  BY DEF addInstruction
<1> HIDE DEF m
<1>4. opEntryMap' \in [Ops -> Slots \union {None}]
  BY <1>2, <1>3 DEF IInv, TypeOK
<1>5. ASSUME NEW d \in Ops
      PROVE  opEntryMap'[d] = IF d = nextOp THEN robTail
                              ELSE IF opEntryMap[d] = robTail THEN None
                              ELSE opEntryMap[d]
  BY <1>2, <1>3
<1>6. ASSUME NEW s \in Slots
      PROVE  ROB'[s] = IF s = robTail THEN [op |-> nextOp, empty |-> FALSE]
                                      ELSE ROB[s]
  BY DEF IInv, TypeOK, addInstruction
<1>7. ASSUME NEW d \in Ops, opEntryMap'[d] # None
      PROVE  ROB'[opEntryMap'[d]].op = d
  <2>1. CASE d = nextOp
    BY <1>5, <1>6, <2>1 DEF IInv, TypeOK
  <2>2. CASE d # nextOp
    <3>1. opEntryMap'[d] = opEntryMap[d] /\ opEntryMap[d] # robTail
      BY <1>5, <1>7, <2>2
    <3>2. opEntryMap[d] \in Slots
      BY <1>7, <3>1 DEF IInv, TypeOK
    <3>3. QED
      BY <1>6, <1>7, <3>1, <3>2 DEF IInv, MapNamesOccupant
  <2>3. QED
    BY <2>1, <2>2
<1>8. ASSUME NEW s \in Slots, ~ROB'[s].empty
      PROVE  opEntryMap'[ROB'[s].op] = s
  <2>1. CASE s = robTail
    BY <1>5, <1>6, <2>1
  <2>2. CASE s # robTail
    <3>1. ROB'[s] = ROB[s] /\ ~ROB[s].empty
      BY <1>6, <1>8, <2>2
    <3>2. ROB[s].op \in Ops /\ ROB[s].op # nextOp
      BY <3>1, OccupantsDispatched DEF Ops
    <3>3. opEntryMap[ROB[s].op] = s
      BY <3>1 DEF IInv, MapNamesOccupant
    <3>4. QED
      BY <1>5, <2>2, <3>1, <3>2, <3>3
  <2>3. QED
    BY <2>1, <2>2
<1>9. QED
  BY <1>4, <1>7, <1>8 DEF MapNamesOccupant

-----------------------------------------------------------------------------
(* The invariant holds initially and every action preserves it.            *)

LEMMA InitIInv == Init => IInv
<1> SUFFICES ASSUME Init PROVE IInv
  OBVIOUS
<1> USE RobSizeAssumption, NumOpsAssumption DEF Init
<1>1. TypeOK
  BY DEF TypeOK, Slots, Status, Ops
<1>2. RobHoldsInFlight
  <2>1. \A i \in 0 .. RobSize - 1 : SlotAt(i) \in Slots
    BY DEF Slots, SlotAt
  <2>2. \A s \in Slots : ROB[s].empty
    OBVIOUS
  <2>3. robHead \in Slots /\ robTail \in Slots
    BY DEF Slots
  <2>4. QED
    BY <2>1, <2>2, <2>3 DEF RobHoldsInFlight, ifROBFull, ifROBEmpty
<1>3. MapNamesOccupant
  BY DEF MapNamesOccupant
<1>4. RingIndices
  BY DEF RingIndices, SlotAt
<1>5. StatusAgrees
  BY DEF StatusAgrees, Ops
<1>6. DepsOlder
  BY DEF DepsOlder
<1>7. QED
  BY <1>1, <1>2, <1>3, <1>4, <1>5, <1>6 DEF IInv

LEMMA DispatchIInv ==
  ASSUME IInv, NEW D \in SUBSET (0 .. nextOp - 1), Dispatch(D)
  PROVE  IInv'
<1> USE DEF Dispatch
<1>1. RobHoldsInFlight' /\ RingIndices'
  BY EnterRing
<1>2. opEntryMap' \in [Ops -> Slots \union {None}] /\ MapNamesOccupant'
  BY EnterMap
<1>3. TypeOK'
  <2>1. robTail' \in Slots
    <3>1. robTail \in 0 .. RobSize - 1
      BY DEF IInv, TypeOK, Slots
    <3>2. QED
      BY <3>1, RingStep, RobSizeAssumption DEF addInstruction, Slots
  <2>2. robUsed' \in 0 .. RobSize
    BY TailFree, RobSizeAssumption DEF addInstruction
  <2>3. ROB' \in [Slots -> [op : Ops \union {None}, empty : BOOLEAN]]
    BY DEF IInv, TypeOK, addInstruction
  <2>4. dynDeps' \in [Ops -> SUBSET Ops]
    <3>1. D \subseteq Ops
      <4>1. nextOp \in 0 .. NumOps
        BY DEF IInv, TypeOK
      <4>2. 0 .. nextOp - 1 \subseteq Ops
        BY <4>1, NumOpsAssumption DEF Ops
      <4>3. QED
        BY <4>2
    <3>2. dynDeps' = [dynDeps EXCEPT ![nextOp] = D]
      OBVIOUS
    <3>3. dynDeps \in [Ops -> SUBSET Ops]
      BY DEF IInv, TypeOK
    <3>4. QED
      BY <3>1, <3>2, <3>3
  <2>5. status' \in [Ops -> Status] /\ nextOp' \in 0 .. NumOps
    BY NumOpsAssumption DEF IInv, TypeOK, Ops, Status
  <2>6. QED
    BY <1>2, <2>1, <2>2, <2>3, <2>4, <2>5 DEF IInv, TypeOK
<1>4. StatusAgrees'
  <2>1. totalCommit <= nextOp
    BY DEF IInv, StatusAgrees
  <2>2. QED
    BY <2>1 DEF IInv, TypeOK, StatusAgrees, Ops, InExecution
<1>5. DepsOlder'
  BY DEF IInv, TypeOK, DepsOlder, Ops
<1>6. QED
  BY <1>1, <1>2, <1>3, <1>4, <1>5 DEF IInv

(* Actions that leave the ring and the map alone.                          *)
LEMMA RingUnchanged ==
  ASSUME IInv, UNCHANGED <<dynDeps, nextOp, robVars, totalCommit>>
  PROVE  RobHoldsInFlight' /\ MapNamesOccupant' /\ RingIndices' /\ DepsOlder'
BY DEF IInv, robVars, RobHoldsInFlight, MapNamesOccupant, RingIndices,
       DepsOlder, SlotAt, ifROBFull, ifROBEmpty

LEMMA WaitForPortIInv ==
  ASSUME IInv, NEW d \in issueQueue, WaitForPort(d)
  PROVE  IInv'
<1>1. RobHoldsInFlight' /\ MapNamesOccupant' /\ RingIndices' /\ DepsOlder'
  BY RingUnchanged DEF WaitForPort
<1>2. TypeOK'
  BY DEF WaitForPort, robVars, IInv, TypeOK, Status
<1>3. StatusAgrees'
  BY DEF WaitForPort, IInv, TypeOK, StatusAgrees, Ops, InExecution
<1>4. QED
  BY <1>1, <1>2, <1>3 DEF IInv

LEMMA IssueIInv ==
  ASSUME IInv, NEW d \in issueQueue, Issue(d)
  PROVE  IInv'
<1>1. RobHoldsInFlight' /\ MapNamesOccupant' /\ RingIndices' /\ DepsOlder'
  BY RingUnchanged DEF Issue
<1>2. TypeOK'
  BY DEF Issue, robVars, IInv, TypeOK, Status
<1>3. StatusAgrees'
  BY DEF Issue, IInv, TypeOK, StatusAgrees, Ops, InExecution
<1>4. QED
  BY <1>1, <1>2, <1>3 DEF IInv

LEMMA ExecuteIInv ==
  ASSUME IInv, NEW S \in SUBSET Executing,
         NEW becomes \in [S -> {EXECUTING, SLEEP, FINISHED}],
         Execute(S, becomes)
  PROVE  IInv'
<1>1. RobHoldsInFlight' /\ MapNamesOccupant' /\ RingIndices' /\ DepsOlder'
  BY RingUnchanged DEF Execute
<1>2. \A d \in Ops : IF d \in S THEN /\ status[d] \in InExecution
                                   /\ status'[d] \in {EXECUTING, SLEEP, FINISHED}
                    ELSE status'[d] = status[d]
  BY DEF Execute, Executing
<1>3. TypeOK'
  <2>1. status' \in [Ops -> Status]
    BY <1>2 DEF Execute, IInv, TypeOK, Status
  <2>2. QED
    BY <2>1 DEF Execute, robVars, IInv, TypeOK
<1>4. StatusAgrees'
  BY <1>2 DEF Execute, IInv, TypeOK, StatusAgrees, Ops, InExecution
<1>5. QED
  BY <1>1, <1>3, <1>4 DEF IInv

LEMMA RetireIInv ==
  ASSUME IInv, Retire
  PROVE  IInv'
<1> USE DEF Retire
<1>1. /\ totalCommit \in Ops /\ totalCommit < nextOp /\ robUsed > 0
      /\ ROB[robHead].op = totalCommit
  BY HeadOldest DEF canRetire
<1>2. RobHoldsInFlight' /\ RingIndices'
  BY LeaveRing
<1>3. TypeOK'
  <2>1. robHead' \in Slots
    <3>1. robHead \in 0 .. RobSize - 1
      BY DEF IInv, TypeOK, Slots
    <3>2. QED
      BY <3>1, RingStep, RobSizeAssumption DEF releaseHead, Slots
  <2>2. robUsed' \in 0 .. RobSize
    BY <1>1, RobSizeAssumption DEF IInv, TypeOK, releaseHead
  <2>3. ROB' \in [Slots -> [op : Ops \union {None}, empty : BOOLEAN]]
    BY DEF IInv, TypeOK, releaseHead
  <2>4. status' \in [Ops -> Status] /\ totalCommit' \in 0 .. NumOps
    BY <1>1, NumOpsAssumption DEF IInv, TypeOK, Ops, Status
  <2>5. QED
    BY <2>1, <2>2, <2>3, <2>4 DEF IInv, TypeOK
<1>4. MapNamesOccupant'
  <2>1. \A s \in Slots : /\ ROB'[s].op = ROB[s].op
                         /\ ~ROB'[s].empty => ~ROB[s].empty
    BY DEF IInv, TypeOK, releaseHead
  <2>2. QED
    BY <2>1 DEF IInv, TypeOK, MapNamesOccupant
<1>5. StatusAgrees'
  BY <1>1 DEF IInv, TypeOK, StatusAgrees, canRetire, Ops, InExecution
<1>6. DepsOlder'
  BY DEF IInv, DepsOlder
<1>7. QED
  BY <1>2, <1>3, <1>4, <1>5, <1>6 DEF IInv

LEMMA NextIInv == IInv /\ [Next]_vars => IInv'
<1> SUFFICES ASSUME IInv, [Next]_vars PROVE IInv'
  OBVIOUS
<1>1. ASSUME NEW D \in SUBSET (0 .. nextOp - 1), Dispatch(D) PROVE IInv'
  BY <1>1, DispatchIInv
<1>2. ASSUME NEW d \in issueQueue, WaitForPort(d) PROVE IInv'
  BY <1>2, WaitForPortIInv
<1>3. ASSUME NEW d \in issueQueue, Issue(d) PROVE IInv'
  BY <1>3, IssueIInv
<1>4. ASSUME NEW S \in SUBSET Executing,
             NEW becomes \in [S -> {EXECUTING, SLEEP, FINISHED}],
             Execute(S, becomes)
      PROVE  IInv'
  BY <1>4, ExecuteIInv
<1>5. CASE Retire
  BY <1>5, RetireIInv
<1>6. CASE UNCHANGED vars
  <2>1. RobHoldsInFlight' /\ MapNamesOccupant' /\ RingIndices' /\ DepsOlder'
    BY <1>6, RingUnchanged DEF vars
  <2>2. TypeOK' /\ StatusAgrees'
    BY <1>6 DEF vars, robVars, IInv, TypeOK, StatusAgrees
  <2>3. QED
    BY <2>1, <2>2 DEF IInv
<1>7. QED
  BY <1>1, <1>2, <1>3, <1>4, <1>5, <1>6 DEF Next, Stopped

-----------------------------------------------------------------------------
(* The theorems.                                                           *)

(* The inductive invariant holds in every reachable state of the window.   *)
THEOREM WindowInvariant == Spec => []IInv
<1>1. QED
  BY InitIInv, NextIInv, PTL DEF Spec

(* The ring indices and counters of Window stay in their ranges.           *)
THEOREM TypeCorrect == Spec => []TypeOK
<1>1. IInv => TypeOK
  BY DEF IInv
<1>2. QED
  BY <1>1, WindowInvariant, PTL

(* The ring holds the instructions in flight, in program order, and its    *)
(* full and empty tests are exact, for every size of the reorder buffer.   *)
THEOREM RingCorrect == Spec => []RobHoldsInFlight
<1>1. IInv => RobHoldsInFlight
  BY DEF IInv
<1>2. QED
  BY <1>1, WindowInvariant, PTL

(* opEntryMap never names an entry that another instruction took over.     *)
THEOREM MapCorrect == Spec => []MapNamesOccupant
<1>1. IInv => MapNamesOccupant
  BY DEF IInv
<1>2. QED
  BY <1>1, WindowInvariant, PTL

(* Window::canIssue never refuses the oldest instruction in flight.        *)
THEOREM OldestNeverBlocked == Spec => []OldestCanIssue
<1>1. QED
  BY OldestReady, WindowInvariant, PTL

-----------------------------------------------------------------------------
(* The window implements InOrderCommit: every step maps to a step of it or *)
(* to a stutter.                                                           *)

StartedOps == {d \in Ops : status[d] \in InExecution \union HasResult}
DoneOps == {d \in Ops : status[d] \in HasResult}

LEMMA DispatchEnters ==
  ASSUME IInv, NEW D \in SUBSET (0 .. nextOp - 1), Dispatch(D)
  PROVE  Abstract!Enter
<1> USE DEF Dispatch
<1>1. nextOp < NumOps
  BY NumOpsAssumption DEF Ops
<1>2. nextOp - totalCommit < RobSize
  <2>1. robUsed = nextOp - totalCommit
    BY DEF IInv, RobHoldsInFlight
  <2>2. robUsed \in 0 .. RobSize - 1
    BY TailFree
  <2>3. QED
    BY <2>1, <2>2, RobSizeAssumption
<1>3. StartedOps' = StartedOps /\ DoneOps' = DoneOps
  BY DEF StartedOps, DoneOps, IInv, TypeOK, InExecution, HasResult
<1>4. QED
  BY <1>1, <1>2, <1>3 DEF Abstract!Enter, StartedOps, DoneOps

LEMMA IssueStarts ==
  ASSUME IInv, NEW d \in issueQueue, Issue(d)
  PROVE  d \in totalCommit .. nextOp - 1 /\ Abstract!Start(d)
<1> USE DEF Issue
<1>1. d \in Ops /\ status[d] \in {ALLOCATED, READY}
  BY DEF IInv, TypeOK, StatusAgrees
<1>2. totalCommit <= d /\ d < nextOp
  BY <1>1 DEF IInv, TypeOK, StatusAgrees, Ops
<1>3. dynDeps[d] \subseteq DoneOps
  <2>1. \A e \in dynDeps[d] : status[e] \in HasResult
    BY <1>1, <1>2, ReadyMeansResults
  <2>2. dynDeps[d] \subseteq Ops
    BY <1>1 DEF IInv, TypeOK
  <2>3. QED
    BY <2>1, <2>2 DEF DoneOps
<1>4. d \notin StartedOps
  BY <1>1 DEF StartedOps, InExecution, HasResult
<1>5. \A e \in Ops : status'[e] = IF e = d THEN ISSUED ELSE status[e]
  BY DEF IInv, TypeOK
<1>6. StartedOps' = StartedOps \union {d} /\ DoneOps' = DoneOps
  BY <1>1, <1>5 DEF StartedOps, DoneOps, InExecution, HasResult
<1>7. d \in totalCommit .. nextOp - 1
  BY <1>1, <1>2 DEF Ops, IInv, TypeOK
<1>8. Abstract!Start(d)
  BY <1>3, <1>4, <1>6 DEF Abstract!Start, StartedOps, DoneOps, robVars
<1>9. QED
  BY <1>7, <1>8

LEMMA ExecuteCompletes ==
  ASSUME IInv, NEW S \in SUBSET Executing,
         NEW becomes \in [S -> {EXECUTING, SLEEP, FINISHED}],
         Execute(S, becomes)
  PROVE  \E F \in SUBSET (totalCommit .. nextOp - 1) : Abstract!Complete(F)
<1> DEFINE F == {d \in S : becomes[d] = FINISHED}
<1> USE DEF Execute
<1>1. \A d \in S : d \in Ops /\ status[d] \in InExecution
  BY DEF Executing
<1>2. F \in SUBSET (totalCommit .. nextOp - 1)
  BY <1>1 DEF IInv, TypeOK, StatusAgrees, Ops, InExecution
<1>3. F \subseteq StartedOps
  BY <1>1 DEF StartedOps
<1>4. \A d \in Ops : status'[d] = IF d \in S THEN becomes[d] ELSE status[d]
  OBVIOUS
<1>5. StartedOps' = StartedOps /\ DoneOps' = DoneOps \union F
  BY <1>1, <1>4 DEF StartedOps, DoneOps, InExecution, HasResult
<1>6. Abstract!Complete(F)
  BY <1>3, <1>5 DEF Abstract!Complete, StartedOps, DoneOps
<1>7. QED
  BY <1>2, <1>6

LEMMA RetireCommits ==
  ASSUME IInv, Retire
  PROVE  Abstract!Commit
<1> USE DEF Retire
<1>1. totalCommit \in Ops /\ totalCommit < nextOp /\ ROB[robHead].op = totalCommit
  BY HeadOldest DEF canRetire
<1>2. status[totalCommit] = FINISHED
  BY <1>1 DEF canRetire
<1>3. totalCommit \in DoneOps
  BY <1>1, <1>2 DEF DoneOps, HasResult
<1>4. \A d \in Ops : status'[d] = IF d = totalCommit THEN COMMITED ELSE status[d]
  BY <1>1 DEF IInv, TypeOK
<1>5. StartedOps' = StartedOps /\ DoneOps' = DoneOps
  BY <1>2, <1>4 DEF StartedOps, DoneOps, InExecution, HasResult
<1>6. QED
  BY <1>1, <1>3, <1>5 DEF Abstract!Commit, StartedOps, DoneOps

(* An instruction that finds no port.                                      *)
LEMMA WaitForPortStutters ==
  ASSUME IInv, NEW d \in issueQueue, WaitForPort(d)
  PROVE  UNCHANGED Abstract!vars
<1>1. \A e \in Ops : status'[e] = IF e = d THEN READY ELSE status[e]
  BY DEF WaitForPort, IInv, TypeOK
<1>2. StartedOps' = StartedOps /\ DoneOps' = DoneOps
  BY <1>1 DEF WaitForPort, StartedOps, DoneOps, InExecution, HasResult
<1>3. QED
  BY <1>2 DEF WaitForPort, Abstract!vars, StartedOps, DoneOps

LEMMA StepRefines == IInv /\ [Next]_vars => [Abstract!Next]_(Abstract!vars)
<1> SUFFICES ASSUME IInv, [Next]_vars PROVE [Abstract!Next]_(Abstract!vars)
  OBVIOUS
<1>1. ASSUME NEW D \in SUBSET (0 .. nextOp - 1), Dispatch(D)
      PROVE  Abstract!Next
  BY <1>1, DispatchEnters DEF Abstract!Next
<1>2. ASSUME NEW d \in issueQueue, Issue(d) PROVE Abstract!Next
  BY <1>2, IssueStarts DEF Abstract!Next
<1>3. ASSUME NEW S \in SUBSET Executing,
             NEW becomes \in [S -> {EXECUTING, SLEEP, FINISHED}],
             Execute(S, becomes)
      PROVE  Abstract!Next
  BY <1>3, ExecuteCompletes DEF Abstract!Next
<1>4. CASE Retire
  BY <1>4, RetireCommits DEF Abstract!Next
<1>5. ASSUME NEW d \in issueQueue, WaitForPort(d)
      PROVE  UNCHANGED Abstract!vars
  BY <1>5, WaitForPortStutters
<1>6. CASE UNCHANGED vars
  BY <1>6 DEF vars, Abstract!vars
<1>7. QED
  BY <1>1, <1>2, <1>3, <1>4, <1>5, <1>6 DEF Next, Stopped

(* The window, for every size, is an in-order-commit back end: Window and  *)
(* IssueUnit never let an instruction start before every instruction whose *)
(* result it reads has finished, and retire in program order.              *)
THEOREM WindowImplementsInOrderCommit == Spec => ImplementsInOrderCommit
<1>1. Init => Abstract!Init
  BY NumOpsAssumption DEF Init, Abstract!Init, InExecution, HasResult, Ops
<1>2. QED
  BY <1>1, StepRefines, WindowInvariant, PTL
  DEF Spec, ImplementsInOrderCommit, Abstract!Spec
=============================================================================
