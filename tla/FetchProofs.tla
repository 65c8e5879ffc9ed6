---------------------------- MODULE FetchProofs ----------------------------
(***************************************************************************)
(* The front end is proved for every program the assumptions allow, every  *)
(* length of its trace and every size of its queues and packages.          *)
(***************************************************************************)
EXTENDS Fetch, Basics

-----------------------------------------------------------------------------
(* The inductive invariant.                                                *)

Block == DOMAIN Program \cup {None}
StaticOp == [block : DOMAIN Program, uid : Nat, kind : STRING, to : Seq(Block)]
Insn == [dynID : Nat, uid : Nat, kind : STRING, prevBBTerminator : Int]
Package == [dynID : Nat, uid : Nat, kind : STRING, prevBBTerminator : Int,
            waitingForBrDecision : BOOLEAN]
Frame == [ops : Seq(StaticOp), prev : Block, prevBlock : Block, isInvoke : BOOLEAN]
Walk == [targetBB : Block, previousBB : Block, from : Block, prevBBTerminator : Int,
         returnStack : Seq(Frame), fetchForRet : BOOLEAN, abnormalExit : BOOLEAN,
         left : Int, globalDynID : Nat, first : Int]

TypeOK ==
  /\ walk \in Walk
  /\ processedOps \in Seq(Insn) /\ insnQueue \in Seq(Insn)
  /\ FTQ \in Seq(Package) /\ request \in Seq(Package) /\ responses \in Seq(Package)
  /\ occupied \in BOOLEAN
  /\ taken \in Nat
  /\ mispredicted \in SUBSET Nat

(* ops is what is left of block c from its instruction i on, where a run    *)
(* may begin: at the start, or behind a call.                              *)
IsRest(ops, c, i) ==
  /\ ops \in Seq(StaticOp) /\ Len(ops) = Len(Program[c]) - i + 1
  /\ \A k \in 1..Len(ops) : ops[k] = scheduleBB(c)[i + k - 1]
  /\ i = 1 \/ Program[c][i - 1].kind = "call"

BeginsRun(ops) == \E c \in DOMAIN Program : \E i \in DOMAIN Program[c] : IsRest(ops, c, i)

(* A return goes on in a block, and its phis are told where control was.   *)
StackAgrees(w) ==
  \A k \in DOMAIN w.returnStack :
    /\ BeginsRun(w.returnStack[k].ops)
    /\ w.returnStack[k].prev \in {w.returnStack[k].prevBlock, None}

WalkAgrees(w) ==
  /\ w.fetchForRet => w.targetBB = None
  /\ ~w.abnormalExit /\ w.targetBB # None => w.previousBB \in {w.from, None}

(* The number behind that of the last instruction walked is not that of    *)
(* the next one: a run ends at it.                                         *)
RunsApart ==
  processedOps # <<>> =>
    \E c \in DOMAIN Program : \E j \in DOMAIN Program[c] :
      /\ processedOps[Len(processedOps)].uid = UID(c, j)
      /\ walk.fetchForRet => Program[c][j].kind = "ret"

(* The dynID of what is at the front of processedOps.                      *)
front == taken + Len(insnQueue)

NumbersAgree ==
  /\ \A i \in DOMAIN insnQueue : insnQueue[i].dynID = taken + i - 1
  /\ \A i \in DOMAIN processedOps : processedOps[i].dynID = front + i - 1
  /\ walk.globalDynID = front + Len(processedOps)

(* There is one package at a time between the fetch unit and the cache.    *)
RequestsAgree == Len(request) + Len(responses) = IF occupied THEN 1 ELSE 0

pending == request \o responses \o FTQ

(* Package p stands for the instructions of ops from s to e - 1, and IF1    *)
(* will see that it ends there.                                            *)
CutsAt(p, ops, s, e) ==
  /\ s \in 1..Len(ops) /\ e \in (s + 1)..(Len(ops) + 1) /\ e - s <= PackageSize
  /\ \A i \in s..(e - 1) : ops[i].uid = p.uid + (i - s)
  /\ e - s = PackageSize \/ e = Len(ops) + 1 \/ ops[e].uid # p.uid + (e - s)

(* Where package k begins in ops, whose first dynID is base; where ops end  *)
(* for the k behind the last package.                                      *)
Start(packages, ops, base, k) ==
  IF k = Len(packages) + 1 THEN Len(ops) + 1 ELSE packages[k].dynID - base + 1

(* The packages cut ops into pieces, in order and without gaps.            *)
Cuts(packages, ops, base) ==
  /\ Start(packages, ops, base, 1) = 1
  /\ \A k \in 1..Len(packages) :
       CutsAt(packages[k], ops, Start(packages, ops, base, k), Start(packages, ops, base, k + 1))

(* The package of the last run waits for the branch before that run, which *)
(* is the last branch unless the run ends in one.                          *)
FollowsBranch ==
  \A k \in DOMAIN FTQ : FTQ[k].dynID = walk.first =>
    \/ walk.prevBBTerminator \in {NoBranch, FTQ[k].prevBBTerminator}
    \/ walk.prevBBTerminator >= walk.first /\ ~walk.fetchForRet

(* What is behind branch b is not walked yet, or waits for b.              *)
HeldAt(b, k) ==
  FTQ[k].dynID = b + 1 /\ FTQ[k].prevBBTerminator = b /\ FTQ[k].waitingForBrDecision
Held(b) ==
  \/ b + 1 = walk.globalDynID /\ walk.prevBBTerminator = b /\ ~walk.fetchForRet
  \/ \E k \in DOMAIN FTQ : HeldAt(b, k)
  \/ MayBeOverwritten(b)

BranchesHeld == \A b \in mispredicted \ finished : Held(b)

(* The queues run empty only behind the end of the program.                *)
EmptyAtEnd == processedOps = <<>> /\ walk.globalDynID > 0 => NextRun = <<>>

IInv ==
  /\ TypeOK
  /\ StackAgrees(walk) /\ WalkAgrees(walk)
  /\ RunsApart
  /\ NumbersAgree
  /\ RequestsAgree
  /\ Cuts(pending, processedOps, front)
  /\ FollowsBranch
  /\ BranchesHeld
  /\ EmptyAtEnd
  /\ PhisNotMisled

-----------------------------------------------------------------------------
(* Blocks and runs.                                                        *)

(* What the assumptions say of the sizes.                                  *)
LEMMA Constants ==
  /\ PackageSize \in Nat \ {0} /\ InsnQueueMaxSize \in Nat /\ PackageSize < InsnQueueMaxSize
  /\ FTQSize \in Nat /\ EntryBB \in DOMAIN Program /\ None \notin DOMAIN Program
  /\ TraceLength \in Nat
BY FetchAssumption, QueueAssumption

(* A block of the program, with an end and with the targets it needs.      *)
LEMMA BlockIs ==
  ASSUME NEW c \in DOMAIN Program
  PROVE  /\ Len(Program[c]) \in Nat \ {0} /\ DOMAIN Program[c] = 1..Len(Program[c])
         /\ Program[c][Len(Program[c])].kind \in {"br", "jmp", "switch", "invoke", "ret"}
         /\ \A i \in 1..Len(Program[c]) :
              /\ UID(c, i) = FirstUID[c] + i /\ UID(c, i) \in Nat
              /\ Program[c][i].kind \in STRING /\ Program[c][i].to \in Seq(Block)
              /\ Program[c][i].kind \in {"br", "jmp", "switch", "call"}
                   => None \notin ToSet(Program[c][i].to)
              /\ Program[c][i].kind = "invoke"
                   => Program[c][i].to[1] \in Block /\ Program[c][i].to[2] \in DOMAIN Program
<1>1. Program[c] \in Seq([kind : STRING, to : Seq(Block)]) /\ Program[c] # <<>>
  BY ProgramAssumption DEF Block
<1>2. Len(Program[c]) \in Nat \ {0} /\ DOMAIN Program[c] = 1..Len(Program[c])
  BY <1>1
<1>3. Program[c][Len(Program[c])].kind \in {"br", "jmp", "switch", "invoke", "ret"}
  BY ProgramAssumption DEF Last
<1>4. ASSUME NEW i \in 1..Len(Program[c])
      PROVE  /\ UID(c, i) = FirstUID[c] + i /\ UID(c, i) \in Nat
             /\ Program[c][i].kind \in STRING /\ Program[c][i].to \in Seq(Block)
             /\ Program[c][i].kind \in {"br", "jmp", "switch", "call"}
                  => None \notin ToSet(Program[c][i].to)
             /\ Program[c][i].kind = "invoke"
                  => Program[c][i].to[1] \in Block /\ Program[c][i].to[2] \in DOMAIN Program
  <2>1. UID(c, i) = FirstUID[c] + i /\ UID(c, i) \in Nat
    BY FetchAssumption DEF UID
  <2>2. Program[c][i] \in [kind : STRING, to : Seq(Block)]
    BY <1>1, <1>2, ElementOfSeq
  <2>3. i \in DOMAIN Program[c]
    BY <1>2
  <2>4. /\ Program[c][i].kind \in {"br", "jmp", "switch", "call"}
             => None \notin ToSet(Program[c][i].to)
        /\ Program[c][i].kind = "invoke"
             => Len(Program[c][i].to) = 2 /\ Program[c][i].to[2] # None
    BY <2>3, ProgramAssumption
  <2>5. ASSUME Len(Program[c][i].to) = 2
        PROVE  Program[c][i].to[1] \in Block /\ Program[c][i].to[2] \in Block
    BY <2>2, <2>5
  <2>6. QED
    BY <2>1, <2>2, <2>4, <2>5 DEF Block
<1>5. QED
  BY <1>2, <1>3, <1>4

(* No two instructions have a number, and no instruction that of a block.  *)
LEMMA NumbersApart ==
  ASSUME NEW b \in DOMAIN Program, NEW i \in 1..Len(Program[b]),
         NEW c \in DOMAIN Program
  PROVE  /\ UID(b, i) + 1 # UID(c, 1)
         /\ \A j \in 1..Len(Program[c]) : UID(b, i) = UID(c, j) => b = c /\ i = j
<1>1. i \in DOMAIN Program[b] /\ DOMAIN Program[c] = 1..Len(Program[c])
  BY BlockIs
<1>2. FirstUID[b] + i # FirstUID[c]
  BY <1>1, ProgramAssumption
<1>3. \A j \in 1..Len(Program[c]) : FirstUID[b] + i = FirstUID[c] + j => b = c /\ i = j
  BY <1>1, ProgramAssumption
<1>4. FirstUID[b] \in Nat /\ FirstUID[c] \in Nat
  BY FetchAssumption
<1>5. QED
  BY <1>2, <1>3, <1>4, SMTT(30) DEF UID

(* What scheduleBB makes of a block.                                       *)
LEMMA ScheduleIs ==
  ASSUME NEW c \in DOMAIN Program
  PROVE  /\ scheduleBB(c) \in Seq(StaticOp) /\ Len(scheduleBB(c)) = Len(Program[c])
         /\ \A i \in 1..Len(Program[c]) :
              scheduleBB(c)[i] = [block |-> c, uid |-> UID(c, i), kind |-> Program[c][i].kind,
                                  to |-> Program[c][i].to]
<1>1. DOMAIN Program[c] = 1..Len(Program[c]) /\ Len(Program[c]) \in Nat
  BY BlockIs
<1> DEFINE op(i) == [block |-> c, uid |-> UID(c, i), kind |-> Program[c][i].kind,
                     to |-> Program[c][i].to]
<1>2. scheduleBB(c) = [i \in 1..Len(Program[c]) |-> op(i)]
  BY <1>1 DEF scheduleBB
<1>3. \A i \in 1..Len(Program[c]) : op(i) \in StaticOp
  BY BlockIs DEF StaticOp
<1> HIDE DEF op
<1>4. QED
  <2>1. scheduleBB(c) \in Seq(StaticOp)
    BY <1>1, <1>2, <1>3, IsASeq
  <2>2. QED
    BY <2>1, <1>1, <1>2 DEF op

(* The rest of a block.                                                    *)
LEMMA RestIs ==
  ASSUME NEW ops, NEW c \in DOMAIN Program, NEW i \in DOMAIN Program[c], IsRest(ops, c, i)
  PROVE  /\ ops \in Seq(StaticOp) /\ Len(ops) = Len(Program[c]) - i + 1 /\ Len(ops) \in Nat \ {0}
         /\ ops # <<>> /\ DOMAIN ops = 1..Len(ops)
<1>1. Len(Program[c]) \in Nat \ {0} /\ i \in 1..Len(Program[c])
  BY BlockIs
<1>2. ops \in Seq(StaticOp) /\ Len(ops) = Len(Program[c]) - i + 1
  BY DEF IsRest
<1>3. Len(ops) \in Nat \ {0}
  BY <1>1, <1>2
<1>4. ops # <<>> /\ DOMAIN ops = 1..Len(ops)
  BY <1>2, <1>3, LenProperties, EmptySeq
<1>5. QED
  BY <1>2, <1>3, <1>4

(* The k-th instruction of the rest of a block.                            *)
LEMMA RestAt ==
  ASSUME NEW ops, NEW c \in DOMAIN Program, NEW i \in DOMAIN Program[c], IsRest(ops, c, i),
         NEW k \in 1..Len(ops)
  PROVE  /\ i + k - 1 \in 1..Len(Program[c])
         /\ ops[k] = [block |-> c, uid |-> UID(c, i + k - 1), kind |-> Program[c][i + k - 1].kind,
                      to |-> Program[c][i + k - 1].to]
         /\ ops[k].block = c
<1> DEFINE j == i + k - 1
<1>1. j \in 1..Len(Program[c])
  <2>1. Len(Program[c]) \in Nat /\ i \in 1..Len(Program[c]) /\ Len(ops) = Len(Program[c]) - i + 1
    BY RestIs, BlockIs
  <2>2. \A m \in Nat : \A p \in 1..m : \A q \in 1..(m - p + 1) : p + q - 1 \in 1..m
    OBVIOUS
  <2>3. QED
    BY <2>1, <2>2
<1>2. ops[k] = scheduleBB(c)[j]
  BY DEF IsRest
<1> HIDE DEF j
<1>3. scheduleBB(c)[j] = [block |-> c, uid |-> UID(c, j), kind |-> Program[c][j].kind,
                          to |-> Program[c][j].to]
  BY <1>1, ScheduleIs
<1>4. ops[k].block = c
  BY <1>2, <1>3
<1>5. QED
  BY <1>1, <1>2, <1>3, <1>4 DEF j

(* A rest is not empty and starts in its block.                            *)
LEMMA RestBlock ==
  ASSUME NEW ops, NEW c, c \in DOMAIN Program, NEW i, i \in DOMAIN Program[c], IsRest(ops, c, i)
  PROVE  Len(ops) \in Nat \ {0} /\ ops[1].block = c
<1>1. Len(ops) \in Nat \ {0}
  BY RestIs
<1>2. 1 \in 1..Len(ops)
  BY <1>1
<1>3. ops[1].block = c
  <2>1. IsRest(ops, c, i) /\ c \in DOMAIN Program /\ i \in DOMAIN Program[c] /\ 1 \in 1..Len(ops)
    BY <1>2
  <2>2. ops[1] = scheduleBB(c)[i + 1 - 1]
    BY <2>1 DEF IsRest
  <2>3. i + 1 - 1 = i /\ i \in 1..Len(Program[c])
    BY BlockIs
  <2>4. scheduleBB(c)[i] = [block |-> c, uid |-> UID(c, i), kind |-> Program[c][i].kind,
                            to |-> Program[c][i].to]
    BY <2>3, ScheduleIs
  <2>5. QED
    BY <2>2, <2>3, <2>4
<1>4. QED
  BY <1>1, <1>3

(* Every rest of a block holds the end of a run.                           *)
LEMMA RunLengthIs ==
  ASSUME NEW ops, BeginsRun(ops), NEW left
  PROVE  RunLength(ops, left) \in 1..Len(ops)
<1>0. PICK c \in DOMAIN Program : \E i \in DOMAIN Program[c] : IsRest(ops, c, i)
  BY DEF BeginsRun
<1>1. PICK i \in DOMAIN Program[c] : IsRest(ops, c, i)
  BY <1>0
<1>2. /\ ops \in Seq(StaticOp) /\ Len(ops) = Len(Program[c]) - i + 1 /\ Len(ops) \in Nat \ {0}
      /\ ops # <<>> /\ DOMAIN ops = 1..Len(ops)
  BY <1>1, RestIs
<1>3. Len(ops) \in 1..Len(ops) /\ EndsRun(ops[Len(ops)], left - Loads(ops, Len(ops) - 1))
  <2>1. Len(Program[c]) \in Nat /\ i \in 1..Len(Program[c])
    BY BlockIs
  <2>2. Len(ops) \in 1..Len(ops)
    BY <1>2
  <2>3. i + Len(ops) - 1 = Len(Program[c])
    <3>1. \A m, n, k \in Int : m = n - k + 1 => k + m - 1 = n
      OBVIOUS
    <3>2. i \in Int /\ Len(Program[c]) \in Int /\ Len(ops) \in Int
      BY <1>2, <2>1
    <3>3. Len(ops) = Len(Program[c]) - i + 1
      BY <1>2
    <3>4. QED
      BY <3>1, <3>2, <3>3
  <2>4. ops[Len(ops)].kind = Program[c][Len(Program[c])].kind
    <3>1. ops[Len(ops)] = [block |-> c, uid |-> UID(c, i + Len(ops) - 1),
              kind |-> Program[c][i + Len(ops) - 1].kind, to |-> Program[c][i + Len(ops) - 1].to]
      BY <1>1, <2>2, RestAt
    <3>2. QED
      BY <2>3, <3>1
  <2>5. ops[Len(ops)].kind \in {"br", "jmp", "switch", "invoke", "ret"}
    BY <2>4, BlockIs
  <2>6. QED
    BY <2>2, <2>5 DEF EndsRun
<1> DEFINE Ends == {k \in 1..Len(ops) : EndsRun(ops[k], left - Loads(ops, k - 1))}
<1>4. PICK n \in Ends : \A m \in Ends : n <= m
  <2>1. Len(ops) \in Nat
    BY <1>2
  <2>2. Ends \in SUBSET Nat /\ Ends # {}
    BY <1>3, <2>1
  <2> HIDE DEF Ends
  <2>3. QED
    BY <2>2, Smallest
<1>5. n \in DOMAIN ops /\ EndsRun(ops[n], left - Loads(ops, n - 1))
  BY <1>2, <1>4
<1>6. \A j \in 1..(n - 1) : ~EndsRun(ops[j], left - Loads(ops, j - 1))
  <2>1. \A j \in 1..(n - 1) : j \in 1..Len(ops) /\ ~(n <= j)
    BY <1>2, <1>4
  <2>2. QED
    BY <1>4, <2>1
<1>7. RunLength(ops, left) \in DOMAIN ops
  BY <1>5, <1>6 DEF RunLength
<1>8. QED
  BY <1>2, <1>7

(* A whole block is the rest from its first instruction on.                *)
LEMMA WholeIsRest ==
  ASSUME NEW c \in DOMAIN Program
  PROVE  IsRest(scheduleBB(c), c, 1) /\ 1 \in DOMAIN Program[c]
<1>1. Len(Program[c]) \in Nat \ {0} /\ DOMAIN Program[c] = 1..Len(Program[c])
  BY BlockIs
<1>2. scheduleBB(c) \in Seq(StaticOp) /\ Len(scheduleBB(c)) = Len(Program[c])
  BY ScheduleIs
<1>3. \A k \in 1..Len(Program[c]) : 1 + k - 1 = k
  BY <1>1
<1>4. QED
  BY <1>1, <1>2, <1>3 DEF IsRest

(* What the loop of preprocess starts from: a rest of a block, and what is  *)
(* told to its phis; or nothing, and the walk stands still.                *)
LEMMA BufferedIs ==
  ASSUME walk \in Walk, StackAgrees(walk), WalkAgrees(walk)
  PROVE  /\ Buffered(walk).w \in Walk /\ StackAgrees(Buffered(walk).w)
         /\ ~Buffered(walk).w.fetchForRet
         /\ Buffered(walk).w.abnormalExit = walk.abnormalExit
         /\ Buffered(walk).w.globalDynID = walk.globalDynID
         /\ Buffered(walk).w.first = walk.first
         /\ ~walk.fetchForRet =>
              /\ Buffered(walk).w.prevBBTerminator = walk.prevBBTerminator
              /\ Buffered(walk).w.targetBB = walk.targetBB
         /\ Buffered(walk).ops # <<>> =>
              /\ BeginsRun(Buffered(walk).ops)
              /\ ~walk.fetchForRet => \E c \in DOMAIN Program : IsRest(Buffered(walk).ops, c, 1)
              /\ ~walk.abnormalExit =>
                   Buffered(walk).w.previousBB \in {Buffered(walk).w.from, None}
              /\ \A k \in 1..Len(Buffered(walk).ops) :
                   Buffered(walk).w.targetBB \in {Buffered(walk).ops[k].block, None}
         /\ Buffered(walk).ops = <<>> =>
              /\ walk.fetchForRet \/ walk.targetBB = None
              /\ Buffered(walk).w.prevBBTerminator = walk.prevBBTerminator
<1> DEFINE now == [walk EXCEPT !.fetchForRet = FALSE]
<1> DEFINE top == walk.returnStack[Len(walk.returnStack)]
<1> DEFINE b == Buffered(walk)
<1>1. /\ now \in Walk /\ now.returnStack = walk.returnStack /\ now.targetBB = walk.targetBB
      /\ now.previousBB = walk.previousBB /\ now.from = walk.from /\ now.first = walk.first
      /\ now.prevBBTerminator = walk.prevBBTerminator /\ ~now.fetchForRet
      /\ now.abnormalExit = walk.abnormalExit /\ now.globalDynID = walk.globalDynID
      /\ now.left = walk.left
  BY DEF Walk
<1>2. StackAgrees(now)
  BY <1>1 DEF StackAgrees
<1> HIDE DEF now
<1>3. CASE walk.fetchForRet /\ walk.returnStack # <<>>
  <2> DEFINE v == [now EXCEPT !.returnStack = Front(walk.returnStack), !.previousBB = top.prev,
                     !.from = top.prevBlock, !.prevBBTerminator = NoBranch,
                     !.left = IF top.isInvoke /\ now.left > 0 THEN now.left - 1 ELSE now.left]
  <2>1. b.ops = top.ops /\ b.w = v
    BY <1>1, <1>3 DEF Buffered, Returned, now, Last
  <2>2. /\ walk.returnStack \in Seq(Frame) /\ Len(walk.returnStack) \in Nat \ {0}
        /\ DOMAIN walk.returnStack = 1..Len(walk.returnStack) /\ top \in Frame
    BY <1>3 DEF Walk
  <2>3. BeginsRun(top.ops) /\ top.prev \in {top.prevBlock, None}
    BY <2>2 DEF StackAgrees
  <2>4. /\ Front(walk.returnStack) \in Seq(Frame)
        /\ DOMAIN Front(walk.returnStack) = 1..(Len(walk.returnStack) - 1)
        /\ \A k \in 1..(Len(walk.returnStack) - 1) :
             Front(walk.returnStack)[k] = walk.returnStack[k]
    <3>1. \A k \in 1..(Len(walk.returnStack) - 1) : walk.returnStack[k] \in Frame
      BY <2>2
    <3> DEFINE s == SubSeq(walk.returnStack, 1, Len(walk.returnStack) - 1)
    <3>2. /\ s \in Seq(Frame) /\ Len(s) = Len(walk.returnStack) - 1
          /\ \A k \in 1..(Len(walk.returnStack) - 1) : s[k] = walk.returnStack[k]
      BY <2>2, <3>1, SubSeqProperties
    <3>3. QED
      BY <3>2, LenProperties DEF Front
  <2> HIDE DEF top, b
  <2>5. /\ v \in Walk /\ v.returnStack = Front(walk.returnStack) /\ v.previousBB = top.prev
        /\ v.from = top.prevBlock /\ v.first = walk.first /\ ~v.fetchForRet
        /\ v.abnormalExit = walk.abnormalExit /\ v.globalDynID = walk.globalDynID
        /\ v.targetBB = walk.targetBB
    <3>1. top.prev \in Block /\ top.prevBlock \in Block /\ NoBranch \in Int
      BY <2>2 DEF Frame, NoBranch
    <3>2. (IF top.isInvoke /\ now.left > 0 THEN now.left - 1 ELSE now.left) \in Int
      BY <1>1 DEF Walk
    <3>3. QED
      BY <1>1, <2>4, <3>1, <3>2 DEF Walk
  <2> HIDE DEF v
  <2>6. StackAgrees(v)
    BY <2>2, <2>4, <2>5 DEF StackAgrees
  <2>7. b.ops # <<>>
    BY <2>1, <2>3, RestIs DEF BeginsRun
  <2>8. walk.targetBB = None
    BY <1>3 DEF WalkAgrees
  <2>9. QED
    BY <1>3, <2>1, <2>3, <2>5, <2>6, <2>7, <2>8 DEF b
<1>4. CASE ~walk.fetchForRet /\ walk.targetBB # None
  <2>1. b.ops = scheduleBB(walk.targetBB) /\ b.w = now
    BY <1>1, <1>4 DEF Buffered, now
  <2>2. walk.targetBB \in DOMAIN Program
    BY <1>4 DEF Walk, Block
  <2>3. IsRest(b.ops, walk.targetBB, 1) /\ 1 \in DOMAIN Program[walk.targetBB]
    BY <2>1, <2>2, WholeIsRest
  <2>4. b.ops # <<>> /\ \A k \in 1..Len(b.ops) : b.ops[k].block = walk.targetBB
    <3> HIDE DEF b
    <3>1. b.ops # <<>>
      BY <2>2, <2>3, RestIs
    <3>2. ASSUME NEW k \in 1..Len(b.ops) PROVE b.ops[k].block = walk.targetBB
      BY <2>2, <2>3, RestAt, ZenonT(40)
    <3>3. QED
      BY <3>1, <3>2
  <2>5. ~walk.abnormalExit => walk.previousBB \in {walk.from, None}
    BY <1>4 DEF WalkAgrees
  <2>6. BeginsRun(b.ops)
    BY <2>2, <2>3 DEF BeginsRun
  <2> HIDE DEF b
  <2>7. QED
    BY <1>1, <1>2, <1>4, <2>1, <2>2, <2>3, <2>4, <2>5, <2>6 DEF b
<1>5. CASE ~(walk.fetchForRet /\ walk.returnStack # <<>>) /\ ~(~walk.fetchForRet /\ walk.targetBB # None)
  <2>1. b.ops = <<>> /\ b.w = now
    BY <1>1, <1>5 DEF Buffered, now
  <2>2. walk.fetchForRet \in BOOLEAN
    BY DEF Walk
  <2> HIDE DEF b
  <2>3. QED
    BY <1>1, <1>2, <1>5, <2>1, <2>2 DEF b
<1>6. QED
  BY <1>3, <1>4, <1>5

(* The run of the next call is a piece of one block, and there is none only *)
(* at the end.                                                             *)
LEMMA RunIs ==
  ASSUME walk \in Walk, StackAgrees(walk), WalkAgrees(walk)
  PROVE  /\ NextRun \in Seq(StaticOp)
         /\ NextRun = <<>> <=> walk.abnormalExit \/ Buffered(walk).ops = <<>>
         /\ NextRun # <<>> => \E c \in DOMAIN Program : \E i \in DOMAIN Program[c] :
              /\ IsRest(Buffered(walk).ops, c, i)
              /\ i = 1 \/ walk.fetchForRet
              /\ Len(NextRun) \in 1..Len(Buffered(walk).ops)
              /\ \A k \in 1..Len(NextRun) :
                   /\ i + k - 1 \in DOMAIN Program[c]
                   /\ NextRun[k] = [block |-> c, uid |-> UID(c, i + k - 1),
                        kind |-> Program[c][i + k - 1].kind, to |-> Program[c][i + k - 1].to]
<1> DEFINE ops == Buffered(walk).ops
<1> DEFINE n == RunLength(ops, Buffered(walk).w.left)
<1>1. CASE walk.abnormalExit \/ ops = <<>>
  <2>1. NextRun = <<>>
    BY <1>1 DEF NextRun
  <2>2. <<>> \in Seq(StaticOp)
    OBVIOUS
  <2>3. QED
    BY <1>1, <2>1, <2>2
<1>2. CASE ~walk.abnormalExit /\ ops # <<>>
  <2>1. NextRun = SubSeq(ops, 1, n)
    BY <1>2 DEF NextRun
  <2>2. \E c \in DOMAIN Program : \E i \in DOMAIN Program[c] :
          IsRest(ops, c, i) /\ (i = 1 \/ walk.fetchForRet)
    <3>1. walk.fetchForRet \in BOOLEAN
      BY DEF Walk
    <3>2. CASE walk.fetchForRet
      BY <1>2, <3>2, BufferedIs DEF BeginsRun
    <3>3. CASE ~walk.fetchForRet
      <4>1. PICK c \in DOMAIN Program : IsRest(ops, c, 1)
        BY <1>2, <3>3, BufferedIs
      <4>2. 1 \in DOMAIN Program[c]
        BY BlockIs
      <4>3. QED
        BY <4>1, <4>2
    <3>4. QED
      BY <3>1, <3>2, <3>3
  <2>3. PICK c \in DOMAIN Program : \E i \in DOMAIN Program[c] :
          IsRest(ops, c, i) /\ (i = 1 \/ walk.fetchForRet)
    BY <2>2
  <2>4. PICK i \in DOMAIN Program[c] : IsRest(ops, c, i) /\ (i = 1 \/ walk.fetchForRet)
    BY <2>3
  <2>5. n \in 1..Len(ops)
    <3>1. BeginsRun(ops)
      BY <2>4 DEF BeginsRun
    <3>2. QED
      BY <3>1, RunLengthIs
  <2> HIDE DEF n, ops
  <2>6. ops \in Seq(StaticOp) /\ Len(ops) = Len(Program[c]) - i + 1 /\ Len(ops) \in Nat \ {0}
    BY <2>4, RestIs
  <2>7. Len(Program[c]) \in Nat /\ i \in 1..Len(Program[c]) /\ DOMAIN Program[c] = 1..Len(Program[c])
    BY BlockIs
  <2>8. /\ NextRun \in Seq(StaticOp) /\ Len(NextRun) = n
        /\ \A k \in 1..n : NextRun[k] = ops[k]
    <3>1. \A k \in 1..n : ops[k] \in StaticOp
      BY <2>5, <2>6
    <3>2. 1 \in Int /\ n \in Int /\ 1 <= n
      BY <2>5
    <3>3. /\ SubSeq(ops, 1, n) \in Seq(StaticOp) /\ Len(SubSeq(ops, 1, n)) = n - 1 + 1
          /\ \A k \in 1 .. n - 1 + 1 : SubSeq(ops, 1, n)[k] = ops[1 + k - 1]
      BY <3>1, <3>2, SubSeqProperties
    <3>4. n - 1 + 1 = n /\ \A k \in 1..n : 1 + k - 1 = k
      BY <3>2
    <3>5. QED
      BY <2>1, <3>3, <3>4
  <2>9. NextRun # <<>>
    BY <2>5, <2>8
  <2>10. ASSUME NEW k \in 1..Len(NextRun)
         PROVE  /\ i + k - 1 \in DOMAIN Program[c]
                /\ NextRun[k] = [block |-> c, uid |-> UID(c, i + k - 1),
                     kind |-> Program[c][i + k - 1].kind, to |-> Program[c][i + k - 1].to]
    <3>1. k \in 1..Len(ops) /\ NextRun[k] = ops[k]
      BY <2>5, <2>6, <2>8
    <3>2. QED
      BY <2>4, <2>7, <3>1, RestAt
  <2>11. QED
    BY <1>2, <2>4, <2>5, <2>8, <2>9, <2>10 DEF ops
<1>3. QED
  BY <1>1, <1>2

(* The loads of a run are counted.                                         *)
LEMMA LoadsIs ==
  ASSUME NEW ops, NEW i \in Int
  PROVE  Loads(ops, i) \in Nat
<1>1. IsFiniteSet(1..i)
  BY FS_Interval
<1>2. IsFiniteSet({j \in 1..i : ops[j].kind = "load"})
  <2>1. {j \in 1..i : ops[j].kind = "load"} \subseteq 1..i
    OBVIOUS
  <2>2. QED
    BY <1>1, <2>1, FS_Subset
<1>3. QED
  BY <1>2, FS_CardinalityType DEF Loads

(* What a terminator op, number id, makes of the walk w.                   *)
Terminated(t, w, op, id) ==
  /\ t \in Walk /\ StackAgrees(t) /\ WalkAgrees(t)
  /\ t.globalDynID = w.globalDynID /\ t.first = w.first
  /\ t.fetchForRet => op.kind = "ret"
  /\ \/ t.prevBBTerminator \in {NoBranch, w.prevBBTerminator}
     \/ t.prevBBTerminator = id /\ op.kind = "br"
  /\ op.kind = "br" /\ ~t.abnormalExit => t.prevBBTerminator = id

LEMMA TerminateIs ==
  ASSUME NEW w, w \in Walk, StackAgrees(w), ~w.fetchForRet,
         NEW op, op \in StaticOp, w.targetBB \in {op.block, None},
         NEW id, id \in Int, NEW rest, rest \in Seq(StaticOp), NEW to, to \in Block,
         op.kind = "call" => BeginsRun(rest),
         op.kind \in {"br", "jmp", "switch", "call"} => to # None,
         op.kind = "invoke" => op.to[1] \in Block /\ op.to[2] \in DOMAIN Program
  PROVE  Terminated(Terminate(w, op, id, rest, to), w, op, id)
<1> DEFINE t == Terminate(w, op, id, rest, to)
<1> DEFINE jump == [w EXCEPT !.previousBB = w.targetBB, !.from = op.block,
                       !.prevBBTerminator = IF op.kind = "br" THEN id ELSE NoBranch]
<1> DEFINE target(n) == IF n = 0 THEN None ELSE to
<1> DEFINE frame(ops, isInvoke) ==
             [ops |-> ops, prev |-> w.targetBB, prevBlock |-> op.block, isInvoke |-> isInvoke]
<1> DEFINE ended == [w EXCEPT !.abnormalExit = TRUE, !.targetBB = None]
<1> DEFINE Good(s) == Terminated(s, w, op, id)
<1> USE DEF Terminated
<1>1. /\ jump \in Walk /\ jump.previousBB = w.targetBB /\ jump.from = op.block
      /\ jump.prevBBTerminator = (IF op.kind = "br" THEN id ELSE NoBranch)
      /\ jump.globalDynID = w.globalDynID /\ jump.first = w.first /\ ~jump.fetchForRet
      /\ jump.returnStack = w.returnStack /\ jump.left = w.left
  <2>1. op.block \in Block /\ NoBranch \in Int
    BY DEF StaticOp, Block, NoBranch
  <2>2. QED
    BY <2>1 DEF Walk
<1> HIDE DEF jump
<1>2. ASSUME NEW a, a \in Block PROVE Good([jump EXCEPT !.targetBB = a])
  <2>1. /\ [jump EXCEPT !.targetBB = a] \in Walk
        /\ [jump EXCEPT !.targetBB = a].returnStack = w.returnStack
        /\ [jump EXCEPT !.targetBB = a].previousBB = w.targetBB
        /\ [jump EXCEPT !.targetBB = a].from = op.block
        /\ [jump EXCEPT !.targetBB = a].prevBBTerminator = (IF op.kind = "br" THEN id ELSE NoBranch)
        /\ [jump EXCEPT !.targetBB = a].globalDynID = w.globalDynID
        /\ [jump EXCEPT !.targetBB = a].first = w.first
        /\ ~[jump EXCEPT !.targetBB = a].fetchForRet
    BY <1>1, <1>2 DEF Walk
  <2>2. QED
    BY <2>1 DEF StackAgrees, WalkAgrees
<1>3. ASSUME op.kind \in {"br", "switch"}
      PROVE  Good([jump EXCEPT !.left = @ - 1, !.targetBB = target(w.left - 1)])
  <2>1. target(w.left - 1) \in Block
    BY DEF Block
  <2> DEFINE s == [jump EXCEPT !.left = @ - 1, !.targetBB = target(w.left - 1)]
  <2>a. w.left - 1 \in Int
    BY DEF Walk
  <2> DEFINE s1 == [jump EXCEPT !.left = w.left - 1]
  <2>b. /\ s1 \in Walk /\ s1.returnStack = w.returnStack
        /\ s1.previousBB = w.targetBB /\ s1.from = op.block
        /\ s1.prevBBTerminator = (IF op.kind = "br" THEN id ELSE NoBranch)
        /\ s1.globalDynID = w.globalDynID /\ s1.first = w.first /\ ~s1.fetchForRet
    BY <1>1, <2>a DEF Walk
  <2>c. s = [s1 EXCEPT !.targetBB = target(w.left - 1)]
    BY <1>1 DEF Walk
  <2> HIDE DEF target, s1
  <2>2. /\ s \in Walk /\ s.returnStack = w.returnStack
        /\ s.previousBB = w.targetBB /\ s.from = op.block
        /\ s.prevBBTerminator = (IF op.kind = "br" THEN id ELSE NoBranch)
        /\ s.globalDynID = w.globalDynID /\ s.first = w.first /\ ~s.fetchForRet
    BY <2>b, <2>c, <2>1 DEF Walk
  <2> HIDE DEF s
  <2>3. Good(s)
    BY <2>2 DEF StackAgrees, WalkAgrees
  <2>4. QED
    BY <2>3 DEF s
<1>4. ASSUME NEW ops \in Seq(StaticOp), BeginsRun(ops), NEW isInvoke \in BOOLEAN, NEW a \in Block
      PROVE  Good([jump EXCEPT !.targetBB = a,
                               !.returnStack = Append(w.returnStack, frame(ops, isInvoke))])
  <2> DEFINE stack == Append(w.returnStack, frame(ops, isInvoke))
  <2>1. frame(ops, isInvoke) \in Frame
    BY DEF Frame, Walk, StaticOp, Block
  <2>2. w.returnStack \in Seq(Frame)
    BY DEF Walk
  <2>3. /\ frame(ops, isInvoke).ops = ops /\ frame(ops, isInvoke).prev = w.targetBB
        /\ frame(ops, isInvoke).prevBlock = op.block
    OBVIOUS
  <2> HIDE DEF frame
  <2>4. /\ stack \in Seq(Frame) /\ Len(w.returnStack) \in Nat
        /\ DOMAIN stack = 1..(Len(w.returnStack) + 1)
        /\ DOMAIN w.returnStack = 1..Len(w.returnStack)
        /\ \A k \in 1..Len(w.returnStack) : stack[k] = w.returnStack[k]
        /\ stack[Len(w.returnStack) + 1] = frame(ops, isInvoke)
    BY <2>1, <2>2, AppendProperties, LenProperties
  <2> DEFINE s == [jump EXCEPT !.targetBB = a, !.returnStack = stack]
  <2> HIDE DEF stack
  <2>5. /\ s \in Walk /\ s.returnStack = stack
        /\ s.previousBB = w.targetBB /\ s.from = op.block
        /\ s.prevBBTerminator = (IF op.kind = "br" THEN id ELSE NoBranch)
        /\ s.globalDynID = w.globalDynID /\ s.first = w.first /\ ~s.fetchForRet
    BY <1>1, <2>4 DEF Walk
  <2> HIDE DEF s
  <2>6. StackAgrees(s)
    <3>1. \A k \in DOMAIN stack : k \in DOMAIN w.returnStack \/ k = Len(w.returnStack) + 1
      BY <2>4
    <3>2. QED
      BY <1>4, <2>3, <2>4, <2>5, <3>1 DEF StackAgrees
  <2>7. WalkAgrees(s)
    BY <2>5 DEF WalkAgrees
  <2>8. Good(s)
    BY <2>5, <2>6, <2>7
  <2>9. QED
    BY <2>8 DEF s, stack
<1>5. Good(ended)
  <2>1. /\ ended \in Walk /\ ended.returnStack = w.returnStack /\ ended.targetBB = None
        /\ ended.prevBBTerminator = w.prevBBTerminator /\ ended.abnormalExit
        /\ ended.globalDynID = w.globalDynID /\ ended.first = w.first /\ ~ended.fetchForRet
    BY DEF Walk, Block
  <2> HIDE DEF ended
  <2>2. QED
    BY <2>1 DEF StackAgrees, WalkAgrees
<1>6. ASSUME op.kind = "ret" PROVE Good([w EXCEPT !.fetchForRet = TRUE, !.targetBB = None])
  <2> DEFINE s == [w EXCEPT !.fetchForRet = TRUE, !.targetBB = None]
  <2>1. /\ s \in Walk /\ s.returnStack = w.returnStack /\ s.targetBB = None
        /\ s.prevBBTerminator = w.prevBBTerminator
        /\ s.globalDynID = w.globalDynID /\ s.first = w.first
    BY DEF Walk, Block
  <2> HIDE DEF s
  <2>2. Good(s)
    BY <1>6, <2>1 DEF StackAgrees, WalkAgrees
  <2>3. QED
    BY <2>2 DEF s
<1> HIDE DEF frame, target, ended, Good, Terminated
<1>7. CASE op.kind \in {"br", "switch"} /\ w.left > 0
  <2>1. t = [jump EXCEPT !.left = @ - 1, !.targetBB = target(w.left - 1)]
    BY <1>7 DEF Terminate, jump, target
  <2>2. QED
    BY <1>3, <1>7, <2>1 DEF Good
<1>8. CASE op.kind = "jmp"
  <2>1. t = [jump EXCEPT !.targetBB = target(w.left)]
    BY <1>8 DEF Terminate, jump, target
  <2>2. target(w.left) \in Block
    BY DEF target, Block
  <2>3. QED
    BY <1>2, <2>1, <2>2 DEF Good
<1>9. CASE op.kind = "call"
  <2>1. t = [jump EXCEPT !.targetBB = to, !.returnStack = Append(w.returnStack, frame(rest, FALSE))]
    BY <1>9 DEF Terminate, jump, frame
  <2>2. QED
    BY <1>4, <1>9, <2>1 DEF Good
<1>10. CASE op.kind = "invoke" /\ w.left > 0 /\ op.to[1] # None
  <2>1. t = [jump EXCEPT !.targetBB = op.to[1],
               !.returnStack = Append(w.returnStack, frame(scheduleBB(op.to[2]), TRUE))]
    BY <1>10 DEF Terminate, jump, frame
  <2>2. op.to[1] \in Block /\ op.to[2] \in DOMAIN Program
    BY <1>10
  <2>3. scheduleBB(op.to[2]) \in Seq(StaticOp) /\ BeginsRun(scheduleBB(op.to[2]))
    BY <2>2, ScheduleIs, WholeIsRest DEF BeginsRun
  <2>4. Good([jump EXCEPT !.targetBB = op.to[1],
               !.returnStack = Append(w.returnStack, frame(scheduleBB(op.to[2]), TRUE))])
    BY <1>4, <2>2, <2>3
  <2>5. QED
    BY <2>1, <2>4 DEF Good
<1>11. CASE op.kind = "invoke" /\ ~(w.left > 0 /\ op.to[1] # None)
  <2>1. t = [jump EXCEPT !.targetBB = op.to[2]]
    BY <1>11 DEF Terminate, jump
  <2>2. op.to[2] \in Block
    BY <1>11 DEF Block
  <2>3. QED
    BY <1>2, <2>1, <2>2 DEF Good
<1>12. CASE op.kind = "ret"
  <2>1. t = [w EXCEPT !.fetchForRet = TRUE, !.targetBB = None]
    BY <1>12 DEF Terminate
  <2>2. QED
    BY <1>6, <1>12, <2>1 DEF Good
<1>13. CASE /\ ~(op.kind \in {"br", "switch"} /\ w.left > 0)
            /\ op.kind \notin {"jmp", "call", "invoke", "ret"}
  <2>1. t = ended
    BY <1>13 DEF Terminate, ended
  <2>2. QED
    BY <1>5, <2>1 DEF Good
<1>14. QED
  BY <1>7, <1>8, <1>9, <1>10, <1>11, <1>12, <1>13

(* The walk behind a call of preprocess.                                   *)
LEMMA AfterRunIs ==
  ASSUME walk \in Walk, StackAgrees(walk), WalkAgrees(walk), NEW to \in Targets(NextRun)
  PROVE  /\ AfterRun(NextRun, to) \in Walk
         /\ StackAgrees(AfterRun(NextRun, to)) /\ WalkAgrees(AfterRun(NextRun, to))
         /\ AfterRun(NextRun, to).globalDynID = walk.globalDynID + Len(NextRun)
         /\ NextRun = <<>> =>
              /\ AfterRun(NextRun, to).first = walk.first
              /\ AfterRun(NextRun, to).prevBBTerminator = Buffered(walk).w.prevBBTerminator
              /\ AfterRun(NextRun, to).abnormalExit = walk.abnormalExit
              /\ ~AfterRun(NextRun, to).fetchForRet
              /\ AfterRun(NextRun, to).targetBB = None
         /\ NextRun # <<>> =>
              /\ AfterRun(NextRun, to).first = walk.globalDynID
              /\ AfterRun(NextRun, to).fetchForRet => Last(NextRun).kind = "ret"
              /\ \/ AfterRun(NextRun, to).prevBBTerminator
                       \in {NoBranch, Buffered(walk).w.prevBBTerminator}
                 \/ /\ AfterRun(NextRun, to).prevBBTerminator = AfterRun(NextRun, to).globalDynID - 1
                    /\ ~AfterRun(NextRun, to).fetchForRet
              /\ Last(NextRun).kind = "br" /\ ~AfterRun(NextRun, to).abnormalExit =>
                   /\ AfterRun(NextRun, to).prevBBTerminator = AfterRun(NextRun, to).globalDynID - 1
                   /\ ~AfterRun(NextRun, to).fetchForRet
<1> DEFINE b == Buffered(walk)
<1> DEFINE a == AfterRun(NextRun, to)
<1>1. /\ b.w \in Walk /\ StackAgrees(b.w) /\ ~b.w.fetchForRet
      /\ b.w.abnormalExit = walk.abnormalExit /\ b.w.globalDynID = walk.globalDynID
      /\ b.w.first = walk.first
  BY BufferedIs
<1>2. CASE NextRun = <<>>
  <2>1. a = [b.w EXCEPT !.targetBB = None] /\ Len(NextRun) = 0
    BY <1>2 DEF AfterRun
  <2> HIDE DEF b, a
  <2>2. /\ a \in Walk /\ a.returnStack = b.w.returnStack /\ a.globalDynID = b.w.globalDynID
        /\ a.first = b.w.first /\ a.prevBBTerminator = b.w.prevBBTerminator
        /\ a.abnormalExit = b.w.abnormalExit /\ ~a.fetchForRet /\ a.targetBB = None
    BY <1>1, <2>1 DEF Walk, Block
  <2>3. StackAgrees(a) /\ WalkAgrees(a)
    BY <1>1, <2>2 DEF StackAgrees, WalkAgrees
  <2>4. walk.globalDynID + Len(NextRun) = walk.globalDynID
    BY <2>1 DEF Walk
  <2>5. QED
    BY <1>1, <1>2, <2>1, <2>2, <2>3, <2>4 DEF a, b
<1>3. CASE NextRun # <<>>
  <2> DEFINE n == Len(NextRun)
  <2> DEFINE op == NextRun[n]
  <2> DEFINE rest == SubSeq(b.ops, n + 1, Len(b.ops))
  <2>1. PICK c \in DOMAIN Program : \E i \in DOMAIN Program[c] :
              /\ IsRest(b.ops, c, i)
              /\ n \in 1..Len(b.ops)
              /\ \A k \in 1..n :
                   /\ i + k - 1 \in DOMAIN Program[c]
                   /\ NextRun[k] = [block |-> c, uid |-> UID(c, i + k - 1),
                        kind |-> Program[c][i + k - 1].kind, to |-> Program[c][i + k - 1].to]
    BY <1>3, RunIs
  <2>2. PICK i \in DOMAIN Program[c] :
              /\ IsRest(b.ops, c, i)
              /\ n \in 1..Len(b.ops)
              /\ \A k \in 1..n :
                   /\ i + k - 1 \in DOMAIN Program[c]
                   /\ NextRun[k] = [block |-> c, uid |-> UID(c, i + k - 1),
                        kind |-> Program[c][i + k - 1].kind, to |-> Program[c][i + k - 1].to]
    BY <2>1
  <2> DEFINE j == i + n - 1
  <2>3. /\ b.ops \in Seq(StaticOp) /\ Len(b.ops) = Len(Program[c]) - i + 1 /\ Len(b.ops) \in Nat \ {0}
        /\ b.ops # <<>>
    BY <2>2, RestIs
  <2>4. /\ Len(Program[c]) \in Nat /\ DOMAIN Program[c] = 1..Len(Program[c])
        /\ Program[c][Len(Program[c])].kind \in {"br", "jmp", "switch", "invoke", "ret"}
    BY BlockIs
  <2>5. n \in Nat \ {0} /\ NextRun \in Seq(StaticOp)
    BY <2>2, <2>3, RunIs
  <2>6. /\ op \in StaticOp /\ op.block = c /\ op.kind = Program[c][j].kind /\ op.to = Program[c][j].to
        /\ j \in 1..Len(Program[c])
    <3>1. n \in 1..n
      BY <2>5
    <3>2. op = [block |-> c, uid |-> UID(c, j), kind |-> Program[c][j].kind, to |-> Program[c][j].to]
      BY <2>2, <3>1
    <3>3. op \in StaticOp
      BY <2>5, <3>1, ElementOfSeq
    <3>4. j \in 1..Len(Program[c])
      BY <2>2, <2>4, <3>1
    <3> HIDE DEF op, j
    <3>5. QED
      BY <3>2, <3>3, <3>4
  <2>7. Last(NextRun) = op
    BY DEF Last
  <2>8. /\ op.kind \in {"br", "jmp", "switch", "call"} => None \notin ToSet(op.to)
        /\ op.kind = "invoke" => op.to[1] \in Block /\ op.to[2] \in DOMAIN Program
    <3> HIDE DEF op, j
    <3>1. QED
      BY <2>6, BlockIs
  <2>9. to \in Block /\ (op.kind \in {"br", "jmp", "switch", "call"} => to # None)
    <3> HIDE DEF op
    <3>1. ASSUME op.kind \in {"br", "jmp", "switch", "call"}
          PROVE  to \in ToSet(op.to)
      BY <1>3, <2>7, <3>1 DEF Targets
    <3>2. ASSUME op.kind \notin {"br", "jmp", "switch", "call"}
          PROVE  to = None
      BY <1>3, <2>7, <3>2 DEF Targets
    <3>3. ToSet(op.to) \subseteq Block
      <4>1. op.to \in Seq(Block)
        BY <2>6 DEF StaticOp
      <4>2. QED
        BY <4>1 DEF ToSet
    <3>4. QED
      BY <2>8, <3>1, <3>2, <3>3 DEF Block
  <2>10. rest \in Seq(StaticOp)
    <3> HIDE DEF b, n
    <3>1. \A k \in (n + 1)..Len(b.ops) : b.ops[k] \in StaticOp
      <4>1. \A k \in (n + 1)..Len(b.ops) : k \in 1..Len(b.ops)
        BY <2>3, <2>5
      <4>2. QED
        BY <2>3, <4>1, ElementOfSeq
    <3>2. QED
      BY <2>3, <2>5, <3>1, SubSeqProperties
  <2>11. op.kind = "call" => BeginsRun(rest)
    <3> HIDE DEF op, b, n
    <3>1. SUFFICES ASSUME op.kind = "call" PROVE BeginsRun(rest)
      OBVIOUS
    <3>2. j # Len(Program[c])
      BY <2>4, <2>6, <3>1
    <3>3. j + 1 \in DOMAIN Program[c] /\ (j + 1) - 1 = j
      <4> DEFINE N == Len(Program[c])
      <4>1. N \in Nat /\ DOMAIN Program[c] = 1..N /\ j \in 1..N /\ j # N
        BY <2>4, <2>6, <3>2
      <4> HIDE DEF j, N
      <4>2. QED
        BY <4>1
    <3>4. /\ Len(rest) = Len(Program[c]) - (j + 1) + 1
          /\ \A k \in 1..Len(rest) : rest[k] = scheduleBB(c)[(j + 1) + k - 1]
      <4> DEFINE N == Len(Program[c])
      <4>1. N \in Nat /\ i \in 1..N /\ n \in Nat /\ j + 1 \in 1..N /\ Len(b.ops) = N - i + 1
        BY <2>3, <2>4, <2>5, <3>3
      <4>2. \A k \in (n + 1)..Len(b.ops) : b.ops[k] \in StaticOp
        <5>1. \A k \in (n + 1)..Len(b.ops) : k \in 1..Len(b.ops)
          BY <2>3, <2>5
        <5>2. QED
          BY <2>3, <5>1, ElementOfSeq
      <4>3. /\ Len(rest) = IF n + 1 <= Len(b.ops) THEN Len(b.ops) - (n + 1) + 1 ELSE 0
            /\ \A k \in 1..(Len(b.ops) - (n + 1) + 1) : rest[k] = b.ops[n + 1 + k - 1]
        <5>1. Len(b.ops) \in Int /\ n + 1 \in Int
          BY <2>3, <2>5
        <5>2. QED
          BY <5>1, <4>2, SubSeqProperties
      <4>4. \A k \in 1..Len(b.ops) : b.ops[k] = scheduleBB(c)[i + k - 1]
        BY <2>2 DEF IsRest
      <4> HIDE DEF N, rest
      <4>5. n + 1 <= Len(b.ops) /\ Len(b.ops) - (n + 1) + 1 = N - (j + 1) + 1
        BY <4>1
      <4>6. ASSUME NEW k \in 1..Len(rest) PROVE rest[k] = scheduleBB(c)[(j + 1) + k - 1]
        <5>1. /\ k \in 1..(Len(b.ops) - (n + 1) + 1) /\ n + 1 + k - 1 \in 1..Len(b.ops)
              /\ i + (n + 1 + k - 1) - 1 = (j + 1) + k - 1
          BY <4>1, <4>3, <4>5
        <5>2. rest[k] = b.ops[n + 1 + k - 1]
          BY <4>3, <5>1
        <5>3. b.ops[n + 1 + k - 1] = scheduleBB(c)[i + (n + 1 + k - 1) - 1]
          BY <4>4, <5>1
        <5> HIDE DEF j
        <5>4. QED
          BY <5>1, <5>2, <5>3
      <4>7. QED
        BY <4>3, <4>5, <4>6 DEF N
    <3>5. IsRest(rest, c, j + 1)
      BY <2>6, <2>10, <3>1, <3>3, <3>4 DEF IsRest
    <3>6. QED
      BY <3>3, <3>5 DEF BeginsRun
  <2> DEFINE w1 == AfterCalls(b.w, Calls(NextRun, n - 1))
  <2> DEFINE w2 == [w1 EXCEPT !.left = @ - Loads(NextRun, n - 1), !.globalDynID = @ + n,
                              !.first = walk.globalDynID]
  <2>12. /\ w1 \in Walk /\ w1.returnStack = b.w.returnStack /\ ~w1.fetchForRet
         /\ w1.targetBB \in {b.w.targetBB, None} /\ w1.globalDynID = walk.globalDynID
         /\ w1.prevBBTerminator \in {NoBranch, b.w.prevBBTerminator}
    <3> HIDE DEF b
    <3>1. NoBranch \in Int /\ None \in Block
      BY DEF NoBranch, Block
    <3>2. QED
      BY <1>1, <3>1 DEF AfterCalls, Walk
  <2>13. /\ w2 \in Walk /\ w2.returnStack = b.w.returnStack /\ ~w2.fetchForRet
         /\ w2.targetBB \in {b.w.targetBB, None} /\ w2.globalDynID = walk.globalDynID + n
         /\ w2.prevBBTerminator \in {NoBranch, b.w.prevBBTerminator} /\ w2.first = walk.globalDynID
    <3>1. Loads(NextRun, n - 1) \in Int
      BY <2>5, LoadsIs
    <3>2. walk.globalDynID \in Nat
      BY DEF Walk
    <3>3. w1.left - Loads(NextRun, n - 1) \in Int /\ w1.globalDynID + n \in Nat
      <4> HIDE DEF w1, n
      <4>1. QED
        BY <2>12, <2>5, <3>1, <3>2, SMTT(30) DEF Walk
    <3> DEFINE v1 == [w1 EXCEPT !.left = w1.left - Loads(NextRun, n - 1)]
    <3> DEFINE v2 == [v1 EXCEPT !.globalDynID = w1.globalDynID + n]
    <3>4. w2 = [v2 EXCEPT !.first = walk.globalDynID]
      <4> HIDE DEF w1, n
      <4>1. QED
        BY <2>12 DEF Walk
    <3> HIDE DEF w1, w2, n, b
    <3>5. /\ v1 \in Walk /\ v1.returnStack = w1.returnStack /\ ~v1.fetchForRet
          /\ v1.targetBB = w1.targetBB /\ v1.prevBBTerminator = w1.prevBBTerminator
      BY <2>12, <3>3 DEF Walk
    <3> HIDE DEF v1
    <3>6. /\ v2 \in Walk /\ v2.returnStack = w1.returnStack /\ ~v2.fetchForRet
          /\ v2.targetBB = w1.targetBB /\ v2.globalDynID = walk.globalDynID + n
          /\ v2.prevBBTerminator = w1.prevBBTerminator
      BY <2>12, <3>3, <3>5 DEF Walk
    <3> HIDE DEF v2
    <3>7. w2 \in Walk
      BY <3>2, <3>4, <3>6, SMTT(30) DEF Walk
    <3>8. /\ w2.returnStack = v2.returnStack /\ w2.fetchForRet = v2.fetchForRet
          /\ w2.targetBB = v2.targetBB /\ w2.globalDynID = v2.globalDynID
          /\ w2.prevBBTerminator = v2.prevBBTerminator /\ w2.first = walk.globalDynID
      BY <3>4, <3>6 DEF Walk
    <3>9. QED
      BY <2>12, <3>6, <3>7, <3>8
  <2>14. a = Terminate(w2, op, walk.globalDynID + n - 1, rest, to)
    BY <1>3, <2>7 DEF AfterRun
  <2>15. StackAgrees(w2) /\ w2.targetBB \in {op.block, None} /\ walk.globalDynID + n - 1 \in Int
    <3>1. b.w.targetBB \in {c, None}
      <4>1. 1 \in 1..Len(b.ops) /\ b.ops[1].block = c
        <5>1. 1 \in 1..Len(b.ops)
          BY <2>3
        <5>a. IsRest(b.ops, c, i) /\ c \in DOMAIN Program /\ i \in DOMAIN Program[c]
          BY <2>2
        <5> HIDE DEF b, n
        <5>2. b.ops[1].block = c
          BY <5>a, RestBlock
        <5>3. QED
          BY <5>1, <5>2
      <4>2. b.w.targetBB \in {b.ops[1].block, None}
        BY <2>3, <4>1, BufferedIs
      <4> HIDE DEF b
      <4>3. QED
        BY <4>1, <4>2
    <3>2. walk.globalDynID \in Nat
      BY DEF Walk
    <3> HIDE DEF w2, b, n, op
    <3>3. QED
      BY <1>1, <2>5, <2>6, <2>13, <3>1, <3>2 DEF StackAgrees
  <2> HIDE DEF w2, w1, op, rest, a, b, n
  <2> DEFINE id == walk.globalDynID + n - 1
  <2>16. /\ a \in Walk /\ StackAgrees(a) /\ WalkAgrees(a)
         /\ a.globalDynID = w2.globalDynID /\ a.first = w2.first
         /\ a.fetchForRet => op.kind = "ret"
         /\ \/ a.prevBBTerminator \in {NoBranch, w2.prevBBTerminator}
            \/ a.prevBBTerminator = id /\ op.kind = "br"
         /\ op.kind = "br" /\ ~a.abnormalExit => a.prevBBTerminator = id
    <3>1. id \in Int
      BY <2>15
    <3> HIDE DEF id
    <3>2. a = Terminate(w2, op, id, rest, to)
      BY <2>14 DEF id
    <3>3. /\ w2 \in Walk /\ StackAgrees(w2) /\ ~w2.fetchForRet
          /\ op \in StaticOp /\ w2.targetBB \in {op.block, None}
          /\ id \in Int /\ rest \in Seq(StaticOp) /\ to \in Block
          /\ op.kind = "call" => BeginsRun(rest)
          /\ op.kind \in {"br", "jmp", "switch", "call"} => to # None
          /\ op.kind = "invoke" => op.to[1] \in Block /\ op.to[2] \in DOMAIN Program
      BY <2>6, <2>8, <2>9, <2>10, <2>11, <2>13, <2>15, <3>1
    <3>4. Terminated(Terminate(w2, op, id, rest, to), w2, op, id)
      BY <3>3, TerminateIs
    <3>5. QED
      BY <3>2, <3>4 DEF Terminated
  <2>17. id = a.globalDynID - 1 /\ a.globalDynID = walk.globalDynID + n
    <3>1. walk.globalDynID \in Nat /\ n \in Nat /\ a.globalDynID = walk.globalDynID + n
      BY <2>5, <2>13, <2>16 DEF Walk
    <3>2. QED
      BY <3>1
  <2>18. a.fetchForRet \in BOOLEAN
    BY <2>16 DEF Walk
  <2> HIDE DEF id
  <2>19. QED
    BY <1>3, <2>7, <2>13, <2>16, <2>17, <2>18 DEF a, b, n
<1>4. QED
  BY <1>2, <1>3

-----------------------------------------------------------------------------
(* Packages.                                                               *)

(* The package that IF1 takes is the one that fits.                        *)
LEMMA PackageLengthIs ==
  ASSUME NEW ops \in Seq(Insn), NEW uid \in Nat, NEW n \in 0..PackageSize, n <= Len(ops),
         \A i \in 1..n : ops[i].uid = uid + i - 1,
         n = PackageSize \/ n = Len(ops) \/ ops[n + 1].uid # uid + n
  PROVE  PackageLength(ops, uid) = n
<1> DEFINE Fits(m) == /\ m <= Len(ops) /\ \A i \in 1..m : ops[i].uid = uid + i - 1
                      /\ m = PackageSize \/ m = Len(ops) \/ ops[m + 1].uid # uid + m
<1>1. PackageSize \in Nat /\ Len(ops) \in Nat
  BY Constants
<1>2. Fits(n)
  OBVIOUS
<1>3. ASSUME NEW m \in 0..PackageSize, NEW q \in 0..PackageSize, Fits(m), Fits(q), m < q
      PROVE  FALSE
  <2>1. m + 1 \in 1..q /\ m # PackageSize /\ m # Len(ops) /\ m + 1 - 1 = m /\ uid + (m + 1) - 1 = uid + m
    BY <1>1, <1>3
  <2>2. ops[m + 1].uid = uid + (m + 1) - 1
    BY <1>3, <2>1
  <2>3. QED
    BY <1>3, <2>1, <2>2
<1>4. \A m \in 0..PackageSize : Fits(m) => m = n
  <2>1. \A m \in 0..PackageSize : m < n \/ n < m \/ m = n
    BY <1>1
  <2> HIDE DEF Fits
  <2>2. QED
    BY <1>2, <1>3, <2>1
<1>5. PackageLength(ops, uid) = CHOOSE m \in 0..PackageSize : Fits(m)
  BY DEF PackageLength
<1> HIDE DEF Fits
<1>6. QED
  BY <1>2, <1>4, <1>5

(* A piece of ops is what IF1 takes when the piece is in front.            *)
LEMMA CutsLength ==
  ASSUME NEW ops \in Seq(Insn), NEW p \in Package, NEW s, NEW e, CutsAt(p, ops, s, e)
  PROVE  PackageLength(SubSeq(ops, s, Len(ops)), p.uid) = e - s
<1> DEFINE rest == SubSeq(ops, s, Len(ops))
<1>1. /\ PackageSize \in Nat /\ Len(ops) \in Nat /\ s \in 1..Len(ops) /\ e \in (s + 1)..(Len(ops) + 1)
      /\ e - s <= PackageSize /\ p.uid \in Nat
      /\ \A i \in s..(e - 1) : ops[i].uid = p.uid + (i - s)
      /\ e - s = PackageSize \/ e = Len(ops) + 1 \/ ops[e].uid # p.uid + (e - s)
  BY Constants DEF CutsAt, Package
<1>2. /\ rest \in Seq(Insn) /\ Len(rest) = Len(ops) - s + 1
      /\ \A i \in 1..(Len(ops) - s + 1) : rest[i] = ops[s + i - 1]
  <2>1. \A i \in s..Len(ops) : ops[i] \in Insn
    <3>1. \A i \in s..Len(ops) : i \in 1..Len(ops)
      BY <1>1
    <3>2. QED
      BY <3>1, ElementOfSeq
  <2>2. s \in Int /\ Len(ops) \in Int /\ s <= Len(ops)
    BY <1>1
  <2>3. QED
    BY <2>1, <2>2, SubSeqProperties
<1>3. e - s \in 0..PackageSize /\ e - s <= Len(rest)
  BY <1>1, <1>2
<1>4. \A i \in 1..(e - s) : rest[i].uid = p.uid + i - 1
  <2>1. \A i \in 1..(e - s) : s + i - 1 \in s..(e - 1) /\ i \in 1..(Len(ops) - s + 1)
                              /\ p.uid + (s + i - 1 - s) = p.uid + i - 1
    BY <1>1
  <2>2. QED
    BY <1>1, <1>2, <2>1
<1>5. e - s = PackageSize \/ e - s = Len(rest) \/ rest[e - s + 1].uid # p.uid + (e - s)
  <2>1. CASE e = Len(ops) + 1
    BY <1>1, <1>2, <2>1
  <2>2. CASE e # Len(ops) + 1
    <3>1. e - s + 1 \in 1..(Len(ops) - s + 1) /\ s + (e - s + 1) - 1 = e
      <4>1. Len(ops) \in Nat /\ s \in 1..Len(ops) /\ e \in (s + 1)..(Len(ops) + 1)
        BY <1>1
      <4>2. QED
        BY <2>2, <4>1
    <3>2. rest[e - s + 1] = ops[e]
      BY <1>2, <3>1
    <3>3. QED
      BY <1>1, <2>2, <3>2
  <2>3. QED
    BY <2>1, <2>2
<1> HIDE DEF rest
<1> DEFINE n == e - s
<1>6. n \in 0..PackageSize /\ n <= Len(rest)
  BY <1>3
<1>7. \A i \in 1..n : rest[i].uid = p.uid + i - 1
  BY <1>4
<1>8. n = PackageSize \/ n = Len(rest) \/ rest[n + 1].uid # p.uid + n
  BY <1>5
<1> HIDE DEF n
<1>9. PackageLength(rest, p.uid) = n
  BY <1>1, <1>2, <1>6, <1>7, <1>8, PackageLengthIs
<1>10. QED
  BY <1>9 DEF rest, n

(* Cuts depends on the numbers of the packages only.                       *)
LEMMA CutsSame ==
  ASSUME NEW ops \in Seq(Insn), NEW base \in Nat, NEW p \in Seq(Package), NEW q \in Seq(Package),
         Len(p) = Len(q), \A k \in 1..Len(p) : p[k].dynID = q[k].dynID /\ p[k].uid = q[k].uid,
         Cuts(p, ops, base)
  PROVE  Cuts(q, ops, base)
<1>1. Len(p) \in Nat
  OBVIOUS
<1>2. \A k \in 1..(Len(p) + 1) : Start(q, ops, base, k) = Start(p, ops, base, k)
  <2>1. \A k \in 1..(Len(p) + 1) : k = Len(p) + 1 \/ k \in 1..Len(p)
    BY <1>1
  <2>2. QED
    BY <2>1 DEF Start
<1>3. \A k \in 1..Len(p) : k \in 1..(Len(p) + 1) /\ k + 1 \in 1..(Len(p) + 1)
  BY <1>1
<1>4. 1 \in 1..(Len(p) + 1)
  BY <1>1
<1>5. \A k \in 1..Len(p) : CutsAt(q[k], ops, Start(p, ops, base, k), Start(p, ops, base, k + 1))
  BY DEF Cuts, CutsAt
<1>6. QED
  BY <1>2, <1>3, <1>4, <1>5 DEF Cuts

(* There are packages if and only if there is something to cut.            *)
LEMMA CutsEmpty ==
  ASSUME NEW ops \in Seq(Insn), NEW base \in Nat, NEW p \in Seq(Package), Cuts(p, ops, base)
  PROVE  /\ ops = <<>> <=> p = <<>>
         /\ ops # <<>> => p[1].dynID = base
<1>1. Len(ops) \in Nat /\ Len(p) \in Nat /\ (ops = <<>> <=> Len(ops) = 0) /\ (p = <<>> <=> Len(p) = 0)
  BY EmptySeq
<1>2. Start(p, ops, base, 1) = 1
  BY DEF Cuts
<1>3. CASE p = <<>>
  BY <1>1, <1>2, <1>3 DEF Start
<1>4. CASE p # <<>>
  <2>1. 1 \in 1..Len(p)
    BY <1>1, <1>4
  <2>2. CutsAt(p[1], ops, 1, Start(p, ops, base, 2))
    BY <1>2, <2>1 DEF Cuts
  <2>3. Len(ops) # 0
    BY <1>1, <2>2 DEF CutsAt
  <2>4. p[1].dynID - base + 1 = 1 /\ p[1].dynID \in Nat
    <3>1. p[1] \in Package
      BY <2>1, ElementOfSeq
    <3>2. QED
      BY <1>1, <1>2, <1>4, <3>1 DEF Start, Package
  <2>5. p[1].dynID = base
    BY <2>4
  <2>6. QED
    BY <1>1, <1>4, <2>3, <2>5
<1>5. QED
  BY <1>3, <1>4

(* The package in front is taken.                                          *)
LEMMA CutsTail ==
  ASSUME NEW ops \in Seq(Insn), NEW base \in Nat, NEW p \in Seq(Package), p # <<>>,
         Cuts(p, ops, base)
  PROVE  LET n == PackageLength(ops, p[1].uid)
         IN  /\ n \in 1..Len(ops) /\ n <= PackageSize
             /\ Cuts(Tail(p), SubSeq(ops, n + 1, Len(ops)), base + n)
             /\ n = Len(ops) => Tail(p) = <<>>
<1> DEFINE n == PackageLength(ops, p[1].uid)
<1> DEFINE rest == SubSeq(ops, n + 1, Len(ops))
<1> DEFINE S(k) == Start(p, ops, base, k)
<1>1. Len(ops) \in Nat /\ Len(p) \in Nat \ {0} /\ 1 \in 1..Len(p) /\ p[1] \in Package
  BY EmptySeq, ElementOfSeq
<1>2. S(1) = 1
  BY DEF Cuts
<1>3. CutsAt(p[1], ops, 1, S(2))
  <2>1. CutsAt(p[1], ops, S(1), S(1 + 1))
    BY <1>1 DEF Cuts
  <2> HIDE DEF S
  <2>2. QED
    BY <1>2, <2>1
<1> HIDE DEF S
<1>4. n = S(2) - 1
  <2>1. SubSeq(ops, 1, Len(ops)) = ops
    BY SubSeqFull
  <2>2. PackageLength(SubSeq(ops, 1, Len(ops)), p[1].uid) = S(2) - 1
    BY <1>1, <1>3, CutsLength
  <2>3. QED
    BY <2>1, <2>2
<1> HIDE DEF n
<1>5. n \in 1..Len(ops) /\ n <= PackageSize /\ S(2) = n + 1
  BY <1>1, <1>3, <1>4 DEF CutsAt
<1>6. /\ rest \in Seq(Insn) /\ Len(rest) = Len(ops) - n
      /\ \A i \in 1..(Len(ops) - n) : rest[i] = ops[n + i]
  <2>1. \A i \in (n + 1)..Len(ops) : ops[i] \in Insn
    <3>1. \A i \in (n + 1)..Len(ops) : i \in 1..Len(ops)
      BY <1>1, <1>5
    <3>2. QED
      BY <3>1, ElementOfSeq
  <2>2. n + 1 \in Int /\ Len(ops) \in Int
    BY <1>1, <1>5
  <2>3. /\ rest \in Seq(Insn)
        /\ Len(rest) = IF n + 1 <= Len(ops) THEN Len(ops) - (n + 1) + 1 ELSE 0
        /\ \A i \in 1..(Len(ops) - (n + 1) + 1) : rest[i] = ops[n + 1 + i - 1]
    BY <2>1, <2>2, SubSeqProperties
  <2> HIDE DEF rest
  <2>4. /\ Len(ops) - (n + 1) + 1 = Len(ops) - n /\ (~(n + 1 <= Len(ops)) => Len(ops) - n = 0)
        /\ \A i \in 1..(Len(ops) - n) : n + 1 + i - 1 = n + i
    BY <1>1, <1>5
  <2>5. QED
    BY <2>3, <2>4
<1>7. /\ Tail(p) \in Seq(Package) /\ Len(Tail(p)) = Len(p) - 1
      /\ \A k \in 1..(Len(p) - 1) : Tail(p)[k] = p[k + 1]
  BY HeadTailProperties
<1> HIDE DEF rest
<1>8. \A k \in 1..Len(p) : Start(Tail(p), rest, base + n, k) = S(k + 1) - n
  <2>1. Start(Tail(p), rest, base + n, Len(p)) = S(Len(p) + 1) - n
    <3>1. Len(p) = Len(Tail(p)) + 1
      BY <1>1, <1>7
    <3>2. Start(Tail(p), rest, base + n, Len(p)) = Len(rest) + 1
      BY <3>1 DEF Start
    <3>3. S(Len(p) + 1) = Len(ops) + 1
      BY DEF S, Start
    <3>4. QED
      BY <1>1, <1>5, <1>6, <3>2, <3>3
  <2>2. ASSUME NEW k \in 1..Len(p), k # Len(p)
        PROVE  Start(Tail(p), rest, base + n, k) = S(k + 1) - n
    <3>1. /\ k \in 1..(Len(p) - 1) /\ k # Len(Tail(p)) + 1 /\ k + 1 # Len(p) + 1
          /\ k + 1 \in 1..Len(p)
      <4>1. Len(p) \in Nat /\ Len(Tail(p)) = Len(p) - 1
        BY <1>1, <1>7
      <4> DEFINE m == Len(Tail(p))
      <4> DEFINE N == Len(p)
      <4>2. N \in Nat /\ m = N - 1 /\ k \in 1..N /\ k # N
        BY <2>2, <4>1
      <4> HIDE DEF m, N
      <4>3. k \in 1..(N - 1) /\ k + 1 # N + 1 /\ k + 1 \in 1..N
        BY <4>2
      <4>4. k # m + 1
        BY <4>2
      <4>5. QED
        BY <4>3, <4>4 DEF m, N
    <3>2. Start(Tail(p), rest, base + n, k) = p[k + 1].dynID - (base + n) + 1
      BY <1>7, <3>1 DEF Start
    <3>3. S(k + 1) = p[k + 1].dynID - base + 1
      BY <3>1 DEF S, Start
    <3>4. p[k + 1].dynID \in Nat
      <4>1. p[k + 1] \in Package
        BY <3>1, ElementOfSeq
      <4>2. QED
        BY <4>1 DEF Package
    <3>5. QED
      BY <1>5, <3>2, <3>3, <3>4
  <2>3. QED
    BY <2>1, <2>2
<1>9. Start(Tail(p), rest, base + n, 1) = 1
  BY <1>1, <1>5, <1>8
<1>10. ASSUME NEW k \in 1..Len(Tail(p))
       PROVE  CutsAt(Tail(p)[k], rest, Start(Tail(p), rest, base + n, k),
                     Start(Tail(p), rest, base + n, k + 1))
  <2> DEFINE s == S(k + 1)
  <2> DEFINE e == S(k + 2)
  <2>1. k \in 1..(Len(p) - 1) /\ k \in 1..Len(p) /\ k + 1 \in 1..Len(p) /\ k + 1 + 1 = k + 2
    BY <1>1, <1>7
  <2>2. CutsAt(p[k + 1], ops, s, e)
    BY <2>1 DEF Cuts, S
  <2>3. /\ Tail(p)[k] = p[k + 1] /\ Start(Tail(p), rest, base + n, k) = s - n
        /\ Start(Tail(p), rest, base + n, k + 1) = e - n
    BY <1>7, <1>8, <2>1
  <2>4. s > n
    <3>1. p[k + 1] \in Package
      BY <2>1, ElementOfSeq
    <3>2. \A m \in 1..Len(p) : S(m + 1) > n
      <4> DEFINE Far == {m \in Nat : m + 1 \in 1..Len(p) => S(m + 2) > n}
      <4>1. 0 \in Far
        BY <1>5
      <4>2. ASSUME NEW m \in Far PROVE m + 1 \in Far
        <5>1. SUFFICES ASSUME m + 1 + 1 \in 1..Len(p) PROVE S(m + 1 + 2) > n
          BY <4>2
        <5>2. m \in Nat /\ m + 1 \in 1..Len(p) /\ m + 1 + 1 = m + 2 /\ m + 1 + 2 = m + 2 + 1
          BY <1>1, <4>2, <5>1
        <5>3. S(m + 2) > n
          BY <4>2, <5>2
        <5>4. CutsAt(p[m + 2], ops, S(m + 2), S(m + 2 + 1))
          BY <5>1, <5>2 DEF Cuts, S
        <5>5. QED
          BY <1>1, <1>5, <5>2, <5>3, <5>4 DEF CutsAt
      <4> HIDE DEF Far
      <4>3. Far = Nat
        <5>1. Far \in SUBSET Nat
          BY DEF Far
        <5>2. QED
          BY <4>1, <4>2, <5>1, InductionOnSet
      <4>4. ASSUME NEW m \in 1..Len(p) PROVE S(m + 1) > n
        <5>1. m - 1 \in Nat /\ m - 1 + 1 = m /\ m - 1 + 2 = m + 1
          BY <1>1
        <5>2. m - 1 \in Far
          BY <4>3, <5>1
        <5>3. QED
          BY <5>1, <5>2 DEF Far
      <4>5. QED
        BY <4>4
    <3>3. QED
      BY <2>1, <3>2
  <2> HIDE DEF s, e
  <2>5. /\ s \in 1..Len(ops) /\ e \in (s + 1)..(Len(ops) + 1) /\ e - s <= PackageSize
        /\ \A i \in s..(e - 1) : ops[i].uid = p[k + 1].uid + (i - s)
        /\ e - s = PackageSize \/ e = Len(ops) + 1 \/ ops[e].uid # p[k + 1].uid + (e - s)
    BY <2>2 DEF CutsAt
  <2>6. s - n \in 1..Len(rest) /\ e - n \in (s - n + 1)..(Len(rest) + 1) /\ (e - n) - (s - n) = e - s
    BY <1>1, <1>5, <1>6, <2>4, <2>5
  <2>7. ASSUME NEW i \in (s - n)..(e - n - 1)
        PROVE  rest[i].uid = p[k + 1].uid + (i - (s - n))
    <3>1. n + i \in s..(e - 1) /\ i \in 1..(Len(ops) - n) /\ (n + i) - s = i - (s - n)
      BY <1>1, <1>5, <1>6, <2>4, <2>5
    <3>2. rest[i] = ops[n + i]
      BY <1>6, <3>1
    <3>3. QED
      BY <2>5, <3>1, <3>2
  <2>8. e - s = PackageSize \/ e - n = Len(rest) + 1 \/ rest[e - n].uid # p[k + 1].uid + (e - s)
    <3>1. CASE e = Len(ops) + 1
      BY <1>1, <1>5, <1>6, <3>1
    <3>2. CASE e # Len(ops) + 1
      <4>1. e - n \in 1..(Len(ops) - n) /\ n + (e - n) = e
        <5>1. Len(ops) \in Nat /\ n \in 1..Len(ops) /\ s \in 1..Len(ops) /\ s > n
          BY <1>1, <1>5, <2>4, <2>5
        <5>2. e \in (s + 1)..(Len(ops) + 1)
          BY <2>5
        <5>3. QED
          BY <3>2, <5>1, <5>2
      <4>2. rest[e - n] = ops[e]
        BY <1>6, <4>1
      <4>3. QED
        BY <2>5, <3>2, <4>2
    <3>3. QED
      BY <3>1, <3>2
  <2>9. CutsAt(p[k + 1], rest, s - n, e - n)
    BY <2>5, <2>6, <2>7, <2>8 DEF CutsAt
  <2>10. QED
    BY <2>3, <2>9
<1>11. Cuts(Tail(p), rest, base + n)
  BY <1>9, <1>10 DEF Cuts
<1>12. n = Len(ops) => Tail(p) = <<>>
  <2>1. SUFFICES ASSUME n = Len(ops) PROVE Tail(p) = <<>>
    OBVIOUS
  <2>2. Len(rest) = 0
    BY <1>1, <1>6, <2>1
  <2>3. rest = <<>>
    BY <1>6, <2>2, EmptySeq
  <2>4. base + n \in Nat
    BY <1>5
  <2>5. QED
    BY <1>6, <1>7, <1>11, <2>3, <2>4, CutsEmpty
<1>13. QED
  BY <1>5, <1>11, <1>12 DEF n, rest

(* Every PackageSize-th instruction of a run starts a package.             *)
LEMMA Multiples ==
  ASSUME NEW n \in Nat \ {0}
  PROVE  \E K \in Nat \ {0} :
           /\ (K - 1) * PackageSize < n /\ n <= K * PackageSize
           /\ \A k \in 1..K : (k - 1) * PackageSize + 1 \in 1..n
           /\ Cardinality({i \in 1..n : (i - 1) % PackageSize = 0}) = K
<1> DEFINE K == (n - 1) \div PackageSize + 1
<1> DEFINE starts == {i \in 1..n : (i - 1) % PackageSize = 0}
<1> DEFINE f == [k \in 1..K |-> (k - 1) * PackageSize + 1]
<1>1. PackageSize \in Nat \ {0}
  BY Constants
<1>2. /\ K \in Nat \ {0}
      /\ (K - 1) * PackageSize < n /\ n <= K * PackageSize
  <2>1. \A a \in Nat, b \in Nat \ {0} :
           /\ a \div b \in Nat /\ (a \div b) * b <= a /\ a < (a \div b) * b + b
           /\ (a \div b + 1) * b = (a \div b) * b + b
    OBVIOUS
  <2>2. n - 1 \in Nat /\ K - 1 = (n - 1) \div PackageSize
    BY <1>1, <2>1
  <2>3. /\ (n - 1) \div PackageSize \in Nat
        /\ ((n - 1) \div PackageSize) * PackageSize <= n - 1
        /\ n - 1 < ((n - 1) \div PackageSize) * PackageSize + PackageSize
        /\ K * PackageSize = ((n - 1) \div PackageSize) * PackageSize + PackageSize
    BY <1>1, <2>1, <2>2
  <2> DEFINE m == ((n - 1) \div PackageSize) * PackageSize
  <2>4. m \in Nat /\ (K - 1) * PackageSize = m
    BY <1>1, <2>2, <2>3
  <2>5. m <= n - 1 /\ n - 1 < m + PackageSize /\ K * PackageSize = m + PackageSize
    BY <2>3
  <2>6. K \in Nat \ {0}
    BY <2>3
  <2> HIDE DEF m, K
  <2>7. QED
    BY <1>1, <2>4, <2>5, <2>6
<1> HIDE DEF K
<1>3. \A j, k \in Nat : j < k => j * PackageSize + PackageSize <= k * PackageSize
  <2>1. \A j, k, b \in Nat : j < k => j * b + b <= k * b
    OBVIOUS
  <2>2. QED
    BY <1>1, <2>1
<1>4. \A k \in Nat : k * PackageSize \in Nat /\ (k * PackageSize) % PackageSize = 0
  <2>1. \A k \in Nat, b \in Nat \ {0} : k * b \in Nat /\ (k * b) % b = 0
    OBVIOUS
  <2>2. QED
    BY <1>1, <2>1
<1>5. \A k \in 1..K : /\ k - 1 \in Nat /\ (k - 1) * PackageSize \in Nat
                      /\ (k - 1) * PackageSize + 1 \in starts
  <2>1. ASSUME NEW k \in 1..K
        PROVE  /\ k - 1 \in Nat /\ (k - 1) * PackageSize \in Nat
               /\ (k - 1) * PackageSize + 1 \in starts
    <3> DEFINE m == (k - 1) * PackageSize
    <3>1. k - 1 \in Nat /\ K - 1 \in Nat /\ (k - 1 = K - 1 \/ k - 1 < K - 1)
      BY <1>2
    <3>2. m \in Nat /\ m % PackageSize = 0 /\ m < n
      <4>1. m \in Nat /\ m % PackageSize = 0
        BY <1>4, <3>1
      <4>2. k - 1 < K - 1 => m + PackageSize <= (K - 1) * PackageSize
        BY <1>3, <3>1
      <4>3. (K - 1) * PackageSize \in Nat
        BY <1>4, <3>1
      <4>4. QED
        BY <1>1, <1>2, <3>1, <4>1, <4>2, <4>3
    <3> HIDE DEF m
    <3>3. m + 1 \in 1..n /\ m + 1 - 1 = m
      BY <3>2
    <3>4. m + 1 \in starts
      BY <3>2, <3>3
    <3>5. QED
      BY <3>1, <3>2, <3>4 DEF m
  <2>2. QED
    BY <2>1
<1>6. \A i \in starts : \E k \in 1..K : i = (k - 1) * PackageSize + 1
  <2>1. ASSUME NEW i \in starts PROVE \E k \in 1..K : i = (k - 1) * PackageSize + 1
    <3>1. i - 1 \in Nat /\ (i - 1) % PackageSize = 0 /\ i - 1 < n
      OBVIOUS
    <3>2. \A a \in Nat, b \in Nat \ {0} : a % b = 0 => \E q \in Nat : a = q * b
      OBVIOUS
    <3>3. PICK q \in Nat : i - 1 = q * PackageSize
      BY <1>1, <3>1, <3>2
    <3>4. q < K
      <4>1. SUFFICES ASSUME ~(q < K) PROVE FALSE
        OBVIOUS
      <4>2. q = K \/ K < q
        BY <1>2, <4>1
      <4>3. K < q => K * PackageSize + PackageSize <= q * PackageSize
        BY <1>2, <1>3
      <4>4. K * PackageSize \in Nat /\ q * PackageSize \in Nat
        BY <1>2, <1>4
      <4>5. K * PackageSize <= q * PackageSize
        BY <1>1, <4>2, <4>3, <4>4
      <4>6. QED
        BY <1>2, <3>1, <3>3, <4>4, <4>5
    <3>5. q + 1 \in 1..K /\ q + 1 - 1 = q /\ i = i - 1 + 1
      BY <1>2, <3>4
    <3>6. QED
      BY <3>3, <3>5
  <2>2. QED
    BY <2>1
<1>7. \A j, k \in 1..K : (j - 1) * PackageSize + 1 = (k - 1) * PackageSize + 1 => j = k
  <2>1. ASSUME NEW j \in 1..K, NEW k \in 1..K, j < k
        PROVE  (j - 1) * PackageSize + 1 # (k - 1) * PackageSize + 1
    <3>1. j - 1 \in Nat /\ k - 1 \in Nat /\ j - 1 < k - 1
      BY <1>2, <2>1
    <3>2. (j - 1) * PackageSize + PackageSize <= (k - 1) * PackageSize
      BY <1>3, <3>1
    <3>3. (j - 1) * PackageSize \in Nat /\ (k - 1) * PackageSize \in Nat
      BY <1>4, <3>1
    <3>4. QED
      BY <1>1, <3>2, <3>3
  <2>2. \A j, k \in 1..K : j < k \/ k < j \/ j = k
    BY <1>2
  <2>3. QED
    BY <2>1, <2>2
<1> HIDE DEF starts
<1>8. f \in Bijection(1..K, starts)
  <2>1. f \in [1..K -> starts]
    BY <1>5
  <2>2. \A j, k \in 1..K : f[j] = f[k] => j = k
    BY <1>7
  <2>3. \A i \in starts : \E k \in 1..K : f[k] = i
    BY <1>6
  <2> HIDE DEF f
  <2>4. QED
    BY <2>1, <2>2, <2>3 DEF Bijection, Injection, Surjection, IsInjective
<1>9. Cardinality(starts) = K
  <2>1. ExistsBijection(1..K, starts)
    BY <1>8 DEF ExistsBijection
  <2>2. QED
    BY <1>2, <2>1, FS_CountingElements
<1>10. \A k \in 1..K : (k - 1) * PackageSize + 1 \in 1..n
  BY <1>5 DEF starts
<1>11. QED
  BY <1>2, <1>9, <1>10 DEF starts

(* The instruction that the k-th package of a run stands for.              *)
HeadOf(run, k) == run[(k - 1) * PackageSize + 1]

LEMMA PackagesIs ==
  ASSUME NEW run \in Seq(Insn), run # <<>>
  PROVE  \E K \in Nat \ {0} :
           /\ (K - 1) * PackageSize < Len(run) /\ Len(run) <= K * PackageSize
           /\ Packages(run) \in Seq(Package) /\ Len(Packages(run)) = K
           /\ \A k \in 1..K :
                /\ (k - 1) * PackageSize + 1 \in 1..Len(run)
                /\ Packages(run)[k].dynID = HeadOf(run, k).dynID
                /\ Packages(run)[k].uid = HeadOf(run, k).uid
                /\ Packages(run)[k].prevBBTerminator = HeadOf(run, k).prevBBTerminator
                /\ Packages(run)[k].waitingForBrDecision
<1>1. Len(run) \in Nat \ {0} /\ DOMAIN run = 1..Len(run)
  BY EmptySeq
<1> DEFINE starts == {i \in 1..Len(run) : (i - 1) % PackageSize = 0}
<1>2. PICK K \in Nat \ {0} :
           /\ (K - 1) * PackageSize < Len(run) /\ Len(run) <= K * PackageSize
           /\ \A k \in 1..K : (k - 1) * PackageSize + 1 \in 1..Len(run)
           /\ Cardinality(starts) = K
  BY <1>1, Multiples
<1> DEFINE p(k) == [dynID |-> HeadOf(run, k).dynID, uid |-> HeadOf(run, k).uid,
                    kind |-> HeadOf(run, k).kind,
                    prevBBTerminator |-> HeadOf(run, k).prevBBTerminator,
                    waitingForBrDecision |-> TRUE]
<1>3. Packages(run) = [k \in 1..K |-> p(k)]
  BY <1>1, <1>2 DEF Packages, HeadOf
<1>4. \A k \in 1..K : p(k) \in Package
  <2>1. \A k \in 1..K : HeadOf(run, k) \in Insn
    BY <1>2, ElementOfSeq DEF HeadOf
  <2>2. QED
    BY <2>1 DEF Insn, Package
<1>5. \A k \in 1..K : /\ p(k).dynID = HeadOf(run, k).dynID /\ p(k).uid = HeadOf(run, k).uid
                      /\ p(k).prevBBTerminator = HeadOf(run, k).prevBBTerminator
                      /\ p(k).waitingForBrDecision
  OBVIOUS
<1> HIDE DEF p
<1>6. Packages(run) \in Seq(Package) /\ Len(Packages(run)) = K
  <2>1. [k \in 1..K |-> p(k)] \in Seq(Package)
    BY <1>4, IsASeq
  <2>2. QED
    BY <1>3, <2>1
<1>7. \A k \in 1..K : Packages(run)[k] = p(k)
  BY <1>3
<1>8. QED
  BY <1>2, <1>5, <1>6, <1>7

(* The run that comes behind ops: consecutive, but apart from ops.         *)
Follows(run, ops, base) ==
  /\ run \in Seq(Insn) /\ run # <<>>
  /\ \A i \in 1..Len(run) :
       run[i].dynID = base + Len(ops) + i - 1 /\ run[i].uid = run[1].uid + i - 1
  /\ ops # <<>> => ops[Len(ops)].uid + 1 # run[1].uid

(* The pieces of ops stay pieces when a run comes behind it.               *)
LEMMA CutsGrow ==
  ASSUME NEW ops \in Seq(Insn), NEW base \in Nat, NEW run, Follows(run, ops, base),
         NEW p \in Package, NEW s, NEW e, CutsAt(p, ops, s, e)
  PROVE  CutsAt(p, ops \o run, s, e)
<1> DEFINE n == Len(ops)
<1> DEFINE m == Len(run)
<1> DEFINE all == ops \o run
<1>1. /\ n \in Nat /\ m \in Nat \ {0} /\ Len(all) = n + m /\ run \in Seq(Insn)
      /\ \A i \in 1..n : all[i] = ops[i]
      /\ all[n + 1] = run[1]
  <2>1. run \in Seq(Insn) /\ n \in Nat /\ m \in Nat \ {0}
    BY EmptySeq DEF Follows
  <2>2. /\ Len(all) = n + m
        /\ \A i \in 1..(n + m) : all[i] = IF i <= n THEN ops[i] ELSE run[i - n]
    BY <2>1, ConcatProperties
  <2> HIDE DEF all, n, m
  <2>3. n + 1 \in 1..(n + m) /\ ~(n + 1 <= n) /\ n + 1 - n = 1 /\ \A i \in 1..n : i \in 1..(n + m) /\ i <= n
    BY <2>1
  <2>4. QED
    BY <2>1, <2>2, <2>3
<1>2. /\ s \in 1..n /\ e \in (s + 1)..(n + 1) /\ e - s <= PackageSize
      /\ \A i \in s..(e - 1) : ops[i].uid = p.uid + (i - s)
      /\ e - s = PackageSize \/ e = n + 1 \/ ops[e].uid # p.uid + (e - s)
  BY DEF CutsAt
<1>3. p.uid \in Nat
  BY DEF Package
<1> HIDE DEF n, m, all
<1>4. s \in 1..(n + m) /\ e \in (s + 1)..(n + m + 1)
  BY <1>1, <1>2
<1>5. \A i \in s..(e - 1) : i \in 1..n /\ all[i].uid = p.uid + (i - s)
  <2>1. \A i \in s..(e - 1) : i \in 1..n
    BY <1>1, <1>2
  <2>2. QED
    BY <1>1, <1>2, <2>1
<1>6. e - s = PackageSize \/ e = n + m + 1 \/ all[e].uid # p.uid + (e - s)
  <2>1. CASE e = n + 1
    <3>a. n \in s..(e - 1)
      BY <1>1, <1>2, <2>1
    <3>b. \A u \in Nat : u + (n - s) + 1 = u + (e - s)
      BY <1>1, <1>2, <2>1
    <3>1. n \in s..(e - 1) /\ p.uid + (n - s) + 1 = p.uid + (e - s)
      BY <1>3, <3>a, <3>b
    <3>2. ops[n].uid + 1 = p.uid + (e - s)
      BY <1>2, <3>1
    <3>3. ops # <<>>
      BY <1>1, <1>2, EmptySeq DEF n
    <3>4. ops[n].uid + 1 # run[1].uid
      BY <3>3 DEF Follows, n
    <3>5. QED
      BY <1>1, <2>1, <3>2, <3>4
  <2>2. CASE e # n + 1
    <3>1. e \in 1..n
      BY <1>1, <1>2, <2>2
    <3>2. QED
      BY <1>1, <1>2, <2>2, <3>1
  <2>3. QED
    BY <2>1, <2>2
<1>7. Len(ops \o run) = n + m /\ all = ops \o run
  BY <1>1 DEF all
<1>8. QED
  BY <1>2, <1>4, <1>5, <1>6, <1>7 DEF CutsAt

(* The k-th piece of the run.                                              *)
LEMMA CutsNew ==
  ASSUME NEW ops \in Seq(Insn), NEW base \in Nat, NEW run, Follows(run, ops, base),
         NEW p \in Package, NEW d \in Nat, NEW e \in Nat, d < Len(run),
         p.uid = run[d + 1].uid, e <= PackageSize, e > 0,
         \/ e = PackageSize /\ d + e <= Len(run)
         \/ d + e = Len(run)
  PROVE  CutsAt(p, ops \o run, Len(ops) + d + 1, Len(ops) + d + 1 + e)
<1> DEFINE n == Len(ops)
<1> DEFINE m == Len(run)
<1> DEFINE all == ops \o run
<1>1. /\ n \in Nat /\ m \in Nat \ {0} /\ Len(all) = n + m /\ run \in Seq(Insn)
      /\ \A i \in 1..m : all[n + i] = run[i]
  <2>1. run \in Seq(Insn) /\ n \in Nat /\ m \in Nat \ {0}
    BY EmptySeq DEF Follows
  <2>2. /\ Len(all) = n + m
        /\ \A i \in 1..(n + m) : all[i] = IF i <= n THEN ops[i] ELSE run[i - n]
    BY <2>1, ConcatProperties
  <2> HIDE DEF all, n, m
  <2>3. \A i \in 1..m : n + i \in 1..(n + m) /\ ~(n + i <= n) /\ n + i - n = i
    BY <2>1
  <2>4. QED
    BY <2>1, <2>2, <2>3
<1>2. \A i \in 1..m : run[i].uid = run[1].uid + i - 1
  BY DEF Follows
<1>3. run[1].uid \in Nat
  <2>1. 1 \in 1..Len(run)
    BY <1>1
  <2>2. run[1] \in Insn
    BY <1>1, <2>1, ElementOfSeq
  <2>3. QED
    BY <2>2 DEF Insn
<1>4. d < m /\ ((e = PackageSize /\ d + e <= m) \/ d + e = m)
  OBVIOUS
<1>5. PackageSize \in Nat \ {0}
  BY Constants
<1> HIDE DEF n, m, all
<1>6. d + 1 \in 1..m /\ p.uid = run[1].uid + d
  <2>1. d + 1 \in 1..m
    BY <1>1, <1>4
  <2>2. QED
    BY <1>2, <1>3, <2>1
<1>7. /\ n + d + 1 \in 1..(n + m) /\ n + d + 1 + e \in (n + d + 1 + 1)..(n + m + 1)
      /\ (n + d + 1 + e) - (n + d + 1) = e
      /\ e = PackageSize \/ n + d + 1 + e = n + m + 1
  BY <1>1, <1>4, <1>5
<1>8. \A i \in (n + d + 1)..((n + d + 1 + e) - 1) : all[i].uid = p.uid + (i - (n + d + 1))
  <2>1. SUFFICES ASSUME NEW i \in (n + d + 1)..((n + d + 1 + e) - 1)
                 PROVE  all[i].uid = p.uid + (i - (n + d + 1))
    OBVIOUS
  <2>2. i - n \in 1..m /\ n + (i - n) = i
    BY <1>1, <1>4, SMTT(30)
  <2>3. all[n + (i - n)] = run[i - n] /\ run[i - n].uid = run[1].uid + (i - n) - 1
    BY <1>1, <1>2, <2>2
  <2>4. \A u \in Nat : u + (i - n) - 1 = u + d + (i - (n + d + 1))
    BY <1>1, SMTT(30)
  <2>5. run[1].uid + (i - n) - 1 = run[1].uid + d + (i - (n + d + 1))
    BY <1>3, <2>4
  <2>6. QED
    BY <1>6, <2>2, <2>3, <2>5
<1>9. QED
  BY <1>1, <1>7, <1>8 DEF CutsAt, n, all

(* With its packages, a run can be put behind what is there.               *)
LEMMA CutsAppend ==
  ASSUME NEW ops \in Seq(Insn), NEW base \in Nat, NEW run, Follows(run, ops, base),
         NEW packages \in Seq(Package), Cuts(packages, ops, base)
  PROVE  Cuts(packages \o Packages(run), ops \o run, base)
<1> DEFINE n == Len(ops)
<1> DEFINE m == Len(packages)
<1> DEFINE r == Len(run)
<1> DEFINE q == packages \o Packages(run)
<1> DEFINE all == ops \o run
<1>1. run \in Seq(Insn) /\ run # <<>> /\ n \in Nat /\ m \in Nat /\ r \in Nat \ {0} /\ Len(all) = n + r
  BY EmptySeq DEF Follows
<1>2. PICK K \in Nat \ {0} :
           /\ (K - 1) * PackageSize < r /\ r <= K * PackageSize
           /\ Packages(run) \in Seq(Package) /\ Len(Packages(run)) = K
           /\ \A k \in 1..K :
                /\ (k - 1) * PackageSize + 1 \in 1..r
                /\ Packages(run)[k].dynID = HeadOf(run, k).dynID
                /\ Packages(run)[k].uid = HeadOf(run, k).uid
  <2>1. \E K \in Nat \ {0} :
           /\ (K - 1) * PackageSize < Len(run) /\ Len(run) <= K * PackageSize
           /\ Packages(run) \in Seq(Package) /\ Len(Packages(run)) = K
           /\ \A k \in 1..K :
                /\ (k - 1) * PackageSize + 1 \in 1..Len(run)
                /\ Packages(run)[k].dynID = HeadOf(run, k).dynID
                /\ Packages(run)[k].uid = HeadOf(run, k).uid
                /\ Packages(run)[k].prevBBTerminator = HeadOf(run, k).prevBBTerminator
                /\ Packages(run)[k].waitingForBrDecision
    BY <1>1, PackagesIs
  <2>2. QED
    BY <2>1
<1>3. /\ Len(q) = m + K
      /\ \A k \in 1..m : q[k] = packages[k]
      /\ \A j \in 1..K : q[m + j] = Packages(run)[j]
  <2>1. /\ Len(q) = m + K
        /\ \A k \in 1..(m + K) : q[k] = IF k <= m THEN packages[k] ELSE Packages(run)[k - m]
    BY <1>2, ConcatProperties
  <2> HIDE DEF q, m
  <2>2. /\ \A k \in 1..m : k \in 1..(m + K) /\ k <= m
        /\ \A j \in 1..K : m + j \in 1..(m + K) /\ ~(m + j <= m) /\ m + j - m = j
    BY <1>1, <1>2
  <2>3. \A k \in 1..m : q[k] = packages[k]
    BY <2>1, <2>2
  <2>4. ASSUME NEW j \in 1..K PROVE q[m + j] = Packages(run)[j]
    <3> DEFINE i == m + j
    <3>1. i \in 1..(m + K) /\ ~(i <= m) /\ i - m = j
      <4>1. m \in Nat
        BY <1>1 DEF m
      <4>2. K \in Nat
        OBVIOUS
      <4>3. QED
        BY <4>1, <4>2
    <3> HIDE DEF i
    <3>2. q[i] = Packages(run)[i - m]
      BY <2>1, <3>1
    <3>3. QED
      BY <3>1, <3>2 DEF i
  <2>5. QED
    BY <2>1, <2>3, <2>4
<1>4. \A i \in 1..r : run[i].dynID = base + n + i - 1
  BY DEF Follows
<1>5. PackageSize \in Nat \ {0}
  BY Constants
<1>6. \A j \in 1..K : /\ (j - 1) * PackageSize \in Nat
                      /\ j * PackageSize = (j - 1) * PackageSize + PackageSize
                      /\ (j + 1 - 1) * PackageSize = j * PackageSize
                      /\ (j - 1) * PackageSize < r
  <2>1. \A j \in Nat \ {0}, b \in Nat : /\ (j - 1) * b \in Nat /\ j * b = (j - 1) * b + b
                                         /\ (j + 1 - 1) * b = j * b
    OBVIOUS
  <2>2. \A j \in 1..K : j \in Nat \ {0}
    BY <1>2
  <2>3. \A j \in 1..K : (j - 1) * PackageSize \in Nat /\ (j - 1) * PackageSize + 1 \in 1..r
    BY <1>2, <1>5, <2>1, <2>2
  <2>4. \A d \in Nat : d + 1 \in 1..r => d < r
    BY <1>1
  <2>5. \A j \in 1..K : (j - 1) * PackageSize < r
    BY <2>3, <2>4
  <2>6. QED
    BY <1>5, <2>1, <2>2, <2>5
<1> DEFINE S(k) == Start(q, all, base, k)
<1>7. \A j \in 1..K : S(m + j) = n + (j - 1) * PackageSize + 1
  <2>1. SUFFICES ASSUME NEW j \in 1..K PROVE S(m + j) = n + (j - 1) * PackageSize + 1
    OBVIOUS
  <2> DEFINE d == (j - 1) * PackageSize
  <2>2. d \in Nat /\ d + 1 \in 1..r
    BY <1>2, <1>6
  <2>3. q[m + j].dynID = run[d + 1].dynID
    BY <1>2, <1>3 DEF HeadOf
  <2> HIDE DEF d
  <2>4. run[d + 1].dynID = base + n + (d + 1) - 1
    BY <1>4, <2>2
  <2>5. m + j # m + K + 1
    BY <1>1, <1>2
  <2>6. S(m + j) = q[m + j].dynID - base + 1
    BY <1>3, <2>5 DEF Start
  <2> HIDE DEF S, q, n, m
  <2>7. base + n + (d + 1) - 1 - base + 1 = n + d + 1
    BY <1>1, <2>2
  <2>8. S(m + j) = n + d + 1
    <3> DEFINE x == q[m + j].dynID
    <3>1. x = base + n + (d + 1) - 1
      BY <2>3, <2>4
    <3>2. S(m + j) = x - base + 1
      BY <2>6
    <3> HIDE DEF x
    <3>3. x - base + 1 = n + d + 1
      BY <1>1, <2>2, <3>1
    <3>4. QED
      BY <3>2, <3>3
  <2>9. QED
    BY <2>8 DEF d
<1>8. S(m + K + 1) = n + r + 1
  BY <1>1, <1>3 DEF Start
<1>9. \A k \in 1..(m + 1) : S(k) = Start(packages, ops, base, k)
  <2>1. \A k \in 1..m : k # m + 1 /\ k # m + K + 1
    BY <1>1, <1>2
  <2>2. \A k \in 1..m : S(k) = Start(packages, ops, base, k)
    BY <1>3, <2>1 DEF Start
  <2>3. Start(packages, ops, base, m + 1) = n + 1
    BY DEF Start
  <2>4. 1 \in 1..K /\ (1 - 1) * PackageSize = 0 /\ n + 0 + 1 = n + 1
    BY <1>1, <1>2, <1>5
  <2> HIDE DEF S
  <2>5. S(m + 1) = n + 1
    BY <1>7, <2>4
  <2>6. \A k \in 1..(m + 1) : k \in 1..m \/ k = m + 1
    BY <1>1
  <2> HIDE DEF n, m
  <2>7. QED
    BY <2>2, <2>3, <2>5, <2>6
<1> HIDE DEF S
<1>10. \A k \in 1..m : CutsAt(q[k], all, S(k), S(k + 1))
  <2>1. SUFFICES ASSUME NEW k \in 1..m PROVE CutsAt(q[k], all, S(k), S(k + 1))
    OBVIOUS
  <2>2. k \in 1..(m + 1) /\ k + 1 \in 1..(m + 1)
    BY <1>1
  <2>3. CutsAt(packages[k], ops, S(k), S(k + 1))
    BY <1>9, <2>2 DEF Cuts
  <2>4. packages[k] \in Package
    BY ElementOfSeq
  <2>5. CutsAt(packages[k], all, S(k), S(k + 1))
    BY <2>3, <2>4, CutsGrow
  <2>6. QED
    BY <1>3, <2>5
<1>11. \A j \in 1..K : CutsAt(q[m + j], all, S(m + j), S(m + j + 1))
  <2>1. SUFFICES ASSUME NEW j \in 1..K PROVE CutsAt(q[m + j], all, S(m + j), S(m + j + 1))
    OBVIOUS
  <2> DEFINE d == (j - 1) * PackageSize
  <2> DEFINE p == Packages(run)[j]
  <2>2. d \in Nat /\ d < r /\ p \in Package /\ p.uid = run[d + 1].uid /\ q[m + j] = p
    BY <1>2, <1>3, <1>6, ElementOfSeq DEF HeadOf
  <2>3. S(m + j) = n + d + 1
    BY <1>7
  <2>4. CASE j = K
    <3> DEFINE e == r - d
    <3>1. r <= d + PackageSize
      BY <1>2, <1>6, <2>4
    <3>2. S(m + j + 1) = n + r + 1
      BY <1>8, <2>4
    <3> HIDE DEF d, p, n, m, S, q, all
    <3>3. e \in Nat /\ e <= PackageSize /\ e > 0 /\ d + e = r
      BY <1>1, <1>5, <2>2, <3>1
    <3>4. n + d + 1 + e = n + r + 1
      BY <1>1, <2>2
    <3> HIDE DEF e
    <3>5. CutsAt(p, ops \o run, Len(ops) + d + 1, Len(ops) + d + 1 + e)
      BY <2>2, <3>3, CutsNew
    <3>6. QED
      BY <2>2, <2>3, <3>2, <3>4, <3>5 DEF n, all
  <2>5. CASE j # K
    <3>1. j + 1 \in 1..K /\ m + (j + 1) = m + j + 1
      BY <1>1, <1>2, <2>5
    <3>2. S(m + j + 1) = n + j * PackageSize + 1 /\ j * PackageSize < r
      <4> DEFINE i == j + 1
      <4>1. i \in 1..K /\ m + i = m + j + 1
        BY <3>1
      <4>2. i - 1 = j
        BY <1>2
      <4> HIDE DEF i
      <4>3. S(m + i) = n + (i - 1) * PackageSize + 1
        BY <1>7, <4>1
      <4>4. (i - 1) * PackageSize < r
        BY <1>6, <4>1
      <4>5. QED
        BY <4>1, <4>2, <4>3, <4>4
    <3>3. j * PackageSize = d + PackageSize
      BY <1>6
    <3> HIDE DEF d, p, n, m, S, q, all
    <3>4. n + d + 1 + PackageSize = n + (d + PackageSize) + 1
      BY <1>1, <1>5, <2>2
    <3> DEFINE e == PackageSize
    <3>a. e \in Nat /\ e <= PackageSize /\ e > 0 /\ e = PackageSize
      BY <1>5
    <3> HIDE DEF e
    <3>b. d + e <= r
      BY <1>1, <2>2, <3>2, <3>3, <3>a
    <3>c. CutsAt(p, ops \o run, Len(ops) + d + 1, Len(ops) + d + 1 + e)
      BY <2>2, <3>a, <3>b, CutsNew
    <3>5. CutsAt(p, ops \o run, Len(ops) + d + 1, Len(ops) + d + 1 + PackageSize)
      BY <3>c DEF e
    <3>6. QED
      BY <2>2, <2>3, <3>2, <3>3, <3>4, <3>5 DEF n, all
  <2>6. QED
    BY <2>4, <2>5
<1>12. \A k \in 1..(m + K) : CutsAt(q[k], all, S(k), S(k + 1))
  <2>1. \A k \in 1..(m + K) : k \in 1..m \/ (k - m \in 1..K /\ m + (k - m) = k)
    BY <1>1, <1>2
  <2> HIDE DEF S, q, all, m
  <2>2. QED
    BY <1>10, <1>11, <2>1
<1>13. S(1) = 1
  <2>1. 1 \in 1..(m + 1)
    BY <1>1
  <2>2. QED
    BY <1>9, <2>1 DEF Cuts
<1>14. QED
  BY <1>3, <1>12, <1>13 DEF Cuts, S

(* Cuts says what PackagesCover says.                                      *)
LEMMA CutsMeans ==
  ASSUME TypeOK, NumbersAgree, Cuts(pending, processedOps, front)
  PROVE  PackagesCover
<1> DEFINE p == request \o responses \o FTQ
<1> DEFINE S(k) == Start(p, processedOps, front, k)
<1> DEFINE at(k) == p[k].dynID - processedOps[1].dynID + 1
<1> DEFINE end(k) == at(k) + PackageLength(SubSeq(processedOps, at(k), Len(processedOps)), p[k].uid)
<1>1. p = pending /\ p \in Seq(Package) /\ processedOps \in Seq(Insn) /\ front \in Nat
  <2>1. request \o responses \in Seq(Package)
    BY ConcatProperties DEF TypeOK
  <2>2. p \in Seq(Package)
    BY <2>1, ConcatProperties DEF TypeOK
  <2>3. taken \in Nat /\ Len(insnQueue) \in Nat
    BY DEF TypeOK
  <2>4. QED
    BY <2>2, <2>3 DEF pending, TypeOK, front
<1> HIDE DEF p
<1>2. CASE processedOps = <<>>
  <2>1. p = <<>>
    BY <1>1, <1>2, CutsEmpty
  <2>2. QED
    BY <1>2, <2>1 DEF PackagesCover, p
<1>3. CASE processedOps # <<>>
  <2>1. p # <<>> /\ Len(p) \in Nat \ {0} /\ DOMAIN p = 1..Len(p) /\ Len(processedOps) \in Nat \ {0}
    BY <1>1, <1>3, CutsEmpty, EmptySeq
  <2>2. processedOps[1].dynID = front
    <3>1. 1 \in DOMAIN processedOps
      BY <1>1, <2>1
    <3>2. processedOps[1].dynID = front + 1 - 1
      BY <3>1 DEF NumbersAgree
    <3>3. QED
      BY <1>1, <3>2
  <2>3. \A k \in 1..Len(p) : at(k) = S(k)
    <3>1. \A k \in 1..Len(p) : k # Len(p) + 1
      BY <2>1
    <3>2. QED
      BY <2>2, <3>1 DEF Start
  <2>4. S(Len(p) + 1) = Len(processedOps) + 1
    BY DEF Start
  <2>5. S(1) = 1 /\ \A k \in 1..Len(p) : CutsAt(p[k], processedOps, S(k), S(k + 1))
    BY <1>1 DEF Cuts
  <2> HIDE DEF S
  <2>6. ASSUME NEW k \in 1..Len(p) PROVE end(k) = S(k + 1)
    <3>1. p[k] \in Package
      BY <1>1, ElementOfSeq
    <3>2. PackageLength(SubSeq(processedOps, S(k), Len(processedOps)), p[k].uid) = S(k + 1) - S(k)
      BY <1>1, <2>5, <3>1, CutsLength
    <3>3. end(k) = S(k) + (S(k + 1) - S(k))
      BY <2>3, <3>2
    <3>4. S(k) \in Int /\ S(k + 1) \in Int
      BY <2>1, <2>5 DEF CutsAt
    <3> HIDE DEF end
    <3>5. QED
      BY <3>3, <3>4
  <2>7. at(1) = 1
    BY <2>1, <2>3, <2>5
  <2> HIDE DEF end
  <2>8. \A k \in DOMAIN p :
           end(k) = IF k = Len(p) THEN Len(processedOps) + 1 ELSE at(k + 1)
    <3>1. SUFFICES ASSUME NEW k \in 1..Len(p), k # Len(p) PROVE end(k) = at(k + 1)
      BY <2>1, <2>4, <2>6
    <3>2. k + 1 \in 1..Len(p)
      <4>1. Len(p) \in Nat /\ k \in 1..Len(p) /\ k # Len(p)
        BY <2>1, <3>1
      <4> DEFINE m == Len(p)
      <4>2. m \in Nat /\ k \in 1..m /\ k # m
        BY <4>1
      <4> HIDE DEF m
      <4>3. k + 1 \in 1..m
        BY <4>2
      <4>4. QED
        BY <4>3 DEF m
    <3> HIDE DEF at
    <3>3. QED
      BY <2>3, <2>6, <3>2
  <2>9. QED
    BY <1>3, <2>1, <2>7, <2>8 DEF PackagesCover, p, end
<1>4. QED
  BY <1>2, <1>3

-----------------------------------------------------------------------------
(* The run that preprocess returns.                                        *)

(* Numbers are given in order, and the branch before to the first.         *)
LEMMA NumberedIs ==
  ASSUME walk \in Walk, StackAgrees(walk), WalkAgrees(walk)
  PROVE  /\ Numbered(NextRun) \in Seq(Insn) /\ Len(Numbered(NextRun)) = Len(NextRun)
         /\ Numbered(NextRun) = <<>> <=> NextRun = <<>>
         /\ \A i \in 1..Len(NextRun) :
              /\ Numbered(NextRun)[i].dynID = walk.globalDynID + i - 1
              /\ Numbered(NextRun)[i].uid = NextRun[i].uid
              /\ Numbered(NextRun)[i].kind = NextRun[i].kind
         /\ NextRun # <<>> =>
              Numbered(NextRun)[1].prevBBTerminator = Buffered(walk).w.prevBBTerminator
<1> DEFINE run == NextRun
<1> DEFINE op(i) == [dynID |-> walk.globalDynID + i - 1, uid |-> run[i].uid, kind |-> run[i].kind,
                     prevBBTerminator |-> IF i = 1 THEN Buffered(walk).w.prevBBTerminator ELSE NoBranch]
<1>1. run \in Seq(StaticOp) /\ DOMAIN run = 1..Len(run) /\ Len(run) \in Nat
  BY RunIs
<1>2. Numbered(run) = [i \in 1..Len(run) |-> op(i)]
  BY <1>1 DEF Numbered
<1>3. \A i \in 1..Len(run) : op(i) \in Insn
  <2>1. SUFFICES ASSUME NEW i \in 1..Len(run) PROVE op(i) \in Insn
    OBVIOUS
  <2>2. run[i] \in StaticOp
    BY <1>1, ElementOfSeq
  <2>3. run[i].uid \in Nat /\ run[i].kind \in STRING
    BY <2>2 DEF StaticOp
  <2>4. walk.globalDynID + i - 1 \in Nat
    BY <1>1 DEF Walk
  <2>5. Buffered(walk).w.prevBBTerminator \in Int /\ NoBranch \in Int
    BY BufferedIs DEF Walk, NoBranch
  <2>6. QED
    BY <2>3, <2>4, <2>5 DEF Insn
<1>4. \A i \in 1..Len(run) :
        op(i).dynID = walk.globalDynID + i - 1 /\ op(i).uid = run[i].uid /\ op(i).kind = run[i].kind
  OBVIOUS
<1>5. op(1).prevBBTerminator = Buffered(walk).w.prevBBTerminator
  OBVIOUS
<1> HIDE DEF op, run
<1>6. Numbered(run) \in Seq(Insn) /\ Len(Numbered(run)) = Len(run)
  <2>1. [i \in 1..Len(run) |-> op(i)] \in Seq(Insn)
    BY <1>1, <1>3, IsASeq
  <2>2. QED
    BY <1>1, <1>2, <2>1
<1>7. Numbered(run) = <<>> <=> run = <<>>
  BY <1>1, <1>6, EmptySeq
<1>8. run # <<>> => 1 \in 1..Len(run)
  BY <1>1, EmptySeq
<1>9. \A i \in 1..Len(run) : Numbered(run)[i] = op(i)
  BY <1>2
<1>10. QED
  BY <1>4, <1>5, <1>6, <1>7, <1>8, <1>9 DEF run

(* The run comes behind what is buffered, and IF1 can tell them apart.     *)
LEMMA RunFollows ==
  ASSUME TypeOK, StackAgrees(walk), WalkAgrees(walk), RunsApart, NumbersAgree, NextRun # <<>>
  PROVE  Follows(Numbered(NextRun), processedOps, front)
<1> DEFINE run == Numbered(NextRun)
<1> DEFINE n == Len(NextRun)
<1>1. walk \in Walk /\ processedOps \in Seq(Insn) /\ walk.globalDynID = front + Len(processedOps)
  BY DEF TypeOK, NumbersAgree
<1>2. PICK c \in DOMAIN Program : \E i \in DOMAIN Program[c] :
        /\ IsRest(Buffered(walk).ops, c, i)
        /\ i = 1 \/ walk.fetchForRet
        /\ \A k \in 1..n : i + k - 1 \in DOMAIN Program[c] /\ NextRun[k].uid = UID(c, i + k - 1)
  <2>1. PICK c \in DOMAIN Program : \E i \in DOMAIN Program[c] :
              /\ IsRest(Buffered(walk).ops, c, i)
              /\ i = 1 \/ walk.fetchForRet
              /\ Len(NextRun) \in 1..Len(Buffered(walk).ops)
              /\ \A k \in 1..Len(NextRun) :
                   /\ i + k - 1 \in DOMAIN Program[c]
                   /\ NextRun[k] = [block |-> c, uid |-> UID(c, i + k - 1),
                        kind |-> Program[c][i + k - 1].kind, to |-> Program[c][i + k - 1].to]
    BY <1>1, RunIs
  <2>2. PICK i \in DOMAIN Program[c] :
              /\ IsRest(Buffered(walk).ops, c, i)
              /\ i = 1 \/ walk.fetchForRet
              /\ \A k \in 1..Len(NextRun) :
                   /\ i + k - 1 \in DOMAIN Program[c]
                   /\ NextRun[k] = [block |-> c, uid |-> UID(c, i + k - 1),
                        kind |-> Program[c][i + k - 1].kind, to |-> Program[c][i + k - 1].to]
    BY <2>1
  <2>3. ASSUME NEW k \in 1..n PROVE NextRun[k].uid = UID(c, i + k - 1)
    <3> DEFINE j == i + k - 1
    <3>1. NextRun[k] = [block |-> c, uid |-> UID(c, j), kind |-> Program[c][j].kind,
                        to |-> Program[c][j].to]
      BY <2>2
    <3> HIDE DEF j
    <3>2. NextRun[k].uid = UID(c, j)
      BY <3>1
    <3>3. QED
      BY <3>2 DEF j
  <2>4. QED
    BY <2>2, <2>3
<1>3. PICK i \in DOMAIN Program[c] :
        /\ IsRest(Buffered(walk).ops, c, i)
        /\ i = 1 \/ walk.fetchForRet
        /\ \A k \in 1..n : i + k - 1 \in DOMAIN Program[c] /\ NextRun[k].uid = UID(c, i + k - 1)
  BY <1>2
<1>4. i \in Nat \ {0} /\ FirstUID[c] \in Nat /\ i \in 1..Len(Program[c])
  BY BlockIs, FetchAssumption
<1>5. /\ run \in Seq(Insn) /\ Len(run) = n /\ run # <<>> /\ n \in Nat \ {0}
      /\ \A k \in 1..n : run[k].dynID = walk.globalDynID + k - 1 /\ run[k].uid = NextRun[k].uid
  <2>1. /\ run \in Seq(Insn) /\ Len(run) = n /\ run # <<>>
        /\ \A k \in 1..n : run[k].dynID = walk.globalDynID + k - 1 /\ run[k].uid = NextRun[k].uid
    BY <1>1, NumberedIs
  <2>2. n \in Nat \ {0}
    BY <2>1, EmptySeq
  <2>3. QED
    BY <2>1, <2>2
<1> HIDE DEF run, n
<1>6. \A k \in 1..n : run[k].uid = FirstUID[c] + (i + k - 1)
  BY <1>3, <1>5 DEF UID
<1>7. run[1].uid = FirstUID[c] + i
  <2>1. 1 \in 1..n /\ i + 1 - 1 = i
    BY <1>4, <1>5
  <2>2. QED
    BY <1>6, <2>1
<1>8. \A k \in 1..n : run[k].uid = run[1].uid + k - 1
  <2>1. \A k \in 1..n : FirstUID[c] + (i + k - 1) = FirstUID[c] + i + k - 1
    BY <1>4, <1>5
  <2>2. QED
    BY <1>6, <1>7, <2>1
<1>9. processedOps # <<>> => processedOps[Len(processedOps)].uid + 1 # run[1].uid
  <2>1. SUFFICES ASSUME processedOps # <<>>, processedOps[Len(processedOps)].uid + 1 = run[1].uid
                 PROVE  FALSE
    OBVIOUS
  <2>2. PICK d \in DOMAIN Program : \E j \in DOMAIN Program[d] :
          /\ processedOps[Len(processedOps)].uid = UID(d, j)
          /\ walk.fetchForRet => Program[d][j].kind = "ret"
    BY <2>1 DEF RunsApart
  <2>3. PICK j \in DOMAIN Program[d] :
          /\ processedOps[Len(processedOps)].uid = UID(d, j)
          /\ walk.fetchForRet => Program[d][j].kind = "ret"
    BY <2>2
  <2>4. j \in 1..Len(Program[d])
    BY BlockIs
  <2>5. UID(d, j) + 1 = UID(c, i)
    BY <1>7, <2>1, <2>3 DEF UID
  <2>6. CASE i = 1
    BY <2>4, <2>5, <2>6, NumbersApart
  <2>7. CASE i # 1
    <3>1. i - 1 \in 1..Len(Program[c])
      BY <1>4, <2>7, BlockIs
    <3>2. FirstUID[d] \in Nat /\ FirstUID[c] \in Nat /\ j \in Nat
      BY <2>4, BlockIs, FetchAssumption
    <3>3. UID(d, j) = UID(c, i - 1)
      BY <1>4, <2>5, <3>2, SMTT(30) DEF UID
    <3>4. d = c /\ j = i - 1
      BY <2>4, <3>1, <3>3, NumbersApart
    <3>5. Program[c][i - 1].kind = "call"
      BY <1>3, <2>7 DEF IsRest
    <3>6. Program[d][j].kind = "ret"
      BY <1>3, <2>3, <2>7
    <3>7. QED
      BY <3>4, <3>5, <3>6
  <2>8. QED
    BY <2>6, <2>7
<1>10. QED
  BY <1>1, <1>5, <1>8, <1>9 DEF Follows, run

(* The last instruction of ops ends a run after which the walk is at w.    *)
LastApart(ops, w) ==
  ops # <<>> =>
    \E c \in DOMAIN Program : \E j \in DOMAIN Program[c] :
      ops[Len(ops)].uid = UID(c, j) /\ (w.fetchForRet => Program[c][j].kind = "ret")

(* ... and so does what comes behind the run.                              *)
LEMMA RunEnds ==
  ASSUME TypeOK, StackAgrees(walk), WalkAgrees(walk), RunsApart, NEW to \in Targets(NextRun)
  PROVE  LastApart(processedOps \o Numbered(NextRun), AfterRun(NextRun, to))
<1> DEFINE run == Numbered(NextRun)
<1> DEFINE w == AfterRun(NextRun, to)
<1>1. walk \in Walk /\ processedOps \in Seq(Insn)
  BY DEF TypeOK
<1>2. run \in Seq(Insn) /\ Len(run) = Len(NextRun) /\ (run = <<>> <=> NextRun = <<>>)
  BY <1>1, NumberedIs
<1>3. CASE NextRun = <<>>
  <2>1. processedOps \o run = processedOps
    BY <1>1, <1>2, <1>3
  <2>2. ~w.fetchForRet
    BY <1>1, <1>3, AfterRunIs
  <2>3. QED
    BY <2>1, <2>2 DEF RunsApart, LastApart
<1>4. CASE NextRun # <<>>
  <2> DEFINE n == Len(NextRun)
  <2>1. PICK c \in DOMAIN Program : \E i \in DOMAIN Program[c] :
              /\ IsRest(Buffered(walk).ops, c, i)
              /\ i = 1 \/ walk.fetchForRet
              /\ Len(NextRun) \in 1..Len(Buffered(walk).ops)
              /\ \A k \in 1..Len(NextRun) :
                   /\ i + k - 1 \in DOMAIN Program[c]
                   /\ NextRun[k] = [block |-> c, uid |-> UID(c, i + k - 1),
                        kind |-> Program[c][i + k - 1].kind, to |-> Program[c][i + k - 1].to]
    BY <1>1, <1>4, RunIs
  <2>2. n \in Nat \ {0} /\ n \in 1..n
    <3>1. NextRun \in Seq(StaticOp)
      BY <1>1, RunIs
    <3>2. n \in Nat \ {0}
      BY <1>4, <3>1, EmptySeq
    <3>3. QED
      BY <3>2
  <2>3. PICK j \in DOMAIN Program[c] : NextRun[n].uid = UID(c, j) /\ NextRun[n].kind = Program[c][j].kind
    <3>1. PICK i \in DOMAIN Program[c] :
              \A k \in 1..n :
                   /\ i + k - 1 \in DOMAIN Program[c]
                   /\ NextRun[k] = [block |-> c, uid |-> UID(c, i + k - 1),
                        kind |-> Program[c][i + k - 1].kind, to |-> Program[c][i + k - 1].to]
      BY <2>1
    <3> DEFINE j == i + n - 1
    <3>2. /\ j \in DOMAIN Program[c]
          /\ NextRun[n] = [block |-> c, uid |-> UID(c, j),
                           kind |-> Program[c][j].kind, to |-> Program[c][j].to]
      BY <2>2, <3>1
    <3> HIDE DEF j
    <3>3. QED
      BY <3>2
  <2>4. run[n].uid = NextRun[n].uid
    BY <1>1, <2>2, NumberedIs
  <2>5. (processedOps \o run)[Len(processedOps \o run)] = run[n]
    <3> DEFINE m == Len(processedOps)
    <3>1. m \in Nat /\ Len(run) = n
      BY <1>1, <1>2
    <3>2. /\ Len(processedOps \o run) = m + Len(run)
          /\ \A k \in 1..(m + Len(run)) :
                (processedOps \o run)[k] = IF k <= m THEN processedOps[k] ELSE run[k - m]
      <4>1. processedOps \in Seq(Insn) /\ run \in Seq(Insn)
        BY <1>1, <1>2
      <4> HIDE DEF run
      <4>2. QED
        BY <4>1, ConcatProperties
    <3> HIDE DEF run, m, n
    <3>3. m + n \in 1..(m + n) /\ ~(m + n <= m) /\ m + n - m = n
      BY <2>2, <3>1
    <3> DEFINE k == m + n
    <3>4. (processedOps \o run)[k] = IF k <= m THEN processedOps[k] ELSE run[k - m]
      BY <3>1, <3>2, <3>3
    <3>5. QED
      BY <3>1, <3>2, <3>3, <3>4
  <2>6. w.fetchForRet => NextRun[n].kind = "ret"
    BY <1>1, <1>4, AfterRunIs DEF Last
  <2>7. QED
    BY <2>3, <2>4, <2>5, <2>6 DEF LastApart
<1>5. QED
  BY <1>3, <1>4

-----------------------------------------------------------------------------
(* IF1 and IF0.                                                            *)

(* The dynID of the instruction that will be in front of processedOps.     *)
newFront == taken + Len(insnQueue')

(* The package that was answered leaves ops, which the others still cut.   *)
LEMMA AnswerIs ==
  ASSUME TypeOK, RequestsAgree, NEW ops \in Seq(Insn), NEW queue \in Seq(Package),
         Cuts(request \o responses \o queue, ops, front), IF1(ops)
  PROVE  \E n \in 0..Len(ops) :
           /\ n <= PackageSize
           /\ newFront = front + n
           /\ processedOps' = SubSeq(ops, n + 1, Len(ops))
           /\ insnQueue' = insnQueue \o SubSeq(ops, 1, n)
           /\ responses' = <<>>
           /\ Cuts(request \o queue, processedOps', newFront)
<1>1. /\ front \in Nat /\ taken \in Nat /\ PackageSize \in Nat /\ Len(ops) \in Nat
      /\ Len(insnQueue) \in Nat /\ request \in Seq(Package) /\ responses \in Seq(Package)
      /\ insnQueue \in Seq(Insn)
  BY Constants DEF TypeOK, front
<1> DEFINE n == IF responses = <<>> THEN 0 ELSE PackageLength(ops, responses[1].uid)
<1>2. /\ insnQueue' = insnQueue \o SubSeq(ops, 1, n)
      /\ processedOps' = SubSeq(ops, n + 1, Len(ops))
      /\ responses' = <<>>
  BY DEF IF1
<1>3. n \in 0..Len(ops) /\ n <= PackageSize /\ Cuts(request \o queue, SubSeq(ops, n + 1, Len(ops)), front + n)
  <2>1. CASE responses = <<>>
    <3>1. n = 0 /\ SubSeq(ops, 1, Len(ops)) = ops
      BY <2>1, SubSeqFull
    <3>2. 0 \in 0..Len(ops) /\ 0 <= PackageSize /\ 0 + 1 = 1 /\ front + 0 = front
      BY <1>1
    <3>3. request \o responses \o queue = request \o queue
      BY <1>1, <2>1
    <3>4. QED
      BY <3>1, <3>2, <3>3
  <2>2. CASE responses # <<>>
    <3> DEFINE p == request \o responses \o queue
    <3>1. Len(request) \in Nat /\ Len(responses) \in Nat /\ Len(responses) # 0
      BY <1>1, <2>2, EmptySeq
    <3>2. Len(request) + Len(responses) \in {0, 1}
      BY DEF RequestsAgree
    <3>3. Len(request) = 0 /\ Len(responses) = 1
      <4>1. \A a, b \in Nat : a + b \in {0, 1} /\ b # 0 => a = 0 /\ b = 1
        OBVIOUS
      <4>2. QED
        BY <3>1, <3>2, <4>1
    <3>4. request = <<>>
      BY <1>1, <3>3, EmptySeq
    <3>5. p = responses \o queue /\ request \o queue = queue
      BY <1>1, <3>4
    <3>6. responses = <<responses[1]>> /\ responses[1] \in Package
      <4>a. 1 \in 1..Len(responses)
        BY <3>3
      <4>1. responses[1] \in Package
        BY <1>1, <4>a, ElementOfSeq
      <4>2. <<responses[1]>> \in Seq(Package) /\ Len(<<responses[1]>>) = 1
            /\ <<responses[1]>>[1] = responses[1]
        BY <4>1
      <4>3. \A i \in 1..1 : i = 1
        OBVIOUS
      <4>4. \A i \in 1..Len(responses) : responses[i] = <<responses[1]>>[i]
        BY <3>3, <4>2, <4>3
      <4>5. QED
        BY <1>1, <3>3, <4>1, <4>2, <4>4, SeqEqual
    <3>7. p # <<>> /\ p \in Seq(Package) /\ p[1] = responses[1] /\ Tail(p) = queue
      <4>1. p = <<responses[1]>> \o queue
        BY <3>5, <3>6
      <4> DEFINE a == responses[1]
      <4> HIDE DEF p, a
      <4>2. <<a>> \o queue # <<>> /\ <<a>> \o queue \in Seq(Package) /\ (<<a>> \o queue)[1] = a
            /\ Tail(<<a>> \o queue) = queue
        <5>1. a \in Package
          BY <3>6 DEF a
        <5>2. QED
          BY <5>1
      <4>3. QED
        BY <4>1, <4>2 DEF a
    <3>8. Cuts(p, ops, front)
      OBVIOUS
    <3> HIDE DEF p
    <3>9. LET i == PackageLength(ops, p[1].uid)
          IN  /\ i \in 1..Len(ops) /\ i <= PackageSize
              /\ Cuts(Tail(p), SubSeq(ops, i + 1, Len(ops)), front + i)
              /\ i = Len(ops) => Tail(p) = <<>>
      BY <1>1, <3>7, <3>8, CutsTail
    <3>10. n = PackageLength(ops, p[1].uid)
      BY <2>2, <3>7
    <3> HIDE DEF n
    <3>11. n \in 1..Len(ops) /\ n <= PackageSize /\ Cuts(queue, SubSeq(ops, n + 1, Len(ops)), front + n)
      BY <3>7, <3>9, <3>10
    <3>12. n \in 0..Len(ops)
      BY <1>1, <3>11
    <3>13. QED
      BY <3>5, <3>11, <3>12
  <2>3. QED
    BY <2>1, <2>2
<1> HIDE DEF n
<1>4. newFront = front + n
  <2>1. \A i \in 1..n : ops[i] \in Insn
    <3>1. \A i \in 1..n : i \in 1..Len(ops)
      BY <1>1, <1>3
    <3>2. QED
      BY <3>1, ElementOfSeq
  <2>2. SubSeq(ops, 1, n) \in Seq(Insn) /\ Len(SubSeq(ops, 1, n)) = n
    <3>1. SubSeq(ops, 1, n) \in Seq(Insn) /\ Len(SubSeq(ops, 1, n)) = IF 1 <= n THEN n - 1 + 1 ELSE 0
      BY <1>3, <2>1, SubSeqProperties
    <3>2. (IF 1 <= n THEN n - 1 + 1 ELSE 0) = n
      BY <1>3
    <3>3. QED
      BY <3>1, <3>2
  <2>3. Len(insnQueue') = Len(insnQueue) + n
    BY <1>1, <1>2, <2>2, ConcatProperties
  <2>4. QED
    BY <1>1, <1>3, <2>3 DEF newFront, front
<1>5. QED
  BY <1>2, <1>3, <1>4

(* What the fetch unit leaves in the queue, and with the cache.            *)
Kept(queue) ==
  /\ FTQ' \in Seq(Package) /\ request' \in Seq(Package) /\ occupied' \in BOOLEAN
  /\ RequestsAgree'
  /\ \A k \in DOMAIN FTQ' : \E j \in DOMAIN queue :
       queue[j].dynID = FTQ'[k].dynID /\ queue[j].prevBBTerminator = FTQ'[k].prevBBTerminator
  /\ queue # <<>> => FTQ' # <<>> \/ request' # <<>>
  /\ \A b \in mispredicted \ finished : \A j \in DOMAIN queue :
       queue[j].dynID = b + 1 /\ queue[j].prevBBTerminator = b /\ queue[j].waitingForBrDecision
         => \E k \in DOMAIN FTQ' :
              /\ FTQ'[k].dynID = b + 1 /\ FTQ'[k].prevBBTerminator = b
              /\ FTQ'[k].waitingForBrDecision

(* A package leaves the queue for the cache, or its flush begins.          *)
LEMMA AskIs ==
  ASSUME TypeOK, RequestsAgree, NEW queue \in Seq(Package), NEW ops \in Seq(Insn), NEW base \in Nat,
         responses' = <<>>, Cuts(request \o queue, ops, base), IF0(queue)
  PROVE  Kept(queue) /\ Cuts(request' \o responses' \o FTQ', ops, base)
<1> DEFINE waits == queue = <<>> \/ WaitsForBranch(queue[1])
<1> DEFINE flushes == ~waits /\ BeginsFlush(queue[1])
<1> DEFINE asks == ~waits /\ ~flushes /\ Released
<1>1. /\ request' = (IF asks THEN <<queue[1]>> ELSE request)
      /\ FTQ' = (IF asks THEN Tail(queue)
                 ELSE IF flushes THEN [queue EXCEPT ![1].waitingForBrDecision = FALSE]
                 ELSE queue)
      /\ occupied' = (asks \/ ~Released)
  BY DEF IF0
<1>2. /\ request \in Seq(Package) /\ responses \in Seq(Package) /\ occupied \in BOOLEAN
      /\ mispredicted \in SUBSET Nat /\ DOMAIN queue = 1..Len(queue) /\ Len(queue) \in Nat
      /\ (queue = <<>> <=> Len(queue) = 0)
  BY EmptySeq DEF TypeOK
<1>3. /\ Len(request) \in Nat /\ Len(responses) \in Nat
      /\ (request = <<>> <=> Len(request) = 0) /\ (responses = <<>> <=> Len(responses) = 0)
  BY <1>2, EmptySeq
<1>4. Len(request) + Len(responses) = IF occupied THEN 1 ELSE 0
  BY DEF RequestsAgree
<1>5. Released => request = <<>>
  <2>1. CASE responses # <<>>
    <3>1. Len(request) = 0
      BY <1>2, <1>3, <1>4, <2>1
    <3>2. QED
      BY <1>3, <3>1
  <2>2. CASE ~occupied
    <3>1. Len(request) = 0
      BY <1>3, <1>4, <2>2
    <3>2. QED
      BY <1>3, <3>1
  <2>3. QED
    BY <2>1, <2>2 DEF Released
<1>6. ~Released => Len(request) = 1
  <2>1. SUFFICES ASSUME ~Released PROVE Len(request) = 1
    OBVIOUS
  <2>2. occupied /\ Len(responses) = 0
    BY <1>3, <2>1 DEF Released
  <2>3. Len(request) + 0 = 1
    BY <1>4, <2>2
  <2>4. QED
    BY <1>3, <2>3
<1>7. Len(<<>>) = 0 /\ Len(responses') = 0
  OBVIOUS
<1>8. ASSUME ~waits
      PROVE  \A b \in mispredicted \ finished :
               ~(queue[1].prevBBTerminator = b /\ queue[1].waitingForBrDecision)
  <2>1. SUFFICES ASSUME NEW b \in mispredicted \ finished, queue[1].prevBBTerminator = b,
                        queue[1].waitingForBrDecision
                 PROVE  FALSE
    OBVIOUS
  <2>2. b \in Nat /\ NoBranch \notin Nat
    BY <1>2 DEF NoBranch
  <2>3. WaitsForBranch(queue[1])
    BY <2>1, <2>2 DEF WaitsForBranch, MispredictedBefore
  <2>4. QED
    BY <1>8, <2>3
<1> DEFINE CopiedAt(k, j) == /\ queue[j].dynID = FTQ'[k].dynID
                             /\ queue[j].prevBBTerminator = FTQ'[k].prevBBTerminator
<1>9. CASE asks
  <2>1. /\ request' = <<queue[1]>> /\ FTQ' = Tail(queue) /\ occupied' = TRUE /\ queue # <<>>
        /\ request = <<>>
    BY <1>1, <1>5, <1>9
  <2>2. 1 \in 1..Len(queue) /\ queue[1] \in Package
    BY <1>2, <2>1, ElementOfSeq
  <2>3. /\ FTQ' \in Seq(Package) /\ Len(FTQ') = Len(queue) - 1 /\ DOMAIN FTQ' = 1..(Len(queue) - 1)
        /\ \A k \in 1..(Len(queue) - 1) : FTQ'[k] = queue[k + 1]
        /\ \A k \in 1..(Len(queue) - 1) : k + 1 \in 1..Len(queue)
    BY <1>2, <2>1
  <2>4. request' \in Seq(Package) /\ request' # <<>> /\ Len(request') = 1
    BY <2>1, <2>2
  <2>5. RequestsAgree'
    BY <1>7, <2>1, <2>4 DEF RequestsAgree
  <2>6. request' \o responses' \o FTQ' = request \o queue
    <3>1. request \o queue = queue
      BY <2>1
    <3>2. request' \o responses' = request'
      BY <2>4
    <3>3. <<queue[1]>> \o Tail(queue) = queue
      BY <1>2, <2>1, HeadTailProperties
    <3>4. QED
      BY <2>1, <3>1, <3>2, <3>3
  <2>7. \A k \in DOMAIN FTQ' : \E j \in DOMAIN queue : CopiedAt(k, j)
    BY <1>2, <2>3
  <2>8. \A b \in mispredicted \ finished : \A j \in DOMAIN queue :
       queue[j].dynID = b + 1 /\ queue[j].prevBBTerminator = b /\ queue[j].waitingForBrDecision
         => \E k \in DOMAIN FTQ' :
              /\ FTQ'[k].dynID = b + 1 /\ FTQ'[k].prevBBTerminator = b
              /\ FTQ'[k].waitingForBrDecision
    <3>1. SUFFICES ASSUME NEW b \in mispredicted \ finished, NEW j \in DOMAIN queue,
                          queue[j].dynID = b + 1, queue[j].prevBBTerminator = b,
                          queue[j].waitingForBrDecision
                   PROVE  \E k \in DOMAIN FTQ' :
                            /\ FTQ'[k].dynID = b + 1 /\ FTQ'[k].prevBBTerminator = b
                            /\ FTQ'[k].waitingForBrDecision
      OBVIOUS
    <3>2. j # 1
      BY <1>8, <1>9, <3>1
    <3>3. j - 1 \in 1..(Len(queue) - 1) /\ j - 1 + 1 = j
      BY <1>2, <3>2
    <3>4. j - 1 \in DOMAIN FTQ' /\ FTQ'[j - 1] = queue[j]
      BY <2>3, <3>3
    <3>5. QED
      BY <3>1, <3>4
  <2>9. QED
    BY <2>1, <2>3, <2>4, <2>5, <2>6, <2>7, <2>8 DEF Kept
<1>10. CASE ~asks
  <2>1. request' = request /\ occupied' = ~Released /\ request' \in Seq(Package)
    BY <1>1, <1>2, <1>10
  <2>2. RequestsAgree'
    <3>1. CASE Released
      <4>1. Len(request') = 0 /\ ~occupied'
        BY <1>3, <1>5, <2>1, <3>1
      <4>2. QED
        BY <1>7, <4>1 DEF RequestsAgree
    <3>2. CASE ~Released
      <4>1. Len(request') = 1 /\ occupied'
        BY <1>6, <2>1, <3>2
      <4>2. QED
        BY <1>7, <4>1 DEF RequestsAgree
    <3>3. QED
      BY <3>1, <3>2
  <2>3. request' \o responses' \o FTQ' = request \o FTQ'
    BY <1>2, <2>1
  <2>4. CASE ~flushes
    <3>1. FTQ' = queue
      BY <1>1, <1>10, <2>4
    <3>2. QED
      BY <1>2, <2>1, <2>2, <2>3, <3>1 DEF Kept
  <2>5. CASE flushes
    <3>1. FTQ' = [queue EXCEPT ![1].waitingForBrDecision = FALSE]
      BY <1>1, <1>10, <2>5
    <3>2. 1 \in 1..Len(queue)
      BY <1>2, <2>5
    <3>3. /\ FTQ' \in Seq(Package) /\ Len(FTQ') = Len(queue) /\ DOMAIN FTQ' = 1..Len(queue)
          /\ \A k \in 1..Len(queue) : /\ FTQ'[k].dynID = queue[k].dynID /\ FTQ'[k].uid = queue[k].uid
                                      /\ FTQ'[k].prevBBTerminator = queue[k].prevBBTerminator
          /\ \A k \in 1..Len(queue) : k # 1 => FTQ'[k] = queue[k]
      <4>1. \A k \in 1..Len(queue) : queue[k] \in Package
        BY ElementOfSeq
      <4>2. [queue[1] EXCEPT !.waitingForBrDecision = FALSE] \in Package
        BY <3>2, <4>1 DEF Package
      <4> DEFINE p == [queue[1] EXCEPT !.waitingForBrDecision = FALSE]
      <4>3. p.dynID = queue[1].dynID /\ p.uid = queue[1].uid /\ p.prevBBTerminator = queue[1].prevBBTerminator
        BY <3>2, <4>1 DEF Package
      <4>4. FTQ' = [queue EXCEPT ![1] = p]
        BY <3>1
      <4> HIDE DEF p
      <4>5. QED
        BY <1>2, <3>2, <4>1, <4>2, <4>3, <4>4 DEF p
    <3>4. Cuts(request \o FTQ', ops, base)
      <4> DEFINE q == request \o queue
      <4> DEFINE q1 == request \o FTQ'
      <4> DEFINE m == Len(request)
      <4>1. /\ q \in Seq(Package) /\ Len(q) = m + Len(queue)
            /\ \A k \in 1..(m + Len(queue)) : q[k] = IF k <= m THEN request[k] ELSE queue[k - m]
        BY <1>2, ConcatProperties
      <4>2. /\ q1 \in Seq(Package) /\ Len(q1) = m + Len(queue)
            /\ \A k \in 1..(m + Len(queue)) : q1[k] = IF k <= m THEN request[k] ELSE FTQ'[k - m]
        BY <1>2, <3>3, ConcatProperties
      <4> HIDE DEF q, q1, m
      <4>3. \A k \in 1..(m + Len(queue)) : k <= m \/ k - m \in 1..Len(queue)
        BY <1>2, <1>3 DEF m
      <4>4. \A k \in 1..(m + Len(queue)) : q[k].dynID = q1[k].dynID /\ q[k].uid = q1[k].uid
        BY <3>3, <4>1, <4>2, <4>3
      <4>5. Len(q) = Len(q1) /\ \A k \in 1..Len(q) : q[k].dynID = q1[k].dynID /\ q[k].uid = q1[k].uid
        BY <4>1, <4>2, <4>4
      <4>6. Cuts(q, ops, base)
        BY DEF q
      <4>7. Cuts(q1, ops, base)
        BY <4>1, <4>2, <4>5, <4>6, CutsSame
      <4>8. QED
        BY <4>7 DEF q1
    <3>5. \A b \in mispredicted \ finished : \A j \in DOMAIN queue :
       queue[j].dynID = b + 1 /\ queue[j].prevBBTerminator = b /\ queue[j].waitingForBrDecision
         => \E k \in DOMAIN FTQ' :
              /\ FTQ'[k].dynID = b + 1 /\ FTQ'[k].prevBBTerminator = b
              /\ FTQ'[k].waitingForBrDecision
      <4>1. SUFFICES ASSUME NEW b \in mispredicted \ finished, NEW j \in DOMAIN queue,
                            queue[j].dynID = b + 1, queue[j].prevBBTerminator = b,
                            queue[j].waitingForBrDecision
                     PROVE  \E k \in DOMAIN FTQ' :
                              /\ FTQ'[k].dynID = b + 1 /\ FTQ'[k].prevBBTerminator = b
                              /\ FTQ'[k].waitingForBrDecision
        OBVIOUS
      <4>2. j # 1
        BY <1>8, <2>5, <4>1
      <4>3. j \in DOMAIN FTQ' /\ FTQ'[j] = queue[j]
        BY <1>2, <3>3, <4>2
      <4>4. QED
        BY <4>1, <4>3
    <3>6. FTQ' # <<>>
      BY <1>2, <3>2, <3>3, EmptySeq
    <3>7. \A k \in DOMAIN FTQ' : \E j \in DOMAIN queue : CopiedAt(k, j)
      BY <1>2, <3>3
    <3>8. occupied' \in BOOLEAN
      BY <2>1
    <3>9. QED
      BY <2>1, <2>2, <2>3, <3>3, <3>4, <3>5, <3>6, <3>7, <3>8 DEF Kept
  <2>6. QED
    BY <2>4, <2>5
<1>11. QED
  BY <1>9, <1>10

(* The queues behind IF1 and IF0.                                          *)
QueuesAgree(ops, queue) ==
  /\ processedOps' \in Seq(Insn) /\ insnQueue' \in Seq(Insn) /\ responses' \in Seq(Package)
  /\ Kept(queue)
  /\ Cuts(request' \o responses' \o FTQ', processedOps', newFront)
  /\ newFront \in Nat
  /\ newFront + Len(processedOps') = front + Len(ops)
  /\ \A i \in 1..Len(insnQueue') : insnQueue'[i].dynID = taken + i - 1
  /\ \A i \in 1..Len(processedOps') : processedOps'[i].dynID = newFront + i - 1
  /\ processedOps' # <<>> => ops # <<>> /\ processedOps'[Len(processedOps')] = ops[Len(ops)]
  /\ queue # <<>> \/ Len(ops) > PackageSize => processedOps' # <<>>

(* IF1 and IF0 together.                                                   *)
LEMMA QueuesStep ==
  ASSUME TypeOK, RequestsAgree, NumbersAgree,
         NEW ops, ops \in Seq(Insn), NEW queue, queue \in Seq(Package),
         Cuts(request \o responses \o queue, ops, front),
         \A i \in 1..Len(ops) : ops[i].dynID = front + i - 1,
         IF1(ops), IF0(queue)
  PROVE  QueuesAgree(ops, queue)
<1>1. /\ front \in Nat /\ taken \in Nat /\ PackageSize \in Nat /\ Len(ops) \in Nat
      /\ Len(insnQueue) \in Nat /\ insnQueue \in Seq(Insn) /\ request \in Seq(Package)
  BY Constants DEF TypeOK, front
<1>2. PICK n \in 0..Len(ops) :
           /\ n <= PackageSize
           /\ newFront = front + n
           /\ processedOps' = SubSeq(ops, n + 1, Len(ops))
           /\ insnQueue' = insnQueue \o SubSeq(ops, 1, n)
           /\ responses' = <<>>
           /\ Cuts(request \o queue, processedOps', newFront)
  BY AnswerIs
<1> DEFINE moved == SubSeq(ops, 1, n)
<1> DEFINE rest == SubSeq(ops, n + 1, Len(ops))
<1>3. \A i \in 1..Len(ops) : ops[i] \in Insn
  BY ElementOfSeq
<1>4. moved \in Seq(Insn) /\ Len(moved) = n /\ \A i \in 1..n : moved[i] = ops[i]
  <2>1. \A i \in 1..n : i \in 1..Len(ops) /\ 1 + i - 1 = i
    BY <1>1
  <2>2. /\ moved \in Seq(Insn) /\ Len(moved) = IF 1 <= n THEN n - 1 + 1 ELSE 0
        /\ \A i \in 1..(n - 1 + 1) : moved[i] = ops[1 + i - 1]
    BY <1>3, <2>1, SubSeqProperties
  <2>3. n - 1 + 1 = n /\ (IF 1 <= n THEN n - 1 + 1 ELSE 0) = n
    BY <1>1
  <2> HIDE DEF moved
  <2>4. QED
    BY <2>1, <2>2, <2>3
<1>5. /\ rest \in Seq(Insn) /\ Len(rest) = Len(ops) - n
      /\ \A i \in 1..(Len(ops) - n) : rest[i] = ops[n + i]
  <2>1. \A i \in (n + 1)..Len(ops) : i \in 1..Len(ops)
    BY <1>1
  <2>2. \A i \in (n + 1)..Len(ops) : ops[i] \in Insn
    BY <1>3, <2>1
  <2>3. n + 1 \in Int /\ Len(ops) \in Int
    BY <1>1
  <2>4. /\ rest \in Seq(Insn)
        /\ Len(rest) = IF n + 1 <= Len(ops) THEN Len(ops) - (n + 1) + 1 ELSE 0
        /\ \A i \in 1..(Len(ops) - (n + 1) + 1) : rest[i] = ops[n + 1 + i - 1]
    BY <2>2, <2>3, SubSeqProperties
  <2> HIDE DEF rest
  <2>5. /\ Len(ops) - (n + 1) + 1 = Len(ops) - n /\ (~(n + 1 <= Len(ops)) => Len(ops) - n = 0)
        /\ \A i \in 1..(Len(ops) - n) : n + 1 + i - 1 = n + i
    BY <1>1
  <2>6. QED
    BY <2>4, <2>5
<1> HIDE DEF moved, rest
<1>6. processedOps' = rest /\ insnQueue' = insnQueue \o moved
  BY <1>2 DEF moved, rest
<1>7. newFront \in Nat
  BY <1>1, <1>2
<1>8. Kept(queue) /\ Cuts(request' \o responses' \o FTQ', processedOps', newFront)
  BY <1>2, <1>5, <1>6, <1>7, AskIs
<1>9. newFront + Len(processedOps') = front + Len(ops)
  <2>1. Len(processedOps') = Len(ops) - n
    BY <1>5, <1>6
  <2>2. \A l \in Nat : front + n + (l - n) = front + l
    BY <1>1
  <2>3. newFront + Len(processedOps') = front + n + (Len(ops) - n)
    BY <1>2, <2>1
  <2>4. QED
    BY <1>1, <2>2, <2>3
<1>10. /\ insnQueue' \in Seq(Insn) /\ Len(insnQueue') = Len(insnQueue) + n
       /\ \A i \in 1..Len(insnQueue') : insnQueue'[i].dynID = taken + i - 1
  <2> DEFINE q == insnQueue \o moved
  <2> DEFINE m == Len(insnQueue)
  <2>1. /\ q \in Seq(Insn) /\ Len(q) = m + n
        /\ \A i \in 1..(m + n) : q[i] = IF i <= m THEN insnQueue[i] ELSE moved[i - m]
    BY <1>1, <1>4, ConcatProperties
  <2>2. \A i \in 1..m : insnQueue[i].dynID = taken + i - 1
    BY <1>1 DEF NumbersAgree
  <2>3. front = taken + m /\ m \in Nat
    BY <1>1 DEF front
  <2> HIDE DEF q, m
  <2>4. \A i \in 1..(m + n) : q[i].dynID = taken + i - 1
    <3>1. SUFFICES ASSUME NEW i \in 1..(m + n) PROVE q[i].dynID = taken + i - 1
      OBVIOUS
    <3>2. CASE i <= m
      <4>1. i \in 1..m
        BY <3>2, <2>3
      <4>2. QED
        BY <2>1, <2>2, <3>2, <4>1
    <3>3. CASE ~(i <= m)
      <4>1. i - m \in 1..n /\ i - m \in 1..Len(ops)
        BY <1>1, <2>3, <3>3
      <4>2. q[i] = ops[i - m]
        BY <1>4, <2>1, <3>3, <4>1
      <4>3. ops[i - m].dynID = front + (i - m) - 1
        BY <4>1
      <4>4. front + (i - m) - 1 = taken + i - 1
        BY <1>1, <2>3
      <4>5. QED
        BY <4>2, <4>3, <4>4
    <3>4. QED
      BY <3>2, <3>3
  <2>5. QED
    BY <1>6, <2>1, <2>4 DEF q, m
<1>11. \A i \in 1..Len(processedOps') : processedOps'[i].dynID = newFront + i - 1
  <2>1. SUFFICES ASSUME NEW i \in 1..(Len(ops) - n) PROVE rest[i].dynID = front + n + i - 1
    BY <1>2, <1>5, <1>6
  <2>2. n + i \in 1..Len(ops)
    BY <1>1
  <2>3. rest[i] = ops[n + i]
    BY <1>5
  <2> DEFINE j == n + i
  <2> HIDE DEF j
  <2>4. ops[j].dynID = front + j - 1
    BY <2>2 DEF j
  <2>5. front + j - 1 = front + n + i - 1
    BY <1>1 DEF j
  <2>6. QED
    BY <2>3, <2>4, <2>5 DEF j
<1>12. ASSUME processedOps' # <<>>
       PROVE  ops # <<>> /\ processedOps'[Len(processedOps')] = ops[Len(ops)]
  <2>1. Len(rest) # 0
    BY <1>5, <1>6, <1>12, EmptySeq
  <2>2. Len(ops) # 0 /\ Len(ops) - n \in 1..(Len(ops) - n) /\ n + (Len(ops) - n) = Len(ops)
    BY <1>1, <1>5, <2>1
  <2> DEFINE j == Len(ops) - n
  <2>3. rest[j] = ops[n + j] /\ Len(rest) = j
    BY <1>5, <2>2
  <2> HIDE DEF j
  <2>4. n + j = Len(ops)
    BY <2>2 DEF j
  <2>5. ops # <<>>
    BY <2>2
  <2>6. QED
    BY <1>6, <2>3, <2>4, <2>5
<1>13. ASSUME queue # <<>> \/ Len(ops) > PackageSize
       PROVE  processedOps' # <<>>
  <2>1. CASE Len(ops) > PackageSize
    <3>1. Len(rest) # 0
      BY <1>1, <1>2, <1>5, <2>1
    <3>2. QED
      BY <1>6, <3>1
  <2>2. CASE queue # <<>>
    <3> DEFINE p == request' \o responses' \o FTQ'
    <3>1. FTQ' # <<>> \/ request' # <<>>
      BY <1>8, <2>2 DEF Kept
    <3>2. request' \in Seq(Package) /\ FTQ' \in Seq(Package) /\ responses' = <<>>
      BY <1>2, <1>8 DEF Kept
    <3>3. p = request' \o FTQ'
      BY <3>2
    <3> HIDE DEF p
    <3>4. p \in Seq(Package) /\ p # <<>>
      <4>1. p \in Seq(Package)
        BY <3>2, <3>3, ConcatProperties
      <4>2. p # <<>>
        BY <3>1, <3>2, <3>3, ConcatEqualIffEmpty
      <4>3. QED
        BY <4>1, <4>2
    <3>5. Cuts(p, rest, newFront)
      BY <1>6, <1>8 DEF p
    <3>6. rest # <<>>
      <4> DEFINE base == newFront
      <4>1. base \in Nat /\ Cuts(p, rest, base)
        BY <1>7, <3>5
      <4>2. rest \in Seq(Insn) /\ p \in Seq(Package)
        BY <1>5, <3>4
      <4> HIDE DEF base, rest
      <4>3. rest = <<>> <=> p = <<>>
        BY <4>1, <4>2, CutsEmpty
      <4>4. QED
        BY <3>4, <4>3
    <3>7. QED
      BY <1>6, <3>6
  <2>3. QED
    BY <1>13, <2>1, <2>2
<1>14. responses' \in Seq(Package)
  BY <1>2
<1>15. QED
  BY <1>5, <1>6, <1>7, <1>8, <1>9, <1>10, <1>11, <1>12, <1>13, <1>14 DEF QueuesAgree

(* The branch behind which a call starts is the one walked last, or none.  *)
LEMMA BufferedBranch ==
  ASSUME walk \in Walk
  PROVE  /\ Buffered(walk).w.prevBBTerminator \in {NoBranch, walk.prevBBTerminator}
         /\ ~walk.fetchForRet /\ walk.targetBB = None => Buffered(walk).ops = <<>>
<1> DEFINE now == [walk EXCEPT !.fetchForRet = FALSE]
<1> DEFINE top == Last(walk.returnStack)
<1>1. now \in Walk /\ now.prevBBTerminator = walk.prevBBTerminator
  BY DEF Walk
<1>2. CASE walk.fetchForRet /\ walk.returnStack # <<>>
  <2>1. Buffered(walk).w = Returned(now, top)
    BY <1>2 DEF Buffered
  <2> HIDE DEF now, top
  <2>2. Returned(now, top).prevBBTerminator = NoBranch
    BY <1>1 DEF Returned, Walk
  <2>3. QED
    BY <1>2, <2>1, <2>2
<1>3. CASE ~(walk.fetchForRet /\ walk.returnStack # <<>>)
  <2>1. Buffered(walk).w = now
    BY <1>3 DEF Buffered
  <2>2. ~walk.fetchForRet /\ walk.targetBB = None => Buffered(walk).ops = <<>>
    BY DEF Buffered
  <2>3. QED
    BY <1>1, <2>1, <2>2
<1>4. QED
  BY <1>2, <1>3

(* A store into the empty buffer changes the branch of the package of the   *)
(* last run, if it is still there, and nothing else.                       *)
Overwritten(queue) ==
  /\ NextRun = <<>>
  /\ \A k \in DOMAIN FTQ :
       queue[k].prevBBTerminator = IF FTQ[k].dynID = walk.first
                                     THEN Buffered(walk).w.prevBBTerminator
                                     ELSE FTQ[k].prevBBTerminator

LEMMA DanglingIs ==
  ASSUME TypeOK, StackAgrees(walk), WalkAgrees(walk), NEW queue \in Dangling(FTQ)
  PROVE  /\ queue \in Seq(Package) /\ Len(queue) = Len(FTQ) /\ DOMAIN queue = DOMAIN FTQ
         /\ \A k \in DOMAIN FTQ : /\ queue[k].dynID = FTQ[k].dynID /\ queue[k].uid = FTQ[k].uid
                                  /\ queue[k].waitingForBrDecision = FTQ[k].waitingForBrDecision
         /\ queue = FTQ \/ Overwritten(queue)
<1> DEFINE x == Buffered(walk).w.prevBBTerminator
<1> DEFINE p(k) == IF FTQ[k].dynID # walk.first THEN FTQ[k] ELSE [FTQ[k] EXCEPT !.prevBBTerminator = x]
<1>1. FTQ \in Seq(Package) /\ DOMAIN FTQ = 1..Len(FTQ) /\ Len(FTQ) \in Nat /\ walk \in Walk
  BY DEF TypeOK
<1>2. CASE queue = FTQ
  BY <1>1, <1>2
<1>3. CASE queue # FTQ
  <2>1. Buffered(walk).ops = <<>> /\ queue = [k \in DOMAIN FTQ |-> p(k)]
    BY <1>3 DEF Dangling
  <2>2. NextRun = <<>>
    BY <2>1 DEF NextRun
  <2>3. x \in Int
    BY <1>1, BufferedIs DEF Walk
  <2> HIDE DEF x
  <2>4. ASSUME NEW k \in 1..Len(FTQ)
        PROVE  /\ p(k) \in Package /\ p(k).dynID = FTQ[k].dynID /\ p(k).uid = FTQ[k].uid
               /\ p(k).waitingForBrDecision = FTQ[k].waitingForBrDecision
               /\ p(k).prevBBTerminator = IF FTQ[k].dynID = walk.first THEN x ELSE FTQ[k].prevBBTerminator
    <3>1. FTQ[k] \in Package
      BY <1>1, ElementOfSeq
    <3>2. QED
      BY <2>3, <3>1 DEF Package
  <2> HIDE DEF p
  <2>5. queue \in Seq(Package) /\ Len(queue) = Len(FTQ) /\ DOMAIN queue = DOMAIN FTQ
    <3>1. [k \in 1..Len(FTQ) |-> p(k)] \in Seq(Package)
      BY <1>1, <2>4, IsASeq
    <3>2. QED
      BY <1>1, <2>1, <3>1
  <2>6. \A k \in 1..Len(FTQ) : queue[k] = p(k)
    BY <1>1, <2>1
  <2>7. Overwritten(queue)
    BY <1>1, <2>2, <2>4, <2>6 DEF Overwritten, x
  <2>8. QED
    BY <1>1, <2>4, <2>5, <2>6, <2>7
<1>4. QED
  BY <1>2, <1>3

(* No run, no packages.                                                    *)
LEMMA NoPackages == Packages(<<>>) = <<>>
<1>1. {i \in DOMAIN <<>> : (i - 1) % PackageSize = 0} = {}
  OBVIOUS
<1>2. Cardinality({}) = 0
  BY FS_EmptySet
<1>3. 1..0 = {}
  OBVIOUS
<1> DEFINE op(k) == [dynID |-> <<>>[(k - 1) * PackageSize + 1].dynID,
                     uid |-> <<>>[(k - 1) * PackageSize + 1].uid,
                     kind |-> <<>>[(k - 1) * PackageSize + 1].kind,
                     prevBBTerminator |-> <<>>[(k - 1) * PackageSize + 1].prevBBTerminator,
                     waitingForBrDecision |-> TRUE]
<1>4. Packages(<<>>) = [k \in 1..Cardinality({i \in DOMAIN <<>> : (i - 1) % PackageSize = 0}) |-> op(k)]
  BY DEF Packages
<1> HIDE DEF op
<1>5. Packages(<<>>) = [k \in 1..0 |-> op(k)]
  BY <1>1, <1>2, <1>4
<1>6. [k \in 1..0 |-> op(k)] = <<>>
  BY <1>3
<1>7. QED
  BY <1>5, <1>6

-----------------------------------------------------------------------------
(* The cycles of fetch.                                                    *)

(* What waits in FTQ is in processedOps.                                   *)
LEMMA WaitingIs ==
  ASSUME TypeOK, NumbersAgree, Cuts(pending, processedOps, front), NEW k \in DOMAIN FTQ
  PROVE  front <= FTQ[k].dynID /\ FTQ[k].dynID < walk.globalDynID
<1> DEFINE p == request \o responses
<1> DEFINE m == Len(p)
<1>1. /\ p \in Seq(Package) /\ FTQ \in Seq(Package) /\ m \in Nat /\ front \in Nat
      /\ k \in 1..Len(FTQ) /\ Len(FTQ) \in Nat /\ FTQ[k].dynID \in Nat
  <2>1. p \in Seq(Package) /\ FTQ \in Seq(Package)
    BY ConcatProperties DEF TypeOK
  <2>2. taken \in Nat /\ Len(insnQueue) \in Nat
    BY DEF TypeOK
  <2>3. FTQ[k] \in Package
    BY <2>1, ElementOfSeq
  <2>4. QED
    BY <2>1, <2>2, <2>3 DEF front, Package
<1>2. /\ Len(pending) = m + Len(FTQ)
      /\ \A i \in 1..(m + Len(FTQ)) : pending[i] = IF i <= m THEN p[i] ELSE FTQ[i - m]
  BY <1>1, ConcatProperties DEF pending
<1> HIDE DEF p, m
<1> DEFINE i == m + k
<1>3. i \in 1..(m + Len(FTQ)) /\ ~(i <= m) /\ i - m = k
  BY <1>1
<1> HIDE DEF i
<1>4. pending[i] = FTQ[k] /\ i \in 1..Len(pending)
  BY <1>2, <1>3
<1>5. CutsAt(pending[i], processedOps, Start(pending, processedOps, front, i),
             Start(pending, processedOps, front, i + 1))
  BY <1>4 DEF Cuts
<1>6. Start(pending, processedOps, front, i) \in 1..Len(processedOps)
  BY <1>5 DEF CutsAt
<1>7. i # Len(pending) + 1
  BY <1>1, <1>2, <1>3
<1>8. FTQ[k].dynID - front + 1 \in 1..Len(processedOps)
  BY <1>4, <1>6, <1>7 DEF Start
<1>9. walk.globalDynID = front + Len(processedOps) /\ Len(processedOps) \in Nat
  BY DEF NumbersAgree, TypeOK
<1>10. QED
  BY <1>1, <1>8, <1>9

(* The queues with the new run are cut as the old ones.                    *)
LEMMA GrownIs ==
  ASSUME TypeOK, StackAgrees(walk), WalkAgrees(walk), RunsApart, NumbersAgree,
         Cuts(pending, processedOps, front), NEW queue \in Dangling(FTQ)
  PROVE  LET run == Numbered(NextRun)
             ops == processedOps \o run
         IN  /\ ops \in Seq(Insn) /\ queue \o Packages(run) \in Seq(Package)
             /\ Cuts(request \o responses \o (queue \o Packages(run)), ops, front)
             /\ \A i \in 1..Len(ops) : ops[i].dynID = front + i - 1
             /\ walk.globalDynID + Len(NextRun) = front + Len(ops)
             /\ Len(ops) = Len(processedOps) + Len(NextRun)
<1> DEFINE run == Numbered(NextRun)
<1> DEFINE ops == processedOps \o run
<1> DEFINE asked == request \o responses
<1>1. /\ walk \in Walk /\ processedOps \in Seq(Insn) /\ Len(processedOps) \in Nat
      /\ front \in Nat /\ FTQ \in Seq(Package) /\ asked \in Seq(Package)
      /\ pending = asked \o FTQ
      /\ walk.globalDynID = front + Len(processedOps) /\ NextRun \in Seq(StaticOp)
  <2>1. asked \in Seq(Package)
    BY ConcatProperties DEF TypeOK
  <2>2. NextRun \in Seq(StaticOp)
    BY RunIs DEF TypeOK
  <2>3. QED
    BY <2>1, <2>2 DEF TypeOK, pending, front, NumbersAgree
<1>2. /\ run \in Seq(Insn) /\ Len(run) = Len(NextRun) /\ Len(run) \in Nat
      /\ (run = <<>> <=> NextRun = <<>>)
      /\ \A i \in 1..Len(run) : run[i].dynID = walk.globalDynID + i - 1
  <2>1. /\ run \in Seq(Insn) /\ Len(run) = Len(NextRun)
        /\ (run = <<>> <=> NextRun = <<>>)
        /\ \A i \in 1..Len(NextRun) : run[i].dynID = walk.globalDynID + i - 1
    BY <1>1, NumberedIs
  <2> HIDE DEF run
  <2>2. QED
    BY <2>1
<1>3. /\ queue \in Seq(Package) /\ Len(queue) = Len(FTQ)
      /\ \A k \in DOMAIN FTQ : queue[k].dynID = FTQ[k].dynID /\ queue[k].uid = FTQ[k].uid
      /\ NextRun # <<>> => queue = FTQ
  BY <1>1, DanglingIs DEF Overwritten
<1> HIDE DEF run, asked
<1>4. /\ ops \in Seq(Insn) /\ Len(ops) = Len(processedOps) + Len(run)
      /\ \A i \in 1..(Len(processedOps) + Len(run)) :
           ops[i] = IF i <= Len(processedOps) THEN processedOps[i] ELSE run[i - Len(processedOps)]
  <2>1. processedOps \in Seq(Insn) /\ run \in Seq(Insn)
    BY <1>1, <1>2
  <2>2. QED
    BY <2>1, ConcatProperties
<1> DEFINE m == Len(processedOps)
<1>5. \A i \in 1..m : processedOps[i].dynID = front + i - 1
  BY <1>1 DEF NumbersAgree
<1> HIDE DEF ops, m
<1>6. \A i \in 1..Len(ops) : ops[i].dynID = front + i - 1
  <2>1. SUFFICES ASSUME NEW i \in 1..(m + Len(run)) PROVE ops[i].dynID = front + i - 1
    BY <1>4 DEF m
  <2>2. ops[i] = IF i <= m THEN processedOps[i] ELSE run[i - m]
    BY <1>4 DEF m
  <2>3. m \in Nat /\ walk.globalDynID = front + m
    BY <1>1 DEF m
  <2>4. CASE i <= m
    <3>1. i \in 1..m
      BY <2>3, <2>4
    <3>2. QED
      BY <1>5, <2>2, <2>4, <3>1
  <2>5. CASE ~(i <= m)
    <3>1. i - m \in 1..Len(run)
      BY <1>2, <2>3, <2>5
    <3>2. run[i - m].dynID = walk.globalDynID + (i - m) - 1
      BY <1>2, <3>1
    <3>3. walk.globalDynID + (i - m) - 1 = front + i - 1
      <4> DEFINE g == walk.globalDynID
      <4>1. g = front + m
        BY <2>3
      <4> HIDE DEF g
      <4>2. g + (i - m) - 1 = front + i - 1
        BY <1>1, <2>3, <4>1
      <4>3. QED
        BY <4>2 DEF g
    <3>4. QED
      BY <2>2, <2>5, <3>2, <3>3
  <2>6. QED
    BY <2>4, <2>5
<1>7. walk.globalDynID + Len(NextRun) = front + Len(ops)
  BY <1>1, <1>2, <1>4
<1>8. /\ queue \o Packages(run) \in Seq(Package)
      /\ Cuts(asked \o (queue \o Packages(run)), ops, front)
  <2>1. CASE NextRun = <<>>
    <3>1. run = <<>> /\ ops = processedOps
      BY <1>1, <1>2, <2>1 DEF ops
    <3>2. queue \o Packages(run) = queue
      BY <1>3, <3>1, NoPackages
    <3> DEFINE q == asked \o queue
    <3> DEFINE p == asked \o FTQ
    <3> DEFINE n == Len(asked)
    <3>3. /\ q \in Seq(Package) /\ Len(q) = n + Len(FTQ)
          /\ \A i \in 1..(n + Len(FTQ)) : q[i] = IF i <= n THEN asked[i] ELSE queue[i - n]
      <4>1. asked \in Seq(Package) /\ queue \in Seq(Package)
        BY <1>1, <1>3
      <4>2. /\ q \in Seq(Package) /\ Len(q) = n + Len(queue)
            /\ \A i \in 1..(n + Len(queue)) : q[i] = IF i <= n THEN asked[i] ELSE queue[i - n]
        BY <4>1, ConcatProperties
      <4> HIDE DEF q, n
      <4>3. Len(queue) = Len(FTQ)
        BY <1>3
      <4>4. QED
        BY <4>2, <4>3
    <3>4. /\ p \in Seq(Package) /\ Len(p) = n + Len(FTQ)
          /\ \A i \in 1..(n + Len(FTQ)) : p[i] = IF i <= n THEN asked[i] ELSE FTQ[i - n]
      BY <1>1, ConcatProperties
    <3>5. n \in Nat /\ Len(FTQ) \in Nat /\ DOMAIN FTQ = 1..Len(FTQ)
      BY <1>1
    <3>6. Cuts(p, processedOps, front)
      BY <1>1
    <3> HIDE DEF p, q, n
    <3>7. \A i \in 1..(n + Len(FTQ)) : i <= n \/ i - n \in DOMAIN FTQ
      BY <3>5
    <3>8. \A i \in 1..(n + Len(FTQ)) : p[i].dynID = q[i].dynID /\ p[i].uid = q[i].uid
      BY <1>3, <3>3, <3>4, <3>7
    <3>9. Cuts(q, processedOps, front)
      <4>1. Len(p) = Len(q) /\ \A i \in 1..Len(p) : p[i].dynID = q[i].dynID /\ p[i].uid = q[i].uid
        BY <3>3, <3>4, <3>8
      <4>2. QED
        BY <1>1, <3>3, <3>4, <3>6, <4>1, CutsSame
    <3>10. QED
      BY <1>3, <3>1, <3>2, <3>9 DEF q
  <2>2. CASE NextRun # <<>>
    <3>1. queue = FTQ /\ run # <<>>
      BY <1>2, <1>3, <2>2
    <3>2. Packages(run) \in Seq(Package)
      BY <1>2, <3>1, PackagesIs
    <3>3. Follows(run, processedOps, front)
      BY <2>2, RunFollows DEF run
    <3>4. asked \o FTQ \in Seq(Package)
      BY <1>1, ConcatProperties
    <3>5. Cuts((asked \o FTQ) \o Packages(run), processedOps \o run, front)
      BY <1>1, <3>3, <3>4, CutsAppend
    <3>6. (asked \o FTQ) \o Packages(run) = asked \o (FTQ \o Packages(run))
      BY <1>1, <3>2, ConcatAssociative, SMTT(30)
    <3>7. FTQ \o Packages(run) \in Seq(Package)
      BY <1>1, <3>2, ConcatProperties
    <3>8. QED
      BY <3>1, <3>5, <3>6, <3>7 DEF ops
  <2>3. QED
    BY <2>1, <2>2
<1>9. QED
  BY <1>2, <1>4, <1>6, <1>7, <1>8 DEF run, ops, asked

(* The packages behind a call: those that were there, and those of the run, *)
(* the first of which waits for the branch before the run.                 *)
LEMMA EntriesAre ==
  ASSUME TypeOK, StackAgrees(walk), WalkAgrees(walk), NEW queue \in Dangling(FTQ)
  PROVE  LET all == queue \o Packages(Numbered(NextRun))
         IN  /\ \A k \in DOMAIN FTQ : k \in DOMAIN all /\ all[k] = queue[k]
             /\ NextRun = <<>> => DOMAIN all = DOMAIN FTQ
             /\ NextRun # <<>> =>
                  /\ queue = FTQ
                  /\ \E k \in DOMAIN all :
                       /\ all[k].dynID = walk.globalDynID
                       /\ all[k].prevBBTerminator = Buffered(walk).w.prevBBTerminator
                       /\ all[k].waitingForBrDecision
                  /\ \A k \in DOMAIN all \ DOMAIN FTQ : all[k].dynID = walk.globalDynID
                       => all[k].prevBBTerminator = Buffered(walk).w.prevBBTerminator
<1> DEFINE run == Numbered(NextRun)
<1> DEFINE all == queue \o Packages(run)
<1> DEFINE m == Len(queue)
<1>1. /\ walk \in Walk /\ queue \in Seq(Package) /\ Len(queue) = Len(FTQ)
      /\ DOMAIN queue = DOMAIN FTQ /\ DOMAIN queue = 1..m /\ m \in Nat
      /\ NextRun # <<>> => queue = FTQ
  BY DanglingIs DEF TypeOK, Overwritten
<1>2. /\ run \in Seq(Insn) /\ Len(run) = Len(NextRun) /\ (run = <<>> <=> NextRun = <<>>)
      /\ \A i \in 1..Len(NextRun) : run[i].dynID = walk.globalDynID + i - 1
      /\ NextRun # <<>> => run[1].prevBBTerminator = Buffered(walk).w.prevBBTerminator
  BY <1>1, NumberedIs
<1> HIDE DEF run
<1>3. CASE NextRun = <<>>
  <2>1. all = queue
    <3>1. Packages(run) = <<>>
      BY <1>2, <1>3, NoPackages
    <3>2. queue \o <<>> = queue
      BY <1>1
    <3>3. QED
      BY <3>1, <3>2
  <2>2. QED
    BY <1>1, <1>3, <2>1 DEF run
<1>4. CASE NextRun # <<>>
  <2>1. PICK K \in Nat \ {0} :
           /\ Packages(run) \in Seq(Package) /\ Len(Packages(run)) = K
           /\ \A k \in 1..K :
                /\ (k - 1) * PackageSize + 1 \in 1..Len(run)
                /\ Packages(run)[k].dynID = HeadOf(run, k).dynID
                /\ Packages(run)[k].prevBBTerminator = HeadOf(run, k).prevBBTerminator
                /\ Packages(run)[k].waitingForBrDecision
    <3>1. \E K \in Nat \ {0} :
           /\ (K - 1) * PackageSize < Len(run) /\ Len(run) <= K * PackageSize
           /\ Packages(run) \in Seq(Package) /\ Len(Packages(run)) = K
           /\ \A k \in 1..K :
                /\ (k - 1) * PackageSize + 1 \in 1..Len(run)
                /\ Packages(run)[k].dynID = HeadOf(run, k).dynID
                /\ Packages(run)[k].uid = HeadOf(run, k).uid
                /\ Packages(run)[k].prevBBTerminator = HeadOf(run, k).prevBBTerminator
                /\ Packages(run)[k].waitingForBrDecision
      BY <1>2, <1>4, PackagesIs
    <3>2. QED
      BY <3>1
  <2> DEFINE p == Packages(run)
  <2>2. /\ all \in Seq(Package) /\ Len(all) = m + K /\ DOMAIN all = 1..(m + K)
        /\ \A k \in 1..(m + K) : all[k] = IF k <= m THEN queue[k] ELSE p[k - m]
    <3>1. queue \in Seq(Package) /\ p \in Seq(Package) /\ Len(p) = K
      BY <1>1, <2>1
    <3>2. /\ all \in Seq(Package) /\ Len(all) = m + K
          /\ \A k \in 1..(m + K) : all[k] = IF k <= m THEN queue[k] ELSE p[k - m]
      BY <3>1, ConcatProperties
    <3> HIDE DEF all, m
    <3>3. DOMAIN all = 1..Len(all)
      BY <3>2
    <3>4. QED
      BY <3>2, <3>3
  <2> HIDE DEF all, m, p
  <2>3. \A k \in DOMAIN FTQ : k \in DOMAIN all /\ all[k] = queue[k]
    <3>1. \A k \in 1..m : k \in 1..(m + K) /\ k <= m
      BY <1>1, <2>1
    <3>2. QED
      BY <1>1, <2>2, <3>1
  <2>4. walk.globalDynID \in Nat /\ PackageSize \in Nat \ {0}
    BY <1>1, Constants DEF Walk
  <2>5. 1 \in 1..K /\ (1 - 1) * PackageSize + 1 = 1
    BY <2>1, <2>4
  <2>6. p[1].prevBBTerminator = Buffered(walk).w.prevBBTerminator /\ p[1].waitingForBrDecision
        /\ p[1].dynID = run[1].dynID /\ 1 \in 1..Len(run)
    BY <1>2, <1>4, <2>1, <2>5 DEF HeadOf, p
  <2>7. run[1].dynID = walk.globalDynID
    <3>1. run[1].dynID = walk.globalDynID + 1 - 1
      BY <1>2, <2>6
    <3>2. QED
      BY <2>4, <3>1
  <2>8. m + 1 \in DOMAIN all /\ all[m + 1] = p[1]
    <3> DEFINE k == m + 1
    <3>1. k \in 1..(m + K) /\ ~(k <= m) /\ k - m = 1
      BY <1>1, <2>1
    <3> HIDE DEF k
    <3>2. k \in DOMAIN all /\ all[k] = p[1]
      BY <2>2, <3>1
    <3>3. QED
      BY <3>2 DEF k
  <2>9. ASSUME NEW k \in DOMAIN all \ DOMAIN FTQ, all[k].dynID = walk.globalDynID
        PROVE  all[k].prevBBTerminator = Buffered(walk).w.prevBBTerminator
    <3>1. k \in 1..(m + K) /\ ~(k <= m)
      BY <1>1, <2>2, <2>9
    <3>2. k - m \in 1..K
      BY <1>1, <2>1, <3>1
    <3> DEFINE j == k - m
    <3>3. all[k] = p[j]
      BY <2>2, <3>1
    <3>4. j \in 1..K
      BY <3>2
    <3> HIDE DEF j
    <3> DEFINE d == (j - 1) * PackageSize
    <3>5. d + 1 \in 1..Len(run) /\ p[j].dynID = run[d + 1].dynID
      BY <2>1, <3>4 DEF HeadOf, p
    <3>6. d \in Nat /\ (d = 0 => j = 1)
      <4>1. \A a \in Nat, b \in Nat \ {0} : a * b \in Nat /\ (a * b = 0 => a = 0)
        OBVIOUS
      <4>2. j - 1 \in Nat /\ (j - 1 = 0 => j = 1)
        BY <2>1, <3>4
      <4>3. QED
        BY <2>4, <4>1, <4>2
    <3> HIDE DEF d
    <3>7. run[d + 1].dynID = walk.globalDynID + (d + 1) - 1
      BY <1>2, <3>5
    <3>8. d = 0
      <4> DEFINE g == walk.globalDynID
      <4>1. g = g + (d + 1) - 1 /\ g \in Nat
        BY <2>4, <2>9, <3>3, <3>5, <3>7
      <4> HIDE DEF g
      <4>2. QED
        BY <3>6, <4>1
    <3>9. QED
      BY <2>6, <3>3, <3>6, <3>8
  <2>10. \E k \in DOMAIN all : /\ all[k].dynID = walk.globalDynID
                               /\ all[k].prevBBTerminator = Buffered(walk).w.prevBBTerminator
                               /\ all[k].waitingForBrDecision
    BY <2>6, <2>7, <2>8
  <2>11. QED
    BY <1>1, <1>4, <2>3, <2>9, <2>10 DEF all, run
<1>5. QED
  BY <1>3, <1>4

(* Both kinds of cycles leave the queues in order.                         *)
LEMMA QueuesKept ==
  ASSUME NEW ops, NEW queue, QueuesAgree(ops, queue), taken' = taken,
         taken \in Nat, walk' \in Walk, mispredicted' \in SUBSET Nat,
         walk'.globalDynID = front + Len(ops), LastApart(ops, walk')
  PROVE  /\ TypeOK' /\ RunsApart' /\ NumbersAgree' /\ RequestsAgree'
         /\ Cuts(pending, processedOps, front)'
<1>1. front' = newFront
  BY DEF front, newFront
<1>2. /\ processedOps' \in Seq(Insn) /\ insnQueue' \in Seq(Insn) /\ responses' \in Seq(Package)
      /\ Kept(queue)
      /\ Cuts(request' \o responses' \o FTQ', processedOps', newFront)
      /\ newFront + Len(processedOps') = front + Len(ops)
      /\ \A i \in 1..Len(insnQueue') : insnQueue'[i].dynID = taken + i - 1
      /\ \A i \in 1..Len(processedOps') : processedOps'[i].dynID = newFront + i - 1
      /\ processedOps' # <<>> => ops # <<>> /\ processedOps'[Len(processedOps')] = ops[Len(ops)]
  BY DEF QueuesAgree
<1>3. TypeOK'
  BY <1>2 DEF TypeOK, Kept
<1>4. RunsApart'
  BY <1>2 DEF RunsApart, LastApart
<1>5. NumbersAgree'
  <2>1. /\ DOMAIN insnQueue' = 1..Len(insnQueue') /\ DOMAIN processedOps' = 1..Len(processedOps')
    BY <1>2
  <2>2. /\ \A i \in DOMAIN insnQueue' : insnQueue'[i].dynID = taken' + i - 1
        /\ \A i \in DOMAIN processedOps' : processedOps'[i].dynID = front' + i - 1
    BY <1>1, <1>2, <2>1
  <2>3. walk'.globalDynID = front' + Len(processedOps')
    BY <1>1, <1>2
  <2>4. QED
    BY <2>2, <2>3 DEF NumbersAgree
<1>6. Cuts(pending, processedOps, front)'
  BY <1>1, <1>2 DEF pending
<1>7. QED
  BY <1>2, <1>3, <1>4, <1>5, <1>6 DEF Kept

(* A branch that waits in the queue waits behind the cycle.                *)
LEMMA HeldKept ==
  ASSUME NEW queue, Kept(queue), NEW b, b \in mispredicted \ finished, NEW k, k \in DOMAIN queue,
         queue[k].dynID = b + 1, queue[k].prevBBTerminator = b, queue[k].waitingForBrDecision
  PROVE  Held(b)'
<1>1. \E j \in DOMAIN FTQ' : /\ FTQ'[j].dynID = b + 1 /\ FTQ'[j].prevBBTerminator = b
                             /\ FTQ'[j].waitingForBrDecision
  BY DEF Kept
<1>2. QED
  BY <1>1 DEF Held, HeldAt

(* Each action keeps the inductive invariant.                              *)
LEMMA RunStep ==
  ASSUME IInv, FetchRun
  PROVE  IInv'
<1> DEFINE run == Numbered(NextRun)
<1> DEFINE ops == processedOps \o run
<1> DEFINE x == Buffered(walk).w.prevBBTerminator
<1>1. /\ TypeOK /\ StackAgrees(walk) /\ WalkAgrees(walk) /\ RunsApart /\ NumbersAgree
      /\ RequestsAgree /\ Cuts(pending, processedOps, front) /\ FollowsBranch
      /\ BranchesHeld /\ EmptyAtEnd /\ PhisNotMisled
  BY DEF IInv
<1>2. /\ walk \in Walk /\ taken \in Nat /\ mispredicted \in SUBSET Nat /\ front \in Nat
      /\ processedOps \in Seq(Insn) /\ walk.globalDynID \in Nat
  BY <1>1 DEF TypeOK, front, Walk
<1>3. PICK to \in Targets(NextRun), queue \in Dangling(FTQ), wrong \in BOOLEAN :
         /\ walk' = AfterRun(NextRun, to)
         /\ wrong => run # <<>> /\ Last(run).kind = "br" /\ ~walk'.abnormalExit
         /\ mispredicted' = IF wrong THEN mispredicted \cup {Last(run).dynID} ELSE mispredicted
         /\ phis' = IF \E i \in DOMAIN run : run[i].kind = "phi"
                    THEN {[given |-> Buffered(walk).w.previousBB, actual |-> Buffered(walk).w.from]}
                    ELSE {}
         /\ IF1(ops) /\ IF0(queue \o Packages(run))
  BY DEF FetchRun
<1> DEFINE all == queue \o Packages(run)
<1>4. taken' = taken /\ finished' = finished
  BY DEF FetchRun
<1>5. /\ ops \in Seq(Insn) /\ all \in Seq(Package)
      /\ Cuts(request \o responses \o all, ops, front)
      /\ \A i \in 1..Len(ops) : ops[i].dynID = front + i - 1
      /\ walk.globalDynID + Len(NextRun) = front + Len(ops)
      /\ Len(ops) = Len(processedOps) + Len(NextRun)
  BY <1>1, GrownIs
<1>6. LastApart(ops, walk')
  BY <1>1, <1>3, RunEnds
<1>7. /\ run \in Seq(Insn) /\ Len(run) = Len(NextRun) /\ (run = <<>> <=> NextRun = <<>>)
      /\ \A i \in 1..Len(NextRun) : run[i].dynID = walk.globalDynID + i - 1
                                    /\ run[i].kind = NextRun[i].kind
  BY <1>1, <1>2, NumberedIs
<1>8. /\ walk' \in Walk /\ StackAgrees(walk') /\ WalkAgrees(walk')
      /\ walk'.globalDynID = walk.globalDynID + Len(NextRun)
      /\ NextRun = <<>> =>
           /\ walk'.first = walk.first /\ walk'.prevBBTerminator = x
           /\ ~walk'.fetchForRet /\ walk'.targetBB = None
      /\ NextRun # <<>> =>
           /\ walk'.first = walk.globalDynID
           /\ \/ walk'.prevBBTerminator \in {NoBranch, x}
              \/ walk'.prevBBTerminator = walk'.globalDynID - 1 /\ ~walk'.fetchForRet
           /\ Last(NextRun).kind = "br" /\ ~walk'.abnormalExit =>
                walk'.prevBBTerminator = walk'.globalDynID - 1 /\ ~walk'.fetchForRet
  BY <1>1, <1>2, <1>3, AfterRunIs
<1>9. /\ \A k \in DOMAIN FTQ : k \in DOMAIN all /\ all[k] = queue[k]
      /\ NextRun = <<>> => DOMAIN all = DOMAIN FTQ
      /\ NextRun # <<>> =>
           /\ queue = FTQ
           /\ \E k \in DOMAIN all : /\ all[k].dynID = walk.globalDynID
                                    /\ all[k].prevBBTerminator = x
                                    /\ all[k].waitingForBrDecision
           /\ \A k \in DOMAIN all \ DOMAIN FTQ : all[k].dynID = walk.globalDynID
                => all[k].prevBBTerminator = x
  BY <1>1, EntriesAre
<1>10. /\ \A k \in DOMAIN FTQ : /\ queue[k].dynID = FTQ[k].dynID
                                /\ queue[k].waitingForBrDecision = FTQ[k].waitingForBrDecision
       /\ queue = FTQ \/ Overwritten(queue)
  BY <1>1, DanglingIs
<1>11. x \in {NoBranch, walk.prevBBTerminator} /\ x \in Int
  BY <1>1, <1>2, BufferedBranch, BufferedIs DEF Walk
<1>a. IF1(ops) /\ IF0(all)
  BY <1>3
<1> HIDE DEF run, ops, all, x
<1>12. QueuesAgree(ops, all)
  BY <1>1, <1>5, <1>a, QueuesStep
<1>13. mispredicted' \in SUBSET Nat /\ \A b \in mispredicted' : b \in mispredicted \/
          /\ NextRun # <<>> /\ Last(NextRun).kind = "br" /\ ~walk'.abnormalExit
          /\ b = walk'.globalDynID - 1
  <2>1. CASE ~wrong
    BY <1>2, <1>3, <2>1
  <2>2. CASE wrong
    <3> DEFINE n == Len(NextRun)
    <3>1. run # <<>> /\ NextRun # <<>> /\ n \in Nat \ {0} /\ n \in 1..n
      <4>1. run # <<>> /\ NextRun # <<>>
        BY <1>3, <1>7, <2>2 DEF run
      <4>2. n \in Nat \ {0}
        BY <1>7, <4>1, EmptySeq
      <4>3. QED
        BY <4>1, <4>2
    <3>2. Last(run).dynID = walk.globalDynID + n - 1 /\ Last(run).kind = Last(NextRun).kind
      BY <1>7, <3>1 DEF Last
    <3>3. walk.globalDynID + n - 1 = walk'.globalDynID - 1
      <4>1. walk'.globalDynID = walk.globalDynID + n
        BY <1>8
      <4> DEFINE g == walk'.globalDynID
      <4>2. g = walk.globalDynID + n
        BY <4>1
      <4> HIDE DEF g
      <4>3. walk.globalDynID + n - 1 = g - 1
        BY <1>2, <3>1, <4>2
      <4>4. QED
        BY <4>3 DEF g
    <3>4. mispredicted' = mispredicted \cup {Last(run).dynID}
      BY <1>3, <2>2 DEF run
    <3>5. Last(run).kind = "br" /\ ~walk'.abnormalExit
      BY <1>3, <2>2 DEF run
    <3>6. Last(run).dynID \in Nat
      BY <1>2, <3>1, <3>2
    <3>7. QED
      BY <1>2, <3>1, <3>2, <3>3, <3>4, <3>5, <3>6
  <2>3. QED
    BY <2>1, <2>2
<1>14. walk'.globalDynID = front + Len(ops)
  BY <1>5, <1>8
<1>15. /\ TypeOK' /\ RunsApart' /\ NumbersAgree' /\ RequestsAgree'
       /\ Cuts(pending, processedOps, front)'
  BY <1>2, <1>4, <1>6, <1>8, <1>12, <1>13, <1>14, QueuesKept
<1>16. Kept(all) /\ (all # <<>> => processedOps' # <<>>)
  BY <1>12 DEF QueuesAgree
<1>17. StackAgrees(walk)' /\ WalkAgrees(walk)'
  BY <1>8
<1>18. FollowsBranch'
  <2>1. SUFFICES ASSUME NEW k \in DOMAIN FTQ', FTQ'[k].dynID = walk'.first
                 PROVE  \/ walk'.prevBBTerminator \in {NoBranch, FTQ'[k].prevBBTerminator}
                        \/ walk'.prevBBTerminator >= walk'.first /\ ~walk'.fetchForRet
    BY DEF FollowsBranch
  <2>2. PICK j \in DOMAIN all : /\ all[j].dynID = walk'.first
                                /\ all[j].prevBBTerminator = FTQ'[k].prevBBTerminator
    BY <1>16, <2>1 DEF Kept
  <2>3. CASE NextRun # <<>>
    <3>1. all[j].prevBBTerminator = x
      <4>1. CASE j \in DOMAIN FTQ
        <5>1. FTQ[j].dynID = walk.globalDynID
          BY <1>8, <1>9, <2>2, <2>3, <4>1
        <5>2. FTQ[j].dynID < walk.globalDynID
          BY <1>1, <4>1, WaitingIs
        <5>3. QED
          BY <1>2, <5>1, <5>2
      <4>2. CASE j \notin DOMAIN FTQ
        BY <1>8, <1>9, <2>2, <2>3, <4>2
      <4>3. QED
        BY <4>1, <4>2
    <3>2. CASE walk'.prevBBTerminator \in {NoBranch, x}
      BY <2>2, <3>1, <3>2
    <3>3. CASE walk'.prevBBTerminator = walk'.globalDynID - 1 /\ ~walk'.fetchForRet
      <4>1. Len(NextRun) \in Nat \ {0}
        BY <1>7, <2>3, EmptySeq
      <4>2. walk'.globalDynID - 1 >= walk.globalDynID
        BY <1>2, <1>8, <4>1
      <4>3. QED
        BY <1>8, <2>3, <3>3, <4>2
    <3>4. QED
      BY <1>8, <2>3, <3>2, <3>3
  <2>4. CASE NextRun = <<>>
    <3>1. j \in DOMAIN FTQ /\ all[j] = queue[j] /\ FTQ[j].dynID = walk.first
      BY <1>8, <1>9, <1>10, <2>2, <2>4
    <3>2. walk'.prevBBTerminator = x /\ ~walk'.fetchForRet /\ walk'.first = walk.first
      BY <1>8, <2>4
    <3>3. CASE queue # FTQ
      <4>1. queue[j].prevBBTerminator = x
        BY <1>10, <3>1, <3>3 DEF Overwritten, x
      <4>2. QED
        BY <2>2, <3>1, <3>2, <4>1
    <3>4. CASE queue = FTQ
      <4>1. \/ walk.prevBBTerminator \in {NoBranch, FTQ[j].prevBBTerminator}
            \/ walk.prevBBTerminator >= walk.first /\ ~walk.fetchForRet
        BY <1>1, <3>1 DEF FollowsBranch
      <4>2. QED
        BY <1>11, <2>2, <3>1, <3>2, <3>4, <4>1
    <3>5. QED
      BY <3>3, <3>4
  <2>5. QED
    BY <2>3, <2>4
<1>19. BranchesHeld'
  <2>1. SUFFICES ASSUME NEW b \in mispredicted' \ finished PROVE Held(b)'
    BY <1>4 DEF BranchesHeld
  <2>2. CASE b \notin mispredicted
    <3>1. b = walk'.globalDynID - 1 /\ walk'.prevBBTerminator = b /\ ~walk'.fetchForRet
      BY <1>8, <1>13, <2>2
    <3>2. b + 1 = walk'.globalDynID
      BY <1>8, <3>1 DEF Walk
    <3>3. QED
      BY <3>1, <3>2 DEF Held
  <2>3. CASE b \in mispredicted
    <3>1. b \in mispredicted \ finished /\ b \in Nat /\ b # NoBranch
      BY <1>2, <2>1, <2>3 DEF NoBranch
    <3>2. Held(b)
      BY <1>1, <3>1 DEF BranchesHeld
    <3>3. CASE b + 1 = walk.globalDynID /\ walk.prevBBTerminator = b /\ ~walk.fetchForRet
      <4>1. x = b
        BY <1>1, <1>2, <3>3, BufferedIs DEF x
      <4>2. CASE NextRun = <<>>
        <5>1. Len(NextRun) = 0
          BY <4>2
        <5>2. b + 1 = walk'.globalDynID
          BY <1>2, <1>8, <3>3, <5>1
        <5>3. QED
          BY <1>8, <4>1, <4>2, <5>2 DEF Held
      <4>3. CASE NextRun # <<>>
        <5>1. PICK k \in DOMAIN all : /\ all[k].dynID = walk.globalDynID
                                      /\ all[k].prevBBTerminator = x
                                      /\ all[k].waitingForBrDecision
          BY <1>9, <4>3
        <5>2. QED
          BY <1>16, <3>1, <3>3, <4>1, <5>1, HeldKept
      <4>4. QED
        BY <4>2, <4>3
    <3>4. ASSUME NEW k \in DOMAIN FTQ, HeldAt(b, k)
          PROVE  Held(b)'
      <4>1. /\ FTQ[k].dynID = b + 1 /\ FTQ[k].prevBBTerminator = b /\ FTQ[k].waitingForBrDecision
            /\ k \in DOMAIN all /\ all[k] = queue[k] /\ queue[k].dynID = b + 1
            /\ queue[k].waitingForBrDecision
        BY <1>9, <1>10, <3>4 DEF HeldAt
      <4>2. CASE queue[k].prevBBTerminator = b
        BY <1>16, <3>1, <4>1, <4>2, HeldKept
      <4>3. CASE queue[k].prevBBTerminator # b
        <5>1. NextRun = <<>> /\ walk.first = b + 1 /\ x # b
          BY <1>10, <4>1, <4>3 DEF Overwritten, x
        <5>2. x # NoBranch
          BY <3>1, <4>1, <4>3, <5>1 DEF Dangling, x
        <5>3. x = walk.prevBBTerminator
          BY <1>11, <5>2
        <5>4. x >= walk.first
          BY <1>1, <4>1, <5>1, <5>2, <5>3 DEF FollowsBranch
        <5>5. x > b
          BY <1>11, <3>1, <5>1, <5>4
        <5>6. /\ walk'.first = b + 1 /\ walk'.prevBBTerminator = x /\ walk'.targetBB = None
              /\ ~walk'.fetchForRet
          BY <1>8, <5>1
        <5>7. MayBeOverwritten(b)'
          BY <5>5, <5>6 DEF MayBeOverwritten
        <5>8. QED
          BY <5>7 DEF Held
      <4>4. QED
        BY <4>2, <4>3
    <3>5. CASE MayBeOverwritten(b)
      <4>1. /\ walk.first = b + 1 /\ walk.prevBBTerminator > b /\ walk.targetBB = None
            /\ ~walk.fetchForRet
        BY <3>5 DEF MayBeOverwritten
      <4>2. NextRun = <<>>
        BY <1>2, <4>1, BufferedBranch DEF NextRun
      <4>3. x = walk.prevBBTerminator
        BY <1>1, <1>2, <4>1, BufferedIs DEF x
      <4>4. MayBeOverwritten(b)'
        BY <1>8, <4>1, <4>2, <4>3 DEF MayBeOverwritten
      <4>5. QED
        BY <4>4 DEF Held
    <3>6. QED
      BY <3>2, <3>3, <3>4, <3>5 DEF Held
  <2>4. QED
    BY <2>2, <2>3
<1>20. EmptyAtEnd'
  <2>1. SUFFICES ASSUME processedOps' = <<>> PROVE NextRun' = <<>>
    BY DEF EmptyAtEnd
  <2>2. NextRun = <<>>
    <3>1. SUFFICES ASSUME NextRun # <<>> PROVE FALSE
      OBVIOUS
    <3>2. all # <<>>
      BY <1>9, <3>1
    <3>3. QED
      BY <1>16, <2>1, <3>2
  <2>3. ~walk'.fetchForRet /\ walk'.targetBB = None
    BY <1>8, <2>2
  <2>4. Buffered(walk').ops = <<>>
    BY <2>3 DEF Buffered
  <2>5. QED
    BY <2>4 DEF NextRun
<1>21. PhisNotMisled'
  <2>1. SUFFICES ASSUME NEW p \in phis' PROVE p.given \in {p.actual, None}
    BY DEF PhisNotMisled
  <2>2. p = [given |-> Buffered(walk).w.previousBB, actual |-> Buffered(walk).w.from] /\ run # <<>>
    BY <1>3, <2>1 DEF run
  <2>3. Buffered(walk).ops # <<>> /\ ~walk.abnormalExit
    BY <1>7, <2>2 DEF NextRun
  <2>4. Buffered(walk).w.previousBB \in {Buffered(walk).w.from, None}
    BY <1>1, <1>2, <2>3, BufferedIs
  <2>5. QED
    BY <2>2, <2>4
<1>22. QED
  BY <1>15, <1>17, <1>18, <1>19, <1>20, <1>21 DEF IInv

LEMMA OldStep ==
  ASSUME IInv, FetchOld
  PROVE  IInv'
<1>1. /\ TypeOK /\ StackAgrees(walk) /\ WalkAgrees(walk) /\ RunsApart /\ NumbersAgree
      /\ RequestsAgree /\ Cuts(pending, processedOps, front) /\ FollowsBranch
      /\ BranchesHeld /\ EmptyAtEnd /\ PhisNotMisled
  BY DEF IInv
<1>2. /\ walk \in Walk /\ taken \in Nat /\ mispredicted \in SUBSET Nat /\ front \in Nat
      /\ processedOps \in Seq(Insn) /\ FTQ \in Seq(Package)
      /\ Len(processedOps) \in Nat /\ DOMAIN processedOps = 1..Len(processedOps)
      /\ walk.globalDynID = front + Len(processedOps)
  BY <1>1 DEF TypeOK, front, NumbersAgree
<1>3. /\ IF1(processedOps) /\ IF0(FTQ) /\ ~mayPreprocess
      /\ walk' = walk /\ taken' = taken /\ mispredicted' = mispredicted /\ finished' = finished
      /\ phis' = phis
  BY DEF FetchOld
<1>4. QueuesAgree(processedOps, FTQ)
  <2>1. \A i \in 1..Len(processedOps) : processedOps[i].dynID = front + i - 1
    BY <1>1, <1>2 DEF NumbersAgree
  <2>2. Cuts(request \o responses \o FTQ, processedOps, front)
    BY <1>1 DEF pending
  <2>3. QED
    BY <1>1, <1>2, <1>3, <2>1, <2>2, QueuesStep
<1>5. LastApart(processedOps, walk')
  BY <1>1, <1>3 DEF RunsApart, LastApart
<1>6. /\ TypeOK' /\ RunsApart' /\ NumbersAgree' /\ RequestsAgree'
      /\ Cuts(pending, processedOps, front)'
  <2>1. walk' \in Walk /\ mispredicted' \in SUBSET Nat /\ walk'.globalDynID = front + Len(processedOps)
    BY <1>2, <1>3
  <2>2. QED
    BY <1>2, <1>3, <1>4, <1>5, <2>1, QueuesKept
<1>7. Kept(FTQ) /\ (FTQ # <<>> \/ Len(processedOps) > PackageSize => processedOps' # <<>>)
  BY <1>4 DEF QueuesAgree
<1>8. FollowsBranch'
  BY <1>1, <1>3, <1>7 DEF FollowsBranch, Kept
<1>9. BranchesHeld'
  <2>1. SUFFICES ASSUME NEW b \in mispredicted \ finished PROVE Held(b)'
    BY <1>3 DEF BranchesHeld
  <2>2. CASE \E k \in DOMAIN FTQ : HeldAt(b, k)
    BY <1>7, <2>2, HeldKept DEF HeldAt
  <2>3. CASE ~\E k \in DOMAIN FTQ : HeldAt(b, k)
    BY <1>1, <1>3, <2>3 DEF BranchesHeld, Held, MayBeOverwritten
  <2>4. QED
    BY <2>2, <2>3
<1>10. processedOps' # <<>>
  <2>1. CASE FTQ # <<>>
    BY <1>7, <2>1
  <2>2. CASE FTQ = <<>>
    <3>1. Len(FTQ) = 0
      BY <2>2
    <3>2. ~(Len(processedOps) < InsnQueueMaxSize)
      BY <1>3, <3>1, Constants DEF mayPreprocess
    <3>3. Len(processedOps) > PackageSize
      BY <1>2, <3>2, Constants
    <3>4. QED
      BY <1>7, <3>3
  <2>3. QED
    BY <2>1, <2>2
<1>11. QED
  BY <1>1, <1>3, <1>6, <1>8, <1>9, <1>10 DEF IInv, EmptyAtEnd, PhisNotMisled

-----------------------------------------------------------------------------
(* The cache and the back end.                                             *)

LEMMA RespondStep ==
  ASSUME IInv, CacheRespond
  PROVE  IInv'
<1>1. /\ TypeOK /\ RequestsAgree /\ Cuts(pending, processedOps, front)
  BY DEF IInv
<1>2. /\ request # <<>> /\ request' = <<>> /\ responses' = request
      /\ walk' = walk /\ processedOps' = processedOps /\ FTQ' = FTQ /\ insnQueue' = insnQueue
      /\ occupied' = occupied /\ taken' = taken /\ mispredicted' = mispredicted
      /\ finished' = finished /\ phis' = phis
  BY DEF CacheRespond
<1>3. /\ request \in Seq(Package) /\ responses \in Seq(Package)
      /\ Len(request) \in Nat \ {0} /\ Len(responses) \in Nat
  BY <1>1, <1>2, EmptySeq DEF TypeOK
<1>4. responses = <<>> /\ Len(request) = 1 /\ occupied
  <2>1. Len(request) + Len(responses) = IF occupied THEN 1 ELSE 0
    BY <1>1 DEF RequestsAgree
  <2>a. \A a \in Nat \ {0}, b \in Nat : a + b # 0
    OBVIOUS
  <2>b. \A a \in Nat \ {0}, b \in Nat : a + b = 1 => a = 1 /\ b = 0
    OBVIOUS
  <2>c. occupied
    BY <1>3, <2>1, <2>a
  <2>3. occupied /\ Len(request) = 1 /\ Len(responses) = 0
    BY <1>3, <2>1, <2>b, <2>c
  <2>4. QED
    BY <1>3, <2>3, EmptySeq
<1>5. pending' = pending /\ front' = front
  <2>1. request \o responses = request /\ request' \o responses' = request
    BY <1>2, <1>3, <1>4
  <2>2. QED
    BY <1>2, <2>1 DEF pending, front
<1>6. RequestsAgree'
  <2>1. Len(request') = 0 /\ Len(responses') = 1
    BY <1>2, <1>4
  <2>2. QED
    BY <1>2, <1>4, <2>1 DEF RequestsAgree
<1>7. TypeOK'
  BY <1>1, <1>2, <1>3 DEF TypeOK
<1>8. NextRun' = NextRun
  BY <1>2 DEF NextRun
<1>9. Cuts(pending, processedOps, front)'
  BY <1>1, <1>2, <1>5
<1>10. RunsApart' /\ FollowsBranch' /\ PhisNotMisled' /\ StackAgrees(walk)' /\ WalkAgrees(walk)'
  BY <1>2 DEF IInv, RunsApart, FollowsBranch, PhisNotMisled
<1>11. NumbersAgree' /\ EmptyAtEnd'
  BY <1>2, <1>5, <1>8 DEF IInv, NumbersAgree, EmptyAtEnd
<1>12. BranchesHeld'
  BY <1>2 DEF IInv, BranchesHeld, Held, HeldAt, MayBeOverwritten
<1>13. QED
  BY <1>6, <1>7, <1>9, <1>10, <1>11, <1>12 DEF IInv

LEMMA DispatchStep ==
  ASSUME IInv, Dispatch
  PROVE  IInv'
<1>1. TypeOK /\ NumbersAgree /\ Cuts(pending, processedOps, front)
  BY DEF IInv
<1>2. /\ insnQueue # <<>> /\ insnQueue' = Tail(insnQueue) /\ taken' = taken + 1
      /\ walk' = walk /\ processedOps' = processedOps /\ FTQ' = FTQ /\ request' = request
      /\ responses' = responses /\ occupied' = occupied /\ mispredicted' = mispredicted
      /\ finished' = finished /\ phis' = phis
  BY DEF Dispatch
<1>3. /\ insnQueue \in Seq(Insn) /\ Len(insnQueue) \in Nat \ {0} /\ taken \in Nat
      /\ DOMAIN insnQueue = 1..Len(insnQueue)
  BY <1>1, <1>2, EmptySeq DEF TypeOK
<1>4. /\ insnQueue' \in Seq(Insn) /\ Len(insnQueue') = Len(insnQueue) - 1
      /\ DOMAIN insnQueue' = 1..(Len(insnQueue) - 1)
      /\ \A i \in 1..(Len(insnQueue) - 1) : insnQueue'[i] = insnQueue[i + 1]
  BY <1>2, <1>3
<1>5. front' = front
  BY <1>2, <1>3, <1>4 DEF front
<1>6. \A i \in DOMAIN insnQueue' : insnQueue'[i].dynID = taken' + i - 1
  <2>1. SUFFICES ASSUME NEW i \in 1..(Len(insnQueue) - 1)
                 PROVE  insnQueue'[i].dynID = taken + 1 + i - 1
    BY <1>2, <1>4
  <2> DEFINE j == i + 1
  <2>2. j \in DOMAIN insnQueue /\ taken + j - 1 = taken + 1 + i - 1
    BY <1>3
  <2>3. insnQueue'[i] = insnQueue[j]
    BY <1>4
  <2> HIDE DEF j
  <2>4. insnQueue[j].dynID = taken + j - 1
    BY <1>1, <2>2 DEF NumbersAgree
  <2>5. QED
    BY <2>2, <2>3, <2>4
<1>7. NumbersAgree'
  BY <1>1, <1>2, <1>5, <1>6 DEF NumbersAgree
<1>8. TypeOK'
  BY <1>1, <1>2, <1>3, <1>4 DEF TypeOK
<1>9. Cuts(pending, processedOps, front)'
  <2>1. pending' = pending
    BY <1>2 DEF pending
  <2>2. QED
    BY <1>1, <1>2, <1>5, <2>1
<1>10. /\ RunsApart' /\ FollowsBranch' /\ PhisNotMisled' /\ StackAgrees(walk)' /\ WalkAgrees(walk)'
       /\ RequestsAgree'
  BY <1>2 DEF IInv, RunsApart, FollowsBranch, PhisNotMisled, RequestsAgree
<1>11. EmptyAtEnd'
  <2>1. NextRun' = NextRun
    BY <1>2 DEF NextRun
  <2>2. QED
    BY <1>2, <2>1 DEF IInv, EmptyAtEnd
<1>12. BranchesHeld'
  BY <1>2 DEF IInv, BranchesHeld, Held, HeldAt, MayBeOverwritten
<1>13. QED
  BY <1>7, <1>8, <1>9, <1>10, <1>11, <1>12 DEF IInv

LEMMA FinishStep ==
  ASSUME IInv, Finish
  PROVE  IInv'
<1>1. PICK b \in mispredicted \ finished : finished' = finished \cup {b}
  BY DEF Finish
<1>2. /\ walk' = walk /\ processedOps' = processedOps /\ FTQ' = FTQ /\ insnQueue' = insnQueue
      /\ request' = request /\ responses' = responses /\ occupied' = occupied /\ taken' = taken
      /\ mispredicted' = mispredicted /\ phis' = phis
  BY DEF Finish
<1>3. TypeOK' /\ StackAgrees(walk)' /\ WalkAgrees(walk)'
  BY <1>2 DEF IInv, TypeOK
<1>4. /\ RunsApart' /\ FollowsBranch' /\ PhisNotMisled' /\ RequestsAgree'
  BY <1>2 DEF IInv, RunsApart, FollowsBranch, PhisNotMisled, RequestsAgree
<1>5. front' = front /\ pending' = pending /\ NextRun' = NextRun
  BY <1>2 DEF front, pending, NextRun
<1>6. NumbersAgree' /\ EmptyAtEnd'
  BY <1>2, <1>5 DEF IInv, NumbersAgree, EmptyAtEnd
<1>7. Cuts(pending, processedOps, front)'
  BY <1>2, <1>5 DEF IInv
<1>8. BranchesHeld'
  BY <1>1, <1>2 DEF IInv, BranchesHeld, Held, HeldAt, MayBeOverwritten
<1>9. QED
  BY <1>3, <1>4, <1>6, <1>7, <1>8 DEF IInv

LEMMA StutterStep ==
  ASSUME IInv, UNCHANGED vars
  PROVE  IInv'
<1>2. /\ walk' = walk /\ processedOps' = processedOps /\ FTQ' = FTQ /\ insnQueue' = insnQueue
      /\ request' = request /\ responses' = responses /\ occupied' = occupied /\ taken' = taken
      /\ mispredicted' = mispredicted /\ phis' = phis /\ finished' = finished
  BY DEF vars
<1>3. TypeOK' /\ StackAgrees(walk)' /\ WalkAgrees(walk)'
  BY <1>2 DEF IInv, TypeOK
<1>4. /\ RunsApart' /\ FollowsBranch' /\ PhisNotMisled' /\ RequestsAgree'
  BY <1>2 DEF IInv, RunsApart, FollowsBranch, PhisNotMisled, RequestsAgree
<1>5. front' = front /\ pending' = pending /\ NextRun' = NextRun
  BY <1>2 DEF front, pending, NextRun
<1>6. NumbersAgree' /\ EmptyAtEnd'
  BY <1>2, <1>5 DEF IInv, NumbersAgree, EmptyAtEnd
<1>7. Cuts(pending, processedOps, front)'
  BY <1>2, <1>5 DEF IInv
<1>8. BranchesHeld'
  BY <1>2 DEF IInv, BranchesHeld, Held, HeldAt, MayBeOverwritten
<1>9. QED
  BY <1>3, <1>4, <1>6, <1>7, <1>8 DEF IInv

(* The initial states satisfy it.                                          *)
LEMMA Initial == Init => IInv
<1>1. SUFFICES ASSUME Init PROVE IInv
  OBVIOUS
<1>2. /\ processedOps = <<>> /\ FTQ = <<>> /\ insnQueue = <<>> /\ request = <<>> /\ responses = <<>>
      /\ occupied = FALSE /\ taken = 0 /\ mispredicted = {} /\ finished = {} /\ phis = {}
  BY <1>1 DEF Init
<1>3. PICK left \in 1..TraceLength :
           walk = [targetBB |-> EntryBB, previousBB |-> None, from |-> None,
                   prevBBTerminator |-> NoBranch, returnStack |-> <<>>, fetchForRet |-> FALSE,
                   abnormalExit |-> FALSE, left |-> left, globalDynID |-> 0, first |-> NoBranch]
  BY <1>1 DEF Init
<1>4. /\ walk \in Walk /\ walk.returnStack = <<>> /\ ~walk.fetchForRet /\ walk.globalDynID = 0
      /\ walk.previousBB = None /\ walk.from = None
  <2>1. EntryBB \in Block /\ None \in Block /\ NoBranch \in Int /\ left \in Int /\ <<>> \in Seq(Frame)
    BY Constants DEF Block, NoBranch
  <2>2. QED
    BY <1>3, <2>1 DEF Walk
<1>5. TypeOK
  <2>1. <<>> \in Seq(Insn) /\ <<>> \in Seq(Package) /\ 0 \in Nat /\ {} \in SUBSET Nat
    OBVIOUS
  <2>2. QED
    BY <1>2, <1>4, <2>1 DEF TypeOK
<1>6. Len(<<>>) = 0 /\ DOMAIN <<>> = {}
  OBVIOUS
<1>7. StackAgrees(walk) /\ WalkAgrees(walk)
  BY <1>4, <1>6 DEF StackAgrees, WalkAgrees
<1>8. front = 0 /\ pending = <<>>
  BY <1>2, <1>6 DEF front, pending
<1>9. NumbersAgree /\ RequestsAgree
  BY <1>2, <1>4, <1>6, <1>8 DEF NumbersAgree, RequestsAgree
<1>10. Cuts(pending, processedOps, front)
  <2>1. Start(<<>>, <<>>, 0, 1) = 1
    BY <1>6 DEF Start
  <2>2. 1..Len(<<>>) = {}
    BY <1>6
  <2>3. QED
    BY <1>2, <1>8, <2>1, <2>2 DEF Cuts
<1>11. RunsApart /\ FollowsBranch /\ BranchesHeld /\ EmptyAtEnd /\ PhisNotMisled
  BY <1>2, <1>4, <1>6 DEF RunsApart, FollowsBranch, BranchesHeld, EmptyAtEnd, PhisNotMisled
<1>12. QED
  BY <1>5, <1>7, <1>9, <1>10, <1>11 DEF IInv

-----------------------------------------------------------------------------
(* The theorems.                                                           *)

(* The invariant holds at the start, and every cycle of fetch, every answer *)
(* of the cache and every step of the back end keeps it.                   *)
THEOREM Inductive == Spec => []IInv
<1>1. Init => IInv
  BY Initial
<1>2. IInv /\ [Next]_vars => IInv'
  <2>1. SUFFICES ASSUME IInv, [Next]_vars PROVE IInv'
    OBVIOUS
  <2>2. CASE FetchRun
    BY <2>1, <2>2, RunStep
  <2>3. CASE FetchOld
    BY <2>1, <2>3, OldStep
  <2>4. CASE CacheRespond
    BY <2>1, <2>4, RespondStep
  <2>5. CASE Dispatch
    BY <2>1, <2>5, DispatchStep
  <2>6. CASE Finish
    BY <2>1, <2>6, FinishStep
  <2>7. CASE UNCHANGED vars
    BY <2>1, <2>7, StutterStep
  <2>8. QED
    BY <2>1, <2>2, <2>3, <2>4, <2>5, <2>6, <2>7 DEF Next
<1>3. QED
  BY <1>1, <1>2, PTL DEF Spec

(* Every field and every queue of the front end keeps its type: blocks stay *)
(* blocks of the program, numbers stay natural.                            *)
THEOREM TypeCorrect == Spec => []TypeOK
<1>1. IInv => TypeOK
  BY DEF IInv
<1>2. QED
  BY <1>1, Inductive, PTL

(* The packages IF0 asks for are, in order and without gaps, the pieces into *)
(* which IF1 cuts the walked instructions: the assertion of IF1 (ifu.cpp:81) *)
(* never fails.                                                             *)
THEOREM PackagesMatch == Spec => []PackagesCover
<1>1. IInv => PackagesCover
  BY CutsMeans DEF IInv
<1>2. QED
  BY <1>1, Inductive, PTL

(* fetch gives nothing behind an unfinished mispredicted branch to the back  *)
(* end, but for a package that the store into the empty buffer hit.         *)
THEOREM NothingPastMispredict == Spec => []NoFetchPastMispredict
<1>1. IInv => NoFetchPastMispredict
  <2>1. SUFFICES ASSUME IInv, NEW b \in mispredicted \ finished, ~MayBeOverwritten(b)
                 PROVE  taken <= b + 1 /\ \A op \in ToSet(insnQueue) : op.dynID <= b
    BY DEF NoFetchPastMispredict
  <2>2. TypeOK /\ NumbersAgree /\ Cuts(pending, processedOps, front) /\ Held(b)
    BY <2>1 DEF IInv, BranchesHeld
  <2>3. /\ taken \in Nat /\ b \in Nat /\ Len(insnQueue) \in Nat /\ front = taken + Len(insnQueue)
        /\ insnQueue \in Seq(Insn) /\ DOMAIN insnQueue = 1..Len(insnQueue)
        /\ Len(processedOps) \in Nat /\ walk.globalDynID = front + Len(processedOps)
    BY <2>1, <2>2 DEF TypeOK, front, NumbersAgree
  <2>4. front <= b + 1
    <3>1. CASE b + 1 = walk.globalDynID
      BY <2>3, <3>1
    <3>2. CASE \E k \in DOMAIN FTQ : HeldAt(b, k)
      BY <2>2, <3>2, WaitingIs DEF HeldAt
    <3>3. QED
      BY <2>1, <2>2, <3>1, <3>2 DEF Held
  <2>5. ASSUME NEW i \in DOMAIN insnQueue PROVE insnQueue[i].dynID <= b
    <3>1. insnQueue[i].dynID = taken + i - 1
      BY <2>2 DEF NumbersAgree
    <3>2. i \in 1..Len(insnQueue)
      BY <2>3
    <3>3. taken + i - 1 <= b
      BY <2>3, <2>4, <3>2
    <3>4. QED
      BY <3>1, <3>3
  <2>6. \A op \in ToSet(insnQueue) : op.dynID <= b
    BY <2>5 DEF ToSet
  <2>7. taken <= b + 1
    BY <2>3, <2>4
  <2>8. QED
    BY <2>6, <2>7
<1>2. QED
  BY <1>1, Inductive, PTL

(* A phi is told the block that control came from, or none, behind calls,   *)
(* returns and invokes too (preprocess, core.cpp:595).                      *)
THEOREM PhisAreTold == Spec => []PhisNotMisled
<1>1. IInv => PhisNotMisled
  BY DEF IInv
<1>2. QED
  BY <1>1, Inductive, PTL

(* When the simulator finds the queues of the front end empty, the program   *)
(* is walked to its end and all of it was given to the back end.            *)
THEOREM StopsOnlyAtEnd == Spec => []StopsAtEnd
<1>1. IInv => StopsAtEnd
  <2>1. SUFFICES ASSUME IInv, processedOps = <<>>, insnQueue = <<>>, walk.globalDynID > 0
                 PROVE  NextRun = <<>> /\ FTQ = <<>> /\ ~occupied /\ taken = walk.globalDynID
    BY DEF StopsAtEnd, Stopped
  <2>2. TypeOK /\ NumbersAgree /\ RequestsAgree /\ EmptyAtEnd /\ Cuts(pending, processedOps, front)
    BY <2>1 DEF IInv
  <2>3. NextRun = <<>>
    BY <2>1, <2>2 DEF EmptyAtEnd
  <2>4. /\ request \in Seq(Package) /\ responses \in Seq(Package) /\ FTQ \in Seq(Package)
        /\ taken \in Nat /\ occupied \in BOOLEAN
    BY <2>2 DEF TypeOK
  <2>5. Len(<<>>) = 0
    OBVIOUS
  <2>6. front = taken /\ walk.globalDynID = front
    BY <2>1, <2>2, <2>4, <2>5 DEF front, NumbersAgree
  <2>7. request \o responses \in Seq(Package)
    BY <2>4, ConcatProperties
  <2>8. pending \in Seq(Package)
    BY <2>4, <2>7, ConcatProperties DEF pending
  <2>9. pending = <<>>
    <3>1. front \in Nat /\ processedOps \in Seq(Insn)
      BY <2>1, <2>4, <2>6
    <3>2. QED
      BY <2>1, <2>2, <2>8, <3>1, CutsEmpty
  <2>10. request \o responses = <<>> /\ FTQ = <<>>
    BY <2>4, <2>7, <2>9, ConcatEqualIffEmpty DEF pending
  <2>11. request = <<>> /\ responses = <<>>
    BY <2>4, <2>10, ConcatEqualIffEmpty
  <2>12. ~occupied
    BY <2>2, <2>4, <2>5, <2>11 DEF RequestsAgree
  <2>13. QED
    BY <2>3, <2>6, <2>10, <2>12
<1>2. QED
  BY <1>1, Inductive, PTL
=============================================================================
