------------------------------ MODULE Fetch ------------------------------
(***************************************************************************)
(* The front end: Core::fetch and Core::preprocess (core.cpp), the fetch   *)
(* unit (ifu.cpp) and the trace reader as far as they use it.  preprocess  *)
(* walks the program along the trace, one run of instructions up to a      *)
(* terminator or a call per cycle, into processedOps, and puts the first   *)
(* of every package of the run into the fetch target queue FTQ.  IF0 asks  *)
(* the instruction cache for the package at the front of FTQ, IF1 moves    *)
(* the package that was answered from processedOps to insnQueue.           *)
(*                                                                         *)
(* External: the instruction cache, which always has a port for the one    *)
(* request of a cycle, and the back end, which takes instructions from     *)
(* insnQueue and finishes branches.  Left out: SimPoint mode, offloading   *)
(* and its speculation (the accelerator), flushedInsns (never filled, as   *)
(* Window::flush is never called) and IF0's prefetches, which are sent     *)
(* only while "occupied" is set and are not answered.                      *)
(***************************************************************************)
EXTENDS Integers, FiniteSets, SequencesExt

CONSTANTS Program,      \* block -> sequence of [kind, to]
          FirstUID,     \* block -> its own number, the one before its first instruction's
          EntryBB,
          TraceLength,  \* entries of the trace: branch outcomes and addresses
          FTQSize,      \* 32
          PackageSize,  \* 16
          InsnQueueMaxSize,  \* 64
          FlushPenalty  \* flush_penalty of the configuration

None == "none"    \* a null block
NoBranch == -1    \* a null prevBBTerminator, or one that is not a conditional branch

ASSUME FetchAssumption ==
    /\ {PackageSize, InsnQueueMaxSize, FlushPenalty} \subseteq Nat \ {0}
    /\ {FTQSize, TraceLength} \subseteq Nat
    /\ EntryBB \in DOMAIN Program /\ None \notin DOMAIN Program
    /\ \A b \in DOMAIN Program : FirstUID[b] \in Nat

\* Every block of the IR ends in a terminator, branches and calls of functions
\* with a body go to blocks, an invoke has a block to go on at, and no number
\* is given twice.
ASSUME ProgramAssumption ==
    \A b \in DOMAIN Program :
        /\ Program[b] \in Seq([kind : STRING, to : Seq(DOMAIN Program \cup {None})]) \ {<<>>}
        /\ Last(Program[b]).kind \in {"br", "jmp", "switch", "invoke", "ret"}
        /\ \A i \in DOMAIN Program[b] :
             LET op == Program[b][i]
             IN  /\ op.kind \in {"br", "jmp", "switch", "call"} => None \notin ToSet(op.to)
                 /\ op.kind = "invoke" => Len(op.to) = 2 /\ op.to[2] # None
                 /\ \A c \in DOMAIN Program :
                      /\ FirstUID[b] + i # FirstUID[c]
                      /\ \A j \in DOMAIN Program[c] :
                           FirstUID[b] + i = FirstUID[c] + j => b = c /\ i = j

\* The queue of the back end holds more than a package.
ASSUME QueueAssumption == PackageSize < InsnQueueMaxSize

VARIABLES walk,         \* where preprocess stands in the program and the trace
          processedOps, FTQ, insnQueue,
          request,      \* the package asked for and not yet answered, or <<>>
          responses,    \* IFU::responses
          occupied,     \* IFU::occupied
          flushStallCycle,
          taken,        \* how many instructions the back end has taken
          mispredicted, finished,   \* branches by dynID
          phis          \* history: what the phis of the last run were told

vars == <<walk, processedOps, FTQ, insnQueue, request, responses, occupied,
          flushStallCycle, taken, mispredicted, finished, phis>>

-----------------------------------------------------------------------------
(* preprocess *)

\* One counter numbers functions, blocks and instructions in the order of the
\* program: the instructions of a block are consecutive and blocks are apart.
UIDWithoutBlocks(b, i) ==   \* mutant: only instructions take numbers
    FirstUID[b] + i - Cardinality({x \in DOMAIN Program : FirstUID[x] <= FirstUID[b]})
UID(b, i) == FirstUID[b] + i

scheduleBB(b) == [i \in DOMAIN Program[b] |->
    [block |-> b, uid |-> UID(b, i), kind |-> Program[b][i].kind, to |-> Program[b][i].to]]

\* Does op end a run of preprocess if the trace has n entries left?  A call
\* of a function without body does not; at the end of the trace no call does.
EndsRun(op, n) ==
    \/ op.kind \in {"br", "jmp", "switch", "invoke", "ret"}
    \/ op.kind = "call" /\ n > 0
    \/ op.kind = "load" /\ n = 0

Loads(ops, i) == Cardinality({j \in 1..i : ops[j].kind = "load"})
Calls(ops, i) == Cardinality({j \in 1..i : ops[j].kind \in {"ext", "call"}})

\* The index of the last instruction of the run that starts ops.
RunLength(ops, left) ==
    CHOOSE i \in DOMAIN ops :
        /\ EndsRun(ops[i], left - Loads(ops, i - 1))
        /\ \A j \in 1..(i - 1) : ~EndsRun(ops[j], left - Loads(ops, j - 1))

ReturnedInCallee(w, top) == \* mutant: previousBB is not restored
    [w EXCEPT !.returnStack = Front(@), !.from = top.prevBlock, !.prevBBTerminator = NoBranch,
              !.left = IF top.isInvoke /\ @ > 0 THEN @ - 1 ELSE @]

\* The state behind the return to top of the return stack.
Returned(w, top) ==
    [w EXCEPT !.returnStack = Front(@), !.previousBB = top.prev, !.from = top.prevBlock,
              !.prevBBTerminator = NoBranch,
              !.left = IF top.isInvoke /\ @ > 0 THEN @ - 1 ELSE @]

\* fetchOpBuffer, and the state in which the loop over it starts.
Buffered(w) ==
    LET now == [w EXCEPT !.fetchForRet = FALSE]
    IN  IF w.fetchForRet /\ w.returnStack # <<>>
        THEN [ops |-> Last(w.returnStack).ops, w |-> Returned(now, Last(w.returnStack))]
        ELSE [ops |-> IF ~w.fetchForRet /\ w.targetBB # None THEN scheduleBB(w.targetBB) ELSE <<>>,
              w |-> now]

\* Every call before the end of the run moves targetBB, null after the first,
\* to previousBB.
AfterCalls(w, n) ==
    [w EXCEPT !.previousBB = IF n = 0 THEN @ ELSE IF n = 1 THEN w.targetBB ELSE None,
              !.targetBB = IF n = 0 THEN @ ELSE None,
              !.prevBBTerminator = IF n = 0 THEN @ ELSE NoBranch]

\* The terminator op, number id, with rest behind it; "to" is where it goes.
\* A branch leaves no target at the end of the trace.
Terminate(w, op, id, rest, to) ==
    LET jump == [w EXCEPT !.previousBB = w.targetBB, !.from = op.block,
                          !.prevBBTerminator = IF op.kind = "br" THEN id ELSE NoBranch]
        target(n) == IF n = 0 THEN None ELSE to
        Push(ops, isInvoke) == Append(w.returnStack,
            [ops |-> ops, prev |-> w.targetBB, prevBlock |-> op.block, isInvoke |-> isInvoke])
        ended == [w EXCEPT !.abnormalExit = TRUE, !.targetBB = None]
    IN  CASE op.kind \in {"br", "switch"} /\ w.left > 0 ->
                [jump EXCEPT !.left = @ - 1, !.targetBB = target(w.left - 1)]
          [] op.kind = "jmp"  -> [jump EXCEPT !.targetBB = target(w.left)]
          [] op.kind = "call" -> [jump EXCEPT !.targetBB = to, !.returnStack = Push(rest, FALSE)]
          [] op.kind = "invoke" /\ w.left > 0 /\ op.to[1] # None ->
                [jump EXCEPT !.targetBB = op.to[1],
                             !.returnStack = Push(scheduleBB(op.to[2]), TRUE)]
          [] op.kind = "invoke" /\ ~(w.left > 0 /\ op.to[1] # None) ->
                [jump EXCEPT !.targetBB = op.to[2]]
          [] op.kind = "ret"  -> [w EXCEPT !.fetchForRet = TRUE, !.targetBB = None]
          [] OTHER -> ended

\* The instructions the next call of preprocess returns.
NextRun ==
    LET b == Buffered(walk)
    IN  IF walk.abnormalExit \/ b.ops = <<>> THEN <<>>
        ELSE SubSeq(b.ops, 1, RunLength(b.ops, b.w.left))

\* Where a run may go on, and whether its branch may be mispredicted.
Targets(run) == IF run # <<>> /\ Last(run).kind \in {"br", "jmp", "switch", "call"}
                THEN ToSet(Last(run).to) ELSE {None}

\* The state after a call that returned run, and the numbered run.
AfterRun(run, to) ==
    LET b     == Buffered(walk)
        n     == Len(run)
        begun == [AfterCalls(b.w, Calls(run, n - 1))
                     EXCEPT !.left = @ - Loads(run, n - 1), !.globalDynID = @ + n, !.first = walk.globalDynID]
    IN  IF run = <<>> THEN [b.w EXCEPT !.targetBB = None]
        ELSE Terminate(begun, Last(run), walk.globalDynID + n - 1,
                       SubSeq(b.ops, n + 1, Len(b.ops)), to)

Numbered(run) ==
    [i \in DOMAIN run |->
        [dynID |-> walk.globalDynID + i - 1, uid |-> run[i].uid, kind |-> run[i].kind,
         prevBBTerminator |-> IF i = 1 THEN Buffered(walk).w.prevBBTerminator ELSE NoBranch]]

\* Every PackageSize-th instruction of a run starts a package.
Packages(run) ==
    LET starts == {i \in DOMAIN run : (i - 1) % PackageSize = 0}
        start(k) == run[(k - 1) * PackageSize + 1]
    IN  [k \in 1..Cardinality(starts) |->
           [dynID |-> start(k).dynID, uid |-> start(k).uid, kind |-> start(k).kind,
            prevBBTerminator |-> start(k).prevBBTerminator, waitingForBrDecision |-> TRUE]]

\* With no block to walk and a branch behind it, preprocess stores the branch
\* into fetchOpBuffer[0] of an empty buffer.  The slot still points at the first
\* instruction of the last run: it is overwritten, or nothing is.
Dangling(queue) ==
    {queue} \cup
    IF walk.abnormalExit \/ Buffered(walk).ops # <<>> \/ Buffered(walk).w.prevBBTerminator = NoBranch THEN {}
    ELSE {[k \in DOMAIN queue |-> IF queue[k].dynID # walk.first THEN queue[k]
              ELSE [queue[k] EXCEPT !.prevBBTerminator = Buffered(walk).w.prevBBTerminator]]}

-----------------------------------------------------------------------------
(* The fetch unit *)

\* IF1 takes from the front of ops what is consecutive, at most a package.
PackageLength(ops, uid) ==
    CHOOSE n \in 0..PackageSize :
        /\ n <= Len(ops) /\ \A i \in 1..n : ops[i].uid = uid + i - 1
        /\ n = PackageSize \/ n = Len(ops) \/ ops[n + 1].uid # uid + n

\* Is the package held up by a branch that was mispredicted and not finished,
\* and is it the one whose flush begins now?
MispredictedBefore(op) ==
    op.prevBBTerminator # NoBranch /\ op.waitingForBrDecision /\ op.prevBBTerminator \in mispredicted
WaitsUntilTaken(op) == MispredictedBefore(op) /\ op.prevBBTerminator >= taken    \* mutant: not for the end
WaitsForever(op) == MispredictedBefore(op)                                       \* mutant: finished or not
WaitsForBranch(op) == MispredictedBefore(op) /\ op.prevBBTerminator \notin finished
BeginsFlush(op) == MispredictedBefore(op) /\ op.prevBBTerminator \in finished

Init == /\ \E left \in 1..TraceLength :
              walk = [targetBB |-> EntryBB, previousBB |-> None, from |-> None,
                      prevBBTerminator |-> NoBranch, returnStack |-> <<>>, fetchForRet |-> FALSE,
                      abnormalExit |-> FALSE, left |-> left, globalDynID |-> 0, first |-> NoBranch]
        /\ processedOps = <<>> /\ FTQ = <<>> /\ insnQueue = <<>>
        /\ request = <<>> /\ responses = <<>> /\ occupied = FALSE
        /\ flushStallCycle = 0 /\ taken = 0 /\ mispredicted = {} /\ finished = {}
        /\ phis = {}

insnQueueFull == Len(insnQueue) >= InsnQueueMaxSize

\* The package that was answered moves from ops to insnQueue.
IF1(ops) ==
    LET n == IF responses = <<>> THEN 0 ELSE PackageLength(ops, responses[1].uid)
    IN  /\ insnQueue' = insnQueue \o SubSeq(ops, 1, n)
        /\ processedOps' = SubSeq(ops, n + 1, Len(ops))
        /\ responses' = <<>>
Released == responses # <<>> \/ ~occupied

\* What fetch does with the front of queue: wait, begin the flush, whose stall
\* Core::run lifts at the end of this very cycle, or ask for the package.
IF0(queue) ==
    LET waits   == queue = <<>> \/ WaitsForBranch(queue[1])
        flushes == ~waits /\ BeginsFlush(queue[1])
        asks    == ~waits /\ ~flushes /\ Released
    IN  /\ request' = IF asks THEN <<queue[1]>> ELSE request
        /\ FTQ' = IF asks THEN Tail(queue)
                  ELSE IF flushes THEN [queue EXCEPT ![1].waitingForBrDecision = FALSE]
                  ELSE queue
        /\ flushStallCycle' = IF flushes THEN FlushPenalty - 1 ELSE flushStallCycle
        /\ occupied' = (asks \/ ~Released)

\* The part of Core::run's condition to stop that the front end can make true.
StoppedEarly == insnQueue = <<>>    \* mutant: processedOps is not looked at
Stopped == processedOps = <<>> /\ insnQueue = <<>>

mayPreprocess == Len(FTQ) <= FTQSize /\ Len(processedOps) < InsnQueueMaxSize

\* A cycle of fetch in which preprocess adds a run (none at the end of the
\* program) and its packages.
FetchRun ==
    /\ ~insnQueueFull /\ mayPreprocess
    /\ \E run \in {Numbered(NextRun)} :
       \E to \in Targets(NextRun), queue \in Dangling(FTQ), wrong \in BOOLEAN :
         /\ walk' = AfterRun(NextRun, to)
         /\ wrong => run # <<>> /\ Last(run).kind = "br" /\ ~walk'.abnormalExit
         /\ mispredicted' = IF wrong THEN mispredicted \cup {Last(run).dynID} ELSE mispredicted
         /\ phis' = IF \E i \in DOMAIN run : run[i].kind = "phi"
                    THEN {[given |-> Buffered(walk).w.previousBB, actual |-> Buffered(walk).w.from]}
                    ELSE {}
         /\ \E ops \in {processedOps \o run} : IF1(ops)
         /\ \E packages \in {queue \o Packages(run)} : IF0(packages)
    /\ UNCHANGED <<taken, finished>>

\* A cycle in which the queues are long enough.
FetchOld ==
    /\ ~insnQueueFull /\ ~mayPreprocess
    /\ IF1(processedOps) /\ IF0(FTQ)
    /\ UNCHANGED <<walk, taken, mispredicted, finished, phis>>

\* The instruction cache answers.
CacheRespond ==
    /\ request # <<>>
    /\ request' = <<>> /\ responses' = request
    /\ UNCHANGED <<walk, processedOps, FTQ, insnQueue, occupied, flushStallCycle, taken,
                   mispredicted, finished, phis>>

\* The back end takes an instruction.
Dispatch ==
    /\ insnQueue # <<>>
    /\ insnQueue' = Tail(insnQueue) /\ taken' = taken + 1
    /\ UNCHANGED <<walk, processedOps, FTQ, request, responses, occupied, flushStallCycle,
                   mispredicted, finished, phis>>

\* It executes a branch it has taken.
Finish ==
    /\ \E b \in mispredicted \ finished : b < taken /\ finished' = finished \cup {b}
    /\ UNCHANGED <<walk, processedOps, FTQ, insnQueue, request, responses, occupied,
                   flushStallCycle, taken, mispredicted, phis>>

Next == FetchRun \/ FetchOld \/ CacheRespond \/ Dispatch \/ Finish

Fetch == FetchRun \/ FetchOld
Spec == Init /\ [][Next]_vars
FairSpec == Spec /\ WF_vars(Fetch) /\ WF_vars(CacheRespond) /\ WF_vars(Dispatch) /\ WF_vars(Finish)

-----------------------------------------------------------------------------
(* Properties *)

\* The packages asked for and queued are, in order, exactly those into which
\* IF1 will cut processedOps: no instruction is left between two packages, none
\* is in two.  It implies the assertion of IF1 (ifu.cpp:81) on every answer.
PackagesCover ==
    LET pending == request \o responses \o FTQ
        at(k) == pending[k].dynID - processedOps[1].dynID + 1
        end(k) == at(k) + PackageLength(SubSeq(processedOps, at(k), Len(processedOps)), pending[k].uid)
    IN  IF processedOps = <<>> THEN pending = <<>>
        ELSE /\ pending # <<>> /\ at(1) = 1
             /\ \A k \in DOMAIN pending :
                  end(k) = IF k = Len(pending) THEN Len(processedOps) + 1 ELSE at(k + 1)

\* Dangling may have hit the package behind branch b: the last run follows b,
\* and a branch of its own ends it and the trace.
MayBeOverwritten(b) ==
    /\ walk.first = b + 1 /\ walk.prevBBTerminator > b
    /\ walk.targetBB = None /\ ~walk.fetchForRet

\* Nothing behind a mispredicted branch that has not finished is given to the
\* back end, though the front end walks on: fetch waits for the decision.  The
\* one exception is the store into an empty buffer, which makes the last package
\* forget the branch before it.
NoFetchPastMispredict ==
    \A b \in mispredicted \ finished : ~MayBeOverwritten(b) =>
        taken <= b + 1 /\ \A op \in ToSet(insnQueue) : op.dynID <= b

\* A phi that is told a previous block is told the one control came from, also
\* behind calls, returns and invokes; some are told none.
PhisNotMisled == \A p \in phis : p.given \in {p.actual, None}

\* The simulator stops in the first cycle in which its queues are empty; by then
\* the whole of the trace has been walked and given to the back end.
StopsAtEnd ==
    Stopped /\ walk.globalDynID > 0 =>
        /\ NextRun = <<>> /\ FTQ = <<>> /\ ~occupied
        /\ taken = walk.globalDynID

\* An instruction that was made to wait for its own or a later branch.
WaitsForLater ==
    \E op \in ToSet(FTQ) : op.prevBBTerminator # NoBranch /\ op.prevBBTerminator >= op.dynID

\* The simulator stops: all that is walked reaches the back end, however branches
\* are predicted, unless the store into an empty buffer hit a waiting package.
Delivered == <>[]Stopped \/ <>WaitsForLater

\* The comment on core.cpp:558: a misprediction costs flush_penalty cycles.
FlushTakesPenalty == [][flushStallCycle > 0 => request' \in {request, <<>>}]_vars
=============================================================================
