--------------------------- MODULE MemHierarchy ---------------------------
(***************************************************************************)
(* The memory hierarchy: cache.cpp, FunctionalCache.cpp, DRAM.cpp and      *)
(* SimpleDRAM.cpp.  Per simulated cycle main() and Core::run call, in this *)
(* order, the DRAM, the last level, the second level and the data cache;   *)
(* then the load/store unit sends requests.  One action per call.          *)
(*                                                                         *)
(* A transaction is a load, a store (hwID >= 0), a prefetch (hwID = -2,    *)
(* isLoad) or the write of an evicted line (hwID = -1, not isLoad).        *)
(* Left out: the instruction cache, which is a second L1Cache, and a       *)
(* hierarchy without MSHRs (mshr_size 0).  Abstracted: which lines the     *)
(* stride prefetcher predicts, and the latency and bandwidth of the DRAM,  *)
(* which serves its requests in order after any number of cycles.          *)
(***************************************************************************)
EXTENDS Integers, FiniteSets, CacheSet

CONSTANTS Lines,          \* cache lines, all of one set
          Traces,         \* the sequences of requests of the load/store unit
          Assoc, MshrSize, Latency, LoadPorts, StorePorts,   \* per level
          DramReadPorts, DramWritePorts,
          MaxPrefetches   \* bound on the prefetches of a behaviour

Levels == {"l1", "l2", "llc"}
Calls  == {"dram", "llc", "l2", "l1", "lsu"}

ASSUME MemAssumption ==
    /\ \A l \in Levels : /\ {Assoc[l], MshrSize[l], Latency[l]} \subseteq Nat \ {0}
                         /\ {LoadPorts[l], StorePorts[l]} \subseteq Nat \ {0}
    /\ {DramReadPorts, DramWritePorts} \subseteq Nat \ {0}
    /\ MaxPrefetches \in Nat
    /\ IsFiniteSet(Lines)
    /\ Traces \subseteq Seq([line : Lines, kind : {"load", "store"}])

VARIABLES mem,        \* the three caches, by level
          dram,       \* operations in order, transactions waiting, free ports
          turn,       \* whose call is next
          trace, sent,     \* the requests, and how many were accepted
          answers,    \* history: how often each request was answered
          modified,   \* history: lines dirty in the data cache since DRAM last wrote them
          prefetches  \* prefetches left

vars == <<mem, dram, turn, trace, sent, answers, modified, prefetches>>

-----------------------------------------------------------------------------
Transaction(id, line, kind) == [id |-> id, line |-> line, kind |-> kind]
Kinds == {"load", "store", "prefetch", "evict"}
isLoad(t)  == t.kind \in {"load", "prefetch"}
isEvict(t) == t.kind = "evict"
evictOf(line) == Transaction(0, line, "evict")

Of(r) == [id : {r}, line : Lines, kind : {"load", "store"}]   \* request r

\* A new Cache, and the fields of one.
Cache(l) == [set |-> <<>>, in |-> <<>>, resp |-> <<>>, out |-> <<>>, back |-> <<>>,
             stalled |-> <<>>, pq |-> <<>>, mshr |-> [x \in Lines |-> <<>>], evicts |-> <<>>,
             loads |-> LoadPorts[l], stores |-> StorePorts[l]]

willAccept(c, t) == IF isLoad(t) THEN c.loads > 0 ELSE c.stores > 0

recvRequest(c, t) ==
    IF isLoad(t) THEN [c EXCEPT !.in = Append(@, t), !.loads = @ - 1]
                 ELSE [c EXCEPT !.in = Append(@, t), !.stores = @ - 1]

\* What is left of s when only the elements in S stay (SelectSeq by the test
\* "in S", as a fold), and how many these are.
Keep(s, S) == FoldLeft(LAMBDA kept, e : IF e \in S THEN Append(kept, e) ELSE kept, <<>>, s)
Count(s, S) == Cardinality({i \in DOMAIN s : s[i] \in S})

-----------------------------------------------------------------------------
(* sendRequests *)

nextCache(l)  == IF l = "l1" THEN "l2" ELSE "llc"
prevCaches(l) == CASE l = "l1" -> {} [] l = "l2" -> {"l1"} [] l = "llc" -> {"l1", "l2"}

\* To the next level if it has a port left, else kept for the next cycle.
Forward(m, l, t) ==
    IF willAccept(m[nextCache(l)], t)
    THEN [m EXCEPT ![nextCache(l)] = recvRequest(m[nextCache(l)], t)]
    ELSE [m EXCEPT ![l].out = Append(@, t)]

\* Cache::invalidate of the levels before l, and whether their copy was dirty.
InvalidateAbove(m, l, line) ==
    [x \in Levels |-> IF x \in prevCaches(l) THEN [m[x] EXCEPT !.set = invalidate(@, line)] ELSE m[x]]
DirtyAbove(m, l, line) == \E x \in prevCaches(l) : isDirty(m[x].set, line)

\* checkEvictConflict: a transaction of the line waits in the queue of l.
evictConflict(c, line) == \E i \in DOMAIN c.pq : c.pq[i].t.line = line

WriteBack(m, l, e) ==
    LET inval == InvalidateAbove(m, l, e.line)
    IN  IF e.dirty \/ DirtyAbove(m, l, e.line) \/ (l # "l1" /\ evictConflict(m[l], e.line))
        THEN Forward(inval, l, evictOf(e.line))
        ELSE inval

sendRequests(m, l) ==
    LET idle == [m EXCEPT ![l].out = <<>>, ![l].evicts = <<>>]
        requested == FoldLeft(LAMBDA x, t : Forward(x, l, t), idle, m[l].out)
    IN  FoldLeft(LAMBDA x, e : WriteBack(x, l, e), requested, m[l].evicts)

\* DRAMSimInterface: the port it asks for is that of isLoad, the port it
\* takes is that of a read, unless the transaction is an eviction.
dramAccepts(d, isRead) == IF isRead THEN d.reads > 0 ELSE d.writes > 0
dramRead(d, t) == [d EXCEPT !.ops = Append(@, [line |-> t.line, write |-> FALSE]),
                            !.waiting = Append(@, t), !.reads = @ - 1]
dramWrite(d, line) == [d EXCEPT !.ops = Append(@, [line |-> line, write |-> TRUE]),
                                !.writes = @ - 1]

\* LLCache::sendRequests works on the caches m and the DRAM d.
Fetch(s, t) ==
    IF ~dramAccepts(s.d, isLoad(t)) THEN [s EXCEPT !.m.llc.out = Append(@, t)]
    ELSE IF isEvict(t) THEN [s EXCEPT !.d = dramWrite(s.d, t.line)]
    ELSE [s EXCEPT !.d = dramRead(s.d, t)]

\* An eviction waits for a write port, dirty or not, before the invalidation.
WriteToDram(s, e) ==
    IF ~dramAccepts(s.d, FALSE) THEN [s EXCEPT !.m.llc.evicts = Append(@, e)]
    ELSE LET inval == [s EXCEPT !.m = InvalidateAbove(s.m, "llc", e.line)]
         IN  IF e.dirty \/ DirtyAbove(s.m, "llc", e.line) \/ evictConflict(s.m.llc, e.line)
             THEN [inval EXCEPT !.d = dramWrite(s.d, e.line)]
             ELSE inval

sendToDram(m, d) ==
    LET idle == [m |-> [m EXCEPT !.llc.out = <<>>, !.llc.evicts = <<>>], d |-> d]
    IN  FoldLeft(WriteToDram, FoldLeft(Fetch, idle, m.llc.out), m.llc.evicts)

-----------------------------------------------------------------------------
(* handleRequests, process and handleResponses of one cache *)

Queued(c, l, ts) == [c EXCEPT !.in = <<>>,
    !.pq = @ \o [i \in DOMAIN ts |-> [t |-> ts[i], wait |-> Latency[l] - 1]]]

\* The lines that have an MSHR: mshr names, per line, who waits for it.
missing(c) == {x \in Lines : c.mshr[x] # <<>>}

enterMSHRAlwaysAsks(c, l, t) ==   \* mutant: a miss that joins asks as well
    IF t.line \notin missing(c) /\ Cardinality(missing(c)) >= MshrSize[l]
    THEN [c EXCEPT !.stalled = Append(@, t)]
    ELSE [c EXCEPT !.mshr[t.line] = Append(@, t), !.out = Append(@, t)]

\* One MSHR per line: the first miss asks the next level, later ones join it.
enterMSHR(c, l, t) ==
    IF t.line \in missing(c) THEN [c EXCEPT !.mshr[t.line] = Append(@, t)]
    ELSE IF Cardinality(missing(c)) >= MshrSize[l] THEN [c EXCEPT !.stalled = Append(@, t)]
    ELSE [c EXCEPT !.mshr[t.line] = <<t>>, !.out = Append(@, t)]

\* The evictions that miss are those checkEvictConflict was to have seen.
Access(c, l, t) ==
    IF present(c.set, t.line)
    THEN [c EXCEPT !.set = access(@, t.line, isLoad(t)),
                   !.back = IF isEvict(t) THEN @ ELSE Append(@, t)]
    ELSE IF isEvict(t) THEN c
    ELSE IF l = "l1" /\ t.kind = "prefetch" THEN [c EXCEPT !.out = Append(@, t)]
    ELSE enterMSHR(c, l, t)

\* What is due leaves the queue in any order: it is ordered by cycle only.
Due(c) == {i \in DOMAIN c.pq : c.pq[i].wait = 0}
Orders(c) == {[k \in DOMAIN o |-> c.pq[o[k]].t] : o \in SetToSeqs(Due(c))}
Popped(c) == [c EXCEPT !.pq = Keep(@, {e \in ToSet(@) : e.wait > 0})]

processKeepsStalled(c, l, due) ==   \* mutant: who enters an MSHR stays stalled
    LET retried == FoldLeft(LAMBDA x, t : enterMSHR(x, l, t), c, c.stalled)
    IN  FoldLeft(LAMBDA x, t : Access(x, l, t), Popped(retried), due)

\* Cache::process, where due are the due transactions in one of their orders.
process(c, l, due) ==
    LET retried == FoldLeft(LAMBDA x, t : enterMSHR(x, l, t), [c EXCEPT !.stalled = <<>>], c.stalled)
    IN  FoldLeft(LAMBDA x, t : Access(x, l, t), Popped(retried), due)

completeTransaction(c, l, t) ==
    [c EXCEPT !.set = insert(@, Assoc[l], t.line, isLoad(t)),
              !.evicts = @ \o [i \in DOMAIN victims(c.set, Assoc[l]) |->
                 [line |-> Last(c.set).line, dirty |-> Last(c.set).dirty]]]

updateMSHRFirst(c, line) ==   \* mutant: only the first that waits is answered
    [c EXCEPT !.back = Append(@, Head(c.mshr[line])), !.mshr[line] = <<>>]

updateMSHR(c, line) == [c EXCEPT !.back = @ \o c.mshr[line], !.mshr[line] = <<>>]

Answer(c, l, t) ==
    LET filled == completeTransaction(c, l, t)
    IN  IF l = "l1" /\ t.kind = "prefetch" THEN filled ELSE updateMSHR(filled, t.line)

handleResponses(c, l) ==
    FoldLeft(LAMBDA x, t : Answer(x, l, t), [c EXCEPT !.resp = <<>>], c.resp)

\* cycle++ and the ports of the next cycle.
Tick(c, l) ==
    [c EXCEPT !.pq = [i \in DOMAIN c.pq |-> [c.pq[i] EXCEPT !.wait = @ - 1]],
              !.loads = LoadPorts[l], !.stores = StorePorts[l]]

\* What follows sendRequests; extra are the prefetches of the data cache.
Rest(c, l, extra, due) ==
    Tick(handleResponses(process(Queued(c, l, c.in \o extra), l, due), l), l)

-----------------------------------------------------------------------------
(* the calls *)

Init == /\ mem = [l \in Levels |-> Cache(l)]
        /\ dram = [ops |-> <<>>, waiting |-> <<>>, reads |-> DramReadPorts, writes |-> DramWritePorts]
        /\ turn = "dram"
        /\ trace \in Traces
        /\ sent = 0
        /\ answers = [r \in DOMAIN trace |-> 0]
        /\ modified = {}
        /\ prefetches = MaxPrefetches

\* SimpleDRAM::process completes the oldest k operations; a read answers all
\* transactions that wait for its line.
DramRun(k) ==
    /\ turn = "dram"
    /\ k <= Len(dram.ops)
    /\ LET read == {dram.ops[i].line : i \in {j \in 1..k : ~dram.ops[j].write}}
           done == {t \in ToSet(dram.waiting) : t.line \in read}
       IN  /\ mem' = [mem EXCEPT !.llc.resp = @ \o Keep(dram.waiting, done)]
           /\ dram' = [ops |-> SubSeq(dram.ops, k + 1, Len(dram.ops)),
                       waiting |-> Keep(dram.waiting, ToSet(dram.waiting) \ done),
                       reads |-> DramReadPorts, writes |-> DramWritePorts]
    /\ turn' = "llc"
    /\ UNCHANGED <<trace, sent, answers, modified, prefetches>>

Dram == DramRun(0)
DramAnswers == \E k \in 1..Len(dram.ops) : DramRun(k)

\* The responses of a level go to the one before it at the start of its call.
Respond(m, from, to) ==
    [m EXCEPT ![to].resp = @ \o m[from].back, ![from].back = <<>>]

LLCache ==
    /\ turn = "llc"
    /\ LET s == sendToDram(Respond(mem, "llc", "l2"), dram)
           written == {s.d.ops[i].line : i \in {j \in DOMAIN s.d.ops :
                          j > Len(dram.ops) /\ s.d.ops[j].write}}
           c == s.m.llc
       IN  /\ \E due \in Orders(Queued(c, "llc", c.in)) :
                 mem' = [s.m EXCEPT !.llc = Rest(c, "llc", <<>>, due)]
           /\ dram' = s.d
           /\ modified' = modified \ written
    /\ turn' = "l2"
    /\ UNCHANGED <<trace, sent, answers, prefetches>>

L2Cache ==
    /\ turn = "l2"
    /\ LET m == sendRequests(Respond(mem, "l2", "l1"), "l2")
           c == m.l2
       IN  \E due \in Orders(Queued(c, "l2", c.in)) :
              mem' = [m EXCEPT !.l2 = Rest(c, "l2", <<>>, due)]
    /\ turn' = "l1"
    /\ UNCHANGED <<dram, trace, sent, answers, modified, prefetches>>

\* How many lines are prefetched in a cycle.  The prefetcher wants three
\* accesses of an instruction with equal strides, and a port for each line.
cache_prefetch_ports == 4
mayPrefetch(n) == n > 0 => sent >= 3 /\ n <= prefetches

\* L1Cache::sendResponses: loads go to the load/store unit, a store is over,
\* a prefetch is dropped.  handleRequests and the loop over to_prefetch add
\* the prefetches.
L1Cache ==
    /\ turn = "l1"
    /\ LET m == sendRequests([mem EXCEPT !.l1.back = <<>>], "l1")
           c == m.l1
           over == mem.l1.back
       IN  /\ \E n \in {k \in 0 .. cache_prefetch_ports : mayPrefetch(k)} :
              \E ls \in [1 .. n -> Lines] :
                 LET extra == [i \in 1 .. n |-> Transaction(0, ls[i], "prefetch")]
                 IN  /\ \E due \in Orders(Queued(c, "l1", c.in \o extra)) :
                           LET done == Rest(c, "l1", extra, due)
                           IN  /\ mem' = [m EXCEPT !.l1 = done]
                               /\ modified' = modified \cup
                                     {x \in Lines : isDirty(done.set, x)}
                     /\ prefetches' = prefetches - n
           /\ answers' = [r \in DOMAIN trace |->
                 answers[r] + Count(over, Of(r))]
    /\ turn' = "lsu"
    /\ UNCHANGED <<dram, trace, sent>>

\* LSUnit::process: the next request, if the data cache has a port for it.
Send ==
    /\ turn = "lsu"
    /\ sent < Len(trace)
    /\ LET t == Transaction(sent + 1, trace[sent + 1].line, trace[sent + 1].kind)
       IN  /\ willAccept(mem.l1, t)
           /\ mem' = [mem EXCEPT !.l1 = recvRequest(mem.l1, t)]
    /\ sent' = sent + 1
    /\ UNCHANGED <<dram, turn, trace, answers, modified, prefetches>>

EndCycle ==
    /\ turn = "lsu"
    /\ turn' = "dram"
    /\ UNCHANGED <<mem, dram, trace, sent, answers, modified, prefetches>>

Next == Dram \/ DramAnswers \/ LLCache \/ L2Cache \/ L1Cache \/ Send \/ EndCycle

Spec == Init /\ [][Next]_vars

\* main() goes from call to call for ever, and the DRAM serves its queue in
\* finite time.
NextCall == turn' \in Calls
FairSpec == Spec /\ WF_turn(NextCall) /\ SF_vars(DramAnswers)

-----------------------------------------------------------------------------
(* Properties *)

\* How many transactions of S a cache keeps until it answers them.
CountWaiting(mshr, S) ==
    LET waiters == UNION {{x} \X DOMAIN mshr[x] : x \in Lines}
    IN  Cardinality({w \in waiters : mshr[w[1]][w[2]] \in S})
Entry(S) == [t : S, wait : Nat]
CountKept(c, S) ==
    Count(c.in, S) + Count(c.pq, Entry(S)) + Count(c.stalled, S)
    + CountWaiting(c.mshr, S) + Count(c.back, S)

\* How many of S level l has sent down and not yet used to fill its lines.
CountSent(l, S) ==
    Count(mem[l].out, S) + Count(mem[l].resp, S)
    + (IF l = "llc" THEN Count(dram.waiting, S) ELSE CountKept(mem[nextCache(l)], S))

\* A request is in one place of the data cache from its acceptance to its one
\* answer: no merge, stall or retry loses or repeats it.
RequestsConserved ==
    \A r \in DOMAIN trace :
        CountKept(mem.l1, Of(r)) + answers[r] = IF r <= sent THEN 1 ELSE 0

\* What l asks the next level for by an MSHR of its own.
MissKinds(l) == IF l = "l1" THEN {"load", "store"} ELSE {"load", "store", "prefetch"}
Misses(l, line) == [id : Nat, line : {line}, kind : MissKinds(l)]

\* The lines that an MSHR of l waits for are those l has asked the next level
\* for and not received, each asked for once (the assertions of
\* Cache::handleResponses and updateMSHR).
MshrTracksMiss ==
    \A l \in Levels, line \in Lines :
        CountSent(l, Misses(l, line)) = IF line \in missing(mem[l]) THEN 1 ELSE 0

\* The code inserts a line without looking whether it is there (the assertion
\* is commented out): one fill per miss is what keeps a line once in a set,
\* where the map finds it.  Prefetches of the data cache bypass the MSHRs and
\* may bring a line there twice; the levels behind it merge them.
NoDuplicate(l) ==
    \A i, j \in DOMAIN mem[l].set :
        /\ mem[l].set[i].mapped
        /\ mem[l].set[i].line = mem[l].set[j].line => i = j
NoDuplicateLines ==
    /\ NoDuplicate("l2") /\ NoDuplicate("llc")
    /\ prefetches = MaxPrefetches => NoDuplicate("l1")

\* Where a dirty copy of a line may be: in the set, in evictAddresses, or on
\* its way to the next level.
DirtyIn(c, line) ==
    \/ \E i \in DOMAIN c.set : c.set[i].line = line /\ c.set[i].dirty
    \/ \E i \in DOMAIN c.evicts : c.evicts[i].line = line /\ c.evicts[i].dirty
    \/ evictOf(line) \in Range(c.out \o c.in \o [i \in DOMAIN c.pq |-> c.pq[i].t])

\* A line that became dirty in the data cache stays so at some level until it
\* is written to DRAM: an eviction that misses may be ignored because
\* checkEvictConflict has taken it over ("if this cache and previous cache
\* evict CL in the same cycle, handle it here").
DirtyDataKept == \A line \in modified : \E l \in Levels : DirtyIn(mem[l], line)

\* Again and again all accepted requests are answered: no request is stalled
\* for ever by a full MSHR file, a busy port or a merged miss.
RequestsAnswered == []<>(\A r \in 1..sent : answers[r] = 1)
=============================================================================
