# CISim: models and proofs

CISim is a cycle-driven simulator of an out-of-order core with accelerators. It
replays the trace of an LLVM program: `main()` builds the program from an LLVM
module, then calls, once per simulated cycle and in one thread, the DRAM
interface, the last-level cache and `Core::run`, until the core stops. Nothing
runs in parallel, but everything that is hard about a processor is there:
instructions wait for each other in queues, complete out of order, sleep and are
woken, are answered cycles after they asked, and the order of the stages inside
one cycle decides what each stage sees.

This directory holds TLA+ models of that machine, TLC runs over small instances
and TLAPS proofs.

## Inventory of the system

| Part | State | Operations | Talks to |
|---|---|---|---|
| Dynamic instructions (`task/dyn_insn`) | status, dependencies, cycles executed, finished flag | `updateStatus`, `execute`, `finish` | everything |
| Front end (`Core::fetch`, `Core::preprocess`, `IFU`) | FTQ, processedOps, insnQueue, targetBB, return stacks, occupied, prefetched addresses | preprocess a block, IF0 (request), IF1 (answer), misprediction stall | trace, branch predictor, instruction cache |
| Instruction window (`Window`) | ROB ring, opEntryMap, issue queue count | `addInstruction`, `canIssue`, `retireInstruction` | core, load/store unit |
| Load/store unit (`LSUnit`) | LDQ, STQ with forward lists, answers | `addInstruction`, `process`, `wb`, `commitInstruction`, `shouldFlush` | core, window, data cache |
| Back end (`Core::run` and its stages) | issueQueue, inFlightInsn, uidDynOpMap | commit, writeBack, execute, issue, dispatch, stop test | all of the above |
| Issue ports and units (`IssueUnit`) | ports occupied this cycle, units in use | `schedule`, `occupyFU`, `freeFU` | core, window, ROU |
| Branch predictors | counters, histories, TAGE tables | `predict` | front end |
| Cache levels (`L1Cache`, `L2Cache`, `LLCache`) | requests, MSHRs, evictions, answers, ports | `process`, `willAcceptTransaction`, `recvRequest`, `recvResponse` | LSU, IFU, each other, DRAM |
| Cache sets (`FunctionalCache`) | lines, LRU order, dirty bits | `access`, `insert`, `evict` | cache levels |
| DRAM interface, SimpleDRAM | outstanding reads, delay queue, bandwidth | `addTransaction`, `process` | LLC |
| DRAMSim2 | transaction and command queues, bank states twice, buses, refresh and power state | `addTransaction`, `update`, `receiveFromBus` | its own trace loop; the DRAM interface when `simple` is off |
| Accelerator (`Accelerator`) | contexts, scoreboard, in-flight instructions | `fetch`, `processQueue`, `tick`, `switchContext` | core, LSU |
| DySER unit, ROU | tokens per invocation; per-stream request order | `notify`, `getData`, `tick`; `canIssue`, `releaseEntry` | core |
| Offline tools (`custom_adaptor`, `llvm`) | graphs of candidate instructions | convexity, cycle removal, knapsack, moving instructions | none at run time |

What is hard, and what makes each part correct:

- **Window.** The ring's two indices move in different stages, "full" and
  "empty" are read off one entry, and the map outlives the instructions it
  names. Correct when the ring holds the instructions in flight in order, the
  map never names a stolen entry, and an instruction never issues before its
  operands exist.
- **Load/store unit.** Loads are forwarded from stores that have no data yet,
  sleep, and are woken by the store's own progress; stores leave for the cache
  out of program order. Correct when no sleeper is forgotten, no load passes an
  aliasing store, and the assertions on completion hold.
- **Back end.** An instruction is found through five containers; the stop test
  looks at each. Correct when the stages keep the window's contract, no
  instruction is lost, and the simulation comes to its end.
- **Front end.** Two different groupings of the trace (packages of the FTQ, runs
  of consecutive instructions in IF1) must agree; a misprediction must hold
  fetch until the branch is decided, and stall for its penalty; a phi must be
  told where control came from.
- **Caches and DRAM.** Requests are refused and retried, answers meet
  evictions. Correct when every load is answered once, no line is twice in a
  set, and a dirty line is never dropped.
- **Accelerator and offloading.** Core and accelerator take turns on one trace
  and one sequence of numbers, and a speculative run may have to be taken back.
  Correct when each reads the entries its own program wrote, nothing is left in
  the accelerator when the core goes on, and operands are the latest instances.
- **DySER, ROU, issue ports.** Tokens must match invocations, streams keep their
  order, units are taken and given back by different stages. Correct when no
  unit is lost or shared and each result follows its own arguments.
- **DRAMSim2.** Controller and ranks keep the same state separately, some cycles
  apart; commands overtake each other. Correct when no check fires, bursts never
  overlap, refreshes leave in time, accesses to one address keep their order and
  all are answered.
- **Branch predictors.** Folded histories are maintained by rotation and never
  recomputed. Correct when they are the folds of the outcomes.
- **Custom instruction tools.** Instructions move, operands change hands and
  the lists of uses change under the loops that walk them. Correct when the
  rewritten block computes the same from the same and the moving ends.

## Modules

| Module | Models | Code |
|---|---|---|
| `DynOp` | the statuses of an instruction and their numbers | `dyn_insn.h`, `dyn_insn.cpp` |
| `InOrderCommit` | abstract: bounded in-flight, start after operands, commit in order | (specification) |
| `Window` | the reorder buffer, its map and the issue queue, one action per operation | `window.cpp`, dispatch and issue loops |
| `WindowProofs` | theorems about `Window` | |
| `Lsu` | both queues, forwarding and waking, cache traffic | `lsu.cpp`, `lsu.h` |
| `LsuProofs` | theorems about `Lsu` | |
| `Core` | the stages of a cycle over `Window` and `Lsu` | `core.cpp`, `issue_unit.cpp` |
| `CoreProofs` | theorems about `Core`, by way of those about `Window` and `Lsu` | |
| `CacheSet` | one set of a cache: recency list, map, dirty bits | `FunctionalCache.cpp` |
| `MemHierarchy` | data cache, second and last level and DRAM, call by call | `cache.cpp`, `cache.h`, `DRAM.cpp` |
| `Fetch` | `preprocess`, the fetch target queue and the fetch unit | `core.cpp`, `ifu.cpp`, `hardware.cpp` |
| `BlockEdit` | a basic block under the LLVM operations the tools use, and the tools' helpers | `packing.cpp`, `dyser_offloader.cpp` |
| `Customize` | the six tools and the scheduler, step by step over a block | `custom_adaptor/*.cpp` |
| `IssuePorts` | ports, units, micro-ops, alternatives | `issue_unit.cpp`, `port.h` |
| `Dyser` | the unit's tokens and firing; the request ordering unit | `accel.cpp`, `rou.cpp` |
| `DyserCore` | the core's stages over `IssuePorts` and `Dyser` | `core.cpp`, `issue_unit.cpp` |
| `Accel` | the accelerator: fetch, queues, scoreboard, retirement | `accel.cpp`, `task.cpp` |
| `Offload` | core and accelerator taking turns, roll-back | `core.cpp` |
| `DramTiming`, `DramRank`, `CommandQueue` | DRAMSim2: delays and bank states; a rank; the scheduler | `SystemConfiguration.h`, `Rank.cpp`, `CommandQueue.cpp` |
| `MemoryController` | a channel driven by a trace, over the three modules above | `MemoryController.cpp`, `TraceBasedSim.cpp` |
| `Tage` | the TAGE predictor as a function from state to state | `tage.cpp`, `tage.h` |
| `Bpred` | all branch predictors on a loop of branches | `branch_predictor.cpp` |
| `Reader` | reference: the trace read by the program executed one instruction at a time | (assumption on traces) |
| `Basics` | general facts for the proofs: induction on sets of numbers, folds, cardinalities, sequences | |
| `MemProofs` | theorems about `MemHierarchy` and `CacheSet` | |
| `FetchProofs` | theorems about `Fetch` | |
| `OffloadProofs` | theorems about `Accel` and `Offload` | |
| `DyserProofs` | theorems about `IssuePorts`, `Dyser` and `DyserCore` | |
| `MC*` | instances for TLC | |

Instructions are named by their dynID. The code numbers instructions in fetch
order from 0; after offloading the numbers jump, but the code only compares them
with `<` and `=` (and with 0), so the models use the positions in the trace of
the core. This needs numbers to be distinct, and `entryMap` of a load or store queue is
keyed by them; after a failed run of the accelerator they repeat (see `Offload`). A missing map entry or null pointer is `None` (in `Fetch`, where
blocks have names, a null branch is `NoBranch`).

### Window

`status`, `ROB`, `opEntryMap`, `robHead`, `robTail`, `robUsed`,
`issueQueueUsed`, `totalCommit` are the C++ members; `issueQueue` is the
core's vector as a set (it is always sorted by dynID, because dispatch appends in
order); `nextOp` stands for the front of `insnQueue`; `dynDeps` for the
dependency lists. `Dispatch` is one iteration of `Core::dispatch` with
`Window::addInstruction` and the part of `insnToIssueQueues` for that
instruction; `WaitForPort` and `Issue` are the two outcomes of an iteration of
`IssueUnit::issue` for an instruction with operands; `Retire` is one iteration of
`retireInstruction`. `Execute` lets the rest of the core change any statuses of
instructions in execution.

### Lsu

The load queue is a set, since nothing depends on its slots; the store queue
keeps its slots, because `process` drains and scans it in slot order.
`forwardOp[d] # None` is `dataForwarded`. `process` is one action: the
whole of `LSUnit::process`, with the requests that the cache accepts chosen
freely (the cache is external here). The traces `Programs` give each
instruction a kind and an address.

### Core

A cycle of `Core::run` is a sequence of steps; `stage` is the next stage, `n`
counts the iterations of its loop and `pos` is where the scan of the issue queue
goes on. The actions of the window and of the load/store unit are conjoined
where the code calls both (dispatch, issue, retire). What `Window` leaves free,
`writeBack`, `execute` and `process`, is spelled out, and the run checks
that these do only what `Window` allows (`ImplementsWindow`). The operands of
an instruction come from `uidDynOpMap`, as in `insnToIssueQueues`. External:
how many instructions the front end delivers in a cycle, whether a port is free,
and the cache.

### CacheSet and MemHierarchy

A set is a record of the recency list and of the map that finds its lines, since
`insert` can make the two disagree; its operators are the methods of
`CacheSet`. A level is a record of its queues (`incoming`, `pq`, stalled
misses, `outcoming` requests and answers, evictions), its MSHRs and its ports.
`turn` is the call that comes next in a cycle: DRAM, then the last level, the
second level and the data cache, then the requests of the load/store unit, in
the order of `main()` and `Core::run`; each `process` is one action with
everything it calls. Levels have the latencies of the configuration; DRAM may
answer after any number of cycles.
`mshr` names, for every line, who waits for its fill; `missing` are the lines with an
MSHR. `pq` is ordered by cycle only, so what is due leaves it in any order
(`Orders`). `Keep` and `Count` are the part of a sequence in a set and its length.
`InvalidateAbove` and `DirtyAbove` are the recursive `Cache::invalidate`.

`MemAssumption`: levels have ways, MSHRs, ports and a latency of at least one (the
shipped configurations give all of them), and a program touches finitely many
lines.

### Fetch

`walk` holds what `preprocess` keeps between cycles (`targetBB`,
`previousBB`, `prevBBTerminator`, `fetchForRet`, `abnormalExit`, the three
return stacks as one, `globalDynID`) and how many entries of the trace are
left; `from`, `prevBlock` and `phis` are history variables that record where
control really came from. `FetchRun` and `FetchOld` are a call of `Core::fetch`
with the end of the cycle in `Core::run` (which ends the flush stall), with and
without a new run from `preprocess`. Which way a branch goes, and whether it was
mispredicted, is free: the trace and the predictor decide it. A load stands for
loads and stores, `ext` for calls of functions without a body. Writing
`fetchOpBuffer[0]` of an empty buffer is undefined; `Dangling` gives the two
outcomes of a build whose vector leaves the old slot in place; `MayBeOverwritten`
is the one place where `NoFetchPastMispredict` makes an exception for it.

`ProgramAssumption` says what LLVM guarantees of a module (blocks end in a
terminator, branches and calls of functions with a body go to blocks, an invoke
has a block to go on at) and that the one counter gives no number twice.
`QueueAssumption`: `insnQueue` holds more than a package (64 and 16 in the code).

### BlockEdit and Customize

A block is a record of the order of its instructions, their operands and, as in
LLVM, for each value the list of its uses with the latest first, since the tools
walk these lists while they change them. `Customize` hands one candidate after
the other to `customize`; the six tools share the steps and differ in the
fields of `tool`: how many arguments need no struct, whether calls remain
(DySER: only packings and extracts), which `moveInstructionAfter` they have.
`Meaning` follows a value back through structs, calls and arguments to what it
was computed from; `DataflowKept` compares that with the block that was read.

### IssuePorts, Dyser, DyserCore

The ports are one record, the state of a DySER unit another, and `DyserCore`
has the stages of the core over both: `writeBack` gives units back,
`execute` hands arguments over or takes results, the issue scan asks the
request ordering unit and then the ports. The operations of the port model that
look odd are kept: a port is noted as occupied before a unit is found on it and
again afterwards, so the scan may stop before all ports are taken, and the units
of an alternative that failed are taken along with those of the one that
succeeds.

`DyserCoreAssumption`: there are finitely many types of units, and the instructions
of a program name only types, and ports that its machine has; at least one
instruction is dispatched per cycle and the issue queue has room for one; an
instruction in the function of a unit that uses another's result names one of the
function. Nothing is assumed about dependencies, alternatives, micro-ops, streams or
the shape of functions.

`InvocationAssumption` says what `ResultsFollowArguments` rests on, since the unit
does not know which invocation a token is of. A packing takes at least one cycle (with
none, `writeBack` would finish it before `execute` notifies). Packings cover inputs only
("pack call should never touch" an output, accel.cpp:719) and an input always with
the same offset, so that all its tokens are in one stream; extracts name an output. And
the calls of an invocation have no higher rank among those to their input than its
extracts among those to their output: the tools give every invocation one packing per
argument and one extract per result, in one block. Two functions on one unit break
that (see the findings).

### Accel and Offload

Both programs, the traced one and its accelerated form, name the sites whose
values the trace holds; an entry is `[site, val]`. That the right reader reads
an entry, through blocks, stacks, hand-overs and roll-backs, is then a property
(`TraceInStep`), not an assumption. `tick` of the
accelerator is `AccFetch`, `AccRetire` and `AccIssue` per instruction; the
core's pipeline is reduced to what the hand-over depends on. `failed` is a
history variable with what failed runs fetched. `Leading` counts the front
elements that a loop over a queue takes before its first failing test.

`lsq` holds instructions, where `LDSTQ::entryMap` goes by dynID. The two agree
while no two stores in the queue share a number. After a failed run they may, if a
store of the run still waits for the cache when the same store of the original code
is dispatched: `ForwardingFindsOne` fails (see the findings). From the first such state on
the code frees the wrong entry or stops at its assertion, and the model and the theorems about
`Offload` no longer speak of it. The programs of the run `accel` never reach it: its failed run
has a store, but the same store of the original code gets another number.

`ScenarioAssumption`: programs begin at `main`, a block ends in a terminator and
goes to blocks, the blocks that offloaded calls enter lead only to each other and
hold no offloaded call (`IsAccelerated`), a uid names one instruction, and only a
phi is its own operand. `LimitAssumption`: the reservation list (1024 in the code)
has room for one instruction; the other limits may even be 0.

`Reader` says what it means that a trace is of a program: `Following` executes the
program one instruction at a time, on one machine with one stack, and takes an entry
for each value; `Readings` are the states this comes through, and
`RecordedAssumption` says that each entry taken is of the site that takes it.
It says nothing about blocks, queues, the two machines or their hand-overs. It also
says that between a speculative run and the branch that judges it the program
neither calls nor reads. The code relies on this: it takes the first conditional
branch after switching back for the one between `offload.true` and `offload.false`
(core.cpp:687-712), without looking which it is, and on failure puts the trace back
to where the call was, with all that was read since. `MCOffload` computes `Readings` of
its programs, and TLC checks the assumption on them.

### DramTiming, DramRank, CommandQueue, MemoryController

`MemorySystem::update` is one call per cycle whose parts run in a fixed order;
they are the actions, sequenced by `stage`. The code compares absolute cycles
with the current one; the models keep the cycles still to wait, so that states
recur. The policies of the system ini file (row buffer, queue structure,
scheduling, address mapping, power mode) are the records of `Inis`. A test of
the code that ends the program sets `fault`. The environment is the loop of
`TraceBasedSim.cpp`; its receiver of answers, which is compiled only with
RETURN_TRANSACTIONS, stands for whoever registers the callbacks. In CISim the
DRAMSim2 object of the DRAM interface is under `#if 0` (DRAM.hpp:43-48) and the
configurations say `simple: true`; the library is built and linked all the same.

### Tage and Bpred

The core asks for and reports a branch in one call, so a step is one branch.
The program is a loop over a few branches with free outcomes. Numbers are those
of the code, so `Tage` uses the bitwise operators and stays out of the proofs.
`rand()` is a free choice.

## Runs

| Run | Instance | What it shows |
|---|---|---|
| `window` | 5 instructions, ROB of 2, issue queue of 2 | ring, map, readiness; refinement of `InOrderCommit` |
| `lsu` | all 256 traces of 5 accesses to 2 addresses that start with a load; queues of 2 | forwarding and wakeup under any order of events |
| `core` | 72 loop traces of 5 instructions; ROB 4, issue queue 3, 2 per cycle; under fairness | composition keeps the contracts, stops only when done, and stops |
| `mem` | all traces of three requests to three lines of one set, some of four; one line in the data cache, two below; one or two MSHRs and ports per level; a prefetch | requests are conserved and answered, one fill per line, no line twice |
| `mem_evict_race` | a store, and fills that evict its line at two levels at once | finding: the dirty line is lost |
| `fetch` | ten blocks with a loop that calls a function and a declaration, a loop of one branch, an invoke, a switch; traces of 1 to 7 entries; packages of 2, queues of 2 to 4 | packages and runs agree, mispredictions stall, phis are not misled, all is delivered |
| `fetch_penalty` | the same with `flush_penalty` 2 | finding: the penalty is one cycle |
| `tools` | six tools; every block of 4 instructions (some of 5) with a phi, a branch and a user elsewhere; every pair of disjoint components of 2 or 3, as one candidate or two | dataflow is kept, order is right, moving ends but for one named case |
| `dyser` | two invocations of a unit with two inputs and outputs, a load, a two-micro-op instruction; three machines | units are accounted for, streams hold the requests that wait, results follow arguments, all finishes |
| `accel` | three offloads of which one fails after a store; an offloaded loop with a call; its trace cut off | trace, numbers and operands agree through hand-overs and roll-backs; the end is reached |
| `dram` | 2 ranks of 2 banks of 2 rows, 3 accesses to 3 addresses, 3 policies, refreshes due early, late and in between | no check fires, bursts are exclusive, refreshes leave, order is kept, all are answered |
| `tage` | all predictors, loops of 1 to 3 branches, 10 outcomes; histories of 8, 5, 3, 1 folded to 3, 3 and 2 bits | histories are folds, useful entries are kept |

Bounds. Five instructions in a ring of two to four entries make every index
wrap and every entry be reused; two-entry load, store and issue queues make each
of the queues fill up and refuse while others have room. Traces of three static
instructions executed one and two thirds times contain an instance of a static
instruction before and after the instance that reads it, which is all that
`uidDynOpMap` distinguishes.

Three lines that compete for one set are enough to evict every line while it is
asked for again; four requests let a replaced line come back. Seven trace entries
go through the loop twice, or once and on through the switch, the invoke and its
return; packages of two instructions cut blocks in one, two and three.

Blocks of four instructions contain each shape on which the tools differ: a
value used inside and outside a component, a chain that leaves a component and
comes back, two components that need each other. Two invocations with different
orders of arguments and results are the least that can be mixed up. Three
rounds of the offloaded loop put a failed run between two good ones, and the
loop inside the accelerator overlaps three iterations. In `dram` two addresses
fall into two rows of one bank and one into another rank, so that rows are hit,
closed for another and closed by a refresh; REFRESH_CYCLES is 40, more than it
takes to drain a full queue (with 12 a refresh can be replaced by the next
rank's; the shipped files give about 1300). Ten outcomes push bits out of every
history, each of which is shorter than, as long as, or longer than its fold.

Fairness of `mem`: `WF` of the next call of the cycle, which `main()` makes
unconditionally, and `SF` of the answers of DRAM, which serves its queue in
finite time. Fairness of `fetch`: `WF` of `Core::fetch`, of an answer of the
instruction cache (`RequestsAnswered` of `mem` for the other instance of that
class), of the dispatch of the front of `insnQueue` and of the end of a branch
that was dispatched (`SimulationStops` of `core`).

Fairness of `core`. `WF(Next)`: `main()` calls `Core::run` as long as the
core runs. `SF` on four outcomes that recur in every cycle: the oldest
instruction finds a port, the cache accepts its request and some retired store,
the cache answers it, the front end delivers. Ports are freed every cycle and
units when their instruction finishes; the cache refuses only while its queues
are full. Nothing is assumed about younger instructions.
Fairness of `dyser` and `dram`: `WF` of the next stage, as one call per cycle
runs them all; what a load takes is bounded by `MaxLoadCycles`. Fairness of
`accel`: `WF(Next)`, and `SF` that a dispatched instruction executes and that the
load/store unit gets on with what waits in it, both as above.

## Proofs

`WindowProofs` proves, for every trace length, reorder buffer size and issue
queue capacity (`NumOps \in Nat`, `RobSize \in Nat \ {0}`,
`IssueQueueCapacity \in Nat`):

- `TypeCorrect`, `RingCorrect`, `MapCorrect`, `OldestNeverBlocked`: the four
  invariants of `Window`, the last three of them also checked by the run `window`;
- `WindowImplementsInOrderCommit`: the refinement of that run.

None of the invariants is inductive alone. `IInv` adds the position of the tail
(`RingIndices`), where the status of an instruction says it is
(`StatusAgrees`) and that dependencies are older (`DepsOlder`). `RingStep`
removes `%` from the reasoning; `SlotsDistinct` and `SlotsCovered` say that
the distance from the head names each entry once; `EnterRing`, `LeaveRing` and
`EnterMap` are the effects of dispatch and retirement. `ReadyMeansResults` is
the key to the refinement: an entry found through the map is that of the
dependency itself, and a dependency not found has retired.

`LsuProofs` proves, for every set of traces and all queue sizes
(`LdqSize, StqSize \in Nat`):

- `CompletionsCorrect` and `WakeupsKept`: the assertions of
  `LSUnit::doForwardData` and `LDSTQ::completeInstruction`, and that a sleeping
  load can be woken;
- `LoadsOrdered`: no load overtakes an older store to its address or is forwarded
  from one that is not the youngest; and its consequence `FlushNeverNeeded`, that
  `Window::retireInstruction` may drop the answer of `shouldFlush`
  (`NoFlushNeeded`, which needs no run of its own). These two assume `FirstIsNotStore`: `forwardData` starts its
  search with 0 as if it meant "none" and therefore never finds instruction 0.

Its `IInv` adds what the queues hold and of whom (`QueuesAgree`), that an
instruction has no data before it executes (`StatusAgrees`), that a load is on the
list of the one store it is forwarded from or waits for one answer (`OneWait`), and
the fact on which everything about order rests: no queued store lies between a
load and the store it is forwarded from (`YoungestForwarded`).
`LoadsFollowLaterStores` is the rest of `LoadsFollowStores`, about loads that ask the
cache, without instruction 0, which makes the invariant hold with no assumption on
traces. The drain of the store queue and
the scan of the load queue are one step, so `ProcessIInv` is the long part: a load
forwarded from a store is forwarded from the youngest in the queue after the
drain. `Smallest` of `Basics` (from the well-foundedness of strict inclusion) gives
`CHOOSE` its witness in `ForwardedFromYoungest` and `FreeEntry`.

`CoreProofs` composes the two. `WindowStep` and `LsuStep` say that every step of
`Core` is a step of `Window` and a step of `Lsu`, or leaves them alone; with them
the invariants of both modules hold in the core, for all sizes and widths, and
`CoreImplementsWindow`, `CoreCommitsInOrder` (the core implements `InOrderCommit`)
and `CoreImplementsLsu` follow. The two lemmas need each other's invariants:
that `writeBack` and `execute` touch only what the window lets them is
`InFlightAgrees`; that a load finished by `writeBack` was executing or asleep
comes from the load/store unit. `CInv` adds that `uidDynOpMap` holds the last
dispatched instances (`LastDispatched`), from which `OperandsCorrect` follows, and
that a stopped core is between two cycles (`StoppedAtEnd`, for `StopsCorrectly`).
The theorems assume `NoOwnOperand`: `insnToIssueQueues` registers an instruction
before it looks up its operands, so a phi that names itself would wait for itself.
The `Same...` lemmas identify `W` and `L` of `Core` with the instances through
which the theorems are imported.

`FetchProofs` proves, for every program, numbering, trace length, queue size and
package size that the three assumptions of `Fetch` allow, the four invariants of the
run `fetch`: `PackagesMatch`, `NothingPastMispredict`, `PhisAreTold` and
`StopsOnlyAtEnd`. Its `IInv` has four parts.

- Where a run may begin: at the first instruction of a block or behind a call
  (`IsRest`, `StackAgrees`, `WalkAgrees`), so that the number behind the last
  instruction walked is never that of the next one (`RunsApart`). This is what
  keeps IF1, which goes by consecutive numbers alone, from taking the front of the
  next run into a package.
- `Cuts`: the packages asked for and queued cut `processedOps` at exactly the
  places where IF1 will stop (`CutsAt`). `CutsAppend` adds the packages of a run,
  `CutsTail` takes one from the front; `NumbersAgree` and `RequestsAgree` tie
  them to dynIDs and to the one request under way.
- `BranchesHeld`: a branch that was mispredicted and has not finished is still
  followed by a package that waits for it (`Held`), or by nothing, or that package
  was overwritten.
- `EmptyAtEnd`: nothing is left to walk once `processedOps` is empty.

`AnswerIs`, `AskIs` and `QueuesStep` are the effect of a call of `fetch` on the
queues; `TerminateIs` and `AfterRunIs` that of `preprocess` on the walk.

`OffloadProofs` proves, for all programs and traces that `ScenarioAssumption` and
`RecordedAssumption` allow and all limits, `NumbersInOrder`, `FinishedMeansEmpty`,
`LatestOperands` and `InStepWithTrace`, the four invariants of the run `accel` (the
first three without `RecordedAssumption`). Two inductive invariants are needed.

The parts of `IInv` need each other. An accelerator that said it was finished with something left to fetch
(`NothingLeftBehind` fails) would number it after the core had taken over, so
`NumbersFollowProgram` rests on `NothingLeftBehind`, which rests on `TickAgrees`
(what an empty reservation list says in the course of a tick) and `HeadRuns` (the
first of the scoreboard still waits or runs, or retirement would have taken it).
`HandOver` and `NumbersAgree` say who may fetch, and which numbers a failed run
takes back. `OperandsAreLatest` rests on order: instances of one instruction start
in the order of the program (`InstancesInOrder`, from `OrderAgrees` and
`PassAgrees`, what a pass over the reservation list left behind cannot go), so that
`findDynamicDeps`, which searches the list of instructions not yet done, finds the
latest instance unless it is done (`ProducerIs`, `DepsAgree`).

`StepInv` (`StepInductive`, over `IInv`) relates the two machines to the one reader
of the module `Reader`, as a refinement would. `ReaderAgrees` says, in each phase of a
hand-over, at which code, with which stack and in which mode the reader is when he is
where `tracePos` is: when the call is fetched but not executed, while the
accelerator fetches, when it has fetched all and has yet to become empty, and when
the core fetches. A block is one step of a machine and many of the reader: `Walk`
takes him to the instruction that stops the fetch, `LeadsTo` behind it, and
`AccReaderStep` and `HostReaderStep` match that with what the machine fetches next.
`SitesStep` reads off the sites. That no entry is read twice is `OnceAgrees`: what
counts was read before `tracePos` and, in a speculative run, what counts and is older
than the run was read before `rollbackPos`, so that going back there takes back
exactly the entries of instructions that no longer count. `EndAgrees` is for traces
that end inside a run.

`MemProofs` proves, for every number of lines, ways, MSHRs and ports, all latencies
and every sequence of requests and prefetches, the three invariants of the run `mem`:
`RequestsNotLost`, `OneFillPerMiss` and `LinesOnce`. Its `IInv` has these parts.

- `TypeOK` says which transactions a queue may hold: no eviction among the answers or
  behind an MSHR, no prefetch of the data cache behind one of its MSHRs.
- `RequestsConserved` and `MshrTracksMiss` are sums over queues. What a call does to
  them is `ProcessIs`, `ResponsesIs` and `RestIs`, by induction on how much of the
  queue a loop has done (`Basics` has the folds as functions of that). A call works on
  two levels or on a level and DRAM, so the sums only come out with what the others
  hold: `Balanced` is the sum of one level given that, `Even` the sums of all.
- `SetsAgree`: a set names a line once and its map finds it (`Clean`), not while the
  line is missing; a stalled request is for a line that is neither missing
  nor present. Without this a retry could open an MSHR for a line that a fill has
  brought, whose second fill would insert it twice.

The data cache's prefetches bypass its MSHRs. `SetsAgree` therefore holds of its set
only until the first prefetch, as `NoDuplicateLines` says, and its sums leave them
out; the levels behind it merge them like other misses. `GoodGrows` is the step at which the
first prefetch widens what the queues may hold.

`DyserProofs` proves, for all machines (with issue ports or naive), all programs,
alternatives and micro-ops, all functions of units and all sizes, the three
invariants of the run `dyser`: `UnitsKept`, `StreamsKept` and `ResultsInOrder`.

- `UnitsAccounted` is not inductive, since the units an instruction holds are a
  sequence: freed with a unit in it twice, it would falsify the count. `Accounted` says
  that no unit is held twice, by one instruction or by two (`Held`), that pipelined
  units are never held, that the busy units are those held (`InUse`) and that
  `fuAvalMap` counts the others (`Counted`). `OccupyIs` and `FreeIs` are what
  `occupyFU` and `freeFU` do to that; `ScheduleIs` says that what `schedule` takes is
  free and in it once. This holds although an alternative that fails leaves its units
  to the next one, because they also stay on ports that are noted as occupied, and
  each unit is looked for on a port of its own (`FindIs`).
- `QueuesAgree`: the issue queue is in program order and apart from the instructions
  in flight, and only the latter hold units. So the scan of the queue grants units
  only to instructions that hold none, and dispatch appends behind all requests.
- `InStreams` is `StreamsMatchQueue` for any set of instructions. The scan shrinks the
  set instruction by instruction: what it lets issue is at the head of its stream, so
  what is left of the stream is the rest of the queue (`ReleaseIs`, `ScanGoesOn`).

The loops of `writeBack`, `execute`, `issue` and dispatch are folds; each is a function
of how far the loop has come (`WbInduct`, `ExecInduct`, `IssueInduct`,
`RequestInduct`), and what holds of the part behind it is proved by induction on that
number.

`ResultsInOrder` needs a second invariant over the first, `TokensKept`.

- `InOrderOfStreams`: if a call has issued, so have all older ones of its stream, and
  those in flight are there in program order (`OldestIssue`, from the heads of the
  streams). Hence packings of a stream hand over in order (`HandedInOrder`) and extracts
  of a result are answered in order (`AnsweredInOrder`): in one pass of `execute` an
  older extract asks first, and a pass only takes results away (`Through`).
- `Accounts`: for each unit there is a count c of how often each instruction of its
  function has started, with which tokens waiting for an instruction, plus its c, are
  at most the tokens that came (`Came`) or, for a result, the c of its producer; and
  results waiting, plus results taken (`Went`), are at most the c of theirs. c is no
  variable of the model: `TickTokens` gives the next one for a call of `processQueue`,
  and handing over or taking a token only moves the two ends (`HandTokens`,
  `TakeTokens`).
- `AnswersFollow`: if a result went A times, its instruction started at least A times, and
  the instructions that started A times or more are closed under operands, so all that
  the result is computed from are among them (`InputsCame`; `ComputedFrom` is stated as
  the least closed set, so no induction over the function is needed). Each input
  therefore came A times. A packing that is not handed over would be among the first A
  of its input, and the older ones alone are fewer.

Only model-checked: DRAMSim2 (whose timing argument is
about lengths of time, not shapes of state), the tools (folds over data), the
predictors (whose bitwise operators the prover cannot use), the two refuted
properties of the findings, and liveness (which is beyond the prover).

## Findings

Two runs end in a violation of what a comment or a configuration says;
`PROJECT.json` quotes the lines: the dirty line that two levels evict in one
cycle (`mem_evict_race`) and the flush penalty that lasts one cycle whatever its
configuration (`fetch_penalty`).

Seen while modelling, reproducible with the modules here but without a run of
their own:

- `LSUnit::forwardData` begins its search with dynID 0 for "none" (lsu.cpp:204).
  A first instruction that is a store, and a load of its address behind it, fail
  the assertion of line 215; the run `lsu` starts each trace with a load.
- After a failed run the core counts on from the call (core.cpp:1236-1239), and
  nothing empties the store queue. If a store of the failed run still waits for the
  cache when a store of the code that is run again gets its number, a load behind
  them fails the assertion of lsu.cpp:215; otherwise `freeEntry` (lsu.h:102) of the
  older one empties the entry of the newer one, which is lost, and the older one is
  sent and freed again until `usedSize` is negative (lsu.h:109). `ForwardingFindsOne`
  of `Offload` states the assertion; with `Scenarios <- MCStoreThenFail` TLC finds it
  violated. In the model the cache may refuse at any time; in the code it takes
  `store_ports` stores in a cycle, so more of them must retire together than it takes
  while the front end fetches: with the defaults of `params.h`, 8 ports and a queue
  of 128, a full queue takes 16 cycles.
- Retired stores leave the store queue in the order of its slots
  (lsu.cpp:120, lsu.h:46). With two queue entries and three stores to one
  address the third takes the first slot and leaves before the second; a load
  is then forwarded from the second, not from "the youngest store insn"
  (lsu.cpp:216).
- A phi that is its own operand is registered as its own last instance
  (core.cpp:897) and never issues; the run `core` leaves such phis out.
- A store that joins the MSHR opened by a load leaves the line clean
  (cache.cpp:362); `to_prefetch` is sent again in every cycle (cache.cpp:26);
  DRAM asks for one port and takes another (DRAM.cpp:45); retired stores may
  still be queued when the simulation stops (core.cpp:1216).
- `fetch` reads FTQ[0] without a test (core.cpp:541), without consequence;
  the return from an invoke reads a name from the trace outside SimPoint mode
  too (core.cpp:601).
- `preprocess` writes `fetchOpBuffer[0]` of an empty buffer when the trace ends at
  a conditional branch (core.cpp:655). With the slot still in place, a
  mispredicted last branch can be made to hold up its own package for ever;
  `Delivered` names this as the only way the front end can stop delivering. A
  package that already waits for an earlier branch forgets it in the same way and
  is let past; `NoFetchPastMispredict` names this as its one exception.
- On the accelerator a phi waits for nothing, because its operands are looked up
  before it is told where control came from (accel.cpp:318); a branch whose
  value is the read that finds the end of the trace leads to a null block
  (accel.cpp:351), which `Accel` excludes by a guard; a load in the function of a
  DySER unit never finishes (accel.cpp:763).
- A DySER packing or extract that stays in execution notifies or asks again in
  every cycle unless it is marked (core.cpp:1131).
- Two functions on one DySER unit in a block take results in the order of the
  block, which need not be that of their arguments ("FIX THIS: only support one
  candidate component per bb now", dyser_offloader.cpp:788); two functions that
  need each other's results make `moveInstructionAfter` recurse without end,
  the one exception of `MovesEnd`.
- With posted column accesses (AL = tRCD-1, which the comments of the device
  files allow, and BL = 8) `MemoryController` reaches the "Data Bus Collision" exit;
  all shipped files have AL = 0.
- TAGE: the test that should prefer the alternate prediction for new entries is a
  tautology (tage.cpp:243), and the draw of a bank reads an array filled by bank
  with a count (tage.cpp:374-384), so that often no entry is allocated although
  one is free.

## Plan

1. Done: `DynOp`, `InOrderCommit`, `Window`, `Lsu` and `Core` with proofs,
   `CacheSet`, `MemHierarchy`, `Fetch`, `BlockEdit`, `Customize`, `IssuePorts`,
   `Dyser`, `DyserCore`, `Accel`, `Offload`, the four DRAMSim2 modules, `Tage`, `Bpred`.
2. Proofs. Done: the safety properties of `Window`, `Lsu`, `Core`, `Fetch`,
   `MemHierarchy`, `DyserCore` and `Offload`.
3. That `MemHierarchy` implements the external cache of `Lsu`.
4. Splitting and inlining of the LLVM passes, the trace protocol of the
   instrumentation.

## Not modelled

In the parts that are modelled: the instruction cache as a second instance of the
cache levels, `mshr_size` 0, the lines the stride prefetcher predicts (any
lines may be prefetched, up to four in a cycle; the run `mem` has one in all, the
theorems any number), the prefetches of the IFU, SimPoint mode; switches are
branches and invokes calls in `Offload`. Several DRAM channels (independent
copies), the clock-domain crossing, stored data, energy and statistics of
DRAMSim2. In the tools: reading patterns and areas, the knapsack (its result is
switched off), types and metadata, `generate_bblist`.

Statistics, power figures, parameter files and the construction of the program
from LLVM modules have no behaviour beyond arithmetic and parsing. The LLVM
passes are single transformations of a module at compile time, without state
that outlives a function. `Window::flush` and `Window::dispatch`, `LSUnit::flush`,
`issue` and `getAliasOp`, `CacheSet::evict` and `Cache::flush` are never called.
