---------------------------- MODULE Customize ----------------------------
(***************************************************************************)
(* The custom instruction tools: packing, packing_ori, packing_sep and     *)
(* cfu_offloader, which move groups of instructions (components) of a      *)
(* block into functions and put calls in their place, and dyser_offloader  *)
(* and dyser_offloader_sep, which put in their place only calls that hand  *)
(* arguments to the unit and take results out.  A candidate is one pattern *)
(* with its components; a tool rewrites candidate after candidate.         *)
(*                                                                         *)
(* One block is modelled; components are disjoint, hold no phi and not the *)
(* terminator.  Types, metadata, opcodes and the written files are left    *)
(* out, and so is malloc in the packing functions.                         *)
(***************************************************************************)
EXTENDS BlockEdit

CONSTANTS Tools, Starts,    \* blocks as they are read
          Patterns(_),      \* block -> sets of candidates
          Threshold,        \* arguments that one struct holds
          MaxDepth          \* bound on the recursion of moveInstructionAfter

ASSUME CustomizeAssumption ==
    /\ Threshold \in Nat \ {0} /\ MaxDepth \in Nat \ {0}
    /\ \A t \in Tools : t.freeLimit \in Nat /\ t.dyser \in BOOLEAN

VARIABLES tool, start,
          block,        \* the block now
          candidates,   \* those that main has not handed to customize
          components,   \* those of the current candidate, cycles removed
          opcode,       \* of the current candidate
          functions     \* of every function its opcode, results, and where it finds its arguments

vars == <<tool, start, block, candidates, components, opcode, functions>>

-----------------------------------------------------------------------------
(* The tools: freeLimit is the number of arguments and results up to which *)
(* no structs are needed.                                                  *)

FirstOpcode == 1025
NoLimit == 1000
packing == [name |-> "packing", freeLimit |-> 4, dyser |-> FALSE, insnUsers |-> FALSE,
            bySize |-> FALSE, fresh |-> FALSE, largest |-> FALSE]
packing_ori == [packing EXCEPT !.name = "packing_ori", !.bySize = TRUE]
packing_sep == [packing EXCEPT !.name = "packing_sep", !.fresh = TRUE]
cfu_offloader == [packing_ori EXCEPT !.name = "cfu_offloader", !.freeLimit = NoLimit]
dyser_offloader == [packing EXCEPT !.name = "dyser_offloader", !.freeLimit = 0,
                                   !.dyser = TRUE, !.insnUsers = TRUE]
dyser_offloader_sep == [packing_sep EXCEPT !.name = "dyser_offloader_sep", !.freeLimit = 0,
                                           !.dyser = TRUE, !.largest = TRUE]

-----------------------------------------------------------------------------
(* customize, for one component S that becomes function f *)

InstructionsToMove(S) == SetToSortSeq(S, LAMBDA v, w : v[2] < w[2])

OutputInstructions(b, S) ==
    SelectSeq(InstructionsToMove(S), LAMBDA I : \E u \in ToSet(Uses(b, I)) : u \notin S)

\* Values from outside, each once, in the order of their first use.
Args(b, S) ==
    LET operands == FlattenSeq([i \in 1..Cardinality(S) |-> b.ops[InstructionsToMove(S)[i]]])
    IN FoldLeft(LAMBDA found, v : IF v \in S \/ Contains(found, v) THEN found ELSE Append(found, v),
                <<>>, operands)

InsertPointEarly(b, S, args) ==   \* mutant: behind the first argument, not the last
    LET deps == {Position(b, v) : v \in {w \in ToSet(args) : InBlock(b, w)}}
    IN IF deps = {} THEN Last(InstructionsToMove(S)) ELSE b.order[Min(deps) + 1]
\* The calls go before this instruction: behind the last argument of the
\* block, and behind one more if that is a phi; else before the last of S.
InsertPoint(b, S, args) ==
    LET deps  == {Position(b, v) : v \in {w \in ToSet(args) : InBlock(b, w)}}
        nonPhi(p) == CHOOSE q \in p..Len(b.order) :
                        b.order[q] \notin b.phis /\ \A r \in p..(q - 1) : b.order[r] \in b.phis
    IN IF deps = {} THEN Last(InstructionsToMove(S)) ELSE b.order[nonPhi(Max(deps)) + 1]

NumStructs(args) == (Len(args) + Threshold - 1) \div Threshold
StartIdx(i) == (i - 1) * Threshold
EndIdx(i, args) == Min({StartIdx(i) + Threshold, Len(args)})
StructArgsOverlap(i, args) ==   \* mutant: the first value of a struct is the last of the one before
    SubSeq(args, IF i = 1 THEN 1 ELSE StartIdx(i), EndIdx(i, args))
StructArgs(i, args) == SubSeq(args, StartIdx(i) + 1, EndIdx(i, args))

\* In which struct, and where in it, the function finds argument j (struct 0:
\* the arguments are not packed).
ArgToVal(j, packs) ==
    IF packs = 0 THEN <<0, j>>
    ELSE LET i == CHOOSE k \in 1..packs : j \in (StartIdx(k) + 1)..(StartIdx(k) + Threshold)
         IN <<i, j - StartIdx(i)>>

MapArgs(b, f, S, args) ==
    LET Set(c, use) == IF Contains(args, c.ops[use[1]][use[2]])
            THEN SetOperand(c, use[1], use[2],
                            Arg(f, SelectInSeq(args, LAMBDA v : v = c.ops[use[1]][use[2]])))
            ELSE c
    IN FoldLeft(Set, b, SetToSeq(UNION {{<<I, i>> : i \in DOMAIN b.ops[I]} : I \in S}))

\* A packing call takes the struct of the one before; the call of f takes them all.
PackCalls(b, f, args, packs, at) ==
    FoldLeft(LAMBDA c, i : Insert(c, Pack(f, i),
                 StructArgs(i, args) \o (IF i = 1 THEN <<>> ELSE <<Pack(f, i - 1)>>), at),
             b, [i \in 1..packs |-> i])
EncapsCall(b, f, args, packs, at) ==
    Insert(PackCalls(b, f, args, packs, at), Call(f),
           IF packs = 0 THEN args ELSE [i \in 1..packs |-> Pack(f, i)], at)

\* The DySER unit is told by number where the arguments go; nothing calls f.
DyserPackCalls(b, f, args, packs, at) ==
    FoldLeft(LAMBDA c, i : Insert(c, Pack(f, i), StructArgs(i, args), at),
             b, [i \in 1..packs |-> i])

\* The value that replaces result k: the call itself if it is the only one.
Extracted(f, k, outs) == IF Len(outs) = 1 /\ ~tool.dyser THEN Call(f) ELSE Out(f, k)

ExtractCall(b, f, k, outs, at) ==
    IF Extracted(f, k, outs) = Call(f) THEN b ELSE Insert(b, Out(f, k), <<Call(f)>>, at)

\* A result of the DySER unit has no operand; insnUsers ties it to its packing calls.
DyserExtractCall(b, f, k, packs, at) ==
    LET c == Insert(b, Out(f, k), <<>>, at)
        calls == {Pack(f, i) : i \in 1..packs}
    IN IF ~tool.insnUsers THEN c
       ELSE [c EXCEPT !.insnUsers =
                [p \in calls |-> (IF p \in DOMAIN @ THEN @[p] ELSE <<>>) \o <<Out(f, k)>>] @@ @]

\* A use of I outside of S is replaced, and its user moved behind the value.
ReplaceUse(b, S, I, value, user) ==
    IF user \in S \/ ~b.ok THEN b
    ELSE LET c == SetOperand(b, user, SelectInSeq(b.ops[user], LAMBDA v : v = I), value)
         IN IF CanFollow(c, user, value) THEN moveInstructionAfter(c, user, value, MaxDepth) ELSE c

ReplaceUses(b, S, f, k, outs, packs, at) ==
    LET c == IF tool.dyser THEN DyserExtractCall(b, f, k, packs, at)
             ELSE ExtractCall(b, f, k, outs, at)
    IN FoldLeft(LAMBDA d, user : ReplaceUse(d, S, outs[k], Extracted(f, k, outs), user),
                c, Uses(c, outs[k]))

customize(b, f, S) ==
    LET args  == Args(b, S)
        outs  == OutputInstructions(b, S)
        at    == InsertPoint(b, S, args)
        packs == IF Len(args) + Len(outs) <= tool.freeLimit THEN 0 ELSE NumStructs(args)
        body  == MapArgs(b, f, S, args)
        calls == IF tool.dyser THEN DyserPackCalls(body, f, args, packs, at)
                 ELSE EncapsCall(body, f, args, packs, at)
        moved == FoldLeft(LAMBDA c, k : ReplaceUses(c, S, f, k, outs, packs, at),
                          calls, [k \in DOMAIN outs |-> k])
    IN [block |-> [moved EXCEPT !.order = SelectSeq(@, LAMBDA v : v \notin S)],
        function |-> [opcode |-> opcode, outs |-> outs,
                     args |-> [j \in DOMAIN args |-> ArgToVal(j, packs)]]]

-----------------------------------------------------------------------------

Init ==
    /\ tool \in Tools /\ start \in Starts
    /\ block = start
    /\ candidates \in Patterns(start)
    /\ components = <<>> /\ functions = <<>> /\ opcode = FirstOpcode - 1

\* The first of the largest components.
Largest(candidate) ==
    LET size(i) == Cardinality(candidate[i])
    IN CHOOSE i \in DOMAIN candidate :
           /\ \A j \in DOMAIN candidate : size(i) >= size(j)
           /\ \A j \in 1..(i - 1) : size(i) > size(j)

\* main picks the next candidate: files come in any order, two tools sort the
\* candidates by size, and two read the program anew for each.
NextCandidate ==
    /\ components = <<>>
    /\ \E c \in candidates :
        /\ tool.bySize => \A d \in candidates : Cardinality(c[1]) >= Cardinality(d[1])
        /\ candidates' = candidates \ {c}
        /\ block' = IF tool.fresh THEN start ELSE block
        /\ opcode' = IF tool.fresh THEN FirstOpcode ELSE opcode + 1
        /\ functions' = IF tool.fresh THEN <<>> ELSE functions
        /\ components' = removeCycle(block', IF tool.largest THEN <<c[Largest(c)]>> ELSE c)
    /\ UNCHANGED <<tool, start>>

Component ==
    /\ components # <<>> /\ block.ok
    /\ components' = Tail(components)
    /\ IF nonConvex(block, Head(components)) THEN UNCHANGED <<block, functions>>
       ELSE LET new == customize(block, Len(functions) + 1, Head(components))
            IN block' = new.block /\ functions' = Append(functions, new.function)
    /\ UNCHANGED <<tool, start, candidates, opcode>>

\* The separate scheduler (schedule.cpp) moves every value taken out of a
\* struct down to its first user in the block; users keep the places they had.
FirstUser(b, v) ==
    LET users == {Position(b, u) : u \in {w \in ToSet(Uses(b, v)) : InBlock(b, w) /\ w \notin b.phis}}
    IN IF users = {} THEN v ELSE b.order[Min(users)]

move_insn_before(order, insn, target) ==
    LET without == Remove(order, insn)
    IN InsertAt(without, SelectInSeq(without, LAMBDA v : v = target), insn)

schedule(b) ==
    LET extracted == {v \in ToSet(b.order) : v[1] = "out" /\ FirstUser(b, v) # v}
    IN [b EXCEPT !.order = FoldLeft(LAMBDA o, v : move_insn_before(o, v, FirstUser(b, v)),
                                    @, SetToSeq(extracted))]

Schedule ==
    /\ candidates = {} /\ components = <<>> /\ block.ok /\ ~tool.dyser
    /\ block' = schedule(block)
    /\ UNCHANGED <<tool, start, candidates, components, opcode, functions>>

Next == NextCandidate \/ Component \/ Schedule
Spec == Init /\ [][Next]_vars

-----------------------------------------------------------------------------

\* The original value that v stands for, through calls, structs and results.
RECURSIVE Meaning(_)
Meaning(v) ==
    CASE v[1] = "call" -> functions[v[2]].outs[1]
      [] v[1] = "out"  -> functions[v[2]].outs[v[3]]
      [] v[1] = "arg"  ->
            LET f == v[2]
                from == functions[f].args[v[3]]
                struct == IF tool.dyser THEN Pack(f, from[1])
                          ELSE IF from[1] = 0 THEN Call(f) ELSE block.ops[Call(f)][from[1]]
            IN Meaning(block.ops[struct][from[2]])
      [] OTHER -> v

\* Every instruction, wherever it is now, still computes from the values it
\* computed from (customize: structs, arguments and results must match up
\* between the packing calls, the function and its results).
DataflowKept ==
    \A v \in DOMAIN start.ops : \A i \in DOMAIN start.ops[v] :
        Meaning(block.ops[v][i]) = start.ops[v][i]

Behind(v, w) == InBlock(block, v) /\ isLaterInBlock(block, w, v)
Functions == DOMAIN functions
Packs(f) == {v \in ToSet(block.order) : v[1] = "pack" /\ v[2] = f}
Outs(f) == {v \in ToSet(block.order) : v[1] = "out" /\ v[2] = f}

\* No instruction stands before one it uses, none uses one that was moved into
\* a function, and results are taken behind the arguments (customize moves the
\* calls, the users of results and, recursively, their users; nobody sorts the
\* block, and in the DySER tools no operand ties a result to its arguments).
DefsBeforeUses ==
    block.ok =>
        /\ \A w \in ToSet(block.order) \cup {Rest} : \A v \in Operands(block, w) :
               v[1] = "in" \/ IF w \in block.phis \cup {Rest} THEN InBlock(block, v) ELSE Behind(v, w)
        /\ \A f \in Functions : \A v \in Packs(f), w \in Outs(f) : Behind(v, w)

\* f's arguments need a result of g; directly: one is the operand of another.
Needs(f, g) == Sources(block, Packs(f)) \cap Outs(g) # {}
NeedsDirectly(f, g) == UNION {Operands(block, v) : v \in Packs(f)} \cap Outs(g) # {}

\* The recursion of moveInstructionAfter ends.  The one exception: the DySER
\* tool has made two functions that need each other's results (no operand ties
\* a function's results to its arguments, so the test for convexity does not
\* see the first of them) and removeCycle did not see them: they belong to
\* different candidates, or an instruction stands between them.
MovesEnd ==
    block.ok \/
    /\ tool.insnUsers
    /\ \E f, g \in Functions :
        /\ f < g /\ Needs(f, g) /\ Needs(g, f)
        /\ ~(functions[f].opcode = functions[g].opcode /\ NeedsDirectly(f, g) /\ NeedsDirectly(g, f))

==========================================================================
