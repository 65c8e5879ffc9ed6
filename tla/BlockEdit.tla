---------------------------- MODULE BlockEdit ----------------------------
(***************************************************************************)
(* What the custom instruction tools do to one basic block with the LLVM   *)
(* library: instructions in an order, operands, and lists of uses, and the *)
(* helpers of custom_adaptor/packing.cpp on them.  A value is a triple of  *)
(* its kind and two numbers:                                               *)
(*   insn i     an instruction of the block as it was read                 *)
(*   in i       a value of another block or an argument of the function    *)
(*   pack f i   the i-th call that hands arguments to function f           *)
(*   call f     the call of function f                                     *)
(*   out f k    the k-th result of f, taken out of the call                *)
(*   arg f j    the j-th argument of f, inside f                           *)
(*   rest       stands for the users in other blocks; never in the order   *)
(* Constants are no operands here, as every test skips them.               *)
(***************************************************************************)
EXTENDS Integers, FiniteSets, SequencesExt

Insn(i) == <<"insn", i, 0>>
Input(i) == <<"in", i, 0>>
Rest == <<"rest", 0, 0>>
Pack(f, i) == <<"pack", f, i>>
Call(f) == <<"call", f, 0>>
Out(f, k) == <<"out", f, k>>
Arg(f, j) == <<"arg", f, j>>

Position(b, v) == SelectInSeq(b.order, LAMBDA w : w = v)
InBlock(b, v) == Position(b, v) > 0
Operands(b, v) == IF v \in DOMAIN b.ops THEN ToSet(b.ops[v]) ELSE {}
Uses(b, v) == IF v \in DOMAIN b.uses THEN b.uses[v] ELSE <<>>

\* v becomes operand i of user; a new use is the first of its value's list.
SetOperand(b, user, i, v) ==
    LET old == b.ops[user][i] IN
    [b EXCEPT !.ops[user][i] = v,
              !.uses = (v :> <<user>> \o Uses(b, v)) @@ (old :> RemoveFirst(Uses(b, old), user)) @@ @]

\* A new instruction with these operands, before the instruction at.
Insert(b, v, operands, at) ==
    LET values == ToSet(operands)
        added  == [w \in values |->
                      [i \in 1..Cardinality({j \in DOMAIN operands : operands[j] = w}) |-> v]]
    IN [b EXCEPT !.order = InsertAt(@, Position(b, at), v),
                 !.ops   = (v :> operands) @@ @,
                 !.uses  = [w \in values |-> added[w] \o Uses(b, w)] @@ @]

-----------------------------------------------------------------------------

\* Is A behind B in the block?  Not if either is elsewhere.
isLaterInBlock(b, A, B) ==
    InBlock(b, A) /\ InBlock(b, B) /\ Position(b, A) > Position(b, B)

\* Users that follow an instruction when it is moved: those of its value, and
\* in the DySER tool (dyser_offloader.cpp) the results that insnUsers ties to it.
Followers(b, I) ==
    Uses(b, I) \o (IF I \in DOMAIN b.insnUsers THEN b.insnUsers[I] ELSE <<>>)

CanFollow(b, user, I) ==
    InBlock(b, user) /\ user \notin b.phis /\ ~isLaterInBlock(b, user, I)

\* MaxDepth bounds a recursion that the code does not bound: at the bound
\* the stack has overflowed.
RECURSIVE moveInstructionAfter(_, _, _, _)
moveInstructionAfter(b, I, target, depth) ==
    LET without == Remove(b.order, I)
        moved   == [b EXCEPT !.order =
                       InsertAt(without, 1 + SelectInSeq(without, LAMBDA w : w = target), I)]
        Follow(c, user) ==
            IF c.ok /\ CanFollow(c, user, I) THEN moveInstructionAfter(c, user, I, depth - 1) ELSE c
    IN IF depth = 0 THEN [b EXCEPT !.ok = FALSE] ELSE FoldLeft(Follow, moved, Followers(b, I))

-----------------------------------------------------------------------------

\* Everything a value is computed from, itself included.
RECURSIVE Sources(_, _)
Sources(b, vs) ==
    LET more == vs \cup UNION {Operands(b, v) : v \in vs}
    IN IF more = vs THEN vs ELSE Sources(b, more)

hasDependencyEndingInVector(b, v, insns) == Sources(b, {v}) \cap insns # {}

\* Does an operand from outside of insns come from insns?  (A phi as direct
\* operand closes a loop and does not count.)  The recursion of the code goes
\* through operands inside insns, which customize asks about anyway.
dfsCheckConvex(b, insns, I) ==
    \E v \in Operands(b, I) \ insns :
        v \notin b.phis /\ hasDependencyEndingInVector(b, v, insns)

nonConvex(b, insns) == \E I \in insns : dfsCheckConvex(b, insns, I)

UsesAnother(b, insns, another) == \E I \in insns : Operands(b, I) \cap another # {}

checkCycle(b, v1, v2) == UsesAnother(b, v1, v2) /\ UsesAnother(b, v2, v1)

removeCycleNot(b, candidate) == candidate   \* mutant

\* Components in order, without those in a cycle with a component kept before.
removeCycle(b, candidate) ==
    FoldLeft(LAMBDA kept, comp :
                 IF \E i \in DOMAIN kept : checkCycle(b, kept[i], comp)
                 THEN kept ELSE Append(kept, comp),
             <<>>, candidate)
==========================================================================
