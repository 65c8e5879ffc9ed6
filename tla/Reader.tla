------------------------------- MODULE Reader -------------------------------
(***************************************************************************)
(* What it means that a trace is of a program: somebody who executes the   *)
(* program one instruction at a time, on one machine, and takes an entry   *)
(* of the trace wherever a value is needed, finds each time the entry that *)
(* this instruction wrote.  An offloaded call is to him a call, except     *)
(* that he remembers where he was, and that the first conditional branch   *)
(* behind a speculative one goes to the code for success, or, back where   *)
(* he was, to the code for failure.                                        *)
(*                                                                         *)
(* Core and accelerator (module Offload) are two that read by blocks, each *)
(* with a return stack, and hand over to each other.                       *)
(***************************************************************************)
EXTENDS Accel

CONSTANT Readings  \* of each program, the states its reader goes through

(* code: what is left of the block he is in; stack: what he returns to;    *)
(* caller: the stack when he entered accelerated code; back: the position  *)
(* at which he did.  Modes running and failing are in accelerated code,    *)
(* done and undone between it and the next conditional branch.             *)
At(code, stack, caller, mode, back, p) ==
  [code |-> code, stack |-> stack, caller |-> caller, mode |-> mode,
   back |-> back, p |-> p]

Start(s) == At(s.blocks["main"], <<>>, <<>>, "core", 1, 1)

End(s) == Len(s.trace) + 1
Accelerated(r) == r.mode \in {"running", "failing"}

(* The branch that judges a speculative run reads no condition.            *)
Judged(s, r) ==
  s.speculative /\ r.mode \in {"done", "undone"} /\ Head(r.code).kind = "br"

(* The mode in block b; accelerated code that fails comes to ret.fail.     *)
ModeIn(r, b) == IF Accelerated(r) /\ b = "ret.fail" THEN "failing" ELSE r.mode

(* The state after the next instruction, if there is one: with the trace   *)
(* at its end, a call enters nothing and a value is missing.               *)
Following(s, r) ==
  LET op == Head(r.code)
      rest == Tail(r.code)
      target == op.dest[IF op.kind # "br" THEN 1
                        ELSE IF IF Judged(s, r) THEN r.mode = "done" ELSE s.trace[r.p].val
                        THEN 1 ELSE 2]
  IN CASE \/ op.kind \in {"op", "phi"}
          \/ op.kind \in {"call", "offload"} /\ r.p > End(s) ->
            {At(rest, r.stack, r.caller, r.mode, r.back, r.p)}
       [] op.kind \in {"load", "store"} /\ r.p <= End(s) ->
            {At(rest, r.stack, r.caller, r.mode, r.back, r.p + 1)}
       [] op.kind = "jmp" ->
            {At(s.blocks[target], r.stack, r.caller, ModeIn(r, target), r.back, r.p)}
       [] op.kind = "br" /\ ~Judged(s, r) /\ r.p < End(s) ->
            {At(s.blocks[target], r.stack, r.caller,
                IF Accelerated(r) THEN ModeIn(r, target) ELSE "core", r.back, r.p + 1)}
       [] Judged(s, r) /\ r.p <= End(s) ->
            {At(s.blocks[target], r.stack, r.caller, "core", r.back,
                IF r.mode = "done" THEN r.p ELSE r.back)}
       [] op.kind = "call" /\ r.p <= End(s) ->
            {At(s.blocks[target], <<rest>> \o r.stack, r.caller, r.mode, r.back, r.p)}
       [] op.kind = "offload" /\ r.p <= End(s) ->
            {At(s.blocks[target], <<>>, <<rest>> \o r.stack, "running", r.p, r.p)}
       [] op.kind = "ret" /\ r.stack # <<>> ->
            {At(Head(r.stack), Tail(r.stack), r.caller, r.mode, r.back, r.p)}
       [] op.kind = "ret" /\ r.stack = <<>> /\ Accelerated(r) ->
            {At(Head(r.caller), Tail(r.caller), <<>>,
                IF r.mode = "running" THEN "done" ELSE "undone", r.back, r.p)}
       [] OTHER -> {}

\* The trace is of the program: the reader finds what he looks for.  Between a
\* speculative run and the branch that judges it nothing is called and nothing
\* is read, for the recorded program has no such code.
ASSUME RecordedAssumption ==
  \A s \in Scenarios :
    /\ s.speculative \in BOOLEAN
    /\ Start(s) \in Readings[s]
    /\ \A r \in Readings[s] :
         /\ Following(s, r) \subseteq Readings[s]
         /\ reads(Head(r.code)) /\ ~Judged(s, r) /\ r.p \in 1 .. Len(s.trace) =>
              s.trace[r.p].site = Head(r.code).site
         /\ s.speculative /\ r.mode \in {"done", "undone"} =>
              Head(r.code).kind \in {"op", "phi", "br"}
=============================================================================
