------------------------------- MODULE MCCore -------------------------------
(***************************************************************************)
(* The core on traces of a loop of three static instructions, of any kinds *)
(* and several patterns of operands; the trace ends in the second          *)
(* iteration.                                                              *)
(***************************************************************************)
EXTENDS Core

Uids == 0 .. 2

(* Which static instructions each of the three reads.                      *)
Operands == {
  <<{2}, {0}, {1}>>,     \* each reads the one before, around the loop
  <<{1}, {}, {0, 1}>> }

(* Execution times of loads, stores and other instructions, and after how *)
(* many instructions addresses repeat.                                     *)
Paces == {[load |-> 1, store |-> 1, other |-> 1, m |-> 2],
          [load |-> 1, store |-> 0, other |-> 2, m |-> 1]}

Kinds == {k \in [Uids -> {"load", "store", "other"}] : k[0] # "store"}

Trace(kinds, ops, pace) ==
  [d \in Ops |-> LET u == d % 3 IN
     [kind |-> kinds[u], addr |-> d % pace.m, uid |-> u, deps |-> ops[u + 1],
      lat |-> pace[kinds[u]]]]

LoopTraces == {Trace(k, o, p) : k \in Kinds, o \in Operands, p \in Paces}

=============================================================================
