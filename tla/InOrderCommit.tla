--------------------------- MODULE InOrderCommit ---------------------------
(***************************************************************************)
(* What an out-of-order back end promises: a bounded number of             *)
(* instructions is in flight, they enter in program order, one starts only *)
(* when every instruction whose result it reads has produced it, they      *)
(* produce results in any order and they leave in program order.           *)
(*                                                                         *)
(* There is no buffer, no map and no status here: instructions             *)
(* committed .. entered - 1 are in flight.                                 *)
(***************************************************************************)
EXTENDS Integers

CONSTANTS NumOps, MaxInFlight

VARIABLES entered,   \* how many instructions have entered
          committed, \* how many of them have left
          deps,      \* deps[d]: the instructions whose results d reads
          started,   \* the instructions that have started to execute
          done       \* the instructions that have produced their result

vars == <<entered, committed, deps, started, done>>

Init ==
  /\ entered = 0
  /\ committed = 0
  /\ deps = [d \in 0 .. NumOps - 1 |-> {}]
  /\ started = {}
  /\ done = {}

(* The next instruction enters, reading results of older ones only.        *)
Enter ==
  /\ entered < NumOps
  /\ entered - committed < MaxInFlight
  /\ entered' = entered + 1
  /\ \E D \in SUBSET (0 .. entered - 1) : deps' = [deps EXCEPT ![entered] = D]
  /\ UNCHANGED <<committed, started, done>>

Start(d) ==
  /\ d \notin started
  /\ deps[d] \subseteq done
  /\ started' = started \union {d}
  /\ UNCHANGED <<entered, committed, deps, done>>

(* Several results may appear in one cycle.                                *)
Complete(S) ==
  /\ S \subseteq started
  /\ done' = done \union S
  /\ UNCHANGED <<entered, committed, deps, started>>

Commit ==
  /\ committed < entered
  /\ committed \in done
  /\ committed' = committed + 1
  /\ UNCHANGED <<entered, deps, started, done>>

Next ==
  \/ Enter
  \/ \E d \in committed .. entered - 1 : Start(d)
  \/ \E S \in SUBSET (committed .. entered - 1) : Complete(S)
  \/ Commit

Spec == Init /\ [][Next]_vars
=============================================================================
