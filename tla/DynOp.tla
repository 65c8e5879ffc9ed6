------------------------------- MODULE DynOp -------------------------------
(***************************************************************************)
(* The life cycle of a dynamic instruction (class DynamicOperation).       *)
(*                                                                         *)
(* A dynamic instruction is named by its dynID, its position in the        *)
(* simulated trace.  The core numbers the instructions it fetches from 0,  *)
(* so the instructions of a trace of NumOps instructions are Ops.          *)
(*                                                                         *)
(* The statuses keep the numbers of the C++ enumeration, because the code  *)
(* compares them with < and >=; in particular SLEEP, the status of a load  *)
(* that waits for the data of an older store, is the largest.              *)
(***************************************************************************)
EXTENDS Integers

CONSTANT NumOps

ASSUME NumOpsAssumption == NumOps \in Nat

Ops == 0 .. NumOps - 1

(* A C++ null pointer, or a key that a std::map does not hold.             *)
None == -1

INIT      == 0
ALLOCATED == 1
READY     == 2
ISSUED    == 3
EXECUTING == 4
FINISHED  == 5
COMMITED  == 6
SLEEP     == 7

Status == INIT .. SLEEP

(* updateStatus() without an argument: one step along the life cycle.      *)
NextStatus(s) == IF s \in INIT .. FINISHED THEN s + 1 ELSE s

(* The instruction left the issue queue and its result is not there yet.   *)
InExecution == {ISSUED, EXECUTING, SLEEP}

(* The result of the instruction can be read.                              *)
HasResult == {FINISHED, COMMITED}
=============================================================================
