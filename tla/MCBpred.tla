------------------------------ MODULE MCBpred ------------------------------
(***************************************************************************)
(* Small tables: histories of 8, 5, 3 and 1 outcomes folded to 3, 3 and 2  *)
(* bits, so that each relation between a length and its fold occurs:       *)
(* longer, shorter, equal and with every remainder.                        *)
(***************************************************************************)
EXTENDS Bpred

MCGeometric == [i \in Banks |-> CASE i = 0 -> 8 [] i = 1 -> 5 [] i = 2 -> 3 [] i = 3 -> 1]
MCTagLength == <<3, 2>>
MCPrograms == {<<5>>, <<2, 7>>, <<1, 6, 11>>}
============================================================================
