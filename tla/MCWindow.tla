------------------------------ MODULE MCWindow ------------------------------
(* The window alone, on small instances; every constant is given in the cfg. *)
EXTENDS Window
=============================================================================
