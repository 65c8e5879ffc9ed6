------------------------------- MODULE MCLsu -------------------------------
(* The load/store unit on every short trace of loads and stores to two     *)
(* addresses.                                                              *)
EXTENDS Lsu

Memory(kind, addr) == [kind |-> kind, addr |-> addr]

Accesses == {Memory(k, a) : k \in {"load", "store"}, a \in {"a", "b"}}

(* Instruction 0 is not a store: it would not take part in forwarding.     *)
LoadFirst == {p \in [Ops -> Accesses] : p[0] = Memory("load", "a")}
=============================================================================
