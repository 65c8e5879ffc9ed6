------------------------------ MODULE MCFetch ------------------------------
(***************************************************************************)
(* A program with a loop whose body calls a function and a declaration, a  *)
(* loop of one branch, an invoke, a switch and a block longer than a       *)
(* package.                                                                *)
(***************************************************************************)
EXTENDS Fetch

op(kind, to) == [kind |-> kind, to |-> to]
alu == op("alu", <<>>)

MCProgram == [
    entry |-> <<alu, op("jmp", <<"loop">>)>>,
    loop  |-> <<op("phi", <<>>), op("load", <<>>), op("call", <<"f">>), alu,
                op("br", <<"loop", "choose">>)>>,
    choose |-> <<op("phi", <<>>), op("ext", <<>>), op("switch", <<"last", "try">>)>>,
    try   |-> <<op("invoke", <<"g", "last">>)>>,
    last  |-> <<op("phi", <<>>), alu, alu, op("ret", <<>>)>>,
    f     |-> <<alu, op("br", <<"fOut", "fIn">>)>>,
    fIn   |-> <<op("br", <<"fOut", "fIn">>)>>,
    fOut  |-> <<op("phi", <<>>), op("ret", <<>>)>>,
    g     |-> <<op("load", <<>>), op("jmp", <<"gOut">>)>>,
    gOut  |-> <<op("ret", <<>>)>>]

\* Functions and blocks take numbers of the same counter.
MCFirstUID == [entry |-> 2, loop |-> 5, choose |-> 11, try |-> 15, last |-> 17,
               f |-> 23, fIn |-> 26, fOut |-> 28, g |-> 32, gOut |-> 35]
============================================================================
