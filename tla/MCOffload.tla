----------------------------- MODULE MCOffload -----------------------------
EXTENDS Offload, Reader

Op(kind, uid, site, deps, lat, dest) ==
  [kind |-> kind, uid |-> uid, site |-> site, deps |-> deps, lat |-> lat, dest |-> dest]
Mem(kind, uid, site, deps) == Op(kind, uid, site, deps, 1, <<>>)
Ctl(kind, uid, site, dest) == Op(kind, uid, site, {}, 1, dest)
Ret(uid) == Ctl("ret", uid, "ret", <<>>)
Log(site, val) == [site |-> site, val |-> val]

(* A loop whose body has an accelerated form for the case that branch c is *)
(* taken.  The second round fails, after a store.                          *)
Speculative ==
  [speculative |-> TRUE,
   blocks |->
    [main |-> <<Mem("load", 1, "a", {}), Ctl("offload", 2, "call", <<"acc">>),
                Ctl("br", 3, "judge", <<"post", "orig">>)>>,
     orig |-> <<Mem("load", 4, "b", {}), Mem("store", 16, "s", {}),
                Ctl("br", 5, "c", <<"store", "post">>)>>,
     store |-> <<Mem("store", 6, "d", {}), Ctl("jmp", 7, "j", <<"post">>)>>,
     post |-> <<Ctl("br", 8, "e", <<"main", "exit">>)>>,
     exit |-> <<Ret(9)>>,
     acc |-> <<Mem("load", 11, "b", {}), Mem("store", 17, "s", {}),
               Ctl("br", 12, "c", <<"accT", "ret.fail">>)>>,
     accT |-> <<Mem("store", 13, "d", {11}), Ret(14)>>] @@
    ("ret.fail" :> <<Ret(15)>>),
   trace |-> <<Log("a", TRUE), Log("b", TRUE), Log("s", TRUE), Log("c", TRUE),
               Log("d", TRUE), Log("e", TRUE),
               Log("a", TRUE), Log("b", TRUE), Log("s", TRUE), Log("c", FALSE),
               Log("e", TRUE),
               Log("a", TRUE), Log("b", TRUE), Log("s", TRUE), Log("c", TRUE),
               Log("d", TRUE), Log("e", FALSE)>>]

(* A run that fails after a store, whose number the same store of the      *)
(* original code gets when the core runs it; a load follows.               *)
StoreThenFail ==
  [speculative |-> TRUE,
   blocks |->
    [main |-> <<Ctl("offload", 2, "call", <<"acc">>),
                Ctl("br", 3, "judge", <<"exit", "orig">>)>>,
     orig |-> <<Mem("store", 4, "d", {}), Ctl("br", 5, "c", <<"exit", "load">>)>>,
     load |-> <<Mem("load", 6, "g", {}), Ret(7)>>,
     exit |-> <<Ret(9)>>,
     acc |-> <<Op("op", 11, "x", {}, 1, <<>>), Mem("store", 12, "d", {}),
               Ctl("br", 13, "c", <<"accT", "ret.fail">>)>>,
     accT |-> <<Ret(14)>>] @@
    ("ret.fail" :> <<Ret(15)>>),
   trace |-> <<Log("d", TRUE), Log("c", FALSE), Log("g", TRUE)>>]

(* The accelerated function is a loop that calls a function.               *)
Loop(trace) ==
  [speculative |-> FALSE,
   blocks |->
    [main |-> <<Mem("store", 1, "a", {}), Ctl("offload", 2, "call", <<"acc">>),
                Ctl("br", 3, "e", <<"main", "fun">>)>>,
     fun |-> <<Ctl("call", 4, "call", <<"g">>), Ret(5)>>,
     g |-> <<Mem("load", 31, "g", {}), Ret(32)>>,
     acc |-> <<Op("op", 20, "x", {}, 3, <<>>), Ctl("jmp", 29, "j", <<"head">>)>>,
     head |-> <<Op("phi", 21, "p", {23}, 1, <<>>), Mem("load", 22, "b", {20, 21}),
                Op("op", 23, "o", {22}, 3, <<>>), Ctl("br", 24, "h", <<"body", "last">>)>>,
     body |-> <<Mem("store", 25, "d", {23}), Ctl("jmp", 26, "j", <<"head">>)>>,
     last |-> <<Ctl("call", 27, "call", <<"g">>), Mem("load", 30, "k", {}), Ret(28)>>],
   trace |-> trace]

Whole == <<Log("a", TRUE), Log("b", TRUE), Log("h", TRUE), Log("d", TRUE),
           Log("b", TRUE), Log("h", TRUE), Log("d", TRUE), Log("b", TRUE),
           Log("h", FALSE), Log("g", TRUE), Log("k", TRUE), Log("e", FALSE),
           Log("g", TRUE)>>

MCScenarios ==
  {Speculative, Loop(Whole), Loop(SubSeq(Whole, 1, 7))}
MCStoreThenFail == {StoreThenFail}

(* What the reader of program s goes through from the states R on.         *)
RECURSIVE Course(_, _)
Course(s, R) ==
  LET next == R \union UNION {Following(s, r) : r \in R}
  IN IF next = R THEN R ELSE Course(s, next)

MCReadings == [s \in Scenarios |-> Course(s, {Start(s)})]

=============================================================================
