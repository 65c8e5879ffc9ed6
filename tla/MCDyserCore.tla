---------------------------- MODULE MCDyserCore ----------------------------
(***************************************************************************)
(* Two invocations of a unit with two inputs and two outputs, loads and    *)
(* other instructions around them, on a machine with three ports, one with *)
(* naive ports and one whose streams collide.                              *)
(***************************************************************************)
EXTENDS DyserCore

Base == [ports |-> << <<"ALU", "EXT">>, <<"ALU", "MUL">>, <<"LU", "PACK">> >>,
         pipelined |-> {"PACK", "EXT"}, naive |-> FALSE, collide |-> FALSE]
MCMachines == {Base, [Base EXCEPT !.naive = TRUE],
               [Base EXCEPT !.pipelined = @ \cup {"LU", "ALU"}, !.collide = TRUE]}

\* Unit 7: the first result needs both inputs, the second only the first.
MCFunctions ==
    (7 :> << [operands |-> << <<"arg", 1>>, <<"arg", 2>> >>, latency |-> 2, output |-> FALSE],
             [operands |-> << <<"insn", 1>>, <<"arg", 1>> >>, latency |-> 1, output |-> TRUE],
             [operands |-> << <<"arg", 1>> >>, latency |-> 1, output |-> TRUE] >>)

Other(kind, deps, cycles, mapping, fus) ==
    [kind |-> kind, unit |-> 0, offset |-> -1, stride |-> -1, invocation |-> 0, deps |-> deps,
     cycles |-> cycles, portMapping |-> mapping, fus |-> fus]
\* (packings of the first invocation execute for two cycles)
Packing(invocation, offset, deps) ==
    [Other("packing", deps, 3 - invocation, << <<1, <<3>> >> >>, << <<"PACK">> >>) EXCEPT
        !.unit = 7, !.offset = offset, !.stride = 1, !.invocation = invocation]
Extract(invocation, offset) ==
    [Other("extract", {}, 1, << <<1, <<1>> >> >>, << <<"EXT">> >>) EXCEPT
        !.unit = 7, !.offset = offset, !.stride = 1, !.invocation = invocation]
Load == Other("load", {}, 1, << <<1, <<3>> >> >>, << <<"LU">> >>)
Add(deps) == Other("add", deps, 1, << <<1, <<1, 2>> >> >>, << <<"ALU">> >>)
\* Two micro-ops; the second alternative is tried with what the first one took.
Wide(deps) == Other("wide", deps, 2, << <<2, <<1>> >>, <<1, <<2>> >> >>,
                    << <<"ALU", "LU">>, <<"ALU", "MUL">>, <<"ALU", "ALU">> >>)

\* What an argument of either invocation waits for.
MCPrograms ==
    {<< Load, Packing(1, 0, deps[1]), Packing(1, 1, deps[2]), Extract(1, 0), Wide(deps[5]), Extract(1, 1),
        Packing(2, 0, deps[3]), Packing(2, 1, deps[4]), Add({4}), Extract(2, 1), Extract(2, 0) >> :
      deps \in {<<a, b, c, d, e>> : a \in {{}, {1}}, b \in {{}, {1}}, c \in {{}, {1}, {5}, {4}},
                                    d \in {{}, {6}}, e \in {{}, {1}}}}
=============================================================================
