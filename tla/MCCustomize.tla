--------------------------- MODULE MCCustomize ---------------------------
EXTENDS Customize

ToolSet == {packing, packing_ori, packing_sep, cfu_offloader, dyser_offloader, dyser_offloader_sep}

\* Lists of one or two operands of instruction i.
Ones(i) == {<<Insn(j)>> : j \in 0..(i - 1)} \cup {<<Input(1)>>}
InBlockOnes(i) == Ones(i) \ {<<Input(1)>>}
Twos(i) == Ones(i) \cup {v \o w : v, w \in Ones(i)}
Sorted(S) == {l \in S : Len(l) = 2 => l[1][1] = "insn" /\ (l[2][1] = "in" \/ l[1][2] < l[2][2])}

\* A block of a phi (instruction 0), n instructions and a branch; instruction 2
\* is also used in another block.  Lists of uses begin with the latest use.
Block(n, ops) ==
    LET all == (Insn(0) :> <<Insn(n)>>) @@ (Rest :> <<Insn(2)>>) @@ (Insn(n + 1) :> <<Insn(n)>>)
               @@ [v \in {Insn(i) : i \in 1..n} |-> ops[v[2]]]
        order == [i \in 1..(n + 2) |-> Insn(i - 1)]
        users(v) == {u \in DOMAIN all : v \in ToSet(all[u])}
        place(u) == IF u = Rest THEN n + 2 ELSE u[2]
    IN [order |-> order, ops |-> all, phis |-> {Insn(0)}, insnUsers |-> <<>>, ok |-> TRUE,
        uses |-> [v \in ToSet(order) \cup {Input(1)} |->
                     SetToSortSeq(users(v), LAMBDA x, y : place(x) > place(y))]]

Blocks ==
    {Block(4, ops) : ops \in Ones(1) \X InBlockOnes(2) \X Sorted(Twos(3)) \X Sorted(Twos(4))}
    \cup {Block(5, ops) : ops \in {<<Insn(0)>>} \X InBlockOnes(2) \X Ones(3) \X Ones(4) \X Ones(5)}

\* One or two candidates with two components of two or three instructions.
TwoComponents(b) ==
    LET body == ToSet(b.order) \ {Insn(0), Last(b.order)}
        twos == kSubset(2, body)
        all  == twos \cup (IF Cardinality(body) = 5 THEN kSubset(3, body) ELSE {})
    IN UNION {{{<<A, B>>}, {<<A>>, <<B>>}} : <<A, B>> \in {p \in all \X all : p[1] \cap p[2] = {}}}
==========================================================================
