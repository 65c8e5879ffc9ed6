------------------------------ MODULE MCMem ------------------------------
EXTENDS MemHierarchy
CONSTANT NumReqs

Ls == 1..3
PerLevel(a, b, c) == [l \in Levels |-> CASE l = "l1" -> a [] l = "l2" -> b [] l = "llc" -> c]

\* Lines are numbered by their first use: renaming them changes nothing.
Canonical(s) == \A i \in 1..Len(s) : s[i] <= 1 + Cardinality({s[j] : j \in 1..(i - 1)})
Requests == {tr \in [1..NumReqs -> [line : Ls, kind : {"load", "store"}]] :
                Canonical([i \in 1..NumReqs |-> tr[i].line])}

\* Of the longer ones, those that come back to a line that was replaced.
Reuses == {tr \in [1..4 -> [line : Ls, kind : {"load", "store"}]] :
              /\ [i \in 1..4 |-> tr[i].line] \in {<<1, 2, 3, 1>>, <<1, 2, 1, 3>>}
              /\ \A i \in {1, 2, 3} : tr[i].kind = "load"}
RequestsAndReuses == Requests \cup Reuses

Ports     == PerLevel(2, 2, 2)
OneEach   == PerLevel(1, 1, 1)
L1Wide    == PerLevel(2, 1, 1)
L1Small   == PerLevel(1, 2, 2)
Growing   == PerLevel(1, 2, 3)
L2Slow    == PerLevel(1, 2, 1)

Ld(n) == [line |-> n, kind |-> "load"]
St(n) == [line |-> n, kind |-> "store"]
EvictTraces == {<<Ld(2), Ld(1), St(1), Ld(3), Ld(2)>>}
==========================================================================
