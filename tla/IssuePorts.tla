---------------------------- MODULE IssuePorts ----------------------------
(***************************************************************************)
(* Issue ports and their function units (class IssueUnit, struct Port).    *)
(* A machine m has ports, each the sequence of its units' types, the types *)
(* that are pipelined, and the flag naive.  A unit is <<port, place>>.     *)
(* The state p of the ports is                                             *)
(*   usage    the units that are busy; pipelined units never are           *)
(*   aval     fuAvalMap: how many units of a type are free                 *)
(*   release  for how many more cycles a port is blocked                   *)
(* An instruction i has portMapping, one <<stall, ports>> per micro-op,    *)
(* and fus, the alternatives of unit types it can execute on.              *)
(***************************************************************************)
EXTENDS Integers, FiniteSets, SequencesExt

CONSTANT FUs   \* the types of units

Machine == [ports : Seq(Seq(FUs)), pipelined : SUBSET FUs, naive : BOOLEAN, collide : BOOLEAN]

Ports(m) == DOMAIN m.ports
Units(m) == UNION {{port} \X DOMAIN m.ports[port] : port \in Ports(m)}
Type(m, unit) == m.ports[unit[1]][unit[2]]
UnitsOf(m, fu) == {u \in Units(m) : Type(m, u) = fu}
NoUnit == <<0, 0>>

\* fuAvalMap starts a type it has not heard of with 0.
AllFree(m) == [usage |-> {}, aval |-> [fu \in FUs |-> Cardinality(UnitsOf(m, fu))],
               release |-> [port \in Ports(m) |-> 0]]

\* The units in taken, a sequence, leave or join the free ones.
Recount(m, aval, taken, by) ==
    [fu \in FUs |->
        aval[fu] + by * Cardinality({k \in DOMAIN taken : Type(m, taken[k]) = fu /\ fu \notin m.pipelined})]
Busy(m, taken) == {u \in ToSet(taken) : Type(m, u) \notin m.pipelined}

occupyFU(m, p, taken) ==
    [p EXCEPT !.usage = @ \cup Busy(m, taken), !.aval = Recount(m, @, taken, -1)]
freeFUKeepsCount(m, p, taken) == [p EXCEPT !.usage = @ \ Busy(m, taken)]   \* mutant
freeFU(m, p, taken) ==
    [p EXCEPT !.usage = @ \ Busy(m, taken), !.aval = Recount(m, @, taken, 1)]

allowPorts(i) == UNION {ToSet(i.portMapping[k][2]) : k \in DOMAIN i.portMapping}

FreeOn(m, p, port, fu) == {fuID \in DOMAIN m.ports[port] :
                              m.ports[port][fuID] = fu /\ <<port, fuID>> \notin p.usage}

\* The first free unit of type fu on those of the ports, in their order, that
\* i may use and that are neither blocked nor occupied.
getAvailablePort(m, p, fu, i, ports, occupied) ==
    LET usable == {k \in DOMAIN ports :
                      /\ ports[k] \in allowPorts(i) \ occupied /\ (m.naive \/ p.release[ports[k]] = 0)
                      /\ FreeOn(m, p, ports[k], fu) # {}}
        first == ports[Min(usable)]
    IN IF usable = {} THEN NoUnit ELSE <<first, Min(FreeOn(m, p, first, fu))>>

\* Rarest unit first; std::sort keeps the order of so few equal elements.
sortFUs(p, fus) ==
    LET before(i, j) == p.aval[fus[i]] < p.aval[fus[j]] \/ (p.aval[fus[i]] = p.aval[fus[j]] /\ i < j)
    IN [k \in DOMAIN fus |-> fus[SetToSortSeq(DOMAIN fus, before)[k]]]

\* The search for a unit of type fu goes on in a: it stops at the first type
\* that is not free.  Each unit is on a port of its own.
FindUnit(m, p, i, ports, a, fu) ==
    LET u == getAvailablePort(m, p, fu, i, ports, a.occupied)
    IN IF ~a.ok THEN a
       ELSE IF u = NoUnit THEN [a EXCEPT !.ok = FALSE]
       ELSE [ok |-> TRUE, occupied |-> a.occupied \cup {u[1]},
             taken |-> IF fu \in m.pipelined THEN a.taken ELSE Append(a.taken, u)]

\* One alternative: all of its units.
Alternative(m, p, i, fus, ports, start) ==
    FoldLeft(LAMBDA a, fu : FindUnit(m, p, i, ports, a, fu),
             [start EXCEPT !.ok = TRUE], sortFUs(p, fus))

\* The first alternative whose units are free.  With issue ports, one that
\* fails leaves what it found to those behind it.
AnyAlternative(m, p, i, ports, start) ==
    FoldLeft(LAMBDA a, fus :
                IF a.ok THEN a ELSE Alternative(m, p, i, fus, ports, IF m.naive THEN start ELSE a),
             start, i.fus)

\* A port for every micro-op, or none.
AddPort(p, occupied, ports, uop) ==
    LET free == {k \in DOMAIN uop[2] :
                    uop[2][k] \notin ToSet(ports \o occupied) /\ p.release[uop[2][k]] = 0}
    IN IF free = {} THEN ports ELSE Append(ports, uop[2][Min(free)])
scheduleUops(p, i, occupied) ==
    LET found == FoldLeft(LAMBDA ports, uop : AddPort(p, occupied, ports, uop), <<>>, i.portMapping)
    IN IF Len(found) = Len(i.portMapping) THEN found ELSE <<>>

Failed(p, occupied) == [ok |-> FALSE, p |-> p, occupied |-> occupied, taken |-> <<>>]

\* Ports that were found stay blocked for as long as their micro-op asks.
BlockPorts(m, p, i, ports) ==
    [p EXCEPT !.release = [port \in Ports(m) |->
        IF port \in ToSet(ports)
        THEN i.portMapping[CHOOSE k \in DOMAIN ports : ports[k] = port][1] ELSE @[port]]]

\* Units are looked for on the ports of the micro-ops only.  Ports are noted
\* as occupied when they are found and again on success.
OnPorts(m, p, i, occupied, ports) ==
    LET found == AnyAlternative(m, p, i, ports, [ok |-> FALSE, occupied |-> {}, taken |-> <<>>])
    IN IF ports = <<>> THEN Failed(p, occupied)
       ELSE IF ~found.ok THEN Failed(p, occupied \o ports)
       ELSE [ok |-> TRUE, p |-> occupyFU(m, BlockPorts(m, p, i, ports), found.taken),
             occupied |-> occupied \o ports \o ports, taken |-> found.taken]

schedulePortModel(m, p, i, occupied) == OnPorts(m, p, i, occupied, scheduleUops(p, i, occupied))

\* Only ports of units that are not pipelined are noted as occupied.
scheduleNaiveModel(m, p, i, occupied) ==
    LET found == AnyAlternative(m, p, i, [port \in Ports(m) |-> port],
                                [ok |-> FALSE, occupied |-> ToSet(occupied), taken |-> <<>>])
    IN IF ~found.ok THEN Failed(p, occupied)
       ELSE [ok |-> TRUE, p |-> occupyFU(m, p, found.taken),
             occupied |-> occupied \o [k \in DOMAIN found.taken |-> found.taken[k][1]],
             taken |-> found.taken]

schedule(m, p, i, occupied) ==
    IF m.naive THEN scheduleNaiveModel(m, p, i, occupied)
               ELSE schedulePortModel(m, p, i, occupied)
===========================================================================
