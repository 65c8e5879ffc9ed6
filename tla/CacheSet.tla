---------------------------- MODULE CacheSet ----------------------------
(***************************************************************************)
(* One set of the functional cache: FunctionalCache.cpp.  The doubly       *)
(* linked list is a sequence of nodes, most recently used first; addr_map, *)
(* which finds the node of a line, is the field "mapped" of the node it    *)
(* would return.  The two can disagree: insert does not look whether the   *)
(* line is there already, and erases the map's entry by line.  Nodes not   *)
(* in the sequence are freeEntries.  A line stands for tag and set index;  *)
(* the lines of a model all fall in the same set.                          *)
(***************************************************************************)
EXTENDS Naturals, SequencesExt

Node(Lines) == [line : Lines, dirty : BOOLEAN, mapped : BOOLEAN]

Finds(set, i, line) == set[i].mapped /\ set[i].line = line

present(set, line) == \E i \in DOMAIN set : Finds(set, i, line)

Where(set, line) == CHOOSE i \in DOMAIN set : Finds(set, i, line)

accessKeepsNode(set, line, isLoad) ==
    LET i == Where(set, line)
    IN  <<[set[i] EXCEPT !.dirty = @ \/ ~isLoad]>> \o set

\* CacheSet::access on a hit: to the front, and dirty if it is a store.
access(set, line, isLoad) ==
    LET i == Where(set, line)
    IN  <<[set[i] EXCEPT !.dirty = @ \/ ~isLoad]>> \o RemoveAt(set, i)

\* The node that insert has to evict: the last of the list, if none is free.
victims(set, assoc) == IF Len(set) < assoc THEN <<>> ELSE <<Last(set)>>

\* addr_map.erase(line) and addr_map[line] = c both take the line's entry
\* from the node that had it.
Unmap(set, lines) ==
    [i \in DOMAIN set |-> [set[i] EXCEPT !.mapped = @ /\ set[i].line \notin lines]]

insert(set, assoc, line, isLoad) ==
    LET victim == victims(set, assoc)
        kept   == SubSeq(set, 1, Len(set) - Len(victim))
        gone   == {line} \cup {victim[i].line : i \in DOMAIN victim}
    IN  <<[line |-> line, dirty |-> ~isLoad, mapped |-> TRUE]>> \o Unmap(kept, gone)

\* FunctionalCache::invalidate, called only if present.
invalidate(set, line) ==
    IF present(set, line) THEN RemoveAt(set, Where(set, line)) ELSE set

isDirty(set, line) == present(set, line) /\ set[Where(set, line)].dirty
=============================================================================
