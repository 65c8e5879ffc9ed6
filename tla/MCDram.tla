------------------------------- MODULE MCDram -------------------------------
(* Model-checking instance of MemoryController. *)
EXTENDS MemoryController

ini(row, queue, sched, depth, map) ==
  [rowBuffer |-> row, queuing |-> queue, scheduling |-> sched, depth |-> depth,
   mapping |-> map, lowPower |-> TRUE]

Inis_ == {ini("OpenPage", "PerRank", "RankThenBank", 4, "Scheme2"),
          ini("ClosePage", "PerRank", "BankThenRank", 4, "Scheme4"),
          ini("ClosePage", "PerRankPerBank", "RankThenBank", 2, "Scheme5")}
=============================================================================
