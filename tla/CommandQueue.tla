---------------------------- MODULE CommandQueue ----------------------------
(***************************************************************************)
(* CommandQueue.cpp: the commands that wait for their bank and the         *)
(* scheduler that picks one of them in every cycle.  A queue q is a        *)
(* record; bs is the controller's table of bank states, bs[rank][bank].    *)
(* q.ini holds what the system ini file says: rowBuffer, queuing,          *)
(* scheduling, depth (CMD_QUEUE_DEPTH), mapping and lowPower.              *)
(***************************************************************************)
EXTENDS DramTiming

CommandQueue(ini) ==
  [ini |-> ini,
   queues |-> [r \in Ranks |-> [b \in Banks |-> <<>>]],
   nextRank |-> 0, nextBank |-> 0, nextRankPRE |-> 0, nextBankPRE |-> 0,
   refreshRank |-> 0, refreshWaiting |-> FALSE, sendAct |-> TRUE,
   rowAccess |-> [r \in Ranks |-> [b \in Banks |-> 0]],
   faw |-> [r \in Ranks |-> <<>>]]

Own(type, rank, bank) ==
  [type |-> type, rank |-> rank, bank |-> bank, row |-> 0, addr |-> 0, id |-> 0]

slot(q, bank) == IF q.ini.queuing = "PerRank" THEN 0 ELSE bank
getCommandQueue(q, rank, bank) == q.queues[rank][slot(q, bank)]
setQueue(q, rank, bank, s) == [q EXCEPT !.queues[rank][slot(q, bank)] = s]

enqueue(q, packets) ==
  LET p == packets[1] IN
  setQueue(q, p.rank, p.bank, getCommandQueue(q, p.rank, p.bank) \o packets)
hasRoomFor(q, n, rank, bank) == q.ini.depth - Len(getCommandQueue(q, rank, bank)) >= n
isEmpty(q, rank) == \A b \in Banks : q.queues[rank][b] = <<>>
needRefresh(q, rank) == [q EXCEPT !.refreshWaiting = TRUE, !.refreshRank = rank]

isIssuable(q, bs, p) ==
  LET x == bs[p.rank][p.bank] IN
  CASE p.type = "ACTIVATE" ->
         x.state \in {"Idle", "Refreshing"} /\ x.nextActivate = 0 /\ Len(q.faw[p.rank]) < 4
    [] p.type \in Column ->
         /\ x.state = "RowActive" /\ p.row = x.row
         /\ (IF p.type \in Reads THEN x.nextRead ELSE x.nextWrite) = 0
         /\ q.rowAccess[p.rank][p.bank] < TOTAL_ROW_ACCESSES

-----------------------------------------------------------------------------
(* Round robin.  The pairs of ranks and banks are numbered in the order of *)
(* the scheduling policy; a search with one queue per rank changes only    *)
(* the rank.                                                               *)
PairNumber(q, rank, bank) ==
  IF q.ini.scheduling = "RankThenBank" THEN bank * NUM_RANKS + rank ELSE rank * NUM_BANKS + bank

nextRankAndBank(q, rank, bank, k) ==
  LET n == (PairNumber(q, rank, bank) + k) % (NUM_RANKS * NUM_BANKS) IN
  IF q.ini.scheduling = "RankThenBank"
  THEN <<n % NUM_RANKS, n \div NUM_RANKS>> ELSE <<n \div NUM_BANKS, n % NUM_BANKS>>

SearchOrder(q) ==
  IF q.ini.queuing = "PerRank"
  THEN [k \in 1 .. NUM_RANKS |-> <<(q.nextRank + k - 1) % NUM_RANKS, q.nextBank>>]
  ELSE [k \in 1 .. NUM_RANKS * NUM_BANKS |-> nextRankAndBank(q, q.nextRank, q.nextBank, k - 1)]

SearchOrderPRE(q) ==
  [k \in 1 .. NUM_RANKS * NUM_BANKS |-> nextRankAndBank(q, q.nextRankPRE, q.nextBankPRE, k - 1)]

-----------------------------------------------------------------------------
(* What pop does.  Each part returns the queue after it with the command   *)
(* it picked as .packet, a sequence of at most one.                        *)
Pick(q, packets) == [q |-> q, packet |-> packets]

(* A rank that waits for its refresh: the first bank that is open or not   *)
(* yet ready decides.  An open bank serves the column access its row was   *)
(* opened for, or with open pages is closed; no such bank, and the refresh *)
(* goes out.                                                               *)
refreshTurn(q, bs) ==
  LET r == q.refreshRank
      busy == {b \in Banks : bs[r][b].state = "RowActive" \/ bs[r][b].nextActivate > 0}
      b == Min(busy)
      queue == getCommandQueue(q, r, b)
      toRow == {j \in DOMAIN queue : queue[j].bank = b /\ queue[j].row = bs[r][b].row}
      j == Min(toRow)
  IN
  CASE ~q.refreshWaiting -> Pick(q, <<>>)
    [] q.refreshWaiting /\ busy = {} ->
         IF bs[r][0].state = "PowerDown" THEN Pick(q, <<>>)
         ELSE Pick([q EXCEPT !.refreshRank = -1, !.refreshWaiting = FALSE],
                   <<Own("REFRESH", r, 0)>>)
    [] q.refreshWaiting /\ busy # {} ->
         IF bs[r][b].state # "RowActive" THEN Pick(q, <<>>)
         ELSE IF toRow # {} /\ queue[j].type # "ACTIVATE"
         THEN IF isIssuable(q, bs, queue[j])
              THEN Pick(setQueue(q, r, b, RemoveAt(queue, j)), <<queue[j]>>)
              ELSE Pick(q, <<>>)
         ELSE IF q.ini.rowBuffer = "OpenPage" /\ bs[r][b].nextPrecharge = 0
         THEN Pick([q EXCEPT !.rowAccess[r][b] = 0], <<Own("PRECHARGE", r, b)>>)
         ELSE Pick(q, <<>>)

(* With closed pages a column access stays behind the activate it is       *)
(* paired with, and a bank's own queue is served from its head only.       *)
closeCandidates(q, bs, queue) ==
  {i \in DOMAIN queue :
     /\ isIssuable(q, bs, queue[i])
     /\ IF q.ini.queuing = "PerRank"
        THEN ~(i > 1 /\ queue[i - 1].type = "ACTIVATE" /\ queue[i - 1].addr = queue[i].addr)
        ELSE i = 1}

(* Mutant: a command passes the others to its row as well. *)
openCandidatesAny(q, bs, queue) == {i \in DOMAIN queue : isIssuable(q, bs, queue[i])}

(* With open pages a command may pass the others unless one of them goes   *)
(* to its row.                                                             *)
openCandidates(q, bs, queue) ==
  {i \in DOMAIN queue :
     /\ isIssuable(q, bs, queue[i])
     /\ \A j \in 1 .. i - 1 : ~( /\ queue[j].type # "ACTIVATE"
                                 /\ queue[j].bank = queue[i].bank
                                 /\ queue[j].row = queue[i].row)}

candidates(q, bs, queue) ==
  IF q.ini.rowBuffer = "ClosePage" THEN closeCandidates(q, bs, queue)
  ELSE openCandidates(q, bs, queue)

(* Removing a row hit also removes the activate it no longer needs. *)
take(q, rank, bank, i) ==
  LET queue == getCommandQueue(q, rank, bank)
      p == queue[i]
  IN  IF q.ini.rowBuffer = "OpenPage" /\ i > 1 /\ queue[i - 1].type = "ACTIVATE"
      THEN [setQueue(q, rank, bank, SubSeq(queue, 1, i - 2) \o SubSeq(queue, i + 1, Len(queue)))
              EXCEPT !.rowAccess[p.rank][p.bank] = @ + 1]
      ELSE setQueue(q, rank, bank, RemoveAt(queue, i))

(* The queues are searched in turn; the rank being refreshed is left out.  *)
normalTurn(q, bs) ==
  LET order == SearchOrder(q)
      Ready(k) == candidates(q, bs, getCommandQueue(q, order[k][1], order[k][2]))
      able == {k \in DOMAIN order :
                 ~(order[k][1] = q.refreshRank /\ q.refreshWaiting) /\ Ready(k) # {}}
  IN  IF able = {} THEN Pick(q, <<>>)
      ELSE LET at == order[Min(able)]
               i == Min(Ready(Min(able)))
           IN  Pick([take(q, at[1], at[2], i) EXCEPT !.nextRank = at[1], !.nextBank = at[2]],
                    <<getCommandQueue(q, at[1], at[2])[i]>>)

(* Mutant: a bank closed for its many accesses keeps their count. *)
closeTurnKeepsCount(q, bs) ==
  LET order == SearchOrderPRE(q)
      closable == {k \in DOMAIN order :
        LET r == order[k][1]
            b == order[k][2]
            queue == getCommandQueue(q, r, b)
        IN  /\ bs[r][b].state = "RowActive" /\ bs[r][b].nextPrecharge = 0
            /\ \/ \A i \in DOMAIN queue : ~(queue[i].bank = b /\ queue[i].row = bs[r][b].row)
               \/ q.rowAccess[r][b] = TOTAL_ROW_ACCESSES}
  IN  IF q.ini.rowBuffer = "ClosePage" \/ closable = {} THEN Pick(q, <<>>)
      ELSE LET at == order[Min(closable)]
           IN  Pick([q EXCEPT !.nextRankPRE = at[1], !.nextBankPRE = at[2]],
                    <<Own("PRECHARGE", at[1], at[2])>>)

(* With open pages and nothing to issue: close a bank whose row nobody     *)
(* waits for, or that has been used too often.                             *)
closeTurn(q, bs) ==
  LET order == SearchOrderPRE(q)
      closable == {k \in DOMAIN order :
        LET r == order[k][1]
            b == order[k][2]
            queue == getCommandQueue(q, r, b)
        IN  /\ bs[r][b].state = "RowActive" /\ bs[r][b].nextPrecharge = 0
            /\ \/ \A i \in DOMAIN queue : ~(queue[i].bank = b /\ queue[i].row = bs[r][b].row)
               \/ q.rowAccess[r][b] = TOTAL_ROW_ACCESSES}
  IN  IF q.ini.rowBuffer = "ClosePage" \/ closable = {} THEN Pick(q, <<>>)
      ELSE LET at == order[Min(closable)]
           IN  Pick([q EXCEPT !.nextRankPRE = at[1], !.nextBankPRE = at[2],
                              !.rowAccess[at[1]][at[2]] = 0],
                    <<Own("PRECHARGE", at[1], at[2])>>)

(* The four-activate window: the counters run down in every cycle. *)
fawStep(q) ==
  [q EXCEPT !.faw = [r \in Ranks |->
     LET aged == [i \in DOMAIN @[r] |-> Sooner(@[r][i])] IN
     IF aged # <<>> /\ aged[1] = 0 THEN Tail(aged) ELSE aged]]

(* After a pick the turn passes on, except that with posted column         *)
(* accesses (AL > 0) every other pick keeps it.                            *)
passTurn(q, p) ==
  LET next == nextRankAndBank(q, q.nextRank, q.nextBank, 1)
      opened == IF p.type = "ACTIVATE" THEN [q EXCEPT !.faw[p.rank] = Append(@, tFAW)] ELSE q
  IN  IF AL > 0 /\ q.sendAct THEN [opened EXCEPT !.sendAct = FALSE]
      ELSE [opened EXCEPT !.sendAct = TRUE, !.nextRank = next[1], !.nextBank = next[2]]

pop(q0, bs) ==
  LET q == fawStep(q0)
      refresh == refreshTurn(q, bs)
      normal == normalTurn(refresh.q, bs)
      picked == IF refresh.packet # <<>> THEN refresh
                ELSE IF normal.packet # <<>> THEN normal ELSE closeTurn(refresh.q, bs)
  IN  IF picked.packet = <<>> THEN picked
      ELSE Pick(passTurn(picked.q, picked.packet[1]), picked.packet)
=============================================================================
