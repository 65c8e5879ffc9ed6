-------------------------- MODULE MemoryController --------------------------
(***************************************************************************)
(* DRAMSim2: one memory channel driven by the loop of TraceBasedSim.cpp.   *)
(* MultiChannelMemorySystem::update and MemorySystem::update are one       *)
(* single-threaded call per cycle; its parts run in a fixed order and are  *)
(* the actions here, sequenced by stage.  What is open is the trace (which *)
(* addresses, when) and the policies of the system ini file.  A check of   *)
(* the code that ends the program sets fault, and nothing follows it.      *)
(***************************************************************************)
EXTENDS CommandQueue

R == INSTANCE DramRank

CONSTANTS Inis,       \* the system ini files considered
          Addresses,  \* block addresses of the trace
          TransLimit, \* bound: lines of the trace
          StartAt,    \* bound: cycles left to rank 0's refresh at the first line
          IdleLimit   \* bound: cycles the trace waits after its first line

VARIABLES stage, sent, idle, trans, transactionQueue, cq, bankStates, ranks,
          powerDown, bus, refreshCountdown, refreshRank,
          pendingReadTransactions, returnTransaction, receiver, fault

vars == <<stage, sent, idle, trans, transactionQueue, cq, bankStates, ranks, powerDown, bus,
          refreshCountdown, refreshRank, pendingReadTransactions, returnTransaction,
          receiver, fault>>
traceVars == <<sent, idle, trans>>
refreshVars == <<refreshCountdown, refreshRank>>

Bus == [cmd |-> <<>>, cmdLeft |-> 0, data |-> <<>>, dataLeft |-> 0, writes |-> <<>>]

Init ==
  /\ stage = "trace" /\ sent = 0 /\ idle = 0 /\ trans = <<>>
  /\ transactionQueue = <<>>
  /\ \E ini \in Inis : cq = CommandQueue(ini)
  /\ bankStates = [r \in Ranks |-> [b \in Banks |-> BankState]]
  /\ ranks = [r \in Ranks |-> R!Rank]
  /\ powerDown = [r \in Ranks |-> FALSE]
  /\ bus = Bus
  /\ refreshCountdown = [r \in Ranks |-> (REFRESH_CYCLES \div NUM_RANKS) * (r + 1)]
  /\ refreshRank = 0
  /\ pendingReadTransactions = <<>> /\ returnTransaction = <<>>
  /\ receiver = [kind \in {"read", "write"} |-> [a \in Addresses |-> 0]]
  /\ fault = "none"

At(s, next) == stage = s /\ fault = "none" /\ stage' = next

-----------------------------------------------------------------------------
(* The trace loop: at most one line per cycle; a line the controller has   *)
(* no room for is offered again in the next cycle.                         *)

WillAcceptTransaction == Len(transactionQueue) < TRANS_QUEUE_DEPTH

(* The receiver of the trace loop counts what it waits for. *)
add_pending(t) == [receiver EXCEPT ![t.kind][t.addr] = @ + 1]
complete(kind, a) == [receiver EXCEPT ![kind][a] = Sooner(@)]

addTransaction(t) ==
  /\ IF WillAcceptTransaction
     THEN /\ transactionQueue' = Append(transactionQueue, t)
          /\ receiver' = add_pending(t)
          /\ trans' = <<>>
     ELSE trans' = <<t>> /\ UNCHANGED <<transactionQueue, receiver>>
  /\ UNCHANGED <<cq, bankStates, ranks, powerDown, bus, refreshVars,
                 pendingReadTransactions, returnTransaction, fault>>

NewLine ==
  /\ At("trace", "ranks")
  /\ trans = <<>> /\ sent < TransLimit
  /\ sent = 0 => refreshCountdown[0] \in StartAt
  /\ \E kind \in {"read", "write"}, a \in Addresses :
       addTransaction([id |-> sent + 1, kind |-> kind, addr |-> a])
  /\ sent' = sent + 1 /\ UNCHANGED idle

SameLine ==
  /\ At("trace", "ranks")
  /\ trans # <<>> /\ addTransaction(trans[1])
  /\ UNCHANGED <<sent, idle>>

(* The next line is not due, or there is none. *)
NoLine ==
  /\ At("trace", "ranks")
  /\ trans = <<>> /\ (sent \in {0, TransLimit} \/ idle < IdleLimit)
  /\ idle' = IF sent \in {0, TransLimit} THEN idle ELSE idle + 1
  /\ UNCHANGED <<sent, trans, transactionQueue, receiver, cq, bankStates, ranks, powerDown, bus,
                 refreshVars, pendingReadTransactions, returnTransaction, fault>>

-----------------------------------------------------------------------------
(* The ranks move their bursts; a finished one reaches the controller. *)
UpdateRanks ==
  /\ At("ranks", "buses")
  /\ ranks' = [r \in Ranks |-> R!update(ranks[r])]
  /\ returnTransaction' = returnTransaction \o
       FoldLeft(LAMBDA s, r : s \o R!Delivered(ranks[r - 1]), <<>>,
                [n \in 1 .. NUM_RANKS |-> n])
  /\ UNCHANGED <<traceVars, transactionQueue, cq, bankStates, powerDown, bus, refreshVars,
                 pendingReadTransactions, receiver, fault>>

(* A bank whose countdown ends changes its state by itself. *)
countDown(x) ==
  CASE x.left = 0 -> x
    [] x.left > 1 -> [x EXCEPT !.left = @ - 1]
    [] x.left = 1 /\ x.last \in AutoPrecharge ->
         [x EXCEPT !.state = "Precharging", !.last = "PRECHARGE", !.left = tRP]
    [] x.left = 1 /\ x.last \in {"REFRESH", "PRECHARGE"} ->
         [x EXCEPT !.state = "Idle", !.left = 0]
    [] OTHER -> [x EXCEPT !.left = 0]

(* The bus records after one cycle: what has left them, what the oldest    *)
(* write puts on the data bus.                                             *)
cmdArrives == bus.cmd # <<>> /\ bus.cmdLeft = 1
dataArrives == bus.data # <<>> /\ bus.dataLeft = 1
agedWrites == [i \in DOMAIN bus.writes |-> [bus.writes[i] EXCEPT !.left = Sooner(@)]]
writeStarts == agedWrites # <<>> /\ agedWrites[1].left = 0

UpdateBuses ==
  LET p == bus.cmd[1] IN
  /\ At("buses", "refresh")
  /\ bankStates' = [r \in Ranks |-> [b \in Banks |-> countDown(bankStates[r][b])]]
  /\ ranks' = IF cmdArrives /\ ~R!refuses(ranks[p.rank], p)
              THEN [ranks EXCEPT ![p.rank] = R!receiveFromBus(@, p)] ELSE ranks
  /\ receiver' = IF dataArrives THEN complete("write", bus.data[1].addr) ELSE receiver
  /\ bus' = [cmd |-> IF cmdArrives THEN <<>> ELSE bus.cmd,
             cmdLeft |-> Sooner(bus.cmdLeft),
             data |-> IF writeStarts THEN <<agedWrites[1].packet>>
                      ELSE IF dataArrives THEN <<>> ELSE bus.data,
             dataLeft |-> IF writeStarts THEN Burst ELSE Sooner(bus.dataLeft),
             writes |-> IF writeStarts THEN Tail(agedWrites) ELSE agedWrites]
  /\ fault' = IF cmdArrives /\ R!refuses(ranks[p.rank], p) THEN "not allowed by the rank"
              ELSE IF dataArrives /\ receiver.write[bus.data[1].addr] = 0
              THEN "no pending write"
              ELSE IF writeStarts /\ bus.data # <<>> /\ ~dataArrives THEN "data bus collision"
              ELSE "none"
  /\ UNCHANGED <<traceVars, transactionQueue, cq, powerDown, refreshVars,
                 pendingReadTransactions, returnTransaction>>

-----------------------------------------------------------------------------
(* A refresh that is due is asked of the command queue; a rank powered     *)
(* down is told in time for it.                                            *)
RefreshDue ==
  /\ At("refresh", "issue")
  /\ refreshCountdown[refreshRank] = 0
  /\ cq' = needRefresh(cq, refreshRank)
  /\ ranks' = [ranks EXCEPT ![refreshRank].refreshWaiting = TRUE]
  /\ refreshCountdown' = [refreshCountdown EXCEPT ![refreshRank] = REFRESH_CYCLES]
  /\ refreshRank' = (refreshRank + 1) % NUM_RANKS
  /\ UNCHANGED <<traceVars, transactionQueue, bankStates, powerDown, bus,
                 pendingReadTransactions, returnTransaction, receiver, fault>>

RefreshNear ==
  /\ At("refresh", "issue")
  /\ refreshCountdown[refreshRank] # 0
  /\ ranks' = IF powerDown[refreshRank] /\ refreshCountdown[refreshRank] <= tXP
              THEN [ranks EXCEPT ![refreshRank].refreshWaiting = TRUE] ELSE ranks
  /\ UNCHANGED <<traceVars, transactionQueue, cq, bankStates, powerDown, bus, refreshVars,
                 pendingReadTransactions, returnTransaction, receiver, fault>>

(* Mutant: the other banks of the rank do not wait. *)
columnIssuedAlone(bs, p) ==
  LET free == Later(bs[p.rank][p.bank].nextActivate, AutoprechargeDelay(p.type)) IN
  [bs EXCEPT ![p.rank][p.bank] =
     IF p.type \in AutoPrecharge
     THEN [@ EXCEPT !.nextActivate = free, !.nextRead = free, !.nextWrite = free,
                    !.last = p.type, !.left = PrechargeDelay(p.type)]
     ELSE [@ EXCEPT !.nextPrecharge = Later(@, PrechargeDelay(p.type)), !.last = p.type,
                    !.nextRead = Later(@, ReadGap(p.type, TRUE)),
                    !.nextWrite = Later(@, WriteGap(p.type, TRUE))]]

(* The controller's table after command p. *)
columnIssued(bs, p) ==
  LET r == p.rank
      gapped == [i \in Ranks |-> [j \in Banks |->
        IF i = r \/ bs[i][j].state = "RowActive"
        THEN [bs[i][j] EXCEPT !.nextRead = Later(@, ReadGap(p.type, i = r)),
                              !.nextWrite = Later(@, WriteGap(p.type, i = r))]
        ELSE bs[i][j]]]
      x == gapped[r][p.bank]
      free == Later(x.nextActivate, AutoprechargeDelay(p.type))
  IN  [gapped EXCEPT ![r][p.bank] =
         IF p.type \in AutoPrecharge
         THEN [x EXCEPT !.nextActivate = free, !.nextRead = free, !.nextWrite = free,
                        !.last = p.type, !.left = PrechargeDelay(p.type)]
         ELSE [x EXCEPT !.nextPrecharge = Later(@, PrechargeDelay(p.type)), !.last = p.type]]

activateIssued(bs, p) ==
  [bs EXCEPT ![p.rank] = [b \in Banks |->
     IF b = p.bank
     THEN [@[b] EXCEPT !.state = "RowActive", !.last = "ACTIVATE", !.row = p.row,
                       !.nextActivate = Later(@, tRC), !.nextPrecharge = Later(@, tRAS),
                       !.nextRead = Later(@, tRCD - AL), !.nextWrite = Later(@, tRCD - AL)]
     ELSE [@[b] EXCEPT !.nextActivate = Later(@, tRRD)]]]

issued(bs, p) ==
  CASE p.type \in Column -> columnIssued(bs, p)
    [] p.type = "ACTIVATE" -> activateIssued(bs, p)
    [] p.type = "PRECHARGE" ->
         [bs EXCEPT ![p.rank][p.bank] =
            [@ EXCEPT !.state = "Precharging", !.last = "PRECHARGE", !.left = tRP,
                      !.nextActivate = Later(@, tRP)]]
    [] p.type = "REFRESH" ->
         [bs EXCEPT ![p.rank] = [b \in Banks |->
            [@[b] EXCEPT !.state = "Refreshing", !.last = "REFRESH", !.left = tRFC,
                         !.nextActivate = tRFC]]]

(* One command, if any, leaves the queue for the command bus; the data of  *)
(* a write follows it WL cycles later.                                     *)
IssueCommand ==
  LET turn == pop(cq, bankStates)
      p == turn.packet[1]
  IN
  /\ At("issue", "fill")
  /\ cq' = turn.q
  /\ IF turn.packet = <<>> THEN UNCHANGED <<bankStates, bus, fault>>
     ELSE /\ bankStates' = issued(bankStates, p)
          /\ bus' = [bus EXCEPT !.cmd = <<p>>, !.cmdLeft = tCMD,
                                !.writes = IF p.type \in Writes
                                           THEN Append(@, [left |-> WL, packet |-> p]) ELSE @]
          /\ fault' = IF bus.cmd # <<>> THEN "command bus collision" ELSE "none"
  /\ UNCHANGED <<traceVars, transactionQueue, ranks, powerDown, refreshVars,
                 pendingReadTransactions, returnTransaction, receiver>>

-----------------------------------------------------------------------------
(* The first transaction with room in its command queue becomes an         *)
(* activate and a column access.                                           *)
getBusPacketType(kind) ==
  IF cq.ini.rowBuffer = "ClosePage" THEN (IF kind = "read" THEN "READ_P" ELSE "WRITE_P")
  ELSE IF kind = "read" THEN "READ" ELSE "WRITE"

BusPacket(type, t) ==
  LET place == addressMapping(cq.ini.mapping, t.addr) IN
  [type |-> type, rank |-> place.rank, bank |-> place.bank, row |-> place.row,
   addr |-> t.addr, id |-> t.id]

FillQueue ==
  LET fits == {i \in DOMAIN transactionQueue :
                 LET place == addressMapping(cq.ini.mapping, transactionQueue[i].addr) IN
                 hasRoomFor(cq, 2, place.rank, place.bank)}
      t == transactionQueue[Min(fits)]
  IN
  /\ At("fill", "power")
  /\ IF fits = {} THEN UNCHANGED <<transactionQueue, cq, pendingReadTransactions>>
     ELSE /\ transactionQueue' = RemoveAt(transactionQueue, Min(fits))
          /\ cq' = enqueue(cq, <<BusPacket("ACTIVATE", t), BusPacket(getBusPacketType(t.kind), t)>>)
          /\ pendingReadTransactions' =
               IF t.kind = "read" THEN Append(pendingReadTransactions, t)
               ELSE pendingReadTransactions
  /\ UNCHANGED <<traceVars, bankStates, ranks, powerDown, bus, refreshVars, returnTransaction,
                 receiver, fault>>

-----------------------------------------------------------------------------
(* Idle ranks power down, needed ones power up. *)
quiet(r) == isEmpty(cq, r) /\ ~ranks[r].refreshWaiting
goesDown(r) == cq.ini.lowPower /\ quiet(r) /\ \A b \in Banks : bankStates[r][b].state = "Idle"
(* Mutant: a refresh that waits does not wake a rank. *)
comesUpForWork(r) ==
  cq.ini.lowPower /\ ~isEmpty(cq, r) /\ powerDown[r] /\ bankStates[r][0].nextPowerUp = 0
comesUp(r) == cq.ini.lowPower /\ ~quiet(r) /\ powerDown[r] /\ bankStates[r][0].nextPowerUp = 0

powerStep(r) ==
  CASE goesDown(r) -> [b \in Banks |-> [bankStates[r][b] EXCEPT !.state = "PowerDown",
                                                                !.nextPowerUp = tCKE]]
    [] comesUp(r) -> [b \in Banks |-> [bankStates[r][b] EXCEPT !.state = "Idle",
                                                               !.nextActivate = tXP]]
    [] OTHER -> bankStates[r]

rankPowerStep(r) ==
  CASE goesDown(r) -> R!powerDown(ranks[r])
    [] comesUp(r) -> R!powerUp(ranks[r])
    [] OTHER -> ranks[r]

(* The oldest returned burst answers the first pending read of its         *)
(* address; then the cycle is over and every waiting time is one less.     *)
EndCycle ==
  LET a == returnTransaction[1].addr
      match == {i \in DOMAIN pendingReadTransactions : pendingReadTransactions[i].addr = a}
  IN
  /\ At("power", "trace")
  /\ powerDown' = [r \in Ranks |-> (powerDown[r] \/ goesDown(r)) /\ ~comesUp(r)]
  /\ bankStates' = [r \in Ranks |-> [b \in Banks |-> step(powerStep(r)[b])]]
  /\ ranks' = [r \in Ranks |-> [rankPowerStep(r) EXCEPT
                 !.banks = [b \in Banks |-> step(@[b])]]]
  /\ IF returnTransaction = <<>> \/ match = {}
     THEN UNCHANGED <<pendingReadTransactions, returnTransaction, receiver>>
     ELSE /\ pendingReadTransactions' = RemoveAt(pendingReadTransactions, Min(match))
          /\ returnTransaction' = Tail(returnTransaction)
          /\ receiver' = complete("read", a)
  /\ fault' = IF returnTransaction # <<>> /\ (match = {} \/ receiver.read[a] = 0)
              THEN "no pending read"
              ELSE IF \E r \in Ranks : \/ goesDown(r) /\ R!cannotPowerDown(ranks[r])
                                       \/ comesUp(r) /\ R!cannotPowerUp(ranks[r])
              THEN "power mode refused" ELSE "none"
  /\ refreshCountdown' = [r \in Ranks |-> refreshCountdown[r] - 1]
  /\ UNCHANGED <<traceVars, transactionQueue, cq, bus, refreshRank>>

-----------------------------------------------------------------------------
Cycle == UpdateRanks \/ UpdateBuses \/ RefreshDue \/ RefreshNear \/ IssueCommand
         \/ FillQueue \/ EndCycle
Next == NewLine \/ SameLine \/ NoLine \/ Cycle

(* The loop of the trace simulator calls update in every iteration and     *)
(* reads its trace to the end: while no check has fired, stage moves on.   *)
(* Every step of Next moves it, so this is weak fairness of Next in a form *)
(* whose ENABLED costs TLC nothing.                                        *)
GoOn == fault = "none" /\ stage' \in {"trace", "ranks", "buses", "refresh", "issue", "fill", "power"}
Spec == Init /\ [][Next]_vars /\ WF_stage(GoOn)

-----------------------------------------------------------------------------
(* None of the checks that end the program fires: a rank never receives a  *)
(* command or a change of power its own state table forbids, no two        *)
(* bursts of writes and no two commands meet on a bus, and every burst     *)
(* that comes back belongs to a pending read (MemoryController.cpp,        *)
(* Rank.cpp, TraceBasedSim.cpp).                                           *)
NoError == fault = "none"

(* The data bus carries one burst at a time, whether the controller or a   *)
(* rank drives it.  The code checks writes against writes only.            *)
DataBusExclusive ==
  stage = "trace" =>
    Cardinality({r \in Ranks : ranks[r].data # <<>>}) + Len(bus.data) <= 1

(* A refresh is asked for only when the one asked for before has gone out: *)
(* the command queue has a single refreshRank and would forget the other.  *)
NoRefreshForgotten ==
  stage = "refresh" /\ refreshCountdown[refreshRank] = 0 => ~cq.refreshWaiting

(* Accesses to one address leave for the rank in the order of the trace,   *)
(* however the scheduler reorders rows, banks and ranks.                   *)
unissued == ToSet(trans) \cup ToSet(transactionQueue)
            \cup UNION {{[id |-> p.id, addr |-> p.addr] :
                           p \in {x \in ToSet(cq.queues[r][b]) : x.type \in Column}} :
                        <<r, b>> \in Ranks \X Banks}
firstOfAddress(t) == \A u \in unissued : u.addr = t.addr => u.id >= t.id
AccessesInOrder ==
  [][\A t \in unissued : firstOfAddress(t) \/ \E u \in unissued' : u.id = t.id]_vars

(* Every access is completed: the trace simulator is left with nothing     *)
(* pending, over and over, whatever refreshes and power modes intervene.   *)
nothingPending ==
  trans = <<>> /\ \A kind \in DOMAIN receiver : \A a \in Addresses : receiver[kind][a] = 0
AllAnswered == []<>nothingPending
=============================================================================
