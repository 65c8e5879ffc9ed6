------------------------------ MODULE DramRank ------------------------------
(***************************************************************************)
(* Rank.cpp: a rank's own table of its banks.  It receives a command tCMD  *)
(* cycles after the controller chose it and ends the program when its own  *)
(* table does not allow it.                                                *)
(***************************************************************************)
EXTENDS DramTiming

(* A rank: its banks, the reads waiting RL cycles for the data bus, the    *)
(* burst on the bus, and the flags its controller reads and sets.          *)
Rank == [banks |-> [b \in Banks |-> BankState], returns |-> <<>>, data |-> <<>>,
         dataLeft |-> 0, refreshWaiting |-> FALSE, powered |-> TRUE]

(* The checks of receiveFromBus. *)
refuses(k, p) ==
  LET x == k.banks[p.bank] IN
  CASE p.type \in Reads  -> x.state # "RowActive" \/ x.nextRead > 0 \/ p.row # x.row
    [] p.type \in Writes -> x.state # "RowActive" \/ x.nextWrite > 0 \/ p.row # x.row
    [] p.type = "ACTIVATE"  -> x.state # "Idle" \/ x.nextActivate > 0
    [] p.type = "PRECHARGE" -> x.state # "RowActive" \/ x.nextPrecharge > 0
    [] p.type = "REFRESH"   -> \E b \in Banks : k.banks[b].state # "Idle"

(* A column access: the bank closes when it precharges itself, every bank  *)
(* waits, and a read enters the return queue.                              *)
receiveColumn(k, p) ==
  LET closed == [k.banks EXCEPT ![p.bank] =
        IF p.type \in AutoPrecharge
        THEN [@ EXCEPT !.state = "Idle",
                       !.nextActivate = Later(@, AutoprechargeDelay(p.type))]
        ELSE [@ EXCEPT !.nextPrecharge = Later(@, PrechargeDelay(p.type))]]
  IN  [k EXCEPT
        !.banks = [b \in Banks |->
          [closed[b] EXCEPT !.nextRead = Later(@, ReadGap(p.type, TRUE)),
                            !.nextWrite = Later(@, WriteGap(p.type, TRUE))]],
        !.returns = IF p.type \in Reads THEN Append(@, [left |-> RL, packet |-> p]) ELSE @]

receiveActivate(k, p) ==
  [k EXCEPT !.banks = [b \in Banks |->
     IF b = p.bank
     THEN [@[b] EXCEPT !.state = "RowActive", !.row = p.row, !.nextActivate = tRC,
                       !.nextRead = tRCD - AL, !.nextWrite = tRCD - AL, !.nextPrecharge = tRAS]
     ELSE [@[b] EXCEPT !.nextActivate = Later(@, tRRD)]]]

receiveFromBus(k, p) ==
  CASE p.type \in Column -> receiveColumn(k, p)
    [] p.type = "ACTIVATE" -> receiveActivate(k, p)
    [] p.type = "PRECHARGE" ->
         [k EXCEPT !.banks[p.bank] = [@ EXCEPT !.state = "Idle", !.nextActivate = Later(@, tRP)]]
    [] p.type = "REFRESH" ->
         [k EXCEPT !.refreshWaiting = FALSE,
                   !.banks = [b \in Banks |-> [@[b] EXCEPT !.nextActivate = tRFC]]]

(* update: the burst that leaves the bus now, and the rank after it.  A    *)
(* read whose RL cycles are over takes the bus, whatever was on it.        *)
Delivered(k) == IF k.data # <<>> /\ k.dataLeft = 1 THEN k.data ELSE <<>>

update(k) ==
  LET aged == [i \in DOMAIN k.returns |-> [k.returns[i] EXCEPT !.left = Sooner(@)]]
      gone == [k EXCEPT !.dataLeft = Sooner(@),
                        !.data = IF Delivered(k) = <<>> THEN @ ELSE <<>>,
                        !.returns = aged]
  IN  IF aged # <<>> /\ aged[1].left = 0
      THEN [gone EXCEPT !.data = <<aged[1].packet>>, !.dataLeft = Burst, !.returns = Tail(aged)]
      ELSE gone

cannotPowerDown(k) == \E b \in Banks : k.banks[b].state # "Idle"
powerDown(k) ==
  [k EXCEPT !.powered = FALSE,
            !.banks = [b \in Banks |-> [@[b] EXCEPT !.state = "PowerDown", !.nextPowerUp = tCKE]]]

cannotPowerUp(k) == k.powered \/ \E b \in Banks : k.banks[b].nextPowerUp > 0
powerUp(k) ==
  [k EXCEPT !.powered = TRUE,
            !.banks = [b \in Banks |-> [@[b] EXCEPT !.state = "Idle", !.nextActivate = tXP]]]
=============================================================================
