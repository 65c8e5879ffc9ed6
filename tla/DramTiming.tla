----------------------------- MODULE DramTiming -----------------------------
(***************************************************************************)
(* DRAMSim2: the timing parameters of the device ini file, the delays      *)
(* SystemConfiguration.h derives from them, the state table of a bank and  *)
(* the way an address names a bank.  A bank keeps times at which commands  *)
(* become legal; the code keeps them as absolute cycles and only compares  *)
(* them with the current cycle, so here they are the cycles still to wait. *)
(***************************************************************************)
EXTENDS Integers, Sequences, FiniteSets, FiniteSetsExt, SequencesExt

CONSTANTS NUM_RANKS, NUM_BANKS, NUM_ROWS, NUM_COLS,
          CL, AL, BL, tRAS, tRCD, tRRD, tRC, tRP, tCCD, tRTP, tWTR, tWR,
          tRTRS, tRFC, tFAW, tCKE, tXP, tCMD,
          REFRESH_CYCLES,      \* REFRESH_PERIOD/tCK
          TOTAL_ROW_ACCESSES, TRANS_QUEUE_DEPTH

(* The tCMD of every ini file is 1: two commands on the bus would collide. *)
ASSUME GeometryAssumption == {NUM_RANKS, NUM_BANKS, NUM_ROWS, NUM_COLS} \subseteq {1, 2, 4, 8}
ASSUME TimingAssumption ==
  /\ {CL, tRAS, tRCD, tRRD, tRC, tRP, tCCD, tRTP, tRFC, tFAW, tCMD} \subseteq Nat \ {0}
  /\ {AL, tWTR, tWR, tRTRS, tCKE, tXP} \subseteq Nat
  /\ BL \in {4, 8}

Ranks == 0 .. NUM_RANKS - 1
Banks == 0 .. NUM_BANKS - 1

Later(a, b) == IF a > b THEN a ELSE b
Sooner(t) == IF t = 0 THEN 0 ELSE t - 1

RL == CL + AL
WL == RL - 1
Burst == BL \div 2
READ_TO_PRE_DELAY   == AL + Burst + Later(tRTP, tCCD) - tCCD
WRITE_TO_PRE_DELAY  == WL + Burst + tWR
READ_TO_WRITE_DELAY == RL + Burst + tRTRS - WL
READ_AUTOPRE_DELAY  == AL + tRTP + tRP
WRITE_AUTOPRE_DELAY == WL + Burst + tWR + tRP
WRITE_TO_READ_DELAY_B == WL + Burst + tWTR
WRITE_TO_READ_DELAY_R == WL + Burst + tRTRS - RL

-----------------------------------------------------------------------------
(* Bank states. *)

BankState == [state |-> "Idle", row |-> 0, nextRead |-> 0, nextWrite |-> 0,
              nextActivate |-> 0, nextPrecharge |-> 0, nextPowerUp |-> 0,
              last |-> "READ", left |-> 0]

step(b) == [b EXCEPT !.nextRead = Sooner(@), !.nextWrite = Sooner(@),
                     !.nextActivate = Sooner(@), !.nextPrecharge = Sooner(@),
                     !.nextPowerUp = Sooner(@)]

Reads == {"READ", "READ_P"}
Writes == {"WRITE", "WRITE_P"}
Column == Reads \cup Writes
AutoPrecharge == {"READ_P", "WRITE_P"}

(* The wait a column access imposes on the reads and on the writes that    *)
(* follow it, in its own rank and in another one.                          *)
ReadGap(type, own) ==
  IF type \in Reads THEN (IF own THEN Later(tCCD, Burst) ELSE Burst + tRTRS)
  ELSE IF own THEN WRITE_TO_READ_DELAY_B ELSE WRITE_TO_READ_DELAY_R

(* Mutant: no turnaround of the data bus after a read. *)
WriteGapNoTurnaround(type, own) ==
  IF type \in Reads THEN RL + Burst - WL
  ELSE IF own THEN Later(tCCD, Burst) ELSE Burst + tRTRS

WriteGap(type, own) ==
  IF type \in Reads THEN READ_TO_WRITE_DELAY
  ELSE IF own THEN Later(tCCD, Burst) ELSE Burst + tRTRS

AutoprechargeDelay(type) == IF type \in Reads THEN READ_AUTOPRE_DELAY ELSE WRITE_AUTOPRE_DELAY
PrechargeDelay(type) == IF type \in Reads THEN READ_TO_PRE_DELAY ELSE WRITE_TO_PRE_DELAY

-----------------------------------------------------------------------------
(* Address mapping: the fields of a block address, lowest first. *)

Layout == [Scheme1 |-> <<"bank", "col", "row", "rank">>,
           Scheme2 |-> <<"rank", "bank", "col", "row">>,
           Scheme3 |-> <<"row", "col", "bank", "rank">>,
           Scheme4 |-> <<"col", "row", "bank", "rank">>,
           Scheme5 |-> <<"bank", "rank", "col", "row">>,
           Scheme6 |-> <<"col", "rank", "bank", "row">>,
           Scheme7 |-> <<"bank", "rank", "col", "row">>]

Size == [rank |-> NUM_RANKS, bank |-> NUM_BANKS, row |-> NUM_ROWS, col |-> NUM_COLS]

(* Each field takes the low bits of what the fields before it left. *)
addressMapping(scheme, address) ==
  LET fields == Layout[scheme]
      below == [k \in 1 .. Len(fields) |->
                  FoldLeft(LAMBDA n, f : n * Size[f], 1, SubSeq(fields, 1, k - 1))]
  IN  [f \in DOMAIN Size |->
         (address \div below[CHOOSE k \in 1 .. Len(fields) : fields[k] = f]) % Size[f]]
=============================================================================
