------------------------------- MODULE Tage -------------------------------
(***************************************************************************)
(* The TAGE predictor (src/sim/src/tage/tage.cpp, include/tage/tage.h): a  *)
(* bimodal table and four tagged tables that are indexed with folded parts *)
(* of the global history, longest part first.  A predictor is one record;  *)
(* PREDICTOR is the fresh one, GetPrediction and UpdatePredictor map it to *)
(* the next.  Numbers are those of the code, the sizes are parameters.     *)
(***************************************************************************)
EXTENDS Integers, FiniteSetsExt, Functions, Bitwise

CONSTANTS
    BimodalLog,     \* BIMODALLOG, 14 in the code
    TagPredLog,     \* TAGPREDLOG, 12
    TagLength,      \* the lengths of the two folded histories of a tag, <<9, 8>>
    Geometric,      \* bank -> length of its history, 130, 44, 15, 5
    PathBits,       \* bits of PHR, 16
    ResetPeriod     \* updates between two resets of useful bits, 256 * 1024

Banks == 0..3       \* NUMTAGTABLES banks
NoBank == 4

ASSUME TageAssumption ==
    /\ BimodalLog \in Nat /\ TagPredLog \in Nat /\ TagPredLog >= 3
    /\ TagLength \in (Nat \ {0}) \X (Nat \ {0}) /\ TagLength[1] >= TagLength[2]
    /\ Geometric \in [Banks -> Nat \ {0}] /\ \A i \in Banks : Geometric[0] >= Geometric[i]
    /\ PathBits \in Nat /\ ResetPeriod \in Nat \ {0}

BIMODAL_CTR_MAX == 3
TAGPRED_CTR_MAX == 7

SatIncrement(value, max) == IF value < max THEN value + 1 ELSE value
SatDecrement(value) == IF value > 0 THEN value - 1 ELSE value

\* The counter c after a branch that was taken or not.
Trained(c, max, taken) == IF taken THEN SatIncrement(c, max) ELSE SatDecrement(c)

PREDICTOR ==
    [bimodal |-> [e \in 0..(2^BimodalLog - 1) |-> 2],
     tagPred |-> [i \in Banks |-> [e \in 0..(2^TagPredLog - 1) |->
                                     [ctr |-> 0, tag |-> 0, useful |-> 0]]],
     indexComp |-> [i \in Banks |-> 0],
     tagComp   |-> [j \in 1..2 |-> [i \in Banks |-> 0]],
     GHR |-> [n \in 0..Geometric[0] |-> 0],
     PHR |-> 0, clock |-> 0, clock_flip |-> 1, altBetterCount |-> 8]

---------------------------------------------------------------------------
(* The prediction.                                                         *)

\* Where bank i is looked up for the branch pc, and the tag it must hold.
tagOf(t, pc, i) ==
    (pc ^^ (t.tagComp[1][i] ^^ (2 * t.tagComp[2][i]))) % 2^TagLength[1]

PathPart(t, i) ==
    CASE i = 0 -> t.PHR ^^ (t.PHR \div 2^TagPredLog)
      [] i = 1 -> t.PHR
      [] i = 2 -> t.PHR % 32
      [] i = 3 -> t.PHR % 8

indexOf(t, pc, i) ==
    ((pc ^^ (pc \div 2^(TagPredLog - i))) ^^ (t.indexComp[i] ^^ PathPart(t, i)))
        % 2^TagPredLog

entryOf(t, pc, i) == t.tagPred[i][indexOf(t, pc, i)]

\* The first bank, from number "from" on, that knows the branch.
matchFrom(t, pc, from) ==
    Min({i \in from..3 : entryOf(t, pc, i).tag = tagOf(t, pc, i)} \union {NoBank})

BimodalIndex(pc) == pc % 2^BimodalLog

\* The direction a bank gives; without a bank the bimodal table's.
Says(t, pc, bank) ==
    IF bank = NoBank
      THEN t.bimodal[BimodalIndex(pc)] > BIMODAL_CTR_MAX \div 2
      ELSE entryOf(t, pc, bank).ctr >= TAGPRED_CTR_MAX \div 2

(***************************************************************************)
(* The test that would prefer altPred for new entries is a disjunction of  *)
(* ctr # 3 and ctr # 4, so the first matching bank always decides.         *)
(***************************************************************************)
GetPrediction(t, pc) ==
    LET prime == matchFrom(t, pc, 0)
        alt   == matchFrom(t, pc, prime + 1)
    IN  [primeBank |-> prime, pred |-> Says(t, pc, prime),
         altPred |-> Says(t, pc, IF prime = NoBank THEN NoBank ELSE alt)]

---------------------------------------------------------------------------
(* The update.                                                             *)

\* The bank that predicted, or the bimodal table, learns the outcome.
provider(t, pc, p, taken) ==
    IF p.primeBank = NoBank
      THEN [t EXCEPT !.bimodal[BimodalIndex(pc)] = Trained(@, BIMODAL_CTR_MAX, taken)]
      ELSE [t EXCEPT !.tagPred[p.primeBank][indexOf(t, pc, p.primeBank)] =
              [@ EXCEPT !.ctr = Trained(@, TAGPRED_CTR_MAX, taken),
                        !.useful = IF p.pred = p.altPred THEN @
                                   ELSE Trained(@, BIMODAL_CTR_MAX, p.pred = taken)]]

\* The entry that predicted looks as if it had just been allocated.
newEntry(t, pc, p) ==
    /\ p.primeBank # NoBank
    /\ entryOf(t, pc, p.primeBank).useful = 0
    /\ entryOf(t, pc, p.primeBank).ctr \in {3, 4}

altBetter(t, pc, p, taken) ==
    IF newEntry(t, pc, p) /\ p.pred # p.altPred
      THEN [t EXCEPT !.altBetterCount = Trained(@, 15, p.altPred = taken)]
      ELSE t

\* Mutant: an entry that proved useful only once counts as free.
freeBanksBelowTwo(t, pc, p) == {i \in 0..(p.primeBank - 1) : entryOf(t, pc, i).useful < 2}

\* The banks of longer history that have no useful entry for the branch.
freeBanks(t, pc, p) == {i \in 0..(p.primeBank - 1) : entryOf(t, pc, i).useful = 0}

(***************************************************************************)
(* matchBank: bank_store is indexed by the bank, not by the count, so a    *)
(* draw finds -1 (no bank) where the bank of that number is not free.  The *)
(* draw itself is rand() after srand(time()): upper stands for randNo > 33 *)
(* and is free.                                                            *)
(***************************************************************************)
matchBank(free, upper) ==
    LET count == Cardinality(free)
        drawn == IF count = 1 THEN 0 ELSE IF upper THEN count - 1 ELSE count - 2
    IN  IF drawn \in free THEN drawn ELSE -1

\* The bank that gets an entry: the first free one from matchBank downwards.
victim(free, upper) == Max({i \in free : i <= matchBank(free, upper)} \union {-1})

allocate(t, pc, p, taken, upper) ==
    LET free == freeBanks(t, pc, p)
        bank == victim(free, upper)
    IN  IF p.pred = taken \/ p.primeBank = 0 THEN t
        ELSE IF free = {}
          THEN [t EXCEPT !.tagPred = [i \in Banks |->
                  IF i < p.primeBank
                    THEN [@[i] EXCEPT ![indexOf(t, pc, i)].useful = @ - 1]
                    ELSE @[i]]]
        ELSE IF bank = -1 THEN t
        ELSE [t EXCEPT !.tagPred[bank][indexOf(t, pc, bank)] =
                [ctr |-> IF taken THEN 4 ELSE 3, tag |-> tagOf(t, pc, bank), useful |-> 0]]

\* Every ResetPeriod updates one of the two useful bits is cleared everywhere.
aged(t) ==
    LET flip == 1 - t.clock_flip
        kept(u) == IF flip = 1 THEN u % 2 ELSE (u \div 2) * 2
    IN  IF t.clock + 1 < ResetPeriod THEN [t EXCEPT !.clock = @ + 1]
        ELSE [t EXCEPT !.clock = 0, !.clock_flip = flip,
                       !.tagPred = [i \in Banks |-> [e \in DOMAIN @[i] |->
                                      [@[i][e] EXCEPT !.useful = kept(@)]]]]

\* Mutant: the bit that leaves is taken one place too early.
updateCompHistEarly(compHist, geomLength, targetLength, ghr) ==
    LET mask1 == ghr[geomLength - 1] * 2^(geomLength % targetLength)
        moved == 2 * compHist + ghr[0]
    IN  ((moved ^^ (moved \div 2^targetLength)) ^^ mask1) % 2^targetLength

(***************************************************************************)
(* updateCompHist: the folded history is rotated by one, the new outcome   *)
(* enters at bit 0 and the one that leaves the window of geomLength is     *)
(* taken out where the rotations have brought it.                          *)
(***************************************************************************)
updateCompHist(compHist, geomLength, targetLength, ghr) ==
    LET mask1 == ghr[geomLength] * 2^(geomLength % targetLength)
        moved == 2 * compHist + ghr[0]
    IN  ((moved ^^ (moved \div 2^targetLength)) ^^ mask1) % 2^targetLength

remembered(t, pc, taken) ==
    LET ghr == [n \in DOMAIN t.GHR |-> IF n > 0 THEN t.GHR[n - 1] ELSE IF taken THEN 1 ELSE 0]
    IN  [t EXCEPT
          !.GHR = ghr,
          !.indexComp = [i \in Banks |-> updateCompHist(@[i], Geometric[i], TagPredLog, ghr)],
          !.tagComp = [j \in 1..2 |-> [i \in Banks |->
                         updateCompHist(@[j][i], Geometric[i], TagLength[j], ghr)]],
          !.PHR = (2 * @ + (pc % 2)) % 2^PathBits]

\* Indices and tags are those of the prediction: the history changes last.
UpdatePredictor(t, pc, p, taken, upper) ==
    LET t1 == provider(t, pc, p, taken)
        t2 == altBetter(t1, pc, p, taken)
        t3 == IF newEntry(t1, pc, p) /\ p.pred = taken THEN t2
              ELSE allocate(t2, pc, p, taken, upper)
    IN  remembered(aged(t3), pc, taken)
============================================================================
