------------------------------- MODULE Bpred -------------------------------
(***************************************************************************)
(* The branch predictors (src/sim/src/branch_predictor.cpp).  The core     *)
(* asks for and reports each conditional branch in one call, predict, so   *)
(* a step is one branch.  The program is a loop over a few branches, each  *)
(* of which may go either way every time it is reached.                    *)
(***************************************************************************)
EXTENDS Tage, Sequences

CONSTANTS
    Programs,       \* the loops: sequences of numbers of branches (getUID)
    Types,          \* the predictors that are tried
    BhtLog,         \* bht_size is 2^BhtLog, as its use as a mask expects
    GhrSize,        \* gshare_global_hist_bits
    MaxBranches     \* bound: branches in a run

ASSUME BpredAssumption == BhtLog \in Nat /\ GhrSize \in Nat

VARIABLES
    type,           \* TypeBpred
    bht,            \* counters of onebit, twobit and gshare
    gshare_global_hist,
    tage,           \* tagePredictor
    program,        \* the loop that runs
    outcomes,       \* the outcomes so far, latest first
    mispredict      \* whether the last one met a wrong prediction

vars == <<type, bht, gshare_global_hist, tage, program, outcomes, mispredict>>

CounterMax == IF type = "bp_onebit" THEN 1 ELSE 3

Init ==
    /\ type \in Types
    /\ bht = [e \in 0..(2^BhtLog - 1) |-> IF type = "bp_twobit" THEN 2 ELSE 1]
    /\ gshare_global_hist = 0
    /\ tage = PREDICTOR
    /\ program \in Programs
    /\ outcomes = <<>> /\ mispredict = FALSE

\* The entry of the branch in the table of counters.
bhtIndex(pc) ==
    (IF type = "bp_gshare" THEN pc ^^ gshare_global_hist ELSE pc) % 2^BhtLog

historyAfter(taken) ==
    (2 * gshare_global_hist + (IF taken THEN 1 ELSE 0)) % 2^GhrSize

\* A branch to pc met a prediction and went the way taken.
Resolved(pred_taken, taken) ==
    /\ outcomes' = <<taken>> \o outcomes
    /\ mispredict' = (pred_taken # taken)
    /\ UNCHANGED <<type, program>>

\* A predictor without state: the same answer every time.
predictStatic(pc, taken) ==
    /\ type \in {"bp_none", "bp_perfect", "bp_always_NT", "bp_always_T"}
    /\ Resolved(CASE type = "bp_none" -> ~taken
                  [] type = "bp_perfect" -> taken
                  [] OTHER -> type = "bp_always_T", taken)
    /\ UNCHANGED <<bht, gshare_global_hist, tage>>

predictCounter(pc, taken) ==
    /\ type \in {"bp_onebit", "bp_twobit", "bp_gshare"}
    /\ Resolved(2 * bht[bhtIndex(pc)] > CounterMax, taken)
    /\ bht' = [bht EXCEPT ![bhtIndex(pc)] = Trained(@, CounterMax, taken)]
    /\ gshare_global_hist' = IF type = "bp_gshare" THEN historyAfter(taken)
                             ELSE gshare_global_hist
    /\ UNCHANGED tage

predictTage(pc, taken) ==
    LET p == GetPrediction(tage, pc)
    IN  /\ type = "bp_tage"
        /\ Resolved(p.pred, taken)
        /\ \E upper \in BOOLEAN : tage' = UpdatePredictor(tage, pc, p, taken, upper)
        /\ UNCHANGED <<bht, gshare_global_hist>>

\* The branch of the loop that is next.
nextBranch == program[1 + (Len(outcomes) % Len(program))]

predict ==
    /\ Len(outcomes) < MaxBranches
    /\ \E taken \in BOOLEAN :
          \/ predictStatic(nextBranch, taken)
          \/ predictCounter(nextBranch, taken)
          \/ predictTage(nextBranch, taken)

Next == predict
Spec == Init /\ [][Next]_vars
---------------------------------------------------------------------------
\* Outcome number n, counted back from the latest, as a bit; 0 before the first.
bit(n) == IF n <= Len(outcomes) /\ outcomes[n] THEN 1 ELSE 0

\* The last geomLength outcomes, cut into rows of targetLength bits that are xored.
fold(geomLength, targetLength) ==
    LET column(b) == {n \in 1..geomLength : (n - 1) % targetLength = b /\ bit(n) = 1}
    IN  MapThenSumSet(LAMBDA b : 2^b * (Cardinality(column(b)) % 2), 0..(targetLength - 1))

(***************************************************************************)
(* Every predictor indexes its tables with the outcomes it was told: the   *)
(* folded histories, which TAGE maintains by rotation without ever looking *)
(* at the whole history again, are the folds of exactly the last           *)
(* geomLength outcomes, and gshare's register holds its last GhrSize.      *)
(***************************************************************************)
HistoryFolded ==
    /\ type = "bp_tage" =>
         \A i \in Banks :
           /\ tage.indexComp[i] = fold(Geometric[i], TagPredLog)
           /\ \A j \in 1..2 : tage.tagComp[j][i] = fold(Geometric[i], TagLength[j])
    /\ type = "bp_gshare" => gshare_global_hist = fold(GhrSize, GhrSize)

(***************************************************************************)
(* What costs nothing to allocate is not taken from what is worth keeping: *)
(* a tag of the tagged tables is replaced only in an entry whose useful    *)
(* counter is zero, and useful counters stay in 0..3 although they are     *)
(* counted down without a test when no free entry was found.               *)
(***************************************************************************)
UsefulKept ==
    [][\A i \in Banks : \A e \in DOMAIN tage.tagPred[i] :
         /\ tage'.tagPred[i][e].useful \in 0..BIMODAL_CTR_MAX
         /\ tage.tagPred[i][e].useful > 0 => tage'.tagPred[i][e].tag = tage.tagPred[i][e].tag]_vars

============================================================================
