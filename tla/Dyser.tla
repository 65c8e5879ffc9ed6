------------------------------- MODULE Dyser -------------------------------
(***************************************************************************)
(* The DySER unit (class DyserUnit), a dataflow graph that computes as     *)
(* soon as tokens are there, and the request ordering unit (class          *)
(* RequestOrderingUnit) in front of it.  Tokens are only counted.          *)
(*                                                                         *)
(* The function that the tools made for the unit is a sequence of records  *)
(* with operands, latency and output; an operand is <<"arg", j>> or        *)
(* <<"insn", k>>, the result of its k-th instruction.                      *)
(***************************************************************************)
EXTENDS Integers, FiniteSets, SequencesExt

Operand == {"arg", "insn"} \X Nat
Function ==
    {body \in Seq([operands : Seq(Operand), latency : Nat, output : BOOLEAN]) :
       \A k \in DOMAIN body : \A v \in ToSet(body[k].operands) : v[1] = "insn" => v[2] \in DOMAIN body}

(* fetch() numbers inputs from 0 in the order of their first use, then the *)
(* instructions; a unit's structure f is made once.                        *)

Input(found, v) == IF v[1] = "arg" /\ ~Contains(found, v) THEN Append(found, v) ELSE found
Inputs(body) == FoldLeft(LAMBDA found, i : FoldLeft(Input, found, i.operands), <<>>, body)

dynID(body, v) ==
    IF v[1] = "arg" THEN SelectInSeq(Inputs(body), LAMBDA w : w = v) - 1
                    ELSE Len(Inputs(body)) + v[2] - 1
DynDeps(body, k) == {dynID(body, body[k].operands[j]) : j \in DOMAIN body[k].operands}
Outputs(body) ==
    FoldLeftDomain(LAMBDA found, k : IF body[k].output THEN Append(found, k) ELSE found, <<>>, body)
offsetDynID(body, offset) == dynID(body, <<"insn", Outputs(body)[offset + 1]>>)

fetch(body) ==
    [internalFIFO |-> [k \in DOMAIN body |-> [d \in DynDeps(body, k) |-> 0]],
     outputFIFO |-> [d \in {dynID(body, <<"insn", k>>) : k \in ToSet(Outputs(body))} |-> 0],
     inflight |-> {},                               \* instructions that compute
     currentCycle |-> [k \in DOMAIN body |-> 0]]    \* never set back

\* A token for every instruction that waits for one of these, and for the outputs.
notify(u, ids) ==
    [u EXCEPT !.internalFIFO = [k \in DOMAIN @ |-> [d \in DOMAIN @[k] |->
                                  IF d \in ids THEN @[k][d] + 1 ELSE @[k][d]]],
              !.outputFIFO = [d \in DOMAIN @ |-> IF d \in ids THEN @[d] + 1 ELSE @[d]]]

finish(body, u, k) == u.currentCycle[k] >= body[k].latency

checkDataReadyAny(u, k) == \E d \in DOMAIN u.internalFIFO[k] : u.internalFIFO[k][d] > 0   \* mutant
\* An instruction without operands never computes.
checkDataReady(u, k) ==
    /\ DOMAIN u.internalFIFO[k] # {}
    /\ \A d \in DOMAIN u.internalFIFO[k] : u.internalFIFO[k][d] > 0

commitInsns(body, u) ==
    LET done == {k \in u.inflight : finish(body, u, k)}
    IN [notify(u, {dynID(body, <<"insn", k>>) : k \in done}) EXCEPT
           !.inflight = @ \ done,
           !.currentCycle = [k \in DOMAIN body |->
                                IF k \in u.inflight \ done THEN @[k] + 1 ELSE @[k]]]

processQueue(body, unit) ==
    LET u == commitInsns(body, unit)
        starts == {k \in DOMAIN body \ u.inflight : checkDataReady(u, k)}
    IN [u EXCEPT !.inflight = @ \cup starts,
                 !.internalFIFO = [k \in DOMAIN body |->
                     IF k \in starts THEN [d \in DOMAIN @[k] |-> Max({@[k][d] - 1, 0})] ELSE @[k]]]

canGetData(body, u, offset) == u.outputFIFO[offsetDynID(body, offset)] > 0
getData(body, u, offset) == [u EXCEPT !.outputFIFO[offsetDynID(body, offset)] = @ - 1]

-----------------------------------------------------------------------------
(* The request ordering unit keeps, per stream, the instructions that have *)
(* been dispatched and not issued.  hash is the stream of a unit number    *)
(* and an offset; hand-overs and results are not told apart.               *)

isRequest(i) == i.kind \in {"packing", "extract"}

addInstructionFront(rou, hash, i, d) ==   \* mutant
    IF ~isRequest(i) THEN rou
    ELSE [h \in DOMAIN rou \cup {hash} |->
            IF h # hash THEN rou[h] ELSE IF h \in DOMAIN rou THEN <<d>> \o rou[h] ELSE <<d>>]
addInstruction(rou, hash, i, d) ==
    IF ~isRequest(i) THEN rou
    ELSE [h \in DOMAIN rou \cup {hash} |->
            IF h # hash THEN rou[h] ELSE IF h \in DOMAIN rou THEN Append(rou[h], d) ELSE <<d>>]

canIssueAlways(rou, hash, i, d) == TRUE   \* mutant
canIssue(rou, hash, i, d) == isRequest(i) => Head(rou[hash]) = d

releaseNothing(rou, hash, i, d) == rou   \* mutant
releaseEntry(rou, hash, i, d) ==
    IF isRequest(i) /\ rou[hash] # <<>> /\ Head(rou[hash]) = d
    THEN [rou EXCEPT ![hash] = Tail(@)] ELSE rou
=============================================================================
