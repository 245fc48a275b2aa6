------------------------------- MODULE Funding --------------------------------
(***************************************************************************)
(* How a new transaction gets its change inputs and change outputs:        *)
(* generateChangeSdk with the callbacks of createAction, which take        *)
(* outputs from storage one at a time and give them back when the          *)
(* transaction has to do with fewer outputs.  Between two of these calls   *)
(* other actions take and return outputs of the basket.                    *)
(*                                                                         *)
(* Sizes are linear in the numbers of inputs and outputs.                  *)
(***************************************************************************)
EXTENDS Integers, FiniteSets, Sequences, SequencesExt, FiniteSetsExt

CONSTANTS
    Coins,        \* change outputs in the basket
    Values,       \* satoshis they may have
    Requests,     \* what createAction may ask for: records as in Request
    Unset,        \* no value
    BaseSize, InSize, OutSize,  \* size of a transaction without, and per, input and output
    FeeUnit,      \* size one satoshi pays for
    Huge,         \* maxPossibleSatoshis
    MaxChange,    \* most change outputs
    MaxOthers     \* bound on what other actions do

\* Satoshis and numbers of fixed inputs and outputs, targetNetCount,
\* changeFirstSatoshis, changeInitialSatoshis, and how many noSendChange outputs.
Request == [fixedIn : Nat, fixedOut : Nat, ins : Nat, outs : Nat, target : Int \cup {Unset},
            first : Nat \ {0}, initial : Nat \ {0}, noSend : 0..Cardinality(Coins)]

ASSUME FundingAssumption ==
    /\ Requests \subseteq Request
    /\ IsFiniteSet(Coins) /\ Values \subseteq Nat \ {0}
    /\ {BaseSize, InSize, OutSize, MaxOthers} \subseteq Nat /\ {FeeUnit, MaxChange} \subseteq Nat \ {0}

VARIABLES
    sats,       \* value of each coin
    req,        \* the request
    named,      \* the noSendChange outputs it names
    spendable,  \* coins that storage offers
    marked,     \* coins reserved for this transaction (spendable false, spentBy)
    noSend,     \* noSendChange outputs not yet used
    inputs,     \* allocatedChangeInputs
    outputs,    \* satoshis of the change outputs
    removing,   \* removingOutputs
    fixedOut,   \* spending()
    fpc, others

fVars == <<sats, req, named, spendable, marked, noSend, inputs, outputs, removing, fixedOut, fpc, others>>

(***************************************************************************)
(* Sizes and fees.                                                         *)
(***************************************************************************)
Sums(seq) == LET s[n \in 0..Len(seq)] == IF n = 0 THEN 0 ELSE s[n - 1] + seq[n] IN s
Total(seq) == Sums(seq)[Len(seq)]
CeilDiv(a, b) == (a + b - 1) \div b
Larger(a, b) == IF a > b THEN a ELSE b
Smaller(a, b) == IF a < b THEN a ELSE b

FeeFor(ins, outs) == CeilDiv(BaseSize + InSize * ins + OutSize * outs, FeeUnit)

\* feeTarget and feeExcess with some more change inputs and outputs.
FeeTarget(i, o) == FeeFor(req.ins + Len(inputs) + i, req.outs + Len(outputs) + o)
Surplus == req.fixedIn + Total([k \in DOMAIN inputs |-> sats[inputs[k]]]) - fixedOut - Total(outputs)
Excess(i, o) == Surplus - FeeTarget(i, o)

\* An output worth less than twice the fee to spend it is not made.
DustFloor == Larger(1, 2 * FeeFor(1, 1))

HasTarget == req.target # Unset
TargetNet == IF HasTarget THEN Smaller(req.target, MaxChange) ELSE 0

(***************************************************************************)
(* Start: the change outputs the wallet would like to have.                *)
(***************************************************************************)
\* Mutant: without the dust floor.
Wanted_Dust(n) == IF n = 0 THEN req.first ELSE req.initial
Wanted(n) == IF n = 0 THEN Larger(DustFloor, req.first) ELSE Larger(DustFloor, req.initial)

FirstOutputs ==
    LET few == IF req.fixedIn - fixedOut - FeeFor(req.ins, req.outs) > 0 THEN 1 ELSE 0
        n == Smaller(MaxChange, Larger(few, TargetNet))
    IN  [k \in 1..n |-> Wanted(k - 1)]

\* preflightInsufficientFundsFastPath
Hopeless ==
    /\ spendable = {}
    /\ req.fixedIn + Total([k \in DOMAIN noSend |-> sats[noSend[k]]]) < fixedOut + FeeFor(req.ins, req.outs)

Preflight ==
    /\ fpc = "start" /\ Hopeless /\ fpc' = "insufficient"
    /\ UNCHANGED <<sats, req, named, spendable, marked, noSend, inputs, outputs, removing, fixedOut, others>>

StartFunding ==
    /\ fpc = "start" /\ ~Hopeless /\ fpc' = "fund"
    /\ outputs' = FirstOutputs
    /\ UNCHANGED <<sats, req, named, spendable, marked, noSend, inputs, removing, fixedOut, others>>

(***************************************************************************)
(* Allocation of one input.                                                *)
(***************************************************************************)

\* A coin of exactly the amount, else the smallest that covers the target,
\* else the largest.
Choice(target, exact) ==
    LET equal == {c \in spendable : exact # Unset /\ sats[c] = exact}
        over  == {c \in spendable : sats[c] >= target}
    IN  CASE equal # {} -> equal
          [] equal = {} /\ over # {} -> {c \in over : \A d \in over : sats[c] <= sats[d]}
          [] OTHER -> {c \in spendable : \A d \in spendable : sats[d] <= sats[c]}

\* addOutputToBalanceNewInput
Balancing == IF HasTarget /\ Len(outputs) < MaxChange /\ Len(outputs) - Len(inputs) - 1 < TargetNet THEN 1 ELSE 0

TargetSats ==
    LET ao == Balancing
        buffer == IF outputs = <<>> /\ ao = 0 THEN DustFloor + FeeTarget(0, 1) - FeeTarget(0, 0) ELSE 0
    IN  -Excess(1, ao) + (IF ao = 1 THEN 2 * req.initial ELSE 0) + buffer

ExactSats == IF ~HasTarget /\ outputs = <<>> THEN -Excess(1, 0) ELSE Unset

\* maybeAddChangeOutput, with the new input counted.
WithChange(excess, ao) ==
    LET cap == IF outputs = <<>> THEN req.first ELSE req.initial
        new == Smaller(excess, Larger(DustFloor, cap))
    IN  IF ~removing /\ excess > 0 /\ (ao = 1 \/ outputs = <<>>) /\ Len(outputs) < MaxChange /\ new >= DustFloor
        THEN Append(outputs, new) ELSE outputs

Take(c) ==
    /\ inputs' = Append(inputs, c)
    /\ outputs' = WithChange(Excess(1, 0) + sats[c], Balancing)
    /\ marked' = marked \cup {c}

Allocate ==
    /\ fpc = "fund" /\ Excess(0, 0) < 0
    /\ \/ noSend # <<>> /\ Take(Last(noSend))
          /\ noSend' = SubSeq(noSend, 1, Len(noSend) - 1) /\ UNCHANGED spendable
       \/ noSend = <<>> /\ \E c \in Choice(TargetSats, ExactSats) :
             Take(c) /\ spendable' = spendable \ {c} /\ UNCHANGED noSend
    /\ UNCHANGED <<sats, req, named, removing, fixedOut, fpc, others>>

(***************************************************************************)
(* The end of the funding loop: done, or again with fewer outputs.         *)
(***************************************************************************)

\* Outputs are dropped from the end until the inputs pay for the rest.
Dropped ==
    LET pays(n) == req.fixedIn + Total([k \in DOMAIN inputs |-> sats[inputs[k]]]) - fixedOut
                     - Total(SubSeq(outputs, 1, n)) - FeeFor(req.ins + Len(inputs), req.outs + n) >= 0
        good == {n \in 0..Len(outputs) : pays(n)}
    IN  IF good = {} THEN <<>> ELSE SubSeq(outputs, 1, Max(good))

\* removeChurnPairs: an input that pays for one output only goes with it.
ChurnStep(st) ==
    LET small == {k \in DOMAIN st.ins : sats[st.ins[k]] <= Last(st.outs)}
    IN  IF Len(st.ins) <= 1 \/ Len(st.outs) <= 1 \/ small = {} THEN st
        ELSE [ins |-> RemoveAt(st.ins, Min(small)), outs |-> SubSeq(st.outs, 1, Len(st.outs) - 1)]

Churns(outs) ==
    LET c[n \in 0..Len(outs)] == IF n = 0 THEN [ins |-> inputs, outs |-> outs] ELSE ChurnStep(c[n - 1]) IN c
Churned(outs) == Churns(outs)[Len(outs)].outs

Starved ==
    /\ fpc = "fund" /\ Excess(0, 0) < 0 /\ noSend = <<>> /\ spendable = {}
    /\ IF outputs = <<>> \/ Surplus + Total(outputs) < FeeFor(req.ins + Len(inputs), req.outs)
       THEN fpc' = "close" /\ outputs' = <<>> /\ removing' = (removing \/ outputs # <<>>)
       ELSE fpc' = "release" /\ outputs' = Churned(Dropped) /\ removing' = TRUE
    /\ UNCHANGED <<sats, req, named, spendable, marked, noSend, inputs, fixedOut, others>>

Funded ==
    /\ fpc = "fund" /\ Excess(0, 0) >= 0
    /\ fpc' = "close"
    /\ UNCHANGED <<sats, req, named, spendable, marked, noSend, inputs, outputs, removing, fixedOut, others>>

\* releaseAllocatedChangeInputs, one output at a time.  A noSendChange output
\* goes back to the list it came from; storage is not told.
IsNoSend(c) == c \in Range(named)

GiveBack(c) ==
    IF IsNoSend(c) THEN noSend' = Append(noSend, c) /\ UNCHANGED <<marked, spendable>>
    ELSE marked' = marked \ {c} /\ spendable' = spendable \cup {c} /\ UNCHANGED noSend

ReleaseInputs ==
    /\ fpc \in {"release", "giveUp"}
    /\ IF inputs = <<>>
       THEN /\ fpc' = IF fpc = "release" THEN "fund" ELSE "insufficient"
            /\ UNCHANGED <<inputs, marked, spendable, noSend>>
       ELSE /\ GiveBack(Last(inputs)) /\ inputs' = SubSeq(inputs, 1, Len(inputs) - 1)
            /\ UNCHANGED fpc
    /\ UNCHANGED <<sats, req, named, outputs, removing, fixedOut, others>>

(***************************************************************************)
(* After funding.                                                          *)
(***************************************************************************)

\* The one output of the largest amount is reduced to what can be paid.
Close ==
    /\ fpc = "close"
    /\ LET adjusted == IF Excess(0, 0) < 0 /\ fixedOut >= Huge THEN Excess(0, 0) ELSE 0
           excess == Excess(0, 0) - adjusted
       IN  /\ fixedOut' = fixedOut + adjusted
           /\ fpc' = IF excess < 0 \/ (outputs = <<>> /\ excess > 0) THEN "giveUp" ELSE "spread"
    /\ UNCHANGED <<sats, req, named, spendable, marked, noSend, inputs, outputs, removing, others>>

\* One round of distributeExcessFees.
Portion(excess) == {Larger(1, p) : p \in (excess \div 4)..(excess \div 2)}

Spread ==
    /\ fpc = "spread" /\ Excess(0, 0) > 0
    /\ IF Len(outputs) = 1 THEN outputs' = <<outputs[1] + Excess(0, 0)>>
       ELSE IF outputs[1] < req.initial
       THEN outputs' = [outputs EXCEPT ![1] = @ + Smaller(Excess(0, 0), req.initial - @)]
       ELSE \E p \in Portion(Excess(0, 0)), k \in DOMAIN outputs :
                outputs' = [outputs EXCEPT ![k] = @ + p]
    /\ UNCHANGED <<sats, req, named, spendable, marked, noSend, inputs, removing, fixedOut, fpc, others>>

\* removeDustOutputs: from the last one, into the largest that is left.
SweepStep(outs, n) ==
    LET rest == RemoveAt(outs, n)
        best == Min({k \in DOMAIN rest : \A j \in DOMAIN rest : rest[j] <= rest[k]})
    IN  IF outs[n] < DustFloor /\ Len(outs) > 1 THEN [rest EXCEPT ![best] = @ + outs[n]] ELSE outs

Sweeps(outs) ==
    LET w[n \in 0..Len(outs)] == IF n = 0 THEN outs ELSE SweepStep(w[n - 1], Len(outs) + 1 - n) IN w
WithoutDust(outs) == Sweeps(outs)[Len(outs)]

\* validateGenerateChangeSdkResult
Validate ==
    /\ fpc = "spread" /\ Excess(0, 0) <= 0
    /\ LET outs == WithoutDust(outputs)
           fee == req.fixedIn + Total([k \in DOMAIN inputs |-> sats[inputs[k]]]) - fixedOut - Total(outs)
       IN  /\ outputs' = outs
           /\ fpc' = IF fee = FeeFor(req.ins + Len(inputs), req.outs + Len(outs)) THEN "done" ELSE "internal"
    /\ UNCHANGED <<sats, req, named, spendable, marked, noSend, inputs, removing, fixedOut, others>>

(***************************************************************************)
(* Other actions, between two calls to storage.                            *)
(***************************************************************************)
Others ==
    /\ others < MaxOthers /\ others' = others + 1 /\ fpc \in {"start", "fund", "release", "giveUp"}
    /\ \E c \in Coins : ~IsNoSend(c) /\ c \notin marked /\
          spendable' = IF c \in spendable THEN spendable \ {c} ELSE spendable \cup {c}
    /\ UNCHANGED <<sats, req, named, marked, noSend, inputs, outputs, removing, fixedOut, fpc>>

FInit ==
    /\ sats \in [Coins -> Values]
    /\ req \in Requests
    /\ \E s \in SetToSeqs(Coins) : named = SubSeq(s, 1, req.noSend)
    /\ noSend = named
    /\ spendable = Coins \ Range(named)
    /\ marked = {} /\ inputs = <<>> /\ outputs = <<>> /\ removing = FALSE
    /\ fixedOut = req.fixedOut /\ fpc = "start" /\ others = 0

FNext == Preflight \/ StartFunding \/ Allocate \/ Starved \/ Funded \/ ReleaseInputs \/ Close \/ Spread \/ Validate \/ Others
FSpec == FInit /\ [][FNext]_fVars

--------------------------------------------------------------------------------
(***************************************************************************)
(* Properties.                                                             *)
(***************************************************************************)

\* generateChangeSdk never fails its own check of the result: the fee paid is the
\* fee for the size, whatever was dropped, given back and spread, and no change
\* output is worth less than twice the fee to spend it (dustFloor).  An output
\* below it would be removed after the fee was fixed.
Balanced ==
    /\ fpc # "internal"
    /\ fpc = "done" => \A k \in DOMAIN outputs : outputs[k] >= DustFloor

\* An action holds exactly the outputs that are its inputs, and gives all of them
\* back when it throws WERR_INSUFFICIENT_FUNDS; noSendChange stays with it.
HeldAreInputs ==
    /\ marked \ Range(named) = Range(inputs) \ Range(named)
    /\ fpc = "insufficient" => inputs = <<>>
================================================================================
