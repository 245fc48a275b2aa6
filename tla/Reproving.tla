----------------------------- MODULE Reproving -----------------------------
(***************************************************************************)
(* Proofs after a reorganisation.  The proof of a transaction names the    *)
(* block it was mined in.  When Chaintracks reports deactivated headers,   *)
(* Monitor queues them and TaskReorg, once they have aged, looks for a new *)
(* proof of every transaction they prove; TaskReviewProvenTxs audits all   *)
(* heights below a lag, remembering in storage how far it came.            *)
(***************************************************************************)
EXTENDS Integers, Sequences, FiniteSets, SequencesExt, FiniteSetsExt

CONSTANTS
    RpTxs,         \* transactions with a proof request
    Trunk,         \* height of the last block both branches share
    MinedAt,       \* MinedAt[t][b]: the height of t in branch b
    minBlockAge, maxHeightsPerRun, maxRetries,
    TopHeight, MaxReorgs, MaxFaults   \* bounds

Branches == {"a", "b"}
Nowhere == <<>>

ASSUME ReprovingAssumption ==
    /\ Trunk \in Nat /\ minBlockAge \in Nat /\ maxHeightsPerRun \in Nat \ {0}
    /\ \A t \in RpTxs, b \in Branches : MinedAt[t][b] \in Nat

VARIABLES
    branch, tip,        \* the chain Chaintracks follows
    proof,              \* proven_txs: the block that proves each transaction
    found,              \* proofs that TaskCheckForProofs has and will insert
    header, queuedHeader, acceptable,  \* TaskNewHeader; lastNewHeader
    deactivated,        \* monitor.deactivatedHeaders
    process,            \* TaskReorg.process
    reorg,              \* what TaskReorg is doing
    reviewedThrough,    \* checkpoint in the monitor events
    review,             \* what TaskReviewProvenTxs is doing
    reorgs, faults

chainVars == <<branch, tip, reorgs>>
headerVars == <<header, queuedHeader, acceptable>>
rpVars == <<chainVars, proof, found, headerVars, deactivated, process, reorg, reviewedThrough, review, faults>>

-----------------------------------------------------------------------------
\* The block of a branch at a height; below the trunk both have the same.
BlockAt(b, h) == IF h <= Trunk THEN <<"a", h>> ELSE <<b, h>>
Active(h) == BlockAt(branch, h)
IsActive(x) == x[2] <= tip /\ x = Active(x[2])

\* services.getMerklePath, and the root check against Chaintracks: the block
\* of the chain that holds t, once it is there.
Proves(t) == LET h == MinedAt[t][branch] IN IF h <= tip THEN {Active(h)} ELSE {}

\* What reproveProven concludes of t, whose row named block x when it was read.
Reprove(t, x) ==
    IF Proves(t) = {} THEN [what |-> "unavailable"]
    ELSE LET y == CHOOSE z \in Proves(t) : TRUE
         IN  IF y = x THEN [what |-> "unchanged"] ELSE [what |-> "updated", to |-> y]

Idle == [stage |-> "idle"]
Working(x, todo, more) == [stage |-> "asking", block |-> x, todo |-> todo, updates |-> <<>>, again |-> FALSE] @@ more

\* What a task has in hand is written long before a header deactivated since
\* then has aged (agedMsecs is ten minutes) or the audit has come that far.
InHand(w) == w.stage = "asking" /\ w.updates # <<>>

-----------------------------------------------------------------------------
(* The chain, and its events to Monitor.                                    *)

Extend ==
    /\ tip < TopHeight /\ tip' = tip + 1
    /\ UNCHANGED <<branch, reorgs, proof, found, headerVars, deactivated, process, reorg, reviewedThrough, review, faults>>

\* processReorg, recordDeactivatedHeaders: every header that left the chain is
\* queued.  Reorganisations are not deeper than the audit's lag.
Reorganise ==
    /\ reorgs < MaxReorgs /\ tip > Trunk /\ tip - Trunk <= minBlockAge /\ tip < TopHeight
    /\ branch' \in Branches \ {branch} /\ tip' = tip + 1 /\ reorgs' = reorgs + 1
    /\ deactivated' = deactivated \o [i \in 1..(tip - Trunk) |-> [block |-> <<branch, Trunk + i>>, tries |-> 0]]
    /\ UNCHANGED <<proof, found, headerVars, process, reorg, reviewedThrough, review, faults>>

\* TaskNewHeader: a tip that stayed for a cycle limits the heights of proofs;
\* a tip of lower height is ignored.
NewHeader ==
    /\ LET now == Active(tip)
           isNew == header = Nowhere \/ (tip >= header[2] /\ now # header)
       IN  IF isNew THEN header' = now /\ queuedHeader' = TRUE /\ acceptable' = acceptable
           ELSE /\ queuedHeader /\ queuedHeader' = FALSE /\ acceptable' = header[2] /\ header' = header
    /\ UNCHANGED <<chainVars, proof, found, deactivated, process, reorg, reviewedThrough, review, faults>>

\* TaskCheckForProofs, in short: look a proof up, later insert the row.
CheckFound(t) ==
    /\ proof[t] = Nowhere /\ t \notin DOMAIN found
    /\ \E x \in Proves(t) : x[2] <= acceptable /\ found' = found @@ (t :> x)
    /\ UNCHANGED <<chainVars, proof, headerVars, deactivated, process, reorg, reviewedThrough, review, faults>>

CheckInsert(t) ==
    /\ t \in DOMAIN found
    /\ proof' = [proof EXCEPT ![t] = found[t]]
    /\ found' = [u \in DOMAIN found \ {t} |-> found[u]]
    /\ UNCHANGED <<chainVars, headerVars, deactivated, process, reorg, reviewedThrough, review, faults>>

-----------------------------------------------------------------------------
(* TaskReorg.                                                               *)

\* trigger: the headers at the front that have aged are moved over.
ReorgTrigger ==
    /\ reorg = Idle /\ deactivated # <<>> /\ found = <<>> /\ ~InHand(review)
    /\ \E n \in 1..Len(deactivated) :
         /\ process' = process \o SubSeq(deactivated, 1, n)
         /\ deactivated' = SubSeq(deactivated, n + 1, Len(deactivated))
    /\ UNCHANGED <<chainVars, proof, found, headerVars, reorg, reviewedThrough, review, faults>>

\* The rows that name a block.
RowsOf(x) == {t \in RpTxs : proof[t] = x}

ReorgTake ==
    /\ reorg = Idle /\ process # <<>>
    /\ process' = Tail(process)
    /\ reorg' = Working(Head(process).block, RowsOf(Head(process).block), [tries |-> Head(process).tries])
    /\ UNCHANGED <<chainVars, proof, found, headerVars, deactivated, reviewedThrough, review, faults>>

\* One row of the work w is asked for; a fault answers "unavailable".
Asked(w, t, answer) ==
    [w EXCEPT !.todo = @ \ {t}, !.again = @ \/ answer.what # "updated",
              !.updates = IF answer.what = "updated" THEN @ @@ (t :> answer.to) ELSE @]

Answers(t, x) == {Reprove(t, x)} \cup IF faults < MaxFaults THEN {[what |-> "unavailable"]} ELSE {}

ReorgAsk(t) ==
    /\ reorg.stage = "asking" /\ t \in reorg.todo
    /\ \E answer \in Answers(t, reorg.block) :
         /\ reorg' = Asked(reorg, t, answer)
         /\ faults' = IF answer = Reprove(t, reorg.block) THEN faults ELSE faults + 1
    /\ UNCHANGED <<chainVars, proof, found, headerVars, deactivated, process, reviewedThrough, review>>

\* The updates are written, whatever the rows are by now, and a header with a
\* row left ages and is tried again, maxRetries times in all.
Written(w) == [t \in RpTxs |-> IF t \in DOMAIN w.updates THEN w.updates[t] ELSE proof[t]]

ReorgApply ==
    /\ reorg.stage = "asking" /\ reorg.todo = {} /\ proof' = Written(reorg)
    /\ deactivated' = IF reorg.again /\ reorg.tries + 1 < maxRetries
                      THEN Append(deactivated, [block |-> reorg.block, tries |-> reorg.tries + 1])
                      ELSE deactivated
    /\ reorg' = Idle
    /\ UNCHANGED <<chainVars, found, headerVars, process, reviewedThrough, review, faults>>

\* The storage or the tracker throws: the header is forgotten, the others wait.
ReorgThrows ==
    /\ reorg.stage = "asking" /\ faults < MaxFaults /\ faults' = faults + 1
    /\ reorg' = Idle
    /\ UNCHANGED <<chainVars, proof, found, headerVars, deactivated, process, reviewedThrough, review>>

-----------------------------------------------------------------------------
(* TaskReviewProvenTxs.                                                     *)

\* Heights old enough to be audited; mutant: without the lag.
Eligible_NoLag == tip
Eligible == tip - minBlockAge

ReviewStart ==
    /\ review = Idle /\ found = <<>> /\ ~InHand(reorg)
    /\ LET first == reviewedThrough + 1
           last == Min({first + maxHeightsPerRun - 1, Eligible})
       IN  first <= last /\ review' = [stage |-> "height", at |-> first, upto |-> last]
    /\ UNCHANGED <<chainVars, proof, found, headerVars, deactivated, process, reorg, reviewedThrough, faults>>

\* After the last height the log of the run becomes the checkpoint.
NextHeight(w) == IF w.at = w.upto THEN Idle ELSE [stage |-> "height", at |-> w.at + 1, upto |-> w.upto]
Checkpoint(w) == IF w.at = w.upto THEN w.upto ELSE reviewedThrough

\* findStaleMerkleRoots: the rows at this height that name another block.
Stale(h) == {t \in RpTxs : proof[t] # Nowhere /\ proof[t][2] = h /\ proof[t] # Active(h)}

Over == review' = NextHeight(review) /\ reviewedThrough' = Checkpoint(review)

\* Chaintracks has no header for the height, for a while: it is passed over, stale
\* rows or not.
NoHeader == faults < MaxFaults /\ faults' = faults + 1 /\ Over

ReviewHeight ==
    /\ review.stage = "height"
    /\ \/ Stale(review.at) = {} /\ Over /\ UNCHANGED faults
       \/ NoHeader
       \/ /\ \E t \in Stale(review.at) : review' =
                Working(proof[t], RowsOf(proof[t]), [at |-> review.at, upto |-> review.upto])
          /\ UNCHANGED <<reviewedThrough, faults>>
    /\ UNCHANGED <<chainVars, proof, found, headerVars, deactivated, process, reorg>>

ReviewAsk(t) ==
    /\ review.stage = "asking" /\ t \in review.todo
    /\ \E answer \in Answers(t, review.block) :
         /\ review' = Asked(review, t, answer)
         /\ faults' = IF answer = Reprove(t, review.block) THEN faults ELSE faults + 1
    /\ UNCHANGED <<chainVars, proof, found, headerVars, deactivated, process, reorg, reviewedThrough>>

\* Whatever could not be proved again is passed over.
ReviewApply ==
    /\ review.stage = "asking" /\ review.todo = {} /\ proof' = Written(review)
    /\ review' = NextHeight(review) /\ reviewedThrough' = Checkpoint(review)
    /\ UNCHANGED <<chainVars, found, headerVars, deactivated, process, reorg, faults>>

ReviewThrows ==
    /\ review # Idle /\ faults < MaxFaults /\ faults' = faults + 1 /\ review' = Idle
    /\ UNCHANGED <<chainVars, proof, found, headerVars, deactivated, process, reorg, reviewedThrough>>

-----------------------------------------------------------------------------
\* The process restarts: the queues are gone, rows and checkpoint remain.
RpRestart ==
    /\ faults < MaxFaults /\ faults' = faults + 1
    /\ found' = <<>> /\ header' = Nowhere /\ queuedHeader' = FALSE /\ acceptable' = -1
    /\ deactivated' = <<>> /\ process' = <<>> /\ reorg' = Idle /\ review' = Idle
    /\ UNCHANGED <<chainVars, proof, reviewedThrough>>

\* A wallet that has been audited below the trunk.
RpInit ==
    /\ branch = "a" /\ tip = Trunk + 1 /\ reorgs = 0 /\ faults = 0
    /\ proof = [t \in RpTxs |-> Nowhere] /\ found = <<>>
    /\ header = Nowhere /\ queuedHeader = FALSE /\ acceptable = -1
    /\ deactivated = <<>> /\ process = <<>> /\ reorg = Idle
    /\ reviewedThrough = Trunk /\ review = Idle

Check == \E t \in RpTxs : CheckFound(t) \/ CheckInsert(t)
TaskReorg == ReorgTrigger \/ ReorgTake \/ (\E t \in RpTxs : ReorgAsk(t)) \/ ReorgApply
TaskReview == ReviewStart \/ ReviewHeight \/ (\E t \in RpTxs : ReviewAsk(t)) \/ ReviewApply

RpNext == Extend \/ Reorganise \/ NewHeader \/ Check \/ TaskReorg \/ ReorgThrows \/ TaskReview \/ ReviewThrows \/ RpRestart

\* Monitor starts its tasks again and again, and blocks keep coming.
RpProgress == Extend \/ Check \/ TaskReorg \/ TaskReview
RpFairness == WF_rpVars(RpProgress)

RpSpec == RpInit /\ [][RpNext]_rpVars /\ RpFairness

-----------------------------------------------------------------------------
\* Every proof ends up in a block of the chain, although TaskReorg may lose a
\* header, a provider may have no answer for a while, the audit may pass over a height
\* whose header is missing and writes what it found before: one of the two catches what
\* the other missed, as long as at most one of these faults happens (MaxFaults).
ProofsOnChain == \A t \in RpTxs : proof[t] # Nowhere => IsActive(proof[t])
Reproved == <>[]ProofsOnChain
=============================================================================
