----------------------------- MODULE TxLifecycle -----------------------------
(***************************************************************************)
(* The life of an outgoing transaction in wallet storage: the row of       *)
(* `transactions`, the row of `proven_tx_reqs` that tracks its broadcast   *)
(* and its proof, the `outputs` it spends, and the monitor tasks that move *)
(* all three while they wait for network services.                         *)
(*                                                                         *)
(* Every access to storage takes the first queue of WalletStorageManager   *)
(* (readerLocks), so a section of code inside one runAs... call is one     *)
(* step here, except that a poster keeps the lock while it waits for the   *)
(* network (LockFree).  What is NOT protected is a copy of a req that a    *)
(* task read in one section and writes back in a later one: each task      *)
(* keeps that copy in its own local state.                                 *)
(***************************************************************************)
EXTENDS Naturals, FiniteSets

CONSTANTS
  Txs,              \* transactions the wallet may create
  Outs,             \* the wallet's outputs that may be spent
  None,             \* no transaction (spentBy undefined, an idle task)
  AttemptsLimit,    \* unprovenAttemptsLimitMain / Test
  GiveUpLimit,      \* getProofAttemptsLimit of EntityProvenTx
  MergeLimit,       \* attempts to put a beef together (6 in the code)
  MaxRebroadcast,   \* maxRebroadcastAttempts, 0 means no limit
  RebroadcastBound, \* bound on rebroadcastAttempts when there is no limit
  UseSSE,           \* TaskArcadeSSE is configured (an EventSource and a token)
  UseSendWith,      \* the application shares earlier txids with sendWith
  TaskRunConcurrency, \* monitor tasks that may be under way at the same time
  MaxCrashes        \* bound on process restarts

ASSUME ConstantsAssumption ==
  /\ None \notin Txs
  /\ AttemptsLimit \in Nat
  /\ GiveUpLimit \in Nat
  /\ MergeLimit \in 0..AttemptsLimit
  /\ MaxRebroadcast \in Nat
  /\ RebroadcastBound \in Nat
  /\ MaxRebroadcast <= RebroadcastBound
  /\ UseSSE \in BOOLEAN
  /\ UseSendWith \in BOOLEAN
  /\ TaskRunConcurrency \in Nat \ {0}
  /\ MaxCrashes \in Nat

VARIABLES
  tx,         \* transactions.status, "none" before createAction
  txProven,   \* transactions.provenTxId is set
  req,        \* proven_tx_reqs row of the transaction's txid
  provenTxs,  \* txids that have a proven_txs row
  inputs,     \* outputs the transaction's rawTx spends
  spendable,  \* outputs.spendable
  spentBy,    \* outputs.spentBy
  net,        \* what the network really holds of the transaction
  foreign,    \* outputs spent on chain by somebody else
  poster,     \* attemptToPostReqsToNetwork, one per caller
  checker,    \* TaskCheckForProofs / getProofs, the req it works on
  sse,        \* TaskArcadeSSE, the event it works on
  unfailer,   \* TaskUnFail, the req it works on
  reviewer,   \* TaskReviewDoubleSpends, the req it works on
  crashes     \* number of restarts so far

storage == <<tx, txProven, req, provenTxs, inputs, spendable, spentBy>>
tasks == <<poster, checker, sse, unfailer, reviewer>>
vars == <<storage, net, foreign, tasks, crashes>>

-----------------------------------------------------------------------------
(* Values.                                                                 *)

TxStatus == {"none", "unsigned", "unprocessed", "nosend", "sending",
             "unproven", "completed", "failed"}
ReqStatus == {"none", "nosend", "unsent", "unprocessed", "sending", "unmined",
              "completed", "invalid", "doubleSpend", "unfail"}
ReqTerminalStatus == {"completed", "invalid", "doubleSpend"}
WasBroadcastStatuses == {"unmined", "completed"}
ReadyToSendStatuses == {"sending", "unsent", "nosend", "unprocessed"}
ProofStatuses == {"unmined", "sending"}
UnAbortableStatus == {"none", "completed", "failed", "sending", "unproven"}
NetStatus == {"unseen", "mempool", "mined", "evicted"}
AggregateStatus == {"success", "doubleSpend", "invalidTx", "serviceError"}
Posters == {"action", "sendWaiting"}

Req == [status: ReqStatus, attempts: 0..(AttemptsLimit + 1),
        wasBroadcast: BOOLEAN, rebroadcasts: 0..RebroadcastBound,
        proven: BOOLEAN]

NoReq == [status |-> "none", attempts |-> 0, wasBroadcast |-> FALSE,
          rebroadcasts |-> 0, proven |-> FALSE]

IdlePoster == [pc |-> "idle", tx |-> None, copy |-> NoReq, agg |-> "success"]
IdleTask == [pc |-> "idle", tx |-> None, copy |-> NoReq]
IdleSse == [pc |-> "idle", tx |-> None, copy |-> NoReq, kind |-> "SEEN"]

\* attempts is only ever compared with a limit, so it may stop just above it.
Bump(n) == IF n > AttemptsLimit THEN n ELSE n + 1

\* The status setter of EntityProvenTxReq: an accepted status marks the req.
SetStatus(r, s) ==
  [r EXCEPT !.status = s,
            !.wasBroadcast = @ \/ s \in WasBroadcastStatuses]

\* updateProvenTxReqDynamics: the whole in-memory req replaces the row, except
\* that an unset provenTxId is not written.
WriteDynamics(t, copy) ==
  req' = [req EXCEPT ![t] = [copy EXCEPT !.proven = @ \/ req[t].proven]]

\* Mutant: the rebroadcast limit is not looked at.
ApplyProofTimeout_NoLimit(r) ==
  IF ~r.wasBroadcast
  THEN SetStatus(r, "invalid")
  ELSE [SetStatus(r, "unsent") EXCEPT !.rebroadcasts = @ + 1, !.attempts = 0]

\* EntityProvenTxReq.applyProofTimeout.
ApplyProofTimeout(r) ==
  IF \/ ~r.wasBroadcast
     \/ MaxRebroadcast > 0 /\ r.rebroadcasts >= MaxRebroadcast
  THEN SetStatus(r, "invalid")
  ELSE [SetStatus(r, "unsent") EXCEPT !.rebroadcasts = @ + 1, !.attempts = 0]

\* A timeout that would go past the bound is not explored.
TimeoutInBound(r) ==
  r.wasBroadcast /\ MaxRebroadcast = 0 => r.rebroadcasts < RebroadcastBound

\* Monitor runs its tasks through a limiter: the tasks that hold work now.
Busy == (IF poster["sendWaiting"].pc = "idle" THEN 0 ELSE 1)
      + (IF checker.pc = "idle" THEN 0 ELSE 1) + (IF sse.pc = "idle" THEN 0 ELSE 1)
      + (IF unfailer.pc = "idle" THEN 0 ELSE 1) + (IF reviewer = None THEN 0 ELSE 1)

TaskSlotFree == Busy < TaskRunConcurrency

\* The process stops and starts again: what tasks hold in memory is gone.
Restart ==
  /\ crashes < MaxCrashes
  /\ crashes' = crashes + 1
  /\ poster' = [p \in Posters |-> IdlePoster]
  /\ checker' = IdleTask
  /\ sse' = IdleSse
  /\ unfailer' = IdleTask
  /\ reviewer' = None

-----------------------------------------------------------------------------
(* StorageProvider.                                                        *)

\* A poster holds the provider lock while it waits for postBeef.
LockFree == \A p \in Posters : poster[p].pc \notin {"posting", "posted"}

\* Mutant: neither 'completed' nor provenTxId protects a transaction.
MayChangeStatus_NoProofGuard(t, s) == ~(s # "failed" /\ tx[t] = "failed")

\* The guards of updateTransactionStatus; it throws when they do not hold.
MayChangeStatus(t, s) ==
  /\ ~(s # "completed" /\ tx[t] = "completed") /\ ~txProven[t]
  /\ ~(s # "failed" /\ tx[t] = "failed")

\* Mutant: the inputs are found by outpoint, whoever spends them now.
AllocatedTo_ByOutpoint(T) == {o \in Outs : \E t \in T : o \in inputs[t]}

\* The inputs found by spentBy: getInputs runs without the rawTx.
AllocatedTo(T) == {o \in Outs : spentBy[o] \in T}

\* Mutant: the status changes, the inputs stay allocated.
FailTransactions_KeepInputs(T) ==
  /\ tx' = [t \in Txs |-> IF t \in T THEN "failed" ELSE tx[t]]
  /\ UNCHANGED <<spendable, spentBy>>

\* updateTransactionStatus('failed'): make the allocated inputs usable again.
FailTransactions(T) ==
  /\ tx' = [t \in Txs |-> IF t \in T THEN "failed" ELSE tx[t]]
  /\ spendable' = [o \in Outs |-> spendable[o] \/ o \in AllocatedTo(T)]
  /\ spentBy' = [o \in Outs |-> IF o \in AllocatedTo(T) THEN None ELSE spentBy[o]]

\* updateTransactionStatus(s) when the guards hold, otherwise nothing.
UpdateTransactionStatus(t, s) ==
  IF ~MayChangeStatus(t, s)
  THEN UNCHANGED <<tx, spendable, spentBy>>
  ELSE IF s = "failed" THEN FailTransactions({t})
  ELSE tx' = [tx EXCEPT ![t] = s] /\ UNCHANGED <<spendable, spentBy>>

\* Mutant: the transactions are notified before the proof is inserted.
RecordProof_NotifyOnly(t) ==
  /\ req' = [req EXCEPT ![t] = [SetStatus(@, "completed") EXCEPT !.proven = TRUE]]
  /\ tx' = [tx EXCEPT ![t] = "completed"]
  /\ txProven' = [txProven EXCEPT ![t] = TRUE]
  /\ UNCHANGED provenTxs

\* The storage transaction of updateProvenTxReqWithNewProvenTx: the req row, read
\* afresh, is completed with the proof.
InsertProof(t) ==
  /\ provenTxs' = provenTxs \cup {t}
  /\ req' = [req EXCEPT ![t] = [SetStatus(@, "completed") EXCEPT !.proven = TRUE]]

\* updateProvenTxReqWithNewProvenTx: only the caller that inserts the proof goes
\* on to notifyTransactionsOfProof, which is not part of that transaction.
RecordProof(t) ==
  IF req[t].proven \/ t \in provenTxs
  THEN UNCHANGED <<req, provenTxs, tx, txProven>>
  ELSE /\ InsertProof(t)
       /\ tx' = [tx EXCEPT ![t] = "completed"]
       /\ txProven' = [txProven EXCEPT ![t] = TRUE]

-----------------------------------------------------------------------------
(* The network (external).                                                 *)

Known(t) == net[t] \in {"mempool", "mined"}

\* An output is a UTXO unless a known transaction or a stranger spends it.
IsUtxo(o) == o \notin foreign /\ \A t \in Txs : Known(t) => o \notin inputs[t]

\* The network can take t: nothing it spends is already spent.
Acceptable(t) == \A o \in inputs[t] : IsUtxo(o)

\* A miner includes a transaction of the mempool.
NetMine(t) ==
  /\ net[t] = "mempool"
  /\ net' = [net EXCEPT ![t] = "mined"]
  /\ UNCHANGED <<storage, foreign, tasks, crashes>>

\* Somebody else's copy of a signed transaction reaches the network.
NetRelay(t) ==
  /\ req[t].status # "none" /\ ~Known(t) /\ Acceptable(t)
  /\ net' = [net EXCEPT ![t] = "mempool"]
  /\ UNCHANGED <<storage, foreign, tasks, crashes>>

\* A competing spend by another holder of the keys is mined and evicts ours.
ForeignSpend(o) ==
  /\ o \notin foreign
  /\ \A t \in Txs : net[t] = "mined" => o \notin inputs[t]
  /\ foreign' = foreign \cup {o}
  /\ net' = [t \in Txs |-> IF o \in inputs[t] /\ net[t] = "mempool" THEN "evicted" ELSE net[t]]
  /\ UNCHANGED <<storage, tasks, crashes>>

-----------------------------------------------------------------------------
(* The wallet's own calls.                                                 *)

\* createAction: a new unsigned transaction reserves spendable outputs.
CreateAction(t, I) ==
  /\ LockFree
  /\ tx[t] = "none"
  /\ \A o \in I : spendable[o]
  /\ tx' = [tx EXCEPT ![t] = "unsigned"]
  /\ inputs' = [inputs EXCEPT ![t] = I]
  /\ spendable' = [o \in Outs |-> spendable[o] /\ o \notin I]
  /\ spentBy' = [o \in Outs |-> IF o \in I THEN t ELSE spentBy[o]]
  /\ UNCHANGED <<txProven, req, provenTxs, net, foreign, tasks, crashes>>

NewReq(s) == [NoReq EXCEPT !.status = s]

\* processAction of a new transaction: validate, determineReqTxStatus, commit.
MayCommit(t) == LockFree /\ tx[t] \in {"unsigned", "unprocessed"} /\ req[t].status = "none"

\* ... isNoSend: committed, kept back.
ProcessActionNoSend(t) ==
  /\ MayCommit(t)
  /\ req' = [req EXCEPT ![t] = NewReq("nosend")]
  /\ tx' = [tx EXCEPT ![t] = "nosend"]
  /\ UNCHANGED <<txProven, provenTxs, inputs, spendable, spentBy, net, foreign, tasks, crashes>>

\* ... isDelayed: committed, then shared by shareReqsWithWorld, two transactions.
\* The process may stop between them (shared = FALSE).
ProcessActionDelayed(t, shared) ==
  /\ MayCommit(t)
  /\ IF shared THEN UNCHANGED <<tasks, crashes>> ELSE Restart
  /\ req' = [req EXCEPT ![t] = NewReq("unsent")]
  /\ tx' = [tx EXCEPT ![t] = IF shared THEN "sending" ELSE "unprocessed"]
  /\ UNCHANGED <<txProven, provenTxs, inputs, spendable, spentBy, net, foreign>>

StartPost(p, t, copy) ==
  poster' = [poster EXCEPT ![p] = [pc |-> "posting", tx |-> t, copy |-> copy, agg |-> "success"]]

\* ... otherwise: committed, then posted while the lock is kept.
ProcessActionNow(t) ==
  /\ MayCommit(t)
  /\ req' = [req EXCEPT ![t] = NewReq("unprocessed")]
  /\ tx' = [tx EXCEPT ![t] = "unprocessed"]
  /\ StartPost("action", t, NewReq("unprocessed"))
  /\ UNCHANGED <<txProven, provenTxs, inputs, spendable, spentBy, net, foreign,
                 checker, sse, unfailer, reviewer, crashes>>

\* getReqToShareDetail and classifyReqStatus.
ReadyToSend(t) == t \notin provenTxs /\ req[t].status \in ReadyToSendStatuses

\* processAction with sendWith: shareReqsWithWorld on an earlier txid, delayed.
SendWithDelayed(t) ==
  /\ UseSendWith /\ LockFree /\ ReadyToSend(t)
  /\ req' = [req EXCEPT ![t].status = "unsent"]
  /\ tx' = [tx EXCEPT ![t] = "sending"]
  /\ UNCHANGED <<txProven, provenTxs, inputs, spendable, spentBy, net, foreign, tasks, crashes>>

\* ... and not delayed.
SendWithNow(t) ==
  /\ UseSendWith /\ LockFree /\ ReadyToSend(t)
  /\ StartPost("action", t, req[t])
  /\ UNCHANGED <<storage, net, foreign, checker, sse, unfailer, reviewer, crashes>>

\* abortAction.
AbortAction(t) ==
  /\ LockFree
  /\ tx[t] \notin UnAbortableStatus
  /\ MayChangeStatus(t, "failed")
  /\ FailTransactions({t})
  /\ req' = IF req[t].status = "none" THEN req
            ELSE [req EXCEPT ![t] = SetStatus(@, "invalid")]
  /\ UNCHANGED <<txProven, provenTxs, inputs, net, foreign, tasks, crashes>>

-----------------------------------------------------------------------------
(* TaskSendWaiting and attemptToPostReqsToNetwork.                         *)

\* TaskSendWaiting.runTask: the list of waiting reqs is read under its own lock.
SendWaitingRead(t) ==
  /\ LockFree /\ TaskSlotFree
  /\ poster["sendWaiting"].pc = "idle"
  /\ req[t].status \in {"unsent", "sending"}
  /\ poster' = [poster EXCEPT !["sendWaiting"] =
                  [pc |-> "read", tx |-> t, copy |-> req[t], agg |-> "success"]]
  /\ UNCHANGED <<storage, net, foreign, checker, sse, unfailer, reviewer, crashes>>

\* processWorkItem: the lock is taken, the req copied earlier is posted.
SendWaitingStart ==
  /\ LockFree
  /\ poster["sendWaiting"].pc = "read"
  /\ poster' = [poster EXCEPT !["sendWaiting"].pc = "posting"]
  /\ UNCHANGED <<storage, net, foreign, checker, sse, unfailer, reviewer, crashes>>

\* validateReqsAndMergeBeefs: the beef cannot be put together and nothing is sent.
\* The req is given up at once when it never can be (hopeless), else after a while.
PostRefused(p, hopeless) ==
  LET t == poster[p].tx
      tried == [poster[p].copy EXCEPT !.attempts = Bump(@)]
  IN
  /\ poster[p].pc = "posting"
  /\ WriteDynamics(t, IF hopeless \/ tried.attempts > MergeLimit
                      THEN SetStatus(tried, "invalid") ELSE tried)
  /\ poster' = [poster EXCEPT ![p] = IdlePoster]
  /\ UNCHANGED <<tx, txProven, provenTxs, inputs, spendable, spentBy, net, foreign,
                 checker, sse, unfailer, reviewer, crashes>>

\* services.postBeef, aggregated over the providers.  No answer is sure: one provider's
\* doubleSpend outweighs the others' acceptance, a mined transaction posted again
\* has 'Missing inputs', and a provider that failed may have taken it.
PostBeef(p, agg) ==
  LET t == poster[p].tx IN
  /\ poster[p].pc = "posting"
  /\ \/ UNCHANGED net
     \/ ~Known(t) /\ Acceptable(t) /\ net' = [net EXCEPT ![t] = "mempool"]
  /\ poster' = [poster EXCEPT ![p].pc = "posted", ![p].agg = agg]
  /\ UNCHANGED <<storage, foreign, checker, sse, unfailer, reviewer, crashes>>

\* markStaleInputsAsSpent: inputs that are no UTXO any more stay unspendable.
\* isUtxo may fail for an input (S is what it confirmed as spent).
FailAndMarkStale(t, S) ==
  /\ tx' = [tx EXCEPT ![t] = "failed"]
  /\ spendable' = [o \in Outs |-> (spendable[o] \/ o \in AllocatedTo({t})) /\ o \notin S]
  /\ spentBy' = [o \in Outs |-> IF o \in AllocatedTo({t}) THEN None ELSE spentBy[o]]

\* transferNotesToReqHistories writes the copy back, then
\* updateReqsFromAggregateResults refreshes it and applies the result: the req
\* first, then the transaction.  The process may stop between the two
\* (done = FALSE).  confirmDoubleSpend asks three times whether the transaction is
\* known after all; its calls may fail.
PostApply(p, done, known) ==
  LET t == poster[p].tx
      written == [poster[p].copy EXCEPT !.proven = @ \/ req[t].proven]
      agg == IF poster[p].agg = "doubleSpend" /\ known THEN "success" ELSE poster[p].agg
      new == CASE agg = "success" -> SetStatus(written, "unmined")
               [] agg = "doubleSpend" -> SetStatus(written, "doubleSpend")
               [] agg = "invalidTx" -> SetStatus(written, "invalid")
               [] OTHER -> [SetStatus(written, "sending") EXCEPT !.attempts = Bump(@)]
  IN
  /\ poster[p].pc = "posted"
  /\ known => poster[p].agg = "doubleSpend" /\ net[t] # "unseen"
  /\ IF done THEN /\ poster' = [poster EXCEPT ![p] = IdlePoster]
                  /\ UNCHANGED <<checker, sse, unfailer, reviewer, crashes>>
             ELSE Restart
  /\ IF written.status \in {"completed", "unmined"}
     THEN /\ req' = [req EXCEPT ![t] = written]
          /\ UNCHANGED <<tx, spendable, spentBy>>
     ELSE /\ req' = [req EXCEPT ![t] = new]
          /\ IF ~done THEN UNCHANGED <<tx, spendable, spentBy>> ELSE
             CASE agg = "success" -> UpdateTransactionStatus(t, "unproven")
               [] agg = "serviceError" -> UpdateTransactionStatus(t, "sending")
               [] OTHER ->
                    IF MayChangeStatus(t, "failed")
                    THEN \E S \in SUBSET {o \in inputs[t] : ~IsUtxo(o)} : FailAndMarkStale(t, S)
                    ELSE UNCHANGED <<tx, spendable, spentBy>>
  /\ UNCHANGED <<txProven, provenTxs, inputs, net, foreign>>

-----------------------------------------------------------------------------
(* TaskCheckForProofs: getProofs.                                          *)

\* TaskCheckForProofs and TaskCheckNoSends list the reqs to prove.
CheckRead(t) ==
  /\ LockFree /\ TaskSlotFree
  /\ checker.pc = "idle"
  /\ req[t].status \in ProofStatuses \cup {"nosend"}
  /\ checker' = [pc |-> "read", tx |-> t, copy |-> req[t]]
  /\ UNCHANGED <<storage, net, foreign, poster, sse, unfailer, reviewer, crashes>>

\* attempts++ counts for a req that was sent, never for a 'nosend' one.
CountAttempt(r) == IF r.status \in ProofStatuses THEN [r EXCEPT !.attempts = Bump(@)] ELSE r

CheckWrites(copy) ==
  /\ WriteDynamics(checker.tx, copy)
  /\ UNCHANGED <<tx, txProven, provenTxs, inputs, spendable, spentBy, net, foreign,
                 poster, sse, unfailer, reviewer, crashes>>

\* Mutant: a linked req is passed over and its status is not repaired.
CheckLinked_Skip ==
  /\ LockFree
  /\ checker.pc = "read" /\ checker.copy.proven
  /\ checker' = IdleTask
  /\ UNCHANGED <<storage, net, foreign, poster, sse, unfailer, reviewer, crashes>>

\* The copy is already linked to a proof.
CheckLinked ==
  /\ LockFree
  /\ checker.pc = "read" /\ checker.copy.proven
  /\ CheckWrites(SetStatus(checker.copy, "completed"))
  /\ checker' = IdleTask

\* Too many attempts: rebroadcast or give up, decided on the copy.
CheckTimeout ==
  /\ LockFree
  /\ checker.pc = "read" /\ ~checker.copy.proven
  /\ checker.copy.attempts > AttemptsLimit
  /\ TimeoutInBound(checker.copy)
  /\ CheckWrites(ApplyProofTimeout(checker.copy))
  /\ checker' = IdleTask

\* fromReq has no proof of an old req that was tried often: the same decision,
\* with a smaller limit.
CheckGiveUp ==
  /\ LockFree
  /\ checker.pc = "read" /\ ~checker.copy.proven
  /\ checker.copy.attempts <= AttemptsLimit /\ checker.copy.attempts > GiveUpLimit
  /\ TimeoutInBound(checker.copy)
  /\ CheckWrites(ApplyProofTimeout(checker.copy))
  /\ checker' = IdleTask

\* getMerklePath found nothing (yet): one more attempt, and the copy is written.
\* An answer that fromReq cannot use is counted by fromReq and again by getProofs.
CheckNoProof ==
  /\ LockFree
  /\ checker.pc = "read" /\ ~checker.copy.proven
  /\ checker.copy.attempts <= AttemptsLimit
  /\ LET once == CountAttempt(checker.copy) IN
     \E counted \in {once, CountAttempt(once)} : CheckWrites(counted)
  /\ checker' = IdleTask

\* A proof from a block above maxAcceptableHeight is ignored, nothing is written.
CheckTooNew ==
  /\ checker.pc = "read" /\ ~checker.copy.proven
  /\ checker.copy.attempts <= AttemptsLimit
  /\ net[checker.tx] = "mined"
  /\ checker' = IdleTask
  /\ UNCHANGED <<storage, net, foreign, poster, sse, unfailer, reviewer, crashes>>

\* getMerklePath found a proof: the copy is written and read back ...
CheckProof ==
  /\ LockFree
  /\ checker.pc = "read" /\ ~checker.copy.proven
  /\ checker.copy.attempts <= AttemptsLimit
  /\ net[checker.tx] = "mined"
  /\ CheckWrites(CountAttempt(checker.copy))
  /\ checker' = [checker EXCEPT !.pc = "proof", !.copy = req'[checker.tx]]

\* ... the proof is recorded ...
CheckRecord ==
  /\ LockFree
  /\ checker.pc = "proof"
  /\ RecordProof(checker.tx)
  /\ checker' = [checker EXCEPT !.pc = "proved",
       !.copy = [SetStatus(@, req'[checker.tx].status) EXCEPT !.proven = TRUE]]
  /\ UNCHANGED <<inputs, spendable, spentBy, net, foreign, poster, sse, unfailer, reviewer, crashes>>

\* ... and the copy, with the result's status and provenTxId, is written.
CheckFinish ==
  /\ LockFree
  /\ checker.pc = "proved"
  /\ CheckWrites(checker.copy)
  /\ checker' = IdleTask

-----------------------------------------------------------------------------
(* TaskArcadeSSE.                                                          *)

\* The service has seen what it reports as seen or mined; a rejection is its word.
SseSent(t, kind) ==
  CASE kind = "SEEN" -> net[t] # "unseen"
    [] kind = "MINED" -> net[t] = "mined"
    [] OTHER -> TRUE

SseKinds == {"SEEN", "MINED", "DOUBLE_SPEND", "REJECTED"}

\* processStatusEvent: the reqs of the txid are read; terminal ones are skipped.
SseRead(t, kind) ==
  /\ UseSSE /\ LockFree /\ TaskSlotFree
  /\ sse.pc = "idle"
  /\ req[t].status \notin {"none"} \cup ReqTerminalStatus
  /\ SseSent(t, kind)
  /\ kind = "SEEN" => req[t].status \in {"unsent", "sending"}
  /\ sse' = [pc |-> "read", tx |-> t, copy |-> req[t], kind |-> kind]
  /\ UNCHANGED <<storage, net, foreign, poster, checker, unfailer, reviewer, crashes>>

\* The status that follows from the event is written with the copy.
SseWrite ==
  LET s == CASE sse.kind = "SEEN" -> "unmined"
             [] sse.kind = "MINED" -> sse.copy.status
             [] sse.kind = "DOUBLE_SPEND" -> "doubleSpend"
             [] OTHER -> "invalid"
  IN
  /\ LockFree
  /\ sse.pc = "read"
  /\ WriteDynamics(sse.tx, SetStatus(sse.copy, s))
  /\ sse' = [sse EXCEPT !.pc = "txs", !.copy = NoReq]
  /\ UNCHANGED <<tx, txProven, provenTxs, inputs, spendable, spentBy, net, foreign,
                 poster, checker, unfailer, reviewer, crashes>>

\* Then, in a section of its own, the transactions follow (or the proof is kept).
SseTransactions ==
  /\ LockFree
  /\ sse.pc = "txs"
  /\ sse' = IdleSse
  /\ IF sse.kind = "MINED"
     THEN RecordProof(sse.tx) /\ UNCHANGED <<spendable, spentBy>>
     ELSE /\ UpdateTransactionStatus(sse.tx, IF sse.kind = "SEEN" THEN "unproven" ELSE "failed")
          /\ UNCHANGED <<req, provenTxs, txProven>>
  /\ UNCHANGED <<inputs, net, foreign, poster, checker, unfailer, reviewer, crashes>>

-----------------------------------------------------------------------------
(* TaskReviewDoubleSpends, TaskUnFail.                                     *)

\* Only reqs that did not change for minAgeMinutes (an hour) are reviewed: a task
\* that read the req before it changed has long finished with it.
Aged(t) ==
  checker.tx # t /\ sse.tx # t /\ unfailer.tx # t /\ \A p \in Posters : poster[p].tx # t

\* The doubleSpend reqs are read, then their status is asked for.
ReviewRead(t) ==
  /\ LockFree /\ TaskSlotFree
  /\ reviewer = None
  /\ req[t].status = "doubleSpend" /\ Aged(t)
  /\ reviewer' = t
  /\ UNCHANGED <<storage, net, foreign, poster, checker, sse, unfailer, crashes>>

\* Anything but 'unknown', a missing answer included, makes it 'unfail'.
ReviewApply(unknown) ==
  /\ LockFree
  /\ reviewer # None
  /\ unknown => ~Known(reviewer)
  /\ req' = IF unknown THEN req ELSE [req EXCEPT ![reviewer].status = "unfail"]
  /\ reviewer' = None
  /\ UNCHANGED <<tx, txProven, provenTxs, inputs, spendable, spentBy, net, foreign,
                 poster, checker, sse, unfailer, crashes>>

UnFailRead(t) ==
  /\ LockFree /\ TaskSlotFree
  /\ unfailer.pc = "idle"
  /\ req[t].status = "unfail"
  /\ unfailer' = [pc |-> "read", tx |-> t, copy |-> req[t]]
  /\ UNCHANGED <<storage, net, foreign, poster, checker, sse, reviewer, crashes>>

\* Mutant: any answer about the transaction is enough to take it back.
UnFailReq_NoProof ==
  LET t == unfailer.tx IN
  /\ LockFree
  /\ unfailer.pc = "read"
  /\ tx' = [tx EXCEPT ![t] = "unproven"]
  /\ spendable' = [o \in Outs |-> spendable[o] /\ o \notin inputs[t]]
  /\ spentBy' = [o \in Outs |-> IF o \in inputs[t] THEN t ELSE spentBy[o]]
  /\ unfailer' = [unfailer EXCEPT !.pc = "write",
                    !.copy = [SetStatus(@, "unmined") EXCEPT !.attempts = 0]]
  /\ UNCHANGED <<txProven, req, provenTxs, inputs, net, foreign, poster, checker, sse, reviewer, crashes>>

\* getMerklePath has a proof: unfailReq takes the transaction and its inputs back.
UnFailReq ==
  LET t == unfailer.tx IN
  /\ LockFree
  /\ unfailer.pc = "read" /\ net[t] = "mined"
  /\ tx' = [tx EXCEPT ![t] = "unproven"]
  /\ spendable' = [o \in Outs |-> spendable[o] /\ o \notin inputs[t]]
  /\ spentBy' = [o \in Outs |-> IF o \in inputs[t] THEN t ELSE spentBy[o]]
  /\ unfailer' = [unfailer EXCEPT !.pc = "write",
                    !.copy = [SetStatus(@, "unmined") EXCEPT !.attempts = 0]]
  /\ UNCHANGED <<txProven, req, provenTxs, inputs, net, foreign, poster, checker, sse, reviewer, crashes>>

\* The req is written: as prepared, or 'invalid' when there was no proof.
UnFailWrite ==
  /\ LockFree
  /\ \/ unfailer.pc = "write" /\ WriteDynamics(unfailer.tx, unfailer.copy)
     \/ unfailer.pc = "read" /\ WriteDynamics(unfailer.tx, SetStatus(unfailer.copy, "invalid"))
  /\ unfailer' = IdleTask
  /\ UNCHANGED <<tx, txProven, provenTxs, inputs, spendable, spentBy, net, foreign,
                 poster, checker, sse, reviewer, crashes>>

-----------------------------------------------------------------------------
(* TaskFailAbandoned, TaskReviewStatus.                                    *)

FailAbandoned(t) ==
  /\ LockFree
  /\ tx[t] \in {"unprocessed", "unsigned"}
  /\ MayChangeStatus(t, "failed")
  /\ FailTransactions({t})
  /\ UNCHANGED <<txProven, req, provenTxs, inputs, net, foreign, tasks, crashes>>

\* Mutant: only transactions that were never sent follow an invalid req.
ToFail_Unsent == {t \in Txs : req[t].status = "invalid" /\ tx[t] = "unprocessed"}

\* Step 1 of reviewStatus works on these ...
ToFail == {t \in Txs : req[t].status = "invalid" /\ tx[t] \notin {"none", "failed"}}

\* ... and throws, leaving the rest undone, at one that has a proof.
ReviewStatusThrows ==
  /\ LockFree
  /\ \E t \in ToFail : ~MayChangeStatus(t, "failed")
  /\ \E T \in SUBSET {t \in ToFail : MayChangeStatus(t, "failed")} : FailTransactions(T)
  /\ UNCHANGED <<txProven, req, provenTxs, inputs, net, foreign, tasks, crashes>>

\* Mutant: only transactions that wait for their proof are linked to it.
Unlinked_Waiting == {t \in provenTxs : ~txProven[t] /\ tx[t] = "unproven"}

\* Step 3 works on these: nobody told them of the proof that storage has.
Unlinked == {t \in provenTxs : ~txProven[t]}

\* Steps 1, 2 and 3 of reviewStatus.
ReviewStatus ==
  LET failed == {t \in Txs : tx[t] = "failed"} \cup ToFail
      released == {t \in failed : req[t].status \in {"invalid", "doubleSpend"}}
  IN
  /\ LockFree
  /\ \A t \in ToFail : MayChangeStatus(t, "failed")
  /\ tx' = [t \in Txs |-> IF t \in Unlinked THEN "completed"
                          ELSE IF t \in failed THEN "failed" ELSE tx[t]]
  /\ txProven' = [t \in Txs |-> txProven[t] \/ t \in Unlinked]
  /\ LET O == AllocatedTo(ToFail \cup released) IN
     /\ spendable' = [o \in Outs |-> spendable[o] \/ o \in O]
     /\ spentBy' = [o \in Outs |-> IF o \in O THEN None ELSE spentBy[o]]
  /\ UNCHANGED <<req, provenTxs, inputs, net, foreign, tasks, crashes>>

-----------------------------------------------------------------------------
\* The process stops after a proof was inserted and before notifyTransactionsOfProof.
ProofCrash(t) ==
  /\ LockFree
  /\ \/ checker.pc = "proof" /\ checker.tx = t
     \/ sse.pc = "txs" /\ sse.kind = "MINED" /\ sse.tx = t
  /\ ~req[t].proven /\ t \notin provenTxs
  /\ InsertProof(t)
  /\ Restart
  /\ UNCHANGED <<tx, txProven, inputs, spendable, spentBy, net, foreign>>

Crash == Restart /\ UNCHANGED <<storage, net, foreign>>

Init ==
  /\ tx = [t \in Txs |-> "none"]
  /\ txProven = [t \in Txs |-> FALSE]
  /\ req = [t \in Txs |-> NoReq]
  /\ provenTxs = {}
  /\ inputs = [t \in Txs |-> {}]
  /\ spendable = [o \in Outs |-> TRUE]
  /\ spentBy = [o \in Outs |-> None]
  /\ net = [t \in Txs |-> "unseen"]
  /\ foreign = {}
  /\ poster = [p \in Posters |-> IdlePoster]
  /\ checker = IdleTask
  /\ sse = IdleSse
  /\ unfailer = IdleTask
  /\ reviewer = None
  /\ crashes = 0

Network ==
  \/ \E t \in Txs : NetMine(t) \/ NetRelay(t)
  \/ \E o \in Outs : ForeignSpend(o)

WalletCalls ==
  \/ \E t \in Txs, I \in SUBSET Outs \ {{}} : CreateAction(t, I)
  \/ \E t \in Txs :
       \/ ProcessActionNoSend(t)
       \/ \E shared \in BOOLEAN : ProcessActionDelayed(t, shared)
       \/ ProcessActionNow(t)
       \/ SendWithDelayed(t) \/ SendWithNow(t)
       \/ AbortAction(t)

SendWaiting == (\E t \in Txs : SendWaitingRead(t)) \/ SendWaitingStart

Post ==
  \E p \in Posters : (\E agg \in AggregateStatus : PostBeef(p, agg))
                    \/ (\E hopeless \in BOOLEAN : PostRefused(p, hopeless))
                    \/ (\E done, known \in BOOLEAN : PostApply(p, done, known))

CheckForProofs ==
  \/ \E t \in Txs : CheckRead(t)
  \/ CheckLinked \/ CheckTimeout \/ CheckGiveUp \/ CheckNoProof
  \/ CheckTooNew \/ CheckProof \/ CheckRecord \/ CheckFinish

ArcadeSSE ==
  \/ \E t \in Txs, kind \in SseKinds : SseRead(t, kind)
  \/ SseWrite \/ SseTransactions

ReviewDoubleSpends ==
  \/ \E t \in Txs : ReviewRead(t)
  \/ \E unknown \in BOOLEAN : ReviewApply(unknown)

UnFail == (\E t \in Txs : UnFailRead(t)) \/ UnFailReq \/ UnFailWrite

ReviewState == ReviewStatus \/ ReviewStatusThrows

Abandon == \E t \in Txs : FailAbandoned(t)

Next ==
  \/ Network \/ WalletCalls \/ SendWaiting \/ Post \/ CheckForProofs
  \/ ArcadeSSE \/ ReviewDoubleSpends \/ UnFail \/ ReviewState \/ Abandon \/ Crash
  \/ \E t \in Txs : ProofCrash(t)

Spec == Init /\ [][Next]_vars

\* Each call that waits for the lock is served in turn, each task is triggered
\* again and again, and every service call returns.
CheckStep ==
  CheckLinked \/ CheckTimeout \/ CheckGiveUp \/ CheckNoProof
    \/ CheckProof \/ CheckRecord \/ CheckFinish

\* The service has only so much to report of a transaction.
EventsEnd == <>[][~ \E t \in Txs, kind \in SseKinds : SseRead(t, kind)]_vars

Fairness ==
  /\ EventsEnd
  /\ WF_vars(Post)
  /\ \A t \in Txs :
       /\ SF_vars(SendWaitingRead(t) \/ (poster["sendWaiting"].tx = t /\ SendWaitingStart))
       /\ SF_vars(CheckRead(t)) /\ SF_vars(FailAbandoned(t))
       /\ SF_vars(ReviewRead(t) \/ (reviewer = t /\ \E unknown \in BOOLEAN : ReviewApply(unknown)))
       /\ SF_vars(UnFailRead(t) \/ (unfailer.tx = t /\ (UnFailReq \/ UnFailWrite)))
  /\ SF_vars(CheckStep)
  /\ SF_vars(SseWrite \/ SseTransactions)
  /\ SF_vars(ReviewStatus)

FairSpec == Spec /\ Fairness

-----------------------------------------------------------------------------
(* Properties.                                                             *)

\* Every row and every copy has the form the code gives it; in particular
\* rebroadcastAttempts stays within maxRebroadcastAttempts whatever copies
\* EntityProvenTxReq.applyProofTimeout works on.
TypeOK ==
  /\ tx \in [Txs -> TxStatus]
  /\ txProven \in [Txs -> BOOLEAN]
  /\ req \in [Txs -> Req]
  /\ provenTxs \in SUBSET Txs
  /\ inputs \in [Txs -> SUBSET Outs]
  /\ spendable \in [Outs -> BOOLEAN]
  /\ spentBy \in [Outs -> Txs \cup {None}]
  /\ net \in [Txs -> NetStatus]
  /\ foreign \in SUBSET Outs
  /\ poster \in [Posters -> [pc: {"idle", "read", "posting", "posted"},
                              tx: Txs \cup {None}, copy: Req, agg: AggregateStatus]]
  /\ checker \in [pc: {"idle", "read", "proof", "proved"}, tx: Txs \cup {None}, copy: Req]
  /\ sse \in [pc: {"idle", "read", "txs"}, tx: Txs \cup {None}, copy: Req, kind: SseKinds]
  /\ unfailer \in [pc: {"idle", "read", "write"}, tx: Txs \cup {None}, copy: Req]
  /\ reviewer \in Txs \cup {None}
  /\ crashes \in 0..MaxCrashes

LiveTx == {"unsigned", "unprocessed", "nosend", "sending", "unproven"}

\* Some other transaction that spends o has been mined.
TakenByOther(t, o) == \E u \in Txs \ {t} : net[u] = "mined" /\ o \in inputs[u]

\* The wallet never offers an output again while a transaction that spends it is
\* still under way, unless the chain has already given the output to another
\* transaction (updateTransactionStatus, reviewStatus and unfailReq all move
\* spendable and spentBy).
LiveInputsHeld ==
  \A t \in Txs : tx[t] \in LiveTx =>
    \A o \in inputs[t] : spendable[o] => TakenByOther(t, o)

\* Two transactions under way spend the same output only when a transaction that
\* spends it was mined after the wallet had given it up (what TaskUnFail repairs).
NoCrossSpend ==
  \A t, u \in Txs :
    t # u /\ tx[t] \in LiveTx /\ tx[u] \in LiveTx =>
      \A o \in inputs[t] \cap inputs[u] : \E w \in Txs : net[w] = "mined" /\ o \in inputs[w]

\* 'completed' and provenTxId, in transactions and in proven_tx_reqs, always have
\* a proven_txs row behind them, and that row a mined transaction, although tasks
\* write back whole reqs that they read long before.
ProofConsistent ==
  \A t \in Txs :
    /\ \/ txProven[t] \/ tx[t] = "completed"
       \/ req[t].proven \/ req[t].status = "completed"
       => t \in provenTxs
    /\ t \in provenTxs => net[t] = "mined"

\* A copy of a req claims no more than storage knows of its proof.
Honest(t, copy) ==
  /\ t \in Txs
  /\ copy.proven \/ copy.status = "completed" => t \in provenTxs

\* What a task carries from one section to the next still holds when it writes:
\* no copy claims a proof that was not recorded, and a task that goes on to
\* record one (getProofs, processStatusEvent) works on a mined transaction.
CopiesHonest ==
  /\ \A p \in Posters : poster[p].pc # "idle" => Honest(poster[p].tx, poster[p].copy)
  /\ checker.pc # "idle" => Honest(checker.tx, checker.copy)
  /\ checker.pc = "proof" => net[checker.tx] = "mined"
  /\ checker.pc = "proved" => checker.tx \in provenTxs
  /\ sse.pc # "idle" => Honest(sse.tx, sse.copy)
  /\ sse.pc # "idle" /\ sse.kind = "MINED" => net[sse.tx] = "mined"
  /\ unfailer.pc # "idle" => Honest(unfailer.tx, unfailer.copy)

\* A transaction that is linked to its proof is never failed, whatever late
\* rejection, timeout or review reaches updateTransactionStatus.
ProvenNeverFailed == \A t \in Txs : txProven[t] => tx[t] # "failed"

\* Only TaskUnFail, which writes 'unproven' without looking (unfailReq), takes a
\* 'completed' transaction back: whatever rejection, event, review, abort or timeout
\* comes late or with an old copy, no other step does.
CompletedStable ==
  [][\A t \in Txs : tx[t] = "completed" /\ tx'[t] # "completed"
                      => UnFailReq /\ unfailer.tx = t]_vars

\* With a rebroadcast limit, every transaction that is not kept back ends: it is failed,
\* or its proof is recorded, so neither it nor its inputs hang in 'sending' or
\* 'unproven' for ever.  Without a limit (the default) it may be sent again and again.
\* (A crash between a rejected req and its transaction can leave it in 'sending'.)
Settles ==
  MaxRebroadcast > 0 =>
    \A t \in Txs : tx[t] \in {"unsigned", "unprocessed", "sending", "unproven"}
                     ~> tx[t] \in {"failed", "nosend"} \/ txProven[t] \/ crashes > 0

\* The inputs of a failed transaction that the network never saw come back.
InputsReturn ==
  \A t \in Txs, o \in Outs :
    (tx[t] = "failed" /\ o \in inputs[t] /\ net[t] = "unseen")
      ~> (spendable[o] \/ o \in foreign \/ net[t] # "unseen")

\* A req whose proof was recorded does not stay open, although a task that still
\* holds an older copy may write an older status over it: it ends 'completed', or
\* 'invalid' when that copy was rejected.
ProvenReqCloses ==
  \A t \in Txs : req[t].proven ~> req[t].status \in {"completed", "invalid"}

\* A recorded proof reaches its transaction, although the process may stop between
\* the proof and notifyTransactionsOfProof and a review may have failed the
\* transaction meanwhile: reviewStatus links the two, unless an invalid req of a
\* proven transaction makes it throw before it comes to that.
ProofReachesTransaction ==
  \A t \in Txs :
    t \in provenTxs /\ ~txProven[t]
      ~> \/ txProven[t] /\ tx[t] = "completed"
         \/ \E u \in Txs \ {t} : req[u].status = "invalid" /\ ~MayChangeStatus(u, "failed") /\ tx[u] # "failed"

\* A proof timeout does not invalidate a req that storage already marks as
\* broadcast (WHAT_WE_DID.md, with no rebroadcast limit): stated as the documents
\* state it.
TimeoutSparesBroadcast ==
  [][\A t \in Txs :
       /\ MaxRebroadcast = 0
       /\ CheckTimeout \/ CheckGiveUp
       /\ checker.tx = t /\ req'[t].status = "invalid"
       => ~req[t].wasBroadcast]_vars
=============================================================================
