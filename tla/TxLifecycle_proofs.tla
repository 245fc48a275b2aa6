------------------------- MODULE TxLifecycle_proofs -------------------------
(***************************************************************************)
(* Safety of TxLifecycle for any number of transactions and outputs, any   *)
(* attempt and rebroadcast limits and any number of restarts.              *)
(***************************************************************************)
EXTENDS TxLifecycle, TLAPS

\* The inductive invariant.
IInv == TypeOK /\ ProofConsistent /\ ProvenNeverFailed /\ CopiesHonest

-----------------------------------------------------------------------------
(* The operators on reqs.                                                  *)

\* The status setter keeps a req a req and changes nothing about its proof.
LEMMA SetStatusType ==
  ASSUME NEW r \in Req, NEW s \in ReqStatus
  PROVE  /\ SetStatus(r, s) \in Req
         /\ SetStatus(r, s).status = s
         /\ SetStatus(r, s).proven = r.proven
         /\ SetStatus(r, s).attempts = r.attempts
         /\ SetStatus(r, s).rebroadcasts = r.rebroadcasts
         /\ SetStatus(r, s).wasBroadcast = (r.wasBroadcast \/ s \in WasBroadcastStatuses)
  BY DEF SetStatus, Req

\* The attempt counter stops one above the limit.
LEMMA BumpType ==
  ASSUME NEW n \in 0..(AttemptsLimit + 1)
  PROVE  Bump(n) \in 0..(AttemptsLimit + 1)
  BY ConstantsAssumption DEF Bump

\* Writing one field of a req keeps it a req.
LEMMA ReqFields ==
  ASSUME NEW r \in Req
  PROVE  /\ \A n \in 0..(AttemptsLimit + 1) :
              /\ [r EXCEPT !.attempts = n] \in Req
              /\ [r EXCEPT !.attempts = n].proven = r.proven
              /\ [r EXCEPT !.attempts = n].status = r.status
         /\ \A b \in BOOLEAN :
              /\ [r EXCEPT !.proven = b] \in Req
              /\ [r EXCEPT !.proven = b].proven = b
              /\ [r EXCEPT !.proven = b].status = r.status
         /\ \A n \in 0..RebroadcastBound :
              /\ [r EXCEPT !.rebroadcasts = n] \in Req
              /\ [r EXCEPT !.rebroadcasts = n].proven = r.proven
              /\ [r EXCEPT !.rebroadcasts = n].status = r.status
         /\ \A s \in ReqStatus :
              /\ [r EXCEPT !.status = s] \in Req
              /\ [r EXCEPT !.status = s].proven = r.proven
              /\ [r EXCEPT !.status = s].status = s
  BY DEF Req

\* The two fields a rebroadcast resets.
LEMMA RebroadcastFields ==
  ASSUME NEW r \in Req, r.rebroadcasts + 1 \in 0..RebroadcastBound
  PROVE  /\ [r EXCEPT !.rebroadcasts = @ + 1, !.attempts = 0] \in Req
         /\ [r EXCEPT !.rebroadcasts = @ + 1, !.attempts = 0].proven = r.proven
         /\ [r EXCEPT !.rebroadcasts = @ + 1, !.attempts = 0].status = r.status
<1> DEFINE q == [r EXCEPT !.rebroadcasts = r.rebroadcasts + 1]
<1>1. [r EXCEPT !.rebroadcasts = @ + 1, !.attempts = 0] = [q EXCEPT !.attempts = 0]
  BY DEF Req
<1>2. q \in Req /\ q.proven = r.proven /\ q.status = r.status
  BY ReqFields
<1>3. 0 \in 0..(AttemptsLimit + 1)
  BY ConstantsAssumption
<1> HIDE DEF q
<1>4. /\ [q EXCEPT !.attempts = 0] \in Req
      /\ [q EXCEPT !.attempts = 0].proven = q.proven
      /\ [q EXCEPT !.attempts = 0].status = q.status
  BY <1>2, <1>3, ReqFields
<1>5. QED
  BY <1>1, <1>2, <1>4

\* A proof timeout yields a req within the rebroadcast bound, not completed.
LEMMA TimeoutType ==
  ASSUME NEW r \in Req, TimeoutInBound(r)
  PROVE  /\ ApplyProofTimeout(r) \in Req
         /\ ApplyProofTimeout(r).proven = r.proven
         /\ ApplyProofTimeout(r).status # "completed"
<1>1. "invalid" \in ReqStatus /\ "unsent" \in ReqStatus
  BY DEF ReqStatus
<1>2. SetStatus(r, "invalid") \in Req /\ SetStatus(r, "unsent") \in Req
  BY <1>1, SetStatusType
<1>3. CASE \/ ~r.wasBroadcast
           \/ MaxRebroadcast > 0 /\ r.rebroadcasts >= MaxRebroadcast
  BY <1>1, <1>3, SetStatusType DEF ApplyProofTimeout
<1>4. CASE ~(\/ ~r.wasBroadcast
             \/ MaxRebroadcast > 0 /\ r.rebroadcasts >= MaxRebroadcast)
  <2>1. ApplyProofTimeout(r) =
          [SetStatus(r, "unsent") EXCEPT !.rebroadcasts = @ + 1, !.attempts = 0]
    BY <1>4 DEF ApplyProofTimeout
  <2>2. r.rebroadcasts + 1 \in 0..RebroadcastBound
    BY <1>4, ConstantsAssumption DEF TimeoutInBound, Req
  <2>3. /\ SetStatus(r, "unsent").rebroadcasts = r.rebroadcasts
        /\ SetStatus(r, "unsent").proven = r.proven
        /\ SetStatus(r, "unsent").status = "unsent"
    BY <1>1, SetStatusType
  <2>4. /\ [SetStatus(r, "unsent") EXCEPT !.rebroadcasts = @ + 1, !.attempts = 0] \in Req
        /\ [SetStatus(r, "unsent") EXCEPT !.rebroadcasts = @ + 1, !.attempts = 0].proven = r.proven
        /\ [SetStatus(r, "unsent") EXCEPT !.rebroadcasts = @ + 1, !.attempts = 0].status = "unsent"
    BY <1>2, <2>2, <2>3, RebroadcastFields
  <2>5. QED
    BY <2>1, <2>4
<1>5. QED
  BY <1>3, <1>4

\* Counting an attempt.
LEMMA CountAttemptType ==
  ASSUME NEW r \in Req
  PROVE  /\ CountAttempt(r) \in Req
         /\ CountAttempt(r).proven = r.proven
         /\ CountAttempt(r).status = r.status
  BY BumpType DEF CountAttempt, Req

\* The records a task starts from are well formed.
LEMMA IdleTypes ==
  /\ NoReq \in Req /\ ~NoReq.proven /\ NoReq.status = "none"
  /\ \A s \in ReqStatus : /\ NewReq(s) \in Req
                          /\ ~NewReq(s).proven
                          /\ NewReq(s).status = s
<1>1. NoReq \in Req /\ ~NoReq.proven /\ NoReq.status = "none"
  BY ConstantsAssumption DEF NoReq, Req, ReqStatus
<1>2. QED
  BY <1>1, ReqFields DEF NewReq

\* updateProvenTxReqDynamics with an honest copy leaves every row honest.
LEMMA WriteDynamicsHonest ==
  ASSUME IInv, NEW t \in Txs, NEW c \in Req, Honest(t, c), WriteDynamics(t, c)
  PROVE  req' \in [Txs -> Req] /\ \A u \in Txs : Honest(u, req'[u])
<1> DEFINE w == [c EXCEPT !.proven = @ \/ req[t].proven]
<1>1. c.proven \in BOOLEAN /\ req[t].proven \in BOOLEAN
  BY DEF IInv, TypeOK, Req
<1>2. w \in Req /\ w.proven = (c.proven \/ req[t].proven) /\ w.status = c.status
  BY <1>1, ReqFields
<1>3. req' = [req EXCEPT ![t] = w]
  BY DEF WriteDynamics
<1>4. Honest(t, w)
  BY <1>2 DEF IInv, ProofConsistent, Honest
<1> HIDE DEF w
<1>5. QED
  BY <1>2, <1>3, <1>4 DEF IInv, TypeOK, ProofConsistent, Honest

\* What updateTransactionStatus, or a failure it stands for, does to the rows of
\* transactions and outputs: none is completed by it, none with a proof is failed.
TxsFollow ==
  /\ tx' \in [Txs -> TxStatus]
  /\ spendable' \in [Outs -> BOOLEAN]
  /\ spentBy' \in [Outs -> Txs \cup {None}]
  /\ \A u \in Txs : /\ tx'[u] = "completed" => tx[u] = "completed"
                    /\ txProven[u] => tx'[u] # "failed"

\* Failing a set of transactions none of which has a proof.
LEMMA FailTransactionsSafe ==
  ASSUME IInv, NEW T \in SUBSET Txs, \A u \in T : ~txProven[u], FailTransactions(T)
  PROVE  TxsFollow
  BY DEF IInv, TypeOK, ProvenNeverFailed, TxsFollow, FailTransactions, AllocatedTo, TxStatus

\* updateTransactionStatus, whether or not its guards hold.
LEMMA UpdateTransactionStatusSafe ==
  ASSUME IInv, NEW t \in Txs, NEW s \in {"sending", "unproven", "failed"},
         UpdateTransactionStatus(t, s)
  PROVE  TxsFollow
<1>1. CASE ~MayChangeStatus(t, s)
  BY <1>1 DEF IInv, TypeOK, ProvenNeverFailed, UpdateTransactionStatus, TxsFollow
<1>2. CASE MayChangeStatus(t, s) /\ s = "failed"
  <2>1. {t} \in SUBSET Txs /\ (\A u \in {t} : ~txProven[u]) /\ FailTransactions({t})
    BY <1>2 DEF UpdateTransactionStatus, MayChangeStatus
  <2>2. QED
    BY <2>1, FailTransactionsSafe
<1>3. CASE MayChangeStatus(t, s) /\ s # "failed"
  BY <1>3 DEF IInv, TypeOK, ProvenNeverFailed, UpdateTransactionStatus, TxsFollow,
     MayChangeStatus, TxStatus
<1>4. QED
  BY <1>1, <1>2, <1>3

\* A rejected transaction with stale inputs.
LEMMA FailAndMarkStaleSafe ==
  ASSUME IInv, NEW t \in Txs, NEW S, MayChangeStatus(t, "failed"), FailAndMarkStale(t, S)
  PROVE  TxsFollow
  BY DEF IInv, TypeOK, ProvenNeverFailed, TxsFollow, MayChangeStatus, FailAndMarkStale,
     AllocatedTo, TxStatus

\* Recording the proof of a mined transaction: the four variables it writes stay
\* consistent, and the transaction then has its proven_txs row.
LEMMA RecordProofSafe ==
  ASSUME IInv, NEW t \in Txs, net[t] = "mined", RecordProof(t)
  PROVE  /\ req' \in [Txs -> Req]
         /\ provenTxs' \in SUBSET Txs
         /\ provenTxs \subseteq provenTxs'
         /\ t \in provenTxs'
         /\ tx' \in [Txs -> TxStatus]
         /\ txProven' \in [Txs -> BOOLEAN]
         /\ \A u \in Txs :
              /\ \/ txProven'[u] \/ tx'[u] = "completed"
                 \/ req'[u].proven \/ req'[u].status = "completed"
                 => u \in provenTxs'
              /\ u \in provenTxs' => net[u] = "mined"
              /\ txProven'[u] => tx'[u] # "failed"
<1>1. CASE req[t].proven \/ t \in provenTxs
  BY <1>1 DEF IInv, TypeOK, ProofConsistent, ProvenNeverFailed, RecordProof
<1>2. CASE ~(req[t].proven \/ t \in provenTxs)
  <2> DEFINE r == [SetStatus(req[t], "completed") EXCEPT !.proven = TRUE]
  <2>1. SetStatus(req[t], "completed") \in Req
    BY SetStatusType DEF IInv, TypeOK, ReqStatus
  <2>2. r \in Req
    BY <2>1, ReqFields
  <2>3. /\ provenTxs' = provenTxs \cup {t}
        /\ req' = [req EXCEPT ![t] = r]
        /\ tx' = [tx EXCEPT ![t] = "completed"]
        /\ txProven' = [txProven EXCEPT ![t] = TRUE]
    BY <1>2 DEF RecordProof, InsertProof
  <2> HIDE DEF r
  <2>4. QED
    BY <2>2, <2>3 DEF IInv, TypeOK, TxStatus, ProofConsistent, ProvenNeverFailed
<1>3. QED
  BY <1>1, <1>2

\* A restart leaves no task with work, hence no copy.
LEMMA RestartSafe ==
  ASSUME IInv, Restart
  PROVE  /\ poster' \in [Posters -> [pc: {"idle", "read", "posting", "posted"},
                                     tx: Txs \cup {None}, copy: Req, agg: AggregateStatus]]
         /\ checker' \in [pc: {"idle", "read", "proof", "proved"}, tx: Txs \cup {None}, copy: Req]
         /\ sse' \in [pc: {"idle", "read", "txs"}, tx: Txs \cup {None}, copy: Req, kind: SseKinds]
         /\ unfailer' \in [pc: {"idle", "read", "write"}, tx: Txs \cup {None}, copy: Req]
         /\ reviewer' \in Txs \cup {None}
         /\ crashes' \in 0..MaxCrashes
         /\ \A p \in Posters : poster'[p].pc = "idle"
         /\ checker'.pc = "idle" /\ sse'.pc = "idle" /\ unfailer'.pc = "idle"
  BY IdleTypes, ConstantsAssumption DEF IInv, TypeOK, Restart, IdlePoster, IdleTask,
     IdleSse, AggregateStatus, SseKinds

-----------------------------------------------------------------------------
(* One lemma per action: each preserves the invariant.                     *)

\* Mining keeps the invariant: only 'mempool' becomes 'mined'.
LEMMA NetMineStep ==
  ASSUME IInv, NEW t \in Txs, NetMine(t)
  PROVE  IInv'
<1>1. TypeOK'
  BY DEF IInv, TypeOK, NetMine, Honest, storage, tasks, NetStatus
<1>2. ProofConsistent'
  BY DEF IInv, TypeOK, ProofConsistent, NetMine, Honest, storage, tasks, NetStatus
<1>3. ProvenNeverFailed'
  BY DEF IInv, TypeOK, ProvenNeverFailed, NetMine, Honest, storage, tasks, NetStatus
<1>4. CopiesHonest'
  BY DEF IInv, TypeOK, CopiesHonest, NetMine, Honest, storage, tasks, NetStatus
<1>5. QED
  BY <1>1, <1>2, <1>3, <1>4 DEF IInv

\* So does a relay: it touches only transactions the network does not hold.
LEMMA NetRelayStep ==
  ASSUME IInv, NEW t \in Txs, NetRelay(t)
  PROVE  IInv'
<1>1. TypeOK'
  BY DEF IInv, TypeOK, NetRelay, Known, Honest, storage, tasks, NetStatus
<1>2. ProofConsistent'
  BY DEF IInv, TypeOK, ProofConsistent, NetRelay, Known, Honest, storage, tasks,
     NetStatus
<1>3. ProvenNeverFailed'
  BY DEF IInv, TypeOK, ProvenNeverFailed, NetRelay, Known, Honest, storage, tasks,
     NetStatus
<1>4. CopiesHonest'
  BY DEF IInv, TypeOK, CopiesHonest, NetRelay, Known, Honest, storage, tasks, NetStatus
<1>5. QED
  BY <1>1, <1>2, <1>3, <1>4 DEF IInv

\* A competing spend evicts only what is not mined.
LEMMA ForeignSpendStep ==
  ASSUME IInv, NEW o \in Outs, ForeignSpend(o)
  PROVE  IInv'
<1>1. TypeOK'
  BY DEF IInv, TypeOK, ForeignSpend, Honest, storage, tasks, NetStatus
<1>2. ProofConsistent'
  BY DEF IInv, TypeOK, ProofConsistent, ForeignSpend, Honest, storage, tasks, NetStatus
<1>3. ProvenNeverFailed'
  BY DEF IInv, TypeOK, ProvenNeverFailed, ForeignSpend, Honest, storage, tasks,
     NetStatus
<1>4. CopiesHonest'
  BY DEF IInv, TypeOK, CopiesHonest, ForeignSpend, Honest, storage, tasks, NetStatus
<1>5. QED
  BY <1>1, <1>2, <1>3, <1>4 DEF IInv

\* createAction writes a transaction that has neither req nor proof.
LEMMA CreateActionStep ==
  ASSUME IInv, NEW t \in Txs, NEW I \in SUBSET Outs, CreateAction(t, I)
  PROVE  IInv'
<1>1. TypeOK'
  BY DEF IInv, TypeOK, CreateAction, Honest, storage, tasks, TxStatus
<1>2. ProofConsistent'
  BY DEF IInv, TypeOK, ProofConsistent, CreateAction, Honest, storage, tasks, TxStatus
<1>3. ProvenNeverFailed'
  BY DEF IInv, TypeOK, ProvenNeverFailed, CreateAction, Honest, storage, tasks, TxStatus
<1>4. CopiesHonest'
  BY DEF IInv, TypeOK, CopiesHonest, CreateAction, Honest, storage, tasks, TxStatus
<1>5. QED
  BY <1>1, <1>2, <1>3, <1>4 DEF IInv

\* processAction keeps a transaction back: its new req claims no proof.
LEMMA ProcessActionNoSendStep ==
  ASSUME IInv, NEW t \in Txs, ProcessActionNoSend(t)
  PROVE  IInv'
<1>1. /\ NewReq("nosend") \in Req
      /\ ~NewReq("nosend").proven
      /\ NewReq("nosend").status = "nosend"
  BY IdleTypes DEF ReqStatus
<1>2. TypeOK'
  BY <1>1 DEF IInv, TypeOK, ProcessActionNoSend, Honest, tasks, TxStatus
<1>3. ProofConsistent'
  BY <1>1 DEF IInv, TypeOK, ProofConsistent, ProcessActionNoSend, Honest, tasks,
     TxStatus
<1>4. ProvenNeverFailed'
  BY <1>1 DEF IInv, TypeOK, ProvenNeverFailed, ProcessActionNoSend, Honest, tasks,
     TxStatus
<1>5. CopiesHonest'
  BY <1>1 DEF IInv, TypeOK, CopiesHonest, ProcessActionNoSend, Honest, tasks, TxStatus
<1>6. QED
  BY <1>2, <1>3, <1>4, <1>5 DEF IInv

\* processAction of a delayed transaction, whether or not it is shared before a restart.
LEMMA ProcessActionDelayedStep ==
  ASSUME IInv, NEW t \in Txs, NEW shared \in BOOLEAN, ProcessActionDelayed(t, shared)
  PROVE  IInv'
<1>1. /\ NewReq("unsent") \in Req
      /\ ~NewReq("unsent").proven
      /\ NewReq("unsent").status = "unsent"
  BY IdleTypes DEF ReqStatus
<1>2. NoReq \in Req /\ ~NoReq.proven /\ NoReq.status = "none"
  BY IdleTypes
<1>3. MaxCrashes \in Nat
  BY ConstantsAssumption
<1>4. TypeOK'
  BY <1>1, <1>2, <1>3 DEF IInv, TypeOK, ProcessActionDelayed, Honest, tasks, TxStatus,
     Restart, IdlePoster, IdleTask, IdleSse, AggregateStatus, SseKinds
<1>5. ProofConsistent'
  BY <1>1, <1>2, <1>3 DEF IInv, TypeOK, ProofConsistent, ProcessActionDelayed, Honest,
     tasks, TxStatus, Restart, IdlePoster, IdleTask, IdleSse, AggregateStatus, SseKinds
<1>6. ProvenNeverFailed'
  BY <1>1, <1>2, <1>3 DEF IInv, TypeOK, ProvenNeverFailed, ProcessActionDelayed, Honest,
     tasks, TxStatus, Restart, IdlePoster, IdleTask, IdleSse, AggregateStatus, SseKinds
<1>7. CopiesHonest'
  BY <1>1, <1>2, <1>3 DEF IInv, TypeOK, CopiesHonest, ProcessActionDelayed, Honest,
     tasks, TxStatus, Restart, IdlePoster, IdleTask, IdleSse, AggregateStatus, SseKinds
<1>8. QED
  BY <1>4, <1>5, <1>6, <1>7 DEF IInv

\* processAction that posts at once: the poster's copy is the new req.
LEMMA ProcessActionNowStep ==
  ASSUME IInv, NEW t \in Txs, ProcessActionNow(t)
  PROVE  IInv'
<1>1. /\ NewReq("unprocessed") \in Req
      /\ ~NewReq("unprocessed").proven
      /\ NewReq("unprocessed").status = "unprocessed"
  BY IdleTypes DEF ReqStatus
<1>2. TypeOK'
  BY <1>1 DEF IInv, TypeOK, ProcessActionNow, StartPost, Posters, AggregateStatus,
     Honest, tasks, TxStatus
<1>3. ProofConsistent'
  BY <1>1 DEF IInv, TypeOK, ProofConsistent, ProcessActionNow, StartPost, Posters,
     AggregateStatus, Honest, tasks, TxStatus
<1>4. ProvenNeverFailed'
  BY <1>1 DEF IInv, TypeOK, ProvenNeverFailed, ProcessActionNow, StartPost, Posters,
     AggregateStatus, Honest, tasks, TxStatus
<1>5. CopiesHonest'
  BY <1>1 DEF IInv, TypeOK, CopiesHonest, ProcessActionNow, StartPost, Posters,
     AggregateStatus, Honest, tasks, TxStatus
<1>6. QED
  BY <1>2, <1>3, <1>4, <1>5 DEF IInv

\* sendWith, delayed: a req without a proof becomes 'unsent'.
LEMMA SendWithDelayedStep ==
  ASSUME IInv, NEW t \in Txs, SendWithDelayed(t)
  PROVE  IInv'
<1>1. req[t] \in Req
  BY DEF IInv, TypeOK
<1>2. /\ [req[t] EXCEPT !.status = "unsent"] \in Req
      /\ [req[t] EXCEPT !.status = "unsent"].proven = req[t].proven
      /\ [req[t] EXCEPT !.status = "unsent"].status = "unsent"
  BY <1>1, ReqFields DEF ReqStatus
<1>3. t \notin provenTxs => ~req[t].proven
  BY DEF IInv, ProofConsistent
<1>4. TypeOK'
  BY <1>1, <1>2, <1>3 DEF IInv, TypeOK, SendWithDelayed, Honest, tasks, TxStatus
<1>5. ProofConsistent'
  BY <1>1, <1>2, <1>3 DEF IInv, TypeOK, ProofConsistent, SendWithDelayed, Honest, tasks,
     TxStatus
<1>6. ProvenNeverFailed'
  BY <1>1, <1>2, <1>3 DEF IInv, TypeOK, ProvenNeverFailed, SendWithDelayed, Honest,
     tasks, TxStatus
<1>7. CopiesHonest'
  BY <1>1, <1>2, <1>3 DEF IInv, TypeOK, CopiesHonest, SendWithDelayed, Honest, tasks,
     TxStatus
<1>8. QED
  BY <1>4, <1>5, <1>6, <1>7 DEF IInv

\* sendWith, posted at once: the poster's copy is the row.
LEMMA SendWithNowStep ==
  ASSUME IInv, NEW t \in Txs, SendWithNow(t)
  PROVE  IInv'
<1>1. TypeOK'
  BY DEF IInv, TypeOK, SendWithNow, StartPost, Posters, AggregateStatus, Honest,
     storage, ProofConsistent
<1>2. ProofConsistent'
  BY DEF IInv, TypeOK, ProofConsistent, SendWithNow, StartPost, Posters,
     AggregateStatus, Honest, storage, ProofConsistent
<1>3. ProvenNeverFailed'
  BY DEF IInv, TypeOK, ProvenNeverFailed, SendWithNow, StartPost, Posters,
     AggregateStatus, Honest, storage, ProofConsistent
<1>4. CopiesHonest'
  BY DEF IInv, TypeOK, CopiesHonest, SendWithNow, StartPost, Posters, AggregateStatus,
     Honest, storage, ProofConsistent
<1>5. QED
  BY <1>1, <1>2, <1>3, <1>4 DEF IInv

\* abortAction fails a transaction whose guards show that it has no proof.
LEMMA AbortActionStep ==
  ASSUME IInv, NEW t \in Txs, AbortAction(t)
  PROVE  IInv'
<1>1. /\ SetStatus(req[t], "invalid") \in Req
      /\ SetStatus(req[t], "invalid").proven = req[t].proven
      /\ SetStatus(req[t], "invalid").status = "invalid"
  BY SetStatusType DEF IInv, TypeOK, ReqStatus
<1>2. TypeOK'
  BY <1>1 DEF IInv, TypeOK, AbortAction, Honest, tasks, FailTransactions, AllocatedTo,
     MayChangeStatus, TxStatus
<1>3. ProofConsistent'
  BY <1>1 DEF IInv, TypeOK, ProofConsistent, AbortAction, Honest, tasks,
     FailTransactions, AllocatedTo, MayChangeStatus, TxStatus
<1>4. ProvenNeverFailed'
  BY <1>1 DEF IInv, TypeOK, ProvenNeverFailed, AbortAction, Honest, tasks,
     FailTransactions, AllocatedTo, MayChangeStatus, TxStatus
<1>5. CopiesHonest'
  BY <1>1 DEF IInv, TypeOK, CopiesHonest, AbortAction, Honest, tasks, FailTransactions,
     AllocatedTo, MayChangeStatus, TxStatus
<1>6. QED
  BY <1>2, <1>3, <1>4, <1>5 DEF IInv

\* TaskSendWaiting copies a row.
LEMMA SendWaitingReadStep ==
  ASSUME IInv, NEW t \in Txs, SendWaitingRead(t)
  PROVE  IInv'
<1>1. TypeOK'
  BY DEF IInv, TypeOK, SendWaitingRead, Posters, AggregateStatus, Honest, storage,
     ProofConsistent
<1>2. ProofConsistent'
  BY DEF IInv, TypeOK, ProofConsistent, SendWaitingRead, Posters, AggregateStatus,
     Honest, storage, ProofConsistent
<1>3. ProvenNeverFailed'
  BY DEF IInv, TypeOK, ProvenNeverFailed, SendWaitingRead, Posters, AggregateStatus,
     Honest, storage, ProofConsistent
<1>4. CopiesHonest'
  BY DEF IInv, TypeOK, CopiesHonest, SendWaitingRead, Posters, AggregateStatus, Honest,
     storage, ProofConsistent
<1>5. QED
  BY <1>1, <1>2, <1>3, <1>4 DEF IInv

\* TaskSendWaiting starts to post the copy it has.
LEMMA SendWaitingStartStep ==
  ASSUME IInv, SendWaitingStart
  PROVE  IInv'
<1>1. TypeOK'
  BY DEF IInv, TypeOK, SendWaitingStart, Posters, Honest, storage
<1>2. ProofConsistent'
  BY DEF IInv, TypeOK, ProofConsistent, SendWaitingStart, Posters, Honest, storage
<1>3. ProvenNeverFailed'
  BY DEF IInv, TypeOK, ProvenNeverFailed, SendWaitingStart, Posters, Honest, storage
<1>4. CopiesHonest'
  BY DEF IInv, TypeOK, CopiesHonest, SendWaitingStart, Posters, Honest, storage
<1>5. QED
  BY <1>1, <1>2, <1>3, <1>4 DEF IInv

\* postBeef: a transaction that is mined stays mined.
LEMMA PostBeefStep ==
  ASSUME IInv, NEW p \in Posters, NEW agg \in AggregateStatus, PostBeef(p, agg)
  PROVE  IInv'
<1> DEFINE R == [pc: {"idle", "read", "posting", "posted"},
                 tx: Txs \cup {None}, copy: Req, agg: AggregateStatus]
           q == [poster[p] EXCEPT !.pc = "posted"]
           r == [q EXCEPT !.agg = agg]
<1>a. poster \in [Posters -> R] /\ poster' = [poster EXCEPT ![p] = r]
  BY DEF IInv, TypeOK, PostBeef
<1>b. q \in R
  BY <1>a
<1>c. r \in R
  BY <1>b
<1>1. TypeOK'
  <2>1. poster' \in [Posters -> R]
    BY <1>a, <1>c
  <2> HIDE DEF R
  <2>2. net' \in [Txs -> NetStatus]
    BY DEF IInv, TypeOK, PostBeef, NetStatus
  <2>3. QED
    BY <2>1, <2>2 DEF IInv, TypeOK, PostBeef, storage, R
<1>2. ProofConsistent'
  BY DEF IInv, TypeOK, ProofConsistent, PostBeef, Known, NetStatus, Honest, storage
<1>3. ProvenNeverFailed'
  BY DEF IInv, TypeOK, ProvenNeverFailed, PostBeef, Known, NetStatus, Honest, storage
<1>4. CopiesHonest'
  BY DEF IInv, TypeOK, CopiesHonest, PostBeef, Known, NetStatus, Honest, storage
<1>5. QED
  BY <1>1, <1>2, <1>3, <1>4 DEF IInv

\* A beef that cannot be put together leaves an honest copy, counted or given up.
LEMMA PostRefusedStep ==
  ASSUME IInv, NEW p \in Posters, NEW hopeless \in BOOLEAN, PostRefused(p, hopeless)
  PROVE  IInv'
<1> DEFINE t == poster[p].tx
           c == poster[p].copy
           b == [c EXCEPT !.attempts = Bump(@)]
<1>1. t \in Txs /\ c \in Req /\ Honest(t, c)
  BY DEF IInv, TypeOK, CopiesHonest, PostRefused, Honest
<1>2. b \in Req /\ Honest(t, b)
  <2>1. c.attempts \in 0..(AttemptsLimit + 1)
    BY <1>1 DEF Req
  <2>2. QED
    BY <1>1, <2>1, BumpType, ReqFields DEF Honest
<1>3. PICK r \in {b, SetStatus(b, "invalid")} : WriteDynamics(t, r)
  BY DEF PostRefused
<1>4. r \in Req /\ Honest(t, r)
  <2> HIDE DEF b
  <2>1. SetStatus(b, "invalid") \in Req /\ Honest(t, SetStatus(b, "invalid"))
    BY <1>2, SetStatusType, "invalid" \in ReqStatus DEF Honest, ReqStatus
  <2>2. QED
    BY <1>2, <2>1
<1>5. req' \in [Txs -> Req] /\ \A u \in Txs : Honest(u, req'[u])
  BY <1>1, <1>3, <1>4, WriteDynamicsHonest
<1>6. poster' \in [Posters -> [pc: {"idle", "read", "posting", "posted"},
                               tx: Txs \cup {None}, copy: Req, agg: AggregateStatus]]
  BY IdleTypes DEF IInv, TypeOK, IdlePoster, AggregateStatus, PostRefused
<1>7. TypeOK'
  BY <1>5, <1>6 DEF IInv, TypeOK, PostRefused
<1>8. ProofConsistent' /\ ProvenNeverFailed'
  BY <1>5 DEF IInv, ProofConsistent, ProvenNeverFailed, PostRefused, Honest
<1>9. CopiesHonest'
  BY DEF IInv, TypeOK, CopiesHonest, Honest, IdlePoster, PostRefused
<1>10. QED
  BY <1>7, <1>8, <1>9 DEF IInv

\* The result of postBeef is applied to an honest copy, with or without a restart
\* between the req and its transaction.
LEMMA PostApplyStep ==
  ASSUME IInv, NEW p \in Posters, NEW done \in BOOLEAN, NEW known \in BOOLEAN,
         PostApply(p, done, known)
  PROVE  IInv'
<1> DEFINE t == poster[p].tx
           c == poster[p].copy
           w == [c EXCEPT !.proven = @ \/ req[t].proven]
<1>1. t \in Txs /\ c \in Req /\ Honest(t, c) /\ poster[p].agg \in AggregateStatus
  BY DEF IInv, TypeOK, CopiesHonest, PostApply, Honest
<1>2. w \in Req /\ Honest(t, w)
  <2>1. c.proven \in BOOLEAN /\ req[t].proven \in BOOLEAN
    BY <1>1 DEF IInv, TypeOK, Req
  <2>2. w \in Req /\ w.proven = (c.proven \/ req[t].proven) /\ w.status = c.status
    BY <1>1, <2>1, ReqFields
  <2>3. QED
    BY <1>1, <2>2 DEF IInv, ProofConsistent, Honest
<1> HIDE DEF w
<1>3. \E r \in Req : req' = [req EXCEPT ![t] = r] /\ Honest(t, r)
  <2>1. \A s \in ReqStatus \ {"completed"} :
          SetStatus(w, s) \in Req /\ Honest(t, SetStatus(w, s))
    BY <1>2, SetStatusType DEF Honest
  <2>2. LET b == [SetStatus(w, "sending") EXCEPT !.attempts = Bump(@)]
        IN  b \in Req /\ Honest(t, b)
    <3>1. SetStatus(w, "sending") \in Req /\ Honest(t, SetStatus(w, "sending"))
      BY <2>1 DEF ReqStatus
    <3>2. SetStatus(w, "sending").attempts \in 0..(AttemptsLimit + 1)
      BY <3>1 DEF Req
    <3>3. QED
      BY <3>1, <3>2, BumpType, ReqFields DEF Honest
  <2>3. QED
    BY <1>2, <2>1, <2>2 DEF PostApply, w, ReqStatus
<1>4. req' \in [Txs -> Req] /\ \A u \in Txs : Honest(u, req'[u])
  BY <1>1, <1>3 DEF IInv, TypeOK, ProofConsistent, Honest
<1>5. TxsFollow
  <2>1. CASE UNCHANGED <<tx, spendable, spentBy>>
    BY <2>1 DEF IInv, TypeOK, ProvenNeverFailed, TxsFollow
  <2>2. CASE \E s \in {"sending", "unproven", "failed"} : UpdateTransactionStatus(t, s)
    BY <1>1, <2>2, UpdateTransactionStatusSafe
  <2>3. CASE MayChangeStatus(t, "failed") /\ \E S : FailAndMarkStale(t, S)
    BY <1>1, <2>3, FailAndMarkStaleSafe
  <2>4. QED
    BY <2>1, <2>2, <2>3 DEF PostApply
<1>6. \/ Restart
      \/ /\ poster' = [poster EXCEPT ![p] = IdlePoster]
         /\ UNCHANGED <<checker, sse, unfailer, reviewer, crashes>>
  BY DEF PostApply
<1>7. UNCHANGED <<txProven, provenTxs, inputs, net, foreign>>
  BY DEF PostApply
<1>8. TypeOK'
  <2>1. CASE Restart
    BY <1>4, <1>5, <1>7, <2>1, RestartSafe DEF IInv, TypeOK, TxsFollow
  <2>2. CASE /\ poster' = [poster EXCEPT ![p] = IdlePoster]
             /\ UNCHANGED <<checker, sse, unfailer, reviewer, crashes>>
    <3>1. poster' \in [Posters -> [pc: {"idle", "read", "posting", "posted"},
                                   tx: Txs \cup {None}, copy: Req, agg: AggregateStatus]]
      BY <2>2, IdleTypes DEF IInv, TypeOK, IdlePoster, AggregateStatus
    <3>2. QED
      BY <1>4, <1>5, <1>7, <2>2, <3>1 DEF IInv, TypeOK, TxsFollow
  <2>3. QED
    BY <1>6, <2>1, <2>2
<1>9. ProofConsistent'
  BY <1>4, <1>5, <1>7 DEF IInv, ProofConsistent, TxsFollow, Honest
<1>10. ProvenNeverFailed'
  BY <1>5, <1>7 DEF ProvenNeverFailed, TxsFollow
<1>11. CopiesHonest'
  <2>1. CASE Restart
    BY <2>1, RestartSafe DEF CopiesHonest
  <2>2. CASE /\ poster' = [poster EXCEPT ![p] = IdlePoster]
             /\ UNCHANGED <<checker, sse, unfailer, reviewer, crashes>>
    BY <1>7, <2>2 DEF IInv, TypeOK, CopiesHonest, Honest, IdlePoster
  <2>3. QED
    BY <1>6, <2>1, <2>2
<1>12. QED
  BY <1>8, <1>9, <1>10, <1>11 DEF IInv

\* TaskCheckForProofs copies a row.
LEMMA CheckReadStep ==
  ASSUME IInv, NEW t \in Txs, CheckRead(t)
  PROVE  IInv'
<1>1. req[t] \in Req
  BY DEF IInv, TypeOK
<1>2. TypeOK'
  BY <1>1 DEF IInv, TypeOK, CheckRead, Honest, storage, ProofConsistent
<1>3. ProofConsistent'
  BY <1>1 DEF IInv, TypeOK, ProofConsistent, CheckRead, Honest, storage, ProofConsistent
<1>4. ProvenNeverFailed'
  BY <1>1 DEF IInv, TypeOK, ProvenNeverFailed, CheckRead, Honest, storage,
     ProofConsistent
<1>5. CopiesHonest'
  BY <1>1 DEF IInv, TypeOK, CopiesHonest, CheckRead, Honest, storage, ProofConsistent
<1>6. QED
  BY <1>2, <1>3, <1>4, <1>5 DEF IInv

\* A copy that is linked to its proof may be completed.
LEMMA CheckLinkedStep ==
  ASSUME IInv, CheckLinked
  PROVE  IInv'
<1>1. checker.tx \in Txs /\ checker.copy \in Req /\ Honest(checker.tx, checker.copy)
  BY DEF IInv, TypeOK, CopiesHonest, CheckLinked, Honest
<1>2. /\ SetStatus(checker.copy, "completed") \in Req
      /\ Honest(checker.tx, SetStatus(checker.copy, "completed"))
  BY <1>1, SetStatusType DEF CheckLinked, Honest, ReqStatus
<1>3. req' \in [Txs -> Req] /\ \A u \in Txs : Honest(u, req'[u])
  BY <1>1, <1>2, WriteDynamicsHonest DEF CheckLinked, CheckWrites
<1>4. NoReq \in Req
  BY IdleTypes
<1>5. TypeOK'
  BY <1>1, <1>2, <1>3, <1>4 DEF IInv, TypeOK, CheckLinked, CheckWrites, IdleTask, Honest
<1>6. ProofConsistent'
  BY <1>1, <1>2, <1>3, <1>4 DEF IInv, TypeOK, ProofConsistent, CheckLinked, CheckWrites,
     IdleTask, Honest
<1>7. ProvenNeverFailed'
  BY <1>1, <1>2, <1>3, <1>4 DEF IInv, TypeOK, ProvenNeverFailed, CheckLinked,
     CheckWrites, IdleTask, Honest
<1>8. CopiesHonest'
  BY <1>1, <1>2, <1>3, <1>4 DEF IInv, TypeOK, CopiesHonest, CheckLinked, CheckWrites,
     IdleTask, Honest
<1>9. QED
  BY <1>5, <1>6, <1>7, <1>8 DEF IInv

\* A proof timeout never completes a req.
LEMMA CheckTimeoutStep ==
  ASSUME IInv, CheckTimeout
  PROVE  IInv'
<1>1. checker.tx \in Txs /\ checker.copy \in Req /\ Honest(checker.tx, checker.copy)
  BY DEF IInv, TypeOK, CopiesHonest, CheckTimeout, Honest
<1>2. /\ ApplyProofTimeout(checker.copy) \in Req
      /\ Honest(checker.tx, ApplyProofTimeout(checker.copy))
  BY <1>1, TimeoutType DEF CheckTimeout, Honest
<1>3. req' \in [Txs -> Req] /\ \A u \in Txs : Honest(u, req'[u])
  BY <1>1, <1>2, WriteDynamicsHonest DEF CheckTimeout, CheckWrites
<1>4. NoReq \in Req
  BY IdleTypes
<1>5. TypeOK'
  BY <1>1, <1>2, <1>3, <1>4 DEF IInv, TypeOK, CheckTimeout, CheckWrites, IdleTask,
     Honest
<1>6. ProofConsistent'
  BY <1>1, <1>2, <1>3, <1>4 DEF IInv, TypeOK, ProofConsistent, CheckTimeout,
     CheckWrites, IdleTask, Honest
<1>7. ProvenNeverFailed'
  BY <1>1, <1>2, <1>3, <1>4 DEF IInv, TypeOK, ProvenNeverFailed, CheckTimeout,
     CheckWrites, IdleTask, Honest
<1>8. CopiesHonest'
  BY <1>1, <1>2, <1>3, <1>4 DEF IInv, TypeOK, CopiesHonest, CheckTimeout, CheckWrites,
     IdleTask, Honest
<1>9. QED
  BY <1>5, <1>6, <1>7, <1>8 DEF IInv

\* Nor does giving up, which writes the same req.
LEMMA CheckGiveUpStep ==
  ASSUME IInv, CheckGiveUp
  PROVE  IInv'
<1>1. checker.tx \in Txs /\ checker.copy \in Req /\ Honest(checker.tx, checker.copy)
  BY DEF IInv, TypeOK, CopiesHonest, CheckGiveUp, Honest
<1>2. /\ ApplyProofTimeout(checker.copy) \in Req
      /\ Honest(checker.tx, ApplyProofTimeout(checker.copy))
  BY <1>1, TimeoutType DEF CheckGiveUp, Honest
<1>3. req' \in [Txs -> Req] /\ \A u \in Txs : Honest(u, req'[u])
  BY <1>1, <1>2, WriteDynamicsHonest DEF CheckGiveUp, CheckWrites
<1>4. NoReq \in Req
  BY IdleTypes
<1>5. TypeOK'
  BY <1>1, <1>2, <1>3, <1>4 DEF IInv, TypeOK, CheckGiveUp, CheckWrites, IdleTask,
     Honest
<1>6. ProofConsistent'
  BY <1>1, <1>2, <1>3, <1>4 DEF IInv, TypeOK, ProofConsistent, CheckGiveUp,
     CheckWrites, IdleTask, Honest
<1>7. ProvenNeverFailed'
  BY <1>1, <1>2, <1>3, <1>4 DEF IInv, TypeOK, ProvenNeverFailed, CheckGiveUp,
     CheckWrites, IdleTask, Honest
<1>8. CopiesHonest'
  BY <1>1, <1>2, <1>3, <1>4 DEF IInv, TypeOK, CopiesHonest, CheckGiveUp, CheckWrites,
     IdleTask, Honest
<1>9. QED
  BY <1>5, <1>6, <1>7, <1>8 DEF IInv

\* Counting an attempt does not change what a copy claims.
LEMMA CheckNoProofStep ==
  ASSUME IInv, CheckNoProof
  PROVE  IInv'
<1>1. checker.tx \in Txs /\ checker.copy \in Req /\ Honest(checker.tx, checker.copy)
  BY DEF IInv, TypeOK, CopiesHonest, CheckNoProof, Honest
<1> DEFINE once == CountAttempt(checker.copy)
<1>a. PICK counted \in {once, CountAttempt(once)} : CheckWrites(counted)
  BY DEF CheckNoProof
<1>b. once \in Req /\ once.proven = checker.copy.proven /\ once.status = checker.copy.status
  BY <1>1, CountAttemptType
<1>c. /\ CountAttempt(once) \in Req
      /\ CountAttempt(once).proven = once.proven /\ CountAttempt(once).status = once.status
  BY <1>b, CountAttemptType
<1>2. counted \in Req /\ Honest(checker.tx, counted)
  BY <1>1, <1>a, <1>b, <1>c DEF Honest
<1>3. req' \in [Txs -> Req] /\ \A u \in Txs : Honest(u, req'[u])
  BY <1>1, <1>2, <1>a, WriteDynamicsHonest DEF CheckWrites
<1>4. NoReq \in Req
  BY IdleTypes
<1>5. TypeOK'
  BY <1>1, <1>2, <1>3, <1>4 DEF IInv, TypeOK, CheckNoProof, CheckWrites, IdleTask,
     Honest
<1>6. ProofConsistent'
  BY <1>1, <1>2, <1>3, <1>4 DEF IInv, TypeOK, ProofConsistent, CheckNoProof,
     CheckWrites, IdleTask, Honest
<1>7. ProvenNeverFailed'
  BY <1>1, <1>2, <1>3, <1>4 DEF IInv, TypeOK, ProvenNeverFailed, CheckNoProof,
     CheckWrites, IdleTask, Honest
<1>8. CopiesHonest'
  BY <1>1, <1>2, <1>3, <1>4 DEF IInv, TypeOK, CopiesHonest, CheckNoProof, CheckWrites,
     IdleTask, Honest
<1>9. QED
  BY <1>5, <1>6, <1>7, <1>8 DEF IInv

\* A proof too new to be used changes no row.
LEMMA CheckTooNewStep ==
  ASSUME IInv, CheckTooNew
  PROVE  IInv'
<1>1. NoReq \in Req
  BY IdleTypes
<1>2. TypeOK'
  BY <1>1 DEF IInv, TypeOK, CheckTooNew, Honest, storage, IdleTask
<1>3. ProofConsistent'
  BY <1>1 DEF IInv, TypeOK, ProofConsistent, CheckTooNew, Honest, storage, IdleTask
<1>4. ProvenNeverFailed'
  BY <1>1 DEF IInv, TypeOK, ProvenNeverFailed, CheckTooNew, Honest, storage, IdleTask
<1>5. CopiesHonest'
  BY <1>1 DEF IInv, TypeOK, CopiesHonest, CheckTooNew, Honest, storage, IdleTask
<1>6. QED
  BY <1>2, <1>3, <1>4, <1>5 DEF IInv

\* The checker goes on to record a proof only of a mined transaction.
LEMMA CheckProofStep ==
  ASSUME IInv, CheckProof
  PROVE  IInv'
<1>1. checker.tx \in Txs /\ checker.copy \in Req /\ Honest(checker.tx, checker.copy)
  BY DEF IInv, TypeOK, CopiesHonest, CheckProof, Honest
<1>2. CountAttempt(checker.copy) \in Req /\ Honest(checker.tx, CountAttempt(checker.copy))
  BY <1>1, CountAttemptType DEF Honest
<1>3. req' \in [Txs -> Req] /\ \A u \in Txs : Honest(u, req'[u])
  BY <1>1, <1>2, WriteDynamicsHonest DEF CheckProof, CheckWrites
<1>4. NoReq \in Req
  BY IdleTypes
<1>5. req'[checker.tx] \in Req /\ net[checker.tx] = "mined"
  BY <1>1, <1>3 DEF CheckProof
<1>6. TypeOK'
  BY <1>1, <1>2, <1>3, <1>4, <1>5 DEF IInv, TypeOK, CheckProof, CheckWrites, IdleTask,
     Honest
<1>7. ProofConsistent'
  BY <1>1, <1>2, <1>3, <1>4, <1>5 DEF IInv, TypeOK, ProofConsistent, CheckProof,
     CheckWrites, IdleTask, Honest
<1>8. ProvenNeverFailed'
  BY <1>1, <1>2, <1>3, <1>4, <1>5 DEF IInv, TypeOK, ProvenNeverFailed, CheckProof,
     CheckWrites, IdleTask, Honest
<1>9. CopiesHonest'
  BY <1>1, <1>2, <1>3, <1>4, <1>5 DEF IInv, TypeOK, CopiesHonest, CheckProof,
     CheckWrites, IdleTask, Honest
<1>10. QED
  BY <1>6, <1>7, <1>8, <1>9 DEF IInv

\* The checker records the proof, and its copy may claim it from then on.
LEMMA CheckRecordStep ==
  ASSUME IInv, CheckRecord
  PROVE  IInv'
<1> DEFINE t == checker.tx
           c == [SetStatus(checker.copy, req'[t].status) EXCEPT !.proven = TRUE]
<1>1. t \in Txs /\ checker.copy \in Req /\ net[t] = "mined" /\ RecordProof(t)
  BY DEF IInv, TypeOK, CopiesHonest, CheckRecord, Honest
<1>2. /\ req' \in [Txs -> Req]
      /\ provenTxs' \in SUBSET Txs
      /\ provenTxs \subseteq provenTxs'
      /\ t \in provenTxs'
      /\ tx' \in [Txs -> TxStatus]
      /\ txProven' \in [Txs -> BOOLEAN]
      /\ \A u \in Txs :
           /\ \/ txProven'[u] \/ tx'[u] = "completed"
              \/ req'[u].proven \/ req'[u].status = "completed"
              => u \in provenTxs'
           /\ u \in provenTxs' => net[u] = "mined"
           /\ txProven'[u] => tx'[u] # "failed"
  BY <1>1, RecordProofSafe
<1>3. c \in Req
  <2>1. req'[t].status \in ReqStatus
    BY <1>1, <1>2 DEF Req
  <2>2. SetStatus(checker.copy, req'[t].status) \in Req
    BY <1>1, <2>1, SetStatusType
  <2>3. QED
    BY <2>2, ReqFields
<1>4. checker' = [checker EXCEPT !.pc = "proved", !.copy = c]
  BY DEF CheckRecord
<1> HIDE DEF c
<1>5. checker' \in [pc: {"idle", "read", "proof", "proved"}, tx: Txs \cup {None}, copy: Req]
  BY <1>3, <1>4 DEF IInv, TypeOK
<1>6. TypeOK'
  BY <1>2, <1>5 DEF IInv, TypeOK, CheckRecord
<1>7. ProofConsistent'
  BY <1>2 DEF ProofConsistent, CheckRecord
<1>8. ProvenNeverFailed'
  BY <1>2 DEF ProvenNeverFailed
<1>9. CopiesHonest'
  BY <1>1, <1>2, <1>4 DEF IInv, TypeOK, CopiesHonest, Honest, CheckRecord
<1>10. QED
  BY <1>6, <1>7, <1>8, <1>9 DEF IInv

\* The checker writes a copy whose claim was made true before.
LEMMA CheckFinishStep ==
  ASSUME IInv, CheckFinish
  PROVE  IInv'
<1>1. checker.tx \in Txs /\ checker.copy \in Req /\ Honest(checker.tx, checker.copy)
  BY DEF IInv, TypeOK, CopiesHonest, CheckFinish, Honest
<1>2. checker.copy \in Req /\ Honest(checker.tx, checker.copy)
  BY <1>1, <1>1
<1>3. req' \in [Txs -> Req] /\ \A u \in Txs : Honest(u, req'[u])
  BY <1>1, <1>2, WriteDynamicsHonest DEF CheckFinish, CheckWrites
<1>4. NoReq \in Req
  BY IdleTypes
<1>5. TypeOK'
  BY <1>1, <1>2, <1>3, <1>4 DEF IInv, TypeOK, CheckFinish, CheckWrites, IdleTask, Honest
<1>6. ProofConsistent'
  BY <1>1, <1>2, <1>3, <1>4 DEF IInv, TypeOK, ProofConsistent, CheckFinish, CheckWrites,
     IdleTask, Honest
<1>7. ProvenNeverFailed'
  BY <1>1, <1>2, <1>3, <1>4 DEF IInv, TypeOK, ProvenNeverFailed, CheckFinish,
     CheckWrites, IdleTask, Honest
<1>8. CopiesHonest'
  BY <1>1, <1>2, <1>3, <1>4 DEF IInv, TypeOK, CopiesHonest, CheckFinish, CheckWrites,
     IdleTask, Honest
<1>9. QED
  BY <1>5, <1>6, <1>7, <1>8 DEF IInv

\* TaskArcadeSSE copies a row; MINED was true when it was sent.
LEMMA SseReadStep ==
  ASSUME IInv, NEW t \in Txs, NEW kind \in SseKinds, SseRead(t, kind)
  PROVE  IInv'
<1>1. req[t] \in Req
  BY DEF IInv, TypeOK
<1>2. TypeOK'
  BY <1>1 DEF IInv, TypeOK, SseRead, SseSent, SseKinds, Honest, storage, ProofConsistent
<1>3. ProofConsistent'
  BY <1>1 DEF IInv, TypeOK, ProofConsistent, SseRead, SseSent, SseKinds, Honest,
     storage, ProofConsistent
<1>4. ProvenNeverFailed'
  BY <1>1 DEF IInv, TypeOK, ProvenNeverFailed, SseRead, SseSent, SseKinds, Honest,
     storage, ProofConsistent
<1>5. CopiesHonest'
  BY <1>1 DEF IInv, TypeOK, CopiesHonest, SseRead, SseSent, SseKinds, Honest, storage,
     ProofConsistent
<1>6. QED
  BY <1>2, <1>3, <1>4, <1>5 DEF IInv

\* The status of the event is written over an honest copy.
LEMMA SseWriteStep ==
  ASSUME IInv, SseWrite
  PROVE  IInv'
<1>1. sse.tx \in Txs /\ sse.copy \in Req /\ Honest(sse.tx, sse.copy)
  BY DEF IInv, TypeOK, CopiesHonest, SseWrite, Honest
<1>2. PICK s \in ReqStatus : /\ s = "completed" => sse.copy.status = "completed"
                             /\ WriteDynamics(sse.tx, SetStatus(sse.copy, s))
  BY <1>1 DEF SseWrite, ReqStatus, Req
<1>3. SetStatus(sse.copy, s) \in Req /\ Honest(sse.tx, SetStatus(sse.copy, s))
  BY <1>1, <1>2, SetStatusType DEF Honest
<1>4. req' \in [Txs -> Req] /\ \A u \in Txs : Honest(u, req'[u])
  BY <1>1, <1>2, <1>3, WriteDynamicsHonest
<1>a. /\ sse' \in [pc: {"idle", "read", "txs"}, tx: Txs \cup {None}, copy: Req, kind: SseKinds]
      /\ sse'.tx = sse.tx /\ sse'.kind = sse.kind /\ sse'.copy = NoReq
  BY IdleTypes DEF IInv, TypeOK, SseWrite
<1>b. Honest(sse.tx, NoReq)
  BY <1>1 DEF Honest, NoReq
<1>5. TypeOK'
  BY <1>4, <1>a DEF IInv, TypeOK, SseWrite
<1>6. ProofConsistent'
  BY <1>4 DEF IInv, ProofConsistent, SseWrite, Honest
<1>7. ProvenNeverFailed'
  BY DEF IInv, ProvenNeverFailed, SseWrite
<1>8. CopiesHonest'
  BY <1>a, <1>b DEF IInv, TypeOK, CopiesHonest, SseWrite, Honest
<1>9. QED
  BY <1>5, <1>6, <1>7, <1>8 DEF IInv

\* The transaction follows the event, or the proof of a mined one is recorded.
LEMMA SseTransactionsStep ==
  ASSUME IInv, SseTransactions
  PROVE  IInv'
<1>1. sse.tx \in Txs /\ (sse.kind = "MINED" => net[sse.tx] = "mined")
  BY DEF IInv, TypeOK, CopiesHonest, SseTransactions, Honest
<1>2. /\ sse' \in [pc: {"idle", "read", "txs"}, tx: Txs \cup {None}, copy: Req, kind: SseKinds]
      /\ sse'.pc = "idle"
  BY IdleTypes DEF SseTransactions, IdleSse, SseKinds
<1>3. CASE sse.kind = "MINED"
  <2>1. RecordProof(sse.tx) /\ UNCHANGED <<spendable, spentBy>>
    BY <1>3 DEF SseTransactions
  <2>2. /\ req' \in [Txs -> Req]
        /\ provenTxs' \in SUBSET Txs
        /\ provenTxs \subseteq provenTxs'
        /\ tx' \in [Txs -> TxStatus]
        /\ txProven' \in [Txs -> BOOLEAN]
        /\ \A u \in Txs :
             /\ \/ txProven'[u] \/ tx'[u] = "completed"
                \/ req'[u].proven \/ req'[u].status = "completed"
                => u \in provenTxs'
             /\ u \in provenTxs' => net[u] = "mined"
             /\ txProven'[u] => tx'[u] # "failed"
    BY <1>1, <1>3, <2>1, RecordProofSafe
  <2>3. TypeOK'
    BY <1>2, <2>1, <2>2 DEF IInv, TypeOK, SseTransactions
  <2>4. ProofConsistent' /\ ProvenNeverFailed'
    BY <2>2 DEF ProofConsistent, ProvenNeverFailed, SseTransactions
  <2>5. CopiesHonest'
    BY <1>2, <2>2 DEF IInv, TypeOK, CopiesHonest, Honest, SseTransactions
  <2>6. QED
    BY <2>3, <2>4, <2>5 DEF IInv
<1>4. CASE sse.kind # "MINED"
  <2>1. PICK s \in {"sending", "unproven", "failed"} : UpdateTransactionStatus(sse.tx, s)
    BY <1>4 DEF SseTransactions
  <2>2. TxsFollow
    BY <1>1, <2>1, UpdateTransactionStatusSafe
  <2>3. UNCHANGED <<req, provenTxs, txProven>>
    BY <1>4 DEF SseTransactions
  <2>4. TypeOK'
    BY <1>2, <2>2, <2>3 DEF IInv, TypeOK, TxsFollow, SseTransactions
  <2>5. ProofConsistent' /\ ProvenNeverFailed'
    BY <2>2, <2>3 DEF IInv, ProofConsistent, ProvenNeverFailed, TxsFollow, SseTransactions
  <2>6. CopiesHonest'
    BY <1>2, <2>3 DEF IInv, TypeOK, CopiesHonest, Honest, SseTransactions
  <2>7. QED
    BY <2>4, <2>5, <2>6 DEF IInv
<1>5. QED
  BY <1>3, <1>4

\* TaskReviewDoubleSpends takes up a double spend.
LEMMA ReviewReadStep ==
  ASSUME IInv, NEW t \in Txs, ReviewRead(t)
  PROVE  IInv'
<1>1. TypeOK'
  BY DEF IInv, TypeOK, ReviewRead, Honest, storage
<1>2. ProofConsistent'
  BY DEF IInv, TypeOK, ProofConsistent, ReviewRead, Honest, storage
<1>3. ProvenNeverFailed'
  BY DEF IInv, TypeOK, ProvenNeverFailed, ReviewRead, Honest, storage
<1>4. CopiesHonest'
  BY DEF IInv, TypeOK, CopiesHonest, ReviewRead, Honest, storage
<1>5. QED
  BY <1>1, <1>2, <1>3, <1>4 DEF IInv

\* 'unfail' claims no proof.
LEMMA ReviewApplyStep ==
  ASSUME IInv, NEW unknown \in BOOLEAN, ReviewApply(unknown)
  PROVE  IInv'
<1>1. reviewer \in Txs /\ req[reviewer] \in Req
  BY DEF IInv, TypeOK, ReviewApply
<1>2. LET r == [req[reviewer] EXCEPT !.status = "unfail"]
      IN  r \in Req /\ r.proven = req[reviewer].proven /\ r.status = "unfail"
  BY <1>1, ReqFields DEF ReqStatus
<1>3. req' \in [Txs -> Req] /\ \A u \in Txs : Honest(u, req'[u])
  BY <1>1, <1>2 DEF IInv, TypeOK, ProofConsistent, Honest, ReviewApply
<1>4. TypeOK'
  BY <1>3 DEF IInv, TypeOK, ReviewApply
<1>5. ProofConsistent'
  BY <1>3 DEF IInv, ProofConsistent, Honest, ReviewApply
<1>6. ProvenNeverFailed'
  BY DEF IInv, ProvenNeverFailed, ReviewApply
<1>7. CopiesHonest'
  BY DEF IInv, CopiesHonest, Honest, ReviewApply
<1>8. QED
  BY <1>4, <1>5, <1>6, <1>7 DEF IInv

\* TaskUnFail copies a row.
LEMMA UnFailReadStep ==
  ASSUME IInv, NEW t \in Txs, UnFailRead(t)
  PROVE  IInv'
<1>1. req[t] \in Req
  BY DEF IInv, TypeOK
<1>2. TypeOK'
  BY <1>1 DEF IInv, TypeOK, UnFailRead, Honest, storage, ProofConsistent
<1>3. ProofConsistent'
  BY <1>1 DEF IInv, TypeOK, ProofConsistent, UnFailRead, Honest, storage,
     ProofConsistent
<1>4. ProvenNeverFailed'
  BY <1>1 DEF IInv, TypeOK, ProvenNeverFailed, UnFailRead, Honest, storage,
     ProofConsistent
<1>5. CopiesHonest'
  BY <1>1 DEF IInv, TypeOK, CopiesHonest, UnFailRead, Honest, storage, ProofConsistent
<1>6. QED
  BY <1>2, <1>3, <1>4, <1>5 DEF IInv

\* TaskUnFail takes a mined transaction back: it is then not failed.
LEMMA UnFailReqStep ==
  ASSUME IInv, UnFailReq
  PROVE  IInv'
<1> DEFINE t == unfailer.tx
           s == SetStatus(unfailer.copy, "unmined")
           c == [s EXCEPT !.attempts = 0]
<1>1. t \in Txs /\ unfailer.copy \in Req /\ Honest(t, unfailer.copy)
  BY DEF IInv, TypeOK, CopiesHonest, UnFailReq, Honest
<1>2. s \in Req /\ s.proven = unfailer.copy.proven /\ s.status = "unmined"
  BY <1>1, SetStatusType DEF ReqStatus
<1>3. c \in Req /\ c.proven = s.proven /\ c.status = s.status
  <2>1. 0 \in 0..(AttemptsLimit + 1)
    BY ConstantsAssumption
  <2> HIDE DEF s
  <2>2. QED
    BY <1>2, <2>1, ReqFields
<1>4. Honest(t, c)
  BY <1>1, <1>2, <1>3 DEF Honest
<1>5. unfailer' = [unfailer EXCEPT !.pc = "write", !.copy = c]
  BY DEF UnFailReq
<1> HIDE DEF c
<1>6. TypeOK'
  <2>1. unfailer' \in [pc: {"idle", "read", "write"}, tx: Txs \cup {None}, copy: Req]
    BY <1>3, <1>5 DEF IInv, TypeOK
  <2>2. tx' \in [Txs -> TxStatus] /\ spendable' \in [Outs -> BOOLEAN]
        /\ spentBy' \in [Outs -> Txs \cup {None}]
    BY <1>1 DEF IInv, TypeOK, UnFailReq, TxStatus
  <2>3. QED
    BY <2>1, <2>2 DEF IInv, TypeOK, UnFailReq
<1>7. ProofConsistent'
  BY DEF IInv, TypeOK, ProofConsistent, UnFailReq
<1>8. ProvenNeverFailed'
  BY DEF IInv, TypeOK, ProvenNeverFailed, UnFailReq
<1>9. CopiesHonest'
  BY <1>4, <1>5 DEF IInv, TypeOK, CopiesHonest, Honest, UnFailReq
<1>10. QED
  BY <1>6, <1>7, <1>8, <1>9 DEF IInv

\* TaskUnFail writes a copy that claims no more than it did.
LEMMA UnFailWriteStep ==
  ASSUME IInv, UnFailWrite
  PROVE  IInv'
<1> DEFINE t == unfailer.tx
<1>1. t \in Txs /\ unfailer.copy \in Req /\ Honest(t, unfailer.copy)
  BY DEF IInv, TypeOK, CopiesHonest, UnFailWrite, Honest
<1>2. LET s == SetStatus(unfailer.copy, "invalid") IN s \in Req /\ Honest(t, s)
  BY <1>1, SetStatusType DEF ReqStatus, Honest
<1>3. req' \in [Txs -> Req] /\ \A u \in Txs : Honest(u, req'[u])
  BY <1>1, <1>2, WriteDynamicsHonest DEF UnFailWrite
<1>4. TypeOK'
  BY <1>3, IdleTypes DEF IInv, TypeOK, UnFailWrite, IdleTask
<1>5. ProofConsistent'
  BY <1>3 DEF IInv, ProofConsistent, Honest, UnFailWrite
<1>6. ProvenNeverFailed'
  BY DEF IInv, ProvenNeverFailed, UnFailWrite
<1>7. CopiesHonest'
  BY DEF IInv, CopiesHonest, Honest, UnFailWrite, IdleTask
<1>8. QED
  BY <1>4, <1>5, <1>6, <1>7 DEF IInv

\* A step that only moves transactions the way TxsFollow allows.
LEMMA FollowStep ==
  ASSUME IInv, TxsFollow,
         UNCHANGED <<txProven, req, provenTxs, inputs, net, foreign, tasks, crashes>>
  PROVE  IInv'
<1>1. TypeOK'
  BY DEF IInv, TypeOK, TxsFollow, tasks
<1>2. ProofConsistent' /\ ProvenNeverFailed'
  BY DEF IInv, ProofConsistent, ProvenNeverFailed, TxsFollow
<1>3. CopiesHonest'
  BY DEF IInv, CopiesHonest, Honest, tasks
<1>4. QED
  BY <1>1, <1>2, <1>3 DEF IInv

\* TaskFailAbandoned fails only transactions without a proof.
LEMMA FailAbandonedStep ==
  ASSUME IInv, NEW t \in Txs, FailAbandoned(t)
  PROVE  IInv'
<1>1. {t} \in SUBSET Txs /\ (\A u \in {t} : ~txProven[u]) /\ FailTransactions({t})
  BY DEF FailAbandoned, MayChangeStatus
<1>2. TxsFollow
  BY <1>1, FailTransactionsSafe
<1>3. QED
  BY <1>2, FollowStep DEF FailAbandoned

\* reviewStatus stopped by an exception has failed only transactions without a proof.
LEMMA ReviewStatusThrowsStep ==
  ASSUME IInv, ReviewStatusThrows
  PROVE  IInv'
<1>1. PICK T \in SUBSET {t \in ToFail : MayChangeStatus(t, "failed")} : FailTransactions(T)
  BY DEF ReviewStatusThrows
<1>2. T \in SUBSET Txs /\ \A u \in T : ~txProven[u]
  BY <1>1 DEF ToFail, MayChangeStatus
<1>3. TxsFollow
  BY <1>1, <1>2, FailTransactionsSafe
<1>4. QED
  BY <1>3, FollowStep DEF ReviewStatusThrows

\* reviewStatus completes transactions that have a proof and fails those that have none.
LEMMA ReviewStatusStep ==
  ASSUME IInv, ReviewStatus
  PROVE  IInv'
<1>1. /\ tx' \in [Txs -> TxStatus]
      /\ txProven' \in [Txs -> BOOLEAN]
      /\ spendable' \in [Outs -> BOOLEAN]
      /\ spentBy' \in [Outs -> Txs \cup {None}]
  BY DEF IInv, TypeOK, ReviewStatus, Unlinked, TxStatus
<1>2. \A t \in Txs : txProven'[t] \/ tx'[t] = "completed" => t \in provenTxs
  BY DEF IInv, TypeOK, ProofConsistent, ReviewStatus, Unlinked
<1>3. \A t \in Txs : txProven'[t] => tx'[t] # "failed"
  <2> SUFFICES ASSUME NEW t \in Txs, txProven'[t] PROVE tx'[t] # "failed"
    OBVIOUS
  <2>1. (t \in provenTxs /\ ~txProven[t]) \/ txProven[t]
    BY DEF IInv, TypeOK, ReviewStatus, Unlinked
  <2>2. CASE t \in provenTxs /\ ~txProven[t]
    BY <2>2 DEF ReviewStatus, Unlinked
  <2>3. CASE txProven[t]
    <3>1. t \notin ToFail
      BY <2>3 DEF ReviewStatus, MayChangeStatus
    <3>2. tx[t] # "failed"
      BY <2>3 DEF IInv, ProvenNeverFailed
    <3>3. QED
      BY <2>3, <3>1, <3>2 DEF ReviewStatus, Unlinked
  <2>4. QED
    BY <2>1, <2>2, <2>3
<1>4. UNCHANGED <<req, provenTxs, inputs, net, foreign, tasks, crashes>>
  BY DEF ReviewStatus
<1>5. TypeOK'
  BY <1>1, <1>4 DEF IInv, TypeOK, tasks
<1>6. ProofConsistent'
  BY <1>2, <1>4 DEF IInv, ProofConsistent
<1>7. ProvenNeverFailed'
  BY <1>3 DEF ProvenNeverFailed
<1>8. CopiesHonest'
  BY <1>4 DEF IInv, CopiesHonest, Honest, tasks
<1>9. QED
  BY <1>5, <1>6, <1>7, <1>8 DEF IInv

\* A restart between sections forgets every copy.
LEMMA CrashStep ==
  ASSUME IInv, Crash
  PROVE  IInv'
<1>1. TypeOK'
  BY RestartSafe DEF IInv, TypeOK, Crash, storage
<1>2. ProofConsistent' /\ ProvenNeverFailed'
  BY DEF IInv, ProofConsistent, ProvenNeverFailed, Crash, storage
<1>3. CopiesHonest'
  BY RestartSafe DEF CopiesHonest, Crash
<1>4. QED
  BY <1>1, <1>2, <1>3 DEF IInv

-----------------------------------------------------------------------------
(* The invariant holds.                                                    *)

\* The empty wallet satisfies the invariant.
LEMMA InitIInv == Init => IInv
<1> SUFFICES ASSUME Init PROVE IInv
  OBVIOUS
<1>1. TypeOK
  BY IdleTypes, ConstantsAssumption DEF Init, TypeOK, TxStatus, NetStatus, IdlePoster,
     IdleTask, IdleSse, AggregateStatus, SseKinds
<1>2. ProofConsistent /\ ProvenNeverFailed
  BY IdleTypes DEF Init, ProofConsistent, ProvenNeverFailed
<1>3. CopiesHonest
  BY DEF Init, CopiesHonest, IdlePoster, IdleTask, IdleSse
<1>4. QED
  BY <1>1, <1>2, <1>3 DEF IInv

\* A proof whose transactions were not told of it claims nothing more of them.
LEMMA ProofCrashStep ==
  ASSUME IInv, NEW t \in Txs, ProofCrash(t)
  PROVE  IInv'
<1> DEFINE r == [SetStatus(req[t], "completed") EXCEPT !.proven = TRUE]
<1>1. net[t] = "mined"
  BY DEF IInv, CopiesHonest, ProofCrash
<1>2. r \in Req
  <2>1. SetStatus(req[t], "completed") \in Req
    BY SetStatusType DEF IInv, TypeOK, ReqStatus
  <2>2. QED
    BY <2>1, ReqFields
<1>3. /\ provenTxs' = provenTxs \cup {t}
      /\ req' = [req EXCEPT ![t] = r]
      /\ UNCHANGED <<tx, txProven, inputs, spendable, spentBy, net, foreign>>
      /\ Restart
  BY DEF ProofCrash, InsertProof
<1> HIDE DEF r
<1>4. TypeOK'
  BY <1>2, <1>3, RestartSafe DEF IInv, TypeOK
<1>5. ProofConsistent'
  BY <1>1, <1>2, <1>3 DEF IInv, TypeOK, ProofConsistent
<1>6. ProvenNeverFailed'
  BY <1>3 DEF IInv, ProvenNeverFailed
<1>7. CopiesHonest'
  BY <1>3, RestartSafe DEF CopiesHonest
<1>8. QED
  BY <1>4, <1>5, <1>6, <1>7 DEF IInv

\* Every step, of the wallet, of a task or of the network, preserves it.
LEMMA NextIInv == IInv /\ [Next]_vars => IInv'
<1> SUFFICES ASSUME IInv, [Next]_vars PROVE IInv'
  OBVIOUS
<1>1. CASE Network
  BY <1>1, NetMineStep, NetRelayStep, ForeignSpendStep DEF Network
<1>2. CASE WalletCalls
  BY <1>2, CreateActionStep, ProcessActionNoSendStep, ProcessActionDelayedStep,
     ProcessActionNowStep, SendWithDelayedStep, SendWithNowStep, AbortActionStep
     DEF WalletCalls
<1>3. CASE SendWaiting
  BY <1>3, SendWaitingReadStep, SendWaitingStartStep DEF SendWaiting
<1>4. CASE Post
  BY <1>4, PostBeefStep, PostRefusedStep, PostApplyStep DEF Post
<1>5. CASE CheckForProofs
  BY <1>5, CheckReadStep, CheckLinkedStep, CheckTimeoutStep, CheckGiveUpStep, CheckNoProofStep,
     CheckTooNewStep, CheckProofStep, CheckRecordStep, CheckFinishStep DEF CheckForProofs
<1>6. CASE ArcadeSSE
  BY <1>6, SseReadStep, SseWriteStep, SseTransactionsStep DEF ArcadeSSE
<1>7. CASE ReviewDoubleSpends
  BY <1>7, ReviewReadStep, ReviewApplyStep DEF ReviewDoubleSpends
<1>8. CASE UnFail
  BY <1>8, UnFailReadStep, UnFailReqStep, UnFailWriteStep DEF UnFail
<1>9. CASE ReviewState
  BY <1>9, ReviewStatusStep, ReviewStatusThrowsStep DEF ReviewState
<1>10. CASE Abandon
  BY <1>10, FailAbandonedStep DEF Abandon
<1>11. CASE Crash
  BY <1>11, CrashStep
<1>12. CASE \E t \in Txs : ProofCrash(t)
  BY <1>12, ProofCrashStep
<1>13. CASE UNCHANGED vars
  BY <1>13 DEF vars, storage, tasks, IInv, TypeOK, ProofConsistent, ProvenNeverFailed,
     CopiesHonest, Honest
<1>14. QED
  BY <1>1, <1>2, <1>3, <1>4, <1>5, <1>6, <1>7, <1>8, <1>9, <1>10, <1>11, <1>12, <1>13 DEF Next

\* The inductive invariant holds in every reachable state.
THEOREM Invariance == Spec => []IInv
<1>1. QED
  BY InitIInv, NextIInv, PTL DEF Spec

\* Type correctness: in particular no schedule of stale copies takes
\* rebroadcastAttempts past its limit (EntityProvenTxReq.applyProofTimeout).
THEOREM TypeCorrect == Spec => []TypeOK
<1>1. IInv => TypeOK
  BY DEF IInv
<1>2. QED
  BY <1>1, Invariance, PTL

\* 'completed' and provenTxId never appear without a proven_txs row of a mined
\* transaction, whatever copies the monitor tasks write back.
THEOREM ProofConsistency == Spec => []ProofConsistent
<1>1. IInv => ProofConsistent
  BY DEF IInv
<1>2. QED
  BY <1>1, Invariance, PTL

\* No transaction that is linked to its proof is ever failed.
THEOREM ProvenSafe == Spec => []ProvenNeverFailed
<1>1. IInv => ProvenNeverFailed
  BY DEF IInv
<1>2. QED
  BY <1>1, Invariance, PTL

\* A copy of a req that a task carries between two sections of code never claims
\* a proof that storage has not recorded.
THEOREM CopiesStayHonest == Spec => []CopiesHonest
<1>1. IInv => CopiesHonest
  BY DEF IInv
<1>2. QED
  BY <1>1, Invariance, PTL

-----------------------------------------------------------------------------
(* The inputs of live transactions.                                        *)

\* A live transaction holds its input, or the chain gave the output to another.
Holds(t, o) == (~spendable[o] /\ spentBy[o] = t) \/ TakenByOther(t, o)

\* The inductive invariant: LiveInputsHeld alone does not say whose spentBy it is
\* that an output, given back when its transaction fails, is found by.
HeldInv ==
  \A t \in Txs :
    /\ tx[t] = "none" => inputs[t] = {}
    /\ tx[t] \in LiveTx => \A o \in inputs[t] : Holds(t, o)

\* What every step but createAction and unfailReq does to rows and network: none
\* becomes live again, and what a transaction that stays live holds is not touched.
KeepsHolds ==
  /\ inputs' = inputs
  /\ \A t \in Txs : net[t] = "mined" => net'[t] = "mined"
  /\ \A t \in Txs : /\ tx'[t] = "none" => tx[t] = "none"
                    /\ tx'[t] \in LiveTx => tx[t] \in LiveTx \cup {"none"}
  /\ \A t \in Txs, o \in Outs :
       tx'[t] \in LiveTx /\ ~spendable[o] /\ spentBy[o] = t => ~spendable'[o] /\ spentBy'[o] = t

LEMMA KeepsHoldsStep ==
  ASSUME TypeOK, HeldInv, KeepsHolds
  PROVE  HeldInv'
<1>1. \A t \in Txs, o \in Outs : TakenByOther(t, o) => TakenByOther(t, o)'
  BY DEF KeepsHolds, TakenByOther
<1>2. ASSUME NEW t \in Txs, tx'[t] = "none"
      PROVE  inputs'[t] = {}
  BY <1>2 DEF HeldInv, KeepsHolds
<1>3. ASSUME NEW t \in Txs, tx'[t] \in LiveTx, NEW o \in inputs'[t]
      PROVE  Holds(t, o)'
  <2>1. o \in inputs[t] /\ o \in Outs
    BY DEF KeepsHolds, TypeOK
  <2>2. tx[t] \in LiveTx
    BY <1>3, <2>1 DEF HeldInv, KeepsHolds
  <2>3. Holds(t, o)
    BY <2>1, <2>2 DEF HeldInv
  <2>4. QED
    BY <1>1, <1>3, <2>1, <2>3 DEF Holds, KeepsHolds
<1>4. QED
  BY <1>2, <1>3 DEF HeldInv

\* Steps that touch neither transactions nor outputs nor the network.
LEMMA IdleKeepsHolds ==
  ASSUME UNCHANGED <<tx, inputs, spendable, spentBy, net>>
  PROVE  KeepsHolds
  BY DEF KeepsHolds

\* A failure gives back what is found by spentBy, so nothing that another holds.
LEMMA FailKeepsHolds ==
  ASSUME TypeOK, NEW T \in SUBSET Txs, FailTransactions(T), UNCHANGED <<inputs, net>>
  PROVE  KeepsHolds
  BY DEF TypeOK, FailTransactions, AllocatedTo, KeepsHolds, LiveTx

\* So does updateTransactionStatus: its guards let no failed transaction back.
LEMMA UpdateKeepsHolds ==
  ASSUME TypeOK, NEW t \in Txs, NEW s \in {"sending", "unproven", "failed"},
         UpdateTransactionStatus(t, s), UNCHANGED <<inputs, net>>
  PROVE  KeepsHolds
<1>1. CASE ~MayChangeStatus(t, s)
  BY <1>1, IdleKeepsHolds DEF UpdateTransactionStatus
<1>2. CASE MayChangeStatus(t, s) /\ s = "failed"
  BY <1>2, FailKeepsHolds, {t} \in SUBSET Txs DEF UpdateTransactionStatus
<1>3. CASE MayChangeStatus(t, s) /\ s # "failed"
  <2>1. tx' = [tx EXCEPT ![t] = s] /\ UNCHANGED <<spendable, spentBy>>
    BY <1>3 DEF UpdateTransactionStatus
  <2>2. tx[t] \in LiveTx \cup {"none"}
    BY <1>3 DEF TypeOK, TxStatus, LiveTx, MayChangeStatus
  <2>3. QED
    BY <1>3, <2>1, <2>2 DEF TypeOK, KeepsHolds
<1>4. QED
  BY <1>1, <1>2, <1>3

\* A rejection marks only inputs of the transaction it fails.
LEMMA StaleKeepsHolds ==
  ASSUME TypeOK, NEW t \in Txs, NEW S, FailAndMarkStale(t, S), UNCHANGED <<inputs, net>>
  PROVE  KeepsHolds
  BY DEF TypeOK, FailAndMarkStale, AllocatedTo, KeepsHolds, LiveTx

\* Recording a proof completes a transaction and touches no output.
LEMMA RecordKeepsHolds ==
  ASSUME TypeOK, NEW t \in Txs, RecordProof(t), UNCHANGED <<inputs, spendable, spentBy, net>>
  PROVE  KeepsHolds
  BY DEF TypeOK, RecordProof, KeepsHolds, LiveTx

\* What miners, other holders and postBeef do to the network keeps what is mined.
LEMMA NetworkKeepsHolds ==
  ASSUME TypeOK, Network \/ \E p \in Posters, agg \in AggregateStatus : PostBeef(p, agg)
  PROVE  KeepsHolds
<1>1. UNCHANGED <<tx, inputs, spendable, spentBy>>
  BY DEF Network, NetMine, NetRelay, ForeignSpend, PostBeef, storage
<1>2. \A t \in Txs : net[t] = "mined" => net'[t] = "mined"
  <2>1. CASE \E t \in Txs : NetMine(t)
    BY <2>1 DEF NetMine, TypeOK
  <2>2. CASE \E t \in Txs : NetRelay(t)
    BY <2>2 DEF NetRelay, Known, TypeOK
  <2>3. CASE \E o \in Outs : ForeignSpend(o)
    BY <2>3 DEF ForeignSpend, TypeOK
  <2>4. CASE \E p \in Posters, agg \in AggregateStatus : PostBeef(p, agg)
    BY <2>4 DEF PostBeef, Known, TypeOK
  <2>5. QED
    BY <2>1, <2>2, <2>3, <2>4 DEF Network
<1>3. QED
  BY <1>1, <1>2 DEF KeepsHolds

\* createAction takes outputs that are spendable: whoever held one of them has
\* lost it to the chain, and the new transaction holds them all.
LEMMA CreateActionHeld ==
  ASSUME TypeOK, HeldInv, NEW t \in Txs, NEW I \in SUBSET Outs, CreateAction(t, I)
  PROVE  HeldInv'
<1>1. /\ tx[t] = "none" /\ inputs[t] = {}
      /\ tx' = [tx EXCEPT ![t] = "unsigned"]
      /\ inputs' = [inputs EXCEPT ![t] = I]
      /\ \A o \in I : spendable[o] /\ ~spendable'[o] /\ spentBy'[o] = t
      /\ \A o \in Outs \ I : spendable'[o] = spendable[o] /\ spentBy'[o] = spentBy[o]
      /\ net' = net
  BY DEF HeldInv, CreateAction, TypeOK
<1>2. ASSUME NEW u \in Txs \ {t}, NEW o \in Outs, TakenByOther(u, o)
      PROVE  TakenByOther(u, o)'
  <2>1. PICK w \in Txs \ {u} : net[w] = "mined" /\ o \in inputs[w]
    BY <1>2 DEF TakenByOther
  <2>2. w # t
    BY <1>1, <2>1
  <2>3. QED
    BY <1>1, <2>1, <2>2 DEF TakenByOther, TypeOK
<1>3. \A o \in inputs'[t] : Holds(t, o)'
  BY <1>1 DEF Holds, TypeOK
<1>4. ASSUME NEW u \in Txs \ {t}, tx'[u] \in LiveTx, NEW o \in inputs'[u]
      PROVE  Holds(u, o)'
  <2>1. tx[u] \in LiveTx /\ o \in inputs[u] /\ o \in Outs
    BY <1>1, <1>4 DEF TypeOK
  <2>2. Holds(u, o)
    BY <2>1 DEF HeldInv
  <2>3. CASE o \in I
    BY <1>1, <1>2, <2>1, <2>2, <2>3 DEF Holds
  <2>4. CASE o \notin I
    BY <1>1, <1>2, <2>1, <2>2, <2>4 DEF Holds
  <2>5. QED
    BY <2>3, <2>4
<1>5. \A u \in Txs : tx'[u] = "none" => inputs'[u] = {}
  BY <1>1 DEF HeldInv, TypeOK
<1>6. QED
  BY <1>1, <1>3, <1>4, <1>5 DEF HeldInv

\* unfailReq takes the inputs of a mined transaction back from whoever holds them
\* now; for that transaction the chain has decided.
LEMMA UnFailReqHeld ==
  ASSUME IInv, HeldInv, UnFailReq
  PROVE  HeldInv'
<1>1. PICK t \in Txs :
      /\ net[t] = "mined"
      /\ tx' = [tx EXCEPT ![t] = "unproven"]
      /\ \A o \in inputs[t] : ~spendable'[o] /\ spentBy'[o] = t
      /\ \A o \in Outs \ inputs[t] : spendable'[o] = spendable[o] /\ spentBy'[o] = spentBy[o]
      /\ UNCHANGED <<inputs, net>>
  BY DEF IInv, TypeOK, CopiesHonest, Honest, UnFailReq
<1>2. \A o \in inputs'[t] : Holds(t, o)'
  BY <1>1 DEF Holds
<1>3. ASSUME NEW u \in Txs \ {t}, tx'[u] \in LiveTx, NEW o \in inputs'[u]
      PROVE  Holds(u, o)'
  <2>1. tx[u] \in LiveTx /\ o \in inputs[u] /\ o \in Outs
    BY <1>1, <1>3 DEF IInv, TypeOK
  <2>2. CASE o \in inputs[t]
    BY <1>1, <2>2 DEF Holds, TakenByOther
  <2>3. CASE o \notin inputs[t]
    BY <1>1, <2>1, <2>3 DEF HeldInv, Holds, TakenByOther
  <2>4. QED
    BY <2>2, <2>3
<1>4. \A u \in Txs : tx'[u] = "none" => inputs'[u] = {}
  BY <1>1 DEF HeldInv, IInv, TypeOK
<1>5. QED
  BY <1>1, <1>2, <1>3, <1>4 DEF HeldInv

\* reviewStatus fails what is invalid, completes what has a proof, and gives back
\* only outputs of transactions that stay failed.
LEMMA ReviewStatusKeepsHolds ==
  ASSUME TypeOK, ReviewStatus
  PROVE  KeepsHolds
<1> DEFINE failed == {t \in Txs : tx[t] = "failed"} \cup ToFail
           released == {t \in failed : req[t].status \in {"invalid", "doubleSpend"}}
<1>1. /\ \A t \in Txs : tx'[t] = IF t \in Unlinked THEN "completed"
                                 ELSE IF t \in failed THEN "failed" ELSE tx[t]
      /\ \A o \in Outs :
           spentBy[o] \notin ToFail \cup released => spendable'[o] = spendable[o] /\ spentBy'[o] = spentBy[o]
      /\ UNCHANGED <<inputs, net>>
  BY DEF ReviewStatus, AllocatedTo, TypeOK
<1>2. ToFail \cup released \subseteq failed
  OBVIOUS
<1> HIDE DEF failed, released
<1>3. QED
  BY <1>1, <1>2 DEF KeepsHolds, LiveTx

\* Every step preserves it, when the application does not use sendWith: that
\* call sends a transaction without looking at its status.
LEMMA NextHeldInv ==
  ASSUME ~UseSendWith, IInv, HeldInv, [Next]_vars
  PROVE  HeldInv'
<1> USE DEF IInv
<1> SUFFICES ASSUME ~KeepsHolds PROVE HeldInv'
  BY KeepsHoldsStep
<1>1. CASE Network
  BY <1>1, NetworkKeepsHolds
<1>2. CASE WalletCalls
  <2>1. ASSUME NEW t \in Txs, NEW I \in SUBSET Outs, CreateAction(t, I)
        PROVE  HeldInv'
    BY <2>1, CreateActionHeld
  <2>2. ASSUME NEW t \in Txs,
               \/ ProcessActionNoSend(t) \/ ProcessActionNow(t)
               \/ \E shared \in BOOLEAN : ProcessActionDelayed(t, shared)
        PROVE  KeepsHolds
    <3>1. PICK s \in {"nosend", "unprocessed", "sending"} :
            tx' = [tx EXCEPT ![t] = s] /\ tx[t] \in LiveTx /\ UNCHANGED <<inputs, spendable, spentBy, net>>
      BY <2>2 DEF ProcessActionNoSend, ProcessActionNow, ProcessActionDelayed, MayCommit, LiveTx
    <3>2. QED
      BY <3>1 DEF TypeOK, KeepsHolds
  <2>3. ASSUME NEW t \in Txs, AbortAction(t)
        PROVE  KeepsHolds
    BY <2>3, FailKeepsHolds, {t} \in SUBSET Txs DEF AbortAction
  <2>4. ASSUME NEW t \in Txs, SendWithDelayed(t) \/ SendWithNow(t)
        PROVE  FALSE
    BY <2>4 DEF SendWithDelayed, SendWithNow
  <2>5. QED
    BY <1>2, <2>1, <2>2, <2>3, <2>4 DEF WalletCalls
<1>3. CASE SendWaiting
  BY <1>3, IdleKeepsHolds DEF SendWaiting, SendWaitingRead, SendWaitingStart, storage
<1>4. CASE Post
  <2>1. ASSUME NEW p \in Posters, NEW agg \in AggregateStatus, PostBeef(p, agg)
        PROVE  KeepsHolds
    BY <2>1, NetworkKeepsHolds
  <2>2. ASSUME NEW p \in Posters, NEW done \in BOOLEAN, NEW known \in BOOLEAN,
               PostApply(p, done, known)
        PROVE  KeepsHolds
    <3>1. poster[p].tx \in Txs
      BY <2>2 DEF CopiesHonest, Honest, PostApply
    <3>2. /\ \/ UNCHANGED <<tx, spendable, spentBy>>
             \/ UpdateTransactionStatus(poster[p].tx, "unproven")
             \/ UpdateTransactionStatus(poster[p].tx, "sending")
             \/ \E S : FailAndMarkStale(poster[p].tx, S)
          /\ UNCHANGED <<inputs, net>>
      BY <2>2 DEF PostApply
    <3>3. QED
      BY <3>1, <3>2, IdleKeepsHolds, UpdateKeepsHolds, StaleKeepsHolds
  <2>3. ASSUME NEW p \in Posters, NEW hopeless \in BOOLEAN, PostRefused(p, hopeless)
        PROVE  KeepsHolds
    BY <2>3, IdleKeepsHolds DEF PostRefused
  <2>4. QED
    BY <1>4, <2>1, <2>2, <2>3 DEF Post
<1>5. CASE CheckForProofs
  <2>1. CASE CheckRecord
    <3>1. checker.tx \in Txs
      BY <2>1 DEF CopiesHonest, Honest, CheckRecord
    <3>2. QED
      BY <2>1, <3>1, RecordKeepsHolds DEF CheckRecord
  <2>2. CASE ~CheckRecord
    BY <1>5, <2>2, IdleKeepsHolds DEF CheckForProofs, CheckRead, CheckLinked, CheckTimeout,
       CheckGiveUp, CheckNoProof, CheckTooNew, CheckProof, CheckFinish, CheckWrites, storage
  <2>3. QED
    BY <2>1, <2>2
<1>6. CASE ArcadeSSE
  <2>1. CASE SseTransactions
    <3>1. sse.tx \in Txs
      BY <2>1 DEF CopiesHonest, Honest, SseTransactions
    <3>2. /\ \/ RecordProof(sse.tx) /\ UNCHANGED <<spendable, spentBy>>
             \/ UpdateTransactionStatus(sse.tx, "unproven")
             \/ UpdateTransactionStatus(sse.tx, "failed")
          /\ UNCHANGED <<inputs, net>>
      BY <2>1 DEF SseTransactions
    <3>3. QED
      BY <3>1, <3>2, RecordKeepsHolds, UpdateKeepsHolds
  <2>2. CASE ~SseTransactions
    BY <1>6, <2>2, IdleKeepsHolds DEF ArcadeSSE, SseRead, SseWrite, storage
  <2>3. QED
    BY <2>1, <2>2
<1>7. CASE ReviewDoubleSpends
  BY <1>7, IdleKeepsHolds DEF ReviewDoubleSpends, ReviewRead, ReviewApply, storage
<1>8. CASE UnFail
  BY <1>8, IdleKeepsHolds, UnFailReqHeld DEF UnFail, UnFailRead, UnFailWrite, storage
<1>9. CASE ReviewState
  <2>1. CASE ReviewStatus
    BY <2>1, ReviewStatusKeepsHolds
  <2>2. CASE ReviewStatusThrows
    <3>1. PICK T \in SUBSET {t \in ToFail : MayChangeStatus(t, "failed")} : FailTransactions(T)
      BY <2>2 DEF ReviewStatusThrows
    <3>2. T \in SUBSET Txs
      BY DEF ToFail
    <3>3. QED
      BY <2>2, <3>1, <3>2, FailKeepsHolds DEF ReviewStatusThrows
  <2>3. QED
    BY <1>9, <2>1, <2>2 DEF ReviewState
<1>10. CASE Abandon
  <2>1. PICK t \in Txs : FailAbandoned(t)
    BY <1>10 DEF Abandon
  <2>2. QED
    BY <2>1, FailKeepsHolds, {t} \in SUBSET Txs DEF FailAbandoned
<1>11. CASE Crash \/ UNCHANGED vars
  BY <1>11, IdleKeepsHolds DEF Crash, vars, storage
<1>12. CASE \E t \in Txs : ProofCrash(t)
  BY <1>12, IdleKeepsHolds DEF ProofCrash
<1>13. QED
  BY <1>1, <1>2, <1>3, <1>4, <1>5, <1>6, <1>7, <1>8, <1>9, <1>10, <1>11, <1>12 DEF Next

LEMMA HeldInvariance ==
  ASSUME ~UseSendWith
  PROVE  Spec => []HeldInv
<1>1. Init => HeldInv
  BY DEF Init, HeldInv, LiveTx
<1>2. IInv /\ HeldInv /\ [Next]_vars => HeldInv'
  BY NextHeldInv
<1>3. QED
  BY <1>1, <1>2, Invariance, PTL DEF Spec

\* The wallet never offers an output again while a live transaction spends it,
\* unless the chain gave the output to another transaction: with every stale copy,
\* late event, review and restart, for any transactions and outputs.
THEOREM InputsStayHeld == ~UseSendWith => (Spec => []LiveInputsHeld)
<1> SUFFICES ASSUME ~UseSendWith PROVE Spec => []LiveInputsHeld
  OBVIOUS
<1>1. HeldInv => LiveInputsHeld
  BY DEF HeldInv, Holds, LiveInputsHeld
<1>2. QED
  BY <1>1, HeldInvariance, PTL

\* Two live transactions share an output only when a transaction that spends it
\* has been mined: spentBy names one of them, so the chain overruled the other.
THEOREM NoSharedInputs == ~UseSendWith => (Spec => []NoCrossSpend)
<1> SUFFICES ASSUME ~UseSendWith PROVE Spec => []NoCrossSpend
  OBVIOUS
<1>1. HeldInv => NoCrossSpend
  BY DEF HeldInv, Holds, TakenByOther, NoCrossSpend
<1>2. QED
  BY <1>1, HeldInvariance, PTL

-----------------------------------------------------------------------------
(* Completed transactions.                                                 *)

\* Without a proof no step completes a transaction, and of what is completed only
\* unfailReq, which does not look at the status, sets anything back.
LEMMA CompletedStays ==
  ASSUME IInv, [Next]_vars, NEW t \in Txs, tx[t] = "completed", ~(UnFailReq /\ unfailer.tx = t)
  PROVE  tx'[t] = "completed"
<1> USE DEF IInv
<1>1. t \in provenTxs
  BY DEF ProofConsistent
<1>2. ASSUME NEW u, NEW s \in {"sending", "unproven", "failed"}, UpdateTransactionStatus(u, s)
      PROVE  tx'[t] = "completed"
  BY <1>2 DEF UpdateTransactionStatus, MayChangeStatus, FailTransactions, TypeOK
<1>3. ASSUME NEW u, RecordProof(u) PROVE tx'[t] = "completed"
  BY <1>3 DEF RecordProof, TypeOK
<1>4. CASE WalletCalls
  BY <1>1, <1>4 DEF WalletCalls, CreateAction, ProcessActionNoSend, ProcessActionDelayed, ProcessActionNow,
     MayCommit, SendWithDelayed, SendWithNow, ReadyToSend, AbortAction, UnAbortableStatus, FailTransactions, storage, TypeOK
<1>5. CASE Post
  <2>1. ASSUME NEW p \in Posters, NEW agg, PostBeef(p, agg) PROVE tx'[t] = "completed"
    BY <2>1 DEF PostBeef, storage
  <2>2. ASSUME NEW p \in Posters, NEW done, NEW known, PostApply(p, done, known)
        PROVE  tx'[t] = "completed"
    <3>1. \/ tx' = tx
          \/ UpdateTransactionStatus(poster[p].tx, "unproven")
          \/ UpdateTransactionStatus(poster[p].tx, "sending")
          \/ MayChangeStatus(poster[p].tx, "failed") /\ \E S : FailAndMarkStale(poster[p].tx, S)
      BY <2>2 DEF PostApply
    <3> QED BY <1>2, <3>1 DEF FailAndMarkStale, MayChangeStatus, TypeOK
  <2>3. ASSUME NEW p \in Posters, NEW hopeless, PostRefused(p, hopeless)
        PROVE  tx'[t] = "completed"
    BY <2>3 DEF PostRefused
  <2> QED BY <1>5, <2>1, <2>2, <2>3 DEF Post
<1>6. CASE CheckForProofs
  BY <1>3, <1>6 DEF CheckForProofs, CheckRead, CheckLinked, CheckTimeout, CheckGiveUp, CheckNoProof,
     CheckTooNew, CheckProof, CheckRecord, CheckFinish, CheckWrites, storage
<1>7. CASE ArcadeSSE
  BY <1>2, <1>3, <1>7 DEF ArcadeSSE, SseRead, SseWrite, SseTransactions, storage
<1>8. CASE UnFail
  BY <1>8 DEF UnFail, UnFailRead, UnFailReq, UnFailWrite, storage, TypeOK
<1>9. CASE ReviewState \/ Abandon
  <2>1. ASSUME NEW T, \A u \in T : tx[u] # "completed", FailTransactions(T) PROVE tx'[t] = "completed"
    BY <2>1 DEF FailTransactions
  <2>2. CASE ReviewStatusThrows
    BY <2>1, <2>2 DEF ReviewStatusThrows, MayChangeStatus
  <2>3. CASE ReviewStatus
    BY <2>3 DEF ReviewStatus, MayChangeStatus
  <2>4. CASE Abandon
    BY <2>1, <2>4 DEF Abandon, FailAbandoned
  <2> QED BY <1>9, <2>2, <2>3, <2>4 DEF ReviewState
<1>10. CASE Network \/ SendWaiting \/ ReviewDoubleSpends \/ Crash \/ UNCHANGED vars \/ \E u \in Txs : ProofCrash(u)
  BY <1>10 DEF Network, NetMine, NetRelay, ForeignSpend, SendWaiting, SendWaitingRead, SendWaitingStart,
     ReviewDoubleSpends, ReviewRead, ReviewApply, Crash, ProofCrash, storage, vars
<1> QED BY <1>4, <1>5, <1>6, <1>7, <1>8, <1>9, <1>10 DEF Next

\* Only TaskUnFail takes a completed transaction back, whatever stale copies, events,
\* wrong rejections, reviews, calls with sendWith and restarts follow
\* (updateTransactionStatus, reviewStatus): for any transactions, outputs and limits.
THEOREM CompletedStay == Spec => CompletedStable
<1>1. IInv /\ [Next]_vars =>
        [\A t \in Txs : tx[t] = "completed" /\ tx'[t] # "completed"
                          => UnFailReq /\ unfailer.tx = t]_vars
  BY CompletedStays
<1>2. QED
  BY <1>1, Invariance, PTL DEF Spec, CompletedStable

=============================================================================
