------------------------------- MODULE SqlReview -------------------------------
(***************************************************************************)
(* TxLifecycle on SQL storage.  There reviewStatus is three statements on  *)
(* whole tables, which do not go through updateTransactionStatus and so    *)
(* have none of its guards.                                                *)
(***************************************************************************)
EXTENDS TxLifecycle

\* With an invalid req, whatever the status, proven or not.
SqlToFail == {t \in Txs : req[t].status = "invalid" /\ tx[t] # "failed"}

\* Failed, and no req that may still be reconciled.
SqlReleased(failed) == {t \in failed : req[t].status \in {"none", "invalid", "doubleSpend"}}

SqlReviewStatus ==
  LET failed == {t \in Txs : tx[t] = "failed"} \cup SqlToFail
      given == {o \in Outs : spentBy[o] \in SqlReleased(failed)}
  IN
  /\ LockFree
  /\ tx' = [t \in Txs |-> IF t \in Unlinked THEN "completed"
                          ELSE IF t \in failed THEN "failed" ELSE tx[t]]
  /\ txProven' = [t \in Txs |-> txProven[t] \/ t \in Unlinked]
  /\ spendable' = [o \in Outs |-> spendable[o] \/ o \in given]
  /\ spentBy' = [o \in Outs |-> IF o \in given THEN None ELSE spentBy[o]]
  /\ UNCHANGED <<req, provenTxs, inputs, net, foreign, tasks, crashes>>

\* Next, with this review.
SqlNext ==
  \/ Network \/ WalletCalls \/ SendWaiting \/ Post \/ CheckForProofs
  \/ ArcadeSSE \/ ReviewDoubleSpends \/ UnFail \/ SqlReviewStatus \/ Abandon \/ Crash
  \/ \E t \in Txs : ProofCrash(t)

SqlSpec == Init /\ [][SqlNext]_vars

\* docs/rocksdb_scaling.md:705: "Restore inputs BEFORE marking completed, so that a
\* completed transaction cannot accidentally have its inputs restored", the order of
\* the SQL statements.  Nothing gives back the inputs of a transaction with a proof.
CompletedKeepsInputs ==
  [][\A t \in Txs : txProven[t] => \A o \in inputs[t] : spentBy[o] = t => spentBy'[o] = t]_vars
================================================================================
