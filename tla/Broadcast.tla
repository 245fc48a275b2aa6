------------------------------- MODULE Broadcast -------------------------------
\* Broadcast of one proven_tx_req over the JetStream stream TX_BROADCAST.
\*
\* The monitor (TaskSendWaiting with a broadcastPublisher) copies a waiting req,
\* publishes a message under the key of its next attempt and then writes the
\* copy back as 'sending'.  Workers (NatsBroadcastWorker, BroadcastConsumer)
\* take messages, post the transaction, record the outcome in the req
\* (BroadcastStorageAdapter) and acknowledge.  The stream delivers a message
\* again when it is refused or not acknowledged in time, up to max_deliver.
\*
\* Abstracted: one transaction, without batches; its history notes are the count
\* of outcomes recorded per idempotency key; a key is the attempt it names.
\* Any post may end in any outcome.  Messages are well formed, as
\* BroadcastPublisher makes them.
EXTENDS Integers, FiniteSets

CONSTANTS
    Workers,        \* consumers of the durable group
    MaxDeliver,     \* max_deliver of the stream
    MaxKey,         \* bound on the attempts of the req: reached by no behaviour
    MaxTroubles     \* crashes, failures, timeouts and untimely steps in a behaviour

ASSUME BroadcastAssumption ==
    /\ MaxDeliver \in Nat \ {0} /\ MaxKey \in Nat \ {0} /\ MaxTroubles \in Nat

VARIABLES
    stored,        \* the row: status, attempts and outcomes recorded per key
    txRow,      \* status of the req's transaction
    managed,    \* the adapter goes through a WalletStorageManager, not its store
    stream,     \* messages of the stream
    sent,       \* keys published so far
    mon,        \* the monitor: pc and the req it copied
    work,       \* per worker: pc, message, deliveries, outcome and copy of the req
    torn,       \* a crash came between the req and its transaction
    troubles    \* troubles so far

bcVars == <<stored, txRow, managed, stream, sent, mon, work, torn, troubles>>

Attempts == 1..MaxKey

Stopped == [pc |-> "idle"]

Trouble ==
    /\ troubles < MaxTroubles
    /\ troubles' = troubles + 1

\* A section of storage code under runAsStorageProvider excludes the others; an
\* adapter that was given the store itself takes no lock.
StorageFree ==
    managed => mon.pc # "published" /\ \A w \in Workers : work[w].pc \notin {"noting", "telling"}

-----------------------------------------------------------------------------
\* The monitor.

\* 'unsent' reqs are taken every second.  'sending' ones are taken every five
\* minutes, when the deliveries of the last message, 30 seconds each, are over;
\* a backlog that makes this untrue is a trouble.
DeliveriesOver == stream = {} /\ \A w \in Workers : work[w].pc = "idle"


Taken == {"unsent", "sending"}

TakeWaiting ==
    /\ mon.pc = "idle" /\ stored.status \in Taken
    /\ IF stored.status = "unsent" \/ DeliveriesOver THEN UNCHANGED troubles ELSE Trouble
    /\ mon' = [pc |-> "copied", copy |-> stored]
    /\ UNCHANGED <<stored, txRow, managed, stream, sent, work, torn>>

\* createTxBroadcastIdempotencyKey ends in the attempt.
Key(r) == r.attempts + 1

\* The stream drops a message whose key it saw within the duplicate window; a
\* key published before may be in the window or not.
Streamed(k) ==
    LET copies == {m.copy : m \in {n \in stream : n.key = k}}
    IN  stream \cup {[key |-> k, copy |-> IF 1 \in copies THEN 2 ELSE 1, deliveries |-> 0, out |-> FALSE]}

Publish ==
    /\ mon.pc = "copied" /\ StorageFree
    /\ LET k == Key(mon.copy) IN
        /\ \/ stream' = Streamed(k)
           \/ k \in sent /\ stream' = stream
        /\ sent' = sent \cup {k}
    /\ mon' = [mon EXCEPT !.pc = "published"]
    /\ UNCHANGED <<stored, txRow, managed, work, torn, troubles>>

\* The whole copy is written over the row, its history included.
Queued(copy) == [copy EXCEPT !.status = "sending", !.attempts = @ + 1]

WriteQueued ==
    /\ mon.pc = "published"
    /\ stored' = Queued(mon.copy)
    /\ mon' = Stopped
    /\ UNCHANGED <<txRow, managed, stream, sent, work, torn, troubles>>

\* publish or the write throws, or the monitor's process stops.
MonitorStops ==
    /\ mon.pc # "idle" /\ Trouble
    /\ mon' = Stopped
    /\ UNCHANGED <<stored, txRow, managed, stream, sent, work, torn>>

-----------------------------------------------------------------------------
\* The stream.

\* The message a worker holds, as it is in the stream now.
Held(w) == {m \in stream : m.key = work[w].key /\ m.copy = work[w].copy}

Requeued(w) == (stream \ Held(w)) \cup {[m EXCEPT !.out = FALSE] : m \in Held(w)}

Deliver(w) ==
    /\ work[w].pc = "idle"
    /\ \E m \in stream :
        /\ ~m.out /\ m.deliveries < MaxDeliver
        /\ stream' = (stream \ {m}) \cup {[m EXCEPT !.out = TRUE, !.deliveries = @ + 1]}
        /\ work' = [work EXCEPT ![w] =
              [pc |-> "got", key |-> m.key, copy |-> m.copy, count |-> m.deliveries + 1, outcome |-> "none", row |-> Stopped]]
    /\ UNCHANGED <<stored, txRow, managed, sent, mon, torn, troubles>>

\* ack_wait ends: the message may be delivered again, or it is dropped.  While a
\* worker is still at it, this is a trouble.
AckWaitEnds ==
    /\ \E m \in stream :
        /\ m.out \/ m.deliveries = MaxDeliver
        /\ IF \E w \in Workers : work[w].pc # "idle" /\ m \in Held(w) THEN Trouble ELSE UNCHANGED troubles
        /\ stream' = (stream \ {m}) \cup (IF m.deliveries = MaxDeliver THEN {} ELSE {[m EXCEPT !.out = FALSE]})
    /\ UNCHANGED <<stored, txRow, managed, sent, mon, work, torn>>

-----------------------------------------------------------------------------
\* The workers.

Stage(w, pc) == work[w].pc = pc

GoTo(w, pc) == work' = [work EXCEPT ![w].pc = pc]

\* The message is refused, or goes to the dead letters after its last delivery.
Refuse(w) ==
    IF work[w].count >= MaxDeliver
    THEN GoTo(w, "letter") /\ UNCHANGED stream
    ELSE stream' = Requeued(w) /\ work' = [work EXCEPT ![w] = Stopped]

\* loadBroadcastRequest, or a failure of the storage.
Load(w) ==
    /\ Stage(w, "got")
    /\ \/ GoTo(w, "loaded") /\ UNCHANGED <<stream, troubles>>
       \/ Trouble /\ Refuse(w)
    /\ UNCHANGED <<stored, txRow, managed, sent, mon, torn>>

\* classifyBroadcastResults: what the providers say, or that they say nothing useful.
\* The first answer that decides is taken, whatever the others say: one post may be
\* rejected and the next one accepted, in either order.
Outcomes == {"accepted", "rejected_terminal", "timeout", "unknown"}

Retryable(outcome) == outcome = "timeout"

PostMessage(w) ==
    /\ Stage(w, "loaded")
    /\ \E o \in Outcomes :
        /\ IF o \in {"timeout", "unknown"} THEN Trouble ELSE UNCHANGED troubles
        /\ work' = [work EXCEPT ![w].pc = "posted", ![w].outcome = o]
    /\ UNCHANGED <<stored, txRow, managed, stream, sent, mon, torn>>

\* Mutant: the history is not looked at.
HasRecorded_Never(row, k) == FALSE

\* hasRecordedAttempt, on the row as it is read.
HasRecorded(row, k) == row.notes[k] > 0

\* recordBroadcastAttempt reads the row, and leaves it when the outcome is not
\* news to it.
RecordRead(w) ==
    /\ Stage(w, "posted") /\ StorageFree
    /\ IF HasRecorded(stored, work[w].key) \/ stored.status = "unmined"
       THEN GoTo(w, "recorded")
       ELSE work' = [work EXCEPT ![w].pc = "noting", ![w].row = stored]
    /\ UNCHANGED <<stored, txRow, managed, stream, sent, mon, torn, troubles>>

ReqFor(outcome) ==
    CASE outcome = "accepted"          -> "unmined"
      [] outcome = "rejected_terminal" -> "invalid"
      [] outcome = "timeout"           -> "sending"
      [] outcome = "unknown"           -> "unknown"

TxFor(outcome) ==
    CASE outcome = "accepted"          -> "unproven"
      [] outcome = "rejected_terminal" -> "failed"
      [] outcome = "timeout"           -> "sending"

\* The row as it was read is written with its new status and note.  That a post
\* ends before the monitor has written what it published is a trouble.
RecordReq(w) ==
    /\ Stage(w, "noting")
    /\ IF mon.pc = "published" THEN Trouble ELSE UNCHANGED troubles
    /\ stored' = [work[w].row EXCEPT !.status = ReqFor(work[w].outcome), !.notes[work[w].key] = @ + 1]
    /\ GoTo(w, IF work[w].outcome = "unknown" THEN "recorded" ELSE "telling")
    /\ UNCHANGED <<txRow, managed, stream, sent, mon, torn>>

\* updateTransactionsStatus, which throws when it would take back a failure.
RecordTx(w) ==
    /\ Stage(w, "telling")
    /\ LET status == TxFor(work[w].outcome) IN
        IF txRow = "failed" /\ status # "failed"
        THEN Refuse(w) /\ UNCHANGED txRow
        ELSE txRow' = status /\ GoTo(w, "recorded") /\ UNCHANGED stream
    /\ UNCHANGED <<stored, managed, sent, mon, torn, troubles>>

Acknowledge(w) ==
    /\ Stage(w, "recorded")
    /\ IF Retryable(work[w].outcome)
       THEN Refuse(w)
       ELSE stream' = stream \ Held(w) /\ work' = [work EXCEPT ![w] = Stopped]
    /\ UNCHANGED <<stored, txRow, managed, sent, mon, torn, troubles>>

\* publishDeadLetter and term; when the dead letter cannot be published the
\* batch ends with the message unanswered.
DeadLetter(w) ==
    /\ Stage(w, "letter")
    /\ stream' \in {stream \ Held(w), stream}
    /\ work' = [work EXCEPT ![w] = Stopped]
    /\ UNCHANGED <<stored, txRow, managed, sent, mon, torn, troubles>>

\* The worker's process stops, or the storage fails in the midst of a record.
WorkerStops(w) ==
    /\ work[w].pc # "idle" /\ Trouble
    /\ torn' = (torn \/ Stage(w, "telling"))
    /\ work' = [work EXCEPT ![w] = Stopped]
    /\ UNCHANGED <<stored, txRow, managed, stream, sent, mon>>

-----------------------------------------------------------------------------

\* processAction with acceptDelayedBroadcast has just committed the transaction.
BcInit ==
    /\ stored = [status |-> "unsent", attempts |-> 0, notes |-> [k \in Attempts |-> 0]]
    /\ txRow = "sending"
    /\ managed \in BOOLEAN
    /\ stream = {} /\ sent = {}
    /\ mon = Stopped /\ work = [w \in Workers |-> Stopped]
    /\ torn = FALSE /\ troubles = 0

MonitorStep == TakeWaiting \/ Publish \/ WriteQueued

WorkerStep(w) ==
    Deliver(w) \/ Load(w) \/ PostMessage(w) \/ RecordRead(w) \/ RecordReq(w) \/ RecordTx(w) \/ Acknowledge(w) \/ DeadLetter(w)

BcNext ==
    \/ MonitorStep \/ MonitorStops \/ AckWaitEnds
    \/ \E w \in Workers : WorkerStep(w) \/ WorkerStops(w)

\* The monitor, the stream and the workers do not all stop for good.
BcFairness == WF_bcVars(MonitorStep \/ AckWaitEnds \/ \E w \in Workers : WorkerStep(w))

BcSpec == BcInit /\ [][BcNext]_bcVars /\ BcFairness

-----------------------------------------------------------------------------
\* Properties.

\* However often a message is delivered, the outcome of its attempt is recorded
\* once in the history of the req (BroadcastStorageAdapter.hasRecordedAttempt).
OneRecord == \A k \in Attempts : stored.notes[k] <= 1

\* A req that waits to be sent is settled in the end, whatever was lost, delivered
\* twice, refused, overwritten or answered the other way on the way; and its
\* transaction is not left 'sending', unless a crash came between the two or their
\* writer took no lock.  It may be 'failed' for a req that is 'unmined': an
\* acceptance that follows a rejection changes the req and cannot take back the
\* failure.
Settled ==
    /\ stored.status \notin {"unsent", "sending"}
    /\ managed /\ ~torn =>
        /\ stored.status = "unmined" => txRow \in {"unproven", "failed"}
        /\ stored.status = "invalid" => txRow = "failed"

================================================================================
