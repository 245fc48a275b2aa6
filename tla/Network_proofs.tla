----------------------------- MODULE Network_proofs -----------------------------
(***************************************************************************)
(* What the toolbox keeps of the world outside: a broadcast is recorded    *)
(* once however often it is delivered, a cache holds nothing older than    *)
(* its last invalidation, a post that failed has asked every provider, the *)
(* headers it counts as active are one chain below the heaviest one, and   *)
(* the list of bulk files loses no height.                                 *)
(* For any number of workers, nodes, queries, providers, posts, headers,   *)
(* pruning tasks, files and crashes.                                       *)
(***************************************************************************)
EXTENDS Broadcast, Caches, Services, BulkFiles, HeaderStore, SequenceTheorems, FiniteSetTheorems, TLAPS

-----------------------------------------------------------------------------
(* Broadcast: the row, and every copy of it that is yet to be written.     *)

ReqRow == [status: {"unsent", "sending", "unmined", "invalid", "unknown"}, attempts: Nat, notes: [Attempts -> Nat]]

WorkRec == [pc: {"got", "loaded", "posted", "noting", "telling", "recorded", "letter"}, key: Nat, copy: {1, 2},
            count: Nat, outcome: {"none"} \cup Outcomes, row: {Stopped} \cup ReqRow]

Message == [key: Nat, copy: {1, 2}, deliveries: Nat, out: BOOLEAN]

Once(row) == row \in ReqRow /\ \A k \in Attempts : row.notes[k] <= 1

\* A worker that has read the row saw no outcome under its key.
WorkOK(r) ==
  /\ r \in {Stopped} \cup WorkRec
  /\ r.pc = "posted" => r.outcome \in Outcomes
  /\ r.pc = "noting" => /\ r.outcome \in Outcomes /\ Once(r.row)
                        /\ r.key \in Attempts => r.row.notes[r.key] = 0

\* Whatever the monitor or a worker writes back whole holds no outcome twice either.
BroadcastInv ==
  /\ Once(stored)
  /\ mon.pc \in {"copied", "published"} => Once(mon.copy)
  /\ stream \subseteq Message
  /\ work \in [Workers -> {Stopped} \cup WorkRec]
  /\ \A w \in Workers : WorkOK(work[w])

LEMMA WorkStep ==
  ASSUME BroadcastInv, NEW w \in Workers, NEW r, WorkOK(r), work' = [work EXCEPT ![w] = r],
         Once(stored'), mon' = mon, stream' \subseteq Message
  PROVE  BroadcastInv'
BY DEF BroadcastInv, WorkOK

\* What a worker holds, once it took a message.
LEMMA Busy ==
  ASSUME BroadcastInv, NEW w \in Workers, work[w].pc # "idle"
  PROVE  work[w] \in WorkRec
BY DEF BroadcastInv, Stopped

\* A worker goes to a stage that is not the writing of the row.
LEMMA StageStep ==
  ASSUME BroadcastInv, NEW w \in Workers, work[w].pc # "idle",
         NEW p \in {"loaded", "telling", "recorded", "letter"}, GoTo(w, p),
         Once(stored'), mon' = mon, stream' \subseteq Message
  PROVE  BroadcastInv'
<1> DEFINE r == [work[w] EXCEPT !.pc = p]
<1>1. WorkOK(r)
  BY Busy DEF WorkOK, WorkRec
<1>2. work' = [work EXCEPT ![w] = r]
  BY DEF GoTo
<1> HIDE DEF r
<1>3. QED
  BY <1>1, <1>2, WorkStep

LEMMA OffStep ==
  ASSUME BroadcastInv, NEW w \in Workers, work' = [work EXCEPT ![w] = Stopped],
         Once(stored'), mon' = mon, stream' \subseteq Message
  PROVE  BroadcastInv'
<1>1. WorkOK(Stopped)
  BY DEF WorkOK, Stopped
<1>2. QED
  BY <1>1, WorkStep

LEMMA StreamFacts ==
  ASSUME BroadcastInv, NEW w
  PROVE  stream \ Held(w) \subseteq Message /\ Requeued(w) \subseteq Message
BY DEF BroadcastInv, Held, Requeued, Message

LEMMA RefuseStep ==
  ASSUME BroadcastInv, NEW w \in Workers, work[w].pc # "idle", Refuse(w), Once(stored'), mon' = mon
  PROVE  BroadcastInv'
<1>1. CASE GoTo(w, "letter") /\ stream' = stream
  BY <1>1, StageStep DEF BroadcastInv
<1>2. CASE stream' = Requeued(w) /\ work' = [work EXCEPT ![w] = Stopped]
  BY <1>2, StreamFacts, OffStep
<1>3. QED
  BY <1>1, <1>2 DEF Refuse

-----------------------------------------------------------------------------
LEMMA MonitorKeeps ==
  ASSUME BroadcastInv, MonitorStep \/ MonitorStops \/ AckWaitEnds
  PROVE  BroadcastInv'
<1> USE DEF BroadcastInv
<1>1. CASE TakeWaiting
  BY <1>1 DEF TakeWaiting
<1>2. CASE Publish
  <2>1. stored' = stored /\ work' = work /\ mon' = [mon EXCEPT !.pc = "published"] /\ Once(mon.copy)
    BY <1>2 DEF Publish
  <2>2. stream' \subseteq Message
    <3>1. Key(mon.copy) \in Nat
      BY <2>1 DEF Key, Once, ReqRow
    <3> DEFINE new(n) == [key |-> Key(mon.copy), copy |-> n, deliveries |-> 0, out |-> FALSE]
    <3>2. \A n \in {1, 2} : new(n) \in Message
      BY <3>1 DEF Message
    <3>3. \E n \in {1, 2} : Streamed(Key(mon.copy)) = stream \cup {new(n)}
      BY DEF Streamed
    <3> HIDE DEF new
    <3>4. QED
      BY <1>2, <3>2, <3>3 DEF Publish
  <2>3. mon'.copy = mon.copy
    BY <2>1
  <2>4. QED
    BY <2>1, <2>2, <2>3 DEF WorkOK
<1>3. CASE WriteQueued
  <2>1. stored' = Queued(mon.copy) /\ Once(mon.copy) /\ mon' = Stopped /\ UNCHANGED <<stream, work>>
    BY <1>3 DEF WriteQueued
  <2>2. Once(Queued(mon.copy))
    <3> DEFINE copy == mon.copy
    <3>1. copy \in ReqRow /\ copy.attempts \in Nat /\ copy.attempts + 1 \in Nat
      BY <2>1 DEF Once, ReqRow
    <3>2. [copy EXCEPT !.status = "sending", !.attempts = copy.attempts + 1] \in ReqRow
      BY <3>1 DEF ReqRow
    <3>3. [copy EXCEPT !.status = "sending", !.attempts = copy.attempts + 1].notes = copy.notes
      BY <3>1 DEF ReqRow
    <3>4. QED
      BY <2>1, <3>2, <3>3 DEF Once, Queued
  <2>3. QED
    BY <2>1, <2>2 DEF Stopped, WorkOK
<1>4. CASE MonitorStops
  BY <1>4 DEF MonitorStops, Stopped, WorkOK
<1>5. CASE AckWaitEnds
  <2>1. stream' \subseteq Message
    BY <1>5 DEF AckWaitEnds, Message
  <2>2. QED
    BY <1>5, <2>1 DEF AckWaitEnds, WorkOK
<1>6. QED
  BY <1>1, <1>2, <1>3, <1>4, <1>5 DEF MonitorStep

\* The row a worker writes back gains one outcome where it had none.
LEMMA NotingStep ==
  ASSUME BroadcastInv, NEW w \in Workers, RecordReq(w)
  PROVE  BroadcastInv'
<1> DEFINE row == work[w].row
           k == work[w].key
<1>1. work[w] \in WorkRec /\ Once(row) /\ work[w].outcome \in Outcomes /\ (k \in Attempts => row.notes[k] = 0)
  BY Busy DEF RecordReq, Stage, BroadcastInv, WorkOK
<1>2. ReqFor(work[w].outcome) \in {"unmined", "invalid", "sending", "unknown"}
  BY <1>1 DEF ReqFor, Outcomes
<1> DEFINE n == row.notes
           new == [n EXCEPT ![k] = n[k] + 1]
<1>3. row \in ReqRow /\ n \in [Attempts -> Nat] /\ \A j \in Attempts : n[j] <= 1
  BY <1>1 DEF Once, ReqRow
<1>4. stored' = [row EXCEPT !.status = ReqFor(work[w].outcome), !.notes = new]
  BY <1>3 DEF RecordReq, ReqRow
<1>5. Once(stored')
  <2>1. new \in [Attempts -> Nat] /\ \A j \in Attempts : new[j] <= 1
    <3>1. CASE k \in Attempts
      BY <1>1, <1>3, <3>1
    <3>2. CASE k \notin Attempts
      BY <1>3, <3>2
    <3>3. QED
      BY <3>1, <3>2
  <2> HIDE DEF new
  <2>2. [row EXCEPT !.status = ReqFor(work[w].outcome), !.notes = new] \in ReqRow
    BY <1>2, <1>3, <2>1 DEF ReqRow
  <2>3. [row EXCEPT !.status = ReqFor(work[w].outcome), !.notes = new].notes = new
    BY <1>3 DEF ReqRow
  <2>4. QED
    BY <1>4, <2>1, <2>2, <2>3 DEF Once
<1>6. work[w].pc # "idle" /\ mon' = mon /\ stream' \subseteq Message /\ (GoTo(w, "recorded") \/ GoTo(w, "telling"))
  BY DEF RecordReq, Stage, BroadcastInv
<1>7. QED
  BY <1>5, <1>6, StageStep

LEMMA WorkerKeeps ==
  ASSUME BroadcastInv, NEW w \in Workers, WorkerStep(w) \/ WorkerStops(w)
  PROVE  BroadcastInv'
<1>0. Once(stored) /\ stream \subseteq Message
  BY DEF BroadcastInv
<1>1. CASE Deliver(w)
  <2>1. PICK m \in stream :
          /\ stream' = (stream \ {m}) \cup {[m EXCEPT !.out = TRUE, !.deliveries = @ + 1]}
          /\ work' = [work EXCEPT ![w] =
               [pc |-> "got", key |-> m.key, copy |-> m.copy, count |-> m.deliveries + 1, outcome |-> "none", row |-> Stopped]]
    BY <1>1 DEF Deliver
  <2> DEFINE r == [pc |-> "got", key |-> m.key, copy |-> m.copy, count |-> m.deliveries + 1, outcome |-> "none", row |-> Stopped]
  <2>2. m \in Message /\ m.deliveries \in Nat
    BY <1>0 DEF Message
  <2>3. m.deliveries + 1 \in Nat
    BY <2>2
  <2>4. [m EXCEPT !.out = TRUE, !.deliveries = m.deliveries + 1] \in Message
    BY <2>2, <2>3 DEF Message
  <2>5. stream' \subseteq Message
    BY <1>0, <2>1, <2>4
  <2>6. r \in WorkRec /\ r.pc = "got"
    BY <2>2, <2>3 DEF WorkRec, Message
  <2>7. WorkOK(r)
    BY <2>6 DEF WorkOK
  <2>8. work' = [work EXCEPT ![w] = r] /\ stored' = stored /\ mon' = mon
    BY <1>1, <2>1 DEF Deliver
  <2> HIDE DEF r
  <2>9. QED
    BY <1>0, <2>5, <2>7, <2>8, WorkStep
<1>2. CASE Load(w)
  <2>1. work[w].pc # "idle" /\ UNCHANGED <<stored, mon>>
    BY <1>2 DEF Load, Stage
  <2>2. CASE GoTo(w, "loaded") /\ stream' = stream
    BY <1>0, <2>1, <2>2, StageStep
  <2>3. CASE Refuse(w)
    BY <1>0, <2>1, <2>3, RefuseStep
  <2>4. QED
    BY <1>2, <2>2, <2>3 DEF Load
<1>3. CASE PostMessage(w)
  <2>1. PICK o \in Outcomes : work' = [work EXCEPT ![w].pc = "posted", ![w].outcome = o]
    BY <1>3 DEF PostMessage
  <2> DEFINE r == [work[w] EXCEPT !.pc = "posted", !.outcome = o]
  <2>2. work[w] \in WorkRec
    BY <1>3, Busy DEF PostMessage, Stage
  <2>3. WorkOK(r)
    BY <2>2 DEF WorkOK, WorkRec
  <2>4. work' = [work EXCEPT ![w] = r] /\ UNCHANGED <<stored, mon, stream>>
    BY <1>3, <2>1 DEF PostMessage, BroadcastInv
  <2> HIDE DEF r
  <2>5. QED
    BY <1>0, <2>3, <2>4, WorkStep
<1>4. CASE RecordRead(w)
  <2>1. work[w].pc # "idle" /\ UNCHANGED <<stored, mon, stream>>
    BY <1>4 DEF RecordRead, Stage
  <2>2. CASE GoTo(w, "recorded")
    BY <1>0, <2>1, <2>2, StageStep
  <2>3. CASE ~HasRecorded(stored, work[w].key) /\ work' = [work EXCEPT ![w].pc = "noting", ![w].row = stored]
    <3> DEFINE r == [work[w] EXCEPT !.pc = "noting", !.row = stored]
    <3>1. work[w] \in WorkRec /\ (work[w].key \in Attempts => stored.notes[work[w].key] = 0)
      BY <1>0, <2>1, <2>3, Busy DEF HasRecorded, Once, ReqRow
    <3>2. work[w].outcome \in Outcomes
      BY <1>4 DEF RecordRead, Stage, BroadcastInv, WorkOK
    <3>3. WorkOK(r)
      BY <1>0, <3>1, <3>2 DEF WorkOK, WorkRec, Once
    <3>4. work' = [work EXCEPT ![w] = r]
      BY <2>3 DEF BroadcastInv
    <3> HIDE DEF r
    <3>5. QED
      BY <1>0, <2>1, <3>3, <3>4, WorkStep
  <2>4. QED
    BY <1>4, <2>2, <2>3 DEF RecordRead
<1>5. CASE RecordTx(w)
  <2>1. work[w].pc # "idle" /\ UNCHANGED <<stored, mon>>
    BY <1>5 DEF RecordTx, Stage
  <2>2. CASE Refuse(w)
    BY <1>0, <2>1, <2>2, RefuseStep
  <2>3. CASE GoTo(w, "recorded") /\ stream' = stream
    BY <1>0, <2>1, <2>3, StageStep
  <2>4. QED
    BY <1>5, <2>2, <2>3 DEF RecordTx
<1>6. CASE Acknowledge(w)
  <2>1. work[w].pc # "idle" /\ UNCHANGED <<stored, mon>>
    BY <1>6 DEF Acknowledge, Stage
  <2>2. CASE Refuse(w)
    BY <1>0, <2>1, <2>2, RefuseStep
  <2>3. CASE stream' = stream \ Held(w) /\ work' = [work EXCEPT ![w] = Stopped]
    BY <1>0, <2>1, <2>3, StreamFacts, OffStep
  <2>4. QED
    BY <1>6, <2>2, <2>3 DEF Acknowledge
<1>7. CASE DeadLetter(w) \/ WorkerStops(w)
  <2>1. work' = [work EXCEPT ![w] = Stopped] /\ stream' \in {stream \ Held(w), stream} /\ UNCHANGED <<stored, mon>>
    BY <1>7 DEF DeadLetter, WorkerStops
  <2>2. QED
    BY <1>0, <2>1, OffStep
<1>8. QED
  BY <1>1, <1>2, <1>3, <1>4, <1>5, <1>6, <1>7, NotingStep DEF WorkerStep

\* Messages come twice, acknowledgements get lost, workers and the monitor stop in the
\* midst of a record and write stale copies of the whole row: the history of the req
\* still has one outcome for one idempotency key (BroadcastStorageAdapter).
THEOREM RecordedOnce == BcSpec => []OneRecord
<1>1. BcInit => BroadcastInv
  BY DEF BcInit, BroadcastInv, Once, ReqRow, WorkOK, Stopped
<1>2. BroadcastInv /\ [BcNext]_bcVars => BroadcastInv'
  <2> SUFFICES ASSUME BroadcastInv, [BcNext]_bcVars PROVE BroadcastInv'
    OBVIOUS
  <2>1. CASE UNCHANGED bcVars
    BY <2>1 DEF bcVars, BroadcastInv, WorkOK
  <2>2. QED
    BY <2>1, MonitorKeeps, WorkerKeeps DEF BcNext
<1>3. BroadcastInv => OneRecord
  BY DEF BroadcastInv, Once, OneRecord
<1>4. QED
  BY <1>1, <1>2, <1>3, PTL DEF BcSpec

-----------------------------------------------------------------------------
(* Caches of several nodes.                                                *)

Answers == {NoVersion} \cup Nat
Loads == [key: CacheKeys, answer: Answers, current: BOOLEAN]

CachesTyped ==
  /\ version \in [Outs -> Nat]
  /\ cache \in [Nodes -> [CacheKeys -> Answers]]
  /\ index \in [Nodes -> [Outs -> SUBSET CacheKeys]]
  /\ loads \in [Nodes -> SUBSET Loads]
  /\ told \in [Nodes -> [Outs -> Nat]]

\* On one node: an entry is found by the index of its outpoint, and is no older than
\* the last invalidation; neither is the answer of a load that may still be cached.
FreshAt(n) ==
  /\ \A o \in Outs : told[n][o] <= version[o]
  /\ \A k \in CacheKeys : cache[n][k] # NoVersion =>
       /\ k \in index[n][OutOf[k]]
       /\ cache[n][k] \in Nat /\ cache[n][k] >= told[n][OutOf[k]]
  /\ \A l \in loads[n] : l.current /\ l.answer # NoVersion => l.answer >= told[n][OutOf[l.key]]

CachesInv == CachesTyped /\ \A n \in Nodes : FreshAt(n)

\* A step on one node leaves the others as they are.
LEMMA NodeStep ==
  ASSUME CachesInv, NEW n \in Nodes, UNCHANGED version, CachesTyped', FreshAt(n)',
         \A m \in Nodes \ {n} : cache'[m] = cache[m] /\ index'[m] = index[m] /\ loads'[m] = loads[m] /\ told'[m] = told[m]
  PROVE  CachesInv'
BY DEF CachesInv, FreshAt

LEMMA InvalidateStep ==
  ASSUME CachesInv, NEW n \in Nodes, NEW e, Invalidate(n, e), UNCHANGED version
  PROVE  CachesInv'
<1> DEFINE gone == IF Clears(e) THEN CacheKeys ELSE Dropped(n, e.outs)
           c == [k \in CacheKeys |-> IF k \in gone THEN NoVersion ELSE cache[n][k]]
           i == [o \in Outs |-> IF o \in e.outs THEN {} ELSE index[n][o]]
           l == Outdated(loads[n])
           t == [o \in Outs |-> IF o \in e.outs THEN version[o] ELSE told[n][o]]
<1>1. /\ cache' = [cache EXCEPT ![n] = c] /\ index' = [index EXCEPT ![n] = i]
      /\ loads' = [loads EXCEPT ![n] = l] /\ told' = [told EXCEPT ![n] = t]
  BY DEF Invalidate
<1>2. CachesTyped /\ FreshAt(n) /\ OutOf \in [CacheKeys -> Outs]
  BY CachesAssumption DEF CachesInv
<1>3. c \in [CacheKeys -> Answers] /\ i \in [Outs -> SUBSET CacheKeys] /\ t \in [Outs -> Nat]
  BY <1>2 DEF CachesTyped, Answers
<1>4. l \subseteq Loads /\ \A x \in l : ~x.current
  <2>1. \A x \in Loads : [x EXCEPT !.current = FALSE] \in Loads /\ ~[x EXCEPT !.current = FALSE].current
    BY DEF Loads
  <2>2. loads[n] \subseteq Loads
    BY <1>2 DEF CachesTyped
  <2>3. QED
    BY <2>1, <2>2 DEF Outdated
<1>5. \A o \in Outs : t[o] <= version[o]
  BY <1>2 DEF FreshAt, CachesTyped
<1>6. ASSUME NEW k \in CacheKeys, c[k] # NoVersion
      PROVE  k \in i[OutOf[k]] /\ c[k] \in Nat /\ c[k] >= t[OutOf[k]]
  <2>1. k \notin gone /\ c[k] = cache[n][k] /\ k \in index[n][OutOf[k]] /\ OutOf[k] \in Outs
    BY <1>2, <1>6 DEF FreshAt
  <2>2. OutOf[k] \notin e.outs
    BY <2>1 DEF Dropped
  <2>3. QED
    BY <1>2, <1>6, <2>1, <2>2 DEF FreshAt
<1> HIDE DEF c, i, l, t
<1>7. CachesTyped'
  BY <1>1, <1>2, <1>3, <1>4 DEF CachesTyped
<1>8. cache'[n] = c /\ index'[n] = i /\ loads'[n] = l /\ told'[n] = t
  BY <1>1, <1>2 DEF CachesTyped
<1>9. FreshAt(n)'
  BY <1>4, <1>5, <1>6, <1>8 DEF FreshAt
<1>10. QED
  BY <1>1, <1>2, <1>7, <1>9, NodeStep DEF CachesTyped

\* A load begins, is answered or ends, with nothing cached.
LEMMA LoadStep ==
  ASSUME CachesInv, NEW n \in Nodes, NEW l \in SUBSET Loads, loads' = [loads EXCEPT ![n] = l],
         UNCHANGED <<version, cache, index, told>>,
         \A x \in l : x.current /\ x.answer # NoVersion => x.answer >= told[n][OutOf[x.key]]
  PROVE  CachesInv'
<1>1. CachesTyped' /\ loads'[n] = l
  BY DEF CachesInv, CachesTyped
<1>2. FreshAt(n)'
  BY <1>1 DEF CachesInv, FreshAt
<1>3. QED
  BY <1>1, <1>2, NodeStep DEF CachesInv, CachesTyped

LEMMA StoreStep ==
  ASSUME CachesInv, NEW n \in Nodes, NEW l \in loads[n], FinishLoad(n, l), MayCache(l)
  PROVE  CachesInv'
<1> DEFINE k == l.key
           c == [cache[n] EXCEPT ![k] = l.answer]
           i == [index[n] EXCEPT ![OutOf[k]] = index[n][OutOf[k]] \cup {k}]
<1>1. CachesTyped /\ FreshAt(n) /\ OutOf \in [CacheKeys -> Outs] /\ l \in Loads /\ loads[n] \subseteq Loads
  BY CachesAssumption DEF CachesInv, CachesTyped
<1>2. k \in CacheKeys /\ OutOf[k] \in Outs /\ l.answer \in Nat /\ l.answer >= told[n][OutOf[k]]
  BY <1>1 DEF Loads, Answers, FinishLoad, MayCache, FreshAt
<1>3. cache' = [cache EXCEPT ![n] = c]
  BY <1>1 DEF FinishLoad, StoreAnswer, CachesTyped
<1>4. index' = [index EXCEPT ![n] = i]
  <2>1. index' = [index EXCEPT ![n] = [Disposed(index[n], k) EXCEPT ![OutOf[k]] = Disposed(index[n], k)[OutOf[k]] \cup {k}]]
    BY DEF FinishLoad, StoreAnswer
  <2>2. index[n] \in [Outs -> SUBSET CacheKeys]
    BY <1>1 DEF CachesTyped
  <2>3. [Disposed(index[n], k) EXCEPT ![OutOf[k]] = Disposed(index[n], k)[OutOf[k]] \cup {k}] = i
    BY <1>2, <2>2 DEF Disposed
  <2>4. QED
    BY <2>1, <2>3
<1>5. c \in [CacheKeys -> Answers] /\ i \in [Outs -> SUBSET CacheKeys]
  BY <1>1, <1>2 DEF CachesTyped, Answers
<1>6. ASSUME NEW j \in CacheKeys, c[j] # NoVersion
      PROVE  j \in i[OutOf[j]] /\ c[j] \in Nat /\ c[j] >= told[n][OutOf[j]]
  BY <1>1, <1>2, <1>6 DEF CachesTyped, FreshAt
<1>7. UNCHANGED <<version, told>> /\ loads' = [loads EXCEPT ![n] = loads[n] \ {l}]
  BY DEF FinishLoad
<1> HIDE DEF c, i
<1>8. CachesTyped'
  BY <1>1, <1>3, <1>4, <1>5, <1>7 DEF CachesTyped
<1>9. cache'[n] = c /\ index'[n] = i /\ loads'[n] \subseteq loads[n]
  BY <1>1, <1>3, <1>4, <1>7 DEF CachesTyped
<1>10. FreshAt(n)'
  BY <1>1, <1>6, <1>7, <1>9 DEF FreshAt
<1>11. QED
  BY <1>1, <1>3, <1>4, <1>7, <1>8, <1>10, NodeStep DEF CachesTyped

LEMMA EvictStep ==
  ASSUME CachesInv, NEW n \in Nodes, NEW k \in CacheKeys, Evict(n, k)
  PROVE  CachesInv'
<1> DEFINE c == [cache[n] EXCEPT ![k] = NoVersion]
           i == [index[n] EXCEPT ![OutOf[k]] = index[n][OutOf[k]] \ {k}]
<1>1. CachesTyped /\ FreshAt(n) /\ OutOf \in [CacheKeys -> Outs]
  BY CachesAssumption DEF CachesInv
<1>2. cache' = [cache EXCEPT ![n] = c] /\ index' = [index EXCEPT ![n] = i] /\ UNCHANGED <<version, loads, told>>
  BY <1>1 DEF Evict, Disposed, CachesTyped
<1>3. c \in [CacheKeys -> Answers] /\ i \in [Outs -> SUBSET CacheKeys]
  BY <1>1 DEF CachesTyped, Answers
<1>4. ASSUME NEW j \in CacheKeys, c[j] # NoVersion
      PROVE  j \in i[OutOf[j]] /\ c[j] \in Nat /\ c[j] >= told[n][OutOf[j]]
  BY <1>1, <1>4 DEF CachesTyped, FreshAt
<1> HIDE DEF c, i
<1>5. CachesTyped'
  BY <1>1, <1>2, <1>3 DEF CachesTyped
<1>6. cache'[n] = c /\ index'[n] = i
  BY <1>1, <1>2 DEF CachesTyped
<1>7. FreshAt(n)'
  BY <1>1, <1>2, <1>4, <1>6 DEF FreshAt
<1>8. QED
  BY <1>1, <1>2, <1>5, <1>7, NodeStep DEF CachesTyped

LEMMA ChangeStep ==
  ASSUME CachesInv, NEW o \in Outs, Change(o)
  PROVE  CachesInv'
<1>1. version' = [version EXCEPT ![o] = version[o] + 1] /\ UNCHANGED <<cache, index, loads, told>>
  BY DEF Change
<1>2. version' \in [Outs -> Nat] /\ \A p \in Outs : version[p] <= version'[p]
  BY <1>1 DEF CachesInv, CachesTyped
<1>3. ASSUME NEW n \in Nodes PROVE FreshAt(n)'
  <2>1. \A p \in Outs : told[n][p] \in Nat /\ version[p] \in Nat /\ version'[p] \in Nat
    BY <1>2 DEF CachesInv, CachesTyped
  <2>2. \A p \in Outs : told[n][p] <= version'[p]
    BY <1>2, <2>1 DEF CachesInv, FreshAt
  <2>3. QED
    BY <1>1, <2>2 DEF CachesInv, FreshAt
<1>4. QED
  BY <1>1, <1>2, <1>3 DEF CachesInv, CachesTyped

LEMMA LoadsKeep ==
  ASSUME CachesInv, NEW n \in Nodes,
         (\E k \in CacheKeys : Query(n, k)) \/ (\E l \in loads[n] : AnswerLoad(n, l) \/ FinishLoad(n, l) \/ FailLoad(n, l))
  PROVE  CachesInv'
<1>1. loads[n] \subseteq Loads /\ CachesTyped /\ FreshAt(n) /\ OutOf \in [CacheKeys -> Outs]
  BY CachesAssumption DEF CachesInv, CachesTyped
<1>2. ASSUME NEW k \in CacheKeys, Query(n, k) PROVE CachesInv'
  <2> DEFINE x == [key |-> k, answer |-> NoVersion, current |-> TRUE]
  <2>1. x \in Loads /\ x.answer = NoVersion
    BY DEF Loads, Answers
  <2>2. loads' = [loads EXCEPT ![n] = loads[n] \cup {x}] /\ UNCHANGED <<version, cache, index, told>>
    BY <1>2 DEF Query
  <2> HIDE DEF x
  <2>3. QED
    BY <1>1, <2>1, <2>2, LoadStep DEF FreshAt
<1>3. ASSUME NEW l \in loads[n], AnswerLoad(n, l) PROVE CachesInv'
  <2> DEFINE x == [l EXCEPT !.answer = version[OutOf[l.key]]]
  <2>1. l \in Loads /\ OutOf[l.key] \in Outs
    BY <1>1 DEF Loads
  <2>2. x \in Loads /\ x.key = l.key /\ x.answer = version[OutOf[l.key]]
    BY <1>1, <2>1 DEF Loads, Answers, CachesTyped
  <2>3. loads' = [loads EXCEPT ![n] = (loads[n] \ {l}) \cup {x}] /\ UNCHANGED <<version, cache, index, told>>
    BY <1>3 DEF AnswerLoad
  <2> HIDE DEF x
  <2>4. told[n][OutOf[l.key]] \in Nat /\ version[OutOf[l.key]] \in Nat
    BY <1>1, <2>1 DEF CachesTyped
  <2>5. x.answer >= told[n][OutOf[x.key]]
    BY <1>1, <2>1, <2>2, <2>4 DEF FreshAt
  <2>6. (loads[n] \ {l}) \cup {x} \in SUBSET Loads
    BY <1>1, <2>2
  <2>7. \A y \in (loads[n] \ {l}) \cup {x} : y.current /\ y.answer # NoVersion => y.answer >= told[n][OutOf[y.key]]
    BY <1>1, <2>5 DEF FreshAt
  <2>8. QED
    BY <2>3, <2>6, <2>7, LoadStep
<1>4. ASSUME NEW l \in loads[n], FailLoad(n, l) \/ (FinishLoad(n, l) /\ ~MayCache(l)) PROVE CachesInv'
  <2>1. loads' = [loads EXCEPT ![n] = loads[n] \ {l}] /\ UNCHANGED <<version, cache, index, told>>
    BY <1>4 DEF FailLoad, FinishLoad
  <2>2. QED
    BY <1>1, <2>1, LoadStep DEF FreshAt
<1>5. QED
  BY <1>2, <1>3, <1>4, StoreStep

\* UtxoCacheManager.getOrLoad, set, dispose and invalidateOutpoint race each other and
\* the invalidations of other nodes, which come late, twice or not at all: no entry is
\* ever older than the last invalidation its node handled.
THEOREM NothingOutdated == CaSpec => []Fresh
<1>1. CaInit => CachesInv
  <2> SUFFICES ASSUME CaInit PROVE CachesInv
    OBVIOUS
  <2>1. CachesTyped
    BY DEF CaInit, CachesTyped, Answers
  <2>2. \A n \in Nodes : FreshAt(n)
    BY DEF CaInit, FreshAt
  <2>3. QED
    BY <2>1, <2>2 DEF CachesInv
<1>2. CachesInv /\ [CaNext]_caVars => CachesInv'
  <2> SUFFICES ASSUME CachesInv, [CaNext]_caVars PROVE CachesInv'
    OBVIOUS
  <2>1. CASE UNCHANGED caVars
    BY <2>1 DEF caVars, CachesInv, CachesTyped, FreshAt
  <2>2. CASE \E id \in window : WindowEnds(id)
    BY <2>2 DEF WindowEnds, CachesInv, CachesTyped, FreshAt
  <2>3. CASE \E n \in Nodes : (\E e \in Events : PublishEvent(n, e)) \/ (\E e \in news[n] : Receive(n, e))
    BY <2>3, InvalidateStep DEF PublishEvent, Receive
  <2>4. QED
    BY <2>1, <2>2, <2>3, ChangeStep, EvictStep, LoadsKeep DEF CaNext
<1>3. CachesInv => Fresh
  BY DEF CachesInv, FreshAt, Fresh
<1>4. QED
  BY <1>1, <1>2, <1>3, PTL DEF CaSpec

-----------------------------------------------------------------------------
(* Posts of Services.                                                      *)

\* A list of all providers, in any order.
AllListed(s) == s \in Seq(Providers) /\ \A x \in Providers : \E i \in 1..Len(s) : s[i] = x

IsPost(r) ==
  /\ r = [stage |-> r.stage, list |-> r.list, at |-> r.at, asked |-> r.asked, won |-> r.won,
          tally |-> r.tally, taken |-> r.taken]
  /\ r.asked \subseteq Providers

\* A post under way has asked the providers of its own list before `at`; one that is
\* over without success has asked all.
PostOK(r) ==
  /\ IsPost(r)
  /\ r.stage = "asking" /\ mode = "UntilSuccess" =>
       /\ AllListed(r.list) /\ r.at \in 1..Len(r.list)
       /\ \A i \in 1..r.at - 1 : r.list[i] \in r.asked
  /\ r.stage = "done" /\ ~r.won => r.asked = Providers

ServicesInv ==
  /\ AllListed(order)
  /\ posting = [p \in Posts |-> posting[p]]
  /\ \A p \in Posts : PostOK(posting[p])

\* moveServiceToLast keeps every provider.
LEMMA MovedFacts ==
  ASSUME NEW list, AllListed(list), NEW s \in Providers
  PROVE  AllListed(MovedToLast(list, s))
<1> DEFINE i == CHOOSE k \in DOMAIN list : list[k] = s
           new == [k \in 1..Len(list) |-> IF k < i THEN list[k] ELSE IF k < Len(list) THEN list[k + 1] ELSE s]
<1>1. list \in Seq(Providers) /\ Len(list) \in Nat /\ DOMAIN list = 1..Len(list)
  BY DEF AllListed
<1>2. i \in 1..Len(list) /\ list[i] = s
  BY <1>1 DEF AllListed
<1>3. MovedToLast(list, s) = new
  BY <1>1, <1>2 DEF MovedToLast, Range
<1> HIDE DEF i
<1>4. \A k \in 1..Len(list) : new[k] \in Providers
  BY <1>1
<1>5. new \in Seq(Providers) /\ Len(new) = Len(list)
  BY <1>1, <1>4
<1>6. ASSUME NEW x \in Providers PROVE \E k \in 1..Len(list) : new[k] = x
  <2>1. PICK j \in 1..Len(list) : list[j] = x
    BY DEF AllListed
  <2>2. CASE j < i
    BY <2>1, <2>2
  <2>3. CASE j = i
    <3>1. Len(list) \in 1..Len(list) /\ new[Len(list)] = s
      BY <1>1, <1>2
    <3>2. QED
      BY <1>2, <2>1, <2>3, <3>1
  <2>4. CASE j > i
    <3>1. j - 1 \in 1..Len(list) /\ ~(j - 1 < i) /\ j - 1 < Len(list) /\ (j - 1) + 1 = j
      BY <1>1, <1>2, <2>1, <2>4
    <3>2. QED
      BY <2>1, <3>1
  <2>5. QED
    BY <1>1, <1>2, <2>1, <2>2, <2>3, <2>4
<1>7. QED
  BY <1>3, <1>5, <1>6 DEF AllListed

\* A post changes; the others do not.
LEMMA PostStep ==
  ASSUME ServicesInv, NEW p \in Posts, NEW r, PostOK(r), posting' = [posting EXCEPT ![p] = r],
         mode' = mode, AllListed(order')
  PROVE  ServicesInv'
<1>1. posting'[p] = r /\ \A q \in Posts \ {p} : posting'[q] = posting[q]
  BY DEF ServicesInv
<1>2. posting' = [q \in Posts |-> posting'[q]]
  BY DEF ServicesInv
<1>3. \A q \in Posts : PostOK(posting'[q])
  BY <1>1 DEF ServicesInv
<1>4. \A q \in Posts : PostOK(posting[q])'
  BY <1>3 DEF PostOK
<1>5. QED
  BY <1>2, <1>4 DEF ServicesInv

LEMMA StartPost ==
  ASSUME ServicesInv, NEW p \in Posts, StartPostBeef(p)
  PROVE  ServicesInv'
<1> DEFINE idle == PostIdle
           begun == [idle EXCEPT !.stage = "asking"]
           r == [begun EXCEPT !.list = order]
<1>1. posting' = [posting EXCEPT ![p] = r] /\ UNCHANGED <<mode, order>>
  BY DEF StartPostBeef
<1>2. IsPost(idle) /\ idle.at = 1
  BY DEF IsPost, PostIdle
<1> HIDE DEF idle
<1>3. begun = [stage |-> "asking", list |-> idle.list, at |-> 1, asked |-> idle.asked, won |-> idle.won,
               tally |-> idle.tally, taken |-> idle.taken]
  BY <1>2 DEF IsPost
<1> HIDE DEF begun
<1>4. r = [stage |-> "asking", list |-> order, at |-> 1, asked |-> idle.asked, won |-> idle.won,
           tally |-> idle.tally, taken |-> idle.taken]
  BY <1>3
<1> HIDE DEF r
<1>5. r.stage = "asking" /\ r.list = order /\ r.at = 1 /\ IsPost(r)
  BY <1>2, <1>4 DEF IsPost
<1>6. AllListed(order) /\ 1 \in 1..Len(order)
  BY PostAssumption DEF ServicesInv, AllListed
<1>7. PostOK(r)
  BY <1>5, <1>6 DEF PostOK
<1>8. QED
  BY <1>1, <1>6, <1>7, PostStep

LEMMA TalliedFacts ==
  ASSUME NEW p, IsPost(p), NEW s \in Providers, NEW r
  PROVE  LET q == Tallied(p, s, r)
         IN  /\ IsPost(q) /\ q.stage = p.stage /\ q.list = p.list /\ q.at = p.at /\ q.asked = p.asked \cup {s}
<1> DEFINE A == p.asked \cup {s}
           K == p.taken \cup r.taken
           W == p.won \/ (Succeeded(r) /\ ~r.broke)
           L == [t \in PostTxids |-> p.tally[t] \cup {r.class[t]}]
           p1 == [p EXCEPT !.asked = A]
           p2 == [p1 EXCEPT !.taken = K]
           p3 == [p2 EXCEPT !.won = W]
           p4 == [p3 EXCEPT !.tally = L]
<1>1. Tallied(p, s, r) = [p EXCEPT !.asked = A, !.taken = K, !.won = W, !.tally = L]
  BY DEF Tallied
<1> HIDE DEF A, K, W, L
<1>2. Tallied(p, s, r) = p4
  BY <1>1
<1>3. p1 = [stage |-> p.stage, list |-> p.list, at |-> p.at, asked |-> A, won |-> p.won, tally |-> p.tally, taken |-> p.taken]
  BY DEF IsPost
<1> HIDE DEF p1
<1>4. p2 = [stage |-> p.stage, list |-> p.list, at |-> p.at, asked |-> A, won |-> p.won, tally |-> p.tally, taken |-> K]
  BY <1>3
<1> HIDE DEF p2
<1>5. p3 = [stage |-> p.stage, list |-> p.list, at |-> p.at, asked |-> A, won |-> W, tally |-> p.tally, taken |-> K]
  BY <1>4
<1> HIDE DEF p3
<1>6. p4 = [stage |-> p.stage, list |-> p.list, at |-> p.at, asked |-> A, won |-> W, tally |-> L, taken |-> K]
  BY <1>5
<1>7. A \subseteq Providers
  BY DEF A, IsPost
<1>8. QED
  BY <1>2, <1>6, <1>7 DEF IsPost, A

LEMMA AskNextStep ==
  ASSUME ServicesInv, NEW p \in Posts, AskNext(p)
  PROVE  ServicesInv'
<1> DEFINE s == ToCall(p)
           o == posting[p]
<1>1. PICK a \in ResultsOf(s), timedOut \in BOOLEAN :
        LET q == Tallied(o, s, a)
            failed == \A t \in PostTxids : a.class[t] = "service"
        IN  /\ posting' = [posting EXCEPT ![p] =
                  [q EXCEPT !.at = @ + 1, !.stage = IF q.won \/ q.at = Len(q.list) THEN "done" ELSE @]]
            /\ order' = IF failed /\ ~timedOut THEN MovedToLast(order, s) ELSE order
  BY DEF AskNext
<1> DEFINE q == Tallied(o, s, a)
           end == IF q.won \/ q.at = Len(q.list) THEN "done" ELSE q.stage
           moved == [q EXCEPT !.at = q.at + 1]
           r == [moved EXCEPT !.stage = end]
<1>2. /\ o.stage = "asking" /\ mode = "UntilSuccess" /\ IsPost(o) /\ AllListed(o.list) /\ o.at \in 1..Len(o.list)
      /\ \A i \in 1..o.at - 1 : o.list[i] \in o.asked
  BY DEF AskNext, ServicesInv, PostOK
<1>3. s = o.list[o.at] /\ s \in Providers
  BY <1>2 DEF ToCall, AllListed
<1>4. IsPost(q) /\ q.stage = "asking" /\ q.list = o.list /\ q.at = o.at /\ q.asked = o.asked \cup {s}
  BY <1>2, <1>3, TalliedFacts
<1>5. posting' = [posting EXCEPT ![p] = r] /\ mode' = mode
  BY <1>1 DEF AskNext
<1>6. AllListed(order')
  BY <1>1, <1>3, MovedFacts DEF ServicesInv
<1> HIDE DEF s, o, q
<1> HIDE DEF end
<1>7. moved = [stage |-> q.stage, list |-> o.list, at |-> o.at + 1, asked |-> q.asked, won |-> q.won,
                tally |-> q.tally, taken |-> q.taken]
  BY <1>4 DEF IsPost
<1> HIDE DEF moved
<1>8. r = [stage |-> end, list |-> o.list, at |-> o.at + 1, asked |-> q.asked, won |-> q.won,
           tally |-> q.tally, taken |-> q.taken]
  BY <1>7
<1> USE DEF end
<1>9. \A i \in 1..o.at : o.list[i] \in q.asked
  BY <1>2, <1>3, <1>4
<1>10. end = "done" /\ ~q.won => q.asked = Providers
  <2>1. SUFFICES ASSUME end = "done", ~q.won PROVE Providers \subseteq q.asked
    BY <1>4 DEF IsPost
  <2>2. o.at = Len(o.list)
    BY <1>4, <2>1
  <2>3. QED
    BY <1>2, <1>9, <2>2 DEF AllListed
<1>11. end = "asking" => o.at + 1 \in 1..Len(o.list)
  BY <1>2, <1>4 DEF AllListed
<1>12. (o.at + 1) - 1 = o.at
  BY <1>2
<1> HIDE DEF end
<1>13. IsPost(r)
  BY <1>4, <1>8 DEF IsPost
<1>14. PostOK(r)
  BY <1>2, <1>8, <1>9, <1>10, <1>11, <1>12, <1>13 DEF PostOK
<1> HIDE DEF r
<1>15. QED
  BY <1>5, <1>6, <1>14, PostStep

LEMMA AskAllStep ==
  ASSUME ServicesInv, NEW p \in Posts, AskAll(p)
  PROVE  ServicesInv'
<1>0. PICK s \in Providers : \E a \in ResultsOf(s) :
        LET q == Tallied(posting[p], s, a)
        IN  posting' = [posting EXCEPT ![p] = [q EXCEPT !.stage = IF q.asked = Providers THEN "done" ELSE @]]
  BY DEF AskAll
<1>1. PICK a \in ResultsOf(s) :
        LET q == Tallied(posting[p], s, a)
        IN  posting' = [posting EXCEPT ![p] = [q EXCEPT !.stage = IF q.asked = Providers THEN "done" ELSE @]]
  BY <1>0
<1> DEFINE q == Tallied(posting[p], s, a)
           end == IF q.asked = Providers THEN "done" ELSE q.stage
           r == [q EXCEPT !.stage = end]
<1>2. posting[p].stage = "asking" /\ mode = "PromiseAll" /\ IsPost(posting[p]) /\ UNCHANGED <<mode, order>>
  BY DEF AskAll, ServicesInv, PostOK
<1>3. IsPost(q) /\ q.stage = "asking"
  BY <1>2, TalliedFacts
<1>4. posting' = [posting EXCEPT ![p] = r]
  BY <1>1
<1> HIDE DEF q
<1>5. r = [stage |-> end, list |-> q.list, at |-> q.at, asked |-> q.asked, won |-> q.won,
           tally |-> q.tally, taken |-> q.taken]
  BY <1>3 DEF IsPost
<1>6. end = "done" => q.asked = Providers
  BY <1>3
<1> HIDE DEF end
<1>7. PostOK(r)
  BY <1>2, <1>3, <1>5, <1>6 DEF PostOK, IsPost
<1> HIDE DEF r
<1>8. QED
  BY <1>2, <1>4, <1>7, PostStep DEF ServicesInv, AllListed

\* However posts reorder the list they share (moveServiceToLast) while others go through
\* it, a post that reports no success has asked every provider.
THEOREM EveryProviderAsked == SvSpec => []AllAsked
<1>1. SvInit => ServicesInv
  <2> SUFFICES ASSUME SvInit PROVE ServicesInv
    OBVIOUS
  <2>1. AllListed(order)
    BY PostAssumption DEF SvInit, AllListed, Providers, Range
  <2>2. posting = [p \in Posts |-> PostIdle] /\ PostIdle.stage = "idle" /\ IsPost(PostIdle)
    BY DEF SvInit, PostIdle, IsPost
  <2>3. QED
    BY <2>1, <2>2 DEF ServicesInv, PostOK
<1>2. ServicesInv /\ [SvNext]_svVars => ServicesInv'
  <2> SUFFICES ASSUME ServicesInv, [SvNext]_svVars PROVE ServicesInv'
    OBVIOUS
  <2>1. CASE Close \/ LookupNext \/ UNCHANGED svVars
    <3>1. UNCHANGED <<mode, order, posting>>
      BY <2>1 DEF Close, LookupNext, StartLookup, LookupAsk, LookupAnswered, svVars
    <3>2. QED
      BY <3>1 DEF ServicesInv, PostOK, IsPost, AllListed
  <2>2. QED
    BY <2>1, StartPost, AskNextStep, AskAllStep DEF SvNext, PostNext
<1>3. ServicesInv => AllAsked
  BY DEF ServicesInv, PostOK, AllAsked
<1>4. QED
  BY <1>1, <1>2, <1>3, PTL DEF SvSpec

-----------------------------------------------------------------------------
(* HeaderStore: functions and sets that are defined along previousHash.    *)

\* A function defined along a successor that leads to T has a value everywhere.
Recursion(S, T, nx, V, base, step) ==
  /\ T \subseteq S
  /\ \A y \in T : base[y] \in V
  /\ \A y \in S \ T : nx[y] \in S
  /\ \A y \in S \ T, v \in V : step[y][v] \in V
  /\ \A U \in SUBSET (S \ T) : U # {} => \E y \in U : nx[y] \notin U

LEMMA RecursionExists ==
  ASSUME NEW S, NEW T, NEW nx, NEW V, NEW base, NEW step, Recursion(S, T, nx, V, base, step)
  PROVE  \E f \in [S -> V] : \A y \in S : f[y] = IF y \in T THEN base[y] ELSE step[y][f[nx[y]]]
<1> DEFINE Closed(D) == D \subseteq S /\ \A y \in D : y \notin T => nx[y] \in D
           Solves(g, D) == g \in [D -> V] /\ \A y \in D : g[y] = IF y \in T THEN base[y] ELSE step[y][g[nx[y]]]
           Some(y, v) == \E D, g : Closed(D) /\ Solves(g, D) /\ y \in D /\ g[y] = v
<1> USE DEF Recursion
<1>1. ASSUME NEW D, NEW E, NEW g, NEW h, Closed(D), Closed(E), Solves(g, D), Solves(h, E)
      PROVE  \A y \in D \cap E : g[y] = h[y]
  <2> DEFINE U == {y \in D \cap E : g[y] # h[y]}
  <2>1. ASSUME NEW y \in T, y \in D \cap E PROVE g[y] = h[y]
    BY <1>1, <2>1
  <2>2. U \subseteq S \ T
    BY <1>1, <2>1
  <2>3. ASSUME NEW y \in U PROVE nx[y] \in U
    <3>1. y \notin T /\ nx[y] \in D \cap E
      BY <1>1, <2>2, <2>3
    <3>2. g[y] = step[y][g[nx[y]]] /\ h[y] = step[y][h[nx[y]]]
      BY <1>1, <3>1, <2>3
    <3> QED BY <2>3, <3>1, <3>2
  <2>4. U = {}
    <3> HIDE DEF U
    <3> QED BY <2>2, <2>3
  <2> QED BY <2>4
<1>2. ASSUME NEW y, NEW v, NEW w, Some(y, v), Some(y, w) PROVE v = w
  <2>1. PICK D, g : Closed(D) /\ Solves(g, D) /\ y \in D /\ g[y] = v
    BY <1>2
  <2>2. PICK E, h : Closed(E) /\ Solves(h, E) /\ y \in E /\ h[y] = w
    BY <1>2
  <2>3. y \in D \cap E
    BY <2>1, <2>2
  <2>4. g[y] = h[y]
    <3>1. Closed(D) /\ Closed(E) /\ Solves(g, D) /\ Solves(h, E)
      BY <2>1, <2>2
    <3> HIDE DEF Closed, Solves
    <3> QED BY <1>1, <2>3, <3>1
  <2> QED BY <2>1, <2>2, <2>4
<1>3. ASSUME NEW y \in S, y \notin T, NEW v, Some(nx[y], v) PROVE Some(y, step[y][v])
  <2>1. PICK D, g : Closed(D) /\ Solves(g, D) /\ nx[y] \in D /\ g[nx[y]] = v
    BY <1>3
  <2>2. CASE y \in D
    <3>1. g[y] = step[y][v]
      BY <1>3, <2>1, <2>2
    <3> QED BY <2>1, <2>2, <3>1
  <2>3. CASE y \notin D
    <3> DEFINE E == D \cup {y}
               h == [x \in E |-> IF x = y THEN step[y][v] ELSE g[x]]
    <3>1. v \in V /\ step[y][v] \in V
      BY <1>3, <2>1
    <3>2. E \in SUBSET S /\ h \in [E -> V]
      BY <2>1, <3>1
    <3>3. Closed(E)
      BY <2>1
    <3>4. \A x \in D : h[x] = g[x]
      BY <2>3
    <3>5. Solves(h, E)
      <4>1. ASSUME NEW x \in D PROVE h[x] = IF x \in T THEN base[x] ELSE step[x][h[nx[x]]]
        <5>1. h[x] = g[x] /\ (x \notin T => nx[x] \in D)
          BY <2>1, <3>4
        <5>2. x \notin T => h[nx[x]] = g[nx[x]]
          BY <3>4, <5>1
        <5>3. g[x] = IF x \in T THEN base[x] ELSE step[x][g[nx[x]]]
          BY <2>1
        <5> HIDE DEF h
        <5> QED BY <5>1, <5>2, <5>3
      <4>2. h[y] = IF y \in T THEN base[y] ELSE step[y][h[nx[y]]]
        <5>1. h[nx[y]] = v /\ h[y] = step[y][v]
          BY <2>1, <3>4
        <5> HIDE DEF h
        <5> QED BY <1>3, <5>1
      <4> HIDE DEF h
      <4> QED BY <3>2, <4>1, <4>2
    <3>6. y \in E /\ h[y] = step[y][v]
      OBVIOUS
    <3> HIDE DEF E, h, Closed, Solves
    <3> QED BY <3>2, <3>3, <3>5, <3>6
  <2> QED BY <2>2, <2>3
<1>4. ASSUME NEW y \in T PROVE Some(y, base[y])
  <2> DEFINE h == [x \in {y} |-> base[y]]
  <2>1. h \in [{y} -> V] /\ Closed({y}) /\ Solves(h, {y}) /\ y \in {y} /\ h[y] = base[y]
    OBVIOUS
  <2> HIDE DEF h, Closed, Solves
  <2> QED BY <2>1
<1>5. ASSUME NEW y, NEW v, Some(y, v) PROVE v \in V
  <2>1. PICK D, g : Closed(D) /\ Solves(g, D) /\ y \in D /\ g[y] = v
    BY <1>5
  <2> QED BY <2>1
<1>6. \A y \in S : \E v : Some(y, v)
  <2> DEFINE U == {y \in S : ~\E v : Some(y, v)}
  <2>1. U \subseteq S \ T
    <3> HIDE DEF Some
    <3> QED BY <1>4
  <2>2. \A y \in U : nx[y] \in U
    <3> HIDE DEF Some
    <3> QED BY <1>3, <2>1
  <2> HIDE DEF U
  <2>3. U = {}
    BY <2>1, <2>2
  <2> QED BY <2>3 DEF U
<1> DEFINE f == [y \in S |-> CHOOSE v : Some(y, v)]
<1> HIDE DEF Some
<1>7. \A y \in S : Some(y, f[y])
  BY <1>6
<1>8. f \in [S -> V]
  BY <1>5, <1>7
<1>9. ASSUME NEW y \in S PROVE f[y] = IF y \in T THEN base[y] ELSE step[y][f[nx[y]]]
  <2>1. CASE y \in T
    BY <1>2, <1>4, <1>7, <2>1
  <2>2. CASE y \notin T
    <3>1. nx[y] \in S /\ Some(nx[y], f[nx[y]]) /\ Some(y, f[y])
      BY <1>7, <2>2
    <3>2. Some(y, step[y][f[nx[y]]])
      BY <1>3, <2>2, <3>1
    <3> HIDE DEF f
    <3> QED BY <1>2, <2>2, <3>1, <3>2
  <2> QED BY <2>1, <2>2
<1> HIDE DEF f
<1> QED BY <1>8, <1>9

-----------------------------------------------------------------------------
(* HeaderStore: the tree of headers.                                       *)

HeightOf(f) == f = [b \in Header |-> IF b = Genesis THEN 0 ELSE f[Parent[b]] + 1]
WorkOf(f)   == f = [b \in Header |-> IF b = Genesis THEN 0 ELSE f[Parent[b]] + Work[b]]
BranchOf(f) == f = [b \in Header |-> IF b = Genesis THEN <<Genesis>> ELSE Append(f[Parent[b]], b)]

\* A header whose parent has what it needs has it; Genesis has it.
LEMMA TreeInduction ==
  ASSUME NEW U, U \subseteq Header, Genesis \notin U,
         \A b \in Block : b \in U => Parent[b] \in U
  PROVE  U = {}
<1>1. U \subseteq Block
  BY DEF Header
<1> QED BY <1>1, HeaderAssumption

TreeStep(V, v0, step) == v0 \in V /\ \A b \in Block, v \in V : step[b][v] \in V

LEMMA TreeRecursion ==
  ASSUME NEW V, NEW v0, NEW step, TreeStep(V, v0, step)
  PROVE  \E f \in [Header -> V] : f = [b \in Header |-> IF b = Genesis THEN v0 ELSE step[b][f[Parent[b]]]]
<1> DEFINE T == {Genesis}
           base == [b \in T |-> v0]
<1>1. /\ T \subseteq Header /\ \A y \in T : base[y] \in V
      /\ \A y \in Header \ T : Parent[y] \in Header
      /\ \A y \in Header \ T, v \in V : step[y][v] \in V
  BY HeaderAssumption DEF Header, TreeStep
<1>2. \A U \in SUBSET (Header \ T) : U # {} => \E y \in U : Parent[y] \notin U
  <2>1. Header \ T = Block
    BY HeaderAssumption DEF Header
  <2> QED BY <2>1, HeaderAssumption
<1>3. \E f \in [Header -> V] : \A y \in Header : f[y] = IF y \in T THEN base[y] ELSE step[y][f[Parent[y]]]
  <2> HIDE DEF T, base
  <2>1. Recursion(Header, T, Parent, V, base, step)
    BY <1>1, <1>2 DEF Recursion
  <2> QED BY <2>1, RecursionExists
<1>4. PICK f \in [Header -> V] : \A y \in Header : f[y] = IF y \in T THEN base[y] ELSE step[y][f[Parent[y]]]
  BY <1>3
<1>5. \A y \in Header : f[y] = IF y = Genesis THEN v0 ELSE step[y][f[Parent[y]]]
  BY <1>4
<1> QED BY <1>5

LEMMA HeightIs ==
  /\ Height \in [Header -> Nat] /\ Height[Genesis] = 0
  /\ \A b \in Block : Parent[b] \in Header /\ Height[b] = Height[Parent[b]] + 1
<1> DEFINE step == [b \in Block |-> [v \in Nat |-> v + 1]]
<1>1. PICK f \in [Header -> Nat] : f = [b \in Header |-> IF b = Genesis THEN 0 ELSE step[b][f[Parent[b]]]]
  <2>1. TreeStep(Nat, 0, step)
    BY DEF TreeStep
  <2> HIDE DEF step
  <2> QED BY <2>1, TreeRecursion
<1>2. HeightOf(f)
  <2>1. \A b \in Header : b # Genesis => step[b][f[Parent[b]]] = f[Parent[b]] + 1
    BY HeaderAssumption DEF Header
  <2> HIDE DEF step
  <2> QED BY <1>1, <2>1 DEF HeightOf
<1>3. Height = CHOOSE g : HeightOf(g)
  BY DEF Height, HeightOf
<1>4. HeightOf(Height)
  BY <1>2, <1>3
<1>5. \A b \in Header : Height[b] = IF b = Genesis THEN 0 ELSE Height[Parent[b]] + 1
  BY <1>4 DEF HeightOf
<1>6. \A b \in Block : b # Genesis /\ b \in Header /\ Parent[b] \in Header
  BY HeaderAssumption DEF Header
<1> DEFINE U == {b \in Header : Height[b] \notin Nat}
<1>7. U = {}
  <2>1. Genesis \notin U
    BY <1>5
  <2>2. \A b \in Block : b \in U => Parent[b] \in U
    BY <1>5, <1>6
  <2> HIDE DEF U
  <2>3. U \subseteq Header
    BY DEF U
  <2> QED BY <2>1, <2>2, <2>3, TreeInduction
<1>8. DOMAIN Height = Header /\ Height = [b \in Header |-> Height[b]]
  BY <1>4 DEF HeightOf
<1> QED BY <1>5, <1>6, <1>7, <1>8 DEF Header

LEMMA WorkIs ==
  /\ ChainWork \in [Header -> Nat]
  /\ \A b \in Block : ChainWork[b] = ChainWork[Parent[b]] + Work[b]
<1> DEFINE step == [b \in Block |-> [v \in Nat |-> v + Work[b]]]
<1>1. PICK f \in [Header -> Nat] : f = [b \in Header |-> IF b = Genesis THEN 0 ELSE step[b][f[Parent[b]]]]
  <2>1. TreeStep(Nat, 0, step)
    BY HeaderAssumption DEF TreeStep
  <2> HIDE DEF step
  <2> QED BY <2>1, TreeRecursion
<1>2. WorkOf(f)
  <2>1. \A b \in Header : b # Genesis => step[b][f[Parent[b]]] = f[Parent[b]] + Work[b]
    BY HeaderAssumption DEF Header
  <2> HIDE DEF step
  <2> QED BY <1>1, <2>1 DEF WorkOf
<1>3. ChainWork = CHOOSE g : WorkOf(g)
  BY DEF ChainWork, WorkOf
<1>4. WorkOf(ChainWork)
  BY <1>2, <1>3
<1>5. \A b \in Header : ChainWork[b] = IF b = Genesis THEN 0 ELSE ChainWork[Parent[b]] + Work[b]
  BY <1>4 DEF WorkOf
<1>6. \A b \in Block : b # Genesis /\ b \in Header /\ Parent[b] \in Header /\ Work[b] \in Nat
  BY HeaderAssumption DEF Header
<1> DEFINE U == {b \in Header : ChainWork[b] \notin Nat}
<1>7. U = {}
  <2>1. Genesis \notin U
    BY <1>5
  <2>2. \A b \in Block : b \in U => Parent[b] \in U
    BY <1>5, <1>6
  <2> HIDE DEF U
  <2>3. U \subseteq Header
    BY DEF U
  <2> QED BY <2>1, <2>2, <2>3, TreeInduction
<1>8. DOMAIN ChainWork = Header /\ ChainWork = [b \in Header |-> ChainWork[b]]
  BY <1>4 DEF WorkOf
<1> QED BY <1>5, <1>6, <1>7, <1>8 DEF Header

\* A header and its ancestors.
Anc(b) == Range(Branch[b])

LEMMA AncIs ==
  /\ Anc(Genesis) = {Genesis}
  /\ \A b \in Block : Anc(b) = Anc(Parent[b]) \cup {b}
<1> DEFINE step == [b \in Block |-> [v \in Seq(Header) |-> Append(v, b)]]
<1>1. PICK f \in [Header -> Seq(Header)] : f = [b \in Header |-> IF b = Genesis THEN <<Genesis>> ELSE step[b][f[Parent[b]]]]
  <2>1. TreeStep(Seq(Header), <<Genesis>>, step)
    <3>1. \A b \in Block : b \in Header
      BY DEF Header
    <3> QED BY <3>1 DEF TreeStep, Header
  <2> HIDE DEF step
  <2> QED BY <2>1, TreeRecursion
<1>2. BranchOf(f)
  <2>1. \A b \in Header : b # Genesis => step[b][f[Parent[b]]] = Append(f[Parent[b]], b)
    BY HeaderAssumption DEF Header
  <2> HIDE DEF step
  <2> QED BY <1>1, <2>1 DEF BranchOf
<1>3. Branch = CHOOSE g : BranchOf(g)
  BY DEF Branch, BranchOf
<1>4. BranchOf(Branch)
  BY <1>2, <1>3
<1>5. \A b \in Header : Branch[b] = IF b = Genesis THEN <<Genesis>> ELSE Append(Branch[Parent[b]], b)
  BY <1>4 DEF BranchOf
<1>6. \A b \in Block : b # Genesis /\ b \in Header /\ Parent[b] \in Header
  BY HeaderAssumption DEF Header
<1> DEFINE U == {b \in Header : Branch[b] \notin Seq(Header)}
<1>7. U = {}
  <2>1. Genesis \notin U
    <3>1. Genesis \in Header /\ Branch[Genesis] = <<Genesis>>
      BY <1>5 DEF Header
    <3>2. <<Genesis>> \in Seq(Header)
      BY <3>1
    <3> QED BY <3>1, <3>2
  <2>2. ASSUME NEW b \in Block, b \in U PROVE Parent[b] \in U
    <3>1. Branch[b] = Append(Branch[Parent[b]], b) /\ b \in Header /\ Parent[b] \in Header
      BY <1>5, <1>6
    <3>2. CASE Branch[Parent[b]] \in Seq(Header)
      <4>1. PICK q : q = Branch[Parent[b]]
        OBVIOUS
      <4>2. Append(q, b) \in Seq(Header)
        BY <3>1, <3>2, <4>1
      <4> QED BY <2>2, <3>1, <4>1, <4>2
    <3> QED BY <3>1, <3>2
  <2> HIDE DEF U
  <2>3. U \subseteq Header
    BY DEF U
  <2> QED BY <2>1, <2>2, <2>3, TreeInduction
<1>8. Anc(Genesis) = {Genesis}
  <2>1. Branch[Genesis] = <<Genesis>>
    BY <1>5 DEF Header
  <2> QED BY <2>1 DEF Anc, Range
<1>9. ASSUME NEW b \in Block PROVE Anc(b) = Anc(Parent[b]) \cup {b}
  <2>1. PICK q : q = Branch[Parent[b]]
    OBVIOUS
  <2>2. q \in Seq(Header) /\ Branch[b] = Append(q, b)
    BY <1>5, <1>6, <1>7, <2>1
  <2>3. Range(Append(q, b)) = Range(q) \cup {b}
    <3>1. Len(q) \in Nat /\ DOMAIN q = 1..Len(q) /\ DOMAIN Append(q, b) = 1..Len(q) + 1
          /\ \A n \in 1..Len(q) : Append(q, b)[n] = q[n]
          /\ Append(q, b)[Len(q) + 1] = b
      BY <1>6, <2>2
    <3>2. 1..Len(q) + 1 = 1..Len(q) \cup {Len(q) + 1}
      BY <3>1
    <3> QED BY <3>1, <3>2 DEF Range
  <2> QED BY <2>1, <2>2, <2>3 DEF Anc
<1> QED BY <1>8, <1>9

LEMMA Ancestry ==
  ASSUME NEW b \in Header
  PROVE  /\ Anc(b) \subseteq Header /\ b \in Anc(b)
         /\ \A x \in Anc(b) : /\ Anc(x) \subseteq Anc(b) /\ ChainWork[x] <= ChainWork[b]
                              /\ x # b => Height[x] < Height[b]
<1> DEFINE Good(y) == /\ Anc(y) \subseteq Header /\ y \in Anc(y)
                      /\ \A x \in Anc(y) : /\ Anc(x) \subseteq Anc(y) /\ ChainWork[x] <= ChainWork[y]
                                           /\ x # y => Height[x] < Height[y]
           U == {y \in Header : ~Good(y)}
<1>1. Good(Genesis)
  BY AncIs, WorkIs DEF Header
<1>2. ASSUME NEW y \in Block, Good(Parent[y]) PROVE Good(y)
  <2>1. y \in Header /\ Parent[y] \in Header /\ Height[y] = Height[Parent[y]] + 1 
        /\ ChainWork[y] = ChainWork[Parent[y]] + Work[y] /\ Work[y] \in Nat
    BY HeightIs, WorkIs, HeaderAssumption DEF Header
  <2>2. Anc(y) = Anc(Parent[y]) \cup {y}
    BY AncIs
  <2>3. ASSUME NEW x \in Anc(Parent[y]) 
        PROVE  Anc(x) \subseteq Anc(y) /\ ChainWork[x] <= ChainWork[y] /\ Height[x] < Height[y]
    <3>1. x \in Header /\ Anc(x) \subseteq Anc(y) /\ ChainWork[x] <= ChainWork[Parent[y]] /\ Height[x] <= Height[Parent[y]]
      BY <1>2, <2>1, <2>2, <2>3, HeightIs
    <3>2. Height[x] \in Nat /\ ChainWork[x] \in Nat /\ Height[Parent[y]] \in Nat /\ ChainWork[Parent[y]] \in Nat
      BY <2>1, <3>1, HeightIs, WorkIs
    <3> QED BY <2>1, <3>1, <3>2
  <2>4. ChainWork[y] <= ChainWork[y]
    BY <2>1, WorkIs
  <2> QED BY <1>2, <2>1, <2>2, <2>3, <2>4
<1>3. U = {}
  <2>1. Genesis \notin U /\ U \subseteq Header
    BY <1>1
  <2>2. \A y \in Block : y \in U => Parent[y] \in U
    <3> HIDE DEF Good
    <3> QED BY <1>2, HeightIs
  <2> HIDE DEF U
  <2> QED BY <2>1, <2>2, TreeInduction
<1>4. Good(b)
  <2> HIDE DEF Good
  <2> QED BY <1>3
<1> QED BY <1>4

\* Two ancestors of one header are on one branch, so they differ in height.
LEMMA OneBranch ==
  ASSUME NEW b \in Header, NEW x \in Anc(b), NEW y \in Anc(b)
  PROVE  x \in Anc(y) \/ y \in Anc(x)
<1> DEFINE Good(z) == x \in Anc(z) /\ y \in Anc(z) => x \in Anc(y) \/ y \in Anc(x)
           U == {z \in Header : ~Good(z)}
<1>1. Good(Genesis)
  BY AncIs
<1>2. ASSUME NEW z \in Block, Good(Parent[z]) PROVE Good(z)
  BY <1>2, AncIs
<1>3. U = {}
  <2>1. Genesis \notin U /\ U \subseteq Header
    BY <1>1
  <2>2. \A z \in Block : z \in U => Parent[z] \in U
    <3> HIDE DEF Good
    <3> QED BY <1>2, HeightIs
  <2> HIDE DEF U
  <2> QED BY <2>1, <2>2, TreeInduction
<1> QED BY <1>3

LEMMA OfOneHeight ==
  ASSUME NEW b \in Header, NEW x \in Anc(b), NEW y \in Anc(b), Height[x] = Height[y]
  PROVE  x = y
<1>1. x \in Header /\ y \in Header /\ Height[x] \in Nat
  BY Ancestry, HeightIs
<1>2. ~(Height[x] < Height[y]) /\ ~(Height[y] < Height[x])
  BY <1>1
<1> QED BY <1>1, <1>2, OneBranch, Ancestry

-----------------------------------------------------------------------------
(* HeaderStore: the rows.                                                  *)

LiveRow == [active: BOOLEAN, tip: BOOLEAN, prev: Block \cup {NoBlock}]
Live    == DOMAIN live

\* A row without its parent is among the lowest; only a leaf is a tip.
Linked ==
  /\ live \in [Live -> LiveRow] /\ Live \subseteq Block /\ IsFiniteSet(Live)
  /\ \A b \in Live : live[b].prev = IF Parent[b] \in Live THEN Parent[b] ELSE NoBlock
  /\ \A b, x \in Live : Parent[b] \notin Live => Height[b] <= Height[x]
  /\ \A b, x \in Live : live[b].tip => Parent[x] # b

LEMMA ParentLives ==
  ASSUME Linked, NEW x \in Live, NEW y \in Live, x \in Anc(y), x # y
  PROVE  Parent[y] \in Live /\ x \in Anc(Parent[y])
<1>1. x \in Header /\ y \in Header /\ y \in Block
  BY DEF Linked, Header
<1>2. Height[x] < Height[y] /\ Height[x] \in Nat /\ Height[y] \in Nat
  BY <1>1, Ancestry, HeightIs
<1>3. ~(Height[y] <= Height[x])
  BY <1>2
<1> QED BY <1>1, <1>3, AncIs DEF Linked

\* All that is between two rows of a branch is there.
LEMMA PathLives ==
  ASSUME Linked, NEW x \in Live, NEW t \in Live, x \in Anc(t)
  PROVE  Anc(t) \subseteq Anc(x) \cup Live
<1> DEFINE U == {y \in Live : x \in Anc(y) /\ ~(Anc(y) \subseteq Anc(x) \cup Live)}
<1>1. U \subseteq Header /\ Genesis \notin U
  BY HeaderAssumption DEF Linked, Header
<1>2. ASSUME NEW y \in Block, y \in U PROVE Parent[y] \in U
  <2>1. y # x /\ Parent[y] \in Live /\ x \in Anc(Parent[y])
    BY <1>2, ParentLives
  <2>2. Anc(y) = Anc(Parent[y]) \cup {y}
    BY AncIs
  <2> QED BY <1>2, <2>1, <2>2
<1>3. U = {}
  <2> HIDE DEF U
  <2> QED BY <1>1, <1>2, TreeInduction
<1> QED BY <1>3

LEMMA ChildLives ==
  ASSUME Linked, NEW x \in Live, NEW t \in Live, x \in Anc(t), x # t
  PROVE  \E y \in Live : Parent[y] = x
<1> DEFINE U == {y \in Live : x \in Anc(y) /\ x # y}
<1>1. U \subseteq Header /\ Genesis \notin U
  BY HeaderAssumption DEF Linked, Header
<1>2. SUFFICES ASSUME \A y \in Live : Parent[y] # x PROVE FALSE
  OBVIOUS
<1>3. ASSUME NEW y \in Block, y \in U PROVE Parent[y] \in U
  BY <1>2, <1>3, ParentLives
<1>4. U = {}
  <2> HIDE DEF U
  <2> QED BY <1>1, <1>3, TreeInduction
<1> QED BY <1>4

\* The walks of insertHeader.
Walk == Header \cup {NoBlock}
AncestorOf(f) == f = [y \in Walk |-> IF y \notin Live THEN NoBlock ELSE IF live[y].active THEN y ELSE f[live[y].prev]]
DownTo(f, stop) == f = [y \in Walk |-> IF y = stop \/ y \notin Live THEN {} ELSE {y} \cup f[live[y].prev]]

LEMMA WalkEnds ==
  ASSUME Linked, NEW T, T \subseteq Walk, Walk \ Live \subseteq T
  PROVE  LET nx == [y \in Live |-> live[y].prev]
         IN  /\ \A y \in Walk \ T : y \in Live /\ nx[y] = live[y].prev /\ nx[y] \in Walk
             /\ \A U \in SUBSET (Walk \ T) : U # {} => \E y \in U : nx[y] \notin U
<1>1. \A y \in Walk \ T : y \in Live /\ y \in Block /\ live[y].prev \in {Parent[y], NoBlock} /\ Parent[y] \in Header
  BY HeightIs DEF Linked
<1>2. ASSUME NEW U, U \subseteq Walk \ T, U # {} PROVE \E y \in U : live[y].prev \notin U
  <2>1. U \subseteq Block /\ NoBlock \notin U
    BY <1>1, <1>2, HeaderAssumption
  <2>2. PICK y \in U : Parent[y] \notin U
    BY <1>2, <2>1, HeaderAssumption
  <2> QED BY <1>1, <1>2, <2>1, <2>2
<1> QED BY <1>1, <1>2 DEF Walk

LEMMA AncestorFound ==
  ASSUME Linked, NEW b \in Live, ActiveAncestor(b) # NoBlock
  PROVE  ActiveAncestor(b) \in Actives /\ ActiveAncestor(b) \in Anc(b)
<1> DEFINE T == {y \in Walk : y \notin Live \/ live[y].active}
           nx == [y \in Live |-> live[y].prev]
           base == [y \in T |-> IF y \notin Live THEN NoBlock ELSE y]
           step == [y \in Live |-> [v \in Walk |-> v]]
<1>1. Live \subseteq Walk /\ NoBlock \in Walk /\ NoBlock \notin Live
  BY HeaderAssumption DEF Linked, Walk, Header
<1>2. Recursion(Walk, T, nx, Walk, base, step)
  <2>1. T \subseteq Walk /\ Walk \ Live \subseteq T
    OBVIOUS
  <2>2. /\ \A y \in Walk \ T : y \in Live /\ nx[y] = live[y].prev /\ nx[y] \in Walk
        /\ \A U \in SUBSET (Walk \ T) : U # {} => \E y \in U : nx[y] \notin U
    <3> HIDE DEF T
    <3> QED BY <2>1, WalkEnds
  <2>3. \A y \in T : base[y] \in Walk
    BY <1>1
  <2>4. \A y \in Walk \ T, v \in Walk : step[y][v] \in Walk
    BY <2>2
  <2> HIDE DEF T, nx, base, step
  <2> QED BY <2>1, <2>2, <2>3, <2>4 DEF Recursion
<1>3. PICK f \in [Walk -> Walk] : \A y \in Walk : f[y] = IF y \in T THEN base[y] ELSE step[y][f[nx[y]]]
  <2> HIDE DEF T, nx, base, step
  <2> QED BY <1>2, RecursionExists
<1>4. AncestorOf(f)
  <2>1. ASSUME NEW y \in Walk
        PROVE  f[y] = IF y \notin Live THEN NoBlock ELSE IF live[y].active THEN y ELSE f[live[y].prev]
    <3>1. CASE y \in T
      BY <1>3, <3>1
    <3>2. CASE y \notin T
      <4>1. y \in Live /\ ~live[y].active /\ nx[y] = live[y].prev
        BY <3>2
      <4>2. live[y].prev \in Walk
        BY <4>1 DEF Linked, LiveRow, Walk, Header
      <4>3. f[y] = step[y][f[nx[y]]]
        BY <1>3, <3>2
      <4>4. step[y][f[nx[y]]] = f[live[y].prev]
        BY <1>3, <4>1, <4>2
      <4> QED BY <4>1, <4>3, <4>4
    <3> QED BY <3>1, <3>2
  <2> QED BY <1>3, <2>1 DEF AncestorOf
<1>5. PICK g : AncestorOf(g) /\ ActiveAncestor(b) = g[b]
  <2>1. ActiveAncestor(b) = (CHOOSE g : AncestorOf(g))[b]
    BY DEF ActiveAncestor, AncestorOf, Walk, Live
  <2> QED BY <1>4, <2>1
<1>6. \A y \in Walk : g[y] = IF y \notin Live THEN NoBlock ELSE IF live[y].active THEN y ELSE g[live[y].prev]
  BY <1>5 DEF AncestorOf
<1> DEFINE U == {y \in Live : g[y] # NoBlock /\ ~(g[y] \in Actives /\ g[y] \in Anc(y))}
<1>7. U = {}
  <2>1. U \subseteq Header /\ Genesis \notin U
    BY HeaderAssumption DEF Linked, Header
  <2>2. ASSUME NEW y \in Block, y \in U PROVE Parent[y] \in U
    <3>1. ~live[y].active
      BY <1>1, <1>6, <2>2, Ancestry DEF Actives, Live, Header
    <3>2. g[y] = g[live[y].prev]
      BY <1>1, <1>6, <2>2, <3>1
    <3>3. g[NoBlock] = NoBlock
      BY <1>1, <1>6
    <3>4. live[y].prev = Parent[y] /\ Parent[y] \in Live
      BY <2>2, <3>2, <3>3 DEF Linked
    <3> QED BY <2>2, <3>2, <3>4, AncIs
  <2> HIDE DEF U
  <2> QED BY <2>1, <2>2, TreeInduction
<1> QED BY <1>5, <1>7

LEMMA DownIs ==
  ASSUME Linked, NEW stop \in Live, NEW b \in Live, stop \in Anc(b)
  PROVE  Down(b, stop) = Anc(b) \ Anc(stop)
<1> DEFINE T == {y \in Walk : y = stop \/ y \notin Live}
           nx == [y \in Live |-> live[y].prev]
           base == [y \in T |-> {}]
           step == [y \in Live |-> [v \in SUBSET Live |-> {y} \cup v]]
<1>1. Live \subseteq Walk /\ NoBlock \in Walk /\ NoBlock \notin Live
  BY HeaderAssumption DEF Linked, Walk, Header
<1>2. Recursion(Walk, T, nx, SUBSET Live, base, step)
  <2>1. T \subseteq Walk /\ Walk \ Live \subseteq T
    OBVIOUS
  <2>2. /\ \A y \in Walk \ T : y \in Live /\ nx[y] = live[y].prev /\ nx[y] \in Walk
        /\ \A U \in SUBSET (Walk \ T) : U # {} => \E y \in U : nx[y] \notin U
    <3> HIDE DEF T
    <3> QED BY <2>1, WalkEnds
  <2>3. \A y \in T : base[y] \in SUBSET Live
    OBVIOUS
  <2>4. \A y \in Walk \ T, v \in SUBSET Live : step[y][v] \in SUBSET Live
    BY <2>2
  <2> HIDE DEF T, nx, base, step
  <2> QED BY <2>1, <2>2, <2>3, <2>4 DEF Recursion
<1>3. PICK f \in [Walk -> SUBSET Live] : \A y \in Walk : f[y] = IF y \in T THEN base[y] ELSE step[y][f[nx[y]]]
  <2> HIDE DEF T, nx, base, step
  <2> QED BY <1>2, RecursionExists
<1>4. DownTo(f, stop)
  <2>1. ASSUME NEW y \in Walk
        PROVE  f[y] = IF y = stop \/ y \notin Live THEN {} ELSE {y} \cup f[live[y].prev]
    <3>1. CASE y \in T
      BY <1>3, <3>1
    <3>2. CASE y \notin T
      <4>1. y \in Live /\ y # stop /\ nx[y] = live[y].prev
        BY <3>2
      <4>2. live[y].prev \in Walk
        BY <4>1 DEF Linked, LiveRow, Walk, Header
      <4>3. f[y] = step[y][f[nx[y]]]
        BY <1>3, <3>2
      <4>4. step[y][f[nx[y]]] = {y} \cup f[live[y].prev]
        BY <1>3, <4>1, <4>2
      <4> QED BY <4>1, <4>3, <4>4
    <3> QED BY <3>1, <3>2
  <2> QED BY <1>3, <2>1 DEF DownTo
<1>5. PICK g : DownTo(g, stop) /\ Down(b, stop) = g[b]
  <2>1. Down(b, stop) = (CHOOSE g : DownTo(g, stop))[b]
    BY DEF Down, DownTo, Walk, Live
  <2> QED BY <1>4, <2>1
<1>6. \A y \in Walk : g[y] = IF y = stop \/ y \notin Live THEN {} ELSE {y} \cup g[live[y].prev]
  BY <1>5 DEF DownTo
<1> DEFINE U == {y \in Live : stop \in Anc(y) /\ g[y] # Anc(y) \ Anc(stop)}
<1>7. U = {}
  <2>1. U \subseteq Header /\ Genesis \notin U
    BY HeaderAssumption DEF Linked, Header
  <2>2. ASSUME NEW y \in Block, y \in U PROVE Parent[y] \in U
    <3>1. y # stop
      BY <1>1, <1>6, <2>2
    <3>2. Parent[y] \in Live /\ stop \in Anc(Parent[y]) /\ live[y].prev = Parent[y]
      BY <2>2, <3>1, ParentLives DEF Linked
    <3>3. g[y] = {y} \cup g[Parent[y]]
      BY <1>1, <1>6, <2>2, <3>1, <3>2
    <3>4. Anc(y) = Anc(Parent[y]) \cup {y}
      BY AncIs
    <3>5. y \notin Anc(stop)
      <4>1. y \in Header /\ stop \in Header
        BY <1>1, <2>2 DEF Linked, Header
      <4>2. Height[stop] < Height[y] /\ Height[stop] \in Nat /\ Height[y] \in Nat
        BY <2>2, <3>1, <4>1, Ancestry, HeightIs
      <4>3. ~(Height[y] < Height[stop])
        BY <4>2
      <4> QED BY <3>1, <4>1, <4>3, Ancestry
    <3> QED BY <2>2, <3>2, <3>3, <3>4, <3>5
  <2> HIDE DEF U
  <2> QED BY <2>1, <2>2, TreeInduction
<1> QED BY <1>5, <1>7

-----------------------------------------------------------------------------
(* HeaderStore: the invariant.                                             *)

\* The active chain is what is left of the branch of its tip.
Best(t) ==
  /\ t \in Live /\ Tips = {t} /\ Actives = {b \in Live : b \in Anc(t)}
  /\ \A b \in Live : ChainWork[b] <= ChainWork[t]
OneTip  == Live # {} => \E t : Best(t)
PruneOK == DOMAIN prune = Pruners /\ \A p \in Pruners : DOMAIN prune[p] = {"pc", "top", "total", "run"} /\ prune[p].run \in Seq(Block)
HsInv   == kind = "sql" /\ Linked /\ OneTip /\ PruneOK

LEMMA LinkedRows ==
  ASSUME Linked, NEW b \in Live
  PROVE  /\ b \in Block /\ b \in Header /\ Parent[b] \in Header /\ Height[b] \in Nat /\ Height[Parent[b]] \in Nat
         /\ ChainWork[b] \in Nat /\ Height[b] = Height[Parent[b]] + 1
         /\ DOMAIN live[b] = {"active", "tip", "prev"}
         /\ live[b] \in LiveRow
BY HeightIs, WorkIs DEF Linked, Header, LiveRow

\* A header that is added has no child among the rows.
LEMMA NewIsLeaf ==
  ASSUME Linked, NEW b \in Block, b \notin Live, Parent[b] \in Live
  PROVE  \A x \in Live : Parent[x] # b /\ b \notin Anc(x)
<1> SUFFICES ASSUME NEW x \in Live PROVE Parent[x] # b /\ b \notin Anc(x)
  OBVIOUS
<1>1. b \in Header /\ Parent[b] \in Header /\ Height[b] = Height[Parent[b]] + 1 /\ Height[Parent[b]] \in Nat
  BY HeightIs DEF Header
<1>2. Parent[x] # b
  <2> SUFFICES ASSUME Parent[x] = b PROVE FALSE
    OBVIOUS
  <2>1. Height[x] <= Height[Parent[b]]
    BY DEF Linked
  <2>2. Height[x] = Height[b] + 1 /\ Height[x] \in Nat
    BY LinkedRows
  <2> QED BY <1>1, <2>1, <2>2
<1>3. b \notin Anc(x)
  <2> SUFFICES ASSUME b \in Anc(x) PROVE FALSE
    OBVIOUS
  <2>1. x \in Header
    BY LinkedRows
  <2>2. Parent[b] \in Anc(x)
    BY <1>1, <2>1, AncIs, Ancestry
  <2>3. b \in Anc(Parent[b])
    BY <2>2, PathLives
  <2>4. b # Parent[b] /\ ~(Height[b] < Height[Parent[b]])
    BY <1>1
  <2> QED BY <1>1, <2>3, <2>4, Ancestry
<1> QED BY <1>2, <1>3

\* b is added to rows that differ from the live ones in no link; its parent is no tip.
AddsRow(b, heavier, rows) ==
  /\ b \in Block \ Live /\ Parent[b] \in Live /\ heavier \in BOOLEAN
  /\ rows \in [Live -> LiveRow] /\ ~rows[Parent[b]].tip
  /\ \A x \in Live : rows[x].prev = live[x].prev /\ (rows[x].tip => live[x].tip)
  /\ live' = Added(rows, b, Parent[b], heavier)

LEMMA RowAdded ==
  ASSUME Linked, NEW b, NEW heavier, NEW rows, AddsRow(b, heavier, rows)
  PROVE  /\ Linked' /\ Live' = Live \cup {b}
         /\ live'[b].active = heavier /\ live'[b].tip = heavier
         /\ \A x \in Live : x # b /\ live'[x] = rows[x]
<1> USE DEF AddsRow
<1>1. DOMAIN rows = Live
  OBVIOUS
<1>2. live' = [x \in Live \cup {b} |-> IF x = b THEN [active |-> heavier, tip |-> heavier, prev |-> Parent[b]] ELSE rows[x]]
  BY <1>1 DEF Added
<1>3. Live' = Live \cup {b} /\ (\A x \in Live : x # b /\ live'[x] = rows[x])
  BY <1>2 DEF Live
<1>4. live'[b] = [active |-> heavier, tip |-> heavier, prev |-> Parent[b]]
  BY <1>2
<1>5. live'[b].active = heavier /\ live'[b].tip = heavier /\ live'[b].prev = Parent[b]
  BY <1>4
<1>6. live' \in [Live' -> LiveRow] /\ Live' \subseteq Block /\ IsFiniteSet(Live')
  <2>1. live'[b] \in LiveRow
    BY <1>4 DEF LiveRow, Linked
  <2>2. IsFiniteSet(Live')
    BY <1>3, FS_AddElement DEF Linked
  <2>3. \A x \in Live' : live'[x] \in LiveRow
    BY <1>3, <2>1
  <2>4. live' = [x \in Live' |-> live'[x]]
    BY <1>2, <1>3
  <2> HIDE DEF LiveRow
  <2> QED BY <1>3, <2>2, <2>3, <2>4 DEF Linked
<1>7. ASSUME NEW x \in Live' PROVE live'[x].prev = IF Parent[x] \in Live' THEN Parent[x] ELSE NoBlock
  <2>1. CASE x = b
    BY <1>3, <1>5, <2>1
  <2>2. CASE x \in Live
    BY <1>3, <2>2, NewIsLeaf DEF Linked
  <2> QED BY <1>3, <2>1, <2>2
<1>8. ASSUME NEW x \in Live', NEW y \in Live', Parent[x] \notin Live' PROVE Height[x] <= Height[y]
  <2>1. x \in Live /\ Parent[x] \notin Live
    BY <1>3, <1>8
  <2>2. CASE y \in Live
    BY <2>1, <2>2 DEF Linked
  <2>3. CASE y = b
    <3>1. Height[x] <= Height[Parent[b]] /\ Height[b] = Height[Parent[b]] + 1
      BY <2>1, HeightIs DEF Linked
    <3>2. Height[x] \in Nat /\ Height[Parent[b]] \in Nat
      BY <2>1, LinkedRows
    <3> QED BY <2>3, <3>1, <3>2
  <2> QED BY <1>3, <2>2, <2>3
<1>9. ASSUME NEW x \in Live', NEW y \in Live', live'[x].tip PROVE Parent[y] # x
  <2>1. CASE x = b
    <3>1. Parent[b] # b
      BY HeightIs
    <3> QED BY <1>3, <2>1, <3>1, NewIsLeaf
  <2>2. CASE x \in Live /\ y \in Live
    BY <1>3, <1>9, <2>2 DEF Linked
  <2>3. CASE x \in Live /\ y = b
    BY <1>3, <1>9, <2>3
  <2> QED BY <1>3, <2>1, <2>2, <2>3
<1> QED BY <1>3, <1>5, <1>6, <1>7, <1>8, <1>9 DEF Linked

LEMMA OlderDeleted ==
  ASSUME HsInv, HeavierIsHigher, NEW max \in Int, live' = DeleteOlder(max)
  PROVE  Linked' /\ OneTip'
<1> DEFINE New == {x \in Live : Height[x] > max}
<1>1. Live' = New
  BY DEF DeleteOlder, Live
<1>2. \A b \in New : live'[b] = IF live[b].prev \in Live /\ Height[live[b].prev] <= max THEN [live[b] EXCEPT !.prev = NoBlock] ELSE live[b]
  BY DEF DeleteOlder, Live
<1>3. ASSUME NEW b \in New PROVE Parent[b] \in New <=> Parent[b] \in Live /\ ~(Height[Parent[b]] <= max)
  BY LinkedRows DEF HsInv
<1>4. ASSUME NEW b \in New
      PROVE  live'[b].active = live[b].active /\ live'[b].tip = live[b].tip 
             /\ live'[b].prev = (IF Parent[b] \in New THEN Parent[b] ELSE NoBlock) /\ live'[b] \in LiveRow
  <2>1. live[b].prev = IF Parent[b] \in Live THEN Parent[b] ELSE NoBlock
    BY DEF HsInv, Linked
  <2>2. NoBlock \notin Live
    BY HeaderAssumption DEF HsInv, Linked
  <2>3. live[b] \in LiveRow
    BY LinkedRows DEF HsInv
  <2>4. CASE Parent[b] \in Live /\ Height[Parent[b]] <= max
    BY <1>2, <1>3, <2>1, <2>3, <2>4 DEF LiveRow
  <2>5. CASE ~(Parent[b] \in Live /\ Height[Parent[b]] <= max)
    BY <1>2, <1>3, <2>1, <2>2, <2>3, <2>5 DEF LiveRow
  <2> QED BY <2>4, <2>5
<1>5. Linked'
  <2>1. live' \in [Live' -> LiveRow]
    <3>1. live' = [x \in New |-> live'[x]]
      BY <1>1 DEF DeleteOlder, Live
    <3> HIDE DEF New
    <3> QED BY <1>1, <1>4, <3>1
  <2>2. Live' \subseteq Block /\ IsFiniteSet(Live')
    BY <1>1, FS_Subset DEF HsInv, Linked
  <2>3. ASSUME NEW x \in New, NEW y \in New, Parent[x] \notin New PROVE Height[x] <= Height[y]
    <3>1. CASE Parent[x] \notin Live
      BY <3>1 DEF HsInv, Linked
    <3>2. CASE Parent[x] \in Live
      BY <1>3, <2>3, <3>2, LinkedRows DEF HsInv
    <3> QED BY <3>1, <3>2
  <2>4. \A x, y \in New : live'[x].tip => Parent[y] # x
    BY <1>4 DEF HsInv, Linked
  <2> HIDE DEF New
  <2> QED BY <1>1, <1>4, <2>1, <2>2, <2>3, <2>4 DEF Linked
<1>6. ASSUME NEW t, Best(t), Height[t] > max PROVE Best(t)'
  <2>1. t \in New /\ Anc(t)' = Anc(t)
    BY <1>6 DEF Best
  <2>2. Actives' = {b \in New : b \in Anc(t)}
    BY <1>1, <1>4, <1>6 DEF Best, Actives, Live
  <2>3. Tips' = {t}
    BY <1>1, <1>4, <1>6, <2>1 DEF Best, Tips, Actives, Live
  <2> QED BY <1>1, <1>6, <2>1, <2>2, <2>3 DEF Best
<1>7. ASSUME NEW t, Best(t), ~(Height[t] > max) PROVE New = {}
  <2>1. ASSUME NEW b \in New PROVE FALSE
    <3>1. b \in Block /\ t \in Block /\ ChainWork[b] <= ChainWork[t]
      BY <1>7, LinkedRows DEF Best, HsInv
    <3>2. Height[b] <= Height[t] /\ Height[b] \in Nat /\ Height[t] \in Nat
      BY <1>7, <3>1, LinkedRows DEF HeavierIsHigher, Best, HsInv
    <3> QED BY <1>7, <3>2
  <2> QED BY <2>1
<1>8. OneTip'
  <2>1. CASE Live = {}
    BY <1>1, <2>1 DEF OneTip
  <2>2. CASE Live # {}
    <3>1. PICK t : Best(t)
      BY <2>2 DEF HsInv, OneTip
    <3> HIDE DEF New
    <3> QED BY <1>1, <1>6, <1>7, <3>1 DEF OneTip
  <2> QED BY <2>1, <2>2
<1> QED BY <1>5, <1>8

Earlier(S, R, i) == {j \in S : <<j, i>> \in R}

\* Every place in a finite strict order is taken.
LEMMA PlaceTaken ==
  ASSUME NEW S, IsFiniteSet(S), NEW R, \A i \in S : <<i, i>> \notin R,
         \A i, j \in S : i # j => <<i, j>> \in R \/ <<j, i>> \in R,
         \A i, j, k \in S : <<i, j>> \in R /\ <<j, k>> \in R => <<i, k>> \in R
  PROVE  \A n \in 1..Cardinality(S) : \E i \in S : Cardinality(Earlier(S, R, i)) = n - 1
<1> DEFINE less(i) == {j \in S : <<j, i>> \in R}
           g == [i \in S |-> Cardinality(less(i))]
           N == Cardinality(S)
<1>1. N \in Nat
  BY FS_CardinalityType
<1>2. ASSUME NEW i \in S PROVE IsFiniteSet(less(i)) /\ Cardinality(less(i)) \in 0..N - 1
  <2>1. less(i) \subseteq S /\ i \notin less(i)
    OBVIOUS
  <2>2. IsFiniteSet(less(i)) /\ Cardinality(less(i)) \in Nat
    BY <2>1, FS_Subset, FS_CardinalityType
  <2>3. Cardinality(less(i)) <= N /\ Cardinality(less(i)) # N
    BY <2>1, FS_Subset
  <2> QED BY <1>1, <2>2, <2>3
<1>3. ASSUME NEW i \in S, NEW j \in S, <<i, j>> \in R PROVE g[i] # g[j]
  <2>1. less(i) \subseteq less(j) /\ i \in less(j) /\ i \notin less(i)
    BY <1>3
  <2>2. Cardinality(less(i)) # Cardinality(less(j))
    BY <1>2, <2>1, FS_Subset
  <2> QED BY <2>2
<1>4. g \in [S -> 0..N - 1]
  BY <1>2
<1>5. g \in Injection(S, 0..N - 1)
  <2>1. ASSUME NEW i \in S, NEW j \in S, g[i] = g[j] PROVE i = j
    <3>1. <<i, j>> \notin R /\ <<j, i>> \notin R
      BY <1>3, <2>1
    <3> QED BY <3>1
  <2> HIDE DEF g
  <2> QED BY <1>4, <2>1 DEF Injection, IsInjective
<1>6. IsFiniteSet(0..N - 1) /\ Cardinality(0..N - 1) = N
  <2>1. 0 \in Int /\ N - 1 \in Int
    BY <1>1
  <2> HIDE DEF N
  <2> QED BY <1>1, <2>1, FS_Interval
<1>7. g \in Surjection(S, 0..N - 1)
  <2> HIDE DEF g, N
  <2> QED BY <1>5, <1>6, FS_Injection DEF N
<1>8. ASSUME NEW n \in 1..N PROVE \E i \in S : Cardinality(less(i)) = n - 1
  <2>1. n - 1 \in 0..N - 1
    BY <1>1
  <2>2. PICK i \in S : g[i] = n - 1
    BY <1>7, <2>1 DEF Surjection
  <2> QED BY <2>2
<1> QED BY <1>8 DEF Earlier

Level(S, f, i) == Cardinality({j \in S : f[j] < f[i]})

\* And so is every place in a ranking.
LEMMA RankTaken ==
  ASSUME NEW S, IsFiniteSet(S), NEW f \in [S -> Int], \A i, j \in S : f[i] = f[j] => i = j,
         NEW n \in 1..Cardinality(S)
  PROVE  \E i \in S : Level(S, f, i) = n - 1
<1> DEFINE R == {p \in S \X S : f[p[1]] < f[p[2]]}
<1>1. \A i \in S : f[i] \in Int /\ {j \in S : f[j] < f[i]} = {j \in S : <<j, i>> \in R}
  OBVIOUS
<1>2. /\ \A i \in S : <<i, i>> \notin R
      /\ \A i, j \in S : i # j => <<i, j>> \in R \/ <<j, i>> \in R
      /\ \A i, j, k \in S : <<i, j>> \in R /\ <<j, k>> \in R => <<i, k>> \in R
  BY <1>1
<1>3. PICK T : T = R
  OBVIOUS
<1> HIDE DEF R
<1>4. /\ \A i \in S : <<i, i>> \notin T
      /\ \A i, j \in S : i # j => <<i, j>> \in T \/ <<j, i>> \in T
      /\ \A i, j, k \in S : <<i, j>> \in T /\ <<j, k>> \in T => <<i, k>> \in T
  BY <1>2, <1>3
<1>5. \E i \in S : Cardinality(Earlier(S, T, i)) = n - 1
  BY <1>4, PlaceTaken
<1> QED BY <1>1, <1>3, <1>5 DEF Level, Earlier

\* Headers of one branch have a place each, by height.
LEMMA RunIsTyped ==
  ASSUME HsInv, NEW count
  PROVE  LiveForBulk(count) \in Seq(Block)
<1> DEFINE below(x) == Cardinality({y \in Actives : Height[y] < Height[x]})
           few == {x \in Actives : below(x) < count}
           f == [x \in Actives |-> Height[x]]
<1>1. Actives \subseteq Block /\ Actives \subseteq Live
  BY DEF Actives, Live, HsInv, Linked
<1>2. IsFiniteSet(Actives) /\ IsFiniteSet(few) /\ Cardinality(few) \in Nat /\ Cardinality(few) <= Cardinality(Actives)
      /\ Cardinality(Actives) \in Nat
  <2>1. IsFiniteSet(Actives)
    BY <1>1, FS_Subset DEF HsInv, Linked
  <2>2. few \subseteq Actives
    OBVIOUS
  <2> HIDE DEF few
  <2> QED BY <2>1, <2>2, FS_Subset, FS_CardinalityType
<1>3. f \in [Actives -> Int]
  BY <1>1, LinkedRows DEF HsInv
<1>4. \A i, j \in Actives : f[i] = f[j] => i = j
  <2> SUFFICES ASSUME NEW i \in Actives, NEW j \in Actives, Height[i] = Height[j] PROVE i = j
    OBVIOUS
  <2>1. PICK t : Best(t)
    BY <1>1 DEF HsInv, OneTip
  <2>2. t \in Header /\ i \in Anc(t) /\ j \in Anc(t)
    BY <2>1, LinkedRows DEF Best, HsInv
  <2> QED BY <2>2, OfOneHeight
<1>5. ASSUME NEW n \in 1..Cardinality(few) PROVE \E x \in Actives : below(x) = n - 1
  <2>1. n \in 1..Cardinality(Actives)
    BY <1>2
  <2>2. \E i \in Actives : Level(Actives, f, i) = n - 1
    <3> HIDE DEF f, few
    <3> QED BY <1>2, <1>3, <1>4, <2>1, RankTaken
  <2>3. \A i \in Actives : Level(Actives, f, i) = below(i)
    <3>1. \A i \in Actives : {j \in Actives : f[j] < f[i]} = {j \in Actives : Height[j] < Height[i]}
      OBVIOUS
    <3> HIDE DEF f
    <3> QED BY <3>1 DEF Level
  <2> HIDE DEF below
  <2> QED BY <2>2, <2>3
<1> DEFINE run == [n \in 1..Cardinality(few) |-> CHOOSE x \in Actives : below(x) = n - 1]
<1>6. LiveForBulk(count) = run
  BY DEF LiveForBulk, Lowest
<1>7. \A n \in 1..Cardinality(few) : run[n] \in Block
  <2> HIDE DEF below, few
  <2> QED BY <1>1, <1>5
<1>8. run \in Seq(Block)
  <2> HIDE DEF below, few
  <2>1. run \in [1..Cardinality(few) -> Block]
    BY <1>7
  <2> HIDE DEF run
  <2> QED BY <1>2, <2>1
<1> QED BY <1>6, <1>8

-----------------------------------------------------------------------------
(* HeaderStore: the steps.                                                 *)

LEMMA NoRows ==
  ASSUME live = <<>>
  PROVE  Live = {} /\ Actives = {}
BY DEF Live, Actives

LEMMA InsertFirstKeeps ==
  ASSUME HsInv, NEW b \in Block, InsertFirst(b)
  PROVE  Linked' /\ OneTip'
<1>1. live' = [x \in {b} |-> [active |-> TRUE, tip |-> TRUE, prev |-> NoBlock]]
  <2>1. DOMAIN live = {}
    BY DEF InsertFirst
  <2> QED BY <2>1 DEF InsertFirst, Added
<1>2. Live' = {b} /\ live'[b] = [active |-> TRUE, tip |-> TRUE, prev |-> NoBlock] /\ live'[b] \in LiveRow
  BY <1>1 DEF Live, LiveRow
<1>3. live'[b].active /\ live'[b].tip /\ live'[b].prev = NoBlock
  BY <1>2
<1>4. b \in Header /\ Parent[b] # b /\ b \in Anc(b) /\ ChainWork[b] <= ChainWork[b] /\ Height[b] <= Height[b]
  <2>1. b \in Header /\ Parent[b] # b
    BY HeightIs DEF Header
  <2> QED BY <2>1, Ancestry, HeightIs, WorkIs
<1>5. Linked'
  <2>1. live' \in [Live' -> LiveRow]
    BY <1>1, <1>2
  <2>2. IsFiniteSet({b})
    BY FS_Singleton
  <2> QED BY <1>2, <1>3, <1>4, <2>1, <2>2 DEF Linked
<1>6. Actives' = {b} /\ Tips' = {b}
  BY <1>2, <1>3 DEF Actives, Tips, Live
<1>7. Best(b)'
  BY <1>2, <1>4, <1>6 DEF Best
<1> QED BY <1>5, <1>7 DEF OneTip

LEMMA InsertSideKeeps ==
  ASSUME HsInv, NEW b \in Block, InsertSide(b)
  PROVE  Linked' /\ OneTip'
<1> DEFINE p == Parent[b]
           rows == ClearTip(live, p)
<1>1. b \notin Live /\ p \in Live /\ live' = Added(rows, b, p, FALSE)
  BY DEF InsertSide, Live
<1>2. PICK t : Best(t) /\ ChainWork[b] <= ChainWork[t]
  <2>1. PICK t : Best(t)
    BY <1>1 DEF HsInv, OneTip
  <2> QED BY <2>1 DEF InsertSide, Best
<1>3. t \in Live /\ t \in Header
  BY <1>2, LinkedRows DEF Best, HsInv
<1>4. rows = [live EXCEPT ![p].tip = FALSE] \/ (rows = live /\ ~live[p].tip)
  BY DEF ClearTip, ClearTipRow, HsInv
<1>5. rows \in [Live -> LiveRow] /\ ~rows[p].tip
      /\ \A x \in Live : rows[x].prev = live[x].prev /\ rows[x].active = live[x].active /\ rows[x].tip = (live[x].tip /\ x # p)
  <2>1. \A x \in Live : DOMAIN live[x] = {"active", "tip", "prev"} /\ live[x] \in LiveRow
    BY LinkedRows DEF HsInv
  <2>2. CASE rows = live /\ ~live[p].tip
    <3> HIDE DEF rows
    <3> QED BY <1>1, <2>1, <2>2 DEF HsInv, Linked, LiveRow
  <2>3. CASE rows = [live EXCEPT ![p].tip = FALSE]
    <3>1. PICK one : one = [live[p] EXCEPT !.tip = FALSE]
      OBVIOUS
    <3>2. one \in LiveRow /\ one.prev = live[p].prev /\ one.active = live[p].active /\ one.tip = FALSE
      BY <1>1, <2>1, <3>1 DEF LiveRow
    <3>3. rows = [live EXCEPT ![p] = one]
      BY <2>3, <3>1
    <3> HIDE DEF rows
    <3>4. live \in [Live -> LiveRow]
      BY DEF HsInv, Linked
    <3>5. rows \in [Live -> LiveRow] /\ \A x \in Live : rows[x] = IF x = p THEN one ELSE live[x]
      <4> HIDE DEF LiveRow, p
      <4> QED BY <1>1, <3>2, <3>3, <3>4
    <3>6. \A x \in Live : live[x].tip \in BOOLEAN
      BY <2>1 DEF LiveRow
    <3> HIDE DEF LiveRow
    <3> QED BY <1>1, <3>2, <3>5, <3>6
  <2> QED BY <1>4, <2>2, <2>3
<1>6. t # p
  <2>1. ChainWork[b] = ChainWork[p] + Work[b] /\ Work[b] \in Nat \ {0} 
    BY WorkIs, HeaderAssumption
  <2>2. ChainWork[p] \in Nat
    BY <1>1, LinkedRows DEF HsInv
  <2> QED BY <1>2, <2>1, <2>2
<1>7. /\ Linked' /\ Live' = Live \cup {b} /\ ~live'[b].active
      /\ \A x \in Live : x # b /\ live'[x] = rows[x]
  <2> HIDE DEF rows
  <2>1. AddsRow(b, FALSE, rows)
    BY <1>1, <1>5 DEF AddsRow
  <2> QED BY <2>1, RowAdded DEF HsInv
<1>8. b \notin Anc(t)
  BY <1>1, <1>3, NewIsLeaf DEF HsInv
<1>9. Actives' = Actives
  <2> HIDE DEF rows
  <2> QED BY <1>5, <1>7 DEF Actives, Live
<1>10. Tips' = {t}
  <2>1. \A x \in Actives : live'[x].tip = (live[x].tip /\ x # p)
    <3> HIDE DEF rows
    <3> QED BY <1>5, <1>7 DEF Actives, Live
  <2> QED BY <1>2, <1>6, <1>9, <2>1 DEF Best, Tips
<1>11. Best(t)'
  <2>1. Actives' = {x \in Live' : x \in Anc(t)}
    BY <1>2, <1>7, <1>8, <1>9 DEF Best
  <2> QED BY <1>2, <1>7, <1>10, <2>1 DEF Best
<1> QED BY <1>7, <1>11 DEF OneTip

LEMMA InsertTipKeeps ==
  ASSUME HsInv, SiblingsAlike, NEW b \in Block, InsertTip(b)
  PROVE  Linked' /\ OneTip'
<1> DEFINE p == Parent[b]
           anc == ActiveAncestor(p)
<1>1. b \notin Live /\ p \in Live /\ anc # NoBlock
  BY DEF InsertTip, Live
<1>2. PICK t : Best(t)
  BY <1>1 DEF HsInv, OneTip
<1>3. /\ ChainWork[b] > ChainWork[t]
      /\ live' = Added(ClearTip(Swapped(Off(p, t), On(p)), p), b, p, TRUE)
  BY <1>2 DEF InsertTip, Best
<1>4. t \in Live /\ t \in Header /\ p \in Header /\ b \in Header
  BY <1>1, <1>2, LinkedRows DEF Best, HsInv, Header
<1>5. anc \in Live /\ anc \in Anc(t) /\ anc \in Anc(p)
  BY <1>1, <1>2, AncestorFound DEF Best, HsInv
<1>6. On(p) = Anc(p) \ Anc(anc) /\ Anc(p) \subseteq Anc(anc) \cup Live /\ Anc(anc) \subseteq Anc(p)
  BY <1>1, <1>4, <1>5, DownIs, PathLives, Ancestry DEF On, HsInv
<1>7. Down(t, anc) = Anc(t) \ Anc(anc) /\ Anc(anc) \subseteq Anc(t)
  BY <1>4, <1>5, DownIs, Ancestry DEF HsInv
\* A header that follows the active chain below its tip is no heavier than the tip.
<1>8. CASE anc = p /\ p # t
  <2> DEFINE U == {y \in Header : y \in Anc(t) /\ p \in Anc(y) /\ p # y /\ ~(ChainWork[b] <= ChainWork[y])}
  <2>1. U = {}
    <3>1. U \subseteq Header /\ Genesis \notin U
      <4>1. Genesis \in Header /\ Anc(Genesis) = {Genesis}
        BY AncIs DEF Header
      <4> QED BY <4>1
    <3>2. ASSUME NEW y \in Block, y \in U PROVE Parent[y] \in U
      <4>1. ChainWork[y] = ChainWork[Parent[y]] + Work[y] /\ ChainWork[b] = ChainWork[p] + Work[b]
            /\ ChainWork[p] \in Nat /\ ChainWork[Parent[y]] \in Nat /\ Work[y] \in Nat /\ Work[b] \in Nat
            /\ Parent[y] \in Header
        BY <1>4, WorkIs, HeightIs, HeaderAssumption
      <4>2. Parent[y] # p
        <5> SUFFICES ASSUME Parent[y] = p PROVE FALSE
          OBVIOUS
        <5>1. Work[y] = Work[b]
          BY DEF SiblingsAlike
        <5> QED BY <3>2, <4>1, <5>1
      <4>3. p \in Anc(Parent[y]) /\ Parent[y] \in Anc(t)
        BY <1>4, <3>2, <4>1, AncIs, Ancestry
      <4>4. ~(ChainWork[b] <= ChainWork[Parent[y]])
        BY <3>2, <4>1
      <4> QED BY <4>1, <4>2, <4>3, <4>4
    <3> HIDE DEF U
    <3> QED BY <3>1, <3>2, TreeInduction
  <2>2. t \in U
    <3>1. t \in Anc(t) /\ ChainWork[b] \in Nat /\ ChainWork[t] \in Nat
      BY <1>4, Ancestry, WorkIs
    <3> QED BY <1>3, <1>4, <1>5, <1>8, <3>1
  <2> QED BY <2>1, <2>2
<1>9. CASE ~(anc = p /\ p # t)
  <2>1. Off(p, t) = Anc(t) \ Anc(anc)
    <3>1. CASE anc = p
      <4>1. anc = t
        BY <1>9, <3>1
      <4> QED BY <3>1, <4>1 DEF Off
    <3>2. CASE anc # p
      BY <1>7, <3>2 DEF Off
    <3> QED BY <3>1, <3>2
  <2> DEFINE swap == Swapped(Off(p, t), On(p))
             rows == ClearTip(swap, p)
  <2>2. swap \in [Live -> LiveRow]
        /\ \A x \in Live : /\ swap[x].prev = live[x].prev /\ swap[x].tip = live[x].tip
                           /\ swap[x].active <=> x \in On(p) \/ (live[x].active /\ x \notin Off(p, t))
    <3>1. \A x \in Live : DOMAIN live[x] = {"active", "tip", "prev"} /\ live[x] \in LiveRow
      BY LinkedRows DEF HsInv
    <3>2. swap = [x \in Live |-> [live[x] EXCEPT !.active = x \in On(p) \/ (@ /\ x \notin Off(p, t))]]
      BY DEF Swapped, Live
    <3>3. \A x \in Live : (x \in On(p) \/ (live[x].active /\ x \notin Off(p, t))) \in BOOLEAN
      OBVIOUS
    <3> HIDE DEF swap
    <3> QED BY <3>1, <3>2, <3>3 DEF LiveRow
  <2>3. rows = [swap EXCEPT ![p].tip = FALSE] \/ (rows = swap /\ ~live[p].tip)
    <3> HIDE DEF swap
    <3> QED BY DEF ClearTip, ClearTipRow, HsInv
  <2>4. rows \in [Live -> LiveRow] /\ ~rows[p].tip
        /\ \A x \in Live : rows[x].prev = live[x].prev /\ rows[x].active = swap[x].active /\ rows[x].tip = (live[x].tip /\ x # p)
    <3>1. \A x \in Live : DOMAIN swap[x] = {"active", "tip", "prev"} /\ swap[x] \in LiveRow
      <4> HIDE DEF swap
      <4> QED BY <2>2 DEF LiveRow
    <3>2. CASE rows = swap /\ ~live[p].tip
      <4> HIDE DEF swap, rows
      <4> QED BY <1>1, <2>2, <3>1, <3>2 DEF LiveRow
    <3>3. CASE rows = [swap EXCEPT ![p].tip = FALSE]
      <4> HIDE DEF swap, rows
      <4>1. PICK one : one = [swap[p] EXCEPT !.tip = FALSE]
        OBVIOUS
      <4>2. one \in LiveRow /\ one.prev = swap[p].prev /\ one.active = swap[p].active /\ one.tip = FALSE
        BY <1>1, <3>1, <4>1 DEF LiveRow
      <4>3. rows = [swap EXCEPT ![p] = one]
        BY <3>3, <4>1
      <4>4. rows \in [Live -> LiveRow] /\ \A x \in Live : rows[x] = IF x = p THEN one ELSE swap[x]
        <5> HIDE DEF LiveRow, p
        <5> QED BY <1>1, <2>2, <4>2, <4>3
      <4>5. \A x \in Live : live[x].tip \in BOOLEAN
        <5>1. \A x \in Live : live[x] \in LiveRow
          BY LinkedRows DEF HsInv
        <5> QED BY <5>1 DEF LiveRow
      <4> HIDE DEF LiveRow
      <4> QED BY <1>1, <2>2, <4>2, <4>4, <4>5
    <3> QED BY <2>3, <3>2, <3>3
  <2>5. /\ Linked' /\ Live' = Live \cup {b} /\ live'[b].active /\ live'[b].tip
        /\ \A x \in Live : x # b /\ live'[x] = rows[x]
    <3>1. live' = Added(rows, b, p, TRUE)
      BY <1>3
    <3> HIDE DEF rows
    <3>2. AddsRow(b, TRUE, rows)
      BY <1>1, <2>4, <3>1 DEF AddsRow
    <3> QED BY <3>2, RowAdded DEF HsInv
  <2>6. ASSUME NEW x \in Live PROVE live'[x].active <=> x \in Anc(b)
    <3>1. live'[x].active <=> x \in On(p) \/ (live[x].active /\ x \notin Off(p, t))
      <4> HIDE DEF swap, rows
      <4> QED BY <2>2, <2>4, <2>5, <2>6
    <3>2. live[x].active <=> x \in Anc(t)
      BY <1>2, <2>6 DEF Best, Actives, Live
    <3>3. x \in Anc(b) <=> x \in Anc(p)
      BY <2>5, <2>6, AncIs
    <3> QED BY <1>6, <1>7, <2>1, <3>1, <3>2, <3>3
  <2>7. b \in Anc(b) /\ p \in Anc(b) /\ p # b
    BY <1>4, Ancestry, AncIs, HeightIs
  <2>8. Actives' = {x \in Live' : x \in Anc(b)}
    <3> HIDE DEF rows, swap
    <3>1. \A x \in Live' : live'[x].active <=> x \in Anc(b)
      BY <2>5, <2>6, <2>7
    <3> QED BY <3>1 DEF Actives, Live
  <2>9. Tips' = {b}
    <3>1. ASSUME NEW x \in Live, x \in Anc(b) PROVE ~live'[x].tip
      <4>1. live'[x].tip = (live[x].tip /\ x # p)
        <5> HIDE DEF rows
        <5> QED BY <2>4, <2>5, <3>1
      <4>2. x \in Anc(p)
        BY <2>5, <3>1, AncIs
      <4>3. x # p => \E y \in Live : Parent[y] = x
        BY <1>1, <4>2, ChildLives DEF HsInv
      <4>4. live[x].tip => x = p
        BY <4>3 DEF HsInv, Linked
      <4> QED BY <4>1, <4>4
    <3> HIDE DEF rows
    <3> QED BY <2>5, <2>7, <2>8, <3>1 DEF Tips
  <2>10. \A x \in Live' : ChainWork[x] <= ChainWork[b]
    <3>1. ASSUME NEW x \in Live PROVE ChainWork[x] <= ChainWork[b]
      <4>1. ChainWork[x] <= ChainWork[t] /\ ChainWork[x] \in Nat /\ ChainWork[t] \in Nat /\ ChainWork[b] \in Nat
        BY <1>2, <1>4, LinkedRows, WorkIs DEF Best, HsInv
      <4> QED BY <1>3, <4>1
    <3>2. ChainWork[b] <= ChainWork[b]
      BY <1>4, WorkIs
    <3> HIDE DEF rows
    <3> QED BY <2>5, <3>1, <3>2
  <2>11. Best(b)'
    <3> HIDE DEF rows
    <3> QED BY <2>5, <2>8, <2>9, <2>10 DEF Best
  <2> QED BY <2>5, <2>11 DEF OneTip
<1> QED BY <1>8, <1>9

\* The live rows stay, or the oldest of them are deleted.
LEMMA LiveStays ==
  ASSUME HsInv, live' = live
  PROVE  Linked' /\ OneTip'
<1>1. Live' = Live /\ Actives' = Actives /\ Tips' = Tips
  BY DEF Live, Actives, Tips
<1>2. Linked'
  BY <1>1 DEF HsInv, Linked
<1> QED BY <1>1, <1>2 DEF HsInv, OneTip, Best

LEMMA LiveFlushed ==
  ASSUME live' = <<>>
  PROVE  Linked' /\ OneTip'
<1>1. Live' = {}
  BY DEF Live
<1>2. live' \in [{} -> LiveRow] /\ IsFiniteSet({})
  BY FS_EmptySet
<1> QED BY <1>1, <1>2 DEF Linked, OneTip

LEMMA LastHeight ==
  ASSUME NEW q \in Seq(Block), q # <<>>
  PROVE  Height[Last(q)] \in Int
<1>1. Last(q) \in Block
  BY DEF Last
<1> QED BY <1>1, HeightIs DEF Header

LEMMA InsertKeeps ==
  ASSUME HsInv, SiblingsAlike, Insert
  PROVE  HsInv'
<1>1. PICK b \in Block : InsertFirst(b) \/ InsertSide(b) \/ InsertTip(b)
  BY DEF Insert
<1>2. Linked' /\ OneTip'
  BY <1>1, InsertFirstKeeps, InsertSideKeeps, InsertTipKeeps
<1>3. PruneOK'
  <2>1. CASE UNCHANGED prune
    BY <2>1 DEF HsInv, PruneOK
  <2>2. CASE StartPrune(b)
    BY <2>2 DEF StartPrune, HsInv, PruneOK
  <2> QED BY <1>1, <2>1, <2>2 DEF InsertFirst, InsertSide, InsertTip
<1> QED BY <1>2, <1>3 DEF HsInv, Insert

LEMMA IdleRecord == DOMAIN IdlePruner = {"pc", "top", "total", "run"} /\ IdlePruner.run \in Seq(Block)
<1>1. <<>> \in Seq(Block)
  OBVIOUS
<1> QED BY <1>1 DEF IdlePruner

LEMMA RoundKept ==
  ASSUME PruneOK, NEW p \in Pruners, NEW total, prune' = [prune EXCEPT ![p] = Again(@, total)]
  PROVE  PruneOK'
<1>1. PICK r : r = Again(prune[p], total)
  OBVIOUS
<1>2. DOMAIN r = {"pc", "top", "total", "run"} /\ r.run \in Seq(Block)
  BY <1>1 DEF Again, IdlePruner, PruneOK
<1>3. prune' = [prune EXCEPT ![p] = r]
  BY <1>1
<1> QED BY <1>2, <1>3 DEF PruneOK

LEMMA PruneKeeps ==
  ASSUME HsInv, HeavierIsHigher, Prune
  PROVE  HsInv'
<1>1. PICK p \in Pruners : PruneRange(p) \/ PruneRead(p) \/ PruneBulk(p) \/ PruneDelete(p)
  BY DEF Prune
<1>2. CASE PruneRange(p)
  <2>1. PruneOK' /\ live' = live /\ kind' = kind
    BY <1>2, RoundKept DEF PruneRange, HsInv
  <2> QED BY <2>1, LiveStays DEF HsInv
<1>3. CASE PruneRead(p)
  <2>1. live' = live /\ kind' = kind
    BY <1>3 DEF PruneRead
  <2>2. CASE migrating
    BY <1>3, <2>1, <2>2, LiveStays, RoundKept DEF PruneRead, HsInv
  <2>3. CASE ~migrating
    <3>1. PICK q : q = LiveForBulk(Chunk) /\ q \in Seq(Block)
      BY RunIsTyped
    <3>2. prune' = [prune EXCEPT ![p] = [@ EXCEPT !.pc = "bulk", !.run = q]]
      BY <1>3, <2>3, <3>1 DEF PruneRead
    <3>3. PruneOK'
      BY <3>1, <3>2 DEF PruneOK, HsInv
    <3> QED BY <2>1, <3>3, LiveStays DEF HsInv
  <2> QED BY <2>2, <2>3
<1>4. CASE PruneBulk(p)
  <2>1. live' = live /\ kind' = kind /\ (prune' = [prune EXCEPT ![p].pc = "delete"] \/ prune' = [prune EXCEPT ![p] = IdlePruner])
    BY <1>4 DEF PruneBulk
  <2>2. PICK r : prune' = [prune EXCEPT ![p] = r] /\ DOMAIN r = {"pc", "top", "total", "run"} /\ r.run \in Seq(Block)
    <3>1. CASE prune' = [prune EXCEPT ![p].pc = "delete"]
      <4>1. PICK r : r = [prune[p] EXCEPT !.pc = "delete"]
        OBVIOUS
      <4>2. DOMAIN r = {"pc", "top", "total", "run"} /\ r.run \in Seq(Block)
        BY <4>1 DEF HsInv, PruneOK
      <4>3. prune' = [prune EXCEPT ![p] = r]
        BY <3>1, <4>1
      <4> QED BY <4>2, <4>3
    <3>2. CASE prune' = [prune EXCEPT ![p] = IdlePruner]
      BY <3>2, IdleRecord
    <3> QED BY <2>1, <3>1, <3>2
  <2>3. PruneOK'
    BY <2>2 DEF HsInv, PruneOK
  <2> QED BY <2>1, <2>3, LiveStays DEF HsInv
<1>5. CASE PruneDelete(p)
  <2>1. CASE prune[p].run = <<>>
    <3>1. live' = live /\ kind' = kind /\ prune' = [prune EXCEPT ![p] = IdlePruner]
      BY <1>5, <2>1 DEF PruneDelete
    <3>2. PruneOK'
      BY <3>1 DEF HsInv, PruneOK, IdlePruner
    <3> QED BY <3>1, <3>2, LiveStays DEF HsInv
  <2>2. CASE prune[p].run # <<>>
    <3>1. PICK max \in Int : max = Height[Last(prune[p].run)]
      BY <2>2, LastHeight DEF HsInv, PruneOK
    <3>2. live' = DeleteOlder(max) /\ kind' = kind
      BY <1>5, <2>2, <3>1 DEF PruneDelete
    <3>3. PruneOK'
      BY <1>5, <2>2, RoundKept DEF PruneDelete, HsInv
    <3> QED BY <3>2, <3>3, OlderDeleted DEF HsInv
  <2> QED BY <2>1, <2>2
<1> QED BY <1>1, <1>2, <1>3, <1>4, <1>5

LEMMA SyncKeeps ==
  ASSUME HsInv, HeavierIsHigher, Sync
  PROVE  HsInv'
<1>1. CASE SyncFetch
  BY <1>1, LiveStays DEF SyncFetch, HsInv, PruneOK
<1>2. ASSUME NEW n \in Block, SyncStart(n) PROVE HsInv'
  <2>1. PICK run : /\ run = <<>> \/ \E count : run = LiveForBulk(count)
                   /\ live' = live \/ live' = <<>> \/ (run # <<>> /\ live' = DeleteOlder(Height[Last(run)]))
    <3> DEFINE excess == (LiveHigh - LiveLow + 1) - ReorgThreshold
               missing == Height[n] - LiveThreshold - BulkHigh
               count == IF excess < missing THEN excess ELSE missing
               run == IF count <= 0 \/ count > Chunk \/ migrating THEN <<>> ELSE LiveForBulk(count)
    <3>1. run = <<>> \/ \E c : run = LiveForBulk(c)
      <4> HIDE DEF count
      <4> QED OBVIOUS
    <3>2. live' = live \/ live' = <<>> \/ (run # <<>> /\ live' = DeleteOlder(Height[Last(run)]))
      BY <1>2 DEF SyncStart
    <3> HIDE DEF run
    <3> QED BY <3>1, <3>2
  <2>2. run \in Seq(Block)
    <3>1. CASE run = <<>>
      BY <3>1
    <3>2. CASE \E count : run = LiveForBulk(count)
      BY <3>2, RunIsTyped
    <3> QED BY <2>1, <3>1, <3>2
  <2>3. Linked' /\ OneTip'
    <3>1. CASE live' = live
      BY <3>1, LiveStays
    <3>2. CASE live' = <<>>
      BY <3>2, LiveFlushed
    <3>3. CASE run # <<>> /\ live' = DeleteOlder(Height[Last(run)])
      <4>1. Height[Last(run)] \in Int
        BY <2>2, <3>3, LastHeight
      <4>2. PICK max \in Int : max = Height[Last(run)]
        BY <4>1
      <4>3. live' = DeleteOlder(max)
        BY <3>3, <4>2
      <4> QED BY <4>3, OlderDeleted
    <3> QED BY <2>1, <3>1, <3>2, <3>3
  <2> QED BY <1>2, <2>3 DEF SyncStart, HsInv, PruneOK
<1> QED BY <1>1, <1>2 DEF Sync

LEMMA ChainStart == Kinds = {"sql"} /\ Init => HsInv
<1> SUFFICES ASSUME Kinds = {"sql"}, Init PROVE HsInv
  OBVIOUS
<1>1. Live = {}
  BY DEF Init, Live
<1>2. Linked
  <2>1. live \in [{} -> LiveRow] /\ IsFiniteSet({})
    BY FS_EmptySet DEF Init
  <2> QED BY <1>1, <2>1 DEF Linked
<1>3. PruneOK
  BY IdleRecord DEF Init, PruneOK
<1> QED BY <1>1, <1>2, <1>3 DEF HsInv, OneTip, Init

LEMMA ChainStep == SiblingsAlike /\ HeavierIsHigher /\ HsInv /\ [Next]_vars => HsInv'
<1> SUFFICES ASSUME SiblingsAlike, HeavierIsHigher, HsInv, [Next]_vars PROVE HsInv'
  OBVIOUS
<1>1. CASE UNCHANGED vars
  BY <1>1, LiveStays DEF vars, HsInv, PruneOK
<1>2. CASE Next
  BY <1>2, InsertKeeps, PruneKeeps, SyncKeeps DEF Next
<1> QED BY <1>1, <1>2

\* In the SQL store the active headers are one chain, below its heaviest header, and
\* live storage that is not empty has a tip: for any tree of headers, thresholds and
\* pruning tasks, when siblings have the same bits and a heavier header is never
\* lower (insertHeader, pruneLiveBlockHeaders, BulkIngestorBase.synchronize).
THEOREM ChainIsOne == Kinds = {"sql"} /\ SiblingsAlike /\ HeavierIsHigher => (Spec => []ActiveChain)
<1>1. HsInv => ActiveChain
  <2> SUFFICES ASSUME HsInv, live # <<>> PROVE ActiveChain
    BY DEF ActiveChain
  <2>1. Live # {}
    <3> SUFFICES ASSUME Live = {} PROVE FALSE
      OBVIOUS
    <3>1. live \in [{} -> LiveRow]
      BY DEF HsInv, Linked
    <3>2. live \in [1..0 -> LiveRow]
      BY <3>1
    <3>3. live \in Seq(LiveRow) /\ Len(live) = 0
      BY <3>2
    <3> QED BY <3>3
  <2>2. PICK t : Best(t)
    BY <2>1 DEF HsInv, OneTip
  <2>3. Actives = {b \in DOMAIN live : b \in Range(Branch[t])}
    BY <2>2 DEF Best, Anc, Live
  <2> QED BY <2>2, <2>3 DEF ActiveChain, Best, Live
<1>2. Kinds = {"sql"} /\ SiblingsAlike /\ HeavierIsHigher /\ Spec => []HsInv
  <2> SUFFICES ASSUME Kinds = {"sql"}, SiblingsAlike, HeavierIsHigher PROVE Spec => []HsInv
    OBVIOUS
  <2>1. Init => HsInv
    BY ChainStart
  <2>2. HsInv /\ [Next]_vars => HsInv'
    BY ChainStep
  <2> QED BY <2>1, <2>2, PTL DEF Spec
<1> QED BY <1>1, <1>2, PTL

-----------------------------------------------------------------------------
(* Bulk files.                                                             *)

FileRec  == [cdn: BOOLEAN, first: Nat, count: Nat, id: Nat]
RowRec   == [cdn: BOOLEAN, first: Nat, count: Nat]
WriteRec == [op: {"insert", "update"}, id: Nat, row: RowRec, at: Nat]
            \cup [op: {"delete"}, id: Nat, row: {<<>>}, at: {0}]

\* Files are in the order of their heights and leave no height out; they may overlap,
\* since a crash can fall between the row that grows and the one that shrinks.
Lined(fs) ==
  /\ \A i, j \in 1..Len(fs) : i <= j => fs[i].first <= fs[j].first
  /\ \A i \in 2..Len(fs) : \E j \in 1..i - 1 : fs[i].first <= Upto(fs[j])

BulkInv ==
  /\ files \in Seq(FileRec) /\ Lined(files)
  /\ table \in [DOMAIN table -> RowRec] /\ DOMAIN table \subseteq Nat /\ IsFiniteSet(DOMAIN table)
  /\ nextId \in Nat /\ cdn \in Nat
  /\ todo \in Seq(FileRec) /\ writes \in Seq(WriteRec)

\* The heights of a list of files.
InFiles(fs) == {h \in Nat : \E i \in 1..Len(fs) : fs[i].first <= h /\ h < Upto(fs[i])}

LEMMA FileIs ==
  ASSUME NEW f \in FileRec
  PROVE  /\ f.cdn \in BOOLEAN /\ f.first \in Nat /\ f.count \in Nat /\ f.id \in Nat
         /\ Upto(f) = f.first + f.count /\ Upto(f) \in Nat /\ Row(f) \in RowRec
BY DEF FileRec, RowRec, Upto, Row

LEMMA FileMade ==
  ASSUME NEW c \in BOOLEAN, NEW a \in Nat, NEW n \in Nat
  PROVE  File(c, a, n) \in FileRec /\ File(c, a, n).cdn = c /\ File(c, a, n).first = a /\ File(c, a, n).count = n
BY DEF File, FileRec, NoId

LEMMA InFilesAre ==
  ASSUME NEW fs \in Seq(FileRec)
  PROVE  UNION {fs[i].first..Upto(fs[i]) - 1 : i \in DOMAIN fs} = InFiles(fs)
<1>1. DOMAIN fs = 1..Len(fs) /\ \A i \in DOMAIN fs : fs[i] \in FileRec
  OBVIOUS
<1>2. \A i \in DOMAIN fs : fs[i].first \in Nat /\ Upto(fs[i]) \in Nat
  BY <1>1, FileIs
<1>3. \A i \in DOMAIN fs : fs[i].first..Upto(fs[i]) - 1 = {h \in Nat : fs[i].first <= h /\ h < Upto(fs[i])}
  BY <1>2
<1> QED BY <1>1, <1>3 DEF InFiles

LEMMA WritesTyped ==
  ASSUME NEW f \in FileRec, NEW id \in Nat, NEW at \in Nat
  PROVE  /\ Persist(PutRow(id, Row(f))) \in Seq(WriteRec)
         /\ Persist(InsertRow(Row(f), at)) \in Seq(WriteRec)
         /\ Persist(DropRow(id)) \in Seq(WriteRec)
         /\ InsertRow(Row(f), at) \in WriteRec /\ DropRow(id) \in WriteRec
<1>1. PutRow(id, Row(f)) \in WriteRec /\ InsertRow(Row(f), at) \in WriteRec /\ DropRow(id) \in WriteRec
  BY FileIs DEF PutRow, InsertRow, DropRow, WriteRec, NoId
<1> QED BY <1>1 DEF Persist

\* The files of the CDN follow one another.
LEMMA CdnLined ==
  ASSUME NEW n \in Nat
  PROVE  CdnFiles(n) \in Seq(FileRec) /\ Lined(CdnFiles(n))
<1> PICK M : M = MaxPerFile /\ M \in Nat /\ M > 0
  BY BulkAssumption
<1> PICK D : D = (n + M - 1) \div M
  OBVIOUS
<1>1. D \in Nat /\ D * M <= n + M - 1
  OBVIOUS
<1> DEFINE first(i) == (i - 1) * M
           size(i) == IF n - first(i) < M THEN n - first(i) ELSE M
<1>2. \A i \in 1..D : i * M <= D * M
  BY <1>1
<1>3. \A i \in 1..D : first(i) = i * M - M /\ first(i) \in Nat /\ first(i) < n
  <2> SUFFICES ASSUME NEW i \in 1..D PROVE first(i) = i * M - M /\ first(i) \in Nat /\ first(i) < n
    OBVIOUS
  <2>1. first(i) = i * M - M
    OBVIOUS
  <2>2. first(i) \in Nat
    OBVIOUS
  <2>3. i * M <= n + M - 1 /\ i * M \in Nat /\ D * M \in Nat
    BY <1>1, <1>2
  <2> HIDE DEF first
  <2> QED BY <2>1, <2>2, <2>3
<1>4. \A i \in 1..D : size(i) \in Nat
  <2> HIDE DEF first
  <2> QED BY <1>3
<1>5. \A i \in 2..D : i - 1 \in 1..D /\ size(i - 1) = M /\ first(i) = first(i - 1) + M
  <2> SUFFICES ASSUME NEW i \in 2..D PROVE i - 1 \in 1..D /\ size(i - 1) = M /\ first(i) = first(i - 1) + M
    OBVIOUS
  <2>1. i - 1 \in 1..D /\ i \in 1..D
    BY <1>1
  <2>2. first(i) = first(i - 1) + M
    OBVIOUS
  <2>3. first(i) < n /\ first(i - 1) \in Nat
    BY <1>3, <2>1
  <2> HIDE DEF first
  <2> QED BY <2>1, <2>2, <2>3
<1>6. CdnFiles(n) = [i \in 1..D |-> File(TRUE, first(i), size(i))]
  BY DEF CdnFiles
<1>7. \A i, j \in 1..D : i <= j => first(i) <= first(j)
  OBVIOUS
<1> HIDE DEF first, size
<1>8. ASSUME NEW i \in 1..D
      PROVE  /\ File(TRUE, first(i), size(i)) \in FileRec
             /\ File(TRUE, first(i), size(i)).first = first(i)
             /\ File(TRUE, first(i), size(i)).count = size(i)
  <2>1. TRUE \in BOOLEAN /\ first(i) \in Nat /\ size(i) \in Nat
    BY <1>3, <1>4
  <2> QED BY <2>1, FileMade
<1>9. /\ Len(CdnFiles(n)) = D /\ CdnFiles(n) \in Seq(FileRec)
      /\ \A i \in 1..D : CdnFiles(n)[i].first = first(i) /\ CdnFiles(n)[i].count = size(i)
  <2> DEFINE fs == [i \in 1..D |-> File(TRUE, first(i), size(i))]
  <2>1. fs \in [1..D -> FileRec] /\ \A i \in 1..D : fs[i] = File(TRUE, first(i), size(i))
    BY <1>8
  <2>2. CdnFiles(n) = fs
    BY <1>6
  <2> HIDE DEF fs
  <2>3. fs \in Seq(FileRec) /\ Len(fs) = D
    BY <1>1, <2>1
  <2> QED BY <1>8, <2>1, <2>2, <2>3
<1>10. ASSUME NEW i \in 2..D PROVE \E j \in 1..i - 1 : CdnFiles(n)[i].first <= Upto(CdnFiles(n)[j])
  <2>1. i - 1 \in 1..i - 1 /\ i \in 1..D /\ i - 1 \in 1..D
    BY <1>1
  <2>2. CdnFiles(n)[i].first = Upto(CdnFiles(n)[i - 1]) /\ first(i) \in Nat
    BY <1>3, <1>5, <1>9, <2>1 DEF Upto
  <2> QED BY <1>9, <2>1, <2>2
<1> QED BY <1>7, <1>9, <1>10 DEF Lined

\* A row that comes before another has a lower place, so rows read by firstHeight
\* are in the order of their heights.
LEMMA RowsLined ==
  ASSUME BulkInv, ~HasGap(Rows)
  PROVE  Rows \in Seq(FileRec) /\ Lined(Rows)
<1> PICK S : S = DOMAIN table
  OBVIOUS
<1> DEFINE R == {p \in S \X S : \/ table[p[1]].first < table[p[2]].first
                                \/ table[p[1]].first = table[p[2]].first /\ p[1] < p[2]}
           place(i) == Cardinality(RowsBefore(i))
           at(n) == CHOOSE i \in S : place(i) = n - 1
           N == Cardinality(S)
           file(i) == [cdn |-> table[i].cdn, first |-> table[i].first, count |-> table[i].count, id |-> i]
<1>1. IsFiniteSet(S) /\ S \subseteq Nat /\ N \in Nat
  BY FS_CardinalityType DEF BulkInv
<1>2. \A i \in S : table[i].cdn \in BOOLEAN /\ table[i].first \in Nat /\ table[i].count \in Nat
  BY DEF BulkInv, RowRec
<1>3. \A i \in S : RowsBefore(i) = {j \in S : <<j, i>> \in R}
  BY DEF RowsBefore
<1>4. /\ \A i \in S : <<i, i>> \notin R
      /\ \A i, j \in S : i # j => <<i, j>> \in R \/ <<j, i>> \in R
      /\ \A i, j, k \in S : <<i, j>> \in R /\ <<j, k>> \in R => <<i, k>> \in R
  BY <1>1, <1>2
<1>5. \A n \in 1..N : at(n) \in S /\ place(at(n)) = n - 1
  <2>1. \A n \in 1..Cardinality(S) : \E i \in S : Cardinality(Earlier(S, R, i)) = n - 1
    <3>1. PICK T : T = R
      OBVIOUS
    <3> HIDE DEF R
    <3>2. /\ \A i \in S : <<i, i>> \notin T
          /\ \A i, j \in S : i # j => <<i, j>> \in T \/ <<j, i>> \in T
          /\ \A i, j, k \in S : <<i, j>> \in T /\ <<j, k>> \in T => <<i, k>> \in T
      BY <1>4, <3>1
    <3>3. IsFiniteSet(S)
      BY <1>1
    <3>4. \A n \in 1..Cardinality(S) : \E i \in S : Cardinality(Earlier(S, T, i)) = n - 1
      BY <3>2, <3>3, PlaceTaken
    <3> QED BY <3>1, <3>4
  <2>2. \A n \in 1..N : \E i \in S : place(i) = n - 1
    <3> HIDE DEF R
    <3> QED BY <1>3, <2>1 DEF Earlier
  <2> HIDE DEF place
  <2> QED BY <2>2
<1>6. ASSUME NEW i \in S, NEW j \in S, table[i].first < table[j].first PROVE place(i) < place(j)
  <2>1. RowsBefore(i) \subseteq RowsBefore(j) /\ i \in RowsBefore(j) /\ i \notin RowsBefore(i)
        /\ RowsBefore(j) \subseteq S
    BY <1>1, <1>2, <1>6 DEF RowsBefore
  <2>2. IsFiniteSet(RowsBefore(j))
    BY <1>1, <2>1, FS_Subset
  <2>3. /\ place(i) <= place(j) /\ place(i) # place(j)
        /\ place(i) \in Nat /\ place(j) \in Nat
    BY <2>1, <2>2, FS_Subset, FS_CardinalityType
  <2> QED BY <2>3
<1>7. \A i \in S : file(i) \in FileRec /\ file(i).first = table[i].first
  BY <1>1, <1>2 DEF FileRec
<1>8. Rows = [n \in 1..N |-> file(at(n))]
  BY DEF Rows
<1> HIDE DEF at, file, place
<1>9. Rows \in Seq(FileRec) /\ Len(Rows) = N /\ \A n \in 1..N : Rows[n] = file(at(n))
  <2>1. \A n \in 1..N : file(at(n)) \in FileRec
    BY <1>5, <1>7
  <2>2. N \in Nat
    BY <1>1
  <2> HIDE DEF N
  <2> QED BY <1>8, <2>1, <2>2
<1>10. ASSUME NEW n \in 1..N, NEW m \in 1..N, n <= m PROVE Rows[n].first <= Rows[m].first
  <2>1. at(n) \in S /\ at(m) \in S /\ place(at(n)) = n - 1 /\ place(at(m)) = m - 1
    BY <1>5
  <2>2. ~(table[at(m)].first < table[at(n)].first)
    BY <1>1, <1>6, <1>10, <2>1
  <2> QED BY <1>2, <1>7, <1>9, <2>1, <2>2
<1>11. ASSUME NEW i \in 2..N PROVE \E j \in 1..i - 1 : Rows[i].first <= Upto(Rows[j])
  <2>1. \E j \in 1..i - 1 : ~(Upto(Rows[j]) < Rows[i].first)
    BY <1>9, <1>11 DEF HasGap
  <2>2. PICK j \in 1..i - 1 : ~(Upto(Rows[j]) < Rows[i].first)
    BY <2>1
  <2>3. i \in 1..N /\ j \in 1..N
    BY <1>1, <1>11, <2>2
  <2>4. Rows[i] \in FileRec /\ Rows[j] \in FileRec
    BY <1>9, <2>3
  <2>5. Upto(Rows[j]) \in Nat /\ Rows[i].first \in Nat
    BY <2>4, FileIs
  <2> QED BY <2>2, <2>5
<1> QED BY <1>9, <1>10, <1>11 DEF Lined

\* The file that is found holds the height, and none before it does.
LEMMA FoundFile ==
  ASSUME files \in Seq(FileRec), NEW h \in Nat, NEW k, k = FileAt(h), k # 0
  PROVE  /\ k \in 1..Len(files) /\ files[k].first <= h /\ h < Upto(files[k])
         /\ \A j \in 1..Len(files) : j < k => ~(files[j].first <= h /\ h < Upto(files[j]))
<1> DEFINE at == {i \in DOMAIN files : files[i].first <= h /\ h < Upto(files[i])}
           Less == {p \in Nat \X Nat : p[1] < p[2]}
<1>1. at # {} /\ at \subseteq Nat /\ DOMAIN files = 1..Len(files)
  BY DEF FileAt
<1>2. IsWellFoundedOn(Less, Nat)
  BY NatLessThanWellFounded DEF OpToRel
<1>3. PICK m \in at : \A j \in at : <<j, m>> \notin Less
  <2> HIDE DEF at, Less
  <2> QED BY ONLY <1>1, <1>2, WFMin
<1>4. \A j \in at : m <= j
  <2>1. \A j \in at : j \in Nat /\ m \in Nat /\ ~(j < m)
    BY <1>1, <1>3
  <2> QED BY <2>1
<1>5. k = CHOOSE i \in at : \A j \in at : i <= j
  BY <1>1 DEF FileAt
<1>6. k \in at /\ \A j \in at : k <= j
  <2> HIDE DEF at
  <2> QED BY <1>4, <1>5
<1> QED BY <1>1, <1>6

\* Two lists of files with the same first m.
Agree(gs, fs, m) == \A k \in 1..m : gs[k] = fs[k]

\* A list stays lined up when it is cut, or goes on after the cut with one file that
\* some file before it reaches.
LEMMA Relined ==
  ASSUME NEW fs \in Seq(FileRec), Lined(fs), NEW gs \in Seq(FileRec), NEW m \in Nat,
         m <= Len(fs), Agree(gs, fs, m), Len(gs) = m \/ Len(gs) = m + 1,
         Len(gs) = m + 1 /\ m > 0 => /\ gs[m].first <= gs[m + 1].first
                                     /\ \E j \in 1..m : gs[m + 1].first <= Upto(gs[j])
  PROVE  Lined(gs)
<1>1. \A k \in 1..m : gs[k] = fs[k] /\ k \in 1..Len(fs) /\ gs[k].first \in Nat
  <2>1. \A k \in 1..m : gs[k] = fs[k] /\ k \in 1..Len(fs) /\ fs[k] \in FileRec
    BY DEF Agree
  <2> QED BY <2>1, FileIs
<1>2. Len(gs) = m + 1 => gs[m + 1].first \in Nat
  <2>1. Len(gs) = m + 1 => gs[m + 1] \in FileRec
    OBVIOUS
  <2> QED BY <2>1, FileIs
<1>3. ASSUME NEW i \in 1..Len(gs), NEW j \in 1..Len(gs), i <= j PROVE gs[i].first <= gs[j].first
  <2>1. CASE j \in 1..m
    <3>1. i \in 1..m
      BY <1>3, <2>1
    <3> QED BY <1>1, <1>3, <2>1, <3>1 DEF Lined
  <2>2. CASE i \in 1..m /\ j = m + 1
    <3>1. m \in 1..m /\ m > 0 /\ i <= m /\ Len(gs) = m + 1
      BY <1>3, <2>2
    <3>2. fs[i].first <= fs[m].first
      BY <1>1, <2>2, <3>1 DEF Lined
    <3> QED BY <1>1, <1>2, <2>2, <3>1, <3>2
  <2>3. CASE i = m + 1 /\ j = m + 1
    BY <1>2, <1>3, <2>3
  <2> QED BY <1>3, <2>1, <2>2, <2>3
<1>4. ASSUME NEW i \in 2..Len(gs) PROVE \E j \in 1..i - 1 : gs[i].first <= Upto(gs[j])
  <2>1. CASE i = m + 1
    <3>1. Len(gs) = m + 1 /\ m > 0 /\ i - 1 = m
      BY <1>4, <2>1
    <3> QED BY <2>1, <3>1
  <2>2. CASE i # m + 1
    <3>1. i \in 2..Len(fs) /\ i \in 1..m
      BY <1>4, <2>2
    <3>2. PICK j \in 1..i - 1 : fs[i].first <= Upto(fs[j])
      BY <3>1 DEF Lined
    <3>3. j \in 1..m
      BY <3>1, <3>2
    <3> QED BY <1>1, <3>1, <3>2, <3>3
  <2> QED BY <2>1, <2>2
<1> QED BY <1>3, <1>4 DEF Lined

\* So does one whose last file is exchanged for one at the same height.
LEMMA LastReplaced ==
  ASSUME NEW fs \in Seq(FileRec), Lined(fs), NEW gs \in Seq(FileRec), NEW n \in Nat, n > 0,
         Len(fs) = n, Len(gs) = n, Agree(gs, fs, n - 1), gs[n].first = fs[n].first
  PROVE  Lined(gs)
<1>1. n - 1 \in Nat /\ n \in 1..Len(fs) /\ \A k \in 1..n - 1 : k \in 1..Len(fs) /\ gs[k] = fs[k]
  BY DEF Agree
<1>2. ASSUME n - 1 > 0
      PROVE  gs[n - 1].first <= gs[n].first /\ \E j \in 1..n - 1 : gs[n].first <= Upto(gs[j])
  <2>1. n \in 2..Len(fs) /\ n - 1 \in 1..Len(fs) /\ n - 1 \in 1..n - 1
    BY <1>1, <1>2
  <2>2. fs[n - 1].first <= fs[n].first
    BY <1>1, <2>1 DEF Lined
  <2>3. PICK j \in 1..n - 1 : fs[n].first <= Upto(fs[j])
    BY <2>1 DEF Lined
  <2> QED BY <1>1, <2>1, <2>2, <2>3
<1>3. PICK m \in Nat : m = n - 1
  BY <1>1
<1>4. m <= Len(fs) /\ Agree(gs, fs, m) /\ Len(gs) = m + 1
  BY <1>3
<1>5. m > 0 => gs[m].first <= gs[m + 1].first /\ \E j \in 1..m : gs[m + 1].first <= Upto(gs[j])
  <2>1. m + 1 = n
    BY <1>3
  <2> QED BY <1>2, <1>3, <2>1
<1> QED BY <1>4, <1>5, Relined

\* What a merge of one file has to keep.
Merges ==
  /\ files' \in Seq(FileRec) /\ Lined(files') /\ writes' \in Seq(WriteRec)
  /\ InFiles(files) \subseteq InFiles(files')

LEMMA AddMerges ==
  ASSUME BulkInv, NEW f \in FileRec, Add(f)
  PROVE  Merges
<1> PICK n \in Nat : n = Len(files)
  BY DEF BulkInv
<1> PICK gs : gs = files'
  OBVIOUS
<1>1. f.first = High /\ gs = Append(files, f) /\ writes' = Persist(InsertRow(Row(f), n + 1))
  BY DEF Add, Rewrite
<1>2. files \in Seq(FileRec) /\ Lined(files)
  BY DEF BulkInv
<1>3. ASSUME n > 0 PROVE files[n].first <= f.first /\ f.first <= Upto(files[n])
  <2>1. High = Upto(files[n]) /\ files[n] \in FileRec
    BY <1>2, <1>3 DEF High, Last
  <2>2. files[n].first \in Nat /\ files[n].count \in Nat /\ Upto(files[n]) = files[n].first + files[n].count
    BY <2>1, FileIs
  <2> QED BY <1>1, <2>1, <2>2
<1>4. gs \in Seq(FileRec) /\ Len(gs) = n + 1 /\ gs[n + 1] = f /\ \A k \in 1..n : gs[k] = files[k]
  BY <1>1, <1>2
<1>5. Agree(gs, files, n)
  BY <1>4 DEF Agree
<1>6. n > 0 => gs[n].first <= gs[n + 1].first /\ \E j \in 1..n : gs[n + 1].first <= Upto(gs[j])
  <2>1. n > 0 => n \in 1..n
    OBVIOUS
  <2> QED BY <1>3, <1>4, <2>1
<1>7. Lined(gs)
  BY <1>2, <1>4, <1>5, <1>6, Relined
<1>8. InFiles(files) \subseteq InFiles(gs)
  BY <1>4 DEF InFiles
<1>9. writes' \in Seq(WriteRec)
  BY <1>1, WritesTyped, n + 1 \in Nat, 0 \in Nat
<1> QED BY <1>4, <1>7, <1>8, <1>9 DEF Merges

\* A last file at the same height that holds as many headers keeps them all.
LEMMA LastGrows ==
  ASSUME NEW fs \in Seq(FileRec), Lined(fs), fs # <<>>, NEW l \in FileRec, NEW gs,
         gs = [fs EXCEPT ![Len(fs)] = l],
         l.first = fs[Len(fs)].first, l.count >= fs[Len(fs)].count
  PROVE  gs \in Seq(FileRec) /\ Lined(gs) /\ InFiles(fs) \subseteq InFiles(gs)
<1> PICK n \in Nat : n = Len(fs)
  OBVIOUS
<1>1. n > 0 /\ n \in 1..n /\ fs[n] \in FileRec
  OBVIOUS
<1>2. gs \in Seq(FileRec) /\ Len(gs) = n /\ gs[n] = l /\ \A k \in 1..n - 1 : gs[k] = fs[k]
  BY <1>1
<1>3. Agree(gs, fs, n - 1)
  BY <1>2 DEF Agree
<1>4. Lined(gs)
  BY <1>1, <1>2, <1>3, LastReplaced
<1>5. ASSUME NEW h \in InFiles(fs) PROVE h \in InFiles(gs)
  <2>1. PICK k \in 1..n : fs[k].first <= h /\ h < Upto(fs[k])
    BY DEF InFiles
  <2>2. h \in Nat
    BY DEF InFiles
  <2>3. CASE k = n
    <3>1. /\ Upto(fs[n]) = fs[n].first + fs[n].count /\ Upto(l) = l.first + l.count
          /\ fs[n].count \in Nat /\ fs[n].first \in Nat /\ l.count \in Nat
      BY <1>1, FileIs
    <3>2. gs[n].first <= h /\ h < Upto(gs[n])
      BY <1>2, <2>1, <2>2, <2>3, <3>1
    <3> QED BY <1>1, <1>2, <2>2, <3>2 DEF InFiles
  <2>4. CASE k # n
    <3>1. k \in 1..n - 1 /\ gs[k] = fs[k]
      BY <1>2, <2>1, <2>4
    <3> QED BY <1>2, <2>1, <2>2, <3>1 DEF InFiles
  <2> QED BY <2>3, <2>4
<1> QED BY <1>2, <1>4, <1>5

LEMMA IncrementalMerges ==
  ASSUME BulkInv, NEW f \in FileRec, files # <<>>, MergeIncremental(f)
  PROVE  Merges
<1> PICK n : n = Len(files) /\ n \in Nat /\ n > 0
  BY DEF BulkInv
<1> PICK l : l = [files[n] EXCEPT !.count = @ + f.count]
  OBVIOUS
<1>1. files' = [files EXCEPT ![Len(files)] = l] /\ writes' = Persist(PutRow(l.id, Row(l)))
  BY DEF MergeIncremental, Rewrite
<1>2. files \in Seq(FileRec) /\ Lined(files) /\ files[n] \in FileRec
  BY DEF BulkInv
<1>3. l \in FileRec /\ l.first = files[n].first /\ l.count = files[n].count + f.count
  <2>1. l = [cdn |-> files[n].cdn, first |-> files[n].first, count |-> files[n].count + f.count, id |-> files[n].id]
    BY <1>2 DEF FileRec
  <2>2. files[n].count + f.count \in Nat /\ files[n].cdn \in BOOLEAN /\ files[n].first \in Nat /\ files[n].id \in Nat
    BY <1>2, FileIs
  <2> QED BY <2>1, <2>2 DEF FileRec
<1>4. l.count >= files[n].count /\ l.id \in Nat
  BY <1>2, <1>3, FileIs
<1>5. files' \in Seq(FileRec) /\ Lined(files') /\ InFiles(files) \subseteq InFiles(files')
  BY <1>1, <1>2, <1>3, <1>4, LastGrows
<1>6. writes' \in Seq(WriteRec)
  BY <1>1, <1>3, <1>4, WritesTyped, 0 \in Nat
<1> QED BY <1>5, <1>6 DEF Merges

LEMMA ReplaceMerges ==
  ASSUME BulkInv, NEW f \in FileRec, files # <<>>, f.first = files[Len(files)].first,
         f.count >= files[Len(files)].count, ReplaceLast(f)
  PROVE  Merges
<1>1. files' = [files EXCEPT ![Len(files)] = f] /\ writes' = Persist(PutRow(f.id, Row(f)))
  BY DEF ReplaceLast, Rewrite
<1>2. files' \in Seq(FileRec) /\ Lined(files') /\ InFiles(files) \subseteq InFiles(files')
  BY <1>1, LastGrows DEF BulkInv
<1>3. writes' \in Seq(WriteRec)
  BY <1>1, FileIs, WritesTyped, 0 \in Nat
<1> QED BY <1>2, <1>3 DEF Merges

\* What is left of a file above its first d headers.
Above(l, d, id) == [l EXCEPT !.first = @ + d, !.count = @ - d, !.id = id]

LEMMA RestIs ==
  ASSUME NEW l \in FileRec, NEW d \in Nat, d <= l.count, NEW id \in Nat
  PROVE  /\ Above(l, d, id) \in FileRec /\ Upto(Above(l, d, id)) = Upto(l)
         /\ Above(l, d, id).first = l.first + d /\ Above(l, d, id).id = id
<1> PICK r : r = Above(l, d, id)
  OBVIOUS
<1>1. r = [cdn |-> l.cdn, first |-> l.first + d, count |-> l.count - d, id |-> id]
  BY DEF FileRec, Above
<1>2. l.cdn \in BOOLEAN /\ l.first \in Nat /\ l.count \in Nat
  BY FileIs
<1>3. l.first + d \in Nat /\ l.count - d \in Nat
  BY <1>2
<1>4. r \in FileRec
  BY <1>1, <1>2, <1>3 DEF FileRec
<1>5. r.first = l.first + d /\ r.count = l.count - d /\ r.id = id
  BY <1>1
<1> QED BY <1>2, <1>4, <1>5 DEF Upto

\* The new file and what is left of the last one hold what the last one held.
LEMMA SplitMerges ==
  ASSUME BulkInv, NEW f \in FileRec, files # <<>>, f.first = files[Len(files)].first,
         f.count < files[Len(files)].count, SplitLast(f)
  PROVE  Merges
<1> PICK n \in Nat : n = Len(files) /\ n > 0
  BY DEF BulkInv
<1> PICK rest : rest = Above(files[n], f.count, NoId)
  OBVIOUS
<1> PICK gs : gs = [files EXCEPT ![n] = f]
  OBVIOUS
<1> PICK fs : fs = files'
  OBVIOUS
<1>1. fs = Append(gs, rest)
      /\ writes' = Persist(PutRow(f.id, Row(f))) \o Persist(InsertRow(Row(rest), n + 1))
  BY DEF SplitLast, Rewrite, Above
<1>2. files \in Seq(FileRec) /\ Lined(files) /\ files[n] \in FileRec
  BY DEF BulkInv
<1>3. /\ files[n].first \in Nat /\ files[n].count \in Nat /\ f.count \in Nat /\ f.first \in Nat /\ f.id \in Nat
      /\ Upto(f) = f.first + f.count /\ Upto(files[n]) = files[n].first + files[n].count
  BY <1>2, FileIs
<1>4. rest \in FileRec /\ Upto(rest) = Upto(files[n]) /\ rest.first = files[n].first + f.count
  <2>1. NoId \in Nat /\ f.count <= files[n].count
    BY <1>3 DEF NoId
  <2> QED BY <1>2, <1>3, <2>1, RestIs
<1>5. gs \in Seq(FileRec) /\ Len(gs) = n /\ gs[n] = f /\ \A k \in 1..n - 1 : gs[k] = files[k]
  BY <1>2
<1>6. Agree(gs, files, n - 1) /\ gs[n].first = files[n].first
  BY <1>5 DEF Agree
<1>7. Lined(gs)
  BY <1>2, <1>5, <1>6, LastReplaced
<1>8. fs \in Seq(FileRec) /\ Len(fs) = n + 1 /\ fs[n + 1] = rest /\ \A k \in 1..n : fs[k] = gs[k]
  BY <1>1, <1>4, <1>5
<1>9. n \in 1..n /\ fs[n].first <= fs[n + 1].first /\ fs[n + 1].first <= Upto(fs[n])
  BY <1>3, <1>4, <1>5, <1>8
<1>10. Agree(fs, gs, n)
  BY <1>8 DEF Agree
<1>11. Lined(fs)
  <2>1. n <= Len(gs) /\ \E j \in 1..n : fs[n + 1].first <= Upto(fs[j])
    BY <1>5, <1>9
  <2> QED BY <1>5, <1>7, <1>8, <1>9, <1>10, <2>1, Relined
<1>12. ASSUME NEW h \in InFiles(files) PROVE h \in InFiles(fs)
  <2>1. PICK k \in 1..n : files[k].first <= h /\ h < Upto(files[k])
    BY DEF InFiles
  <2>2. h \in Nat
    BY DEF InFiles
  <2>3. CASE k # n
    <3>1. k \in 1..n - 1 /\ k \in 1..n + 1 /\ fs[k] = files[k]
      BY <1>5, <1>8, <2>1, <2>3
    <3> QED BY <1>8, <2>1, <2>2, <3>1 DEF InFiles
  <2>4. CASE k = n /\ h < Upto(f)
    <3>1. n \in 1..n + 1 /\ fs[n] = f
      BY <1>5, <1>8
    <3> QED BY <1>8, <2>1, <2>2, <2>4, <3>1 DEF InFiles
  <2>5. CASE k = n /\ ~(h < Upto(f))
    <3>1. n + 1 \in 1..n + 1 /\ rest.first <= h /\ h < Upto(rest)
      BY <1>3, <1>4, <2>1, <2>2, <2>5
    <3> QED BY <1>8, <2>2, <3>1 DEF InFiles
  <2> QED BY <2>3, <2>4, <2>5
<1>13. writes' \in Seq(WriteRec)
  <2>1. Persist(PutRow(f.id, Row(f))) \in Seq(WriteRec)
    BY <1>3, WritesTyped, 0 \in Nat
  <2>2. Persist(InsertRow(Row(rest), n + 1)) \in Seq(WriteRec)
    BY <1>4, WritesTyped, 0 \in Nat, n + 1 \in Nat
  <2> QED BY <1>1, <2>1, <2>2
<1> QED BY <1>8, <1>11, <1>12, <1>13 DEF Merges

LEMMA SeqSet ==
  ASSUME NEW T, NEW cs \in Seq(T), NEW p \in 1..Len(cs), NEW g \in T, NEW hs, hs = [cs EXCEPT ![p] = g]
  PROVE  hs \in Seq(T) /\ Len(hs) = Len(cs) /\ hs[p] = g /\ \A i \in 1..Len(cs) : i # p => hs[i] = cs[i]
OBVIOUS

LEMMA Joined ==
  ASSUME NEW T, NEW a \in Seq(T), NEW b \in Seq(T)
  PROVE  a \o b \in Seq(T)
OBVIOUS

\* A CDN file grows into the incremental file above it.  No file before it holds its
\* first height, so the incremental file starts no higher than it ended.
LEMMA GrowMerges ==
  ASSUME BulkInv, NEW f \in FileRec, NEW n \in Nat, n = Len(files), n > 1, n - 1 = FileAt(f.first),
         f.first = files[n - 1].first, f.count > files[n - 1].count, GrowBeforeLast(f)
  PROVE  Merges
<1> PICK l : l = files[n]
  OBVIOUS
<1> PICK k : k = files[n - 1]
  OBVIOUS
<1> PICK g : g = [f EXCEPT !.id = k.id]
  OBVIOUS
<1> PICK gain : gain = f.count - k.count
  OBVIOUS
<1> PICK rest : rest = Above(l, gain, l.id)
  OBVIOUS
<1> PICK hs : hs = [SubSeq(files, 1, n - 1) EXCEPT ![n - 1] = g]
  OBVIOUS
<1> PICK fs : fs = files'
  OBVIOUS
<1>1. files \in Seq(FileRec) /\ Lined(files) /\ l \in FileRec /\ k \in FileRec
  BY DEF BulkInv
<1>2. /\ l.first \in Nat /\ l.count \in Nat /\ l.id \in Nat /\ k.first \in Nat /\ k.count \in Nat /\ k.id \in Nat
      /\ f.first \in Nat /\ f.count \in Nat /\ f.cdn \in BOOLEAN
      /\ Upto(l) = l.first + l.count /\ Upto(k) = k.first + k.count
  BY <1>1, FileIs
<1>3. g \in FileRec /\ g.first = k.first /\ g.count = f.count /\ Upto(g) = Upto(k) + gain
  <2>1. g = [cdn |-> f.cdn, first |-> f.first, count |-> f.count, id |-> k.id]
    BY DEF FileRec
  <2>2. g \in FileRec /\ g.first = f.first /\ g.count = f.count
    BY <1>2, <2>1 DEF FileRec
  <2>3. Upto(g) = g.first + g.count
    BY DEF Upto
  <2> QED BY <1>2, <2>2, <2>3
<1>4. gain \in Nat /\ gain > 0
  BY <1>2
<1>5. k.first <= l.first /\ l.first <= Upto(k)
  <2>1. n \in 2..Len(files) /\ n - 1 \in 1..Len(files) /\ n \in 1..Len(files)
    OBVIOUS
  <2>2. k.first <= l.first
    <3>1. n - 1 <= n
      OBVIOUS
    <3>2. files[n - 1].first <= files[n].first
      BY ONLY <1>1, <2>1, <3>1 DEF Lined
    <3> QED BY <3>2
  <2>3. PICK j \in 1..n - 1 : l.first <= Upto(files[j])
    BY <1>1, <2>1 DEF Lined
  <2>4. CASE j = n - 1
    BY <2>2, <2>3, <2>4
  <2>5. CASE j # n - 1
    <3>1. j < n - 1 /\ j \in 1..Len(files) /\ files[j] \in FileRec
      BY <1>1, <2>3, <2>5
    <3>2. n - 1 # 0
      OBVIOUS
    <3>3. ~(files[j].first <= f.first /\ f.first < Upto(files[j]))
      BY <1>1, <1>2, <3>1, <3>2, FoundFile
    <3>4. files[j].first <= k.first
      BY <1>1, <2>1, <3>1 DEF Lined
    <3>5. Upto(files[j]) \in Nat /\ ~(f.first < Upto(files[j]))
      BY <3>1, <3>3, <3>4, FileIs
    <3> QED BY <1>2, <2>2, <2>3, <3>5
  <2> QED BY <2>4, <2>5
<1>6. hs \in Seq(FileRec) /\ Len(hs) = n - 1 /\ hs[n - 1] = g /\ \A i \in 1..n - 2 : hs[i] = files[i]
  <2> PICK cs : cs = SubSeq(files, 1, n - 1)
    OBVIOUS
  <2>1. cs \in Seq(FileRec) /\ Len(cs) = n - 1 /\ \A i \in 1..n - 1 : cs[i] = files[i]
    BY <1>1
  <2>2. n - 1 \in 1..Len(cs) /\ hs = [cs EXCEPT ![n - 1] = g]
    BY <2>1
  <2>3. /\ hs \in Seq(FileRec) /\ Len(hs) = Len(cs) /\ hs[n - 1] = g
        /\ \A i \in 1..Len(cs) : i # n - 1 => hs[i] = cs[i]
    BY ONLY <1>3, <2>1, <2>2, SeqSet
  <2> QED BY <2>1, <2>3
<1>7. Lined(hs)
  <2> PICK m \in Nat : m = n - 2
    OBVIOUS
  <2>1. m <= Len(files) /\ Agree(hs, files, m) /\ Len(hs) = m + 1 /\ n - 1 = m + 1
    BY <1>6 DEF Agree
  <2>2. ASSUME m > 0 PROVE hs[m].first <= hs[m + 1].first /\ \E j \in 1..m : hs[m + 1].first <= Upto(hs[j])
    <3>1. m \in 1..Len(files) /\ m + 1 \in 2..Len(files) /\ m + 1 \in 1..Len(files) /\ m \in 1..m
      BY <2>2
    <3>2. files[m].first <= files[m + 1].first
      <4>1. m <= m + 1
        OBVIOUS
      <4> QED BY <1>1, <3>1, <4>1 DEF Lined
    <3>3. PICK j \in 1..m : files[m + 1].first <= Upto(files[j])
      BY <1>1, <3>1 DEF Lined
    <3>4. hs[m] = files[m] /\ hs[j] = files[j] /\ hs[m + 1].first = files[m + 1].first
      BY <1>3, <1>6, <2>1, <3>1, <3>3
    <3> QED BY <3>2, <3>3, <3>4
  <2> QED BY <1>1, <1>6, <2>1, <2>2, Relined
\* A height of a file below the incremental one is held again.
<1>8. ASSUME NEW h \in Nat, NEW i \in 1..n - 1, files[i].first <= h, h < Upto(files[i])
      PROVE  hs[i].first <= h /\ h < Upto(hs[i])
  <2>1. CASE i = n - 1
    <3>1. files[i] = k /\ hs[i] = g
      BY <1>6, <2>1
    <3>2. k.first <= h /\ h < k.first + k.count
      BY <1>2, <1>8, <3>1
    <3>3. k.first \in Nat /\ k.count \in Nat /\ gain \in Nat
          /\ g.first = k.first /\ Upto(g) = k.first + k.count + gain
      BY <1>2, <1>3, <1>4
    <3>4. g.first <= h /\ h < Upto(g)
      BY ONLY <1>8, <3>2, <3>3
    <3> QED BY <3>1, <3>4
  <2>2. CASE i # n - 1
    <3>1. i \in 1..n - 2
      BY <2>2
    <3>2. hs[i] = files[i]
      BY <1>6, <3>1
    <3> QED BY <1>8, <3>2
  <2> QED BY <2>1, <2>2
\* And so is one of the incremental file that the grown file reaches.
<1>9. ASSUME NEW h \in Nat, l.first <= h, h < Upto(g)
      PROVE  hs[n - 1].first <= h /\ h < Upto(hs[n - 1])
  <2>1. g.first <= h
    BY <1>2, <1>3, <1>5, <1>9
  <2> QED BY <1>6, <1>9,   <2>1
<1>10. CASE gain >= l.count
  <2>1. fs = hs /\ writes' = Persist(PutRow(g.id, Row(g))) \o Persist(DropRow(l.id))
    BY <1>10 DEF GrowBeforeLast, Rewrite
  <2>2. ASSUME NEW h \in InFiles(files) PROVE h \in InFiles(fs)
    <3>1. PICK i \in 1..n : files[i].first <= h /\ h < Upto(files[i])
      BY DEF InFiles
    <3>2. h \in Nat
      BY DEF InFiles
    <3>3. CASE i # n
      <4>1. i \in 1..n - 1
        BY <3>3
      <4> QED BY <1>6, <1>8, <2>1, <3>1, <3>2, <4>1 DEF InFiles
    <3>4. CASE i = n
      <4>1. l.first <= h /\ h < Upto(g)
        BY <1>2, <1>3, <1>4, <1>5, <1>10, <3>1, <3>2, <3>4
      <4>2. n - 1 \in 1..n - 1
        OBVIOUS
      <4> QED BY <1>6, <1>9, <2>1, <3>2, <4>1, <4>2 DEF InFiles
    <3> QED BY <3>3, <3>4
  <2>3. writes' \in Seq(WriteRec)
    <3>1. g.id \in Nat
      BY <1>3, FileIs
    <3>2. Persist(PutRow(g.id, Row(g))) \in Seq(WriteRec) /\ Persist(DropRow(l.id)) \in Seq(WriteRec)
      BY <1>2, <1>3, <3>1, WritesTyped, 0 \in Nat
    <3> QED BY <2>1, <3>2, Joined
  <2> QED BY <1>6, <1>7, <2>1, <2>2, <2>3 DEF Merges
<1>11. CASE ~(gain >= l.count)
  <2>1. fs = [files EXCEPT ![n - 1] = g, ![n] = rest]
        /\ writes' = Persist(PutRow(g.id, Row(g))) \o Persist(PutRow(rest.id, Row(rest)))
    <3>1. rest = [l EXCEPT !.first = @ + gain, !.count = @ - gain]
      BY <1>1 DEF Above, FileRec
    <3> QED BY <1>11, <3>1 DEF GrowBeforeLast, Rewrite
  <2>2. rest \in FileRec /\ Upto(rest) = Upto(l) /\ rest.first = l.first + gain /\ rest.id \in Nat
    <3>1. gain <= l.count
      BY <1>2, <1>4, <1>11
    <3> QED BY <1>1, <1>2, <1>4, <3>1, RestIs
  <2>3. fs \in Seq(FileRec) /\ Len(fs) = n /\ fs[n] = rest /\ \A i \in 1..n - 1 : fs[i] = hs[i]
    <3> PICK es : es = [files EXCEPT ![n - 1] = g]
      OBVIOUS
    <3>1. n - 1 \in 1..n /\ n \in 1..n /\ fs = [es EXCEPT ![n] = rest]
      BY <2>1
    <3>2. /\ es \in Seq(FileRec) /\ Len(es) = n /\ es[n - 1] = g
          /\ \A i \in 1..n : i # n - 1 => es[i] = files[i]
      BY <1>1, <1>3, <3>1, SeqSet
    <3>3. /\ fs \in Seq(FileRec) /\ Len(fs) = n /\ fs[n] = rest
          /\ \A i \in 1..n : i # n => fs[i] = es[i]
      BY <2>2, <3>1, <3>2, SeqSet
    <3> QED BY <1>6, <3>2, <3>3
  <2>4. Lined(fs)
    <3> PICK m \in Nat : m = n - 1
      OBVIOUS
    <3>1. Len(hs) = m /\ m <= Len(hs) /\ Len(fs) = m + 1 /\ Agree(fs, hs, m)
      BY <1>6, <2>3 DEF Agree
    <3>2. m \in 1..m /\ fs[m] = g /\ fs[m + 1] = rest
      <4>1. m \in 1..m /\ m + 1 = n
        OBVIOUS
      <4>2. m \in 1..n - 1
        BY <4>1
      <4> QED BY <1>6, <2>3, <4>1, <4>2
    <3>3. g.first <= rest.first /\ rest.first <= Upto(g)
      <4>1. gain \in Nat /\ l.first \in Nat /\ k.first \in Nat /\ k.count \in Nat
        BY <1>2, <1>4
      <4>2. g.first = k.first /\ rest.first = l.first + gain /\ Upto(g) = k.first + k.count + gain
        BY <1>2, <1>3, <2>2
      <4>3. k.first <= l.first /\ l.first <= k.first + k.count
        BY <1>2, <1>5
      <4> QED BY ONLY <4>1, <4>2, <4>3
    <3> QED BY <1>6, <1>7, <2>3, <3>1, <3>2, <3>3, Relined
  <2>5. ASSUME NEW h \in InFiles(files) PROVE h \in InFiles(fs)
    <3>1. PICK i \in 1..n : files[i].first <= h /\ h < Upto(files[i])
      BY DEF InFiles
    <3>2. h \in Nat
      BY DEF InFiles
    <3>3. CASE i # n
      <4>1. i \in 1..n - 1 /\ i \in 1..n
        BY <3>3
      <4> QED BY <1>8, <2>3, <3>1, <3>2, <4>1 DEF InFiles
    <3>4. CASE i = n /\ h < Upto(g)
      <4>1. n - 1 \in 1..n - 1 /\ n - 1 \in 1..n
        OBVIOUS
      <4> QED BY <1>9, <2>3, <3>1, <3>2, <3>4, <4>1 DEF InFiles
    <3>5. CASE i = n /\ ~(h < Upto(g))
      <4>1. rest.first <= h /\ h < Upto(rest)
        <5>1. l.first <= h /\ h < Upto(l) /\ ~(h < Upto(g))
          BY <3>1, <3>5
        <5>2. gain \in Nat /\ l.first \in Nat /\ k.first \in Nat /\ k.count \in Nat
          BY <1>2, <1>4
        <5>3. rest.first = l.first + gain /\ Upto(g) = k.first + k.count + gain /\ l.first <= k.first + k.count
          BY <1>2, <1>3, <1>5, <2>2
        <5>4. rest.first <= h
          BY ONLY <3>2, <5>1, <5>2, <5>3
        <5> QED BY <2>2, <5>1, <5>4
      <4>2. n \in 1..n
        OBVIOUS
      <4> QED BY <2>3, <3>2, <4>1, <4>2 DEF InFiles
    <3> QED BY <3>3, <3>4, <3>5
  <2>6. writes' \in Seq(WriteRec)
    <3>1. g.id \in Nat
      BY <1>3, FileIs
    <3>2. Persist(PutRow(g.id, Row(g))) \in Seq(WriteRec)
      BY <1>3, <3>1, WritesTyped, 0 \in Nat
    <3>3. Persist(PutRow(rest.id, Row(rest))) \in Seq(WriteRec)
      BY <2>2, WritesTyped, 0 \in Nat
    <3> QED BY <2>1, <3>2, <3>3, Joined
  <2> QED BY <2>3, <2>4, <2>5, <2>6 DEF Merges
<1> QED BY <1>10, <1>11

LEMMA MergeFileMerges ==
  ASSUME BulkInv, MergeFile
  PROVE  Merges /\ todo' \in Seq(FileRec)
<1> PICK f : f = Head(todo)
  OBVIOUS
<1> PICK i : i = FileAt(f.first)
  OBVIOUS
<1> PICK n \in Nat : n = Len(files)
  BY DEF BulkInv
<1>1. todo # <<>> /\ todo \in Seq(FileRec) /\ files \in Seq(FileRec) /\ Lined(files) /\ writes \in Seq(WriteRec)
  BY DEF MergeFile, BulkInv
<1>2. f \in FileRec /\ f.first \in Nat /\ f.count \in Nat /\ f.cdn \in BOOLEAN
  <2>1. f \in FileRec
    BY <1>1
  <2> QED BY <2>1, FileIs
<1>3. Tail(todo) \in Seq(FileRec) /\ <<>> \in Seq(FileRec)
  BY <1>1
<1>4. UNCHANGED <<files, writes>> => Merges
  BY <1>1 DEF Merges
<1>5. CASE i # 0 /\ files[i].first = f.first /\ files[i].count = f.count
  BY <1>3, <1>4, <1>5 DEF MergeFile
<1>6. CASE i # 0 /\ ~(files[i].first = f.first /\ files[i].count = f.count)
  <2>1. \/ Updatable(f, i) /\ Update(f, i) /\ todo' = Tail(todo)
        \/ MergeThrows
    BY <1>6 DEF MergeFile
  <2>2. i \in 1..n /\ files[i] \in FileRec /\ files[i].count \in Nat /\ files[i].cdn \in BOOLEAN
    <3>1. i \in 1..n
      BY <1>1, <1>2, <1>6, FoundFile
    <3>2. files[i] \in FileRec
      BY <1>1, <3>1
    <3> QED BY <3>1, <3>2, FileIs
  <2>3. CASE MergeThrows
    BY <1>3, <1>4, <2>3 DEF MergeThrows
  <2>4. CASE Updatable(f, i) /\ Update(f, i) /\ todo' = Tail(todo)
    <3>1. CASE i < n
      <4>1. /\ f.first = files[i].first /\ i = n - 1 /\ n > 1
            /\ f.count > files[i].count /\ GrowBeforeLast(f)
        <5>1. i # Len(files) /\ i < Len(files)
          BY <2>2, <3>1
        <5>2. f.first = files[i].first /\ i = Len(files) - 1 /\ f.cdn /\ files[i].cdn
              /\ (f.cdn = files[i].cdn => f.count > files[i].count)
          BY <2>4, <5>1 DEF Updatable
        <5>3. f.cdn = files[i].cdn
          BY <1>2, <2>2, <5>2
        <5>4. GrowBeforeLast(f)
          BY <2>4, <5>1 DEF Update
        <5> QED BY <2>2, <5>1, <5>2, <5>3, <5>4
      <4>2. n - 1 = FileAt(f.first) /\ f.first = files[n - 1].first /\ f.count > files[n - 1].count
        BY <4>1
      <4> QED BY <1>2, <1>3, <2>4, <4>1, <4>2, GrowMerges
    <3>2. CASE i = n /\ f.cdn /\ ~files[i].cdn /\ f.count < files[i].count
      <4>1. files # <<>> /\ f.first = files[Len(files)].first /\ f.count < files[Len(files)].count /\ SplitLast(f)
        BY <2>2, <2>4, <3>2 DEF Updatable, Update
      <4> QED BY <1>2, <1>3, <2>4, <4>1, SplitMerges
    <3>3. CASE i = n /\ ~(f.cdn /\ ~files[i].cdn /\ f.count < files[i].count)
      <4>1. files # <<>> /\ f.first = files[Len(files)].first /\ ReplaceLast(f)
        BY <2>2, <2>4, <3>3 DEF Updatable, Update
      <4>2. f.cdn \/ ~files[i].cdn
        BY <2>4, <3>3 DEF Updatable
      <4>3. f.cdn = files[i].cdn => f.count > files[i].count
        BY <2>4 DEF Updatable
      <4>4. f.count > files[i].count \/ ~(f.count < files[i].count)
        BY <1>2, <2>2, <3>3, <4>2, <4>3
      <4>5. f.count >= files[Len(files)].count
        BY <1>2, <2>2, <3>3, <4>4
      <4> QED BY <1>2, <1>3, <2>4, <4>1, <4>5, ReplaceMerges
    <3>4. i < n \/ i = n
      BY <2>2
    <3> QED BY <3>1, <3>2, <3>3, <3>4
  <2> QED BY <2>1, <2>3, <2>4
<1>7. CASE ~(i # 0) /\ ~f.cdn /\ files # <<>> /\ ~Last(files).cdn
  <2>1. MergeIncremental(f) /\ todo' = Tail(todo) /\ files # <<>>
    BY <1>7 DEF MergeFile
  <2> QED BY <1>2, <1>3, <2>1, IncrementalMerges
<1>8. CASE ~(i # 0) /\ ~(~f.cdn /\ files # <<>> /\ ~Last(files).cdn)
  <2>1. \/ Add(f) /\ todo' = Tail(todo)
        \/ MergeThrows
    BY <1>8 DEF MergeFile
  <2>2. CASE Add(f) /\ todo' = Tail(todo)
    BY <1>2, <1>3, <2>2, AddMerges
  <2>3. CASE MergeThrows
    BY <1>3, <1>4, <2>3 DEF MergeThrows
  <2> QED BY <2>1, <2>2, <2>3
<1> QED BY <1>5, <1>6, <1>7, <1>8

\* The id a row gets changes no height.
Tagged(fs, at, id) == [fs EXCEPT ![at].id = id]

LEMMA IdGiven ==
  ASSUME NEW fs \in Seq(FileRec), Lined(fs), NEW id \in Nat, NEW at \in Nat,
         NEW gs, gs = Tagged(fs, at, id)
  PROVE  gs \in Seq(FileRec) /\ Lined(gs) /\ InFiles(fs) \subseteq InFiles(gs)
<1> PICK n \in Nat : n = Len(fs)
  OBVIOUS
<1>1. ASSUME NEW k \in 1..n
      PROVE  gs[k] \in FileRec /\ gs[k].first = fs[k].first /\ Upto(gs[k]) = Upto(fs[k])
  <2>1. fs[k] \in FileRec
    OBVIOUS
  <2>2. CASE k = at
    <3>1. gs[k] = [fs[k] EXCEPT !.id = id]
      BY <2>2 DEF Tagged
    <3>2. gs[k] = [cdn |-> fs[k].cdn, first |-> fs[k].first, count |-> fs[k].count, id |-> id]
      BY <2>1, <3>1 DEF FileRec
    <3>3. fs[k].cdn \in BOOLEAN /\ fs[k].first \in Nat /\ fs[k].count \in Nat
      BY <2>1, FileIs
    <3> QED BY <3>2, <3>3 DEF FileRec, Upto
  <2>3. CASE k # at
    <3>1. gs[k] = fs[k]
      BY <2>3 DEF Tagged
    <3> QED BY <2>1, <3>1
  <2> QED BY <2>2, <2>3
<1>2. gs \in Seq(FileRec) /\ Len(gs) = n
  <2>1. gs = [k \in 1..n |-> gs[k]]
    <3> PICK x : x = [fs[at] EXCEPT !.id = id]
      OBVIOUS
    <3>1. gs = [fs EXCEPT ![at] = x]
      BY DEF Tagged
    <3>2. DOMAIN fs = 1..n
      OBVIOUS
    <3> QED BY <3>1, <3>2
  <2>2. PICK hs : hs = [k \in 1..n |-> gs[k]]
    OBVIOUS
  <2>3. hs \in Seq(FileRec) /\ Len(hs) = n
    BY <1>1, <2>2
  <2> QED BY <2>1, <2>2, <2>3
<1>3. Lined(gs)
  <2>1. \A i, j \in 1..Len(gs) : i <= j => gs[i].first <= gs[j].first
    BY <1>1, <1>2 DEF Lined
  <2>2. ASSUME NEW i \in 2..n PROVE \E j \in 1..i - 1 : gs[i].first <= Upto(gs[j])
    <3>1. PICK j \in 1..i - 1 : fs[i].first <= Upto(fs[j])
      BY DEF Lined
    <3>2. i \in 1..n /\ j \in 1..n
      BY <3>1
    <3> QED BY <1>1, <3>1, <3>2
  <2> QED BY <1>2, <2>1, <2>2 DEF Lined
<1>4. InFiles(fs) \subseteq InFiles(gs)
  BY <1>1, <1>2 DEF InFiles
<1> QED BY <1>2, <1>3, <1>4

LEMMA BulkStart == BulkInit => BulkInv
<1> SUFFICES ASSUME BulkInit PROVE BulkInv
  OBVIOUS
<1>1. Known \in Nat /\ cdn \in Nat /\ nextId \in Nat
  BY BulkAssumption DEF BulkInit
<1>2. files \in Seq(FileRec) /\ Lined(files)
  BY <1>1, CdnLined DEF BulkInit
<1>3. DOMAIN table = {} /\ table \in [DOMAIN table -> RowRec]
  BY DEF BulkInit
<1>4. IsFiniteSet({})
  BY FS_EmptySet
<1>5. todo \in Seq(FileRec) /\ writes \in Seq(WriteRec)
  BY DEF BulkInit
<1> QED BY <1>1, <1>2, <1>3, <1>4, <1>5 DEF BulkInv

LEMMA WriteRowKeeps ==
  ASSUME BulkInv, WriteRow
  PROVE  BulkInv' /\ InFiles(files) \subseteq InFiles(files')
<1> PICK w : w = Head(writes)
  OBVIOUS
<1>1. writes # <<>> /\ writes \in Seq(WriteRec) /\ writes' = Tail(writes)
  BY DEF WriteRow, BulkInv
<1>2. w \in WriteRec /\ writes' \in Seq(WriteRec)
  BY <1>1
<1>3. w.id \in Nat /\ w.at \in Nat /\ (w.op \in {"insert", "update"} => w.row \in RowRec)
  <2>1. CASE w \in [op: {"insert", "update"}, id: Nat, row: RowRec, at: Nat]
    BY <2>1
  <2>2. CASE w \in [op: {"delete"}, id: Nat, row: {<<>>}, at: {0}]
    BY <2>2
  <2> QED BY <1>2, <2>1, <2>2 DEF WriteRec
<1>4. files \in Seq(FileRec) /\ Lined(files) /\ nextId \in Nat /\ cdn' \in Nat /\ todo' \in Seq(FileRec)
  BY DEF WriteRow, BulkInv
<1>5. \A i \in DOMAIN table : table[i] \in RowRec
  BY DEF BulkInv
<1>6. DOMAIN table \subseteq Nat /\ IsFiniteSet(DOMAIN table)
  BY DEF BulkInv
<1>7. files' \in Seq(FileRec) /\ Lined(files') /\ nextId' \in Nat /\ InFiles(files) \subseteq InFiles(files')
  <2>1. CASE files' = [files EXCEPT ![w.at].id = nextId] /\ nextId' = nextId + 1
    <3>1. PICK gs : gs = files'
      OBVIOUS
    <3>2. gs = Tagged(files, w.at, nextId)
      BY <2>1, <3>1 DEF Tagged
    <3>3. gs \in Seq(FileRec) /\ Lined(gs) /\ InFiles(files) \subseteq InFiles(gs)
      <4>1. PICK at \in Nat : at = w.at
        BY <1>3
      <4>2. gs = Tagged(files, at, nextId)
        BY <3>2, <4>1
      <4>3. files \in Seq(FileRec) /\ Lined(files) /\ nextId \in Nat
        BY <1>4
      <4> QED BY ONLY <4>2, <4>3, IdGiven
    <3>4. nextId' \in Nat
      BY <1>4, <2>1
    <3> QED BY <3>1, <3>3, <3>4
  <2>2. CASE UNCHANGED <<files, nextId>>
    BY <1>4, <2>2
  <2> QED BY <2>1, <2>2 DEF WriteRow
<1>8. table' \in [DOMAIN table' -> RowRec] /\ DOMAIN table' \subseteq Nat /\ IsFiniteSet(DOMAIN table')
  <2>1. CASE /\ w.op = "insert"
             /\ table' = [i \in DOMAIN table \cup {nextId} |-> IF i = nextId THEN w.row ELSE table[i]]
    <3>1. IsFiniteSet(DOMAIN table \cup {nextId})
      BY <1>6, FS_AddElement
    <3> QED BY <1>3, <1>4, <1>5, <1>6, <2>1, <3>1
  <2>2. CASE w.op = "update" /\ table' = [i \in DOMAIN table |-> IF i = w.id THEN w.row ELSE table[i]]
    BY <1>3, <1>5, <1>6, <2>2
  <2>3. CASE table' = [i \in DOMAIN table \ {w.id} |-> table[i]]
    <3>1. IsFiniteSet(DOMAIN table \ {w.id})
      BY <1>6, FS_Subset
    <3> QED BY <1>5, <1>6, <2>3, <3>1
  <2> QED BY <2>1, <2>2, <2>3 DEF WriteRow
<1> QED BY <1>2, <1>4, <1>7, <1>8 DEF BulkInv

LEMMA SetStorageKeeps ==
  ASSUME BulkInv, SetStorage
  PROVE  BulkInv'
<1>1. UNCHANGED <<backed, table, nextId, cdn, todo, crashes>>
  BY DEF SetStorage
<1>2. files \in Seq(FileRec) /\ Lined(files) /\ writes \in Seq(WriteRec)
  BY DEF BulkInv
<1>3. CASE UNCHANGED <<files, writes>>
  BY <1>1, <1>3 DEF BulkInv
<1>4. CASE ~HasGap(Rows) /\ files' = Rows /\ UNCHANGED writes
  <2>1. Rows \in Seq(FileRec) /\ Lined(Rows)
    BY <1>4, RowsLined
  <2>2. files' \in Seq(FileRec) /\ Lined(files') /\ writes' \in Seq(WriteRec)
    BY <1>2, <1>4, <2>1
  <2> QED BY <1>1, <2>2 DEF BulkInv
<1>5. CASE ~HasGap(Rows) /\ UNCHANGED files
           /\ writes' = [i \in 1..Len(Rows) |-> DropRow(Rows[Len(Rows) + 1 - i].id)]
                        \o [i \in DOMAIN files |-> InsertRow(Row(files[i]), i)]
  <2>1. PICK rs : rs = Rows
    OBVIOUS
  <2>2. rs \in Seq(FileRec)
    BY <1>5, <2>1, RowsLined
  <2>3. PICK N \in Nat : N = Len(rs)
    BY <2>2
  <2>4. PICK n \in Nat : n = Len(files) /\ DOMAIN files = 1..n
    BY <1>2
  <2>5. \A i \in 1..N : DropRow(rs[N + 1 - i].id) \in WriteRec
    <3>1. \A i \in 1..N : N + 1 - i \in 1..N
      BY <2>3
    <3>2. \A j \in 1..N : rs[j] \in FileRec
      BY <2>2, <2>3
    <3>3. \A j \in 1..N : DropRow(rs[j].id) \in WriteRec
      <4> SUFFICES ASSUME NEW j \in 1..N PROVE DropRow(rs[j].id) \in WriteRec
        OBVIOUS
      <4>1. rs[j] \in FileRec /\ rs[j].id \in Nat
        BY <3>2, FileIs
      <4> QED BY <4>1, WritesTyped, 0 \in Nat
    <3> QED BY <3>1, <3>3
  <2>6. \A i \in 1..n : InsertRow(Row(files[i]), i) \in WriteRec
    <3> SUFFICES ASSUME NEW i \in 1..n PROVE InsertRow(Row(files[i]), i) \in WriteRec
      OBVIOUS
    <3>1. files[i] \in FileRec /\ i \in Nat
      BY <1>2, <2>4
    <3> QED BY <3>1, WritesTyped, 0 \in Nat
  <2>7. [i \in 1..N |-> DropRow(rs[N + 1 - i].id)] \in Seq(WriteRec)
    BY <2>5
  <2>8. [i \in 1..n |-> InsertRow(Row(files[i]), i)] \in Seq(WriteRec)
    BY <2>6
  <2>9. writes' = [i \in 1..N |-> DropRow(rs[N + 1 - i].id)] \o [i \in 1..n |-> InsertRow(Row(files[i]), i)]
    BY <1>5, <2>1, <2>3, <2>4
  <2>10. writes' \in Seq(WriteRec)
    BY <2>7, <2>8, <2>9, Joined
  <2> QED BY <1>1, <1>2, <1>5, <2>10 DEF BulkInv
<1> QED BY <1>3, <1>4, <1>5 DEF SetStorage

LEMMA BulkStep == BulkInv /\ [BulkNext]_bvars => BulkInv'
<1> SUFFICES ASSUME BulkInv, [BulkNext]_bvars PROVE BulkInv'
  OBVIOUS
<1>1. CASE SetStorage
  BY <1>1, SetStorageKeeps
<1>2. CASE MergeCdn
  <2>1. CdnFiles(cdn) \in Seq(FileRec)
    BY CdnLined DEF BulkInv
  <2> QED BY <1>2, <2>1 DEF MergeCdn, BulkInv
<1>3. CASE MergeLive
  <2>1. PICK h \in High + 1..MaxHeight : todo' = <<File(FALSE, High, h - High)>>
    BY <1>3 DEF MergeLive
  <2>2. High \in Nat
    <3>1. CASE files = <<>>
      BY <3>1 DEF High
    <3>2. CASE files # <<>>
      <4>1. High = Upto(Last(files)) /\ Last(files) \in FileRec
        BY <3>2 DEF High, Last, BulkInv
      <4> QED BY <4>1, FileIs
    <3> QED BY <3>1, <3>2
  <2>3. h - High \in Nat /\ FALSE \in BOOLEAN
    BY <2>2, BulkAssumption
  <2>4. File(FALSE, High, h - High) \in FileRec
    BY <2>2, <2>3, FileMade
  <2>5. todo' \in Seq(FileRec)
    <3>1. PICK x : x = File(FALSE, High, h - High)
      OBVIOUS
    <3>2. x \in FileRec /\ todo' = <<x>>
      BY <2>1, <2>4, <3>1
    <3> QED BY <3>2
  <2> QED BY <1>3, <2>5 DEF MergeLive, BulkInv
<1>4. CASE MergeFile
  <2>1. Merges /\ todo' \in Seq(FileRec)
    BY <1>4, MergeFileMerges
  <2>2. UNCHANGED <<backed, table, nextId, cdn, phase, crashes>>
    BY <1>4 DEF MergeFile
  <2> QED BY <2>1, <2>2 DEF BulkInv, Merges
<1>5. CASE WriteRow
  BY <1>5, WriteRowKeeps
<1>6. CASE Restart
  <2>1. CdnFiles(Known) \in Seq(FileRec) /\ Lined(CdnFiles(Known))
    BY CdnLined, BulkAssumption
  <2> QED BY <1>6, <2>1 DEF Restart, BulkInv
<1>7. CASE CdnGrows
  <2>1. cdn' \in Nat
    BY <1>7 DEF CdnGrows, BulkInv
  <2> QED BY <1>7, <2>1 DEF CdnGrows, BulkInv
<1>8. CASE UNCHANGED bvars
  BY <1>8 DEF bvars, BulkInv
<1> QED BY <1>1, <1>2, <1>3, <1>4, <1>5, <1>6, <1>7, <1>8 DEF BulkNext

\* A step while the list is in use loses no height.
LEMMA StepKeepsHeights ==
  ASSUME BulkInv, BulkNext, phase = "up", phase' = "up"
  PROVE  InFiles(files) \subseteq InFiles(files')
<1>1. CASE MergeFile
  BY <1>1, MergeFileMerges DEF Merges
<1>2. CASE WriteRow
  BY <1>2, WriteRowKeeps
<1>3. CASE MergeCdn \/ MergeLive \/ CdnGrows
  BY <1>3 DEF MergeCdn, MergeLive, CdnGrows
<1>4. ~SetStorage /\ ~Restart
  BY DEF SetStorage, Restart
<1> QED BY <1>1, <1>2, <1>3, <1>4 DEF BulkNext

\* Whatever a merge adds, grows, splits, replaces or drops, and whatever it writes of it,
\* the list of bulk files in use holds every height it held: for any size of file, number
\* of headers and crashes (BulkFileDataManager.update, add, mergeIncremental).
THEOREM FilesGrow == BulkSpec => NeverShrinks
<1>1. BulkInv /\ BulkInv' /\ [BulkNext]_bvars
      => [phase = "up" /\ phase' = "up" => Covered \subseteq Covered']_bvars
  <2> SUFFICES ASSUME BulkInv, BulkInv', BulkNext, phase = "up", phase' = "up"
               PROVE  Covered \subseteq Covered'
    OBVIOUS
  <2>1. Covered = InFiles(files)
    BY InFilesAre DEF BulkInv, Covered
  <2>2. files' \in Seq(FileRec)
    BY DEF BulkInv
  <2>3. Covered' = InFiles(files')
    BY <2>2, InFilesAre DEF Covered
  <2> QED BY <2>1, <2>3, StepKeepsHeights
<1> QED BY <1>1, BulkStart, BulkStep, PTL DEF BulkSpec, NeverShrinks

=================================================================================
