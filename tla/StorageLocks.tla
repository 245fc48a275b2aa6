----------------------------- MODULE StorageLocks -----------------------------
(***************************************************************************)
(* The locks of WalletStorageManager: four queues that runAsReader,        *)
(* runAsWriter, runAsSync and runAsStorageProvider take one after the      *)
(* other, and the action lock, which runAsWriter takes exclusively and     *)
(* createAction / processAction take shared when the only store supports   *)
(* concurrent action writes.                                               *)
(*                                                                         *)
(* A lock is a promise: the holder before resolves it, and the caller goes *)
(* on in a later microtask.  Between the two it is in `resolved`.          *)
(***************************************************************************)
EXTENDS Naturals, Sequences, FiniteSets

CONSTANTS
  Readers,    \* callers of runAsReader
  Writers,    \* callers of runAsWriter
  Syncs,      \* callers of runAsSync
  Providers,  \* callers of runAsStorageProvider (the monitor's tasks)
  Actions     \* callers of runAsActionWriter (createAction, processAction)

ASSUME RolesAssumption ==
  /\ Readers \cap (Writers \cup Syncs \cup Providers \cup Actions) = {}
  /\ Writers \cap (Syncs \cup Providers \cup Actions) = {}
  /\ Syncs \cap (Providers \cup Actions) = {}
  /\ Providers \cap Actions = {}

Callers == Readers \cup Writers \cup Syncs \cup Providers \cup Actions

VARIABLES
  concurrent,  \* getConcurrentActionWriter has an active store to offer
  queue,       \* readerLocks, writerLocks, syncLocks, spLocks
  exclusive,   \* actionWriterExclusiveLocks
  shared,      \* actionWriterSharedLocks
  sharedCount, \* actionWriterSharedCount
  pc,          \* where each caller is
  level,       \* how many of the four queues it has joined
  resolved     \* callers whose promise is resolved, not yet running again

vars == <<concurrent, queue, exclusive, shared, sharedCount, pc, level, resolved>>

Levels == 1..4
Elements(s) == {s[i] : i \in 1..Len(s)}

\* The queues a role takes: reader, then writer, then sync, then sp.
Depth(c) == CASE c \in Readers -> 1 [] c \in Syncs -> 3 [] c \in Providers -> 4 [] OTHER -> 2

TakesExclusive(c) == c \in Writers \cup (IF concurrent THEN {} ELSE Actions)

-----------------------------------------------------------------------------
(* Acquisition.                                                            *)

\* Mutant: a caller goes on although another is in front of it.
Join_NoWait(c, i) ==
  /\ queue' = [queue EXCEPT ![i] = Append(@, c)]
  /\ resolved' = resolved \cup {c}
  /\ level' = [level EXCEPT ![c] = i]
  /\ pc' = [pc EXCEPT ![c] = "queue"]

\* getActiveLock on the next queue: the first in line is resolved at once.
Join(c, i) ==
  /\ queue' = [queue EXCEPT ![i] = Append(@, c)]
  /\ resolved' = IF queue[i] = <<>> THEN resolved \cup {c} ELSE resolved \ {c}
  /\ level' = [level EXCEPT ![c] = i]
  /\ pc' = [pc EXCEPT ![c] = "queue"]

\* runAsReader, runAsSync, runAsStorageProvider.
Call(c) ==
  /\ pc[c] = "out" /\ c \in Readers \cup Syncs \cup Providers
  /\ Join(c, 1)
  /\ UNCHANGED <<concurrent, exclusive, shared, sharedCount>>

\* runAsWriter: getActionWriterExclusiveLock comes first.
CallExclusive(c) ==
  /\ pc[c] = "out" /\ TakesExclusive(c)
  /\ exclusive' = Append(exclusive, c)
  /\ resolved' = IF exclusive = <<>> /\ sharedCount = 0 THEN resolved \cup {c} ELSE resolved
  /\ pc' = [pc EXCEPT ![c] = "exclusive"]
  /\ UNCHANGED <<concurrent, queue, shared, sharedCount, level>>

\* runAsActionWriter with a concurrent store: getActionWriterSharedLock.
CallShared(c) ==
  /\ pc[c] = "out" /\ c \in Actions /\ concurrent
  /\ IF exclusive = <<>>
     THEN /\ sharedCount' = sharedCount + 1
          /\ pc' = [pc EXCEPT ![c] = "in"]
          /\ UNCHANGED shared
     ELSE /\ shared' = Append(shared, c)
          /\ pc' = [pc EXCEPT ![c] = "shared"]
          /\ UNCHANGED sharedCount
  /\ UNCHANGED <<concurrent, queue, exclusive, level, resolved>>

\* The promise was resolved and the caller goes on: to its next queue, or in.
Resume(c) ==
  /\ c \in resolved
  /\ IF pc[c] = "shared"
     THEN /\ sharedCount' = sharedCount + 1
          /\ pc' = [pc EXCEPT ![c] = "in"]
          /\ resolved' = resolved \ {c}
          /\ UNCHANGED <<queue, level>>
     ELSE /\ IF level[c] < Depth(c)
             THEN Join(c, level[c] + 1)
             ELSE /\ pc' = [pc EXCEPT ![c] = "in"]
                  /\ resolved' = resolved \ {c}
                  /\ UNCHANGED <<queue, level>>
          /\ UNCHANGED sharedCount
  /\ UNCHANGED <<concurrent, exclusive, shared>>

-----------------------------------------------------------------------------
(* Release, in the `finally` of the runAs... methods.                      *)

\* Mutant: the next in line is not resolved.
AtFront_Lost(s) == {}

\* queue[0](), if there is one.
AtFront(s) == IF s = <<>> THEN {} ELSE {Head(s)}

\* releaseActiveLock on every queue the caller took; these are woken.
Leaving(c) == [i \in Levels |-> IF i <= level[c] THEN Tail(queue[i]) ELSE queue[i]]
WokenBy(c) == UNION {AtFront(Leaving(c)[i]) : i \in {j \in Levels : j <= level[c]}}

Gone(c) ==
  /\ pc' = [pc EXCEPT ![c] = "out"]
  /\ level' = [level EXCEPT ![c] = 0]

\* releaseActiveForReader / Sync / StorageProvider.
Leave(c) ==
  /\ pc[c] = "in" /\ c \in Readers \cup Syncs \cup Providers
  /\ Gone(c)
  /\ queue' = Leaving(c)
  /\ resolved' = resolved \cup WokenBy(c)
  /\ UNCHANGED <<concurrent, exclusive, shared, sharedCount>>

\* releaseActiveForWriter, then releaseActionWriterExclusiveLock.
LeaveExclusive(c) ==
  LET left == Tail(exclusive) IN
  /\ pc[c] = "in" /\ TakesExclusive(c)
  /\ Gone(c)
  /\ queue' = Leaving(c)
  /\ exclusive' = left
  /\ IF left # <<>>
     THEN /\ resolved' = resolved \cup WokenBy(c) \cup (IF sharedCount = 0 THEN AtFront(left) ELSE {})
          /\ UNCHANGED shared
     ELSE /\ resolved' = resolved \cup WokenBy(c) \cup Elements(shared)
          /\ shared' = <<>>
  /\ UNCHANGED <<concurrent, sharedCount>>

Uncount == IF sharedCount = 0 THEN 0 ELSE sharedCount - 1

\* releaseActionWriterSharedLock: resolving a promise again has no effect.
LeaveShared(c) ==
  /\ pc[c] = "in" /\ c \in Actions /\ concurrent
  /\ Gone(c)
  /\ sharedCount' = Uncount
  /\ resolved' = IF Uncount = 0
                 THEN resolved \cup {d \in AtFront(exclusive) : pc[d] = "exclusive"}
                 ELSE resolved
  /\ UNCHANGED <<concurrent, queue, exclusive, shared>>

-----------------------------------------------------------------------------
Init ==
  /\ concurrent \in BOOLEAN
  /\ queue = [i \in Levels |-> <<>>]
  /\ exclusive = <<>>
  /\ shared = <<>>
  /\ sharedCount = 0
  /\ pc = [c \in Callers |-> "out"]
  /\ level = [c \in Callers |-> 0]
  /\ resolved = {}

Ask(c) == Call(c) \/ CallExclusive(c) \/ CallShared(c)
Exit(c) == Leave(c) \/ LeaveExclusive(c) \/ LeaveShared(c)

Next == \E c \in Callers : Ask(c) \/ Resume(c) \/ Exit(c)

\* A resolved promise runs its caller, and every section of code ends.
FairSpec == Init /\ [][Next]_vars /\ \A c \in Callers : WF_vars(Resume(c)) /\ WF_vars(Exit(c))

-----------------------------------------------------------------------------
(* Properties.                                                             *)

\* Queues hold callers once, the caller that runs is at their head, and the
\* count of shared holders is what runs: what release relies on when it shifts
\* the head of a queue without looking at it.
TypeOK ==
  /\ queue \in [Levels -> Seq(Callers)]
  /\ \A i \in Levels : Cardinality(Elements(queue[i])) = Len(queue[i])
  /\ exclusive \in Seq(Callers) /\ shared \in Seq(Callers)
  /\ pc \in [Callers -> {"out", "exclusive", "queue", "shared", "in"}]
  /\ level \in [Callers -> 0..4]
  /\ resolved \in SUBSET {c \in Callers : pc[c] \in {"exclusive", "queue", "shared"}}
  /\ sharedCount = Cardinality({c \in Actions : concurrent /\ pc[c] = "in"})

Inside(C) == {c \in C : pc[c] = "in"}

\* Of the callers that take the queues at most one is inside, and it is the head
\* of every queue it took, so that its `finally` gives back its own locks.
QueueHolder ==
  /\ Cardinality(Inside({c \in Callers : ~(concurrent /\ c \in Actions)})) <= 1
  /\ \A c \in Callers : pc[c] = "in" => \A i \in 1..level[c] : Head(queue[i]) = c
  /\ \A c \in Writers : pc[c] = "in" => Head(exclusive) = c

SA == INSTANCE SingleAccess WITH
        waiting <- {c \in Callers : ~concurrent /\ pc[c] \notin {"out", "in"}},
        inside <- {c \in Inside(Callers) : ~concurrent}

\* Without a concurrent store the locks give every caller the storage to itself,
\* and everyone who asks in turn: SingleAccess.
Serialised == SA!Spec

\* Nobody but a concurrent action waits for ever: no wakeup is lost between the
\* two halves of the action lock and the four queues.
Served ==
  \A c \in Callers \ Actions : pc[c] # "out" ~> pc[c] = "in"
=============================================================================
