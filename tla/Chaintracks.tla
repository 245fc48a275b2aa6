---- MODULE Chaintracks ----
(***************************************************************************)
(* The life of the Chaintracks service and its SingleWriterMultiReaderLock.*)
(* Clients read under the read lock after making the service available;    *)
(* the first of them starts the main thread, which synchronises and inserts*)
(* headers, under the write lock once the service is available.  destroy   *)
(* takes the write lock and waits for the main thread to end.              *)
(*                                                                         *)
(* A queued caller is woken by resolving its promise: it goes on, and sets *)
(* the flags of the lock, only when its turn comes (`woken`).              *)
(***************************************************************************)
EXTENDS Integers, Sequences, FiniteSets, SequencesExt

CONSTANTS
    Clients,        \* callers of the service
    Threads,        \* bound: main threads ever started
    MaxCalls,       \* bound: calls of all clients
    MaxHeaders,     \* bound: headers that arrive
    MaxSyncs,       \* bound: bulk synchronisations started
    MaxFailures,    \* bound: failures of initial synchronisation
    MaxDestroys     \* bound: calls of destroy

VARIABLES
    readers, writerActive, readerQueue, writerQueue, woken,  \* the lock
    at,             \* client -> where it is
    calls,          \* calls made
    thread,         \* thread -> where it is
    available, startupError, stopMainThread,
    headers,        \* headers waiting in liveHeaders
    arrived, syncs, failures, destroys

lockVars == <<readers, writerActive, readerQueue, writerQueue, woken>>
stateVars == <<available, startupError, stopMainThread>>
bounds == <<arrived, syncs, failures, destroys>>
ctVars == <<lockVars, at, calls, thread, stateVars, headers, bounds>>

Started == {t \in Threads : thread[t] \notin {"unborn", "ended"}}

----------------------------------------------------------------------------
\* The lock

\* checkQueues, with the counts the caller leaves behind.
CheckQueues(r, w) ==
    IF w \/ r > 0 THEN UNCHANGED <<readerQueue, writerQueue>> /\ woken' = woken
    ELSE IF writerQueue # <<>>
    THEN /\ writerQueue' = Tail(writerQueue)
         /\ woken' = woken \cup {Head(writerQueue)}
         /\ UNCHANGED readerQueue
    ELSE /\ readerQueue' = <<>>
         /\ woken' = woken \cup Range(readerQueue)
         /\ UNCHANGED writerQueue

ReadFree == ~writerActive /\ writerQueue = <<>>
WriteFree == ~writerActive /\ readers = 0

TakeRead == readers' = readers + 1 /\ UNCHANGED <<writerActive, readerQueue, writerQueue>>
TakeWrite == writerActive' = TRUE /\ UNCHANGED <<readers, readerQueue, writerQueue>>
QueueRead(p) == readerQueue' = Append(readerQueue, p) /\ UNCHANGED <<readers, writerActive, writerQueue>>
QueueWrite(p) == writerQueue' = Append(writerQueue, p) /\ UNCHANGED <<readers, writerActive, readerQueue>>

\* No queue is looked at.
EndRead_Silent == readers' = readers - 1 /\ UNCHANGED <<writerActive, readerQueue, writerQueue, woken>>

EndRead == readers' = readers - 1 /\ CheckQueues(readers - 1, writerActive) /\ UNCHANGED writerActive
EndWrite == writerActive' = FALSE /\ CheckQueues(readers, FALSE) /\ UNCHANGED readers

\* withReadLock and withWriteLock up to the call of fn: at once, or queued.
AskRead(p, f, inside, waiting) ==
    /\ IF ReadFree THEN TakeRead /\ f' = [f EXCEPT ![p] = inside]
       ELSE QueueRead(p) /\ f' = [f EXCEPT ![p] = waiting]
    /\ UNCHANGED woken
AskWrite(p, f, inside, waiting) ==
    /\ IF WriteFree THEN TakeWrite /\ f' = [f EXCEPT ![p] = inside]
       ELSE QueueWrite(p) /\ f' = [f EXCEPT ![p] = waiting]
    /\ UNCHANGED woken

Resumes(p, f, waiting, inside) ==
    /\ f[p] = waiting /\ p \in woken
    /\ woken' = woken \ {p}
    /\ f' = [f EXCEPT ![p] = inside]

----------------------------------------------------------------------------
\* Clients

Go(c, place) == at' = [at EXCEPT ![c] = place]

\* A query begins with makeAvailable.
Query(c) ==
    /\ at[c] = "idle" /\ calls < MaxCalls
    /\ calls' = calls + 1
    /\ IF available THEN Go(c, "ask") /\ UNCHANGED lockVars
       ELSE AskWrite(c, at, "starting", "startWaits")
    /\ UNCHANGED <<thread, stateVars, headers, bounds>>

StartResumes(c) ==
    /\ Resumes(c, at, "startWaits", "starting") /\ TakeWrite
    /\ UNCHANGED <<calls, thread, stateVars, headers, bounds>>

\* Another main thread whatever the state.
Start_Unchecked(c) ==
    /\ at[c] = "starting"
    /\ \E t \in Threads :
        /\ thread[t] = "unborn"
        /\ thread' = [thread EXCEPT ![t] = "loop"]
    /\ stopMainThread' = FALSE
    /\ Go(c, "polling")
    /\ UNCHANGED <<lockVars, calls, available, startupError, headers, bounds>>

\* Under the write lock: only when not available yet, the ingestors and the
\* main thread are started.
Start(c) ==
    /\ at[c] = "starting"
    /\ IF available THEN Go(c, "started") /\ UNCHANGED <<thread, stopMainThread>>
       ELSE \E t \in Threads :
            /\ thread[t] = "unborn"
            /\ thread' = [thread EXCEPT ![t] = "loop"]
            /\ stopMainThread' = FALSE
            /\ Go(c, "polling")
    /\ UNCHANGED <<lockVars, calls, available, startupError, headers, bounds>>

\* The caller polls until the main thread has synchronised, or failed.
Poll(c) ==
    /\ at[c] = "polling"
    /\ available \/ startupError
    /\ Go(c, IF startupError THEN "throwing" ELSE "started")
    /\ UNCHANGED <<lockVars, calls, thread, stateVars, headers, bounds>>

StartEnds(c) ==
    /\ at[c] \in {"started", "throwing"}
    /\ EndWrite
    /\ Go(c, IF at[c] = "started" THEN "ask" ELSE "idle")
    /\ UNCHANGED <<calls, thread, stateVars, headers, bounds>>

EnterRead(c) ==
    /\ at[c] = "ask"
    /\ AskRead(c, at, "reading", "readWaits")
    /\ UNCHANGED <<calls, thread, stateVars, headers, bounds>>

ReadResumes(c) ==
    /\ Resumes(c, at, "readWaits", "reading") /\ TakeRead
    /\ UNCHANGED <<calls, thread, stateVars, headers, bounds>>

ReadEnds(c) ==
    /\ at[c] = "reading"
    /\ EndRead
    /\ Go(c, "idle")
    /\ UNCHANGED <<calls, thread, stateVars, headers, bounds>>

\* destroy
Destroy(c) ==
    /\ at[c] = "idle" /\ available /\ destroys < MaxDestroys
    /\ destroys' = destroys + 1
    /\ AskWrite(c, at, "destroying", "destroyWaits")
    /\ UNCHANGED <<calls, thread, stateVars, headers, arrived, syncs, failures>>

DestroyResumes(c) ==
    /\ Resumes(c, at, "destroyWaits", "destroying") /\ TakeWrite
    /\ UNCHANGED <<calls, thread, stateVars, headers, bounds>>

DestroyStops(c) ==
    /\ at[c] = "destroying"
    /\ IF ~available \/ stopMainThread
       THEN Go(c, "destroyed") /\ UNCHANGED stopMainThread
       ELSE Go(c, "joining") /\ stopMainThread' = TRUE
    /\ UNCHANGED <<lockVars, calls, thread, available, startupError, headers, bounds>>

\* All promises have settled.
DestroyJoins(c) ==
    /\ at[c] = "joining" /\ Started = {}
    /\ available' = FALSE /\ stopMainThread' = FALSE
    /\ Go(c, "destroyed")
    /\ UNCHANGED <<lockVars, calls, thread, startupError, headers, bounds>>

DestroyEnds(c) ==
    /\ at[c] = "destroyed"
    /\ EndWrite
    /\ Go(c, "idle")
    /\ UNCHANGED <<calls, thread, stateVars, headers, bounds>>

----------------------------------------------------------------------------
\* mainThreadShiftLiveHeaders

Step(t, place) == thread' = [thread EXCEPT ![t] = place]

\* Another round: present height and ranges are read, and decide whether to
\* synchronise; initial synchronisation, without the lock, may fail.
Loop(t) ==
    /\ thread[t] = "loop"
    /\ \/ stopMainThread /\ Step(t, "ended") /\ UNCHANGED <<startupError, stopMainThread, syncs, failures>>
       \/ /\ ~stopMainThread /\ Step(t, "queue")
          /\ UNCHANGED <<startupError, stopMainThread, syncs, failures>>
       \/ /\ ~stopMainThread /\ available /\ syncs < MaxSyncs
          /\ Step(t, "wantSync") /\ syncs' = syncs + 1
          /\ UNCHANGED <<startupError, stopMainThread, failures>>
       \/ /\ ~stopMainThread /\ ~available /\ failures < MaxFailures
          /\ failures' = failures + 1
          /\ startupError' = TRUE /\ stopMainThread' = TRUE /\ Step(t, "ended")
          /\ UNCHANGED syncs
    /\ UNCHANGED <<lockVars, at, calls, available, headers, arrived, destroys>>

\* syncBulkStorage and addLiveHeader take the write lock when available.
WantSync(t) ==
    /\ thread[t] = "wantSync"
    /\ AskWrite(t, thread, "syncing", "syncWaits")
    /\ UNCHANGED <<at, calls, stateVars, headers, bounds>>

SyncResumes(t) ==
    /\ Resumes(t, thread, "syncWaits", "syncing") /\ TakeWrite
    /\ UNCHANGED <<at, calls, stateVars, headers, bounds>>

SyncEnds(t) ==
    /\ thread[t] = "syncing" /\ EndWrite /\ Step(t, "queue")
    /\ UNCHANGED <<at, calls, stateVars, headers, bounds>>

\* processLiveHeaderQueue: the next header, the idle path that makes the
\* service available, another synchronisation check, or the end.
Queue(t) ==
    /\ thread[t] = "queue"
    /\ IF stopMainThread THEN Step(t, "loop") /\ UNCHANGED <<lockVars, available, headers>>
       ELSE IF headers > 0
       THEN /\ headers' = headers - 1
            /\ IF available THEN AskWrite(t, thread, "inserting", "insertWaits")
               ELSE UNCHANGED <<lockVars, thread>>
            /\ UNCHANGED available
       ELSE /\ available' = TRUE
            /\ \/ Step(t, "loop") \/ UNCHANGED thread
            /\ UNCHANGED <<lockVars, headers>>
    /\ UNCHANGED <<at, calls, startupError, stopMainThread, bounds>>

InsertResumes(t) ==
    /\ Resumes(t, thread, "insertWaits", "inserting") /\ TakeWrite
    /\ UNCHANGED <<at, calls, stateVars, headers, bounds>>

\* After the insertion; one that fails asks for another synchronisation check.
InsertEnds(t) ==
    /\ thread[t] = "inserting" /\ EndWrite
    /\ Step(t, "queue") \/ Step(t, "loop")
    /\ UNCHANGED <<at, calls, stateVars, headers, bounds>>

\* A live ingestor pushes a header (environment).
Arrive ==
    /\ arrived < MaxHeaders /\ Started # {}
    /\ arrived' = arrived + 1 /\ headers' = headers + 1
    /\ UNCHANGED <<lockVars, at, calls, thread, stateVars, syncs, failures, destroys>>

----------------------------------------------------------------------------
CtInit ==
    /\ readers = 0 /\ writerActive = FALSE
    /\ readerQueue = <<>> /\ writerQueue = <<>> /\ woken = {}
    /\ at = [c \in Clients |-> "idle"]
    /\ calls = 0
    /\ thread = [t \in Threads |-> "unborn"]
    /\ available = FALSE /\ startupError = FALSE /\ stopMainThread = TRUE
    /\ headers = 0
    /\ arrived = 0 /\ syncs = 0 /\ failures = 0 /\ destroys = 0

ClientStep(c) ==
    \/ StartResumes(c) \/ Start(c) \/ Poll(c) \/ StartEnds(c)
    \/ EnterRead(c) \/ ReadResumes(c) \/ ReadEnds(c)
    \/ DestroyResumes(c) \/ DestroyStops(c) \/ DestroyJoins(c) \/ DestroyEnds(c)

ThreadStep(t) ==
    \/ Loop(t) \/ WantSync(t) \/ SyncResumes(t) \/ SyncEnds(t)
    \/ Queue(t) \/ InsertResumes(t) \/ InsertEnds(t)

CtNext ==
    \/ \E c \in Clients : Query(c) \/ Destroy(c) \/ ClientStep(c)
    \/ \E t \in Threads : ThreadStep(t)
    \/ Arrive

CtSpec ==
    /\ CtInit /\ [][CtNext]_ctVars
    /\ \A c \in Clients : WF_ctVars(ClientStep(c))
    /\ \A t \in Threads : WF_ctVars(ThreadStep(t))

----------------------------------------------------------------------------
Writing == {c \in Clients : at[c] \in {"starting", "polling", "started", "throwing",
                                      "destroying", "joining", "destroyed"}}
          \cup {t \in Threads : thread[t] \in {"syncing", "inserting"}}
Reading == {c \in Clients : at[c] = "reading"}

Waiting(p) == \/ p \in Clients /\ at[p] \in {"startWaits", "readWaits", "destroyWaits"}
              \/ p \in Threads /\ thread[p] \in {"syncWaits", "insertWaits"}

\* "Allows multiple readers or one writer at a time."
Exclusive == Cardinality(Writing) <= 1 /\ (Writing # {} => Reading = {})

\* "Only the first call proceeds to initialize...": one main thread inserts
\* headers, until initial synchronisation fails or the service is destroyed.
\* (After either, a caller that was resolved and one that finds the lock free
\* before it resumes can both be in Start, and start one each.)
OneMainThread == failures + destroys = 0 => Cardinality(Started) <= 1

\* Whoever waits for the lock gets it, as long as nobody calls destroy.
LockServes ==
    \A p \in Clients \cup Threads : Waiting(p) ~> ~Waiting(p) \/ destroys > 0
====
