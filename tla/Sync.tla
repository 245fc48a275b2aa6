--------------------------------- MODULE Sync ---------------------------------
(***************************************************************************)
(* The stores of one wallet and how WalletStorageManager keeps them alike: *)
(* selection of the active store, backups, the change of active store with *)
(* the merge of conflicting actives, and the import from another reader.   *)
(* A synchronisation goes chunk by chunk; a chunk is merged row by row, the *)
(* sync state of the pair is written last, and any await can fail or be    *)
(* the last thing the process does.                                        *)
(*                                                                         *)
(* A row is kept with its version (when its content was written),          *)
(* updated_at, the id it has in its store and the id of its parent there.  *)
(* Times are the values of one clock that writes move forward.             *)
(***************************************************************************)
EXTENDS Integers, FiniteSets, Sequences, SequencesExt, FiniteSetsExt

CONSTANTS
    Order,          \* the managed stores, in the order given to the manager
    Outside,        \* readers that are no managed store: other wallets' stores
    Items,          \* what rows are about: transactions, outputs, proofs, reqs
    Kind,           \* the table of an item: 1 proven, 2 transaction, 3 output, 4 req
    Parent,         \* the item whose id a row refers to, or the item itself; a row
                    \* that refers to another is its only one in the table
    Held,           \* the items each store has rows of at first
    Stampers,       \* stores that put the present time on an updated row
    NoChunk,        \* a value that is no chunk
    MaxItems,       \* most rows in one chunk
    MaxClock,       \* bound on the clock
    MaxInterrupts,  \* bound on failures and restarts
    MaxImports      \* bound on imports

Managed == Range(Order)
Stores  == Managed \cup Outside
Tables   == 1..4
Ids     == 1..Cardinality(Items)

ASSUME SyncAssumption ==
    /\ Order \in Seq(Range(Order)) /\ Order # <<>> /\ IsInjective(Order) /\ Managed \cap Outside = {}
    /\ IsFiniteSet(Items) /\ Kind \in [Items -> Tables] /\ Parent \in [Items -> Items]
    /\ \A i \in Items : Parent[i] = i \/ Kind[Parent[i]] < Kind[i]
    /\ \A i, j \in Items : Kind[i] = Kind[j] /\ Parent[i] # i /\ Parent[j] # j =>
          Kind[Parent[i]] = Kind[Parent[j]] /\ (Parent[i] = Parent[j] => i = j)
    /\ Held \in [Stores -> SUBSET Items] /\ \A s \in Stores : \A i \in Held[s] : Parent[i] \in Held[s]
    /\ MaxItems \in Nat \ {0} /\ {MaxClock, MaxInterrupts, MaxImports} \subseteq Nat

VARIABLES
    row,        \* row[s][i]: the row of item i in store s; version 0: there is none
    user,       \* user[s]: activeStorage and updated_at of the user's row in s
    sync,       \* sync[w][r]: the sync_states row in w for reader r
    mgr,        \* the manager's memory: its partition of the stores
    job,        \* the synchronisation that runs
    cut,        \* history: the kinds of the jobs that ended before their last step
    clock, interrupts, imports

syVars == <<row, user, sync, mgr, job, cut, clock, interrupts, imports>>

Undefined == -1
NoRow     == [ver |-> 0, at |-> 0, id |-> 0, par |-> 0]
NewSync   == [when |-> Undefined, max |-> Undefined, count |-> [k \in Tables |-> 0],
              map  |-> [k \in Tables |-> [x \in Ids |-> 0]]]
NewUser(s) == [active |-> s, at |-> 0]
Asleep    == [avail |-> FALSE, active |-> Order[1], backups |-> {}, conflicts |-> {},
              cache |-> [s \in Managed |-> s], isActive |-> FALSE]
NoJob      == [kind |-> "none", target |-> Order[1], todo |-> <<>>, chunk |-> NoChunk]

Push(r, w) == [op |-> "push", from |-> r, to |-> w]
Mark(s)    == [op |-> "mark", from |-> s, to |-> s]
Wake(s)    == [op |-> "wake", from |-> s, to |-> s]

\* Writes, interruptions and imports share one bound.
Room == clock + interrupts + imports < MaxClock
Has(s, i)    == row[s][i].ver > 0
NextId(s, k) == 1 + Cardinality({i \in Items : Kind[i] = k /\ Has(s, i)})
\* updated_at a store writes with an update that carries the time t.
Stamp(s, t)  == IF s \in Stampers THEN clock ELSE t

(***************************************************************************)
(* The manager: which store is active, and is it enabled.                  *)
(***************************************************************************)

\* The first store is the active one unless a later store is selected by its
\* own user row and the one held so far is not.
Selected(cache) ==
    LET own == {n \in DOMAIN Order : cache[Order[n]] = Order[n]}
    IN  Order[IF own = {} THEN 1 ELSE Min(own)]

Available(cache) ==
    LET a == Selected(cache)
        others == Managed \ {a}
        conflicts == {s \in others : cache[s] # a}
    IN  [avail |-> TRUE, active |-> a, backups |-> others \ conflicts, conflicts |-> conflicts,
         cache |-> cache, isActive |-> cache[a] = a /\ conflicts = {}]

Enabled(m) == m.avail /\ m.cache[m.active] = m.active /\ m.conflicts = {}

MakeAvailable ==
    /\ ~mgr.avail /\ job.kind = "none"
    /\ mgr' = Available([s \in Managed |-> user[s].active])
    /\ UNCHANGED <<row, user, sync, job, cut, clock, interrupts, imports>>

(***************************************************************************)
(* Jobs: what each call has to do, in order.                               *)
(***************************************************************************)
Begin(kind, target, todo, m) ==
    /\ mgr.avail /\ job.kind = "none"
    /\ job' = [kind |-> kind, target |-> target, todo |-> todo, chunk |-> NoChunk]
    /\ mgr' = m

\* The n-th of S in the order that before gives.
Ranked(S, before(_, _)) ==
    [n \in 1..Cardinality(S) |-> CHOOSE i \in S : Cardinality({j \in S : before(j, i)}) = n - 1]

Place(s)   == CHOOSE n \in DOMAIN Order : Order[n] = s
InOrder(S) == Ranked(S, LAMBDA s, t : Place(s) < Place(t))

\* updateBackups pushes to the backups only, and only from an active store.
Pushes(from, S) == [n \in 1..Len(InOrder(S)) |-> Push(from, InOrder(S)[n])]

UpdateBackups ==
    /\ mgr.isActive
    /\ Begin("backup", mgr.active, Pushes(mgr.active, mgr.backups), mgr)
    /\ UNCHANGED <<row, user, sync, cut, clock, interrupts, imports>>

\* What setActive does: merge the conflicting actives into the new one, write
\* the choice in the source and push the source to every other store.
Switch_FromTarget(n, conflicts) ==
    LET source == n
    IN  [k \in 1..Len(InOrder(conflicts)) |-> Push(InOrder(conflicts)[k], n)]
        \o <<Mark(source)>> \o Pushes(source, Managed \ {source}) \o <<Wake(n)>>
Switch(n, conflicts) ==
    LET source == IF conflicts = {} THEN mgr.active ELSE n
    IN  [k \in 1..Len(InOrder(conflicts)) |-> Push(InOrder(conflicts)[k], n)]
        \o <<Mark(source)>> \o Pushes(source, Managed \ {source}) \o <<Wake(n)>>

SetActive(n) ==
    LET conflicts == IF mgr.conflicts = {} THEN {} ELSE (mgr.conflicts \cup {mgr.active}) \ {n}
    IN  /\ ~(n = mgr.active /\ Enabled(mgr))
        /\ Room
        /\ Begin("switch", n, Switch(n, conflicts), [mgr EXCEPT !.conflicts = conflicts])
        /\ UNCHANGED <<row, user, sync, cut, clock, interrupts, imports>>

\* syncFromReader: the reader's choice of an active store is not imported.
Import ==
    /\ imports < MaxImports
    /\ \E r \in Outside : Begin("import", mgr.active, <<Push(r, mgr.active)>>, mgr)
    /\ imports' = imports + 1
    /\ UNCHANGED <<row, user, sync, cut, clock, interrupts>>

(***************************************************************************)
(* One push: chunks until an empty one.                                    *)
(***************************************************************************)
Doing(op) == job.kind # "none" /\ job.todo # <<>> /\ Head(job.todo).op = op
From == Head(job.todo).from
To   == Head(job.todo).to

\* The rows of one table that changed since the last sync ended, by id.
Since(s, k, when) ==
    Ranked({i \in Items : Kind[i] = k /\ Has(s, i) /\ row[s][i].at >= when},
           LAMBDA i, j : row[s][i].id < row[s][j].id)

Rest(s, k, st) == LET rows == Since(s, k, st.when) IN SubSeq(rows, st.count[k] + 1, Len(rows))

\* Parents come before the rows that refer to them.
ChunkRows_ChildrenFirst(s, st) ==
    LET all == Rest(s, 4, st) \o Rest(s, 3, st) \o Rest(s, 2, st) \o Rest(s, 1, st)
    IN  SubSeq(all, 1, Min({MaxItems, Len(all)}))
ChunkRows(s, st) ==
    LET all == Rest(s, 1, st) \o Rest(s, 2, st) \o Rest(s, 3, st) \o Rest(s, 4, st)
    IN  SubSeq(all, 1, Min({MaxItems, Len(all)}))

ChunkUser(s, st) ==
    IF st.when # Undefined /\ user[s].at <= st.when THEN {}
    ELSE {IF job.kind = "import" THEN [user[s] EXCEPT !.active = mgr.cache[mgr.active]] ELSE user[s]}

\* The last loop of setActive changes the cached choice of each store it passes.
ChosenUpTo(w) ==
    [s \in Managed |-> IF Place(s) <= Place(w) THEN job.target ELSE mgr.cache[s]]

\* The state of a pair is kept by the writer.
SyncState(w, r) == sync[w][r]

\* syncToWriter and syncFromReader ask for the next chunk.
Fetch ==
    /\ Doing("push") /\ job.chunk = NoChunk
    /\ LET st == SyncState(To, From)
           rows == ChunkRows(From, st)
       IN  job' = [job EXCEPT !.chunk =
                      [user |-> ChunkUser(From, st), st |-> st, size |-> Len(rows),
                       rows |-> [n \in 1..Len(rows) |-> [item |-> rows[n], val |-> row[From][rows[n]]]]]]
    /\ mgr' = IF job.kind = "switch" /\ \A n \in DOMAIN job.todo : job.todo[n].op # "mark"
              THEN [mgr EXCEPT !.cache = ChosenUpTo(To)] ELSE mgr
    /\ UNCHANGED <<row, user, sync, cut, clock, interrupts, imports>>

MergeUser ==
    /\ Doing("push") /\ job.chunk # NoChunk /\ job.chunk.user # {}
    /\ LET ei == CHOOSE u \in job.chunk.user : TRUE
       IN  user' = IF ei.at > user[To].at
                   THEN [user EXCEPT ![To] = [active |-> ei.active, at |-> Stamp(To, ei.at)]] ELSE user
    /\ job' = [job EXCEPT !.chunk.user = {}]
    /\ UNCHANGED <<row, sync, mgr, cut, clock, interrupts, imports>>

\* The id in the writer of the parent a row refers to; 0 when it is not mapped.
Mapped(i, val, map) == IF Parent[i] = i THEN 0 ELSE map[Kind[Parent[i]]][val.par]

\* The writer's row for an incoming one: the same txid, or for an output the
\* same transaction id there.
Matches(i, val, map) ==
    {j \in Items : /\ Kind[j] = Kind[i] /\ Has(To, j)
                   /\ IF Parent[i] = i THEN j = i ELSE row[To][j].par = Mapped(i, val, map)}

\* Transactions and outputs: the newer row wins.
MergeNewer(old, val) ==
    IF val.at > old.at THEN [old EXCEPT !.ver = val.ver, !.at = Stamp(To, val.at)] ELSE old

\* Proofs are never updated.
MergeProven(old, val) == old

\* Of a req only notes and notify ids are merged, and its time.
MergeReq(old, val) == [old EXCEPT !.at = Stamp(To, Max({val.at, old.at}))]

MergeExisting(i, old, val) ==
    CASE Kind[i] = 1 -> MergeProven(old, val)
      [] Kind[i] \in {2, 3} -> MergeNewer(old, val)
      [] Kind[i] = 4 -> MergeReq(old, val)

MergeNew(i, val, map) == [val EXCEPT !.id = NextId(To, Kind[i]), !.par = Mapped(i, val, map)]

Unmapped(i, val, map) == Parent[i] # i /\ Mapped(i, val, map) = 0

\* MergeEntity.merge, one row: find, merge or insert, and note the pair of ids.
\* A lookup with an undefined parent id throws; so does a pair that differs
\* from the one noted before.
NotePair(map, k, from, to) == [map EXCEPT ![k][from] = to]

MergeRow ==
    /\ Doing("push") /\ job.chunk # NoChunk /\ job.chunk.user = {} /\ job.chunk.rows # <<>>
    /\ LET x == Head(job.chunk.rows)
           i == x.item
           k == Kind[i]
           map == job.chunk.st.map
           same == Matches(i, x.val, map)
           j == IF same = {} THEN i ELSE CHOOSE j \in same : TRUE
           new == IF same = {} THEN MergeNew(i, x.val, map) ELSE MergeExisting(i, row[To][j], x.val)
       IN  /\ ~Unmapped(i, x.val, map)
           /\ map[k][x.val.id] \in {0, new.id}
           /\ row' = [row EXCEPT ![To][j] = new]
           /\ job' = [job EXCEPT !.chunk.rows = Tail(@),
                                 !.chunk.st.map = NotePair(@, k, x.val.id, new.id),
                                 !.chunk.st.max = Max({@, x.val.at}),
                                 !.chunk.st.count[k] = @ + 1]
    /\ UNCHANGED <<user, sync, mgr, cut, clock, interrupts, imports>>

CutOff ==
    /\ job' = NoJob
    /\ cut' = IF job.kind = "none" THEN cut ELSE cut \cup {job.kind}

MergeThrows ==
    /\ Doing("push") /\ job.chunk # NoChunk /\ job.chunk.user = {} /\ job.chunk.rows # <<>>
    /\ Unmapped(Head(job.chunk.rows).item, Head(job.chunk.rows).val, job.chunk.st.map)
    /\ CutOff
    /\ UNCHANGED <<row, user, sync, mgr, clock, interrupts, imports>>

\* The end of processSyncChunk: the counts are the next offsets, until an empty
\* chunk ends the sync.
Ended_KeepCount(st) == [st EXCEPT !.when = st.max]
Ended(st) == [st EXCEPT !.when = st.max, !.count = [k \in Tables |-> 0]]

EndChunk ==
    /\ Doing("push") /\ job.chunk # NoChunk /\ job.chunk.user = {} /\ job.chunk.rows = <<>>
    /\ LET done == job.chunk.size = 0
       IN  /\ sync' = [sync EXCEPT ![To][From] = IF done THEN Ended(job.chunk.st) ELSE job.chunk.st]
           /\ job' = [job EXCEPT !.chunk = NoChunk, !.todo = IF done THEN Tail(@) ELSE @]
    /\ UNCHANGED <<row, user, mgr, cut, clock, interrupts, imports>>

\* setActive of the source store: its user row is updated, with the time of now.
Marked(s) == [user EXCEPT ![s] = [active |-> job.target, at |-> clock + 1]]

MarkSource ==
    /\ Doing("mark")
    /\ user' = Marked(From) /\ clock' = clock + 1
    /\ job' = [job EXCEPT !.todo = Tail(@)]
    /\ UNCHANGED <<row, sync, mgr, cut, interrupts, imports>>

\* The last step of setActive partitions the stores again by the cached choices.
WakeUp ==
    /\ Doing("wake")
    /\ mgr' = Available([s \in Managed |-> job.target])
    /\ job' = [job EXCEPT !.todo = Tail(@)]
    /\ UNCHANGED <<row, user, sync, cut, clock, interrupts, imports>>

Finish ==
    /\ job.kind # "none" /\ job.todo = <<>>
    /\ job' = NoJob
    /\ UNCHANGED <<row, user, sync, mgr, cut, clock, interrupts, imports>>

\* A store cannot be reached: the call throws, and memory stays as it is.
StoreFails ==
    /\ job.kind # "none" /\ job.todo # <<>> /\ interrupts < MaxInterrupts
    /\ interrupts' = interrupts + 1
    /\ CutOff
    /\ UNCHANGED <<row, user, sync, mgr, clock, imports>>

\* The process ends at any time and starts again.
SyncCrash ==
    /\ mgr.avail /\ interrupts < MaxInterrupts
    /\ interrupts' = interrupts + 1
    /\ mgr' = Asleep /\ CutOff
    /\ UNCHANGED <<row, user, sync, clock, imports>>

(***************************************************************************)
(* The wallet writes to its active store, never during a synchronisation.  *)
(***************************************************************************)
Write ==
    /\ mgr.isActive /\ job.kind = "none" /\ Room
    /\ \E i \in Items :
          LET s == mgr.active
              p == Parent[i]
          IN  /\ p = i \/ Has(s, p)
              /\ row' = [row EXCEPT ![s][i] =
                            IF Has(s, i) THEN [@ EXCEPT !.ver = clock + 1, !.at = clock + 1]
                            ELSE [ver |-> clock + 1, at |-> clock + 1, id |-> NextId(s, Kind[i]),
                                  par |-> IF p = i THEN 0 ELSE row[s][p].id]]
    /\ clock' = clock + 1
    /\ UNCHANGED <<user, sync, mgr, job, cut, interrupts, imports>>

\* A store has old rows of the items it holds, and the user row of a new user,
\* which selects the store itself.
OldIds(S) == CHOOSE f \in [S -> 1..Cardinality(S)] : \A i, j \in S : f[i] = f[j] => i = j
OldRow(s, i) ==
    LET id(j) == OldIds({l \in Held[s] : Kind[l] = Kind[j]})[j]
    IN  [ver |-> 1, at |-> 1, id |-> id(i), par |-> IF Parent[i] = i THEN 0 ELSE id(Parent[i])]

SyInit ==
    /\ row = [s \in Stores |-> [i \in Items |-> IF i \in Held[s] THEN OldRow(s, i) ELSE NoRow]]
    /\ user = [s \in Stores |-> NewUser(s)]
    /\ sync = [w \in Managed |-> [r \in Stores |-> NewSync]]
    /\ mgr = Asleep /\ job = NoJob /\ cut = {}
    /\ clock = 1 /\ interrupts = 0 /\ imports = 0

SyNext == \/ MakeAvailable \/ UpdateBackups \/ (\E n \in Managed : SetActive(n)) \/ Import
          \/ Fetch \/ MergeUser \/ MergeRow \/ MergeThrows \/ EndChunk
          \/ MarkSource \/ WakeUp \/ Finish \/ StoreFails \/ SyncCrash \/ Write

SySpec == SyInit /\ [][SyNext]_syVars

--------------------------------------------------------------------------------
(***************************************************************************)
(* Properties.                                                             *)
(***************************************************************************)

\* A row belongs to the same parent in every store, whatever ids the stores gave
\* (EntityOutput.mergeNew); and the parent of a row that arrives is known by then,
\* also when backups were cut off and resumed, and after restarts (getSyncChunk's
\* order of tables, syncMap).  A switch that was cut off can leave a store with rows
\* whose time is before its last push: they are not sent on.
SameParents ==
    \A s \in Stores, i \in Items : Has(s, i) /\ Parent[i] # i =>
        Has(s, Parent[i]) /\ row[s][i].par = row[s][Parent[i]].id
ParentKnown ==
    imports = 0 /\ "switch" \notin cut /\ Doing("push") /\ job.chunk # NoChunk /\ job.chunk.rows # <<>> =>
        ~Unmapped(Head(job.chunk.rows).item, Head(job.chunk.rows).val, job.chunk.st.map)
ParentsAgree == SameParents /\ ParentKnown

Newest(i) == Kind[i] \in {2, 3}

\* After updateBackups every backup has what the active store has
\* (WalletStorageManager: "Changes are pushed from the active storage service to
\* each inactive, backup service").
BackedUp ==
    job.kind = "backup" /\ job.todo = <<>> =>
        \A s \in mgr.backups, i \in Items : Newest(i) => row[s][i].ver = row[mgr.active][i].ver

\* The same, for a wallet that never imported and none of whose jobs was cut off,
\* whatever restarts: rows that arrive with an old time are not sent on, nor is a
\* row that changes below the offset of a sync that was cut off.
BackupComplete == imports = 0 /\ cut = {} => BackedUp

\* The enabled active store has the newest row of everything, so no switch forgets
\* what was written before it (setActive).
ActiveComplete ==
    mgr.isActive /\ job.kind = "none" =>
        \A s \in Managed, i \in Items : Newest(i) => row[s][i].ver <= row[mgr.active][i].ver

\* The same, for a wallet that never imported and no switch or backup of which was
\* cut off, whatever restarts.
SwitchKeepsAll == imports = 0 /\ cut = {} => ActiveComplete
================================================================================
