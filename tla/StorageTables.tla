----------------------------- MODULE StorageTables -----------------------------
\* The tables of a wallet store over its three back-ends: SQL ("sql"), IndexedDB
\* ("idb") and RocksDb ("rocks").  Clients look a row up and insert it when it is
\* missing, each with one retry; a reader walks a table in pages.
\* Left out: the columns that are neither searched for nor assigned, and what SQL
\* servers other than SQLite let a second connection do during a transaction.
EXTENDS Integers, Sequences, FiniteSets, FiniteSetsExt

CONSTANTS
  Backends,      \* the back-ends to choose from
  Clients,    \* concurrent calls
  Keys,       \* names, txids or identity keys (numbers)
  BlockSize,  \* ROCKSDB_ID_BLOCK_SIZE
  PageLimit,  \* rows asked for with a page
  MaxRows,    \* bound: rows of the listed table
  MaxTroubles,\* bound: failures of the store, and restarts
  Nobody

ASSUME TablesAssumption ==
  /\ Backends \subseteq {"sql", "idb", "rocks"} /\ Backends # {}
  /\ Keys \subseteq Nat /\ {BlockSize, PageLimit} \subseteq Nat \ {0}
  /\ Nobody \notin Clients

VARIABLES
  store,     \* the back-end of this store
  rows,      \* records [table, id, key, deleted]
  counter,   \* RocksDb: per table, the last id of the last block handed out
  block,     \* RocksDb: per table, what is left of the block in memory
  refill,    \* RocksDb: tables whose block is being refilled
  at,        \* per client, its call
  trx,       \* the client whose transaction is open
  before,    \* the rows when that transaction began
  matches,   \* the listed table: per row, whether the reader asks for it
  offset,    \* where the reader's next page begins; Nobody: it has ended
  seen,      \* the rows it was given
  settled,   \* a row left what the reader asks for while it was reading
  troubles

tVars == <<store, rows, counter, block, refill, at, trx, before, matches, offset, seen, settled, troubles>>
readVars == <<matches, offset, seen, settled>>
idVars == <<counter, block, refill>>

\* What a call looks up, in order: a label and its map row, a tag and its map row
\* in one transaction, a user and the default basket that is its new user's, one
\* row of the others.
TablesOf(op) ==
  CASE op = "label" -> <<"tx_labels", "tx_labels_map">>
    [] op = "tag"   -> <<"output_tags", "output_tags_map">>
    [] op = "user"  -> <<"users", "output_baskets">>
    [] op = "req"   -> <<"proven_tx_reqs">>
    [] op = "sync"  -> <<"sync_states">>

Ops == {"label", "tag", "user", "req", "sync"}
AllTables == UNION {{TablesOf(op)[i] : i \in 1..Len(TablesOf(op))} : op \in Ops}

\* Map rows have no id: their two foreign keys are their key.
MapTables == {"tx_labels_map", "output_tags_map"}

\* TablesOf where the database refuses a second row with the key searched for.
SqlUnique == AllTables \ {"sync_states"}
IdbUnique == AllTables \ {"sync_states"}
Unique(table) == table \in CASE store = "sql" -> SqlUnique [] store = "idb" -> IdbUnique [] store = "rocks" -> {}

TTypeOK ==
  /\ store \in Backends /\ refill \subseteq AllTables /\ trx \in Clients \cup {Nobody}
  /\ counter \in [AllTables -> Nat] /\ block \in [AllTables -> [next : Nat, end : Nat]]
  /\ \A r \in rows : r.table \in AllTables /\ r.id \in Nat /\ r.key \in Nat /\ r.deleted \in BOOLEAN
  /\ \A c \in Clients : at[c].op \in Ops /\ at[c].tries \in 0..1 /\ at[c].step \in 1..2

TInit ==
  /\ store \in Backends
  /\ rows \in {{}, {[table |-> "tx_labels", id |-> 1, key |-> Min(Keys), deleted |-> TRUE]}}
  /\ counter = [t \in AllTables |-> IF \E r \in rows : r.table = t THEN BlockSize ELSE 0]
  /\ block = [t \in AllTables |-> [next |-> 1, end |-> 0]]
  /\ refill = {} /\ trx = Nobody /\ before = {} /\ troubles = 0
  /\ \E ops \in [Clients -> Ops], keys \in [Clients -> Keys] :
       at = [c \in Clients |-> [op |-> ops[c], key |-> keys[c], step |-> 1, id |-> 0, parent |-> 0, tries |-> 0, row |-> {},
                                 stage |-> IF ops[c] = "tag" THEN "begin" ELSE "find", hurt |-> FALSE]]
  /\ \E n \in 0..MaxRows : matches \in [1..n -> BOOLEAN]
  /\ offset = 0 /\ seen = {} /\ settled = FALSE

-----------------------------------------------------------------------------
\* Find or insert

Table(c) == TablesOf(at[c].op)[at[c].step]
\* The row of the second lookup is keyed by the id of the first.
Searched(c) == IF at[c].step = 1 THEN at[c].key ELSE at[c].parent
Same(c) == {r \in rows : r.table = Table(c) /\ r.key = Searched(c)}
IdOf(r) == IF r.table \in MapTables THEN r.key ELSE r.id

\* SQLite has one connection and an IndexedDB transaction takes every table, so
\* nobody else gets at the database while one is open.  A transaction of RocksDb
\* keeps out the other transactions only.
Runs(c, stage) == at[c].stage = stage /\ (trx \in {Nobody, c} \/ store = "rocks")

\* transaction: the scope starts.
BeginTrx(c) ==
  /\ at[c].stage = "begin" /\ trx = Nobody
  /\ trx' = c /\ before' = rows /\ at' = [at EXCEPT ![c].stage = "find"]
  /\ UNCHANGED <<store, rows, idVars, readVars, troubles>>

\* The call ends: its transaction is committed, or rolled back where there is one
\* to roll back.
End(c, stage, base) ==
  /\ at' = [at EXCEPT ![c].stage = stage]
  /\ trx' = IF trx = c THEN Nobody ELSE trx
  /\ before' = IF trx = c THEN {} ELSE before
  /\ rows' = IF trx = c /\ stage = "refused" /\ store # "rocks" THEN before ELSE base

Throw_Once(c) == End(c, "refused", rows)

\* A lookup failed: it is made once more, from the user for a new user's basket.
Throw(c) ==
  IF at[c].tries = 0
  THEN /\ at' = [at EXCEPT ![c].tries = 1, ![c].stage = "find",
                           ![c].step = IF at[c].op = "user" THEN 1 ELSE at[c].step]
       /\ UNCHANGED <<rows, trx, before>>
  ELSE End(c, "refused", rows)

\* The row is there: the call goes on to the row that refers to it.
Advance(c, id, isNew, base) ==
  IF at[c].step = Len(TablesOf(at[c].op)) \/ (at[c].op = "user" /\ ~isNew)
  THEN End(c, "done", base)
  ELSE /\ at' = [at EXCEPT ![c].step = 2, ![c].parent = id, ![c].id = 0,
                           ![c].tries = IF at[c].op = "user" THEN @ ELSE 0,
                           ![c].stage = IF at[c].op # "user" THEN "find"
                                        ELSE IF store = "rocks" THEN "id" ELSE "insert"]
       /\ rows' = base /\ UNCHANGED <<trx, before>>

\* verifyOneOrNone refuses two rows.
Find(c) ==
  /\ Runs(c, "find")
  /\ LET found == Same(c) IN
     CASE Cardinality(found) > 1 -> Throw(c)
       [] found = {} ->
            /\ at' = [at EXCEPT ![c].stage = IF store # "rocks" THEN "insert"
                                             ELSE IF Table(c) \in MapTables THEN "put" ELSE "id"]
            /\ UNCHANGED <<rows, trx, before>>
       [] OTHER -> LET r == CHOOSE x \in found : TRUE IN
            IF r.deleted
            THEN at' = [at EXCEPT ![c].stage = "revive", ![c].id = r.id] /\ UNCHANGED <<rows, trx, before>>
            ELSE Advance(c, IdOf(r), FALSE, rows)
  /\ UNCHANGED <<store, idVars, readVars, troubles>>

Undeleted(r) == [r EXCEPT !.deleted = FALSE]

\* A row that was deleted elsewhere is brought back; a row that is gone is not.
Revive(c) ==
  /\ Runs(c, "revive") /\ store # "rocks"
  /\ LET old == {r \in Same(c) : r.id = at[c].id} IN
     Advance(c, at[c].id, FALSE, (rows \ old) \cup {Undeleted(r) : r \in old})
  /\ UNCHANGED <<store, idVars, readVars, troubles>>

\* RocksDb reads the row, and puts it back whole in a later step.
ReadRow(c) ==
  /\ store = "rocks" /\ Runs(c, "revive")
  /\ at' = [at EXCEPT ![c].stage = "back", ![c].row = {Undeleted(r) : r \in {x \in Same(c) : x.id = at[c].id}}]
  /\ UNCHANGED <<store, rows, idVars, trx, before, readVars, troubles>>

PutBack(c) ==
  /\ store = "rocks" /\ Runs(c, "back")
  /\ LET old == {x \in rows : \E r \in at[c].row : x.table = r.table /\ x.id = r.id} IN
     Advance(c, at[c].id, FALSE, (rows \ old) \cup at[c].row)
  /\ UNCHANGED <<store, idVars, readVars, troubles>>

TableRow(c, id) == [table |-> Table(c), id |-> IF Table(c) \in MapTables THEN 0 ELSE id, key |-> Searched(c), deleted |-> FALSE]
NextKey(table) == 1 + Max({0} \cup {r.id : r \in {x \in rows : x.table = table}})

\* SQL and IndexedDB: the database gives the id and refuses a key it has.
InsertSql(c) ==
  /\ store = "sql" /\ Runs(c, "insert")
  /\ IF Unique(Table(c)) /\ Same(c) # {} THEN Throw(c)
     ELSE LET r == TableRow(c, NextKey(Table(c))) IN Advance(c, IdOf(r), TRUE, rows \cup {r})
  /\ UNCHANGED <<store, idVars, readVars, troubles>>

InsertIdb(c) ==
  /\ store = "idb" /\ Runs(c, "insert")
  /\ IF Unique(Table(c)) /\ Same(c) # {} THEN Throw(c)
     ELSE LET r == TableRow(c, NextKey(Table(c))) IN Advance(c, IdOf(r), TRUE, rows \cup {r})
  /\ UNCHANGED <<store, idVars, readVars, troubles>>

-----------------------------------------------------------------------------
\* RocksDb: ids come in blocks

\* nextId: an id of the block in memory, or a refill, shared by those who wait.
TakeId(c) ==
  /\ store = "rocks" /\ Runs(c, "id") /\ Table(c) \notin refill
  /\ LET t == Table(c) IN
     IF block[t].next <= block[t].end
     THEN /\ at' = [at EXCEPT ![c].stage = "put", ![c].id = block[t].next]
          /\ block' = [block EXCEPT ![t].next = @ + 1] /\ UNCHANGED refill
     ELSE refill' = refill \cup {t} /\ UNCHANGED <<at, block>>
  /\ UNCHANGED <<store, rows, counter, trx, before, readVars, troubles>>

BlockTo_FromOne(end) == [next |-> 1, end |-> end]

\* The block whose last id is end.
BlockTo(end) == [next |-> end - BlockSize + 1, end |-> end]

RefillIdBlock(t) ==
  /\ t \in refill /\ refill' = refill \ {t}
  /\ counter' = [counter EXCEPT ![t] = @ + BlockSize]
  /\ block' = [block EXCEPT ![t] = BlockTo(counter[t] + BlockSize)]
  /\ UNCHANGED <<store, rows, at, trx, before, readVars, troubles>>

\* putEntity: the row of that table and id, or of those foreign keys, is replaced.
Put(c) ==
  /\ store = "rocks" /\ Runs(c, "put")
  /\ LET r == TableRow(c, at[c].id)
         old == {x \in rows : x.table = r.table /\ IdOf(x) = IdOf(r)} IN
     Advance(c, IdOf(r), TRUE, (rows \ old) \cup {r})
  /\ UNCHANGED <<store, idVars, readVars, troubles>>

-----------------------------------------------------------------------------
\* Failures

\* The database fails what the client asks of it.
FailCall(c) ==
  /\ troubles < MaxTroubles /\ troubles' = troubles + 1
  /\ \E stage \in {"find", "revive", "back", "insert", "put"} : Runs(c, stage)
  /\ LET hit == [at[c] EXCEPT !.hurt = TRUE] IN
     IF at[c].tries = 0
     THEN /\ at' = [at EXCEPT ![c] = [hit EXCEPT !.tries = 1, !.stage = "find",
                                             !.step = IF hit.op = "user" THEN 1 ELSE hit.step]]
          /\ UNCHANGED <<rows, trx, before>>
     ELSE /\ at' = [at EXCEPT ![c] = [hit EXCEPT !.stage = "refused"]]
          /\ rows' = IF trx = c /\ store # "rocks" THEN before ELSE rows
          /\ trx' = (IF trx = c THEN Nobody ELSE trx) /\ before' = IF trx = c THEN {} ELSE before
  /\ UNCHANGED <<store, idVars, readVars>>

\* The process starts again: what was in memory is gone, an open transaction of SQL
\* or IndexedDB with it.  Clients call again.
Restart ==
  /\ troubles < MaxTroubles /\ troubles' = troubles + 1
  /\ rows' = IF trx # Nobody /\ store # "rocks" THEN before ELSE rows
  /\ trx' = Nobody /\ before' = {} /\ refill' = {}
  /\ block' = [t \in AllTables |-> [next |-> 1, end |-> 0]]
  /\ at' = [c \in Clients |-> IF at[c].stage \in {"done", "refused"} \/ at[c].step = 2 THEN [at[c] EXCEPT !.stage = "gone"]
                              ELSE [at[c] EXCEPT !.tries = 0, !.stage = IF @ = "begin" \/ trx = c THEN "begin" ELSE "find"]]
  /\ UNCHANGED <<store, counter, readVars>>

-----------------------------------------------------------------------------
\* Pages

Rows == 1..Len(matches)

\* The i-th of S in the order of the ids, skipping the first from.
Window(S, from) == {i \in S : Cardinality({j \in S : j < i}) \in from..(from + PageLimit - 1)}
Asked == {i \in Rows : matches[i]}

SqlPage(from) == Window(Asked, from)
IdbPage(from) == Window(Asked, from)
\* RocksDb cuts the page out of the table and filters what it cut.
RocksPage(from) == Window(Rows, from) \cap Asked

Page(from) == CASE store = "sql" -> SqlPage(from) [] store = "idb" -> IdbPage(from) [] store = "rocks" -> RocksPage(from)

\* A monitor task reads until a page is empty or short.  It may settle what it read.
ReadPage ==
  /\ offset # Nobody
  /\ LET page == Page(offset) IN
     /\ seen' = seen \cup page
     /\ offset' = IF Cardinality(page) < PageLimit THEN Nobody ELSE offset + PageLimit
     /\ \E out \in {{}, page} :
          /\ matches' = [i \in Rows |-> matches[i] /\ i \notin out]
          /\ settled' = (settled \/ out # {})
  /\ UNCHANGED <<store, rows, idVars, at, trx, before, troubles>>

\* The next round.
NextRound ==
  /\ offset = Nobody /\ settled
  /\ offset' = 0 /\ seen' = {} /\ settled' = FALSE
  /\ UNCHANGED <<store, rows, idVars, at, trx, before, matches, troubles>>

CallsNext ==
  \/ \E c \in Clients : BeginTrx(c) \/ Find(c) \/ Revive(c) \/ ReadRow(c) \/ PutBack(c) \/ InsertSql(c) \/ InsertIdb(c)
                        \/ TakeId(c) \/ Put(c) \/ FailCall(c)
  \/ \E t \in AllTables : RefillIdBlock(t)
  \/ Restart

ReadNext == ReadPage \/ NextRound

TNext == CallsNext \/ ReadNext

TablesSpec == TInit /\ [][TNext]_tVars

-----------------------------------------------------------------------------
\* Properties

\* On SQL and IndexedDB a lookup of a row with a unique key is refused only where
\* the database failed: the loser of a race for the key finds the winner's row with
\* its one retry (upsertProvenTxReq: "safe findOrInsert ... using retry").
NeverRefused ==
  store = "rocks" \/ \A c \in Clients : at[c].stage = "refused" => at[c].hurt \/ ~Unique(Table(c))

\* No row of RocksDb is overwritten by a row of another key, however clients share
\* a refill and whenever the process starts again in the middle of a block.
RowsStay ==
  [][store = "rocks" => \A r \in rows : \E x \in rows' : x.table = r.table /\ x.id = r.id /\ x.key = r.key]_tVars

\* A round of a task that settled nothing has read every row it asks for.
AllSeen == offset = Nobody /\ ~settled => Asked \subseteq seen
==============================================================================
