----------------------------- MODULE Stores_proofs -----------------------------
(***************************************************************************)
(* What the stores of a wallet rely on, for any number of clients, keys    *)
(* and rows: a call that looks a row up and inserts it finds a place, and  *)
(* a row keeps its id and what it stands for (StorageTables); for any      *)
(* coins, sizes and requests, the change pays the fee it was made for      *)
(* (Funding); for any users and outputs, an accepted internalizeAction did *)
(* what it reports (Incoming); and for any outputs, actions, versions and  *)
(* restarts, when at most one of the actions names noSendChange outputs,   *)
(* an output goes to one action at a time, and without a restart it can be *)
(* found once it is free (RocksDbOutputs).                                 *)
(***************************************************************************)
EXTENDS StorageTables, Funding, Incoming, RocksDbOutputs, SequenceTheorems, FiniteSetTheorems, TLAPS

-----------------------------------------------------------------------------
(* StorageTables: calls that look rows up and insert them.                 *)

Tab(a) == TablesOf(a.op)[a.step]
KeyOf(a) == IF a.step = 1 THEN a.key ELSE a.parent

RowTyped(r) == {"table", "id", "key", "deleted"} \subseteq DOMAIN r /\ r.table \in AllTables
CallTyped(a) ==
  /\ {"op", "key", "step", "id", "parent", "tries", "row", "stage", "hurt"} \subseteq DOMAIN a
  /\ a.op \in Ops /\ a.step \in 1..Len(TablesOf(a.op)) /\ a.tries \in 0..1

TabTyped ==
  /\ store \in {"sql", "idb", "rocks"} /\ trx \in Clients \cup {Nobody}
  /\ DOMAIN at = Clients
  /\ \A c \in Clients : CallTyped(at[c])
  /\ \A r \in rows \cup before : RowTyped(r)

\* An id of table t that was handed out and not given back.
HandedOut(t, n, ctr, blk) == n \in 1..ctr[t] /\ n \notin blk[t].next..blk[t].end

\* RocksDb: a row, and a call about to put one, have an id of the counter that no
\* block in memory still has and no other call holds.
BlocksTyped ==
  /\ counter \in [AllTables -> Nat] /\ block \in [AllTables -> [next : Nat \ {0}, end : Nat]]
  /\ \A t \in AllTables : block[t].end <= counter[t]

RowsHandedOut ==
  /\ \A r \in rows : IF r.table \in MapTables THEN r.id = 0 /\ r.deleted = FALSE ELSE HandedOut(r.table, r.id, counter, block)
  /\ \A r, x \in rows : r.table = x.table /\ r.id = x.id /\ r.table \notin MapTables => r.key = x.key

PutHandedOut ==
  /\ \A c \in Clients : at[c].stage = "put" /\ Tab(at[c]) \notin MapTables =>
       /\ HandedOut(Tab(at[c]), at[c].id, counter, block)
       /\ \A r \in rows : r.table = Tab(at[c]) => r.id # at[c].id
  /\ \A c, d \in Clients : 
       /\ c # d /\ at[c].stage = "put" /\ at[d].stage = "put"
       /\ Tab(at[c]) = Tab(at[d]) /\ Tab(at[c]) \notin MapTables
       => at[c].id # at[d].id

BackStays ==
  \A c \in Clients :
    /\ at[c].stage \in {"revive", "back"} => Tab(at[c]) \notin MapTables
    /\ at[c].stage = "back" => 
         \A y \in at[c].row : 
           /\ RowTyped(y) /\ y.table \notin MapTables
           /\ \E x \in rows : x.table = y.table /\ x.id = y.id /\ x.key = y.key

RocksIds == store = "rocks" => BlocksTyped /\ RowsHandedOut /\ PutHandedOut /\ BackStays

LEMMA TablesFacts ==
  /\ \A op \in Ops : Len(TablesOf(op)) \in {1, 2}
  /\ \A op \in Ops : \A i \in 1..Len(TablesOf(op)) : TablesOf(op)[i] \in AllTables
  /\ Len(TablesOf("user")) = 2 /\ TablesOf("user")[1] = "users"
  /\ "sync_states" \in AllTables
<1>1. \A op \in Ops : Len(TablesOf(op)) \in {1, 2}
  BY DEF Ops, TablesOf
<1>2. \A op \in Ops : \A i \in 1..Len(TablesOf(op)) : TablesOf(op)[i] \in AllTables
  <2> SUFFICES ASSUME NEW op \in Ops, NEW i \in 1..Len(TablesOf(op))
               PROVE  TablesOf(op)[i] \in AllTables
    OBVIOUS
  <2>1. TablesOf(op)[i] \in {TablesOf(op)[j] : j \in 1..Len(TablesOf(op))}
    OBVIOUS
  <2> QED BY <2>1 DEF AllTables
<1>3. Len(TablesOf("user")) = 2 /\ TablesOf("user")[1] = "users"
  BY DEF TablesOf
<1>4. "sync" \in Ops /\ 1 \in 1..Len(TablesOf("sync")) /\ TablesOf("sync")[1] = "sync_states"
  BY DEF TablesOf, Ops
<1> QED BY <1>1, <1>2, <1>3, <1>4

\* A call that goes on, or ends well.
Goes(c, id, isNew, base) ==
  /\ DOMAIN at' = Clients /\ \A d \in Clients \ {c} : at'[d] = at[d]
  /\ CallTyped(at'[c]) /\ at'[c].op = at[c].op /\ at'[c].key = at[c].key /\ at'[c].hurt = at[c].hurt
  /\ at'[c].stage \in {"done", "find", "id", "insert"}
  /\ at'[c].stage = "find" => at'[c].tries = 0 /\ at[c].op # "user"
  /\ at'[c].stage = "insert" => /\ at[c].op = "user" /\ at[c].step = 1 /\ at'[c].step = 2 /\ isNew
                                /\ at'[c].tries = at[c].tries
  /\ rows' = base
  /\ \/ trx' = trx /\ before' = before
     \/ trx = c /\ trx' = Nobody /\ before' = {}

LEMMA Advances ==
  ASSUME TabTyped, NEW c \in Clients, NEW id, NEW isNew, NEW base, Advance(c, id, isNew, base)
  PROVE  Goes(c, id, isNew, base)
<1>1. CASE at[c].step = Len(TablesOf(at[c].op)) \/ (at[c].op = "user" /\ ~isNew)
  <2>1. End(c, "done", base)
    BY <1>1 DEF Advance
  <2> QED BY <2>1 DEF End, TabTyped, Goes, CallTyped
<1>2. CASE ~(at[c].step = Len(TablesOf(at[c].op)) \/ (at[c].op = "user" /\ ~isNew))
  <2>1. /\ at' = [at EXCEPT ![c].step = 2, ![c].parent = id, ![c].id = 0,
                           ![c].tries = IF at[c].op = "user" THEN @ ELSE 0,
                           ![c].stage = IF at[c].op # "user" THEN "find"
                                        ELSE IF store = "rocks" THEN "id" ELSE "insert"]
        /\ rows' = base /\ UNCHANGED <<trx, before>>
    BY <1>2 DEF Advance
  <2>2. CallTyped(at[c]) /\ at[c].step = 1 /\ Len(TablesOf(at[c].op)) = 2
    BY <1>2, TablesFacts DEF TabTyped, CallTyped
  <2>3. /\ DOMAIN at' = Clients /\ \A d \in Clients \ {c} : at'[d] = at[d]
        /\ at'[c].op = at[c].op /\ at'[c].key = at[c].key /\ at'[c].hurt = at[c].hurt
        /\ at'[c].step = 2 /\ at'[c].tries = (IF at[c].op = "user" THEN at[c].tries ELSE 0)
        /\ at'[c].stage = IF at[c].op # "user" THEN "find"
                                        ELSE IF store = "rocks" THEN "id" ELSE "insert"
        /\ {"op", "key", "step", "id", "parent", "tries", "row", "stage", "hurt"} \subseteq DOMAIN at'[c]
    BY <2>1, <2>2 DEF TabTyped, CallTyped
  <2>4. CallTyped(at'[c])
    <3>3. PICK op \in Ops : op = at[c].op /\ Len(TablesOf(op)) = 2
      BY <2>2 DEF CallTyped
    <3>4. at'[c].op = op /\ at'[c].step = 2
      BY <2>3, <3>3
    <3>5. 2 \in 1..Len(TablesOf(op))
      BY <3>3
    <3>1. at'[c].step \in 1..Len(TablesOf(at'[c].op)) /\ at'[c].op \in Ops
      BY <3>4, <3>5, Zenon
    <3>2. at'[c].tries \in 0..1
      BY <2>2, <2>3 DEF CallTyped
    <3> QED BY <2>3, <3>1, <3>2 DEF CallTyped
  <2>5. /\ at'[c].stage \in {"done", "find", "id", "insert"}
        /\ at'[c].stage = "find" => at'[c].tries = 0 /\ at[c].op # "user"
        /\ at'[c].stage = "insert" => at[c].op = "user" /\ isNew /\ at'[c].tries = at[c].tries
    BY <1>2, <2>2, <2>3
  <2> QED BY <2>1, <2>2, <2>3, <2>4, <2>5 DEF Goes
<1> QED BY <1>1, <1>2

\* A call whose lookup failed starts it again, or ends.
Fails(c) ==
  /\ DOMAIN at' = Clients /\ \A d \in Clients \ {c} : at'[d] = at[d]
  /\ CallTyped(at'[c]) /\ at'[c].op = at[c].op /\ at'[c].key = at[c].key /\ at'[c].hurt = at[c].hurt
  /\ \/ /\ at[c].tries = 0 /\ at'[c].stage = "find" /\ at'[c].tries = 1 /\ at'[c].parent = at[c].parent
        /\ at'[c].step = IF at[c].op = "user" THEN 1 ELSE at[c].step
        /\ UNCHANGED <<rows, trx, before>>
     \/ /\ at[c].tries = 1 /\ at'[c].stage = "refused" /\ at'[c].step = at[c].step
        /\ rows' = IF trx = c /\ store # "rocks" THEN before ELSE rows
        /\ trx' = IF trx = c THEN Nobody ELSE trx
        /\ before' = IF trx = c THEN {} ELSE before

LEMMA Throws ==
  ASSUME TabTyped, NEW c \in Clients, Throw(c)
  PROVE  Fails(c)
<1>0. CallTyped(at[c]) /\ DOMAIN at = Clients
  BY DEF TabTyped
<1>1. CASE at[c].tries = 0
  <2>1. /\ at' = [at EXCEPT ![c].tries = 1, ![c].stage = "find",
                           ![c].step = IF at[c].op = "user" THEN 1 ELSE at[c].step]
        /\ UNCHANGED <<rows, trx, before>>
    BY <1>1 DEF Throw
  <2>2. /\ DOMAIN at' = Clients /\ \A d \in Clients \ {c} : at'[d] = at[d]
        /\ at'[c].op = at[c].op /\ at'[c].key = at[c].key /\ at'[c].hurt = at[c].hurt
        /\ at'[c].parent = at[c].parent /\ at'[c].stage = "find" /\ at'[c].tries = 1
        /\ at'[c].step = IF at[c].op = "user" THEN 1 ELSE at[c].step
        /\ {"op", "key", "step", "id", "parent", "tries", "row", "stage", "hurt"} \subseteq DOMAIN at'[c]
    BY <1>0, <2>1 DEF CallTyped
  <2>3. CallTyped(at'[c])
    BY <1>0, <2>2, TablesFacts DEF CallTyped
  <2> QED BY <1>1, <2>1, <2>2, <2>3 DEF Fails
<1>2. CASE at[c].tries # 0
  <2>1. End(c, "refused", rows)
    BY <1>2 DEF Throw
  <2> QED BY <1>0, <1>2, <2>1 DEF End, CallTyped, Fails
<1> QED BY <1>1, <1>2

\* A call that moves on within its lookup.
Moves(c) ==
  /\ DOMAIN at' = Clients /\ \A d \in Clients \ {c} : at'[d] = at[d]
  /\ CallTyped(at'[c]) /\ at'[c].op = at[c].op /\ at'[c].key = at[c].key /\ at'[c].hurt = at[c].hurt
  /\ at'[c].step = at[c].step /\ at'[c].parent = at[c].parent /\ at'[c].tries = at[c].tries

LEMMA MovesStage ==
  ASSUME TabTyped, NEW c \in Clients, NEW stage, at' = [at EXCEPT ![c].stage = stage]
  PROVE  Moves(c) /\ at'[c].stage = stage /\ at'[c].id = at[c].id
  BY DEF TabTyped, CallTyped, Moves

LEMMA MovesStageId ==
  ASSUME TabTyped, NEW c \in Clients, NEW stage, NEW id, at' = [at EXCEPT ![c].stage = stage, ![c].id = id]
  PROVE  Moves(c) /\ at'[c].stage = stage /\ at'[c].id = id
  BY DEF TabTyped, CallTyped, Moves

LEMMA MovesStageRow ==
  ASSUME TabTyped, NEW c \in Clients, NEW stage, NEW read, at' = [at EXCEPT ![c].stage = stage, ![c].row = read]
  PROVE  Moves(c) /\ at'[c].stage = stage /\ at'[c].row = read
  BY DEF TabTyped, CallTyped, Moves

TablesQuiet == rows' = rows /\ trx' = trx /\ before' = before

LEMMA Finds ==
  ASSUME TabTyped, NEW c \in Clients, Find(c)
  PROVE  /\ at[c].stage = "find" /\ (trx \in {Nobody, c} \/ store = "rocks")
         /\ UNCHANGED <<store, counter, block, refill>>
         /\ \/ Fails(c) /\ Cardinality(Same(c)) > 1
            \/ /\ Moves(c) /\ TablesQuiet /\ Same(c) = {}
               /\ at'[c].stage = IF store # "rocks" THEN "insert"
                                 ELSE IF Table(c) \in MapTables THEN "put" ELSE "id"
            \/ \E r \in Same(c) : /\ r.deleted /\ Moves(c) /\ TablesQuiet
                                  /\ at'[c].stage = "revive" /\ at'[c].id = r.id
            \/ \E r \in Same(c) : Goes(c, IdOf(r), FALSE, rows)
<1>1. /\ at[c].stage = "find" /\ (trx \in {Nobody, c} \/ store = "rocks")
      /\ UNCHANGED <<store, counter, block, refill>>
  BY DEF Find, Runs, idVars
<1>2. CASE Cardinality(Same(c)) > 1
  <2>0. Same(c) # {}
    BY <1>2, FS_EmptySet
  <2>1. Throw(c)
    BY <1>2, <2>0 DEF Find
  <2> QED BY <1>1, <1>2, <2>1, Throws
<1>3. CASE ~(Cardinality(Same(c)) > 1) /\ Same(c) = {}
  <2>1. /\ at' = [at EXCEPT ![c].stage = IF store # "rocks" THEN "insert"
                                         ELSE IF Table(c) \in MapTables THEN "put" ELSE "id"]
        /\ UNCHANGED <<rows, trx, before>>
    BY <1>3 DEF Find
  <2>2. /\ Moves(c)
        /\ at'[c].stage = IF store # "rocks" THEN "insert"
                          ELSE IF Table(c) \in MapTables THEN "put" ELSE "id"
    BY <2>1, MovesStage
  <2> QED BY <1>1, <1>3, <2>1, <2>2 DEF TablesQuiet
<1>4. CASE ~(Cardinality(Same(c)) > 1) /\ Same(c) # {}
  <2>1. PICK r \in Same(c) : r = CHOOSE x \in Same(c) : TRUE
    BY <1>4
  <2>2. IF r.deleted
        THEN at' = [at EXCEPT ![c].stage = "revive", ![c].id = r.id] /\ UNCHANGED <<rows, trx, before>>
        ELSE Advance(c, IdOf(r), FALSE, rows)
    BY <1>4, <2>1 DEF Find
  <2>3. CASE r.deleted
    <3>1. /\ at' = [at EXCEPT ![c].stage = "revive", ![c].id = r.id]
          /\ UNCHANGED <<rows, trx, before>>
      BY <2>2, <2>3
    <3>2. Moves(c) /\ at'[c].stage = "revive" /\ at'[c].id = r.id
      BY ONLY <3>1, MovesStageId, TabTyped
    <3> QED BY <1>1, <2>3, <3>1, <3>2 DEF TablesQuiet
  <2>4. CASE ~r.deleted
    BY <1>1, <2>2, <2>4, Advances
  <2> QED BY <2>3, <2>4
<1> QED BY <1>2, <1>3, <1>4

LEMMA InsertsRow ==
  ASSUME TabTyped, NEW c \in Clients, InsertSql(c) \/ InsertIdb(c)
  PROVE  /\ at[c].stage = "insert" /\ trx \in {Nobody, c} /\ store # "rocks"
         /\ UNCHANGED <<store, counter, block, refill>>
         /\ \/ Fails(c) /\ Unique(Table(c)) /\ Same(c) # {}
            \/ /\ ~(Unique(Table(c)) /\ Same(c) # {})
               /\ \E r : r = TableRow(c, NextKey(Table(c))) /\ Goes(c, IdOf(r), TRUE, rows \cup {r})
<1>1. /\ at[c].stage = "insert" /\ trx \in {Nobody, c} /\ store # "rocks"
      /\ UNCHANGED <<store, counter, block, refill>>
  BY DEF InsertSql, InsertIdb, Runs, idVars
<1>2. CASE Unique(Table(c)) /\ Same(c) # {}
  <2>1. Throw(c)
    BY <1>2 DEF InsertSql, InsertIdb
  <2> QED BY <1>1, <1>2, <2>1, Throws
<1>3. CASE ~(Unique(Table(c)) /\ Same(c) # {})
  <2>1. PICK r : r = TableRow(c, NextKey(Table(c)))
    OBVIOUS
  <2>2. Advance(c, IdOf(r), TRUE, rows \cup {r})
    BY <1>3, <2>1 DEF InsertSql, InsertIdb
  <2> QED BY <1>1, <1>3, <2>1, <2>2, Advances
<1> QED BY <1>2, <1>3

LEMMA TableRows ==
  ASSUME TabTyped, NEW c \in Clients, NEW id
  PROVE  /\ Table(c) = Tab(at[c]) /\ Table(c) \in AllTables /\ Searched(c) = KeyOf(at[c])
         /\ RowTyped(TableRow(c, id)) /\ TableRow(c, id).table = Table(c)
         /\ TableRow(c, id).key = Searched(c) /\ TableRow(c, id).deleted = FALSE
         /\ TableRow(c, id).id = IF Table(c) \in MapTables THEN 0 ELSE id
         /\ \A r \in Same(c) : r \in rows /\ RowTyped(r) /\ r.table = Table(c) /\ r.key = Searched(c)
<1>1. Table(c) = Tab(at[c]) /\ Searched(c) = KeyOf(at[c])
  BY DEF Table, Tab, Searched, KeyOf
<1>2. Table(c) \in AllTables
  BY TablesFacts DEF Table, TabTyped, CallTyped
<1>3. RowTyped(TableRow(c, id)) /\ TableRow(c, id).table = Table(c)
         /\ TableRow(c, id).key = Searched(c) /\ TableRow(c, id).deleted = FALSE
         /\ TableRow(c, id).id = IF Table(c) \in MapTables THEN 0 ELSE id
  BY <1>2 DEF RowTyped, TableRow
<1>4. \A r \in Same(c) : r \in rows /\ RowTyped(r) /\ r.table = Table(c) /\ r.key = Searched(c)
  BY DEF Same, TabTyped
<1> QED BY <1>1, <1>2, <1>3, <1>4

LEMMA UndeletedTyped ==
  ASSUME NEW r, RowTyped(r)
  PROVE  /\ RowTyped(Undeleted(r)) /\ Undeleted(r).table = r.table /\ Undeleted(r).id = r.id
         /\ Undeleted(r).key = r.key /\ Undeleted(r).deleted = FALSE
  BY DEF RowTyped, Undeleted

LEMMA TypedKept ==
  ASSUME TabTyped, NEW c \in Clients, store' = store,
         \/ Fails(c)
         \/ Moves(c) /\ TablesQuiet
         \/ \E id, isNew, base : Goes(c, id, isNew, base) /\ \A r \in base : RowTyped(r)
  PROVE  TabTyped'
<1>1. DOMAIN at' = Clients /\ \A d \in Clients : CallTyped(at'[d])
  BY DEF TabTyped, Fails, Moves, Goes
<1>2. trx' \in Clients \cup {Nobody}
  BY DEF TabTyped, Fails, Moves, Goes, TablesQuiet
<1>3. \A r \in rows' \cup before' : RowTyped(r)
  <2>1. CASE Fails(c)
    BY <2>1 DEF TabTyped, Fails
  <2>2. CASE Moves(c) /\ TablesQuiet
    BY <2>2 DEF TabTyped, TablesQuiet
  <2>3. CASE \E id, isNew, base : Goes(c, id, isNew, base) /\ \A r \in base : RowTyped(r)
    BY <2>3 DEF TabTyped, Goes
  <2> QED BY <2>1, <2>2, <2>3
<1> QED BY <1>1, <1>2, <1>3 DEF TabTyped

\* What the restarted or failed call c and the rows it leaves must fulfil.
CallFits(c) ==
  /\ at'[c].stage = "put" => Tab(at'[c]) \in MapTables
  /\ at'[c].stage \in {"revive", "back"} => Tab(at'[c]) \notin MapTables
  /\ at'[c].stage = "back" =>
       \A y \in at'[c].row :
         /\ RowTyped(y) /\ y.table \notin MapTables
         /\ \E x \in rows' : x.table = y.table /\ x.id = y.id /\ x.key = y.key

StayStep == \A r \in rows : \E x \in rows' : x.table = r.table /\ x.id = r.id /\ x.key = r.key

RowsFit(c) ==
  \A r \in rows' : \/ \E x \in rows : x.table = r.table /\ x.id = r.id
                   \/ r.table \in MapTables
                   \/ at[c].stage = "put" /\ Tab(at[c]) = r.table /\ r.id = at[c].id

LEMMA CallKept ==
  ASSUME TabTyped, RocksIds, NEW c \in Clients, store = "rocks", store' = store,
         counter' = counter, block' = block, DOMAIN at' = Clients,
         \A d \in Clients \ {c} : at'[d] = at[d],
         RowsHandedOut', StayStep, RowsFit(c), CallFits(c)
  PROVE  RocksIds'
<1>0. BlocksTyped /\ RowsHandedOut /\ PutHandedOut /\ BackStays
  BY DEF RocksIds
<1>1. BlocksTyped'
  BY <1>0 DEF BlocksTyped
<1>2. PutHandedOut'
  <2>1. ASSUME NEW d \in Clients, at'[d].stage = "put", Tab(at'[d]) \notin MapTables
        PROVE  d # c /\ at'[d] = at[d] /\ HandedOut(Tab(at'[d]), at'[d].id, counter', block')
    BY <1>0, <2>1 DEF CallFits, PutHandedOut
  <2>2. ASSUME NEW d \in Clients, at'[d].stage = "put", Tab(at'[d]) \notin MapTables,
               NEW r \in rows', r.table = Tab(at'[d])
        PROVE  r.id # at'[d].id
    <3>1. d # c /\ at'[d] = at[d] /\ r.table \notin MapTables
      BY <2>1, <2>2
    <3>2. CASE \E x \in rows : x.table = r.table /\ x.id = r.id
      BY <1>0, <2>2, <3>1, <3>2 DEF PutHandedOut
    <3>3. CASE at[c].stage = "put" /\ Tab(at[c]) = r.table /\ r.id = at[c].id
      BY <1>0, <2>2, <3>1, <3>3 DEF PutHandedOut
    <3> QED BY <3>1, <3>2, <3>3 DEF RowsFit
  <2>3. ASSUME NEW d \in Clients, at'[d].stage = "put", Tab(at'[d]) \notin MapTables
        PROVE  HandedOut(Tab(at'[d]), at'[d].id, counter', block') /\ at'[d] = at[d]
    BY <2>1, <2>3
  <2>4. \A d, e \in Clients :
           /\ d # e /\ at'[d].stage = "put" /\ at'[e].stage = "put"
           /\ Tab(at'[d]) = Tab(at'[e]) /\ Tab(at'[d]) \notin MapTables
           => at'[d].id # at'[e].id
    BY <1>0, <2>1 DEF PutHandedOut
  <2>5. \A d \in Clients : at'[d].stage = "put" /\ Tab(at'[d]) \notin MapTables =>
           /\ HandedOut(Tab(at'[d]), at'[d].id, counter', block')
           /\ \A r \in rows' : r.table = Tab(at'[d]) => r.id # at'[d].id
    BY <2>2, <2>3
  <2> QED BY <2>4, <2>5 DEF PutHandedOut
<1>3. BackStays'
  <2> SUFFICES ASSUME NEW d \in Clients
               PROVE  /\ at'[d].stage \in {"revive", "back"} => Tab(at'[d]) \notin MapTables
                      /\ at'[d].stage = "back" =>
                           \A y \in at'[d].row :
                             /\ RowTyped(y) /\ y.table \notin MapTables
                             /\ \E x \in rows' : x.table = y.table /\ x.id = y.id /\ x.key = y.key
    BY DEF BackStays
  <2>1. CASE d = c
    BY <2>1 DEF CallFits
  <2>2. CASE d # c
    <3>1. at'[d] = at[d]
      BY <2>2
    <3>2. at[d].stage \in {"revive", "back"} => Tab(at[d]) \notin MapTables
      BY <1>0 DEF BackStays
    <3>3. ASSUME at[d].stage = "back", NEW y \in at[d].row
          PROVE  /\ RowTyped(y) /\ y.table \notin MapTables
                 /\ \E x \in rows' : x.table = y.table /\ x.id = y.id /\ x.key = y.key
      <4>1. RowTyped(y) /\ y.table \notin MapTables
        BY <1>0, <3>3 DEF BackStays
      <4>2. PICK x \in rows : x.table = y.table /\ x.id = y.id /\ x.key = y.key
        BY <1>0, <3>3 DEF BackStays
      <4> QED BY <4>1, <4>2 DEF StayStep
    <3> QED BY <3>1, <3>2, <3>3
  <2> QED BY <2>1, <2>2
<1> QED BY <1>1, <1>2, <1>3 DEF RocksIds

LEMMA SameTab ==
  ASSUME NEW a, NEW b, a.op = b.op, a.step = b.step
  PROVE  Tab(a) = Tab(b)
  BY Zenon DEF Tab

LEMMA MovesTab ==
  ASSUME NEW c \in Clients, Moves(c)
  PROVE  Tab(at'[c]) = Tab(at[c])
<1>1. at'[c].op = at[c].op /\ at'[c].step = at[c].step
  BY DEF Moves
<1> QED BY <1>1, SameTab

LEMMA RowsUnchanged ==
  ASSUME TabTyped, RocksIds, NEW c \in Clients, store = "rocks", store' = store,
         counter' = counter, block' = block, rows' = rows, DOMAIN at' = Clients,
         \A d \in Clients \ {c} : at'[d] = at[d], CallFits(c)
  PROVE  RocksIds' /\ StayStep
<1>1. RowsHandedOut'
  BY DEF RocksIds, RowsHandedOut, HandedOut
<1>2. StayStep /\ RowsFit(c)
  BY DEF StayStep, RowsFit
<1> QED BY <1>1, <1>2, CallKept

LEMMA RocksFind ==
  ASSUME TabTyped, RocksIds, NEW c \in Clients, store = "rocks", Find(c)
  PROVE  RocksIds' /\ StayStep
<1>1. /\ UNCHANGED <<store, counter, block>>
      /\ \/ Fails(c) /\ Cardinality(Same(c)) > 1
         \/ /\ Moves(c) /\ TablesQuiet /\ Same(c) = {}
            /\ at'[c].stage = IF store # "rocks" THEN "insert"
                              ELSE IF Table(c) \in MapTables THEN "put" ELSE "id"
         \/ \E r \in Same(c) : /\ r.deleted /\ Moves(c) /\ TablesQuiet
                               /\ at'[c].stage = "revive" /\ at'[c].id = r.id
         \/ \E r \in Same(c) : Goes(c, IdOf(r), FALSE, rows)
  BY Finds
<1>2. CASE Fails(c)
  <2>1. rows' = rows /\ CallFits(c) /\ DOMAIN at' = Clients /\ \A d \in Clients \ {c} : at'[d] = at[d]
    BY <1>2 DEF Fails, CallFits
  <2> QED BY <1>1, <2>1, RowsUnchanged
<1>3. CASE /\ Moves(c) /\ TablesQuiet
           /\ at'[c].stage = IF store # "rocks" THEN "insert"
                             ELSE IF Table(c) \in MapTables THEN "put" ELSE "id"
  <2>1. rows' = rows /\ CallFits(c) /\ DOMAIN at' = Clients /\ \A d \in Clients \ {c} : at'[d] = at[d]
    BY <1>3, MovesTab, TableRows DEF Moves, CallFits, TablesQuiet
  <2> QED BY <1>1, <2>1, RowsUnchanged
<1>4. ASSUME NEW r \in Same(c), r.deleted, Moves(c), TablesQuiet, at'[c].stage = "revive"
      PROVE  RocksIds' /\ StayStep
  <2>1. r \in rows /\ r.table = Tab(at[c])
    BY TableRows
  <2>2. r.table \notin MapTables
    BY <1>4, <2>1 DEF RocksIds, RowsHandedOut
  <2>3. rows' = rows /\ CallFits(c) /\ DOMAIN at' = Clients /\ \A d \in Clients \ {c} : at'[d] = at[d]
    BY <1>4, <2>1, <2>2, MovesTab DEF Moves, CallFits, TablesQuiet
  <2> QED BY <1>1, <2>3, RowsUnchanged
<1>5. ASSUME NEW r \in Same(c), Goes(c, IdOf(r), FALSE, rows)
      PROVE  RocksIds' /\ StayStep
  <2>1. rows' = rows /\ CallFits(c) /\ DOMAIN at' = Clients /\ \A d \in Clients \ {c} : at'[d] = at[d]
    BY <1>5 DEF Goes, CallFits
  <2> QED BY <1>1, <2>1, RowsUnchanged
<1> QED BY <1>1, <1>2, <1>3, <1>4, <1>5

LEMMA RocksReadRow ==
  ASSUME TabTyped, RocksIds, NEW c \in Clients, ReadRow(c)
  PROVE  RocksIds' /\ StayStep /\ Moves(c) /\ TablesQuiet
<1> DEFINE read == {Undeleted(r) : r \in {x \in Same(c) : x.id = at[c].id}}
<1>1. /\ store = "rocks" /\ at[c].stage = "revive" /\ at' = [at EXCEPT ![c].stage = "back", ![c].row = read]
      /\ UNCHANGED <<store, counter, block>> /\ TablesQuiet
  BY DEF ReadRow, Runs, idVars, TablesQuiet
<1>2. Moves(c) /\ at'[c].stage = "back" /\ at'[c].row = read
  BY <1>1, MovesStageRow
<1>3. Tab(at[c]) \notin MapTables
  BY <1>1 DEF RocksIds, BackStays
<1>4. ASSUME NEW y \in read
      PROVE  /\ RowTyped(y) /\ y.table \notin MapTables
             /\ \E x \in rows' : x.table = y.table /\ x.id = y.id /\ x.key = y.key
  <2>1. PICK x \in Same(c) : y = Undeleted(x)
    OBVIOUS
  <2>2. x \in rows /\ RowTyped(x) /\ x.table = Tab(at[c])
    BY TableRows
  <2> QED BY <1>1, <1>3, <2>1, <2>2, UndeletedTyped DEF TablesQuiet
<1>5. CallFits(c) /\ DOMAIN at' = Clients /\ \A d \in Clients \ {c} : at'[d] = at[d]
  BY <1>2, <1>3, <1>4, MovesTab DEF CallFits, Moves
<1> QED BY <1>1, <1>2, <1>5, RowsUnchanged DEF TablesQuiet

LEMMA RocksPutBack ==
  ASSUME TabTyped, RocksIds, NEW c \in Clients, PutBack(c)
  PROVE  /\ RocksIds' /\ StayStep
         /\ \E base : Goes(c, at[c].id, FALSE, base) /\ \A r \in base : RowTyped(r)
<1>1. PICK old : old = {x \in rows : \E r \in at[c].row : x.table = r.table /\ x.id = r.id}
  OBVIOUS
<1>2. /\ store = "rocks" /\ at[c].stage = "back" /\ UNCHANGED <<store, counter, block>>
      /\ Advance(c, at[c].id, FALSE, (rows \ old) \cup at[c].row)
  BY <1>1 DEF PutBack, Runs, idVars
<1>3. Goes(c, at[c].id, FALSE, (rows \ old) \cup at[c].row)
  BY <1>2, Advances
<1>4. rows' = (rows \ old) \cup at[c].row
  BY <1>3 DEF Goes
<1>0. BlocksTyped /\ RowsHandedOut /\ PutHandedOut /\ BackStays
  BY <1>2 DEF RocksIds
<1>5. \A y \in at[c].row : /\ RowTyped(y) /\ y.table \notin MapTables
                           /\ \E x \in rows : x.table = y.table /\ x.id = y.id /\ x.key = y.key
  BY <1>0, <1>2 DEF BackStays
<1>6. \A r \in rows' : \E x \in rows : x.table = r.table /\ x.id = r.id /\ x.key = r.key /\ (r.table \in MapTables => r = x)
  BY <1>4, <1>5
<1>7. RowsHandedOut'
  <2>1. ASSUME NEW r \in rows'
        PROVE  IF r.table \in MapTables THEN r.id = 0 /\ r.deleted = FALSE
               ELSE HandedOut(r.table, r.id, counter', block')
    BY <1>0, <1>2, <1>6 DEF RowsHandedOut
  <2>2. ASSUME NEW r \in rows', NEW x \in rows', r.table = x.table, r.id = x.id, r.table \notin MapTables
        PROVE  r.key = x.key
    <3>1. PICK r1 \in rows : r1.table = r.table /\ r1.id = r.id /\ r1.key = r.key
      BY <1>6
    <3>2. PICK x1 \in rows : x1.table = x.table /\ x1.id = x.id /\ x1.key = x.key
      BY <1>6
    <3> QED BY <1>0, <2>2, <3>1, <3>2 DEF RowsHandedOut
  <2> QED BY <2>1, <2>2 DEF RowsHandedOut
<1>8. StayStep
  <2> SUFFICES ASSUME NEW r \in rows
               PROVE  \E x \in rows' : x.table = r.table /\ x.id = r.id /\ x.key = r.key
    BY DEF StayStep
  <2>1. CASE r \notin old
    BY <1>4, <2>1
  <2>2. CASE r \in old
    <3>1. PICK y \in at[c].row : r.table = y.table /\ r.id = y.id
      BY <1>1, <2>2
    <3>2. PICK x \in rows : x.table = y.table /\ x.id = y.id /\ x.key = y.key
      BY <1>5
    <3>3. r.key = x.key
      BY <1>0, <1>5, <3>1, <3>2 DEF RowsHandedOut
    <3> QED BY <1>4, <3>1, <3>2, <3>3
  <2> QED BY <2>1, <2>2
<1>9. RowsFit(c)
  BY <1>6 DEF RowsFit
<1>10. CallFits(c) /\ DOMAIN at' = Clients /\ \A d \in Clients \ {c} : at'[d] = at[d]
  BY <1>3 DEF Goes, CallFits
<1>11. RocksIds'
  BY <1>2, <1>7, <1>8, <1>9, <1>10, CallKept
<1>12. \A r \in (rows \ old) \cup at[c].row : RowTyped(r)
  BY <1>5 DEF TabTyped
<1> QED BY <1>3, <1>8, <1>11, <1>12

LEMMA RocksTakeId ==
  ASSUME TabTyped, RocksIds, NEW c \in Clients, TakeId(c)
  PROVE  RocksIds' /\ StayStep /\ TabTyped'
<1>1. PICK t \in AllTables : t = Table(c) /\ t = Tab(at[c])
  BY TableRows
<1>2. /\ store = "rocks" /\ at[c].stage = "id" /\ UNCHANGED <<store, counter, rows, trx, before>>
      /\ \/ /\ block[t].next <= block[t].end
            /\ at' = [at EXCEPT ![c].stage = "put", ![c].id = block[t].next]
            /\ block' = [block EXCEPT ![t].next = @ + 1]
         \/ at' = at /\ block' = block
  BY <1>1 DEF TakeId, Runs
<1>0. BlocksTyped /\ RowsHandedOut /\ PutHandedOut /\ BackStays
  BY <1>2 DEF RocksIds
<1>3. CASE at' = at /\ block' = block
  <2>1. BlocksTyped' /\ RowsHandedOut' /\ PutHandedOut' /\ BackStays'
    BY <1>0, <1>2, <1>3 DEF BlocksTyped, RowsHandedOut, PutHandedOut, BackStays
  <2> QED BY <1>2, <1>3, <2>1 DEF RocksIds, StayStep, TabTyped
<1>4. CASE /\ block[t].next <= block[t].end
           /\ at' = [at EXCEPT ![c].stage = "put", ![c].id = block[t].next]
           /\ block' = [block EXCEPT ![t].next = @ + 1]
  <2>1. Moves(c) /\ at'[c].stage = "put" /\ at'[c].id = block[t].next
    BY <1>4, MovesStageId
  <2>2. TabTyped'
    BY <1>2, <2>1, TypedKept DEF TablesQuiet
  <2>3. DOMAIN at' = Clients /\ (\A d \in Clients \ {c} : at'[d] = at[d]) /\ Tab(at'[c]) = t
    BY <1>1, <2>1, MovesTab DEF Moves
  <2>4. BlocksTyped'
    BY <1>0, <1>2, <1>4 DEF BlocksTyped
  <2>5. ASSUME NEW u, NEW n, HandedOut(u, n, counter, block), u \in AllTables
        PROVE  HandedOut(u, n, counter', block') /\ (u = t => n # at'[c].id)
    BY <1>0, <1>2, <1>4, <2>1, <2>5 DEF HandedOut, BlocksTyped
  <2>6. HandedOut(t, at'[c].id, counter', block')
    BY <1>0, <1>2, <1>4, <2>1 DEF HandedOut, BlocksTyped
  <2>7. \A r \in rows : r.table \in AllTables
    BY DEF TabTyped, RowTyped
  <2>8. RowsHandedOut'
    BY <1>0, <1>2, <2>5, <2>7 DEF RowsHandedOut
  <2>9. \A r \in rows : r.table = t /\ t \notin MapTables => r.id # at'[c].id
    BY <1>0, <2>5, <2>7 DEF RowsHandedOut
  <2>10. \A d \in Clients : CallTyped(at[d]) /\ Tab(at[d]) \in AllTables
    BY TablesFacts DEF TabTyped, CallTyped, Tab
  <2>11. ASSUME NEW d \in Clients, at'[d].stage = "put", Tab(at'[d]) \notin MapTables
         PROVE  /\ HandedOut(Tab(at'[d]), at'[d].id, counter', block')
                /\ \A r \in rows' : r.table = Tab(at'[d]) => r.id # at'[d].id
    <3>1. CASE d = c
      BY <1>2, <2>3, <2>6, <2>9, <2>11, <3>1
    <3>2. CASE d # c
      <4>1. at'[d] = at[d]
        BY <2>3, <3>2
      <4>2. HandedOut(Tab(at[d]), at[d].id, counter, block) /\ \A r \in rows : r.table = Tab(at[d]) => r.id # at[d].id
        BY <1>0, <2>11, <4>1 DEF PutHandedOut
      <4> QED BY <1>2, <2>5, <2>10, <4>1, <4>2
    <3> QED BY <3>1, <3>2
  <2>12. ASSUME NEW d \in Clients, d # c, at[d].stage = "put", Tab(at[d]) = t, t \notin MapTables
         PROVE  at[d].id # at'[c].id
    <3>1. HandedOut(t, at[d].id, counter, block)
      BY <1>0, <2>12 DEF PutHandedOut
    <3> QED BY <2>5, <3>1
  <2>13. ASSUME NEW d \in Clients, NEW e \in Clients, d # e, at'[d].stage = "put", at'[e].stage = "put",
                Tab(at'[d]) = Tab(at'[e]), Tab(at'[d]) \notin MapTables
         PROVE  at'[d].id # at'[e].id
    <3>1. CASE d = c
      <4>1. at'[e] = at[e] /\ e # c
        BY <2>3, <2>13, <3>1
      <4> QED BY <2>3, <2>12, <2>13, <3>1, <4>1
    <3>2. CASE e = c
      <4>1. at'[d] = at[d] /\ d # c
        BY <2>3, <2>13, <3>2
      <4> QED BY <2>3, <2>12, <2>13, <3>2, <4>1
    <3>3. CASE d # c /\ e # c
      BY <1>0, <2>3, <2>13, <3>3 DEF PutHandedOut
    <3> QED BY <3>1, <3>2, <3>3
  <2>14. PutHandedOut'
    BY <2>11, <2>13 DEF PutHandedOut
  <2>15. BackStays'
    <3>1. ASSUME NEW d \in Clients, at'[d].stage \in {"revive", "back"}
          PROVE  d # c /\ at'[d] = at[d]
      BY <2>1, <2>3, <3>1
    <3> QED BY <1>0, <1>2, <3>1 DEF BackStays
  <2> QED BY <1>2, <2>2, <2>4, <2>8, <2>14, <2>15 DEF RocksIds, StayStep
<1> QED BY <1>2, <1>3, <1>4

LEMMA RocksRefill ==
  ASSUME TabTyped, RocksIds, NEW t \in AllTables, RefillIdBlock(t), store = "rocks"
  PROVE  RocksIds'
<1>0. BlocksTyped /\ RowsHandedOut /\ PutHandedOut /\ BackStays
  BY DEF RocksIds
<1>1. /\ counter' = [counter EXCEPT ![t] = @ + BlockSize]
      /\ block' = [block EXCEPT ![t] = [next |-> (counter[t] + BlockSize) - BlockSize + 1, end |-> counter[t] + BlockSize]]
      /\ UNCHANGED <<store, rows, at>>
  BY DEF RefillIdBlock, BlockTo
<1>2. BlockSize \in Nat \ {0}
  BY TablesAssumption
<1>3. BlocksTyped'
  BY <1>0, <1>1, <1>2 DEF BlocksTyped
<1>4. ASSUME NEW u, NEW n, HandedOut(u, n, counter, block), u \in AllTables
      PROVE  HandedOut(u, n, counter', block')
  <2>1. CASE u = t
    BY <1>0, <1>1, <1>2, <1>4, <2>1 DEF HandedOut, BlocksTyped
  <2>2. CASE u # t
    BY <1>0, <1>1, <1>4, <2>2 DEF HandedOut, BlocksTyped
  <2> QED BY <2>1, <2>2
<1>5. RowsHandedOut'
  <2>1. \A r \in rows : r.table \in AllTables
    BY DEF TabTyped, RowTyped
  <2> QED BY <1>0, <1>1, <1>4, <2>1 DEF RowsHandedOut
<1>6. PutHandedOut'
  <2>1. \A d \in Clients : Tab(at[d]) \in AllTables
    BY TablesFacts DEF TabTyped, CallTyped, Tab
  <2> QED BY <1>0, <1>1, <1>4, <2>1 DEF PutHandedOut
<1>7. BackStays'
  BY <1>0, <1>1 DEF BackStays
<1> QED BY <1>3, <1>5, <1>6, <1>7 DEF RocksIds

LEMMA RocksPut ==
  ASSUME TabTyped, RocksIds, NEW c \in Clients, Put(c)
  PROVE  /\ RocksIds' /\ StayStep
         /\ \E id, base : Goes(c, id, TRUE, base) /\ \A r \in base : RowTyped(r)
<1>1. PICK put : put = TableRow(c, at[c].id)
  OBVIOUS
<1>2. PICK old : old = {x \in rows : x.table = put.table /\ IdOf(x) = IdOf(put)}
  OBVIOUS
<1>3. /\ store = "rocks" /\ at[c].stage = "put" /\ UNCHANGED <<store, counter, block>>
      /\ Advance(c, IdOf(put), TRUE, (rows \ old) \cup {put})
  BY <1>1, <1>2 DEF Put, Runs, idVars
<1>4. Goes(c, IdOf(put), TRUE, (rows \ old) \cup {put})
  BY <1>3, Advances
<1>5. rows' = (rows \ old) \cup {put}
  BY <1>4 DEF Goes
<1>0. BlocksTyped /\ RowsHandedOut /\ PutHandedOut /\ BackStays
  BY <1>3 DEF RocksIds
<1>6. /\ RowTyped(put) /\ put.table = Tab(at[c]) /\ put.table \in AllTables /\ put.deleted = FALSE
      /\ put.id = IF Tab(at[c]) \in MapTables THEN 0 ELSE at[c].id
  BY <1>1, TableRows DEF RowTyped
<1>7. ASSUME put.table \in MapTables PROVE RowsHandedOut' /\ StayStep /\ RowsFit(c)
  <2>1. \A x \in old : x.table = put.table /\ x.id = put.id /\ x.key = put.key
    BY <1>0, <1>2, <1>6, <1>7 DEF RowsHandedOut, IdOf
  <2>2. StayStep
    BY <1>5, <2>1 DEF StayStep
  <2>3. RowsHandedOut'
    BY <1>0, <1>3, <1>5, <1>6, <1>7 DEF RowsHandedOut
  <2>4. RowsFit(c)
    BY <1>5, <1>7 DEF RowsFit
  <2> QED BY <2>2, <2>3, <2>4
<1>8. ASSUME put.table \notin MapTables PROVE RowsHandedOut' /\ StayStep /\ RowsFit(c)
  <2>1. put.id = at[c].id /\ HandedOut(put.table, put.id, counter, block)
        /\ \A r \in rows : r.table = put.table => r.id # put.id
    BY <1>0, <1>3, <1>6, <1>8 DEF PutHandedOut
  <2>2. old = {}
    BY <1>2, <1>8, <2>1 DEF IdOf
  <2>3. StayStep
    BY <1>5, <2>2 DEF StayStep
  <2>4. RowsHandedOut'
    BY <1>0, <1>3, <1>5, <1>8, <2>1 DEF RowsHandedOut
  <2>5. RowsFit(c)
    BY <1>3, <1>5, <1>6, <2>1 DEF RowsFit
  <2> QED BY <2>3, <2>4, <2>5
<1>9. CallFits(c) /\ DOMAIN at' = Clients /\ \A d \in Clients \ {c} : at'[d] = at[d]
  BY <1>4 DEF Goes, CallFits
<1>10. RocksIds' /\ StayStep
  BY <1>3, <1>7, <1>8, <1>9, CallKept
<1>11. \A r \in (rows \ old) \cup {put} : RowTyped(r)
  BY <1>6 DEF TabTyped
<1> QED BY <1>4, <1>10, <1>11

\* The database fails a call: it is made once more, or ends.
Hurts(c) ==
  /\ DOMAIN at' = Clients /\ \A d \in Clients \ {c} : at'[d] = at[d]
  /\ CallTyped(at'[c]) /\ at'[c].hurt = TRUE /\ at'[c].stage \in {"find", "refused"}
  /\ at'[c].stage = "find" /\ at'[c].op = "user" => at'[c].step = 1
  /\ \/ UNCHANGED <<rows, trx, before>>
     \/ /\ rows' = IF trx = c /\ store # "rocks" THEN before ELSE rows
        /\ trx' = IF trx = c THEN Nobody ELSE trx
        /\ before' = IF trx = c THEN {} ELSE before

LEMMA FailCalls ==
  ASSUME TabTyped, NEW c \in Clients, FailCall(c)
  PROVE  /\ Hurts(c) /\ UNCHANGED <<store, counter, block>> /\ TabTyped'
         /\ trx \in {Nobody, c} \/ store = "rocks"
<1>1. (trx \in {Nobody, c} \/ store = "rocks") /\ UNCHANGED <<store, counter, block>>
  BY DEF FailCall, Runs, idVars
<1>2. CallTyped(at[c])
  BY DEF TabTyped
<1>3. CASE at[c].tries = 0
  <2>1. /\ at' = [at EXCEPT ![c] = [[at[c] EXCEPT !.hurt = TRUE] EXCEPT !.tries = 1, !.stage = "find",
                                             !.step = IF at[c].op = "user" THEN 1 ELSE at[c].step]]
        /\ UNCHANGED <<rows, trx, before>>
    BY <1>2, <1>3 DEF FailCall, CallTyped
  <2>2. /\ DOMAIN at' = Clients /\ \A d \in Clients \ {c} : at'[d] = at[d]
        /\ at'[c].op = at[c].op /\ at'[c].hurt = TRUE /\ at'[c].stage = "find" /\ at'[c].tries = 1
        /\ at'[c].step = IF at[c].op = "user" THEN 1 ELSE at[c].step
        /\ {"op", "key", "step", "id", "parent", "tries", "row", "stage", "hurt"} \subseteq DOMAIN at'[c]
    BY <1>2, <2>1 DEF CallTyped, TabTyped
  <2>3. CallTyped(at'[c])
    BY <1>2, <2>2, TablesFacts DEF CallTyped
  <2> QED BY <1>1, <2>1, <2>2, <2>3 DEF Hurts, TabTyped
<1>4. CASE at[c].tries # 0
  <2>1. /\ at' = [at EXCEPT ![c] = [[at[c] EXCEPT !.hurt = TRUE] EXCEPT !.stage = "refused"]]
        /\ rows' = IF trx = c /\ store # "rocks" THEN before ELSE rows
        /\ trx' = (IF trx = c THEN Nobody ELSE trx) /\ before' = IF trx = c THEN {} ELSE before
    BY <1>2, <1>4 DEF FailCall, CallTyped
  <2>2. /\ DOMAIN at' = Clients /\ \A d \in Clients \ {c} : at'[d] = at[d]
        /\ CallTyped(at'[c]) /\ at'[c].hurt = TRUE /\ at'[c].stage = "refused"
    BY <1>2, <2>1 DEF CallTyped, TabTyped
  <2> QED BY <1>1, <2>1, <2>2 DEF Hurts, TabTyped
<1> QED BY <1>3, <1>4

\* The process starts again.
LEMMA Restarts ==
  ASSUME TabTyped, Restart
  PROVE  /\ TabTyped' /\ store' = store /\ counter' = counter
         /\ block' = [t \in AllTables |-> [next |-> 1, end |-> 0]]
         /\ rows' = (IF trx # Nobody /\ store # "rocks" THEN before ELSE rows) /\ trx' = Nobody
         /\ \A c \in Clients : /\ at'[c].stage \in {"gone", "begin", "find"}
                               /\ at'[c].stage \in {"find", "begin"} => at'[c].tries = 0 /\ at'[c].step = 1
<1>1. /\ store' = store /\ counter' = counter
      /\ block' = [t \in AllTables |-> [next |-> 1, end |-> 0]]
      /\ rows' = (IF trx # Nobody /\ store # "rocks" THEN before ELSE rows) /\ trx' = Nobody /\ before' = {}
      /\ at' = [c \in Clients |-> IF at[c].stage \in {"done", "refused"} \/ at[c].step = 2 THEN [at[c] EXCEPT !.stage = "gone"]
                              ELSE [at[c] EXCEPT !.tries = 0, !.stage = IF @ = "begin" \/ trx = c THEN "begin" ELSE "find"]]
  BY DEF Restart
<1>2. DOMAIN at' = Clients
  BY <1>1
<1>3. ASSUME NEW c \in Clients
      PROVE  /\ CallTyped(at'[c]) /\ at'[c].stage \in {"gone", "begin", "find"}
             /\ at'[c].stage \in {"find", "begin"} => at'[c].tries = 0 /\ at'[c].step = 1
  <2>1. CallTyped(at[c])
    BY DEF TabTyped
  <2>2. CASE at[c].stage \in {"done", "refused"} \/ at[c].step = 2
    <3>1. at'[c] = [at[c] EXCEPT !.stage = "gone"]
      BY <1>1, <2>2
    <3> QED BY <2>1, <3>1 DEF CallTyped
  <2>3. CASE ~(at[c].stage \in {"done", "refused"} \/ at[c].step = 2)
    <3>1. at'[c] = [at[c] EXCEPT !.tries = 0, !.stage = IF @ = "begin" \/ trx = c THEN "begin" ELSE "find"]
      BY <1>1, <2>3
    <3>2. at[c].step = 1
      BY <2>1, <2>3, TablesFacts DEF CallTyped
    <3> QED BY <2>1, <3>1, <3>2 DEF CallTyped
  <2> QED BY <2>2, <2>3
<1> QED BY <1>1, <1>2, <1>3 DEF TabTyped

-----------------------------------------------------------------------------
(* SQL and IndexedDB: a unique key has one row.                            *)

KeyIn(R, t, k) == \E r \in R : r.table = t /\ r.key = k
OneRow(R) == \A r, x \in R : r.table = x.table /\ r.table # "sync_states" /\ r.key = x.key => r = x
Covers(R, S) == \A r \in R : \E x \in S : x.table = r.table /\ x.key = r.key

\* A call that looks again for a row with a unique key finds one in R, so the lookup
\* it is not refused by does not lead to a second insert.
Knows(a, R) ==
  /\ a.stage = "find" /\ a.tries = 1 /\ Tab(a) # "sync_states" => a.hurt \/ KeyIn(R, Tab(a), KeyOf(a))
  /\ a.stage = "insert" /\ a.tries = 1 /\ Tab(a) # "sync_states" => a.hurt
  /\ a.stage \in {"insert", "find"} /\ a.op = "user" /\ a.step = 2 => KeyIn(R, "users", a.key)
  /\ a.stage = "begin" => a.tries = 0 /\ a.step = 1
  /\ a.stage = "refused" => a.hurt \/ Tab(a) = "sync_states"

SqlRows ==
  store # "rocks" =>
    /\ OneRow(rows) /\ \A c \in Clients : Knows(at[c], rows)
    /\ trx # Nobody => OneRow(before) /\ \A c \in Clients \ {trx} : Knows(at[c], before)

LEMMA StillKnown ==
  ASSUME NEW a, NEW R, NEW S, Knows(a, R), Covers(R, S)
  PROVE  Knows(a, S)
<1>1. ASSUME NEW t, NEW k, KeyIn(R, t, k)
      PROVE  KeyIn(S, t, k)
  BY <1>1 DEF KeyIn, Covers
<1> QED BY <1>1 DEF Knows

LEMMA UserTables ==
  ASSUME NEW a, CallTyped(a)
  PROVE  /\ Tab(a) = "sync_states" => a.op # "user"
         /\ a.op = "user" /\ a.step = 1 => Tab(a) = "users"
<1>1. CASE a.op = "user"
  <2>1. a.step \in {1, 2} /\ TablesOf("user")[1] = "users" /\ TablesOf("user")[2] = "output_baskets"
    BY <1>1 DEF CallTyped, TablesOf
  <2>2. Tab(a) = TablesOf("user")[a.step]
    BY <1>1 DEF Tab
  <2> QED BY <2>1, <2>2
<1> QED BY <1>1

LEMMA SqlKept ==
  ASSUME TabTyped, SqlRows, store # "rocks", store' = store, NEW c \in Clients, trx \in {Nobody, c},
         \A d \in Clients \ {c} : at'[d] = at[d], Knows(at'[c], rows'),
         \/ /\ OneRow(rows') /\ Covers(rows, rows')
            /\ trx' = Nobody \/ (trx' = trx /\ before' = before) \/ (trx' = c /\ before' = rows)
         \/ trx = c /\ rows' = before /\ trx' = Nobody
  PROVE  SqlRows'
<1>1. /\ OneRow(rows) /\ \A d \in Clients : Knows(at[d], rows)
      /\ trx # Nobody => OneRow(before) /\ \A d \in Clients \ {trx} : Knows(at[d], before)
  BY DEF SqlRows
<1>2. CASE trx = c /\ rows' = before /\ trx' = Nobody
  <2>1. c # Nobody
    BY TablesAssumption
  <2>2. OneRow(rows') /\ \A d \in Clients \ {c} : Knows(at'[d], rows')
    BY <1>1, <1>2, <2>1
  <2> QED BY <1>2, <2>2 DEF SqlRows
<1>3. CASE /\ OneRow(rows') /\ Covers(rows, rows')
           /\ trx' = Nobody \/ (trx' = trx /\ before' = before) \/ (trx' = c /\ before' = rows)
  <2>1. \A d \in Clients : Knows(at'[d], rows')
    BY <1>1, <1>3, StillKnown
  <2>2. ASSUME trx' # Nobody
        PROVE  OneRow(before') /\ \A d \in Clients \ {trx'} : Knows(at'[d], before')
    <3>1. CASE trx' = trx /\ before' = before
      BY <1>1, <2>2, <3>1
    <3>2. CASE trx' = c /\ before' = rows
      BY <1>1, <2>2, <3>2
    <3> QED BY <1>3, <2>2, <3>1, <3>2
  <2> QED BY <1>3, <2>1, <2>2 DEF SqlRows
<1> QED BY <1>2, <1>3

LEMMA CoversSelf ==
  ASSUME NEW R
  PROVE  Covers(R, R)
  BY DEF Covers

LEMMA OneSame ==
  ASSUME TabTyped, NEW c \in Clients, OneRow(rows), Cardinality(Same(c)) > 1
  PROVE  Tab(at[c]) = "sync_states"
<1> SUFFICES ASSUME Tab(at[c]) # "sync_states"
             PROVE  FALSE
  OBVIOUS
<1>0. \A r \in Same(c) : r \in rows /\ r.table = Tab(at[c]) /\ r.key = Searched(c)
  BY TableRows
<1>1. \A r, x \in Same(c) : r = x
  BY <1>0 DEF OneRow
<1>2. CASE Same(c) = {}
  BY <1>2, FS_EmptySet
<1>3. CASE Same(c) # {}
  <2>1. PICK r \in Same(c) : Same(c) = {r}
    BY <1>1, <1>3
  <2> QED BY <2>1, FS_Singleton
<1> QED BY <1>2, <1>3

LEMMA UniqueHere ==
  ASSUME TabTyped, NEW c \in Clients, store # "rocks"
  PROVE  Unique(Table(c)) <=> Tab(at[c]) # "sync_states"
  BY TableRows DEF Unique, SqlUnique, IdbUnique, TabTyped

LEMMA SqlFails ==
  ASSUME TabTyped, SqlRows, store # "rocks", store' = store, NEW c \in Clients, trx \in {Nobody, c}, Fails(c),
         Tab(at[c]) = "sync_states" \/ (at[c].stage = "insert" /\ Same(c) # {})
  PROVE  SqlRows'
<1>1. OneRow(rows) /\ Knows(at[c], rows) /\ CallTyped(at[c])
  BY DEF SqlRows, TabTyped
<1>2. CASE /\ at[c].tries = 0 /\ at'[c].stage = "find" /\ at'[c].tries = 1 /\ at'[c].parent = at[c].parent
           /\ at'[c].step = IF at[c].op = "user" THEN 1 ELSE at[c].step
           /\ UNCHANGED <<rows, trx, before>>
  <2>1. at'[c].op = at[c].op /\ at'[c].key = at[c].key /\ CallTyped(at'[c])
    BY DEF Fails
  <2>2. Tab(at'[c]) = "sync_states" \/ KeyIn(rows, Tab(at'[c]), KeyOf(at'[c]))
    <3>1. CASE at[c].op # "user" \/ at[c].step = 1
      <4>1. at'[c].step = at[c].step
        BY <1>2, <3>1
      <4>2. Tab(at'[c]) = Tab(at[c]) /\ KeyOf(at'[c]) = KeyOf(at[c])
        BY <1>2, <2>1, <4>1, SameTab DEF KeyOf
      <4>3. CASE Same(c) # {}
        <5>1. PICK r \in Same(c) : r \in rows /\ r.table = Tab(at[c]) /\ r.key = KeyOf(at[c])
          BY <4>3, TableRows
        <5> QED BY <4>2, <5>1 DEF KeyIn
      <4> QED BY <4>2, <4>3
    <3>2. CASE at[c].op = "user" /\ at[c].step # 1
      <4>1. at[c].step = 2 /\ Tab(at[c]) # "sync_states"
        BY <1>1, <3>2, TablesFacts, UserTables DEF CallTyped
      <4>2. KeyIn(rows, "users", at[c].key)
        BY <1>1, <3>2, <4>1 DEF Knows
      <4>3. Tab(at'[c]) = "users" /\ KeyOf(at'[c]) = at[c].key
        BY <1>2, <2>1, <3>2, UserTables DEF KeyOf
      <4> QED BY <4>2, <4>3
    <3> QED BY <3>1, <3>2
  <2>3. Knows(at'[c], rows')
    <3>1. at'[c].op = "user" => at'[c].step = 1
      BY <1>2, <2>1
    <3> QED BY <1>2, <2>2, <3>1 DEF Knows
  <2>4. OneRow(rows') /\ Covers(rows, rows') /\ trx' = trx /\ before' = before
    BY <1>1, <1>2, CoversSelf
  <2>5. \A d \in Clients \ {c} : at'[d] = at[d]
    BY DEF Fails
  <2> QED BY <2>3, <2>4, <2>5, SqlKept
<1>3. CASE /\ at[c].tries = 1 /\ at'[c].stage = "refused" /\ at'[c].step = at[c].step
           /\ rows' = IF trx = c /\ store # "rocks" THEN before ELSE rows
           /\ trx' = IF trx = c THEN Nobody ELSE trx
           /\ before' = IF trx = c THEN {} ELSE before
  <2>1. at[c].hurt \/ Tab(at[c]) = "sync_states"
    BY <1>1, <1>3 DEF Knows
  <2>2. at'[c].hurt = at[c].hurt /\ Tab(at'[c]) = Tab(at[c])
    BY <1>3, SameTab DEF Fails
  <2>3. Knows(at'[c], rows')
    BY <1>3, <2>1, <2>2 DEF Knows
  <2>4. \/ /\ OneRow(rows') /\ Covers(rows, rows') /\ trx' = trx /\ before' = before
        \/ trx = c /\ rows' = before /\ trx' = Nobody
    BY <1>1, <1>3, CoversSelf
  <2>5. \A d \in Clients \ {c} : at'[d] = at[d]
    BY DEF Fails
  <2> QED BY <2>3, <2>4, <2>5, SqlKept
<1> QED BY <1>2, <1>3 DEF Fails

LEMMA SqlGoes ==
  ASSUME TabTyped, SqlRows, store # "rocks", store' = store, NEW c \in Clients, trx \in {Nobody, c},
         NEW id, NEW isNew, NEW base, Goes(c, id, isNew, base), OneRow(base), Covers(rows, base),
         isNew => /\ at[c].stage = "insert"
                  /\ KeyIn(base, Tab(at[c]), KeyOf(at[c]))
  PROVE  SqlRows'
<1>1. OneRow(rows) /\ Knows(at[c], rows) /\ CallTyped(at[c])
  BY DEF SqlRows, TabTyped
<1>2. /\ CallTyped(at'[c]) /\ at'[c].op = at[c].op /\ at'[c].key = at[c].key /\ at'[c].hurt = at[c].hurt
      /\ at'[c].stage \in {"done", "find", "id", "insert"}
      /\ at'[c].stage = "find" => at'[c].tries = 0 /\ at[c].op # "user"
      /\ at'[c].stage = "insert" => /\ at[c].op = "user" /\ at[c].step = 1 /\ at'[c].step = 2 /\ isNew
                                    /\ at'[c].tries = at[c].tries
      /\ rows' = base /\ \A d \in Clients \ {c} : at'[d] = at[d]
  BY DEF Goes
<1>3. Knows(at'[c], rows')
  <2>1. CASE at'[c].stage = "insert"
    <3>1. at[c].stage = "insert" /\ Tab(at[c]) = "users" /\ KeyOf(at[c]) = at[c].key /\ isNew
      BY <1>1, <1>2, <2>1, UserTables DEF KeyOf
    <3>2. KeyIn(rows', "users", at'[c].key)
      BY <1>2, <3>1
    <3>3. at'[c].tries = 1 => at'[c].hurt
      BY <1>1, <1>2, <2>1, <3>1 DEF Knows
    <3> QED BY <2>1, <3>2, <3>3 DEF Knows
  <2>2. CASE at'[c].stage # "insert"
    BY <1>2, <2>2 DEF Knows
  <2> QED BY <2>1, <2>2
<1>4. trx' = Nobody \/ (trx' = trx /\ before' = before)
  BY DEF Goes
<1> QED BY <1>2, <1>3, <1>4, SqlKept

LEMMA SqlFind ==
  ASSUME TabTyped, SqlRows, store # "rocks", NEW c \in Clients, Find(c)
  PROVE  SqlRows'
<1>1. /\ at[c].stage = "find" /\ trx \in {Nobody, c} /\ store' = store
      /\ \/ Fails(c) /\ Cardinality(Same(c)) > 1
         \/ /\ Moves(c) /\ TablesQuiet /\ Same(c) = {} /\ at'[c].stage = "insert"
         \/ Moves(c) /\ TablesQuiet /\ at'[c].stage = "revive"
         \/ \E r : Goes(c, IdOf(r), FALSE, rows)
  BY Finds
<1>2. OneRow(rows) /\ Knows(at[c], rows) /\ CallTyped(at[c])
  BY DEF SqlRows, TabTyped
<1>3. CASE Fails(c) /\ Cardinality(Same(c)) > 1
  BY <1>1, <1>2, <1>3, OneSame, SqlFails
<1>4. CASE Moves(c) /\ TablesQuiet /\ Same(c) = {} /\ at'[c].stage = "insert"
  <2>1. ~KeyIn(rows, Tab(at[c]), KeyOf(at[c]))
    BY <1>4, TableRows DEF KeyIn, Same
  <2>2. Tab(at'[c]) = Tab(at[c])
    BY <1>4, MovesTab
  <2>3. at'[c].hurt = at[c].hurt /\ at'[c].tries = at[c].tries /\ at'[c].op = at[c].op
        /\ at'[c].step = at[c].step /\ at'[c].key = at[c].key
    BY <1>4 DEF Moves
  <2>4. Knows(at'[c], rows)
    BY <1>1, <1>2, <1>4, <2>1, <2>2, <2>3 DEF Knows
  <2> QED BY <1>1, <1>2, <1>4, <2>4, SqlKept, CoversSelf DEF Moves, TablesQuiet
<1>5. CASE Moves(c) /\ TablesQuiet /\ at'[c].stage = "revive"
  <2>1. Knows(at'[c], rows)
    BY <1>5 DEF Knows
  <2> QED BY <1>1, <1>2, <1>5, <2>1, SqlKept, CoversSelf DEF Moves, TablesQuiet
<1>6. ASSUME NEW r, Goes(c, IdOf(r), FALSE, rows)
      PROVE  SqlRows'
  BY <1>1, <1>2, <1>6, SqlGoes, CoversSelf
<1> QED BY <1>1, <1>3, <1>4, <1>5, <1>6

LEMMA SqlRevive ==
  ASSUME TabTyped, NEW c \in Clients, Revive(c)
  PROVE  /\ store # "rocks" /\ trx \in {Nobody, c} /\ UNCHANGED <<store, counter, block>>
         /\ SqlRows => SqlRows'
         /\ \E id, base : Goes(c, id, FALSE, base) /\ \A r \in base : RowTyped(r)
<1>1. PICK old : old = {r \in Same(c) : r.id = at[c].id}
  OBVIOUS
<1>2. PICK base : base = (rows \ old) \cup {Undeleted(r) : r \in old}
  OBVIOUS
<1>3. /\ store # "rocks" /\ trx \in {Nobody, c} /\ UNCHANGED <<store, counter, block>>
      /\ Advance(c, at[c].id, FALSE, base)
  BY <1>1, <1>2 DEF Revive, Runs, idVars
<1>4. Goes(c, at[c].id, FALSE, base)
  BY <1>3, Advances
<1>5. \A r \in old : r \in rows /\ RowTyped(r)
  BY <1>1, TableRows
<1>6. \A r \in old : RowTyped(Undeleted(r)) /\ Undeleted(r).table = r.table /\ Undeleted(r).key = r.key
  BY <1>5, UndeletedTyped
<1>7. \A r \in base : RowTyped(r)
  BY <1>2, <1>5, <1>6 DEF TabTyped
<1>8. Covers(rows, base)
  <2> SUFFICES ASSUME NEW r \in rows
               PROVE  \E x \in base : x.table = r.table /\ x.key = r.key
    BY DEF Covers
  <2>1. CASE r \in old
    BY <1>2, <1>6, <2>1
  <2>2. CASE r \notin old
    BY <1>2, <2>2
  <2> QED BY <2>1, <2>2
<1>9. ASSUME OneRow(rows)
      PROVE  OneRow(base)
  <2>1. \A r \in base : \E x \in rows : /\ x.table = r.table /\ x.key = r.key
                                        /\ r = IF x \in old THEN Undeleted(x) ELSE x
    BY <1>2, <1>5, <1>6
  <2> SUFFICES ASSUME NEW r \in base, NEW x \in base, r.table = x.table, r.table # "sync_states", r.key = x.key
               PROVE  r = x
    BY DEF OneRow
  <2>2. PICK r1 \in rows : r1.table = r.table /\ r1.key = r.key /\ r = IF r1 \in old THEN Undeleted(r1) ELSE r1
    BY <2>1
  <2>3. PICK x1 \in rows : x1.table = x.table /\ x1.key = x.key /\ x = IF x1 \in old THEN Undeleted(x1) ELSE x1
    BY <2>1
  <2>4. r1 = x1
    BY <1>9, <2>2, <2>3 DEF OneRow
  <2> QED BY <2>2, <2>3, <2>4
<1>10. SqlRows => SqlRows'
  <2> SUFFICES ASSUME SqlRows PROVE SqlRows'
    OBVIOUS
  <2>1. OneRow(rows)
    BY <1>3 DEF SqlRows
  <2> QED BY <1>3, <1>4, <1>8, <1>9, <2>1, SqlGoes
<1> QED BY <1>3, <1>4, <1>7, <1>10

LEMMA SqlInsert ==
  ASSUME TabTyped, NEW c \in Clients, InsertSql(c) \/ InsertIdb(c)
  PROVE  /\ SqlRows => SqlRows'
         /\ store # "rocks" /\ UNCHANGED <<store, counter, block>>
         /\ Fails(c) \/ \E id, base : Goes(c, id, TRUE, base) /\ \A r \in base : RowTyped(r)
<1>1. /\ at[c].stage = "insert" /\ trx \in {Nobody, c} /\ store # "rocks"
      /\ UNCHANGED <<store, counter, block, refill>>
      /\ \/ Fails(c) /\ Unique(Table(c)) /\ Same(c) # {}
         \/ /\ ~(Unique(Table(c)) /\ Same(c) # {})
            /\ \E r : r = TableRow(c, NextKey(Table(c))) /\ Goes(c, IdOf(r), TRUE, rows \cup {r})
  BY InsertsRow
<1>2. CASE Fails(c) /\ Unique(Table(c)) /\ Same(c) # {}
  <2>1. SqlRows => SqlRows'
    BY <1>1, <1>2, SqlFails
  <2> QED BY <1>1, <1>2, <2>1
<1>3. ASSUME ~(Unique(Table(c)) /\ Same(c) # {}),
             NEW r, r = TableRow(c, NextKey(Table(c))), Goes(c, IdOf(r), TRUE, rows \cup {r})
      PROVE  /\ SqlRows => SqlRows'
             /\ \A x \in rows \cup {r} : RowTyped(x)
  <2>1. RowTyped(r) /\ r.table = Tab(at[c]) /\ r.key = KeyOf(at[c])
    BY <1>3, TableRows
  <2>2. Tab(at[c]) = "sync_states" \/ \A x \in rows : ~(x.table = r.table /\ x.key = r.key)
    BY <1>1, <1>3, <2>1, UniqueHere, TableRows DEF Same
  <2>3. ASSUME OneRow(rows)
        PROVE  OneRow(rows \cup {r})
    BY <2>1, <2>2, <2>3 DEF OneRow
  <2>4. Covers(rows, rows \cup {r}) /\ KeyIn(rows \cup {r}, Tab(at[c]), KeyOf(at[c]))
    BY <2>1 DEF Covers, KeyIn
  <2>5. \A x \in rows \cup {r} : RowTyped(x)
    BY <2>1 DEF TabTyped
  <2>6. SqlRows => SqlRows'
    <3> SUFFICES ASSUME SqlRows PROVE SqlRows'
      OBVIOUS
    <3>1. OneRow(rows)
      BY <1>1 DEF SqlRows
    <3> QED BY <1>1, <1>3, <2>3, <2>4, <3>1, SqlGoes
  <2> QED BY <2>5, <2>6
<1> QED BY <1>1, <1>2, <1>3

LEMMA SqlFailCall ==
  ASSUME TabTyped, SqlRows, store # "rocks", NEW c \in Clients, FailCall(c)
  PROVE  SqlRows'
<1>1. Hurts(c) /\ store' = store /\ trx \in {Nobody, c}
  BY FailCalls
<1>2. OneRow(rows)
  BY DEF SqlRows
<1>3. Knows(at'[c], rows')
  BY <1>1 DEF Knows, Hurts
<1>4. \/ /\ OneRow(rows') /\ Covers(rows, rows') /\ trx' = trx /\ before' = before
      \/ trx = c /\ rows' = before /\ trx' = Nobody
  BY <1>1, <1>2, CoversSelf DEF Hurts
<1> QED BY <1>1, <1>3, <1>4, SqlKept DEF Hurts

LEMMA Begins ==
  ASSUME TabTyped, NEW c \in Clients, BeginTrx(c)
  PROVE  /\ TabTyped' /\ UNCHANGED <<store, counter, block, rows>>
         /\ Moves(c) /\ at'[c].stage = "find"
         /\ store # "rocks" /\ SqlRows => SqlRows'
<1>1. /\ at[c].stage = "begin" /\ trx = Nobody /\ trx' = c /\ before' = rows
      /\ at' = [at EXCEPT ![c].stage = "find"] /\ UNCHANGED <<store, counter, block, rows>>
  BY DEF BeginTrx, idVars
<1>2. Moves(c) /\ at'[c].stage = "find"
  BY <1>1, MovesStage
<1>3. TabTyped'
  BY <1>1, <1>2 DEF TabTyped, Moves
<1>4. ASSUME store # "rocks", SqlRows
      PROVE  SqlRows'
  <2>1. OneRow(rows) /\ Knows(at[c], rows)
    BY <1>4 DEF SqlRows
  <2>2. at[c].tries = 0 /\ at[c].step = 1
    BY <1>1, <2>1 DEF Knows
  <2>3. at'[c].tries = 0 /\ at'[c].step = 1 /\ \A d \in Clients \ {c} : at'[d] = at[d]
    BY <1>2, <2>2 DEF Moves
  <2>4. Knows(at'[c], rows')
    BY <1>2, <2>3 DEF Knows
  <2> QED BY <1>1, <1>4, <2>1, <2>3, <2>4, SqlKept, CoversSelf
<1> QED BY <1>1, <1>2, <1>3, <1>4

LEMMA SqlRestart ==
  ASSUME TabTyped, SqlRows, store # "rocks", Restart
  PROVE  SqlRows'
<1>1. /\ store' = store /\ trx' = Nobody
      /\ rows' = (IF trx # Nobody /\ store # "rocks" THEN before ELSE rows)
      /\ \A c \in Clients : /\ at'[c].stage \in {"gone", "begin", "find"}
                            /\ at'[c].stage \in {"find", "begin"} => at'[c].tries = 0 /\ at'[c].step = 1
  BY Restarts
<1>2. OneRow(rows')
  BY <1>1 DEF SqlRows
<1>3. \A c \in Clients : Knows(at'[c], rows')
  BY <1>1 DEF Knows
<1> QED BY <1>1, <1>2, <1>3 DEF SqlRows

LEMMA RocksFailCall ==
  ASSUME TabTyped, RocksIds, store = "rocks", NEW c \in Clients, FailCall(c)
  PROVE  RocksIds' /\ StayStep
<1>1. Hurts(c) /\ UNCHANGED <<store, counter, block>>
  BY FailCalls
<1>2. rows' = rows /\ CallFits(c)
  BY <1>1 DEF Hurts, CallFits
<1> QED BY <1>1, <1>2, RowsUnchanged DEF Hurts

LEMMA RocksBegin ==
  ASSUME TabTyped, RocksIds, store = "rocks", NEW c \in Clients, BeginTrx(c)
  PROVE  RocksIds' /\ StayStep
<1>1. Moves(c) /\ at'[c].stage = "find" /\ UNCHANGED <<store, counter, block, rows>>
  BY Begins
<1>2. CallFits(c)
  BY <1>1 DEF CallFits
<1> QED BY <1>1, <1>2, RowsUnchanged DEF Moves

LEMMA RocksRestart ==
  ASSUME TabTyped, RocksIds, store = "rocks", Restart
  PROVE  RocksIds' /\ StayStep
<1>1. /\ store' = store /\ counter' = counter /\ rows' = rows
      /\ block' = [t \in AllTables |-> [next |-> 1, end |-> 0]]
      /\ \A c \in Clients : at'[c].stage \in {"gone", "begin", "find"}
  BY Restarts
<1>0. BlocksTyped /\ RowsHandedOut
  BY DEF RocksIds
<1>2. BlocksTyped'
  BY <1>0, <1>1 DEF BlocksTyped
<1>3. \A r \in rows : r.table \in AllTables
  BY DEF TabTyped, RowTyped
<1>4. RowsHandedOut'
  BY <1>0, <1>1, <1>3 DEF RowsHandedOut, HandedOut
<1>5. PutHandedOut' /\ BackStays'
  BY <1>1 DEF PutHandedOut, BackStays
<1> QED BY <1>1, <1>2, <1>4, <1>5 DEF RocksIds, StayStep

TablesInv == TabTyped /\ RocksIds /\ SqlRows

LEMMA TablesStart == TInit => TablesInv
<1> SUFFICES ASSUME TInit PROVE TablesInv
  OBVIOUS
<1>1. /\ store \in Backends /\ trx = Nobody /\ before = {}
      /\ rows \in {{}, {[table |-> "tx_labels", id |-> 1, key |-> Min(Keys), deleted |-> TRUE]}}
      /\ counter = [t \in AllTables |-> IF \E r \in rows : r.table = t THEN BlockSize ELSE 0]
      /\ block = [t \in AllTables |-> [next |-> 1, end |-> 0]]
  BY DEF TInit
<1>2. PICK ops \in [Clients -> Ops], keys \in [Clients -> Keys] :
       at = [c \in Clients |-> [op |-> ops[c], key |-> keys[c], step |-> 1, id |-> 0, parent |-> 0, tries |-> 0, row |-> {},
                                 stage |-> IF ops[c] = "tag" THEN "begin" ELSE "find", hurt |-> FALSE]]
  BY DEF TInit
<1>3. \A r \in rows : RowTyped(r) /\ r.table = "tx_labels" /\ r.id = 1
  <2>1. "label" \in Ops /\ 1 \in 1..Len(TablesOf("label")) /\ TablesOf("label")[1] = "tx_labels"
    BY DEF TablesOf, Ops
  <2>2. "tx_labels" \in AllTables
    BY <2>1, TablesFacts
  <2> QED BY <1>1, <2>2 DEF RowTyped
<1>4. \A c \in Clients : /\ CallTyped(at[c]) /\ at[c].stage \in {"begin", "find"}
                         /\ at[c].tries = 0 /\ at[c].step = 1
  <2> SUFFICES ASSUME NEW c \in Clients
               PROVE  /\ CallTyped(at[c]) /\ at[c].stage \in {"begin", "find"}
                      /\ at[c].tries = 0 /\ at[c].step = 1
    OBVIOUS
  <2>1. 1 \in 1..Len(TablesOf(ops[c])) /\ ops[c] \in Ops
    BY <1>2, TablesFacts
  <2> QED BY <1>2, <2>1 DEF CallTyped
<1>5. TabTyped
  BY <1>1, <1>2, <1>3, <1>4, TablesAssumption DEF TabTyped
<1>6. RocksIds
  <2>1. BlocksTyped
    BY <1>1, TablesAssumption DEF BlocksTyped
  <2>2. RowsHandedOut
    <3>1. \A r, x \in rows : r = x
      BY <1>1
    <3>2. \A r \in rows : r.table \in AllTables /\ counter[r.table] = BlockSize /\ block[r.table].end = 0 
                          /\ block[r.table].next = 1 /\ r.table \notin MapTables
      BY <1>1, <1>3 DEF RowTyped, MapTables
    <3> QED BY <1>3, <3>1, <3>2, TablesAssumption DEF RowsHandedOut, HandedOut
  <2>3. PutHandedOut /\ BackStays
    BY <1>4 DEF PutHandedOut, BackStays
  <2> QED BY <2>1, <2>2, <2>3 DEF RocksIds
<1>7. SqlRows
  <2>1. OneRow(rows)
    BY <1>1 DEF OneRow
  <2>2. \A c \in Clients : Knows(at[c], rows)
    BY <1>4 DEF Knows
  <2> QED BY <1>1, <2>1, <2>2 DEF SqlRows
<1> QED BY <1>5, <1>6, <1>7 DEF TablesInv

RowsStayed == store = "rocks" => \A r \in rows : \E x \in rows' : x.table = r.table /\ x.id = r.id /\ x.key = r.key

LEMMA TablesStep == TablesInv /\ [TNext]_tVars => TablesInv' /\ [RowsStayed]_tVars
<1> SUFFICES ASSUME TablesInv, [TNext]_tVars
             PROVE  TablesInv' /\ (RowsStayed \/ UNCHANGED tVars)
  OBVIOUS
<1> USE DEF TablesInv
<1>1. ASSUME NEW c \in Clients, BeginTrx(c)
      PROVE  TablesInv' /\ RowsStayed
  <2>1. TabTyped' /\ store' = store /\ (store # "rocks" => SqlRows')
    BY <1>1, Begins
  <2>2. CASE store = "rocks"
    BY <1>1, <2>1, <2>2, RocksBegin DEF SqlRows, StayStep, RowsStayed
  <2> QED BY <2>1, <2>2 DEF RocksIds, RowsStayed
<1>2. ASSUME NEW c \in Clients, Find(c)
      PROVE  TablesInv' /\ RowsStayed
  <2>1. store' = store /\ TabTyped'
    <3>1. \A r \in rows : RowTyped(r)
      BY DEF TabTyped
    <3>2. /\ store' = store
          /\ \/ Fails(c)
             \/ Moves(c) /\ TablesQuiet
             \/ \E r : Goes(c, IdOf(r), FALSE, rows)
      <4>1. UNCHANGED <<store, counter, block, refill>>
        BY <1>2, Finds
      <4>2. \/ Fails(c)
            \/ Moves(c) /\ TablesQuiet
            \/ \E r \in Same(c) : Goes(c, IdOf(r), FALSE, rows)
        BY <1>2, Finds
      <4> QED BY <4>1, <4>2
    <3> QED BY <3>1, <3>2, TypedKept
  <2>2. CASE store = "rocks"
    BY <1>2, <2>1, <2>2, RocksFind DEF SqlRows, StayStep, RowsStayed
  <2>3. CASE store # "rocks"
    BY <1>2, <2>1, <2>3, SqlFind DEF RocksIds, RowsStayed
  <2> QED BY <2>2, <2>3
<1>3. ASSUME NEW c \in Clients, Revive(c)
      PROVE  TablesInv' /\ RowsStayed
  <2>1. store # "rocks" /\ store' = store /\ SqlRows'
        /\ \E id, base : Goes(c, id, FALSE, base) /\ \A r \in base : RowTyped(r)
    BY <1>3, SqlRevive
  <2> QED BY <2>1, TypedKept DEF RocksIds, RowsStayed
<1>4. ASSUME NEW c \in Clients, ReadRow(c)
      PROVE  TablesInv' /\ RowsStayed
  <2>1. RocksIds' /\ StayStep /\ Moves(c) /\ TablesQuiet /\ store = "rocks" /\ store' = store
    BY <1>4, RocksReadRow DEF ReadRow
  <2> QED BY <2>1, TypedKept DEF SqlRows, StayStep, RowsStayed
<1>5. ASSUME NEW c \in Clients, PutBack(c)
      PROVE  TablesInv' /\ RowsStayed
  <2>1. RocksIds' /\ StayStep /\ store = "rocks" /\ store' = store
        /\ \E base : Goes(c, at[c].id, FALSE, base) /\ \A r \in base : RowTyped(r)
    BY <1>5, RocksPutBack DEF PutBack
  <2> QED BY <2>1, TypedKept DEF SqlRows, StayStep, RowsStayed
<1>6. ASSUME NEW c \in Clients, InsertSql(c) \/ InsertIdb(c)
      PROVE  TablesInv' /\ RowsStayed
  <2>1. store # "rocks" /\ store' = store /\ SqlRows'
        /\ (Fails(c) \/ \E id, base : Goes(c, id, TRUE, base) /\ \A r \in base : RowTyped(r))
    BY <1>6, SqlInsert
  <2> QED BY <2>1, TypedKept DEF RocksIds, RowsStayed
<1>7. ASSUME NEW c \in Clients, TakeId(c)
      PROVE  TablesInv' /\ RowsStayed
  <2>1. RocksIds' /\ StayStep /\ TabTyped' /\ store = "rocks" /\ store' = store
    BY <1>7, RocksTakeId DEF TakeId
  <2> QED BY <2>1 DEF SqlRows, StayStep, RowsStayed
<1>8. ASSUME NEW c \in Clients, Put(c)
      PROVE  TablesInv' /\ RowsStayed
  <2>1. RocksIds' /\ StayStep /\ store = "rocks" /\ store' = store
        /\ \E id, base : Goes(c, id, TRUE, base) /\ \A r \in base : RowTyped(r)
    BY <1>8, RocksPut DEF Put
  <2> QED BY <2>1, TypedKept DEF SqlRows, StayStep, RowsStayed
<1>9. ASSUME NEW c \in Clients, FailCall(c)
      PROVE  TablesInv' /\ RowsStayed
  <2>1. TabTyped' /\ store' = store
    BY <1>9, FailCalls
  <2>2. CASE store = "rocks"
    BY <1>9, <2>1, <2>2, RocksFailCall DEF SqlRows, StayStep, RowsStayed
  <2>3. CASE store # "rocks"
    BY <1>9, <2>1, <2>3, SqlFailCall DEF RocksIds, RowsStayed
  <2> QED BY <2>2, <2>3
<1>10. ASSUME NEW t \in AllTables, RefillIdBlock(t)
       PROVE  TablesInv' /\ RowsStayed
  <2>1. UNCHANGED <<store, rows, at, trx, before>>
    BY <1>10 DEF RefillIdBlock
  <2>2. TabTyped' /\ SqlRows' /\ RowsStayed
    BY <2>1 DEF TabTyped, SqlRows, RowsStayed
  <2>3. RocksIds'
    <3>1. CASE store = "rocks"
      BY <1>10, <3>1, RocksRefill
    <3>2. CASE store # "rocks"
      BY <2>1, <3>2 DEF RocksIds
    <3> QED BY <3>1, <3>2
  <2> QED BY <2>2, <2>3
<1>11. ASSUME Restart
       PROVE  TablesInv' /\ RowsStayed
  <2>1. TabTyped' /\ store' = store
    BY <1>11, Restarts
  <2>2. CASE store = "rocks"
    BY <1>11, <2>1, <2>2, RocksRestart DEF SqlRows, StayStep, RowsStayed
  <2>3. CASE store # "rocks"
    BY <1>11, <2>1, <2>3, SqlRestart DEF RocksIds, RowsStayed
  <2> QED BY <2>2, <2>3
<1>12. ASSUME ReadNext \/ UNCHANGED tVars
       PROVE  TablesInv' /\ (RowsStayed \/ UNCHANGED tVars)
  <2>1. UNCHANGED <<store, rows, counter, block, at, trx, before>>
    BY <1>12 DEF ReadNext, ReadPage, NextRound, tVars, idVars
  <2>2. TabTyped' /\ SqlRows' /\ RowsStayed
    BY <2>1 DEF TabTyped, SqlRows, RowsStayed
  <2>3. RocksIds'
    BY <2>1 DEF RocksIds, BlocksTyped, RowsHandedOut, PutHandedOut, BackStays
  <2> QED BY <2>2, <2>3
<1> QED BY <1>1, <1>2, <1>3, <1>4, <1>5, <1>6, <1>7, <1>8, <1>9, <1>10, <1>11, <1>12 DEF TNext, CallsNext

\* The loser of a race for a unique key finds the winner's row with its one retry,
\* whatever the clients look up and insert and whoever's transaction is rolled back
\* on the way: on SQL and IndexedDB a lookup is refused only where the store failed
\* it (upsertProvenTxReq, findOrInsert).
THEOREM RetryFinds == TablesSpec => []NeverRefused
<1>1. TablesInv => NeverRefused
  <2> SUFFICES ASSUME TablesInv, store # "rocks", NEW c \in Clients, at[c].stage = "refused"
               PROVE  at[c].hurt \/ ~Unique(Table(c))
    BY DEF NeverRefused
  <2>1. at[c].hurt \/ Tab(at[c]) = "sync_states"
    BY DEF TablesInv, SqlRows, Knows
  <2> QED BY <2>1, UniqueHere DEF TablesInv
<1> QED BY <1>1, TablesStart, TablesStep, PTL DEF TablesSpec

\* RocksDb hands out an id once, however many clients share a refill and however
\* often the process starts again in the middle of a block, so no put takes the
\* place of a row of another key (nextId, putEntity).
THEOREM IdsAreFresh == TablesSpec => RowsStay
<1>1. RowsStay <=> [][RowsStayed]_tVars
  BY DEF RowsStay, RowsStayed
<1>2. TablesInv /\ [TNext]_tVars => [RowsStayed]_tVars
  BY TablesStep
<1> QED BY <1>1, <1>2, TablesStart, TablesStep, PTL DEF TablesSpec

-----------------------------------------------------------------------------
(* Funding: sums, sizes and fees.                                          *)

Below == {p \in Nat \X Nat : p[1] < p[2]}

\* A nonempty set of naturals has a least element, so Min finds one.
LEMMA LeastExists ==
  ASSUME NEW T, T \subseteq Nat, T # {}
  PROVE  Min(T) \in T /\ \A m \in T : Min(T) <= m
<1>1. IsWellFoundedOn(Below, Nat)
  BY NatLessThanWellFounded DEF OpToRel, Below
<1>2. PICK n \in T : \A m \in T : <<m, n>> \notin Below
  BY ONLY <1>1, WFMin, T \subseteq Nat, T # {}
<1>3. \A m \in T : ~(m < n)
  BY <1>2 DEF Below
<1>4. \A m \in T : n <= m
  BY <1>3
<1> QED BY <1>4 DEF Min

SumsOf(seq, n, g) ==
  DOMAIN g = 0..n /\ g[0] = 0 /\ \A k \in 1..n : g[k] = g[k - 1] + seq[k]

\* A shortest prefix without sums would have a predecessor that has them.
LEMMA SumsExist ==
  ASSUME NEW seq, NEW N \in Nat
  PROVE  \E g : SumsOf(seq, N, g)
<1> DEFINE T == {n \in Nat : ~ \E g : SumsOf(seq, n, g)}
<1>1. CASE T = {}
  BY <1>1
<1>2. CASE T # {}
  <2>1. PICK n \in T : \A m \in T : n <= m
    BY <1>2, LeastExists
  <2>2. n # 0
    <3> DEFINE g == [k \in 0..0 |-> 0]
    <3>1. SumsOf(seq, 0, g)
      BY DEF SumsOf
    <3> QED BY <3>1
  <2>3. n - 1 \in Nat /\ n - 1 \notin T
    BY <2>1, <2>2
  <2>4. PICK g : SumsOf(seq, n - 1, g)
    BY <2>3
  <2> DEFINE h == [k \in 0..n |-> IF k = n THEN g[n - 1] + seq[n] ELSE g[k]]
  <2>5. SumsOf(seq, n, h)
    BY <2>3, <2>4 DEF SumsOf
  <2> QED BY <2>1, <2>5
<1> QED BY <1>1, <1>2

LEMMA SumsAre ==
  ASSUME NEW seq, Len(seq) \in Nat
  PROVE  SumsOf(seq, Len(seq), Sums(seq))
<1> DEFINE N == Len(seq)
           F(S) == [n \in 0..N |-> IF n = 0 THEN 0 ELSE S[n - 1] + seq[n]]
<1>1. PICK g : SumsOf(seq, N, g)
  BY SumsExist
<1>2. PICK h : h = [n \in 0..N |-> g[n]]
  OBVIOUS
<1>3. SumsOf(seq, N, h)
  BY <1>1, <1>2 DEF SumsOf
<1>4. h = F(h)
  <2>1. \A n \in 0..N : h[n] = F(h)[n]
    BY <1>3 DEF SumsOf
  <2> QED BY <1>2, <2>1
<1>5. Sums(seq) = CHOOSE S : S = F(S)
  BY DEF Sums
<1>6. Sums(seq) = F(Sums(seq))
  BY <1>4, <1>5
<1> HIDE DEF F
<1> QED BY <1>6 DEF SumsOf, F

LEMMA TotalInt ==
  ASSUME NEW seq \in Seq(Int)
  PROVE  Total(seq) \in Int
<1> DEFINE T == {n \in 0..Len(seq) : Sums(seq)[n] \notin Int}
<1>1. Len(seq) \in Nat /\ SumsOf(seq, Len(seq), Sums(seq)) /\ \A n \in 1..Len(seq) : seq[n] \in Int
  BY SumsAre
<1>2. CASE T # {}
  <2>1. PICK n \in T : \A m \in T : n <= m
    <3>1. T \subseteq Nat
      BY <1>1
    <3> HIDE DEF T
    <3> QED BY <1>2, <3>1, LeastExists
  <2>2. n # 0
    BY <1>1 DEF SumsOf
  <2>3. n - 1 \notin T /\ n - 1 \in 0..Len(seq) /\ n \in 1..Len(seq)
    BY <1>1, <2>1, <2>2
  <2> QED BY <1>1, <2>1, <2>3 DEF SumsOf
<1>3. Len(seq) \notin T => Total(seq) \in Int
  BY <1>1 DEF Total
<1> QED BY <1>2, <1>3

\* A sum up to n, when what is added is added at k.
LEMMA AddedOnce ==
  ASSUME NEW n \in Int, NEW k \in Int, NEW p \in Int, NEW a0 \in Int, NEW b0, NEW a1, NEW b1,
         NEW s \in Int, NEW t, a1 = a0 + s, b1 = b0 + t, t = (IF n = k THEN s + p ELSE s),
         b0 = (IF n - 1 < k THEN a0 ELSE a0 + p)
  PROVE  a1 \in Int /\ b1 = IF n < k THEN a1 ELSE a1 + p
<1>1. n < k \/ n = k \/ n > k
  OBVIOUS
<1>2. CASE n < k
  BY <1>2
<1>3. CASE n = k
  BY <1>3
<1>4. CASE n > k
  BY <1>4
<1> QED BY <1>1, <1>2, <1>3, <1>4

\* Adding to one member adds to the sum.
LEMMA TotalAdd ==
  ASSUME NEW seq \in Seq(Int), NEW k \in 1..Len(seq), NEW p \in Int, NEW new \in Seq(Int),
         Len(new) = Len(seq), new[k] = seq[k] + p, \A n \in 1..Len(seq) : n # k => new[n] = seq[n]
  PROVE  Total(new) = Total(seq) + p
<1> DEFINE a(n) == Sums(seq)[n]
           b(n) == Sums(new)[n]
           Right(n) == a(n) \in Int /\ b(n) = IF n < k THEN a(n) ELSE a(n) + p
           T == {n \in 0..Len(seq) : ~Right(n)}
<1>1. /\ Len(seq) \in Nat /\ \A n \in 1..Len(seq) : seq[n] \in Int
      /\ SumsOf(seq, Len(seq), Sums(seq)) /\ SumsOf(new, Len(seq), Sums(new))
  BY SumsAre
<1>2. a(0) = 0 /\ b(0) = 0 /\ \A n \in 1..Len(seq) : a(n) = a(n - 1) + seq[n] /\ b(n) = b(n - 1) + new[n]
  BY <1>1 DEF SumsOf
<1> HIDE DEF a, b
<1>3. CASE T # {}
  <2>1. PICK n \in T : \A m \in T : n <= m
    <3>1. T \subseteq Nat
      BY <1>1
    <3> HIDE DEF T
    <3> QED BY <1>3, <3>1, LeastExists
  <2>2. n # 0
    BY <1>2
  <2>3. n - 1 \in 0..Len(seq) /\ n \in 1..Len(seq) /\ Right(n - 1)
    BY <1>1, <2>1, <2>2
  <2>4. a(n - 1) \in Int /\ seq[n] \in Int /\ a(n) = a(n - 1) + seq[n] /\ b(n) = b(n - 1) + new[n]
    BY <1>1, <1>2, <2>3
  <2>5. new[n] = IF n = k THEN seq[n] + p ELSE seq[n]
    BY <2>3
  <2>6. b(n - 1) = IF n - 1 < k THEN a(n - 1) ELSE a(n - 1) + p
    BY <2>3
  <2>7. n \in Int /\ k \in Int
    BY <1>1, <2>3
  <2>8. a(n) \in Int /\ b(n) = IF n < k THEN a(n) ELSE a(n) + p
    BY ONLY <2>4, <2>5, <2>6, <2>7, p \in Int, AddedOnce
  <2> QED BY <2>1, <2>8
<1>4. CASE T = {}
  <2>1. Right(Len(seq))
    BY <1>1, <1>4
  <2>2. b(Len(seq)) = a(Len(seq)) + p
    BY <1>1, <2>1
  <2> QED BY <2>2 DEF Total, a, b
<1> QED BY <1>3, <1>4

LEMMA FeeInt ==
  ASSUME NEW i \in Nat, NEW o \in Nat
  PROVE  FeeFor(i, o) \in Int
<1>1. BaseSize + InSize * i + OutSize * o \in Int
  BY FundingAssumption
<1> QED BY <1>1, FundingAssumption DEF FeeFor, CeilDiv

LEMMA FloorFacts == DustFloor \in Nat \ {0}
<1>1. FeeFor(1, 1) \in Int
  BY FeeInt
<1> QED BY <1>1 DEF DustFloor, Larger

\* Of the numbers up to N in T, Max gives one.
LEMMA MostExists ==
  ASSUME NEW N \in Nat, NEW T, T \subseteq 0..N, T # {}
  PROVE  Max(T) \in T
<1> DEFINE D == {d \in Nat : \E n \in T : d = N - n}
<1>1. D # {}
  <2>1. PICK n \in T : TRUE
    OBVIOUS
  <2>2. n \in 0..N
    OBVIOUS
  <2>3. N - n \in D
    BY <2>2
  <2> QED BY <2>3
<1>2. PICK d \in D : \A m \in D : d <= m
  <2>1. D \subseteq Nat
    OBVIOUS
  <2> HIDE DEF D
  <2> QED BY <1>1, <2>1, LeastExists
<1>3. PICK x \in T : d = N - x
  OBVIOUS
<1>4. ASSUME NEW y \in T PROVE x >= y
  <2>1. x \in 0..N /\ y \in 0..N
    OBVIOUS
  <2>2. N - y \in D
    BY <2>1
  <2>3. N - x <= N - y
    BY <1>2, <1>3, <2>2
  <2> QED BY <2>1, <2>3
<1> QED BY <1>4 DEF Max

\* What removeDustOutputs leaves alone.
LEMMA NoDust ==
  ASSUME NEW list \in Seq(Int), \A n \in 1..Len(list) : list[n] >= DustFloor
  PROVE  WithoutDust(list) = list
<1> DEFINE N == Len(list)
           F(S) == [n \in 0..N |-> IF n = 0 THEN list ELSE SweepStep(S[n - 1], N + 1 - n)]
           h == [n \in 0..N |-> list]
<1>1. N \in Nat /\ DustFloor \in Int
  BY FloorFacts
<1>2. \A n \in 1..N : SweepStep(list, n) = list
  BY <1>1 DEF SweepStep
<1>3. \A n \in 1..N : N + 1 - n \in 1..N /\ n - 1 \in 0..N
  BY <1>1
<1>4. h = F(h)
  BY <1>2, <1>3
<1>5. Sweeps(list) = CHOOSE S : S = F(S)
  BY DEF Sweeps
<1>6. Sweeps(list) = F(Sweeps(list))
  <2> HIDE DEF F, h
  <2> QED BY <1>4, <1>5
<1>7. \A n \in 0..N : Sweeps(list)[n] = IF n = 0 THEN list ELSE SweepStep(Sweeps(list)[n - 1], N + 1 - n)
  BY <1>6
<1> DEFINE T == {n \in 0..N : Sweeps(list)[n] # list}
<1>8. CASE T # {}
  <2>1. PICK n \in T : \A m \in T : n <= m
    <3>1. T \subseteq Nat
      BY <1>1
    <3> HIDE DEF T
    <3> QED BY <1>8, <3>1, LeastExists
  <2>2. n # 0
    BY <1>1, <1>7
  <2>3. n \in 1..N /\ n - 1 \in 0..N /\ n - 1 \notin T
    BY <1>1, <2>1, <2>2
  <2> QED BY <1>2, <1>3, <1>7, <2>1, <2>3
<1>9. CASE T = {}
  BY <1>1, <1>9 DEF WithoutDust
<1> QED BY <1>8, <1>9

\* removeChurnPairs takes outputs off the end.
ChurnsOf(list, n, g) ==
  /\ DOMAIN g = 0..n
  /\ g[0] = [ins |-> inputs, outs |-> list] /\ \A k \in 1..n : g[k] = ChurnStep(g[k - 1])

LEMMA ChurnsExist ==
  ASSUME NEW list, NEW N \in Nat
  PROVE  \E g : ChurnsOf(list, N, g)
<1> DEFINE T == {n \in Nat : ~ \E g : ChurnsOf(list, n, g)}
           start == [ins |-> inputs, outs |-> list]
<1>1. CASE T = {}
  BY <1>1
<1>2. CASE T # {}
  <2>1. PICK n \in T : \A m \in T : n <= m
    <3>1. T \subseteq Nat
      OBVIOUS
    <3> HIDE DEF T
    <3> QED BY <1>2, <3>1, LeastExists
  <2> HIDE DEF start
  <2>2. n # 0
    <3> DEFINE g == [k \in 0..0 |-> start]
    <3>1. ChurnsOf(list, 0, g)
      BY DEF ChurnsOf, start
    <3> QED BY <3>1
  <2>3. n - 1 \in Nat /\ n - 1 \notin T
    BY <2>1, <2>2
  <2>4. PICK g : ChurnsOf(list, n - 1, g)
    BY <2>3
  <2> DEFINE h == [k \in 0..n |-> IF k = n THEN ChurnStep(g[n - 1]) ELSE g[k]]
  <2>5. ChurnsOf(list, n, h)
    BY <2>3, <2>4 DEF ChurnsOf
  <2> QED BY <2>1, <2>5
<1> QED BY <1>1, <1>2

LEMMA ChurnsAre ==
  ASSUME NEW list, Len(list) \in Nat
  PROVE  ChurnsOf(list, Len(list), Churns(list))
<1> DEFINE N == Len(list)
           start == [ins |-> inputs, outs |-> list]
           F(S) == [n \in 0..N |-> IF n = 0 THEN start ELSE ChurnStep(S[n - 1])]
<1>1. PICK g : ChurnsOf(list, N, g)
  BY ChurnsExist
<1>2. Churns(list) = CHOOSE S : S = F(S)
  BY DEF Churns
<1>3. \A S : ChurnsOf(list, N, S) <=> DOMAIN S = 0..N /\ S[0] = start /\ \A k \in 1..N : S[k] = ChurnStep(S[k - 1])
  BY DEF ChurnsOf
<1> HIDE DEF start
<1>4. PICK h : h = [n \in 0..N |-> g[n]]
  OBVIOUS
<1>5. DOMAIN h = 0..N /\ h[0] = start /\ \A k \in 1..N : h[k] = ChurnStep(h[k - 1])
  BY <1>1, <1>3, <1>4
<1>6. h = F(h)
  <2>1. \A n \in 0..N : h[n] = F(h)[n]
    BY <1>5
  <2> QED BY <1>4, <2>1
<1>7. Churns(list) = F(Churns(list))
  <2> HIDE DEF F
  <2> QED BY <1>2, <1>6
<1>8. DOMAIN Churns(list) = 0..N /\ Churns(list)[0] = start
      /\ \A k \in 1..N : Churns(list)[k] = ChurnStep(Churns(list)[k - 1])
  BY <1>7
<1> QED BY <1>3, <1>8

LEMMA ChurnedPrefix ==
  ASSUME NEW list \in Seq(Int)
  PROVE  \E m \in 0..Len(list) : Churned(list) = SubSeq(list, 1, m)
<1> DEFINE N == Len(list)
           C(n) == Churns(list)[n]
           Right(n) == \E m \in 0..N : C(n).outs = SubSeq(list, 1, m)
           T == {n \in 0..N : ~Right(n)}
<1>0. N \in Nat /\ ChurnsOf(list, N, Churns(list))
  BY ChurnsAre
<1>1. N \in Nat /\ C(0).outs = list /\ \A n \in 1..N : C(n) = ChurnStep(C(n - 1))
  <2>1. C(0) = [ins |-> inputs, outs |-> list]
    BY <1>0 DEF ChurnsOf
  <2>2. C(0).outs = list
    BY <2>1
  <2>3. \A n \in 1..N : C(n) = ChurnStep(C(n - 1))
    BY <1>0 DEF ChurnsOf
  <2> QED BY <1>0, <2>2, <2>3
<1> HIDE DEF C
<1>2. ASSUME NEW n \in 1..N, Right(n - 1) PROVE Right(n)
  <2>1. PICK m \in 0..N : C(n - 1).outs = SubSeq(list, 1, m)
    BY <1>2
  <2> DEFINE cut == SubSeq(list, 1, m)
  <2>2. cut \in Seq(Int) /\ Len(cut) = m /\ \A k \in 1..m : cut[k] = list[k]
    BY <1>1, SubSeqProperties
  <2>3. C(n).outs \in {cut, SubSeq(cut, 1, m - 1)} /\ (C(n).outs # cut => m > 1)
    <3>1. CASE ChurnStep(C(n - 1)) = C(n - 1)
      BY <1>1, <2>1, <3>1
    <3>2. CASE ChurnStep(C(n - 1)) # C(n - 1)
      <4> DEFINE small == {k \in DOMAIN C(n - 1).ins : sats[C(n - 1).ins[k]] <= Last(C(n - 1).outs)}
                 next == [ins |-> RemoveAt(C(n - 1).ins, Min(small)),
                          outs |-> SubSeq(C(n - 1).outs, 1, Len(C(n - 1).outs) - 1)]
      <4>1. C(n) = ChurnStep(C(n - 1))
        BY <1>1
      <4>2. ~(Len(C(n - 1).outs) <= 1) /\ ChurnStep(C(n - 1)) = next
        <5>1. ChurnStep(C(n - 1)) = IF Len(C(n - 1).ins) <= 1 \/ Len(C(n - 1).outs) <= 1 \/ small = {}
                                    THEN C(n - 1) ELSE next
          BY DEF ChurnStep
        <5> HIDE DEF small, next
        <5> QED BY <3>2, <5>1
      <4>3. C(n).outs = SubSeq(C(n - 1).outs, 1, Len(C(n - 1).outs) - 1)
        BY <4>1, <4>2
      <4> QED BY <2>1, <2>2, <4>2, <4>3
    <3> QED BY <3>1, <3>2
  <2>4. CASE m > 1
    <3>1. SubSeq(cut, 1, m - 1) = SubSeq(list, 1, m - 1)
      BY <1>1, <2>2, <2>4, SubSeqOfSubSeq
    <3> QED BY <1>1, <2>3, <2>4, <3>1
  <2>5. CASE ~(m > 1)
    BY <2>3, <2>5
  <2> QED BY <2>4, <2>5
<1>3. Right(0)
  <2>1. SubSeq(list, 1, N) = list
    BY SubSeqFull
  <2> QED BY <1>1, <2>1
<1>4. CASE T # {}
  <2>1. PICK n \in T : \A m \in T : n <= m
    <3>1. T \subseteq Nat
      BY <1>1
    <3> HIDE DEF T
    <3> QED BY <1>4, <3>1, LeastExists
  <2>2. n # 0 /\ n \in 0..N /\ ~Right(n)
    BY <1>3
  <2> HIDE DEF Right
  <2>3. n \in 1..N /\ n - 1 \in 0..N /\ n - 1 \notin T
    BY <1>1, <2>1, <2>2
  <2> QED BY <1>2, <2>2, <2>3
<1>5. CASE T = {}
  <2>1. Right(N)
    BY <1>1, <1>5
  <2> QED BY <2>1 DEF Churned, C
<1> QED BY <1>4, <1>5

-----------------------------------------------------------------------------
(* Funding: the invariant.                                                 *)

FundTypes ==
  /\ sats \in [Coins -> Values] /\ req \in Request /\ spendable \subseteq Coins
  /\ noSend \in Seq(Coins) /\ inputs \in Seq(Coins) /\ outputs \in Seq(Int) /\ fixedOut \in Int

NoDustMade == \A n \in 1..Len(outputs) : outputs[n] >= DustFloor

\* While the rest is spread the fee is paid, and there is a place for what is left.
FundInv ==
  /\ FundTypes
  /\ NoDustMade
  /\ fpc # "internal"
  /\ fpc = "spread" => Excess(0, 0) >= 0 /\ (outputs = <<>> => Excess(0, 0) = 0)

Paid == Total([k \in DOMAIN inputs |-> sats[inputs[k]]])
ExcessOf(r, paid, spent, i, list) == r.fixedIn + paid - spent - Total(list) - FeeFor(r.ins + i, r.outs + Len(list))

LEMMA RequestTypes ==
  ASSUME FundTypes
  PROVE  /\ req.fixedIn \in Nat /\ req.fixedOut \in Nat /\ req.ins \in Nat /\ req.outs \in Nat
         /\ req.target \in Int \cup {Unset} /\ req.first \in Nat \ {0} /\ req.initial \in Nat \ {0}
         /\ Len(inputs) \in Nat /\ Len(outputs) \in Nat
         /\ \A n \in 1..Len(outputs) : outputs[n] \in Int
BY DEF FundTypes, Request

LEMMA PaidInt == FundTypes => Paid \in Int
<1> SUFFICES ASSUME FundTypes PROVE Paid \in Int
  OBVIOUS
<1> DEFINE values == [k \in DOMAIN inputs |-> sats[inputs[k]]]
<1>1. \A k \in DOMAIN inputs : sats[inputs[k]] \in Int
  <2>1. \A k \in DOMAIN inputs : inputs[k] \in Coins
    BY DEF FundTypes
  <2>2. \A c \in Coins : sats[c] \in Values
    BY DEF FundTypes
  <2>3. Values \subseteq Nat
    BY FundingAssumption
  <2>4. \A c \in Coins : sats[c] \in Nat
    BY <2>2, <2>3, Zenon
  <2>5. \A k \in DOMAIN inputs : sats[inputs[k]] \in Nat
    BY <2>1, <2>4, Zenon
  <2> QED BY <2>5
<1>2. Len(inputs) \in Nat /\ DOMAIN inputs = 1..Len(inputs)
  BY DEF FundTypes
<1>3. values \in Seq(Int)
  BY <1>1, <1>2, IsASeq
<1>4. Total(values) \in Int
  <2> HIDE DEF values
  <2> QED BY <1>3, TotalInt
<1> QED BY <1>4 DEF Paid

\* What the wallet has left over, taken apart.
LEMMA ExcessIs ==
  ASSUME FundTypes, NEW i \in Nat, NEW o \in Nat
  PROVE  /\ Excess(i, o) \in Int /\ FeeTarget(i, o) \in Int /\ Total(outputs) \in Int
         /\ Excess(i, o) = req.fixedIn + Paid - fixedOut - Total(outputs)
                             - FeeFor(req.ins + Len(inputs) + i, req.outs + Len(outputs) + o)
<1>1. Paid \in Int /\ Total(outputs) \in Int /\ fixedOut \in Int
  BY PaidInt, TotalInt DEF FundTypes
<1>2. req.ins + Len(inputs) + i \in Nat /\ req.outs + Len(outputs) + o \in Nat
  BY RequestTypes
<1>3. FeeTarget(i, o) \in Int
  BY <1>2, FeeInt DEF FeeTarget
<1>4. Surplus = req.fixedIn + Paid - fixedOut - Total(outputs) /\ Excess(i, o) = Surplus - FeeTarget(i, o)
  BY DEF Excess, Surplus, Paid
<1>5. FeeTarget(i, o) = FeeFor(req.ins + Len(inputs) + i, req.outs + Len(outputs) + o)
  BY DEF FeeTarget
<1>6. req.fixedIn \in Int
  BY RequestTypes
<1> QED BY <1>1, <1>3, <1>4, <1>5, <1>6

LEMMA ExcessNow ==
  ASSUME FundTypes
  PROVE  /\ Excess(0, 0) \in Int
         /\ Excess(0, 0) = ExcessOf(req, Paid, fixedOut, Len(inputs), outputs)
<1>1. req.ins + Len(inputs) + 0 = req.ins + Len(inputs) /\ req.outs + Len(outputs) + 0 = req.outs + Len(outputs)
  BY RequestTypes
<1>2. /\ Excess(0, 0) \in Int
      /\ Excess(0, 0) = req.fixedIn + Paid - fixedOut - Total(outputs)
                          - FeeFor(req.ins + Len(inputs) + 0, req.outs + Len(outputs) + 0)
  BY ExcessIs
<1> QED BY <1>1, <1>2 DEF ExcessOf

\* Priming ExcessNow.
LEMMA ExcessThen ==
  ASSUME FundTypes, FundTypes', sats' = sats, req' = req, inputs' = inputs
  PROVE  /\ Excess(0, 0)' \in Int
         /\ Excess(0, 0)' = ExcessOf(req, Paid, fixedOut', Len(inputs), outputs')
<1>1. Paid' = Paid /\ req.ins + Len(inputs) \in Nat /\ Len(outputs') \in Nat /\ req.outs \in Nat /\ req.fixedIn \in Nat
      /\ fixedOut' \in Int /\ Paid \in Int
  BY PaidInt, RequestTypes DEF Paid, FundTypes
<1>2. Total(outputs') \in Int
  <2>1. outputs' \in Seq(Int)
    BY DEF FundTypes
  <2> QED BY <2>1, TotalInt
<1>5. FeeFor(req.ins + Len(inputs), req.outs + Len(outputs')) \in Int
  <2>1. req.outs + Len(outputs') \in Nat
    BY <1>1
  <2> QED BY <1>1, <2>1, FeeInt
<1>3. /\ req.ins + Len(inputs) + 0 = req.ins + Len(inputs)
      /\ req.outs + Len(outputs') + 0 = req.outs + Len(outputs')
  BY <1>1
<1>4. FeeTarget(0, 0)' = FeeFor(req.ins + Len(inputs) + 0, req.outs + Len(outputs') + 0)
  BY DEF FeeTarget
<1> DEFINE rest == Surplus'
<1>12. rest = req.fixedIn + Paid - fixedOut' - Total(outputs')
  BY DEF Surplus, Paid
<1>6. Excess(0, 0)' = Surplus' - FeeTarget(0, 0)'
  BY DEF Excess
<1>7. FeeTarget(0, 0)' = FeeFor(req.ins + Len(inputs), req.outs + Len(outputs'))
  BY <1>3, <1>4
<1> DEFINE fee == FeeFor(req.ins + Len(inputs), req.outs + Len(outputs'))
           left == req.fixedIn + Paid - fixedOut' - Total(outputs') - fee
<1>8. fee \in Int /\ Excess(0, 0)' = rest - fee /\ ExcessOf(req, Paid, fixedOut', Len(inputs), outputs') = left
  BY <1>5, <1>6, <1>7 DEF ExcessOf
<1> HIDE DEF fee
<1> HIDE DEF rest
<1>9. rest - fee = left
  BY <1>1, <1>2, <1>8, <1>12
<1>10. Excess(0, 0)' = left
  BY <1>8, <1>9
<1>11. left \in Int
  BY <1>1, <1>2, <1>8
<1> HIDE DEF left
<1> QED BY <1>8, <1>10, <1>11

\* Only the fields named here matter to FundInv outside the spreading.
LEMMA TypesStay ==
  ASSUME FundTypes, sats' = sats, req' = req, spendable' \subseteq Coins,
         noSend' \in Seq(Coins), inputs' \in Seq(Coins), outputs' \in Seq(Int), fixedOut' \in Int
  PROVE  FundTypes'
BY DEF FundTypes

LEMMA FloorStays == DustFloor' = DustFloor
BY DEF DustFloor, FeeFor, CeilDiv, Larger

LEMMA MoneyTypes ==
  ASSUME FundTypes
  PROVE  /\ Paid \in Int /\ Total(outputs) \in Int /\ req.fixedIn \in Int /\ fixedOut \in Int
         /\ FeeFor(req.ins + Len(inputs), req.outs + Len(outputs)) \in Int
<1>1. Total(outputs) \in Int /\ fixedOut \in Int
  BY TotalInt DEF FundTypes
<1>2. /\ req.fixedIn \in Nat /\ req.ins \in Nat /\ req.outs \in Nat
      /\ Len(inputs) \in Nat /\ Len(outputs) \in Nat
  BY RequestTypes
<1>3. req.ins + Len(inputs) \in Nat /\ req.outs + Len(outputs) \in Nat
  BY <1>2
<1>4. FeeFor(req.ins + Len(inputs), req.outs + Len(outputs)) \in Int
  BY <1>3, FeeInt
<1> QED BY <1>1, <1>2, <1>4, PaidInt

-----------------------------------------------------------------------------
(* Funding: the steps.                                                     *)

\* A member put after the others keeps what holds of each.
LEMMA AppendStays ==
  ASSUME NEW S, NEW s \in Seq(S), NEW x \in S
  PROVE  Append(s, x) \in Seq(S)
BY AppendProperties

\* A shorter list keeps its members.
LEMMA PrefixStays ==
  ASSUME NEW S, NEW s \in Seq(S), NEW m \in 0..Len(s)
  PROVE  /\ SubSeq(s, 1, m) \in Seq(S) /\ Len(SubSeq(s, 1, m)) = m
         /\ \A k \in 1..m : SubSeq(s, 1, m)[k] = s[k]
<1>1. m \in Int /\ \A i \in 1..m : s[i] \in S
  OBVIOUS
<1> QED BY <1>1, SubSeqProperties

LEMMA FrontStays ==
  ASSUME NEW S, NEW s \in Seq(S), s # <<>>
  PROVE  SubSeq(s, 1, Len(s) - 1) \in Seq(S) /\ Last(s) \in S
<1>1. Len(s) \in Nat \ {0} /\ Len(s) - 1 \in 0..Len(s) /\ Len(s) \in 1..Len(s)
  BY EmptySeq
<1> QED BY <1>1, PrefixStays DEF Last

\* The first outputs are at the floor or above.
LEMMA StartStep ==
  ASSUME FundInv, StartFunding
  PROVE  FundInv'
<1> USE DEF FundInv
<1> DEFINE few == IF req.fixedIn - fixedOut - FeeFor(req.ins, req.outs) > 0 THEN 1 ELSE 0
           n == Smaller(MaxChange, Larger(few, TargetNet))
<1>1. TargetNet \in Int
  BY RequestTypes, FundingAssumption DEF TargetNet, HasTarget, Smaller
<1>2. n \in Nat
  <2>1. few \in {0, 1}
    OBVIOUS
  <2> HIDE DEF few
  <2> QED BY <1>1, <2>1, FundingAssumption DEF Smaller, Larger
<1>3. \A k \in 1..n : Wanted(k - 1) \in Int /\ Wanted(k - 1) >= DustFloor
  BY RequestTypes, FloorFacts DEF Wanted, Larger
<1>4. outputs' = [k \in 1..n |-> Wanted(k - 1)]
  BY DEF StartFunding, FirstOutputs
<1> HIDE DEF n
<1>5. outputs' \in Seq(Int) /\ Len(outputs') = n
  BY <1>2, <1>3, <1>4, IsASeq
<1>6. NoDustMade'
  BY <1>3, <1>4, <1>5, FloorStays DEF NoDustMade
<1>7. FundTypes'
  BY <1>5, TypesStay DEF StartFunding, FundTypes
<1> QED BY <1>6, <1>7 DEF StartFunding

LEMMA PreflightStep ==
  ASSUME FundInv, Preflight
  PROVE  FundInv'
<1>1. FundTypes'
  BY TypesStay DEF FundInv, Preflight, FundTypes
<1>2. NoDustMade'
  BY FloorStays DEF FundInv, Preflight, NoDustMade
<1> QED BY <1>1, <1>2 DEF FundInv, Preflight

\* A coin brings at most one output, at the floor or above.
LEMMA TakeStep ==
  ASSUME FundInv, NEW c \in Coins, Take(c)
  PROVE  inputs' \in Seq(Coins) /\ outputs' \in Seq(Int) /\ NoDustMade'
<1> DEFINE e == Excess(1, 0) + sats[c]
           cap == IF outputs = <<>> THEN req.first ELSE req.initial
           new == Smaller(e, Larger(DustFloor, cap))
<1>1. inputs' \in Seq(Coins)
  BY AppendStays DEF FundInv, FundTypes, Take
<1>2. new \in Int
  <2>1. Excess(1, 0) \in Int /\ sats[c] \in Int
    <3>1. sats[c] \in Values
      BY DEF FundInv, FundTypes
    <3>2. Excess(1, 0) \in Int
      BY ExcessIs DEF FundInv
    <3>3. Values \subseteq Nat
      BY FundingAssumption
    <3>4. sats[c] \in Nat
      BY <3>1, <3>3
    <3> QED BY <3>2, <3>4
  <2>2. e \in Int
    BY <2>1
  <2>3. cap \in Int
    BY RequestTypes DEF FundInv
  <2> HIDE DEF e, cap
  <2> QED BY <2>2, <2>3, FloorFacts DEF Smaller, Larger
<1>3. outputs' = outputs \/ (new >= DustFloor /\ outputs' = Append(outputs, new))
  BY DEF Take, WithChange
<1> HIDE DEF new
<1>4. CASE outputs' = outputs
  BY <1>1, <1>4, FloorStays DEF FundInv, FundTypes, NoDustMade
<1>5. CASE new >= DustFloor /\ outputs' = Append(outputs, new)
  <2>1. outputs \in Seq(Int)
    BY DEF FundInv, FundTypes
  <2>2. outputs' \in Seq(Int) /\ Len(outputs') = Len(outputs) + 1 /\ outputs'[Len(outputs) + 1] = new
        /\ \A i \in 1..Len(outputs) : outputs'[i] = outputs[i]
    BY <1>2, <1>5, <2>1, AppendProperties
  <2>3. Len(outputs) \in Nat
    BY <2>1
  <2>4. NoDustMade'
    BY <1>5, <2>2, <2>3, FloorStays DEF FundInv, NoDustMade
  <2> QED BY <1>1, <2>2, <2>4
<1> QED BY <1>3, <1>4, <1>5

LEMMA AllocateStep ==
  ASSUME FundInv, Allocate
  PROVE  FundInv'
<1>1. PICK c \in Coins : Take(c) /\ noSend' \in Seq(Coins) /\ spendable' \subseteq Coins
  <2>1. CASE noSend # <<>>
    <3>1. Last(noSend) \in Coins /\ SubSeq(noSend, 1, Len(noSend) - 1) \in Seq(Coins)
      BY <2>1, FrontStays DEF FundInv, FundTypes
    <3> QED BY <2>1, <3>1 DEF Allocate, FundInv, FundTypes
  <2>2. CASE noSend = <<>>
    <3>1. PICK c \in Choice(TargetSats, ExactSats) : Take(c) /\ spendable' = spendable \ {c} /\ UNCHANGED noSend
      BY <2>2 DEF Allocate
    <3>2. c \in spendable
      BY DEF Choice
    <3> QED BY <3>1, <3>2 DEF FundInv, FundTypes
  <2> QED BY <2>1, <2>2
<1>2. inputs' \in Seq(Coins) /\ outputs' \in Seq(Int) /\ NoDustMade'
  BY <1>1, TakeStep
<1>3. FundTypes'
  BY <1>1, <1>2, TypesStay DEF FundInv, Allocate, FundTypes
<1> QED BY <1>2, <1>3 DEF FundInv, Allocate

\* What is dropped is dropped from the end.
LEMMA DroppedPrefix ==
  ASSUME FundTypes
  PROVE  \E m \in 0..Len(outputs) : Dropped = SubSeq(outputs, 1, m)
<1> DEFINE pays(n) == req.fixedIn + Total([k \in DOMAIN inputs |-> sats[inputs[k]]]) - fixedOut
                       - Total(SubSeq(outputs, 1, n)) - FeeFor(req.ins + Len(inputs), req.outs + n) >= 0
           good == {n \in 0..Len(outputs) : pays(n)}
<1>1. Dropped = IF good = {} THEN <<>> ELSE SubSeq(outputs, 1, Max(good))
  BY DEF Dropped
<1>2. good \subseteq 0..Len(outputs) /\ Len(outputs) \in Nat
  BY RequestTypes
<1> HIDE DEF good
<1>3. CASE good = {}
  <2>1. SubSeq(outputs, 1, 0) = <<>>
    BY SubSeqEmpty
  <2> QED BY <1>1, <1>2, <1>3, <2>1
<1>4. CASE good # {}
  BY <1>1, <1>2, <1>4, MostExists
<1> QED BY <1>3, <1>4

\* Fewer outputs are made, at the floor or above as before.
LEMMA StarvedStep ==
  ASSUME FundInv, Starved
  PROVE  FundInv'
<1>1. outputs \in Seq(Int) /\ Len(outputs) \in Nat /\ FundTypes
  BY DEF FundInv, FundTypes
<1>2. \E m \in 0..Len(outputs) : outputs' = SubSeq(outputs, 1, m)
  <2>1. CASE outputs' = <<>>
    <3>1. SubSeq(outputs, 1, 0) = <<>>
      BY SubSeqEmpty
    <3> QED BY <1>1, <2>1, <3>1
  <2>2. CASE outputs' = Churned(Dropped)
    <3>1. PICK m \in 0..Len(outputs) : Dropped = SubSeq(outputs, 1, m)
      BY <1>1, DroppedPrefix
    <3>2. Dropped \in Seq(Int) /\ Len(Dropped) = m
      BY <1>1, <3>1, PrefixStays
    <3>3. PICK n \in 0..m : Churned(Dropped) = SubSeq(Dropped, 1, n)
      BY <3>2, ChurnedPrefix
    <3>4. n \in 0..Len(outputs) /\ SubSeq(SubSeq(outputs, 1, m), 1, n) = SubSeq(outputs, 1, n)
      <4>1. SubSeq(outputs, 1, n) \in Seq(Int) /\ Len(SubSeq(outputs, 1, n)) = n
            /\ \A k \in 1..n : SubSeq(outputs, 1, n)[k] = outputs[k]
        BY <1>1, PrefixStays
      <4>2. SubSeq(Dropped, 1, n) \in Seq(Int) /\ Len(SubSeq(Dropped, 1, n)) = n
            /\ \A k \in 1..n : SubSeq(Dropped, 1, n)[k] = Dropped[k]
        BY <3>2, PrefixStays
      <4>3. \A k \in 1..n : Dropped[k] = outputs[k]
        BY <1>1, <3>1, PrefixStays
      <4>4. SubSeq(Dropped, 1, n) = SubSeq(outputs, 1, n)
        BY <4>1, <4>2, <4>3, SeqEqual
      <4> QED BY <1>1, <3>1, <4>4
    <3> QED BY <2>2, <3>1, <3>3, <3>4
  <2> QED BY <2>1, <2>2 DEF Starved
<1>3. PICK m \in 0..Len(outputs) : outputs' = SubSeq(outputs, 1, m)
  BY <1>2
<1>4. /\ outputs' \in Seq(Int) /\ Len(outputs') = m
      /\ \A k \in 1..m : outputs'[k] = outputs[k]
  BY <1>1, <1>3, PrefixStays
<1>5. NoDustMade'
  BY <1>1, <1>4, FloorStays DEF FundInv, NoDustMade
<1>6. FundTypes'
  BY <1>4, TypesStay DEF FundInv, FundTypes, Starved
<1> QED BY <1>5, <1>6 DEF FundInv, Starved

LEMMA FundedStep ==
  ASSUME FundInv, Funded
  PROVE  FundInv'
<1>1. FundTypes'
  BY TypesStay DEF FundInv, Funded, FundTypes
<1>2. NoDustMade'
  BY FloorStays DEF FundInv, Funded, NoDustMade
<1> QED BY <1>1, <1>2 DEF FundInv, Funded

LEMMA ReleaseStep ==
  ASSUME FundInv, ReleaseInputs
  PROVE  FundInv'
<1>1. noSend' \in Seq(Coins) /\ inputs' \in Seq(Coins) /\ spendable' \subseteq Coins
  <2>1. CASE inputs = <<>>
    BY <2>1 DEF FundInv, FundTypes, ReleaseInputs
  <2>2. CASE inputs # <<>>
    <3>1. Last(inputs) \in Coins /\ SubSeq(inputs, 1, Len(inputs) - 1) \in Seq(Coins)
      BY <2>2, FrontStays DEF FundInv, FundTypes
    <3>2. inputs' = SubSeq(inputs, 1, Len(inputs) - 1) /\ GiveBack(Last(inputs))
      BY <2>2 DEF ReleaseInputs
    <3>3. Append(noSend, Last(inputs)) \in Seq(Coins)
      BY <3>1, AppendStays DEF FundInv, FundTypes
    <3> QED BY <3>1, <3>2, <3>3 DEF FundInv, FundTypes, GiveBack
  <2> QED BY <2>1, <2>2
<1>2. FundTypes'
  BY <1>1, TypesStay DEF FundInv, ReleaseInputs, FundTypes
<1>3. NoDustMade'
  BY FloorStays DEF FundInv, ReleaseInputs, NoDustMade
<1>4. fpc' # "internal" /\ fpc' # "spread"
  BY DEF ReleaseInputs
<1> QED BY <1>2, <1>3, <1>4 DEF FundInv

LEMMA OthersStep ==
  ASSUME FundInv, Others
  PROVE  FundInv'
<1>1. spendable' \subseteq Coins
  BY DEF FundInv, FundTypes, Others
<1>2. FundTypes'
  BY <1>1, TypesStay DEF FundInv, Others, FundTypes
<1>3. NoDustMade'
  BY FloorStays DEF FundInv, Others, NoDustMade
<1>4. fpc' # "internal" /\ fpc' # "spread"
  BY DEF Others
<1> QED BY <1>2, <1>3, <1>4 DEF FundInv

\* Only the fixed outputs change, and by as much as the excess.
LEMMA CloseStep ==
  ASSUME FundInv, Close
  PROVE  FundInv'
<1> DEFINE adjusted == IF Excess(0, 0) < 0 /\ fixedOut >= Huge THEN Excess(0, 0) ELSE 0
<1>1. /\ FundTypes /\ Excess(0, 0) \in Int /\ fixedOut \in Int
      /\ Excess(0, 0) = ExcessOf(req, Paid, fixedOut, Len(inputs), outputs)
  BY ExcessNow DEF FundInv, FundTypes
<1>2. /\ fixedOut' = fixedOut + adjusted
      /\ fpc' = IF Excess(0, 0) - adjusted < 0 \/ (outputs = <<>> /\ Excess(0, 0) - adjusted > 0)
                THEN "giveUp" ELSE "spread"
  BY DEF Close
<1>3. adjusted \in Int
  BY <1>1
<1> HIDE DEF adjusted
<1>4. FundTypes'
  <2>1. fixedOut' \in Int
    BY <1>1, <1>2, <1>3
  <2> QED BY <2>1, TypesStay DEF FundInv, Close, FundTypes
<1>5. NoDustMade'
  BY FloorStays DEF FundInv, Close, NoDustMade
<1>6. Excess(0, 0)' = Excess(0, 0) - adjusted
  <2>1. /\ Excess(0, 0)' = ExcessOf(req, Paid, fixedOut', Len(inputs), outputs')
    BY <1>1, <1>4, ExcessThen DEF Close
  <2>2. outputs' = outputs
    BY DEF Close
  <2>3. Paid \in Int /\ Total(outputs) \in Int /\ req.fixedIn \in Int
    BY <1>1, MoneyTypes
  <2>4. FeeFor(req.ins + Len(inputs), req.outs + Len(outputs)) \in Int
    BY <1>1, MoneyTypes
  <2> DEFINE fee == FeeFor(req.ins + Len(inputs), req.outs + Len(outputs))
             e == Excess(0, 0)
             f == Excess(0, 0)'
  <2>5. /\ e = req.fixedIn + Paid - fixedOut - Total(outputs) - fee
        /\ f = req.fixedIn + Paid - fixedOut' - Total(outputs) - fee
    BY <1>1, <2>1, <2>2 DEF ExcessOf
  <2>6. fee \in Int
    BY <2>4
  <2> HIDE DEF fee, e, f
  <2>7. f = e - adjusted
    BY <1>1, <1>2, <1>3, <2>3, <2>5, <2>6
  <2> QED BY <2>7 DEF e, f
<1>7. fpc' # "internal"
  BY <1>2
<1>8. ASSUME fpc' = "spread" PROVE Excess(0, 0)' >= 0 /\ (outputs' = <<>> => Excess(0, 0)' = 0)
  <2>1. ~(Excess(0, 0) - adjusted < 0) /\ ~(outputs = <<>> /\ Excess(0, 0) - adjusted > 0)
    BY <1>2, <1>8
  <2>2. outputs' = outputs
    BY DEF Close
  <2> QED BY <1>1, <1>3, <1>6, <2>1, <2>2
<1> QED BY <1>4, <1>5, <1>7, <1>8 DEF FundInv

\* What one output gains the wallet no longer has left over.
LEMMA SpreadOne ==
  ASSUME FundInv, Spread, NEW k \in 1..Len(outputs), NEW p \in Int, p >= 0, p <= Excess(0, 0),
         outputs' = [outputs EXCEPT ![k] = @ + p]
  PROVE  FundInv'
<1>1. /\ FundTypes /\ Excess(0, 0) \in Int /\ outputs \in Seq(Int) /\ Len(outputs) \in Nat
      /\ Excess(0, 0) = ExcessOf(req, Paid, fixedOut, Len(inputs), outputs)
      /\ \A n \in 1..Len(outputs) : outputs[n] \in Int
  BY ExcessNow, RequestTypes DEF FundInv, FundTypes
<1>2. /\ outputs' \in Seq(Int) /\ Len(outputs') = Len(outputs)
      /\ \A n \in 1..Len(outputs) : outputs'[n] = IF n = k THEN outputs[k] + p ELSE outputs[n]
  <2>1. outputs[k] + p \in Int
    BY <1>1
  <2>2. outputs' \in Seq(Int) /\ Len(outputs') = Len(outputs)
    BY <1>1, <2>1, ExceptSeq
  <2> QED BY <1>1, <2>2
<1>3. Total(outputs') = Total(outputs) + p
  <2>1. /\ outputs'[k] = outputs[k] + p
        /\ \A n \in 1..Len(outputs) : n # k => outputs'[n] = outputs[n]
    BY <1>2
  <2> QED BY <1>1, <1>2, <2>1, TotalAdd
<1>4. FundTypes'
  BY <1>2, TypesStay DEF FundInv, Spread, FundTypes
<1>5. NoDustMade'
  BY <1>1, <1>2, FloorStays, FloorFacts DEF FundInv, NoDustMade
<1>6. Excess(0, 0)' = Excess(0, 0) - p
  <2>1. /\ Excess(0, 0)' = ExcessOf(req, Paid, fixedOut', Len(inputs), outputs')
    BY <1>1, <1>4, ExcessThen DEF Spread
  <2>2. fixedOut' = fixedOut
    BY DEF Spread
  <2>3. Paid \in Int /\ Total(outputs) \in Int /\ req.fixedIn \in Int /\ fixedOut \in Int
    BY <1>1, MoneyTypes
  <2>4. FeeFor(req.ins + Len(inputs), req.outs + Len(outputs)) \in Int
    BY <1>1, MoneyTypes
  <2> DEFINE fee == FeeFor(req.ins + Len(inputs), req.outs + Len(outputs))
             e == Excess(0, 0)
             f == Excess(0, 0)'
  <2>5. /\ e = req.fixedIn + Paid - fixedOut - Total(outputs) - fee
        /\ f = req.fixedIn + Paid - fixedOut - Total(outputs') - fee
    BY <1>1, <1>2, <2>1, <2>2 DEF ExcessOf
  <2>6. fee \in Int
    BY <2>4
  <2> HIDE DEF fee, e, f
  <2>7. f = e - p
    BY <1>3, <2>3, <2>5, <2>6
  <2> QED BY <2>7 DEF e, f
<1>7. Excess(0, 0)' >= 0
  BY <1>1, <1>6
<1>8. fpc' # "internal" /\ outputs' # <<>>
  <2>1. Len(outputs') # 0
    BY <1>1, <1>2
  <2> QED BY <2>1 DEF FundInv, Spread
<1> QED BY <1>4, <1>5, <1>7, <1>8 DEF FundInv

LEMMA SpreadStep ==
  ASSUME FundInv, Spread
  PROVE  FundInv'
<1>1. /\ Excess(0, 0) \in Int /\ Excess(0, 0) > 0 /\ outputs \in Seq(Int) /\ Len(outputs) \in Nat
      /\ fpc = "spread"
  BY ExcessNow, RequestTypes DEF FundInv, FundTypes, Spread
<1>2. outputs # <<>>
  BY <1>1 DEF FundInv
<1>3. 1 \in 1..Len(outputs) /\ outputs[1] \in Int
  BY <1>1, <1>2, EmptySeq
<1>4. CASE Len(outputs) = 1
  <2>1. PICK p \in Int : p = Excess(0, 0)
    BY <1>1
  <2>2. outputs' = <<outputs[1] + p>>
    BY <1>4, <2>1 DEF Spread
  <2>3. outputs[1] + p \in Int
    BY <1>3
  <2>4. /\ [outputs EXCEPT ![1] = @ + p] \in Seq(Int)
        /\ Len([outputs EXCEPT ![1] = @ + p]) = 1
        /\ [outputs EXCEPT ![1] = @ + p][1] = outputs[1] + p
    BY <1>1, <1>3, <1>4, <2>3, ExceptSeq
  <2>5. outputs' \in Seq(Int) /\ Len(outputs') = 1 /\ outputs'[1] = outputs[1] + p
    BY <2>2, <2>3
  <2>6. outputs' = [outputs EXCEPT ![1] = @ + p]
    BY <2>4, <2>5, SeqEqual
  <2>7. p >= 0 /\ p <= Excess(0, 0)
    BY <1>1, <2>1
  <2> QED BY <1>3, <2>6, <2>7, SpreadOne
<1>5. CASE Len(outputs) # 1 /\ outputs[1] < req.initial
  <2>1. outputs' = [outputs EXCEPT ![1] = @ + Smaller(Excess(0, 0), req.initial - @)]
    BY <1>5 DEF Spread
  <2> DEFINE p == Smaller(Excess(0, 0), req.initial - outputs[1])
  <2>2. outputs' = [outputs EXCEPT ![1] = @ + p]
    BY <2>1
  <2>3. p \in Int /\ p >= 0 /\ p <= Excess(0, 0)
    <3>1. req.initial \in Int
      BY RequestTypes DEF FundInv
    <3> QED BY <1>1, <1>3, <1>5, <3>1 DEF Smaller
  <2> HIDE DEF p
  <2> QED BY <1>3, <2>2, <2>3, SpreadOne
<1>6. CASE Len(outputs) # 1 /\ ~(outputs[1] < req.initial)
  <2>1. PICK p \in Portion(Excess(0, 0)), k \in DOMAIN outputs : outputs' = [outputs EXCEPT ![k] = @ + p]
    BY <1>6 DEF Spread
  <2>2. p \in Int /\ p >= 0 /\ p <= Excess(0, 0)
    BY <1>1 DEF Portion, Larger
  <2>3. k \in 1..Len(outputs)
    BY <1>1
  <2> QED BY <2>1, <2>2, <2>3, SpreadOne
<1> QED BY <1>4, <1>5, <1>6

\* There is no dust to remove, so the fee stays as it was fixed.
LEMMA ValidateStep ==
  ASSUME FundInv, Validate
  PROVE  FundInv'
<1>1. /\ Excess(0, 0) \in Int /\ Excess(0, 0) <= 0 /\ FundTypes /\ fpc = "spread"
  BY ExcessNow DEF FundInv, Validate
<1>2. WithoutDust(outputs) = outputs
  BY NoDust DEF FundInv, FundTypes, NoDustMade
<1>3. outputs' = outputs
  BY <1>2 DEF Validate
<1>4. Excess(0, 0) = 0
  BY <1>1 DEF FundInv
<1> DEFINE fee == req.fixedIn + Paid - fixedOut - Total(outputs)
           due == FeeFor(req.ins + Len(inputs), req.outs + Len(outputs))
<1>5. fpc' = IF fee = due THEN "done" ELSE "internal"
  BY <1>2 DEF Validate, Paid
<1>6. fee = due
  <2>1. Paid \in Int /\ Total(outputs) \in Int /\ req.fixedIn \in Int /\ fixedOut \in Int
    BY <1>1, MoneyTypes
  <2>2. due \in Int
    BY <1>1, MoneyTypes
  <2>3. 0 = req.fixedIn + Paid - fixedOut - Total(outputs) - due
    BY <1>1, <1>4, ExcessNow DEF ExcessOf
  <2> HIDE DEF due
  <2> QED BY <2>1, <2>2, <2>3
<1>7. FundTypes'
  BY <1>3, TypesStay DEF FundInv, Validate, FundTypes
<1>8. NoDustMade'
  BY <1>3, FloorStays DEF FundInv, NoDustMade
<1> QED BY <1>5, <1>6, <1>7, <1>8 DEF FundInv

LEMMA FundStart == FInit => FundInv
<1> SUFFICES ASSUME FInit PROVE FundInv
  OBVIOUS
<1>1. PICK s \in SetToSeqs(Coins) : named = SubSeq(s, 1, req.noSend)
  BY DEF FInit
<1>2. req \in Request
  BY FundingAssumption DEF FInit
<1>3. Cardinality(Coins) \in Nat /\ req.noSend \in 0..Cardinality(Coins)
  BY <1>2, FundingAssumption, FS_CardinalityType DEF Request
<1>4. s \in [1..Cardinality(Coins) -> Coins]
  BY DEF SetToSeqs
<1>5. s \in Seq(Coins) /\ Len(s) = Cardinality(Coins)
  BY <1>3, <1>4
<1>6. named \in Seq(Coins)
  BY <1>1, <1>3, <1>5, PrefixStays
<1>7. req.fixedOut \in Int
  BY <1>2 DEF Request
<1>8. FundTypes
  BY <1>2, <1>6, <1>7 DEF FInit, FundTypes
<1>9. NoDustMade
  BY DEF FInit, NoDustMade
<1> QED BY <1>8, <1>9 DEF FInit, FundInv

\* generateChangeSdk's check of its own result never fails and no dust is made,
\* whatever coins other actions take or give back between two allocations.
THEOREM FeesBalance == FSpec => []Balanced
<1>1. FundInv /\ [FNext]_fVars => FundInv'
  <2> SUFFICES ASSUME FundInv, [FNext]_fVars PROVE FundInv'
    OBVIOUS
  <2>1. CASE UNCHANGED fVars
    <3>1. FundTypes'
      BY <2>1, TypesStay DEF fVars, FundInv, FundTypes
    <3>2. NoDustMade'
      BY <2>1, FloorStays DEF fVars, FundInv, NoDustMade
    <3>3. Excess(0, 0)' = Excess(0, 0)
      BY <2>1, <3>1, ExcessNow, ExcessThen DEF FundInv, fVars
    <3> QED BY <2>1, <3>1, <3>2, <3>3 DEF fVars, FundInv
  <2> QED BY <2>1, PreflightStep, StartStep, AllocateStep, StarvedStep, FundedStep, ReleaseStep,
             CloseStep, SpreadStep, ValidateStep, OthersStep DEF FNext
<1>2. FundInv => Balanced
  BY RequestTypes DEF FundInv, FundTypes, NoDustMade, Balanced
<1> QED BY <1>1, <1>2, FundStart, PTL DEF FSpec

-----------------------------------------------------------------------------
(* Incoming: sums over sets of outputs.                                    *)

Some(s) == CHOOSE v \in s : TRUE
AddsUp(S, g) ==
  \A s \in SUBSET S : g[s] = IF s = {} THEN 0 ELSE Satoshis[Some(s)] + g[s \ {Some(s)}]

LEMMA SetSizes ==
  ASSUME NEW S \in SUBSET Vouts
  PROVE  /\ IsFiniteSet(S) /\ Cardinality(S) \in Nat /\ (Cardinality(S) = 0 <=> S = {})
         /\ \A v \in S : Cardinality(S \ {v}) = Cardinality(S) - 1
         /\ S # {} => Some(S) \in S
<1>1. IsFiniteSet(S)
  BY IncomingAssumption, FS_Subset
<1> QED BY <1>1, FS_CardinalityType, FS_EmptySet, FS_RemoveElement DEF Some

\* Sums of the subsets up to one size give those of the next size.
LEMMA SumFunExists ==
  ASSUME NEW S \in SUBSET Vouts
  PROVE  \E g : DOMAIN g = SUBSET S /\ AddsUp(S, g)
<1> DEFINE UpTo(n) == {s \in SUBSET S : Cardinality(s) <= n}
           Graded(n) == \E g : \A s \in UpTo(n) : g[s] = IF s = {} THEN 0 ELSE Satoshis[Some(s)] + g[s \ {Some(s)}]
           T == {n \in Nat : ~Graded(n)}
<1>0. \A s \in SUBSET S : s \in SUBSET Vouts /\ Cardinality(s) \in Nat /\ (Cardinality(s) = 0 <=> s = {})
  BY SetSizes
<1>1. Graded(0)
  <2> DEFINE z == [s \in SUBSET S |-> 0]
  <2>1. \A s \in UpTo(0) : s = {} /\ z[s] = 0
    BY <1>0
  <2> HIDE DEF z, UpTo
  <2> QED BY <2>1
<1>2. ASSUME NEW n \in Nat, n # 0, Graded(n - 1) PROVE Graded(n)
  <2>1. PICK g : \A s \in UpTo(n - 1) : g[s] = IF s = {} THEN 0 ELSE Satoshis[Some(s)] + g[s \ {Some(s)}]
    BY <1>2
  <2> DEFINE h == [s \in SUBSET S |-> IF Cardinality(s) <= n - 1 THEN g[s]
                                      ELSE Satoshis[Some(s)] + g[s \ {Some(s)}]]
  <2>2. ASSUME NEW s \in UpTo(n)
        PROVE  h[s] = IF s = {} THEN 0 ELSE Satoshis[Some(s)] + h[s \ {Some(s)}]
    <3>1. s \in SUBSET S /\ s \in SUBSET Vouts /\ Cardinality(s) \in Nat /\ Cardinality(s) <= n
          /\ (Cardinality(s) = 0 <=> s = {})
      BY <1>0
    <3>2. CASE s = {}
      <4>1. s \in UpTo(n - 1) /\ Cardinality(s) <= n - 1
        BY <1>2, <3>1, <3>2
      <4>2. g[s] = 0
        BY <2>1, <3>2, <4>1
      <4> QED BY <3>1, <3>2, <4>1, <4>2
    <3>3. CASE s # {}
      <4> DEFINE r == s \ {Some(s)}
      <4>1. r \in SUBSET S /\ Cardinality(r) = Cardinality(s) - 1
        BY <3>1, <3>3, SetSizes
      <4>2. Cardinality(r) <= n - 1
        BY <3>1, <4>1
      <4> HIDE DEF r
      <4>3. h[r] = g[r]
        BY <4>1, <4>2
      <4>4. h[s] = Satoshis[Some(s)] + g[r]
        <5>1. CASE Cardinality(s) <= n - 1
          <6>1. s \in UpTo(n - 1)
            BY <3>1, <5>1
          <6> QED BY <2>1, <3>1, <3>3, <5>1, <6>1 DEF r
        <5>2. CASE ~(Cardinality(s) <= n - 1)
          BY <3>1, <5>2 DEF r
        <5> QED BY <5>1, <5>2
      <4> QED BY <3>3, <4>3, <4>4 DEF r
    <3> QED BY <3>2, <3>3
  <2> HIDE DEF h, UpTo
  <2> QED BY <2>2
<1>3. T = {}
  <2> SUFFICES ASSUME T # {} PROVE FALSE
    OBVIOUS
  <2> HIDE DEF Graded
  <2>1. T \subseteq Nat
    OBVIOUS
  <2>2. PICK n \in T : \A m \in T : n <= m
    <3> HIDE DEF T
    <3> QED BY <2>1, LeastExists
  <2>3. n \in Nat /\ ~Graded(n) /\ n # 0
    BY <1>1
  <2>4. n - 1 \in Nat /\ n - 1 \notin T
    BY <2>2, <2>3
  <2> QED BY <1>2, <2>3, <2>4
<1>4. Cardinality(S) \in Nat /\ \A s \in SUBSET S : Cardinality(s) <= Cardinality(S)
  <2>1. IsFiniteSet(S) /\ Cardinality(S) \in Nat
    BY SetSizes
  <2> QED BY <2>1, FS_Subset
<1>5. Graded(Cardinality(S))
  <2> HIDE DEF Graded
  <2> QED BY <1>3, <1>4
<1>6. PICK g : \A s \in UpTo(Cardinality(S)) :
                 g[s] = IF s = {} THEN 0 ELSE Satoshis[Some(s)] + g[s \ {Some(s)}]
  BY <1>5
<1>7. \A s \in SUBSET S : g[s] = IF s = {} THEN 0 ELSE Satoshis[Some(s)] + g[s \ {Some(s)}]
  BY <1>4, <1>6
<1> DEFINE h == [s \in SUBSET S |-> g[s]]
<1>8. DOMAIN h = SUBSET S /\ \A s \in SUBSET S : h[s] = g[s] /\ s \ {Some(s)} \in SUBSET S
  OBVIOUS
<1> HIDE DEF h
<1>9. AddsUp(S, h)
  BY <1>7, <1>8 DEF AddsUp
<1> QED BY <1>8, <1>9

\* What Sum is.
LEMMA SumIs ==
  ASSUME NEW S \in SUBSET Vouts
  PROVE  \E g : AddsUp(S, g) /\ Sum(S) = g[S]
<1> DEFINE F(G) == [s \in SUBSET S |-> IF s = {} THEN 0 ELSE Satoshis[Some(s)] + G[s \ {Some(s)}]]
           iter == CHOOSE G : G = F(G)
<1>1. PICK g : DOMAIN g = SUBSET S /\ AddsUp(S, g)
  BY SumFunExists
<1>2. PICK h : h = [s \in SUBSET S |-> g[s]]
  OBVIOUS
<1>3. h = F(h)
  <2>1. \A s \in SUBSET S : h[s] = F(h)[s]
    BY <1>1, <1>2 DEF AddsUp
  <2> QED BY <1>2, <2>1
<1>4. iter = F(iter)
  <2> HIDE DEF F
  <2> QED BY <1>3
<1>5. AddsUp(S, iter)
  <2> HIDE DEF iter
  <2> QED BY <1>4 DEF AddsUp
<1>6. Sum(S) = iter[S]
  BY DEF Sum, MapThenSumSet, MapThenFoldSet, Some
<1> QED BY <1>5, <1>6

\* A smallest set that does not have the property is not there.
LEMMA SmallestSet ==
  ASSUME NEW Bad, Bad \subseteq SUBSET Vouts, Bad # {}
  PROVE  \E S \in Bad : \A R \in Bad : Cardinality(S) <= Cardinality(R)
<1> DEFINE T == {n \in Nat : \E S \in Bad : Cardinality(S) = n}
<1>1. \A S \in Bad : Cardinality(S) \in T
  BY SetSizes
<1>2. T # {} /\ T \subseteq Nat
  BY <1>1
<1>3. PICK n \in T : \A m \in T : n <= m
  <2> HIDE DEF T
  <2> QED BY <1>2, LeastExists
<1> QED BY <1>1, <1>3

\* Two such functions agree, whatever sets they were made for.
LEMMA SameSums ==
  ASSUME NEW A \in SUBSET Vouts, NEW B \in SUBSET Vouts, NEW g, NEW h, AddsUp(A, g), AddsUp(B, h),
         NEW S \in SUBSET A, S \in SUBSET B
  PROVE  g[S] = h[S]
<1> DEFINE Bad == {s \in SUBSET Vouts : s \subseteq A /\ s \subseteq B /\ g[s] # h[s]}
<1>1. Bad = {}
  <2> SUFFICES ASSUME Bad # {} PROVE FALSE
    OBVIOUS
  <2>1. PICK s \in Bad : \A r \in Bad : Cardinality(s) <= Cardinality(r)
    <3>1. Bad \subseteq SUBSET Vouts
      OBVIOUS
    <3> HIDE DEF Bad
    <3> QED BY <3>1, SmallestSet
  <2>2. /\ s \in SUBSET Vouts /\ s \subseteq A /\ s \subseteq B /\ g[s] # h[s]
        /\ g[s] = IF s = {} THEN 0 ELSE Satoshis[Some(s)] + g[s \ {Some(s)}]
        /\ h[s] = IF s = {} THEN 0 ELSE Satoshis[Some(s)] + h[s \ {Some(s)}]
    BY DEF AddsUp
  <2>3. s # {}
    BY <2>2
  <2>4. Cardinality(s) \in Nat /\ Cardinality(s \ {Some(s)}) = Cardinality(s) - 1
    BY <2>2, <2>3, SetSizes
  <2>5. ~(Cardinality(s) <= Cardinality(s \ {Some(s)}))
    BY <2>4
  <2>6. s \ {Some(s)} \notin Bad
    BY <2>1, <2>5
  <2>7. g[s \ {Some(s)}] = h[s \ {Some(s)}]
    BY <2>2, <2>6
  <2> QED BY <2>2, <2>7
<1> QED BY <1>1

LEMMA SumStep ==
  ASSUME NEW S \in SUBSET Vouts
  PROVE  Sum(S) = IF S = {} THEN 0 ELSE Satoshis[Some(S)] + Sum(S \ {Some(S)})
<1> DEFINE R == S \ {Some(S)}
<1>1. PICK g : AddsUp(S, g) /\ Sum(S) = g[S]
  BY SumIs
<1>2. PICK h : AddsUp(R, h) /\ Sum(R) = h[R]
  BY SumIs
<1>3. g[R] = h[R]
  <2>1. R \in SUBSET Vouts /\ R \in SUBSET S /\ R \in SUBSET R
    OBVIOUS
  <2>2. AddsUp(S, g) /\ AddsUp(R, h)
    BY <1>1, <1>2
  <2> HIDE DEF R
  <2>3. ASSUME NEW A \in SUBSET Vouts, NEW B \in SUBSET Vouts, AddsUp(A, g), AddsUp(B, h),
               NEW s \in SUBSET A, s \in SUBSET B
        PROVE  g[s] = h[s]
    BY <2>3, SameSums
  <2>4. ASSUME NEW B \in SUBSET Vouts, AddsUp(B, h), NEW s \in SUBSET S, s \in SUBSET B
        PROVE  g[s] = h[s]
    BY <2>2, <2>3, <2>4
  <2> QED BY <2>1, <2>2, <2>4
<1>4. g[S] = IF S = {} THEN 0 ELSE Satoshis[Some(S)] + g[R]
  BY <1>1 DEF AddsUp
<1> HIDE DEF R
<1>5. Sum(S) = IF S = {} THEN 0 ELSE Satoshis[Some(S)] + Sum(R)
  BY <1>1, <1>2, <1>3, <1>4
<1> QED BY <1>5 DEF R

LEMMA SumNat ==
  ASSUME NEW S \in SUBSET Vouts
  PROVE  Sum(S) \in Nat
<1> DEFINE Bad == {s \in SUBSET Vouts : Sum(s) \notin Nat}
<1>1. Bad = {}
  <2> SUFFICES ASSUME Bad # {} PROVE FALSE
    OBVIOUS
  <2>1. PICK s \in Bad : \A r \in Bad : Cardinality(s) <= Cardinality(r)
    <3>1. Bad \subseteq SUBSET Vouts
      OBVIOUS
    <3> HIDE DEF Bad
    <3> QED BY <3>1, SmallestSet
  <2>2. s \in SUBSET Vouts /\ Sum(s) \notin Nat
    OBVIOUS
  <2>3. s # {} /\ Sum(s) = Satoshis[Some(s)] + Sum(s \ {Some(s)})
    BY <2>2, SumStep
  <2>4. Cardinality(s) \in Nat /\ Cardinality(s \ {Some(s)}) = Cardinality(s) - 1 /\ Some(s) \in s
    BY <2>2, <2>3, SetSizes
  <2>5. ~(Cardinality(s) <= Cardinality(s \ {Some(s)}))
    BY <2>4
  <2>6. Sum(s \ {Some(s)}) \in Nat
    <3>1. s \ {Some(s)} \notin Bad
      BY <2>1, <2>5
    <3> QED BY <2>2, <3>1
  <2>7. Satoshis[Some(s)] \in Nat
    BY <2>2, <2>4, IncomingAssumption
  <2> HIDE DEF Bad
  <2> QED BY <2>2, <2>3, <2>6, <2>7
<1> QED BY <1>1

\* Whichever output is taken out first, the sum is the same.
LEMMA SumWithout ==
  ASSUME NEW S \in SUBSET Vouts, NEW v \in S
  PROVE  Sum(S) = Satoshis[v] + Sum(S \ {v})
<1> DEFINE Bad == {s \in SUBSET Vouts : \E x \in s : Sum(s) # Satoshis[x] + Sum(s \ {x})}
<1>1. Bad = {}
  <2> SUFFICES ASSUME Bad # {} PROVE FALSE
    OBVIOUS
  <2>1. PICK s \in Bad : \A r \in Bad : Cardinality(s) <= Cardinality(r)
    <3>1. Bad \subseteq SUBSET Vouts
      OBVIOUS
    <3> HIDE DEF Bad
    <3> QED BY <3>1, SmallestSet
  <2>2. PICK x \in s : Sum(s) # Satoshis[x] + Sum(s \ {x})
    OBVIOUS
  <2>3. PICK y \in s : Sum(s) = Satoshis[y] + Sum(s \ {y})
    <3>1. s # {} /\ s \in SUBSET Vouts
      BY <2>2
    <3> QED BY <3>1, SumStep, SetSizes
  <2>4. x # y /\ s \in SUBSET Vouts
    BY <2>2, <2>3
  <2>5. s \ {x} \notin Bad /\ s \ {y} \notin Bad
    <3>1. /\ Cardinality(s) \in Nat /\ Cardinality(s \ {x}) = Cardinality(s) - 1
          /\ Cardinality(s \ {y}) = Cardinality(s) - 1
      BY <2>4, SetSizes
    <3>2. ~(Cardinality(s) <= Cardinality(s \ {x})) /\ ~(Cardinality(s) <= Cardinality(s \ {y}))
      BY <3>1
    <3> QED BY <2>1, <3>2
  <2>6. /\ Sum(s \ {x}) = Satoshis[y] + Sum((s \ {x}) \ {y})
        /\ Sum(s \ {y}) = Satoshis[x] + Sum((s \ {y}) \ {x})
    BY <2>4, <2>5
  <2>7. (s \ {x}) \ {y} = (s \ {y}) \ {x} /\ (s \ {x}) \ {y} \in SUBSET Vouts
    BY <2>4
  <2>8. Sum((s \ {x}) \ {y}) \in Nat
    BY <2>7, SumNat
  <2>9. Satoshis[x] \in Nat /\ Satoshis[y] \in Nat
    BY <2>4, IncomingAssumption
  <2> DEFINE rest == Sum((s \ {x}) \ {y})
  <2>10. /\ rest \in Nat /\ Sum(s) = Satoshis[y] + Sum(s \ {y}) /\ Sum(s \ {x}) = Satoshis[y] + rest
         /\ Sum(s \ {y}) = Satoshis[x] + rest
    BY <2>3, <2>6, <2>7, <2>8
  <2> HIDE DEF Bad, rest
  <2>11. Sum(s) = Satoshis[x] + Sum(s \ {x})
    BY ONLY <2>9, <2>10
  <2> QED BY <2>2, <2>11
<1> QED BY <1>1

LEMMA SumUnion ==
  ASSUME NEW A \in SUBSET Vouts, NEW B \in SUBSET Vouts, A \cap B = {}
  PROVE  Sum(A \cup B) = Sum(A) + Sum(B)
<1> DEFINE Bad == {s \in SUBSET Vouts : A \cap s = {} /\ Sum(A \cup s) # Sum(A) + Sum(s)}
<1>1. Bad = {}
  <2> SUFFICES ASSUME Bad # {} PROVE FALSE
    OBVIOUS
  <2>1. PICK s \in Bad : \A r \in Bad : Cardinality(s) <= Cardinality(r)
    <3>1. Bad \subseteq SUBSET Vouts
      OBVIOUS
    <3> HIDE DEF Bad
    <3> QED BY <3>1, SmallestSet
  <2>2. s \in SUBSET Vouts /\ A \cap s = {} /\ Sum(A \cup s) # Sum(A) + Sum(s)
    OBVIOUS
  <2>3. s # {}
    <3> SUFFICES ASSUME s = {} PROVE FALSE
      OBVIOUS
    <3>1. Sum(s) = 0 /\ A \cup s = A /\ Sum(A) \in Nat
      BY SumStep, SumNat
    <3> HIDE DEF Bad
    <3> QED BY <2>2, <3>1
  <2>4. PICK x \in s : TRUE
    BY <2>3
  <2> DEFINE r == s \ {x}
  <2>5. r \notin Bad
    <3>1. Cardinality(s) \in Nat /\ Cardinality(r) = Cardinality(s) - 1
      BY <2>2, SetSizes
    <3>2. ~(Cardinality(s) <= Cardinality(r))
      BY <3>1
    <3> HIDE DEF r
    <3> QED BY <2>1, <3>2
  <2>6. Sum(A \cup r) = Sum(A) + Sum(r) /\ r \in SUBSET Vouts
    BY <2>2, <2>5
  <2>7. Sum(s) = Satoshis[x] + Sum(r)
    BY <2>2, SumWithout
  <2>8. (A \cup s) \ {x} = A \cup r /\ A \cup s \in SUBSET Vouts /\ x \in A \cup s
    BY <2>2
  <2>9. Sum(A \cup s) = Satoshis[x] + Sum(A \cup r)
    BY <2>8, SumWithout
  <2>10. Satoshis[x] \in Nat /\ Sum(A) \in Nat /\ Sum(r) \in Nat
    BY <2>2, <2>6, SumNat, IncomingAssumption
  <2> HIDE DEF Bad, r
  <2> QED BY <2>2, <2>6, <2>7, <2>9, <2>10
<1> QED BY <1>1

-----------------------------------------------------------------------------
(* Incoming: the invariant.                                                *)

Uses == [Vouts -> OutKinds \cup {"none"}]
Active == {"prove", "row", "req", "store", "done"}
Changes(a) == Named(a.want) \ Ignored(a.want, a.seen)

\* What an output is to the user in the middle of a call.
NowIs(a) == [v \in Vouts |-> IF v \in Changes(a) \ a.todo THEN a.want[v] ELSE a.seen[v]]

CallFields(a) == {"pc", "want", "bump", "merge", "seen", "sats", "todo"} \subseteq DOMAIN a

\* A call counted what it changes against what it saw, and nobody else changes that.
CallOK(a, mine, state) ==
  /\ CallFields(a)
  /\ a.pc \in Active \cup {"idle"}
  /\ a.pc \in Active =>
       /\ a.want \in Uses /\ a.seen \in Uses
       /\ a.todo \subseteq Changes(a)
       /\ a.sats = NetSatoshis(a.want, a.seen)
       /\ mine = NowIs(a)
  /\ a.pc \in {"req", "store"} => state # "none"
  /\ a.pc = "done" => a.todo = {}

InInv ==
  /\ outs \in [Users -> Uses]
  /\ DOMAIN call = Users /\ DOMAIN txRows = Users
  /\ \A u \in Users : txRows[u] = "none" => outs[u] = NoCall.seen
  /\ \A u \in Users : CallOK(call[u], outs[u], txRows[u])

\* The change grows by what the call counted.
LEMMA NetIsGrowth ==
  ASSUME NEW want \in Uses, NEW was \in Uses, NEW now \in Uses,
         \A v \in Vouts : now[v] = IF v \in Named(want) \ Ignored(want, was) THEN want[v] ELSE was[v]
  PROVE  Sum(AsChange(now)) - Sum(AsChange(was)) = NetSatoshis(want, was)
<1> DEFINE gone == Inserts(want) \cap AsChange(was)
           new == Payments(want) \ Ignored(want, was)
           kept == AsChange(was) \ gone
<1>1. /\ AsChange(now) = kept \cup new /\ kept \cap new = {}
      /\ AsChange(was) = kept \cup gone /\ kept \cap gone = {}
      /\ kept \in SUBSET Vouts /\ new \in SUBSET Vouts /\ gone \in SUBSET Vouts
  BY DEF AsChange, Named, Ignored, Payments, Inserts, Uses, OutKinds
<1>2. NetSatoshis(want, was) = Sum(new) - Sum(gone)
  BY DEF NetSatoshis
<1> HIDE DEF gone, new, kept
<1>3. Sum(AsChange(now)) = Sum(kept) + Sum(new) /\ Sum(AsChange(was)) = Sum(kept) + Sum(gone)
  BY <1>1, SumUnion
<1>4. Sum(kept) \in Nat /\ Sum(new) \in Nat /\ Sum(gone) \in Nat
  BY <1>1, SumNat
<1> QED BY <1>2, <1>3, <1>4

\* One user's call and rows, and the others as they were.
LEMMA OneCall ==
  ASSUME InInv, NEW u \in Users, NEW a, call' = [call EXCEPT ![u] = a],
         outs'[u] \in Uses, DOMAIN outs' = Users, DOMAIN txRows' = Users,
         \A w \in Users \ {u} : outs'[w] = outs[w] /\ txRows'[w] = txRows[w],
         CallOK(a, outs'[u], txRows'[u]), txRows'[u] = "none" => outs'[u] = NoCall.seen,
         outs' = [w \in Users |-> outs'[w]]
  PROVE  InInv'
<1>1. outs' \in [Users -> Uses]
  BY DEF InInv
<1>2. DOMAIN call' = Users /\ call'[u] = a /\ \A w \in Users \ {u} : call'[w] = call[w]
  BY DEF InInv
<1>3. \A w \in Users : txRows'[w] = "none" => outs'[w] = NoCall.seen
  BY DEF InInv
<1>4. \A w \in Users : CallOK(call'[w], outs'[w], txRows'[w])
  BY <1>2 DEF InInv
<1> QED BY <1>1, <1>2, <1>3, <1>4 DEF InInv

LEMMA NoCallOK == ASSUME NEW mine, NEW state PROVE CallOK(NoCall, mine, state)
BY DEF CallOK, CallFields, NoCall, Active

LEMMA SetupStep ==
  ASSUME InInv, NEW u \in Users, Setup(u)
  PROVE  InInv'
<1>1. PICK want \in Wants[u], bump \in {FALSE, posted} :
        call' = [call EXCEPT ![u] =
          IF txRows[u] # "none" /\ txRows[u] \notin Mergeable THEN NoCall
          ELSE [want |-> want, bump |-> bump, merge |-> txRows[u] # "none",
                seen |-> IF txRows[u] # "none" THEN outs[u] ELSE NoCall.seen,
                sats |-> NetSatoshis(want, IF txRows[u] # "none" THEN outs[u] ELSE NoCall.seen),
                todo |-> Named(want) \ Ignored(want, IF txRows[u] # "none" THEN outs[u] ELSE NoCall.seen),
                pc |-> IF txRows[u] # "none" THEN "store" ELSE IF bump THEN "prove" ELSE "row"]]
  BY DEF Setup
<1>2. outs' = outs /\ txRows' = txRows
  BY DEF Setup
<1>3. want \in Uses /\ outs[u] \in Uses
  BY IncomingAssumption DEF Uses, OutKinds, InInv
<1>4. PICK was \in Uses : was = outs[u] /\ (txRows[u] = "none" => was = NoCall.seen)
  BY <1>3 DEF InInv
<1>5. PICK pc \in {"store", "prove", "row"} : /\ pc = "store" => txRows[u] # "none"
        /\ pc = IF txRows[u] # "none" THEN "store" ELSE IF bump THEN "prove" ELSE "row"
  OBVIOUS
<1> DEFINE a == [want |-> want, bump |-> bump, merge |-> txRows[u] # "none", seen |-> was,
                 sats |-> NetSatoshis(want, was), todo |-> Named(want) \ Ignored(want, was), pc |-> pc]
<1>6. call' = [call EXCEPT ![u] = NoCall] \/ call' = [call EXCEPT ![u] = a]
  BY <1>1, <1>4, <1>5
<1>7. CallOK(a, outs[u], txRows[u])
  <2>1. CallFields(a) /\ a.pc = pc /\ a.want = want /\ a.seen = was
        /\ a.sats = NetSatoshis(want, was) /\ a.todo = Changes(a)
    BY DEF CallFields, Changes
  <2> HIDE DEF a
  <2>2. NowIs(a) = [v \in Vouts |-> was[v]]
    BY <2>1 DEF NowIs
  <2>3. outs[u] = NowIs(a)
    BY <1>4, <2>2 DEF Uses
  <2> QED BY <1>3, <1>5, <2>1, <2>3 DEF CallOK, Active
<1> HIDE DEF a
<1> QED BY <1>2, <1>3, <1>6, <1>7, NoCallOK, OneCall DEF InInv

\* The call goes on, and its user's outputs stay.
LEMMA PcStep ==
  ASSUME InInv, NEW u \in Users, NEW p \in {"row", "req", "store", "done"}, call[u].pc \in Active,
         call' = [call EXCEPT ![u].pc = p], outs' = outs, DOMAIN txRows' = Users,
         \A w \in Users \ {u} : txRows'[w] = txRows[w],
         p \in {"req", "store"} => txRows'[u] # "none", p = "done" => call[u].todo = {},
         txRows'[u] = "none" => txRows[u] = "none"
  PROVE  InInv'
<1>1. PICK a : a = [call[u] EXCEPT !.pc = p]
  OBVIOUS
<1>2. call' = [call EXCEPT ![u] = a]
  BY <1>1
<1>3. CallOK(call[u], outs[u], txRows[u]) /\ outs[u] \in Uses
  BY DEF InInv
<1>4. CallFields(a) /\ a.pc = p /\ a.want = call[u].want /\ a.seen = call[u].seen
      /\ a.sats = call[u].sats /\ a.todo = call[u].todo
  BY <1>1, <1>3 DEF CallOK, CallFields
<1>5. NowIs(a) = NowIs(call[u]) /\ Changes(a) = Changes(call[u])
  BY <1>4 DEF NowIs, Changes
<1>6. CallOK(a, outs[u], txRows'[u])
  BY <1>3, <1>4, <1>5 DEF CallOK, Active
<1> QED BY <1>2, <1>3, <1>6, OneCall DEF InInv

LEMMA StopStep ==
  ASSUME InInv, NEW u \in Users, call' = [call EXCEPT ![u] = NoCall], outs' = outs, txRows' = txRows
  PROVE  InInv'
BY NoCallOK, OneCall DEF InInv

LEMMA ProveStep ==
  ASSUME InInv, NEW u \in Users, StoreProof(u)
  PROVE  InInv'
<1>1. CASE call' = [call EXCEPT ![u].pc = "row"]
  BY <1>1, PcStep DEF StoreProof, InInv, Active
<1>2. CASE call' = [call EXCEPT ![u] = NoCall]
  BY <1>2, StopStep DEF StoreProof
<1> QED BY <1>1, <1>2 DEF StoreProof

LEMMA RowStep ==
  ASSUME InInv, NEW u \in Users, InsertRow(u)
  PROVE  InInv'
<1>1. DOMAIN txRows' = Users /\ txRows'[u] # "none" /\ \A w \in Users \ {u} : txRows'[w] = txRows[w]
  BY DEF InsertRow, InInv
<1>2. PICK p \in {"store", "req"} : call' = [call EXCEPT ![u].pc = p]
  BY DEF InsertRow
<1> QED BY <1>1, <1>2, PcStep DEF InsertRow, Active

LEMMA ReqStep ==
  ASSUME InInv, NEW u \in Users, GetProvenOrReq(u)
  PROVE  InInv'
<1>1. txRows[u] # "none" /\ txRows' = txRows
  BY DEF GetProvenOrReq, InInv, CallOK
<1> QED BY <1>1, PcStep DEF GetProvenOrReq, Active, InInv

LEMMA AcceptStep ==
  ASSUME InInv, NEW u \in Users, Accept(u)
  PROVE  InInv'
<1>1. txRows[u] # "none" /\ txRows' = txRows
  BY DEF Accept, InInv, CallOK
<1> QED BY <1>1, PcStep DEF Accept, Active, InInv

LEMMA StoreStep ==
  ASSUME InInv, NEW u \in Users, StoreOutput(u)
  PROVE  InInv'
<1>1. PICK v \in NextOut(call[u]) :
        /\ outs' = [outs EXCEPT ![u][v] = call[u].want[v]]
        /\ call' = [call EXCEPT ![u].todo = @ \ {v}]
  BY DEF StoreOutput
<1>2. CallOK(call[u], outs[u], txRows[u]) /\ outs[u] \in Uses /\ txRows' = txRows /\ call[u].pc = "store"
  BY DEF InInv, StoreOutput
<1>3. v \in call[u].todo /\ v \in Changes(call[u]) /\ v \in Vouts /\ call[u].want \in Uses
  BY <1>2 DEF NextOut, CallOK, Active, Changes, Named
<1>4. PICK a : a = [call[u] EXCEPT !.todo = @ \ {v}]
  OBVIOUS
<1>5. call' = [call EXCEPT ![u] = a]
  BY <1>1, <1>4
<1>6. CallFields(a) /\ a.pc = "store" /\ a.want = call[u].want /\ a.seen = call[u].seen
      /\ a.sats = call[u].sats /\ a.todo = call[u].todo \ {v}
  BY <1>2, <1>4 DEF CallOK, CallFields
<1>7. /\ outs'[u] = [outs[u] EXCEPT ![v] = call[u].want[v]]
      /\ DOMAIN outs' = Users /\ \A w \in Users \ {u} : outs'[w] = outs[w]
      /\ outs' = [w \in Users |-> outs'[w]]
  BY <1>1 DEF InInv
<1>8. outs'[u] \in Uses
  BY <1>2, <1>3, <1>7 DEF Uses
<1>9. outs'[u] = NowIs(a)
  <2>1. Changes(a) = Changes(call[u]) /\ outs[u] = NowIs(call[u])
    BY <1>2, <1>6 DEF Changes, CallOK, Active
  <2> DEFINE now == outs'[u]
  <2>2. now \in Uses /\ \A x \in Vouts : now[x] = IF x = v THEN call[u].want[v] ELSE outs[u][x]
    BY <1>2, <1>7, <1>8 DEF Uses
  <2> HIDE DEF now
  <2>3. \A x \in Vouts : now[x] = NowIs(a)[x]
    BY <1>3, <1>6, <2>1, <2>2 DEF NowIs
  <2>4. now = NowIs(a)
    BY <2>2, <2>3 DEF Uses, NowIs
  <2> QED BY <2>4 DEF now
<1>10. CallOK(a, outs'[u], txRows[u])
  <2>1. Changes(a) = Changes(call[u])
    BY <1>6 DEF Changes
  <2> QED BY <1>2, <1>6, <1>9, <2>1 DEF CallOK, Active
<1>11. txRows[u] # "none"
  BY <1>2 DEF CallOK
<1> QED BY <1>2, <1>5, <1>7, <1>8, <1>10, <1>11, OneCall DEF InInv

\* The monitor changes no outputs and no call, and takes no row away.
LEMMA MonitorStep ==
  ASSUME InInv, call' = call, outs' = outs, DOMAIN txRows' = Users,
         \A w \in Users : txRows'[w] = txRows[w] \/ txRows'[w] # "none"
  PROVE  InInv'
<1>1. \A w \in Users : CallOK(call[w], outs[w], txRows'[w])
  BY DEF InInv, CallOK
<1>2. \A w \in Users : txRows'[w] = "none" => outs[w] = NoCall.seen
  BY DEF InInv
<1> QED BY <1>1, <1>2 DEF InInv

LEMMA StartIn == InInit => InInv
<1> SUFFICES ASSUME InInit PROVE InInv
  OBVIOUS
<1>1. PICK u \in Makers \cup {NoUser}, o \in Own, st \in {<<"nosend", "nosend">>, <<"unsent", "sending">>} :
        /\ txRows = [w \in Users |-> IF w = u THEN st[2] ELSE "none"]
        /\ outs = [w \in Users |-> IF w = u THEN o ELSE NoCall.seen]
  BY DEF InInit
<1>2. st[2] # "none"
  OBVIOUS
<1>3. o \in Uses /\ NoCall.seen \in Uses
  BY DEF Own, Uses, NoCall
<1>4. outs \in [Users -> Uses]
  BY <1>1, <1>3
<1>5. \A w \in Users : txRows[w] = "none" => outs[w] = NoCall.seen
  BY <1>1, <1>2
<1>6. \A w \in Users : CallOK(call[w], outs[w], txRows[w])
  BY NoCallOK DEF InInit
<1> QED BY <1>1, <1>4, <1>5, <1>6 DEF InInv, InInit

\* What an accepted internalizeAction reports is what it did, however often it was
\* interrupted and repeated, and whatever the monitor did to the row meanwhile.
THEOREM CallsAreCredited == InSpec => []Credited
<1>1. InInv /\ [InNext]_inVars => InInv'
  <2> SUFFICES ASSUME InInv, [InNext]_inVars PROVE InInv'
    OBVIOUS
  <2>1. CASE UNCHANGED inVars
    BY <2>1, MonitorStep DEF inVars, InInv
  <2>2. ASSUME NEW u \in Users, Answer(u) \/ Break(u) PROVE InInv'
    BY <2>2, StopStep DEF Answer, Break
  <2>3. CASE MonitorSends
    BY <2>3, MonitorStep DEF MonitorSends, InInv
  <2>4. CASE MonitorProves
    BY <2>4, MonitorStep DEF MonitorProves, InInv
  <2> QED BY <2>1, <2>2, <2>3, <2>4, SetupStep, ProveStep, RowStep, ReqStep, StoreStep, AcceptStep DEF InNext
<1>2. InInv => Credited
  <2> SUFFICES ASSUME InInv, NEW u \in Users, call[u].pc = "done"
               PROVE  /\ outs[u] = [v \in Vouts |-> IF call[u].want[v] = "none" THEN call[u].seen[v] ELSE call[u].want[v]]
                      /\ Sum(AsChange(outs[u])) - Sum(AsChange(call[u].seen)) = call[u].sats
    BY DEF Credited
  <2>1. /\ call[u].want \in Uses /\ call[u].seen \in Uses /\ call[u].todo = {} /\ outs[u] = NowIs(call[u])
        /\ call[u].sats = NetSatoshis(call[u].want, call[u].seen) /\ outs[u] \in Uses
    BY DEF InInv, CallOK, Active
  <2>2. \A v \in Vouts : outs[u][v] = IF v \in Named(call[u].want) \ Ignored(call[u].want, call[u].seen)
                                      THEN call[u].want[v] ELSE call[u].seen[v]
    BY <2>1 DEF NowIs, Changes
  <2>3. \A v \in Vouts : outs[u][v] = IF call[u].want[v] = "none" THEN call[u].seen[v] ELSE call[u].want[v]
    BY <2>2 DEF Named, Ignored, Payments
  <2>4. outs[u] = [v \in Vouts |-> IF call[u].want[v] = "none" THEN call[u].seen[v] ELSE call[u].want[v]]
    BY <2>1, <2>3 DEF Uses
  <2> QED BY <2>1, <2>2, <2>4, NetIsGrowth
<1> QED BY <1>1, <1>2, StartIn, PTL DEF InSpec

-----------------------------------------------------------------------------
(* RocksDbOutputs: an output goes to one action at a time.                 *)

\* createAction validates noSendChange long before it allocates it, without a
\* second look: two actions that name the same output both get it.
OneNoSend == \A t, u \in NoSendActs : t = u

\* Change outputs that allocateChangeInput may find.
Pure == Change \ NoSendOuts

ScopeKinds == {"known", "fail"}
MidPcs == {"find", "status", "existing", "unindex", "unstatus", "version", "primary"}

ActRec == [pc: Pcs, kind: Kinds, out: Outs \cup {None}, row: Row, status: Status,
           version: Nat, todo: SUBSET Outs, usable: SUBSET Outs]

\* Of updateOutput on o: t has still to write the entity ...
Before(t, o) ==
  \/ act[t].pc \in {"validated", "put"} /\ act[t].out = o
  \/ o \in act[t].todo /\ o \in act[t].usable

\* ... or has, and has still to write the primary record.
Within(t, o) == act[t].pc \in MidPcs /\ act[t].out = o

Works(t, o) == Before(t, o) \/ Within(t, o)

Mine(t, o) == Works(t, o) \/ o \in holds[t]

\* Which outputs each call works on, and what it carries.
AllocFits(t) ==
  /\ act[t].pc \in {"idle", "picked", "read", "checked", "validated", "failed"} => act[t].todo = {}
  /\ act[t].pc \in {"picked", "read", "checked"} => act[t].out \in Change
  /\ act[t].pc = "checked" => act[t].out \in Pure
  /\ act[t].pc = "validated" => t \in NoSendActs /\ act[t].out \in NoSendOuts
  /\ act[t].pc = "next" => act[t].kind \in ScopeKinds
  /\ act[t].todo # {} => act[t].kind \in ScopeKinds
  /\ act[t].kind = "known" => act[t].todo \subseteq Known
  /\ act[t].pc \in UpdatePcs =>
       /\ act[t].out \in Outs
       /\ act[t].out \notin act[t].todo
       /\ act[t].kind = "release" => act[t].out \in Pure
       /\ act[t].kind = "nosend" => t \in NoSendActs /\ act[t].out \in NoSendOuts
       /\ act[t].kind = "known" => act[t].out \in Known
  /\ act[t].pc \in {"index", "indexStatus"} => act[t].kind \in {"release", "fail"}

\* transaction() admits one scope at a time.
ScopeOK(t) ==
  \/ act[t].pc = "next" \/ act[t].todo # {}
  \/ act[t].pc \in UpdatePcs /\ act[t].kind \in ScopeKinds
  => tail = t

\* What t works on is allocated to t in the primary record, or it is an output
\* that allocateChangeInput does not find.
OwnerOK(t) ==
  \A o \in Outs : Works(t, o) => /\ o \in NoSendOuts => t \in NoSendActs
                                 /\ o \in Pure => primary[o].spentBy = t

\* The entity is as the call left it, or as it was when the call began.
RowsOK(t) ==
  /\ \A o \in Outs : Before(t, o) =>
       entity[o] = IF act[t].pc = "validated" \/ act[t].kind \in {"nosend", "known"} THEN Free ELSE TakenBy(t)
  /\ act[t].pc \in MidPcs => entity[act[t].out] = NewRow(t, act[t].kind)
  /\ act[t].pc \in MidPcs \ {"find"} => act[t].row = NewRow(t, act[t].kind)

\* An action holds what it has finished to allocate, and nothing it works on.
HoldsOK(t) ==
  \A o \in holds[t] :
    entity[o] = TakenBy(t) /\ ~primary[o].spendable /\ primary[o].spentBy = t /\ ~Works(t, o)

ActOK(t) == AllocFits(t) /\ ScopeOK(t) /\ OwnerOK(t) /\ RowsOK(t) /\ HoldsOK(t)

\* noSendChange is never found by allocateChangeInput and stored only for the
\* actions that name it.  An allocation that the entity of another change output
\* shows is in its primary record too: tryReserveSpendableOutput writes both at
\* once, and giving back writes the entity first.
StoreOK ==
  /\ mover.pc # "idle" => mover.out \in Change
  /\ \A o \in NoSendOuts : parent[o] = "nosend" /\ entity[o].spentBy \in NoSendActs \cup {None}
  /\ \A o \in Pure : entity[o] # Free => primary[o].spentBy = entity[o].spentBy

\* The inductive invariant.
RocksInv == OneNoSend /\ TypeOK /\ StoreOK /\ \A t \in Acts : ActOK(t)

-----------------------------------------------------------------------------
(* Rows and processes.                                                     *)

LEMMA RowFacts ==
  /\ Free \in Row /\ Free.spendable = TRUE /\ Free.spentBy = None
  /\ \A t \in Acts : /\ TakenBy(t) \in Row /\ TakenBy(t) # Free
                     /\ TakenBy(t).spendable = FALSE /\ TakenBy(t).spentBy = t
  /\ \A t, u \in Acts : TakenBy(t) = TakenBy(u) => t = u
  /\ \A r \in Row : r = Free \/ \E t \in Acts : r = TakenBy(t)
  BY OutputsAssumption DEF Row, Free, TakenBy

LEMMA IdleFacts ==
  /\ Idle \in ActRec
  /\ Idle.pc = "idle" /\ Idle.todo = {} /\ Idle.usable = {} /\ Idle.kind = "release"
  BY RowFacts DEF Idle, ActRec, Pcs, Kinds, Status

\* No output is worked on or held by two actions.
LEMMA Exclusive ==
  ASSUME RocksInv, NEW o \in Outs, NEW t \in Acts, NEW u \in Acts, Mine(t, o), Mine(u, o)
  PROVE  t = u
<1> USE DEF RocksInv, ActOK
<1>1. ASSUME NEW v \in Acts, Works(v, o)
      PROVE  entity[o] = Free \/ entity[o] = TakenBy(v)
  BY <1>1 DEF Works, Before, Within, RowsOK, NewRow
<1>2. CASE o \in holds[t] \/ o \in holds[u]
  BY <1>1, <1>2, RowFacts DEF HoldsOK, Mine
<1>3. CASE Works(t, o) /\ Works(u, o)
  <2>1. CASE o \in Pure
    BY <1>3, <2>1 DEF OwnerOK
  <2>2. CASE o \in NoSendOuts
    BY <1>3, <2>2 DEF OwnerOK, OneNoSend
  <2>3. CASE o \in Known
    <3>1. ASSUME NEW v \in Acts, Works(v, o)
          PROVE  tail = v
      <4>1. CASE o \in act[v].todo
        BY <4>1 DEF ScopeOK
      <4>2. CASE act[v].pc \in {"validated"} \cup UpdatePcs /\ act[v].out = o
        BY <2>3, <4>2, OutputsAssumption DEF AllocFits, ScopeOK, ScopeKinds, Pure, TypeOK, Kinds
      <4>3. QED
        BY <3>1, <4>1, <4>2 DEF Works, Before, Within, MidPcs, UpdatePcs
    <3>2. QED
      BY <1>3, <3>1
  <2>4. QED
    BY <2>1, <2>2, <2>3 DEF Outs, Pure
<1>4. QED
  BY <1>2, <1>3 DEF Mine

\* A step that does not touch the output of u leaves what is said of u true.
LEMMA OtherStep ==
  ASSUME RocksInv, NEW u \in Acts, act'[u] = act[u], holds'[u] = holds[u], tail = u => tail' = u,
         \A o \in Outs : Mine(u, o) => entity'[o] = entity[o] /\ primary'[o] = primary[o]
  PROVE  ActOK(u)'
<1> USE DEF RocksInv, ActOK
<1>1. \A o : (Works(u, o)' <=> Works(u, o)) /\ (Before(u, o)' <=> Before(u, o))
  BY DEF Works, Before, Within
<1>2. AllocFits(u)' /\ ScopeOK(u)'
  BY DEF AllocFits, ScopeOK
<1>3. OwnerOK(u)'
  BY <1>1 DEF OwnerOK, Mine
<1>4. RowsOK(u)'
  <2>1. act[u].pc \in MidPcs => act[u].out \in Outs /\ Mine(u, act[u].out)
    BY DEF AllocFits, MidPcs, UpdatePcs, Mine, Works, Within
  <2>2. \A o \in Outs : Before(u, o) => Mine(u, o)
    BY DEF Mine, Works
  <2>3. QED
    BY <1>1, <2>1, <2>2 DEF RowsOK
<1>5. HoldsOK(u)'
  <2>1. holds[u] \subseteq Outs
    BY DEF TypeOK
  <2>2. QED
    BY <1>1, <2>1 DEF HoldsOK, Mine
<1>6. QED
  BY <1>2, <1>3, <1>4, <1>5

\* A step of t that writes no row but one that only t may write.
LEMMA ActStep ==
  ASSUME RocksInv, NEW t \in Acts, TypeOK', StoreOK', ActOK(t)',
         \A u \in Acts \ {t} : act'[u] = act[u] /\ holds'[u] = holds[u],
         tail' = tail \/ tail \in {t, None},
         \A o \in Outs : (entity'[o] = entity[o] /\ primary'[o] = primary[o])
                           \/ \A u \in Acts \ {t} : ~Mine(u, o)
  PROVE  RocksInv'
<1>1. \A u \in Acts \ {t} : ActOK(u)'
  <2> SUFFICES ASSUME NEW u \in Acts \ {t} PROVE ActOK(u)'
    OBVIOUS
  <2>1. tail = u => tail' = u
    BY OutputsAssumption
  <2>2. QED
    BY <2>1, OtherStep
<1>2. QED
  BY <1>1 DEF RocksInv, OneNoSend

\* A step of t that writes no row and holds nothing more.
LEMMA SilentStep ==
  ASSUME RocksInv, NEW t \in Acts, NEW r \in ActRec, act' = [act EXCEPT ![t] = r],
         UNCHANGED <<entity, primary, parent, holds, mover, crashes>>,
         byBasket' \in SUBSET Outs, byStatus' \in SUBSET (Outs \X Status),
         tail' \in Acts \cup {None}, tail' = tail \/ tail \in {t, None},
         AllocFits(t)', ScopeOK(t)', OwnerOK(t)', RowsOK(t)', HoldsOK(t)'
  PROVE  RocksInv'
<1>1. TypeOK'
  BY DEF RocksInv, TypeOK, ActRec
<1>2. StoreOK'
  BY DEF RocksInv, StoreOK
<1>3. \A u \in Acts \ {t} : act'[u] = act[u]
  BY DEF RocksInv, TypeOK
<1>4. QED
  BY <1>1, <1>2, <1>3, ActStep DEF ActOK

\* The action rests or looks for an output: it works on none.
LEMMA RestStep ==
  ASSUME RocksInv, NEW t \in Acts, NEW r \in ActRec, act' = [act EXCEPT ![t] = r],
         UNCHANGED <<entity, primary, parent, holds, mover, crashes>>,
         byBasket' \in SUBSET Outs, byStatus' \in SUBSET (Outs \X Status),
         tail' \in Acts \cup {None}, tail' = tail \/ tail \in {t, None},
         r.pc \in {"idle", "picked", "read", "checked", "failed"}, r.todo = {},
         r.pc \in {"picked", "read", "checked"} => r.out \in Change,
         r.pc = "checked" => r.out \in Pure
  PROVE  RocksInv'
<1>1. act'[t] = r
  BY DEF RocksInv, TypeOK
<1>2. \A o \in Outs : ~Works(t, o)' /\ ~Before(t, o)'
  BY <1>1 DEF Works, Before, Within, MidPcs
<1>3. AllocFits(t)' /\ ScopeOK(t)'
  BY <1>1 DEF AllocFits, ScopeOK, UpdatePcs
<1>4. OwnerOK(t)'
  BY <1>2 DEF OwnerOK
<1>5. RowsOK(t)'
  BY <1>1, <1>2 DEF RowsOK, MidPcs
<1>6. HoldsOK(t)'
  BY <1>2 DEF RocksInv, TypeOK, ActOK, HoldsOK
<1>7. QED
  BY <1>3, <1>4, <1>5, <1>6, SilentStep

\* updateOutput goes on, without a write to a row.
LEMMA AdvanceStep ==
  ASSUME RocksInv, NEW t \in Acts, NEW r \in ActRec, act' = [act EXCEPT ![t] = r],
         UNCHANGED <<entity, primary, parent, holds, mover, tail, crashes>>,
         byBasket' \in SUBSET Outs, byStatus' \in SUBSET (Outs \X Status),
         act[t].pc \in MidPcs \cup {"index"}, r.pc \in UpdatePcs \ {"put", "find"},
         r.kind = act[t].kind, r.out = act[t].out, r.todo = act[t].todo, r.usable = act[t].usable,
         IF r.pc \in MidPcs THEN act[t].pc \in MidPcs /\ r.row = NewRow(t, r.kind)
                            ELSE r.kind \in {"release", "fail"}
  PROVE  RocksInv'
<1> USE DEF RocksInv, ActOK
<1>1. act'[t] = r
  BY DEF TypeOK
<1>2. \A o \in Outs : (Before(t, o)' <=> Before(t, o)) /\ (Works(t, o)' => Works(t, o))
  BY <1>1 DEF Works, Before, Within, MidPcs, UpdatePcs
<1>3. AllocFits(t)' /\ ScopeOK(t)'
  BY <1>1 DEF AllocFits, ScopeOK, MidPcs, UpdatePcs
<1>4. OwnerOK(t)'
  BY <1>2 DEF OwnerOK
<1>5. RowsOK(t)'
  BY <1>1, <1>2 DEF RowsOK, MidPcs, UpdatePcs
<1>6. HoldsOK(t)'
  BY <1>2 DEF TypeOK, HoldsOK
<1>7. tail' \in Acts \cup {None}
  BY DEF TypeOK
<1>8. QED
  BY <1>3, <1>4, <1>5, <1>6, <1>7, SilentStep

-----------------------------------------------------------------------------
(* allocateChangeInput.                                                    *)

LEMMA PickStep ==
  ASSUME RocksInv, NEW t \in Acts, NEW o \in Outs, NEW s \in Status, Pick(t, o, s)
  PROVE  RocksInv'
<1> DEFINE r == [act[t] EXCEPT !.pc = "picked", !.out = o, !.status = s]
<1>1. act[t] \in ActRec /\ act[t].todo = {}
  BY DEF RocksInv, TypeOK, ActRec, ActOK, AllocFits, Pick
<1>2. r \in ActRec /\ r.pc = "picked" /\ r.out = o /\ r.todo = {}
  BY <1>1 DEF ActRec, Pcs
<1>3. /\ act' = [act EXCEPT ![t] = r] /\ o \in Change
      /\ UNCHANGED <<entity, primary, parent, holds, mover, crashes, byBasket, byStatus, tail>>
  BY DEF Pick, Become, index
<1> HIDE DEF r
<1>4. QED
  BY <1>2, <1>3, RestStep DEF RocksInv, TypeOK

LEMMA ReadPrimaryStep ==
  ASSUME RocksInv, NEW t \in Acts, ReadPrimary(t)
  PROVE  RocksInv'
<1> DEFINE o == act[t].out
           r == IF primary[o].spendable
                THEN [act[t] EXCEPT !.pc = "read", !.version = primary[o].version] ELSE Idle
<1>1. act[t] \in ActRec /\ act[t].todo = {} /\ o \in Change /\ primary[o].version \in Nat
  BY DEF RocksInv, TypeOK, ActRec, ActOK, AllocFits, ReadPrimary, Outs
<1>2. /\ r \in ActRec /\ r.pc \in {"idle", "read"} /\ r.todo = {}
      /\ r.pc = "read" => r.out \in Change
  BY <1>1, IdleFacts DEF ActRec, Pcs
<1>3. /\ act' = [act EXCEPT ![t] = r]
      /\ UNCHANGED <<entity, primary, parent, holds, mover, crashes, byBasket, byStatus, tail>>
  BY DEF ReadPrimary, Become, index
<1> HIDE DEF r, o
<1>4. QED
  BY <1>2, <1>3, RestStep DEF RocksInv, TypeOK

\* An output of a transaction that is kept back is turned away here.
LEMMA CheckStatusStep ==
  ASSUME RocksInv, NEW t \in Acts, CheckStatus(t)
  PROVE  RocksInv'
<1> DEFINE r == IF parent[act[t].out] \in Accepted THEN [act[t] EXCEPT !.pc = "checked"] ELSE Idle
<1>1. act[t] \in ActRec /\ act[t].todo = {} /\ act[t].out \in Change
  BY DEF RocksInv, TypeOK, ActRec, ActOK, AllocFits, CheckStatus
<1>2. parent[act[t].out] \in Accepted => act[t].out \in Pure
  BY <1>1 DEF RocksInv, StoreOK, Pure, Accepted
<1>3. /\ r \in ActRec /\ r.pc \in {"idle", "checked"} /\ r.todo = {}
      /\ r.pc = "checked" => r.out \in Pure
  BY <1>1, <1>2, IdleFacts DEF ActRec, Pcs
<1>4. /\ act' = [act EXCEPT ![t] = r]
      /\ UNCHANGED <<entity, primary, parent, holds, mover, crashes, byBasket, byStatus, tail>>
  BY DEF CheckStatus, Goto, Become, index
<1> HIDE DEF r
<1>5. QED
  BY <1>3, <1>4, RestStep DEF RocksInv, TypeOK, Pure

\* An output that is still spendable is nobody's: giving it back writes the
\* primary record last.
LEMMA TryReserveStep ==
  ASSUME RocksInv, NEW t \in Acts, TryReserve(t)
  PROVE  RocksInv'
<1> USE DEF RocksInv, ActOK
<1> DEFINE o == act[t].out
<1>1. /\ o \in Pure /\ o \in Outs /\ act[t].todo = {} /\ act' = [act EXCEPT ![t] = Idle]
      /\ UNCHANGED <<parent, mover, crashes, tail>>
  BY DEF AllocFits, TryReserve, Become, Pure, Outs
<1>2. CASE ~Reservable(t)
  <2>1. UNCHANGED <<entity, primary, holds, byBasket, byStatus>>
    BY <1>2 DEF TryReserve, index
  <2>2. QED
    BY <1>1, <2>1, IdleFacts, RestStep DEF TypeOK
<1>3. CASE Reservable(t)
  <2> DEFINE p == [spendable |-> FALSE, spentBy |-> t, version |-> primary[o].version + 1]
  <2>1. /\ entity' = [entity EXCEPT ![o] = TakenBy(t)]
        /\ primary' = [primary EXCEPT ![o] = p]
        /\ byBasket' = byBasket \ {o}
        /\ byStatus' = byStatus \ {<<o, act[t].status>>}
        /\ holds' = [holds EXCEPT ![t] = @ \cup {o}]
    BY <1>3 DEF TryReserve
  <2>2. p \in [spendable: BOOLEAN, spentBy: Acts \cup {None}, version: Nat]
        /\ p.spendable = FALSE /\ p.spentBy = t
    BY <1>1 DEF TypeOK
  <2>3. primary[o].spendable /\ primary[o].spentBy = None
    BY <1>1, <1>3 DEF Reservable, TypeOK
  <2>4. \A u \in Acts : ~Mine(u, o)
    BY <1>1, <2>3, OutputsAssumption DEF Mine, OwnerOK, HoldsOK
  <2> HIDE DEF o, p
  <2>5. TypeOK'
    BY <1>1, <2>1, <2>2, RowFacts, IdleFacts, OutputsAssumption DEF TypeOK, ActRec
  <2>6. StoreOK'
    BY <1>1, <2>1, <2>2, RowFacts DEF StoreOK, TypeOK, Pure
  <2>7. \A x \in Outs : ~Works(t, x)' /\ ~Before(t, x)'
    BY <1>1, IdleFacts DEF Works, Before, Within, MidPcs, TypeOK
  <2>8. AllocFits(t)' /\ ScopeOK(t)' /\ OwnerOK(t)' /\ RowsOK(t)'
    BY <1>1, <2>7, IdleFacts DEF AllocFits, ScopeOK, OwnerOK, RowsOK, UpdatePcs, MidPcs, TypeOK
  <2>9. HoldsOK(t)'
    BY <1>1, <2>1, <2>2, <2>7, RowFacts DEF HoldsOK, TypeOK
  <2>10. QED
    BY <1>1, <2>1, <2>4, <2>5, <2>6, <2>8, <2>9, ActStep DEF TypeOK
<1>4. QED
  BY <1>2, <1>3

-----------------------------------------------------------------------------
(* The callers of updateOutput.                                            *)

\* An output that is given back is not held any more.
LEMMA ReleasedStep ==
  ASSUME RocksInv, NEW t \in Acts, NEW o \in Outs, Release(t, o)
  PROVE  RocksInv'
<1> USE DEF RocksInv, ActOK
<1> DEFINE r == [act[t] EXCEPT !.pc = "put", !.kind = "release", !.out = o]
<1>1. /\ act[t] \in ActRec /\ act[t].todo = {} /\ o \in Pure /\ o \in holds[t]
      /\ holds' = [holds EXCEPT ![t] = @ \ {o}]
      /\ act' = [act EXCEPT ![t] = r]
      /\ UNCHANGED <<entity, primary, parent, mover, crashes, byBasket, byStatus, tail>>
  BY DEF TypeOK, ActRec, AllocFits, Release, BeginUpdate, Become, index, Pure
<1>2. r \in ActRec /\ r.pc = "put" /\ r.kind = "release" /\ r.out = o /\ r.todo = {}
  BY <1>1 DEF ActRec, Pcs, UpdatePcs, Kinds
<1> HIDE DEF r
<1>3. act'[t] = r /\ holds'[t] = holds[t] \ {o}
  BY <1>1 DEF TypeOK
<1>4. \A x \in Outs : (Works(t, x)' <=> x = o) /\ (Before(t, x)' <=> x = o)
  BY <1>2, <1>3 DEF Works, Before, Within, MidPcs
<1>5. TypeOK'
  BY <1>1, <1>2 DEF TypeOK, ActRec
<1>6. StoreOK'
  BY <1>1 DEF StoreOK
<1>7. AllocFits(t)' /\ ScopeOK(t)'
  BY <1>1, <1>2, <1>3 DEF AllocFits, ScopeOK, UpdatePcs, ScopeKinds
<1>8. OwnerOK(t)' /\ RowsOK(t)'
  BY <1>1, <1>2, <1>3, <1>4 DEF OwnerOK, RowsOK, HoldsOK, Pure, MidPcs
<1>9. HoldsOK(t)'
  BY <1>1, <1>3, <1>4 DEF HoldsOK, TypeOK
<1>10. QED
  BY <1>1, <1>5, <1>6, <1>7, <1>8, <1>9, ActStep DEF TypeOK

\* validateNoSendChange: a usable output is not held by anybody.
LEMMA ValidateNoSendChangeStep ==
  ASSUME RocksInv, NEW t \in Acts, NEW o \in Outs, ValidateNoSendChange(t, o)
  PROVE  RocksInv'
<1> USE DEF RocksInv, ActOK
<1> DEFINE r == [act[t] EXCEPT !.pc = "validated", !.out = o]
<1>1. /\ act[t] \in ActRec /\ act[t].todo = {} /\ o \in NoSendOuts /\ t \in NoSendActs /\ entity[o] = Free
      /\ act' = [act EXCEPT ![t] = r]
      /\ UNCHANGED <<entity, primary, parent, holds, mover, crashes, byBasket, byStatus, tail>>
  BY DEF TypeOK, ActRec, AllocFits, ValidateNoSendChange, Become, index
<1>2. r \in ActRec /\ r.pc = "validated" /\ r.out = o /\ r.todo = {}
  BY <1>1 DEF ActRec, Pcs
<1> HIDE DEF r
<1>3. act'[t] = r
  BY <1>1 DEF TypeOK
<1>4. \A x \in Outs : (Works(t, x)' <=> x = o) /\ (Before(t, x)' <=> x = o)
  BY <1>2, <1>3 DEF Works, Before, Within, MidPcs
<1>5. AllocFits(t)' /\ ScopeOK(t)'
  BY <1>1, <1>2, <1>3 DEF AllocFits, ScopeOK, UpdatePcs
<1>6. OwnerOK(t)' /\ RowsOK(t)'
  BY <1>1, <1>2, <1>3, <1>4 DEF OwnerOK, RowsOK, Pure, MidPcs
<1>7. HoldsOK(t)'
  BY <1>1, <1>3, <1>4, RowFacts DEF HoldsOK, TypeOK
<1>8. QED
  BY <1>1, <1>2, <1>5, <1>6, <1>7, SilentStep DEF TypeOK

LEMMA AllocateNoSendChangeStep ==
  ASSUME RocksInv, NEW t \in Acts, AllocateNoSendChange(t)
  PROVE  RocksInv'
<1> USE DEF RocksInv, ActOK
<1> DEFINE o == act[t].out
           r == [act[t] EXCEPT !.pc = "put", !.kind = "nosend", !.out = o]
<1>1. /\ act[t] \in ActRec /\ act[t].pc = "validated" /\ act[t].todo = {}
      /\ o \in Outs /\ o \in NoSendOuts /\ t \in NoSendActs
      /\ act' = [act EXCEPT ![t] = r]
      /\ UNCHANGED <<entity, primary, parent, holds, mover, crashes, byBasket, byStatus, tail>>
  BY OutputsAssumption DEF TypeOK, ActRec, AllocFits, AllocateNoSendChange, BeginUpdate, Become, index, Outs
<1>2. r \in ActRec /\ r.pc = "put" /\ r.kind = "nosend" /\ r.out = o /\ r.todo = {}
  BY <1>1 DEF ActRec, Pcs, UpdatePcs, Kinds
<1>3. Before(t, o) /\ entity[o] = Free
  BY <1>1 DEF Before, RowsOK
<1> HIDE DEF r
<1>4. act'[t] = r
  BY <1>1 DEF TypeOK
<1>5. \A x \in Outs : (Works(t, x)' <=> x = o) /\ (Before(t, x)' <=> x = o)
  BY <1>2, <1>4 DEF Works, Before, Within, MidPcs
<1>6. AllocFits(t)' /\ ScopeOK(t)'
  BY <1>1, <1>2, <1>4 DEF AllocFits, ScopeOK, UpdatePcs, ScopeKinds
<1>7. OwnerOK(t)' /\ RowsOK(t)'
  BY <1>1, <1>2, <1>3, <1>4, <1>5 DEF OwnerOK, RowsOK, Pure, MidPcs
<1>8. HoldsOK(t)'
  BY <1>1, <1>3, <1>5, RowFacts DEF HoldsOK, TypeOK
<1>9. QED
  BY <1>1, <1>2, <1>6, <1>7, <1>8, SilentStep DEF TypeOK

\* A scope begins: what it will update is listed, in one step, from the entities.
\* Nobody else works on a known output while the tail is free.
LEMMA MarkKnownInputsStep ==
  ASSUME RocksInv, NEW t \in Acts, NEW K \in SUBSET Known, MarkKnownInputs(t, K)
  PROVE  RocksInv'
<1> USE DEF RocksInv, ActOK
<1> DEFINE U == {o \in K : entity[o] = Free}
           r == [act[t] EXCEPT !.pc = "next", !.kind = "known", !.todo = K, !.usable = U]
<1>1. /\ act[t] \in ActRec /\ tail = None /\ tail' = t
      /\ act' = [act EXCEPT ![t] = r]
      /\ UNCHANGED <<entity, primary, parent, holds, mover, crashes, byBasket, byStatus>>
  BY DEF TypeOK, ActRec, MarkKnownInputs, TailFree, Become, index
<1>2. K \subseteq Outs /\ U \subseteq Outs /\ \A o \in K : o \notin Pure /\ o \notin NoSendOuts
  BY OutputsAssumption DEF Outs, Pure
<1>3. r \in ActRec /\ r.pc = "next" /\ r.kind = "known" /\ r.todo = K /\ r.usable = U
  BY <1>1, <1>2 DEF ActRec, Pcs, Kinds
<1> HIDE DEF r
<1>4. act'[t] = r
  BY <1>1 DEF TypeOK
<1>5. \A x \in Outs : (Works(t, x)' <=> x \in U) /\ (Before(t, x)' <=> x \in U)
  BY <1>3, <1>4 DEF Works, Before, Within, MidPcs, UpdatePcs
<1>6. AllocFits(t)' /\ ScopeOK(t)'
  BY <1>1, <1>3, <1>4 DEF AllocFits, ScopeOK, UpdatePcs, ScopeKinds
<1>7. OwnerOK(t)' /\ RowsOK(t)'
  BY <1>1, <1>2, <1>3, <1>4, <1>5 DEF OwnerOK, RowsOK, MidPcs
<1>8. HoldsOK(t)'
  BY <1>1, <1>5, RowFacts DEF HoldsOK, TypeOK
<1>9. QED
  BY <1>1, <1>3, <1>6, <1>7, <1>8, SilentStep DEF TypeOK

\* updateTransactionStatus('failed') works on what the entities show as spent by t.
LEMMA FailStep ==
  ASSUME RocksInv, NEW t \in Acts, Fail(t)
  PROVE  RocksInv'
<1> USE DEF RocksInv, ActOK
<1> DEFINE O == {o \in Outs : entity[o].spentBy = t}
           r == [act[t] EXCEPT !.pc = "next", !.kind = "fail", !.todo = O, !.usable = O]
<1>1. /\ act[t] \in ActRec /\ tail = None /\ tail' = t
      /\ act' = [act EXCEPT ![t] = r] /\ holds' = [holds EXCEPT ![t] = {}]
      /\ UNCHANGED <<entity, primary, parent, mover, crashes, byBasket, byStatus>>
  BY DEF TypeOK, ActRec, Fail, TailFree, Become, index
<1>2. \A o \in O : entity[o] = TakenBy(t)
  BY RowFacts, OutputsAssumption DEF TypeOK
<1>3. r \in ActRec /\ r.pc = "next" /\ r.kind = "fail" /\ r.todo = O /\ r.usable = O
  BY <1>1 DEF ActRec, Pcs, Kinds
<1> HIDE DEF r
<1>4. act'[t] = r /\ holds'[t] = {}
  BY <1>1 DEF TypeOK
<1>5. \A x \in Outs : (Works(t, x)' <=> x \in O) /\ (Before(t, x)' <=> x \in O)
  BY <1>3, <1>4 DEF Works, Before, Within, MidPcs, UpdatePcs
<1>6. TypeOK'
  BY <1>1, <1>3 DEF TypeOK, ActRec
<1>7. StoreOK'
  BY <1>1 DEF StoreOK
<1>8. AllocFits(t)' /\ ScopeOK(t)' /\ HoldsOK(t)'
  BY <1>1, <1>3, <1>4 DEF AllocFits, ScopeOK, HoldsOK, UpdatePcs, ScopeKinds
<1>9. OwnerOK(t)'
  <2>1. \A o \in O : (o \in NoSendOuts => t \in NoSendActs) /\ (o \in Pure => primary[o].spentBy = t)
    BY <1>2, RowFacts, OutputsAssumption DEF StoreOK
  <2>2. QED
    BY <1>1, <1>5, <2>1 DEF OwnerOK
<1>10. RowsOK(t)'
  BY <1>1, <1>2, <1>3, <1>4, <1>5 DEF RowsOK, MidPcs
<1>11. QED
  BY <1>1, <1>6, <1>7, <1>8, <1>9, <1>10, ActStep DEF TypeOK

\* The next output of a scope, or the exception that ends it.
LEMMA NextOutputStep ==
  ASSUME RocksInv, NEW t \in Acts, NEW o \in Outs, NextOutput(t, o)
  PROVE  RocksInv'
<1> USE DEF RocksInv, ActOK
<1>1. act[t] \in ActRec /\ act[t].pc = "next" /\ o \in act[t].todo /\ tail = t
      /\ UNCHANGED <<entity, primary, parent, holds, mover, crashes, byBasket, byStatus>>
  BY DEF TypeOK, ActRec, ScopeOK, NextOutput, index
<1>2. CASE o \notin act[t].usable
  <2>1. act' = [act EXCEPT ![t] = Idle] /\ tail' = None
    BY <1>2 DEF NextOutput, Become
  <2>2. QED
    BY <1>1, <2>1, IdleFacts, RestStep DEF TypeOK
<1>3. CASE o \in act[t].usable
  <2> DEFINE r == [act[t] EXCEPT !.pc = "put", !.out = o, !.todo = @ \ {o}]
  <2>1. act' = [act EXCEPT ![t] = r] /\ tail' = tail
    BY <1>3 DEF NextOutput, Become
  <2>2. /\ r \in ActRec /\ r.pc = "put" /\ r.kind = act[t].kind /\ r.out = o
        /\ r.todo = act[t].todo \ {o} /\ r.usable = act[t].usable
    BY <1>1 DEF ActRec, Pcs, UpdatePcs
  <2> HIDE DEF r
  <2>3. act'[t] = r
    BY <2>1 DEF TypeOK
  <2>4. act[t].kind \in ScopeKinds /\ (act[t].kind = "known" => o \in Known)
    BY <1>1 DEF AllocFits
  <2>5. \A x \in Outs : /\ Before(t, x)' <=> Before(t, x)
                        /\ Works(t, x)' <=> Works(t, x)
    BY <1>1, <1>3, <2>2, <2>3 DEF Works, Before, Within, MidPcs, UpdatePcs
  <2>6. AllocFits(t)' /\ ScopeOK(t)'
    BY <1>1, <2>1, <2>2, <2>3, <2>4 DEF AllocFits, ScopeOK, UpdatePcs, ScopeKinds
  <2>7. OwnerOK(t)' /\ HoldsOK(t)'
    BY <1>1, <2>5 DEF OwnerOK, HoldsOK, TypeOK
  <2>8. RowsOK(t)'
    BY <1>1, <2>2, <2>3, <2>5 DEF RowsOK, MidPcs
  <2>9. QED
    BY <1>1, <2>1, <2>2, <2>6, <2>7, <2>8, SilentStep DEF TypeOK
<1>4. QED
  BY <1>2, <1>3

LEMMA EndScopeStep ==
  ASSUME RocksInv, NEW t \in Acts, EndScope(t)
  PROVE  RocksInv'
<1> DEFINE r == [Idle EXCEPT !.pc = IF act[t].kind = "fail" THEN "failed" ELSE "idle"]
<1>1. r \in ActRec /\ r.pc \in {"idle", "failed"} /\ r.todo = {}
  BY IdleFacts DEF ActRec, Pcs
<1>2. tail = t
  BY DEF RocksInv, ActOK, ScopeOK, EndScope
<1>3. /\ act' = [act EXCEPT ![t] = r] /\ tail' = None
      /\ UNCHANGED <<entity, primary, parent, holds, mover, crashes, byBasket, byStatus>>
  BY DEF EndScope, Become, index
<1> HIDE DEF r
<1>4. QED
  BY <1>1, <1>2, <1>3, RestStep DEF RocksInv, TypeOK

-----------------------------------------------------------------------------
(* updateOutput.                                                           *)

\* The entity is written; the action is the only one that works on the output.
LEMMA PutEntityStep ==
  ASSUME RocksInv, NEW t \in Acts, PutEntity(t)
  PROVE  RocksInv'
<1> USE DEF RocksInv, ActOK
<1> DEFINE o == act[t].out
           k == act[t].kind
           n == NewRow(t, k)
           r == [act[t] EXCEPT !.pc = "find"]
<1>1. /\ act[t] \in ActRec /\ act[t].pc = "put" /\ o \in Outs /\ k \in Kinds /\ o \notin act[t].todo
      /\ entity' = [entity EXCEPT ![o] = n] /\ act' = [act EXCEPT ![t] = r]
      /\ UNCHANGED <<primary, parent, holds, mover, tail, crashes, byBasket, byStatus>>
  BY DEF TypeOK, ActRec, AllocFits, UpdatePcs, PutEntity, Goto, Become, index
<1>2. /\ r \in ActRec /\ r.pc = "find" /\ r.kind = k /\ r.out = o
      /\ r.todo = act[t].todo /\ r.usable = act[t].usable
  BY <1>1 DEF ActRec, Pcs, UpdatePcs
<1>3. n \in Row /\ n \in {Free, TakenBy(t)} /\ (k \in {"release", "fail"} => n = Free)
  BY RowFacts DEF NewRow
<1>4. Before(t, o) /\ Works(t, o) /\ Mine(t, o)
  BY <1>1 DEF Before, Works, Mine
<1>5. k \in {"nosend", "known"} => o \notin Pure
  BY <1>1, OutputsAssumption DEF AllocFits, UpdatePcs, Pure
<1>6. o \in NoSendOuts => t \in NoSendActs
  BY <1>1, <1>4 DEF OwnerOK
<1>7. \A u \in Acts \ {t} : ~Mine(u, o)
  BY <1>1, <1>4, Exclusive
<1> HIDE DEF r, n, o, k
<1>8. act'[t] = r /\ entity'[o] = n /\ \A x \in Outs \ {o} : entity'[x] = entity[x]
  BY <1>1 DEF TypeOK
<1>9. \A x \in Outs : /\ Before(t, x)' => Before(t, x) /\ x # o
                      /\ Works(t, x)' => Works(t, x)
                      /\ Works(t, x) => Works(t, x)'
  BY <1>1, <1>2, <1>8 DEF Works, Before, Within, MidPcs, UpdatePcs, o
<1>10. TypeOK'
  BY <1>1, <1>2, <1>3 DEF TypeOK, ActRec
<1>11. StoreOK'
  <2>1. \A x \in NoSendOuts : parent'[x] = "nosend" /\ entity'[x].spentBy \in NoSendActs \cup {None}
    BY <1>1, <1>3, <1>6, <1>8, RowFacts, OutputsAssumption DEF StoreOK, Outs
  <2>2. \A x \in Pure : entity'[x] # Free => primary'[x].spentBy = entity'[x].spentBy
    BY <1>1, <1>3, <1>5, <1>8 DEF StoreOK, Kinds, Pure, Outs
  <2>3. QED
    BY <1>1, <2>1, <2>2 DEF StoreOK
<1>12. AllocFits(t)' /\ ScopeOK(t)'
  BY <1>1, <1>2, <1>8 DEF AllocFits, ScopeOK, UpdatePcs, o, k
<1>13. OwnerOK(t)'
  BY <1>1, <1>9 DEF OwnerOK
<1>14. RowsOK(t)'
  BY <1>1, <1>2, <1>8, <1>9 DEF RowsOK, MidPcs, n, k
<1>15. HoldsOK(t)'
  BY <1>1, <1>4, <1>8, <1>9 DEF HoldsOK, TypeOK
<1>16. QED
  BY <1>1, <1>7, <1>8, <1>10, <1>11, <1>12, <1>13, <1>14, <1>15, ActStep DEF TypeOK

LEMMA FindOutputStep ==
  ASSUME RocksInv, NEW t \in Acts, FindOutput(t)
  PROVE  RocksInv'
<1> DEFINE r == [act[t] EXCEPT !.pc = "status", !.row = entity[act[t].out]]
<1>1. /\ act[t] \in ActRec /\ act[t].pc = "find" /\ act[t].out \in Outs
      /\ entity[act[t].out] = NewRow(t, act[t].kind) /\ entity[act[t].out] \in Row
  BY DEF RocksInv, TypeOK, ActRec, ActOK, AllocFits, RowsOK, MidPcs, UpdatePcs, FindOutput
<1>2. /\ r \in ActRec /\ r.pc = "status" /\ r.kind = act[t].kind /\ r.out = act[t].out
      /\ r.todo = act[t].todo /\ r.usable = act[t].usable /\ r.row = NewRow(t, r.kind)
  BY <1>1 DEF ActRec, Pcs, UpdatePcs
<1>3. /\ act' = [act EXCEPT ![t] = r]
      /\ UNCHANGED <<entity, primary, parent, holds, mover, crashes, byBasket, byStatus, tail>>
  BY DEF FindOutput, Become, index
<1> HIDE DEF r
<1>4. QED
  BY <1>1, <1>2, <1>3, AdvanceStep DEF RocksInv, TypeOK, MidPcs, UpdatePcs

LEMMA ReadStatusStep ==
  ASSUME RocksInv, NEW t \in Acts, ReadStatus(t)
  PROVE  RocksInv'
<1> DEFINE r == [act[t] EXCEPT !.pc = "existing", !.status = parent[act[t].out]]
<1>1. /\ act[t] \in ActRec /\ act[t].pc = "status" /\ parent[act[t].out] \in Status
      /\ act[t].row = NewRow(t, act[t].kind)
  BY DEF RocksInv, TypeOK, ActRec, ActOK, AllocFits, RowsOK, MidPcs, UpdatePcs, ReadStatus
<1>2. /\ r \in ActRec /\ r.pc = "existing" /\ r.kind = act[t].kind /\ r.out = act[t].out
      /\ r.todo = act[t].todo /\ r.usable = act[t].usable /\ r.row = NewRow(t, r.kind)
  BY <1>1 DEF ActRec, Pcs, UpdatePcs
<1>3. /\ act' = [act EXCEPT ![t] = r]
      /\ UNCHANGED <<entity, primary, parent, holds, mover, crashes, byBasket, byStatus, tail>>
  BY DEF ReadStatus, Become, index
<1> HIDE DEF r
<1>4. QED
  BY <1>1, <1>2, <1>3, AdvanceStep DEF RocksInv, TypeOK, MidPcs, UpdatePcs

LEMMA GetExistingStep ==
  ASSUME RocksInv, NEW t \in Acts, GetExisting(t)
  PROVE  RocksInv'
<1> DEFINE r == [act[t] EXCEPT !.pc = IF primary[act[t].out].spendable THEN "unindex" ELSE "version"]
<1>1. /\ act[t] \in ActRec /\ act[t].pc = "existing" /\ act[t].row = NewRow(t, act[t].kind)
  BY DEF RocksInv, TypeOK, ActRec, ActOK, RowsOK, MidPcs, GetExisting
<1>2. /\ r \in ActRec /\ r.pc \in {"unindex", "version"} /\ r.kind = act[t].kind /\ r.out = act[t].out
      /\ r.todo = act[t].todo /\ r.usable = act[t].usable /\ r.row = NewRow(t, r.kind)
  BY <1>1 DEF ActRec, Pcs, UpdatePcs
<1>3. /\ act' = [act EXCEPT ![t] = r]
      /\ UNCHANGED <<entity, primary, parent, holds, mover, crashes, byBasket, byStatus, tail>>
  BY DEF GetExisting, Goto, Become, index
<1> HIDE DEF r
<1>4. QED
  BY <1>1, <1>2, <1>3, AdvanceStep DEF RocksInv, TypeOK, MidPcs, UpdatePcs

LEMMA UnindexStep ==
  ASSUME RocksInv, NEW t \in Acts, Unindex(t) \/ UnindexStatus(t)
  PROVE  RocksInv'
<1> DEFINE r == [act[t] EXCEPT !.pc = IF act[t].pc = "unindex" THEN "unstatus" ELSE "version"]
<1>1. /\ act[t] \in ActRec /\ act[t].pc \in {"unindex", "unstatus"} /\ act[t].row = NewRow(t, act[t].kind)
  BY DEF RocksInv, TypeOK, ActRec, ActOK, RowsOK, MidPcs, Unindex, UnindexStatus
<1>2. /\ r \in ActRec /\ r.pc \in {"unstatus", "version"} /\ r.kind = act[t].kind /\ r.out = act[t].out
      /\ r.todo = act[t].todo /\ r.usable = act[t].usable /\ r.row = NewRow(t, r.kind)
  BY <1>1 DEF ActRec, Pcs, UpdatePcs
<1>3. /\ act' = [act EXCEPT ![t] = r]
      /\ UNCHANGED <<entity, primary, parent, holds, mover, crashes, tail>>
      /\ byBasket' \subseteq byBasket /\ byStatus' \subseteq byStatus
  BY DEF Unindex, UnindexStatus, Goto, Become
<1> HIDE DEF r
<1>4. QED
  BY <1>1, <1>2, <1>3, AdvanceStep DEF RocksInv, TypeOK, MidPcs, UpdatePcs

LEMMA ReadVersionStep ==
  ASSUME RocksInv, NEW t \in Acts, ReadVersion(t)
  PROVE  RocksInv'
<1> DEFINE r == [act[t] EXCEPT !.pc = "primary", !.version = primary[act[t].out].version]
<1>1. /\ act[t] \in ActRec /\ act[t].pc = "version" /\ primary[act[t].out].version \in Nat
      /\ act[t].row = NewRow(t, act[t].kind)
  BY DEF RocksInv, TypeOK, ActRec, ActOK, AllocFits, RowsOK, MidPcs, UpdatePcs, ReadVersion
<1>2. /\ r \in ActRec /\ r.pc = "primary" /\ r.kind = act[t].kind /\ r.out = act[t].out
      /\ r.todo = act[t].todo /\ r.usable = act[t].usable /\ r.row = NewRow(t, r.kind)
  BY <1>1 DEF ActRec, Pcs, UpdatePcs
<1>3. /\ act' = [act EXCEPT ![t] = r]
      /\ UNCHANGED <<entity, primary, parent, holds, mover, crashes, byBasket, byStatus, tail>>
  BY DEF ReadVersion, Become, index
<1> HIDE DEF r
<1>4. QED
  BY <1>1, <1>2, <1>3, AdvanceStep DEF RocksInv, TypeOK, MidPcs, UpdatePcs

LEMMA IndexStep ==
  ASSUME RocksInv, NEW t \in Acts, Index(t)
  PROVE  RocksInv'
<1> DEFINE r == [act[t] EXCEPT !.pc = "indexStatus"]
<1>1. /\ act[t] \in ActRec /\ act[t].pc = "index" /\ act[t].out \in Outs
      /\ act[t].kind \in {"release", "fail"}
  BY DEF RocksInv, TypeOK, ActRec, ActOK, AllocFits, UpdatePcs, Index
<1>2. /\ r \in ActRec /\ r.pc = "indexStatus" /\ r.kind = act[t].kind /\ r.out = act[t].out
      /\ r.todo = act[t].todo /\ r.usable = act[t].usable
  BY <1>1 DEF ActRec, Pcs, UpdatePcs
<1>3. /\ act' = [act EXCEPT ![t] = r]
      /\ UNCHANGED <<entity, primary, parent, holds, mover, crashes, byStatus, tail>>
      /\ byBasket' \in SUBSET Outs /\ byStatus' \in SUBSET (Outs \X Status)
  BY <1>1 DEF Index, Goto, Become, RocksInv, TypeOK
<1> HIDE DEF r
<1>4. QED
  BY <1>1, <1>2, <1>3, AdvanceStep DEF MidPcs, UpdatePcs

\* Where updateOutput goes back to: the loop of a scope, or the caller.
Returned(t) ==
  IF act[t].kind \in {"known", "fail"}
  THEN [Idle EXCEPT !.pc = "next", !.kind = act[t].kind, !.todo = act[t].todo, !.usable = act[t].usable]
  ELSE Idle

LEMMA ReturnedFacts ==
  ASSUME RocksInv, NEW t \in Acts, act[t].pc \in {"primary", "indexStatus"}, act' = [act EXCEPT ![t] = Returned(t)],
         tail' = tail
  PROVE  /\ Returned(t) \in ActRec /\ act'[t] = Returned(t)
         /\ AllocFits(t)' /\ ScopeOK(t)'
         /\ \A x \in Outs : /\ Works(t, x)' <=> Before(t, x)'
                            /\ Before(t, x)' <=> Before(t, x)
         /\ act'[t].pc \in {"idle", "next"}
         /\ \A x : Before(t, x)' => act'[t].kind = act[t].kind
<1> USE DEF RocksInv, ActOK
<1>1. act[t] \in ActRec
  BY DEF TypeOK, ActRec
<1>2. CASE act[t].kind \in {"known", "fail"}
  <2> DEFINE r == [Idle EXCEPT !.pc = "next", !.kind = act[t].kind, !.todo = act[t].todo, !.usable = act[t].usable]
  <2>1. Returned(t) = r
    BY <1>2 DEF Returned
  <2>2. /\ r \in ActRec /\ r.pc = "next" /\ r.kind = act[t].kind
        /\ r.todo = act[t].todo /\ r.usable = act[t].usable
    BY <1>1, IdleFacts DEF ActRec, Pcs
  <2> HIDE DEF r
  <2>3. act'[t] = r
    BY <2>1 DEF TypeOK
  <2>4. AllocFits(t)'
    BY <1>2, <2>2, <2>3 DEF AllocFits, ScopeKinds, UpdatePcs
  <2>5. ScopeOK(t)'
    BY <1>2 DEF ScopeOK, ScopeKinds, UpdatePcs
  <2>6. \A x \in Outs : /\ Works(t, x)' <=> Before(t, x)'
                        /\ Before(t, x)' <=> Before(t, x)
    BY <2>2, <2>3 DEF Works, Before, Within, MidPcs
  <2>7. QED
    BY <2>1, <2>2, <2>3, <2>4, <2>5, <2>6
<1>3. CASE act[t].kind \notin {"known", "fail"}
  <2>1. act'[t] = Idle /\ Returned(t) = Idle /\ act[t].todo = {}
    BY <1>3 DEF Returned, TypeOK, AllocFits, ScopeKinds
  <2>2. AllocFits(t)' /\ ScopeOK(t)'
    BY <2>1, IdleFacts DEF AllocFits, ScopeOK, UpdatePcs
  <2>3. \A x : ~Works(t, x)' /\ ~Before(t, x)' /\ ~Before(t, x)
    BY <2>1, IdleFacts DEF Works, Before, Within, MidPcs
  <2>4. QED
    BY <2>1, <2>2, <2>3, IdleFacts
<1>4. QED
  BY <1>2, <1>3

\* The primary record is written last: what was taken is now held, what is given
\* back can be found.
LEMMA PutPrimaryStep ==
  ASSUME RocksInv, NEW t \in Acts, PutPrimary(t)
  PROVE  RocksInv'
<1> USE DEF RocksInv, ActOK
<1> DEFINE o == act[t].out
           k == act[t].kind
           p == [spendable |-> act[t].row.spendable, spentBy |-> act[t].row.spentBy,
                 version |-> act[t].version + 1]
<1>1. /\ act[t] \in ActRec /\ act[t].pc = "primary" /\ o \in Outs /\ k \in Kinds /\ o \notin act[t].todo
      /\ act[t].row = NewRow(t, k) /\ entity[o] = NewRow(t, k) /\ act[t].version \in Nat
      /\ primary' = [primary EXCEPT ![o] = p]
      /\ UNCHANGED <<entity, parent, mover, tail, crashes, byBasket, byStatus>>
  BY DEF TypeOK, ActRec, AllocFits, RowsOK, UpdatePcs, MidPcs, PutPrimary, index
<1>2. Works(t, o)
  BY <1>1 DEF Works, Within, MidPcs
<1>3. \A u \in Acts \ {t} : ~Mine(u, o)
  BY <1>1, <1>2, Exclusive DEF Mine
<1>4. k \in {"nosend", "known"} => o \notin Pure
  BY <1>1, OutputsAssumption DEF AllocFits, UpdatePcs, Pure
<1>5. p.version \in Nat /\ p.spendable = act[t].row.spendable /\ p.spentBy = act[t].row.spentBy
  BY <1>1
<1>6. p \in [spendable: BOOLEAN, spentBy: Acts \cup {None}, version: Nat]
      /\ (p.spendable <=> p.spentBy = None)
  <2>1. act[t].row = Free \/ act[t].row = TakenBy(t)
    BY <1>1 DEF NewRow
  <2>2. /\ act[t].row.spendable \in BOOLEAN /\ act[t].row.spentBy \in Acts \cup {None}
        /\ act[t].row.spendable <=> act[t].row.spentBy = None
    <3>1. CASE act[t].row = Free
      BY <3>1, RowFacts
    <3>2. CASE act[t].row = TakenBy(t)
      <4>1. act[t].row.spendable = FALSE /\ act[t].row.spentBy = t
        BY <3>2, RowFacts
      <4>2. t # None
        BY OutputsAssumption
      <4>3. QED
        BY <4>1, <4>2
    <3>3. QED
      BY <2>1, <3>1, <3>2
  <2>3. QED
    BY <1>5, <2>2
<1>7. \A x \in holds[t] : x # o
  BY <1>2 DEF HoldsOK
<1>8. ASSUME TypeOK', AllocFits(t)', ScopeOK(t)', HoldsOK(t)', RowsOK(t)',
             \A x \in Outs : Works(t, x)' => Works(t, x) /\ x # o,
             \A u \in Acts \ {t} : act'[u] = act[u] /\ holds'[u] = holds[u]
      PROVE  RocksInv'
  <2> HIDE DEF o, k, p
  <2>1. \A x \in Outs \ {o} : primary'[x] = primary[x]
    BY <1>1 DEF TypeOK
  <2>2. StoreOK'
    BY <1>1, <1>4, <2>1 DEF StoreOK, NewRow, Kinds, Pure, Outs
  <2>3. OwnerOK(t)'
    BY <1>8, <2>1 DEF OwnerOK
  <2>4. QED
    BY <1>1, <1>3, <1>8, <2>1, <2>2, <2>3, ActStep
<1>9. CASE k \in {"release", "fail"}
  <2> DEFINE r == [act[t] EXCEPT !.pc = "index"]
  <2>1. act[t].row.spendable /\ act' = [act EXCEPT ![t] = r] /\ holds' = holds
    BY <1>1, <1>9, RowFacts DEF NewRow, PutPrimary, Goto, Become
  <2>2. /\ r \in ActRec /\ r.pc = "index" /\ r.kind = k /\ r.out = o
        /\ r.todo = act[t].todo /\ r.usable = act[t].usable
    BY <1>1 DEF ActRec, Pcs, UpdatePcs
  <2> HIDE DEF r, o, k, p
  <2>3. act'[t] = r
    BY <2>1 DEF TypeOK
  <2>4. \A x \in Outs : /\ Works(t, x)' => Works(t, x) /\ x # o
                        /\ Before(t, x)' => Before(t, x)
    BY <1>1, <2>2, <2>3 DEF Works, Before, Within, MidPcs, UpdatePcs
  <2>5. TypeOK'
    BY <1>1, <1>6, <2>1, <2>2 DEF TypeOK, ActRec
  <2>6. AllocFits(t)' /\ ScopeOK(t)'
    BY <1>1, <1>9, <2>2, <2>3 DEF AllocFits, ScopeOK, UpdatePcs, o, k
  <2>7. RowsOK(t)'
    BY <1>1, <2>2, <2>3, <2>4 DEF RowsOK, MidPcs, k
  <2>8. HoldsOK(t)'
    BY <1>1, <1>7, <2>1, <2>4 DEF HoldsOK, TypeOK
  <2>9. QED
    BY <1>8, <2>1, <2>4, <2>5, <2>6, <2>7, <2>8 DEF TypeOK
<1>10. CASE k \in {"nosend", "known"}
  <2>1. /\ ~act[t].row.spendable /\ act' = [act EXCEPT ![t] = Returned(t)]
        /\ holds' = [holds EXCEPT ![t] = @ \cup {o}]
        /\ entity[o] = TakenBy(t) /\ p.spentBy = t /\ ~p.spendable
    BY <1>1, <1>5, <1>10, RowFacts DEF NewRow, PutPrimary, Return, Returned, Become
  <2>2. /\ Returned(t) \in ActRec /\ act'[t] = Returned(t)
        /\ AllocFits(t)' /\ ScopeOK(t)'
        /\ \A x \in Outs : /\ Works(t, x)' <=> Before(t, x)'
                           /\ Before(t, x)' <=> Before(t, x)
        /\ act'[t].pc \in {"idle", "next"}
        /\ \A x : Before(t, x)' => act'[t].kind = act[t].kind
    BY <1>1, <2>1, ReturnedFacts
  <2>3. \A x \in Outs : Before(t, x) => x # o /\ Works(t, x)
    BY <1>1 DEF Works, Before
  <2> HIDE DEF o, k, p
  <2>4. TypeOK'
    BY <1>1, <1>6, <2>1, <2>2 DEF TypeOK, ActRec
  <2>5. RowsOK(t)'
    BY <1>1, <2>2 DEF RowsOK, MidPcs
  <2>6. HoldsOK(t)'
    BY <1>1, <1>7, <2>1, <2>2, <2>3 DEF HoldsOK, TypeOK
  <2>7. QED
    BY <1>8, <2>1, <2>2, <2>3, <2>4, <2>5, <2>6 DEF TypeOK
<1>11. QED
  BY <1>1, <1>9, <1>10 DEF Kinds

LEMMA IndexStatusStep ==
  ASSUME RocksInv, NEW t \in Acts, IndexStatus(t)
  PROVE  RocksInv'
<1> USE DEF RocksInv, ActOK
<1>1. /\ act[t] \in ActRec /\ act[t].pc = "indexStatus" /\ act[t].out \in Outs
      /\ act[t].kind \in {"release", "fail"}
  BY DEF TypeOK, ActRec, AllocFits, UpdatePcs, IndexStatus
<1>2. /\ act' = [act EXCEPT ![t] = Returned(t)]
      /\ UNCHANGED <<entity, primary, parent, holds, mover, crashes, byBasket, tail>>
      /\ byStatus' \in SUBSET (Outs \X Status)
  BY <1>1 DEF IndexStatus, Return, Returned, Become, TypeOK, ActRec
<1>3. /\ Returned(t) \in ActRec /\ act'[t] = Returned(t)
      /\ AllocFits(t)' /\ ScopeOK(t)'
      /\ \A x \in Outs : /\ Works(t, x)' <=> Before(t, x)'
                         /\ Before(t, x)' <=> Before(t, x)
      /\ act'[t].pc \in {"idle", "next"}
      /\ \A x : Before(t, x)' => act'[t].kind = act[t].kind
  BY <1>1, <1>2, ReturnedFacts
<1>4. \A x \in Outs : Before(t, x) => Works(t, x)
  BY DEF Works
<1>5. OwnerOK(t)' /\ HoldsOK(t)'
  BY <1>2, <1>3, <1>4 DEF OwnerOK, HoldsOK, TypeOK
<1>6. RowsOK(t)'
  BY <1>1, <1>2, <1>3 DEF RowsOK, MidPcs
<1>7. QED
  BY <1>2, <1>3, <1>5, <1>6, SilentStep DEF TypeOK

-----------------------------------------------------------------------------
(* updateTransaction, and a restart.                                       *)

\* A status that moves touches no row; that of noSendChange never moves.
LEMMA MoveStep ==
  ASSUME RocksInv, Move
  PROVE  RocksInv'
<1> USE DEF RocksInv, ActOK
<1>1. /\ UNCHANGED <<entity, primary, holds, act, tail, crashes, byBasket>>
      /\ parent' \in [Outs -> Status] /\ \A o \in NoSendOuts : parent'[o] = parent[o]
      /\ mover' \in [pc: {"idle", "find", "unindex", "index"}, out: Outs \cup {None}, from: Status]
      /\ mover'.pc # "idle" => mover'.out \in Change
      /\ byStatus' \in SUBSET (Outs \X Status)
  <2>1. CASE \E o \in Outs, s \in Status : MoveStatus(o, s)
    <3> PICK o \in Outs, s \in Status : MoveStatus(o, s)
      BY <2>1
    <3>1. s \in Status /\ parent[o] \in Status /\ o \notin NoSendOuts
      BY DEF MoveStatus, Follows, TypeOK, StoreOK
    <3>2. QED
      BY <3>1 DEF MoveStatus, TypeOK, index
  <2>2. CASE MoveFind
    BY <2>2 DEF MoveFind, IdleMover, TypeOK, StoreOK, index, Status
  <2>3. CASE MoveUnindex
    BY <2>3 DEF MoveUnindex, TypeOK, StoreOK
  <2>4. CASE MoveIndex
    <3>1. mover.out \in Outs /\ parent[mover.out] \in Status
      BY <2>4 DEF MoveIndex, TypeOK, StoreOK, Outs
    <3>2. QED
      BY <2>4, <3>1 DEF MoveIndex, IdleMover, TypeOK, Status
  <2>5. QED
    BY <2>1, <2>2, <2>3, <2>4 DEF Move
<1>2. TypeOK' /\ StoreOK' /\ OneNoSend'
  BY <1>1, OutputsAssumption DEF TypeOK, StoreOK, OneNoSend
<1>3. \A t \in Acts : ActOK(t)'
  BY <1>1, OtherStep
<1>4. QED
  BY <1>2, <1>3

\* After a restart nobody works on an output; what was held still is.
LEMMA CrashStep ==
  ASSUME RocksInv, Crash
  PROVE  RocksInv'
<1> USE DEF RocksInv, ActOK
<1>1. /\ UNCHANGED <<entity, primary, parent, holds, byBasket, byStatus>> /\ tail' = None /\ mover' = IdleMover
      /\ crashes < MaxCrashes /\ crashes' = crashes + 1
      /\ act' = [t \in Acts |-> IF act[t].pc = "failed" THEN act[t] ELSE Idle]
  BY DEF Crash, index
<1>2. /\ IdleMover \in [pc: {"idle", "find", "unindex", "index"}, out: Outs \cup {None}, from: Status]
      /\ IdleMover.pc = "idle"
  BY DEF IdleMover, Status
<1>3. crashes' \in 0..MaxCrashes
  BY <1>1, OutputsAssumption DEF TypeOK
<1>4. act' \in [Acts -> ActRec]
  BY <1>1, IdleFacts DEF TypeOK, ActRec
<1>5. TypeOK' /\ StoreOK' /\ OneNoSend'
  BY <1>1, <1>2, <1>3, <1>4 DEF TypeOK, StoreOK, OneNoSend, ActRec
<1>6. ASSUME NEW t \in Acts PROVE ActOK(t)'
  <2>1. act'[t].pc \in {"idle", "failed"} /\ act'[t].todo = {}
    BY <1>1, IdleFacts DEF AllocFits
  <2>2. \A o : ~Works(t, o)' /\ ~Before(t, o)'
    BY <2>1 DEF Works, Before, Within, MidPcs
  <2>3. AllocFits(t)' /\ ScopeOK(t)'
    BY <2>1 DEF AllocFits, ScopeOK, UpdatePcs
  <2>4. OwnerOK(t)' /\ RowsOK(t)'
    BY <2>1, <2>2 DEF OwnerOK, RowsOK, MidPcs
  <2>5. HoldsOK(t)'
    BY <1>1, <2>2 DEF HoldsOK
  <2>6. QED
    BY <2>3, <2>4, <2>5
<1>7. QED
  BY <1>5, <1>6

-----------------------------------------------------------------------------
(* The specification.                                                      *)

LEMMA InitRocksInv == OneNoSend /\ Init => RocksInv
<1> SUFFICES ASSUME OneNoSend, Init PROVE RocksInv
  OBVIOUS
<1> USE DEF Init
<1>1. \A o \in Outs : parent[o] \in Status
  BY DEF Status
<1>2. TypeOK
  BY <1>1, RowFacts, IdleFacts, OutputsAssumption DEF TypeOK, ActRec, IdleMover, Status
<1>3. StoreOK
  BY RowFacts, OutputsAssumption DEF StoreOK, IdleMover, Outs, Pure
<1>4. ASSUME NEW t \in Acts PROVE ActOK(t)
  <2>1. \A o : ~Works(t, o) /\ ~Before(t, o)
    BY IdleFacts DEF Works, Before, Within, MidPcs
  <2>2. QED
    BY <2>1, IdleFacts DEF ActOK, AllocFits, ScopeOK, OwnerOK, RowsOK, HoldsOK, UpdatePcs, MidPcs
<1>5. QED
  BY <1>2, <1>3, <1>4 DEF RocksInv

LEMMA NextRocksInv == RocksInv /\ [Next]_vars => RocksInv'
<1> SUFFICES ASSUME RocksInv, [Next]_vars PROVE RocksInv'
  OBVIOUS
<1>1. ASSUME NEW t \in Acts, Reserve(t) PROVE RocksInv'
  BY <1>1, PickStep, ReadPrimaryStep, CheckStatusStep, TryReserveStep DEF Reserve
<1>2. ASSUME NEW t \in Acts, Call(t) PROVE RocksInv'
  BY <1>2, ReleasedStep, ValidateNoSendChangeStep, NextOutputStep, MarkKnownInputsStep,
     AllocateNoSendChangeStep, FailStep, EndScopeStep DEF Call
<1>3. ASSUME NEW t \in Acts, UpdateOutput(t) PROVE RocksInv'
  BY <1>3, PutEntityStep, FindOutputStep, ReadStatusStep, GetExistingStep, UnindexStep, ReadVersionStep,
     PutPrimaryStep, IndexStep, IndexStatusStep DEF UpdateOutput
<1>4. CASE UNCHANGED vars
  <2>1. TypeOK' /\ StoreOK' /\ OneNoSend'
    BY <1>4 DEF RocksInv, TypeOK, StoreOK, OneNoSend, vars, index
  <2>2. \A t \in Acts : ActOK(t)'
    BY <1>4, OtherStep DEF vars
  <2>3. QED
    BY <2>1, <2>2 DEF RocksInv
<1>5. QED
  BY <1>1, <1>2, <1>3, <1>4, MoveStep, CrashStep DEF Next

\* tryReserveSpendableOutput, updateOutput and their callers: an output that an
\* action counts as its input is allocated to that action in both copies, and so
\* to no other action, in any interleaving of their awaits and after restarts, if at
\* most one action uses noSend.
THEOREM AllocatedOnce == OneNoSend => (Spec => []HeldLocked)
<1>1. RocksInv => HeldLocked
  BY DEF RocksInv, ActOK, HoldsOK, HeldLocked
<1>2. OneNoSend => (Spec => []HeldLocked)
  BY <1>1, InitRocksInv, NextRocksInv, PTL DEF Spec
<1>3. QED
  BY <1>2

-----------------------------------------------------------------------------
(* An output that is free can be found, while no crash has cut a batch.    *)

GivingKinds == {"release", "fail"}
SeenPcs == {"existing", "unindex", "unstatus", "version", "primary", "index", "indexStatus"}
BusyPcs == MidPcs \cup {"index", "indexStatus"}

Agree(o) == primary[o].spendable = entity[o].spendable /\ primary[o].spentBy = entity[o].spentBy

\* t is about to make o an input, or to write keys of o.
Taking(t, o) == Within(t, o) /\ act[t].kind \notin GivingKinds
Indexing(t, o) == act[t].out = o /\ act[t].pc = "index"
Keying(t, o) == act[t].out = o /\ act[t].pc \in {"index", "indexStatus"}

\* A key is missing only while somebody is about to write it, or to take the output.
InBasket(o) == o \in byBasket \/ \E t \in Acts : Taking(t, o) \/ Indexing(t, o)
InStatus(o) == \/ \E s \in Accepted : <<o, s>> \in byStatus
               \/ \E t \in Acts : Taking(t, o) \/ Keying(t, o)
               \/ mover.pc = "index" /\ mover.out = o

\* The copies agree unless somebody has written only the first of them.
OutOK(o) ==
  /\ Agree(o) \/ \E t \in Acts : Within(t, o)
  /\ primary[o].spendable => InBasket(o)
  /\ primary[o].spendable /\ parent[o] \in Accepted => InStatus(o)

\* Between its two writes t finds the primary record as it was before the first;
\* it deletes keys only of what it takes; and the status it has read was accepted
\* if the present one is, because no transaction goes back to an accepted status.
LagOK(t) ==
  /\ act[t].pc \in MidPcs =>
       primary[act[t].out].spentBy = IF act[t].kind \in GivingKinds THEN t ELSE None
  /\ act[t].pc \in SeenPcs /\ parent[act[t].out] \in Accepted => act[t].status \in Accepted

KeysOK == (\A o \in Outs : OutOK(o)) /\ \A t \in Acts : LagOK(t)

\* The inductive invariant, with RocksInv.
FindInv == crashes = 0 => KeysOK

\* A step that leaves o alone.
LEMMA OutKept ==
  ASSUME NEW o \in Outs, OutOK(o), entity'[o] = entity[o], primary'[o] = primary[o],
         parent'[o] \in Accepted => parent[o] \in Accepted,
         o \in byBasket => o \in byBasket',
         \A s \in Accepted : <<o, s>> \in byStatus => <<o, s>> \in byStatus',
         mover.pc = "index" /\ mover.out = o => mover'.pc = "index" /\ mover'.out = o,
         \A u \in Acts : /\ Within(u, o) => Within(u, o)'
                         /\ Taking(u, o) => Taking(u, o)'
                         /\ Indexing(u, o) => Indexing(u, o)'
                         /\ Keying(u, o) => Keying(u, o)'
  PROVE  OutOK(o)'
<1>1. Agree(o)' \/ \E t \in Acts : Within(t, o)'
  BY DEF OutOK, Agree
<1>2. InBasket(o) => InBasket(o)'
  BY DEF InBasket
<1>3. InStatus(o) => InStatus(o)'
  BY DEF InStatus
<1>4. QED
  BY <1>1, <1>2, <1>3 DEF OutOK

LEMMA LagKept ==
  ASSUME NEW u \in Acts, LagOK(u), act'[u] = act[u],
         act[u].pc \in MidPcs => primary'[act[u].out] = primary[act[u].out],
         parent'[act[u].out] \in Accepted => parent[act[u].out] \in Accepted
  PROVE  LagOK(u)'
  BY DEF LagOK

\* A step of t that touches at most the output o, and stops working on no other one.
LEMMA OneOutput ==
  ASSUME KeysOK, NEW t \in Acts, NEW o \in Outs,
         \A u \in Acts \ {t} : act'[u] = act[u],
         \A x \in Outs \ {o} : /\ entity'[x] = entity[x] /\ primary'[x] = primary[x]
                               /\ x \in byBasket => x \in byBasket'
                               /\ \A s \in Accepted : <<x, s>> \in byStatus => <<x, s>> \in byStatus',
         parent' = parent, mover' = mover,
         act[t].pc \in BusyPcs => act[t].out = o,
         \A u \in Acts \ {t} : act[u].pc \in MidPcs => primary'[act[u].out] = primary[act[u].out],
         OutOK(o)', LagOK(t)'
  PROVE  KeysOK'
<1>1. ASSUME NEW x \in Outs \ {o} PROVE OutOK(x)'
  <2>1. ASSUME NEW u \in Acts
        PROVE  /\ Within(u, x) => Within(u, x)'
               /\ Taking(u, x) => Taking(u, x)'
               /\ Indexing(u, x) => Indexing(u, x)'
               /\ Keying(u, x) => Keying(u, x)'
    BY DEF Taking, Within, Indexing, Keying, BusyPcs
  <2>2. QED
    BY <2>1, OutKept DEF KeysOK
<1>2. ASSUME NEW u \in Acts \ {t} PROVE LagOK(u)'
  BY LagKept DEF KeysOK
<1>3. QED
  BY <1>1, <1>2 DEF KeysOK

\* A step of an action that does not work on an output, before or after.
LEMMA RestingStep ==
  ASSUME KeysOK, NEW t \in Acts, \A u \in Acts \ {t} : act'[u] = act[u],
         UNCHANGED <<entity, primary, byBasket, byStatus, parent, mover>>,
         act[t].pc \notin BusyPcs, act'[t].pc \notin BusyPcs
  PROVE  KeysOK'
<1>1. ASSUME NEW x \in Outs PROVE OutOK(x)'
  <2>1. ASSUME NEW u \in Acts
        PROVE  /\ Within(u, x) => Within(u, x)'
               /\ Taking(u, x) => Taking(u, x)'
               /\ Indexing(u, x) => Indexing(u, x)'
               /\ Keying(u, x) => Keying(u, x)'
    BY DEF Taking, Within, Indexing, Keying, BusyPcs
  <2>2. QED
    BY <2>1, OutKept DEF KeysOK
<1>2. ASSUME NEW u \in Acts \ {t} PROVE LagOK(u)'
  BY LagKept DEF KeysOK
<1>3. LagOK(t)'
  BY DEF LagOK, BusyPcs, MidPcs, SeenPcs
<1>4. QED
  BY <1>1, <1>2, <1>3 DEF KeysOK

\* A step of updateOutput that ends between the two writes.
LEMMA BetweenStep ==
  ASSUME RocksInv, TypeOK', KeysOK, NEW t \in Acts, \A u \in Acts \ {t} : act'[u] = act[u],
         act[t].pc \in MidPcs \cup {"put"}, act[t].out \in Outs,
         act'[t].pc \in MidPcs, act'[t].out = act[t].out, act'[t].kind = act[t].kind,
         UNCHANGED <<primary, parent, mover>>,
         \A x \in Outs \ {act[t].out} :
            /\ entity'[x] = entity[x]
            /\ x \in byBasket => x \in byBasket'
            /\ \A s \in Accepted : <<x, s>> \in byStatus => <<x, s>> \in byStatus',
         act[t].pc = "put" => /\ primary[act[t].out].spentBy = IF act[t].kind \in GivingKinds THEN t ELSE None
                              /\ act'[t].pc = "find",
         act'[t].pc \in SeenPcs => act'[t].status \in {act[t].status, parent[act[t].out]},
         act'[t].pc \in SeenPcs /\ act'[t].status # parent[act[t].out] => act[t].pc \in SeenPcs
  PROVE  KeysOK'
<1> PICK o \in Outs : o = act[t].out
  OBVIOUS
<1>1. LagOK(t)
  BY DEF KeysOK
<1>2. LagOK(t)'
  <2>1. primary'[o].spentBy = IF act'[t].kind \in GivingKinds THEN t ELSE None
    BY <1>1 DEF LagOK
  <2>2. act'[t].pc \in SeenPcs /\ parent'[o] \in Accepted => act'[t].status \in Accepted
    BY <1>1 DEF LagOK
  <2>3. QED
    BY <2>1, <2>2 DEF LagOK
\* Whoever is between the two writes accounts for all keys of the output.
<1>3. OutOK(o)'
  <2>1. Within(t, o)'
    BY DEF Within
  <2>2. primary'[o].spendable => act'[t].kind \notin GivingKinds
    BY <1>2, OutputsAssumption DEF TypeOK, LagOK
  <2>3. primary'[o].spendable => Taking(t, o)'
    BY <2>1, <2>2 DEF Taking
  <2>4. QED
    BY <2>1, <2>3 DEF OutOK, InBasket, InStatus
<1>4. QED
  BY <1>2, <1>3, OneOutput DEF BusyPcs, MidPcs

\* Steps of an action before updateOutput, and around it.
LEMMA QuietStep ==
  ASSUME RocksInv, KeysOK, NEW t \in Acts,
         \/ \E o \in Outs, s \in Status : Pick(t, o, s)
         \/ ReadPrimary(t) \/ CheckStatus(t)
         \/ TryReserve(t) /\ ~Reservable(t)
         \/ Call(t)
  PROVE  KeysOK'
<1>1. UNCHANGED <<entity, primary, byBasket, byStatus, parent, mover>> /\ act[t].pc \notin BusyPcs
  <2>1. CASE Call(t)
    BY <2>1 DEF Call, Release, ValidateNoSendChange, NextOutput, MarkKnownInputs, AllocateNoSendChange,
                Fail, EndScope, BusyPcs, MidPcs, index
  <2>2. CASE ~Call(t)
    BY <2>2 DEF Pick, ReadPrimary, CheckStatus, TryReserve, BusyPcs, MidPcs, index
  <2>3. QED
    BY <2>1, <2>2
<1>2. \A u \in Acts \ {t} : act'[u] = act[u]
  <2>1. CASE Call(t)
    BY <2>1 DEF Call, Release, ValidateNoSendChange, NextOutput, MarkKnownInputs, AllocateNoSendChange,
                Fail, EndScope, BeginUpdate, Become, RocksInv, TypeOK
  <2>2. CASE ~Call(t)
    BY <2>2 DEF Pick, ReadPrimary, CheckStatus, TryReserve, Goto, Become, RocksInv, TypeOK
  <2>3. QED
    BY <2>1, <2>2
<1>3. act'[t].pc \in {"idle", "picked", "read", "checked", "validated", "next", "put", "failed"}
  <2>1. act[t] \in ActRec /\ act \in [Acts -> ActRec]
    BY DEF RocksInv, TypeOK, ActRec
  <2>2. CASE Call(t)
    <3>1. CASE \E o \in Outs : Release(t, o) \/ ValidateNoSendChange(t, o) \/ NextOutput(t, o)
      <4> PICK o \in Outs : Release(t, o) \/ ValidateNoSendChange(t, o) \/ NextOutput(t, o)
        BY <3>1
      <4>1. CASE NextOutput(t, o)
        <5>1. CASE o \in act[t].usable
          <6>1. act' = [act EXCEPT ![t] = [act[t] EXCEPT !.pc = "put", !.out = o, !.todo = @ \ {o}]]
            BY <4>1, <5>1 DEF NextOutput, Become
          <6>2. QED
            BY <2>1, <6>1 DEF ActRec
        <5>2. CASE o \notin act[t].usable
          BY <2>1, <4>1, <5>2, IdleFacts DEF NextOutput, Become
        <5>3. QED
          BY <5>1, <5>2
      <4>2. CASE Release(t, o)
        BY <2>1, <4>2 DEF Release, BeginUpdate, Become, ActRec
      <4>3. CASE ValidateNoSendChange(t, o)
        BY <2>1, <4>3 DEF ValidateNoSendChange, Become, ActRec
      <4>4. QED
        BY <4>1, <4>2, <4>3
    <3>2. CASE \E K \in SUBSET Known : MarkKnownInputs(t, K)
      BY <2>1, <3>2 DEF MarkKnownInputs, Become, ActRec
    <3>3. CASE AllocateNoSendChange(t) \/ Fail(t)
      BY <2>1, <3>3 DEF AllocateNoSendChange, Fail, BeginUpdate, Become, ActRec
    <3>4. CASE EndScope(t)
      BY <2>1, <3>4, IdleFacts DEF EndScope, Become, ActRec
    <3>5. QED
      BY <2>2, <3>1, <3>2, <3>3, <3>4 DEF Call
  <2>3. CASE ~Call(t)
    <3>1. CASE \E o \in Outs, s \in Status : Pick(t, o, s)
      BY <2>1, <3>1 DEF Pick, Become, ActRec
    <3>2. CASE ReadPrimary(t)
      BY <2>1, <3>2, IdleFacts DEF ReadPrimary, Become, ActRec
    <3>3. CASE CheckStatus(t)
      BY <2>1, <3>3, IdleFacts DEF CheckStatus, Goto, Become, ActRec
    <3>4. CASE TryReserve(t)
      BY <2>1, <3>4, IdleFacts DEF TryReserve, Become, ActRec
    <3>5. QED
      BY <2>3, <3>1, <3>2, <3>3, <3>4
  <2>4. QED
    BY <2>2, <2>3
<1>4. act'[t].pc \notin BusyPcs
  BY <1>3 DEF BusyPcs, MidPcs
<1>5. QED
  BY <1>1, <1>2, <1>4, RestingStep

\* A reservation takes the output in both copies at once.
LEMMA ReserveKeys ==
  ASSUME RocksInv, KeysOK, NEW t \in Acts, TryReserve(t), Reservable(t)
  PROVE  KeysOK'
<1> USE DEF RocksInv, ActOK
<1> PICK o \in Outs : o = act[t].out /\ o \in Pure
  BY DEF AllocFits, TryReserve, Pure, Outs
<1>1. /\ act[t].pc = "checked" /\ act'[t] = Idle /\ \A u \in Acts \ {t} : act'[u] = act[u]
      /\ parent' = parent /\ mover' = mover
      /\ byBasket' = byBasket \ {o} /\ byStatus' = byStatus \ {<<o, act[t].status>>}
      /\ \A x \in Outs \ {o} : entity'[x] = entity[x] /\ primary'[x] = primary[x]
  BY DEF TryReserve, Become, TypeOK
<1>2. /\ entity'[o].spendable = FALSE /\ entity'[o].spentBy = t
      /\ primary'[o].spendable = FALSE /\ primary'[o].spentBy = t
  BY RowFacts DEF TryReserve, TypeOK
<1>3. ASSUME NEW u \in Acts, act[u].pc \in MidPcs PROVE act[u].out \in Outs \ {o}
  <2>1. primary[o].spentBy = None
    BY DEF Reservable, TypeOK
  <2>2. ~Works(u, o)
    BY <2>1, OutputsAssumption DEF OwnerOK
  <2>3. act[u].out \in Outs
    BY <1>3 DEF AllocFits, MidPcs, UpdatePcs
  <2>4. QED
    BY <1>3, <2>2, <2>3 DEF Works, Within
<1>4. OutOK(o)'
  BY <1>2 DEF OutOK, Agree
<1>5. LagOK(t)'
  BY <1>1, IdleFacts DEF LagOK, MidPcs, SeenPcs
<1>6. act[t].pc \notin BusyPcs
  BY <1>1 DEF BusyPcs, MidPcs
<1>7. QED
  BY <1>1, <1>3, <1>4, <1>5, <1>6, OneOutput

\* updateOutput up to the second write.
LEMMA UpdateKeys ==
  ASSUME RocksInv, RocksInv', KeysOK, NEW t \in Acts,
         \/ FindOutput(t) \/ ReadStatus(t) \/ GetExisting(t) \/ Unindex(t) \/ UnindexStatus(t) \/ ReadVersion(t)
  PROVE  KeysOK'
<1> USE DEF RocksInv, ActOK
<1>1. act[t] \in ActRec /\ act[t].pc \in MidPcs /\ act[t].out \in Outs
  BY DEF TypeOK, ActRec, AllocFits, UpdatePcs, MidPcs, FindOutput, ReadStatus, GetExisting, Unindex,
         UnindexStatus, ReadVersion
<1>2. UNCHANGED <<entity, primary, parent, mover>>
      /\ byBasket' \in {byBasket, byBasket \ {act[t].out}}
      /\ byStatus' \in {byStatus, byStatus \ {<<act[t].out, act[t].status>>}}
  BY DEF FindOutput, ReadStatus, GetExisting, Unindex, UnindexStatus, ReadVersion, index
<1>3. \A u \in Acts \ {t} : act'[u] = act[u]
  BY DEF FindOutput, ReadStatus, GetExisting, Unindex, UnindexStatus, ReadVersion, Goto, Become, TypeOK
<1>4. /\ act'[t].pc \in MidPcs /\ act'[t].out = act[t].out /\ act'[t].kind = act[t].kind
      /\ \/ act'[t].pc = "status"
         \/ act'[t].pc = "existing" /\ act'[t].status = parent[act[t].out]
         \/ act'[t].status = act[t].status /\ act[t].pc \in SeenPcs
  <2> act \in [Acts -> ActRec]
    BY DEF TypeOK, ActRec
  <2> HIDE DEF RocksInv, ActOK
  <2>1. CASE FindOutput(t)
    BY <1>1, <2>1 DEF FindOutput, Become, ActRec, MidPcs
  <2>2. CASE ReadStatus(t)
    BY <1>1, <2>2 DEF ReadStatus, Become, ActRec, MidPcs
  <2>3. CASE GetExisting(t)
    BY <1>1, <2>3 DEF GetExisting, Goto, Become, ActRec, MidPcs, SeenPcs
  <2>4. CASE Unindex(t) \/ UnindexStatus(t)
    BY <1>1, <2>4 DEF Unindex, UnindexStatus, Goto, Become, ActRec, MidPcs, SeenPcs
  <2>5. CASE ReadVersion(t)
    BY <1>1, <2>5 DEF ReadVersion, Become, ActRec, MidPcs, SeenPcs
  <2>6. QED
    BY <2>1, <2>2, <2>3, <2>4, <2>5
<1>5. "status" \notin SeenPcs /\ "put" \notin MidPcs
  BY DEF SeenPcs, MidPcs
<1>6. QED
  <2>1. \A x \in Outs \ {act[t].out} :
            /\ entity'[x] = entity[x]
            /\ x \in byBasket => x \in byBasket'
            /\ \A s \in Accepted : <<x, s>> \in byStatus => <<x, s>> \in byStatus'
    BY <1>2
  <2>2. act'[t].pc \in SeenPcs => act'[t].status \in {act[t].status, parent[act[t].out]}
    BY <1>4, <1>5
  <2>3. act'[t].pc \in SeenPcs /\ act'[t].status # parent[act[t].out] => act[t].pc \in SeenPcs
    BY <1>4, <1>5
  <2>4. TypeOK' /\ act[t].pc # "put"
    BY <1>1, <1>5
  <2> HIDE DEF RocksInv
  <2>5. QED
    BY <1>1, <1>2, <1>3, <1>4, <2>1, <2>2, <2>3, <2>4, BetweenStep

\* The entity is written first: until then both copies agreed.
LEMMA PutEntityKeys ==
  ASSUME RocksInv, RocksInv', KeysOK, NEW t \in Acts, PutEntity(t)
  PROVE  KeysOK'
<1> PICK o : o = act[t].out
  OBVIOUS
<1>1. /\ act \in [Acts -> ActRec] /\ act[t].pc = "put" /\ o \in Outs
      /\ primary[o].spentBy \in Acts \cup {None} /\ act[t].kind \in Kinds
  BY DEF RocksInv, TypeOK, ActRec, ActOK, AllocFits, UpdatePcs, PutEntity
<1>2. Mine(t, o) /\ Before(t, o)
  BY <1>1 DEF Mine, Works, Before
<1>3. \A u \in Acts : ~Within(u, o)
  <2>1. ~Within(t, o)
    BY <1>1 DEF Within, MidPcs
  <2>2. \A u \in Acts : Within(u, o) => u = t
    BY <1>1, <1>2, Exclusive DEF Mine, Works
  <2>3. QED
    BY <2>1, <2>2
<1>4. primary[o].spentBy = entity[o].spentBy
  BY <1>1, <1>3 DEF KeysOK, OutOK, Agree
<1>5. entity[o] = IF act[t].kind \in {"nosend", "known"} THEN Free ELSE TakenBy(t)
  BY <1>1, <1>2 DEF RocksInv, ActOK, RowsOK
<1>6. primary[o].spentBy = IF act[t].kind \in GivingKinds THEN t ELSE None
  <2>1. act[t].kind \in GivingKinds <=> act[t].kind \notin {"nosend", "known"}
    BY <1>1 DEF GivingKinds, Kinds
  <2>2. QED
    BY <1>4, <1>5, <2>1, RowFacts
<1>7. /\ \A u \in Acts \ {t} : act'[u] = act[u]
      /\ act'[t].pc = "find" /\ act'[t].out = o /\ act'[t].kind = act[t].kind
      /\ UNCHANGED <<primary, parent, mover, byBasket, byStatus>>
  BY <1>1 DEF PutEntity, Goto, Become, ActRec, index
<1>8. \A x \in Outs \ {o} : entity'[x] = entity[x]
  BY DEF PutEntity, RocksInv, TypeOK
<1>9. "find" \in MidPcs /\ "find" \notin SeenPcs
  BY DEF MidPcs, SeenPcs
<1>10. TypeOK'
  BY DEF RocksInv
<1>11. QED
  BY <1>1, <1>6, <1>7, <1>8, <1>9, <1>10, BetweenStep

\* The primary record is written second: both copies agree, and an output given
\* back has its keys written next.
LEMMA PutPrimaryKeys ==
  ASSUME RocksInv, KeysOK, NEW t \in Acts, PutPrimary(t)
  PROVE  KeysOK'
<1> PICK o : o = act[t].out
  OBVIOUS
<1>1. /\ act \in [Acts -> ActRec] /\ act[t].pc = "primary" /\ o \in Outs /\ act[t].kind \in Kinds
      /\ act[t].row = NewRow(t, act[t].kind) /\ entity[o] = NewRow(t, act[t].kind)
  BY DEF RocksInv, TypeOK, ActRec, ActOK, AllocFits, RowsOK, MidPcs, UpdatePcs, PutPrimary
<1>2. /\ UNCHANGED <<entity, byBasket, byStatus, parent, mover>>
      /\ \A x \in Outs \ {o} : primary'[x] = primary[x]
      /\ primary'[o].spendable = act[t].row.spendable /\ primary'[o].spentBy = act[t].row.spentBy
  BY <1>1 DEF PutPrimary, index, RocksInv, TypeOK
<1>3. \A u \in Acts \ {t} : act[u].pc \in MidPcs => act[u].out \in Outs \ {o}
  <2>1. ASSUME NEW u \in Acts, act[u].pc \in MidPcs PROVE act[u].out \in Outs
    BY <2>1 DEF RocksInv, ActOK, AllocFits, MidPcs, UpdatePcs
  <2>2. Mine(t, o)
    BY <1>1 DEF Mine, Works, Within, MidPcs
  <2>3. \A u \in Acts : Within(u, o) => u = t
    BY <1>1, <2>2, Exclusive DEF Mine, Works
  <2>4. QED
    BY <2>1, <2>3 DEF Within
<1>4. Agree(o)'
  BY <1>1, <1>2 DEF Agree
<1>5. act[t].pc \in BusyPcs
  BY <1>1 DEF BusyPcs, MidPcs
<1>6. CASE act[t].kind \in GivingKinds
  <2>1. act[t].row.spendable
    BY <1>1, <1>6, RowFacts DEF NewRow, GivingKinds
  <2>2. act' = [act EXCEPT ![t] = [act[t] EXCEPT !.pc = "index"]]
    BY <2>1 DEF PutPrimary, Goto, Become
  <2>3. /\ \A u \in Acts \ {t} : act'[u] = act[u]
        /\ act'[t].pc = "index" /\ act'[t].out = o /\ act'[t].status = act[t].status
    BY <1>1, <2>2 DEF ActRec
  <2>4. Indexing(t, o)' /\ Keying(t, o)'
    BY <2>3 DEF Indexing, Keying
  <2>5. OutOK(o)'
    BY <1>4, <2>4 DEF OutOK, InBasket, InStatus
  <2>6. LagOK(t)'
    <3>1. parent[o] \in Accepted => act[t].status \in Accepted
      BY <1>1 DEF KeysOK, LagOK, SeenPcs
    <3>2. QED
      BY <1>2, <2>3, <3>1 DEF LagOK, MidPcs
  <2>7. QED
    BY <1>1, <1>2, <1>3, <1>5, <2>3, <2>5, <2>6, OneOutput
<1>7. CASE act[t].kind \notin GivingKinds
  <2>1. act[t].row = TakenBy(t) /\ ~act[t].row.spendable
    BY <1>1, <1>7, RowFacts DEF NewRow, GivingKinds
  <2>2. act' = [act EXCEPT ![t] = Returned(t)]
    BY <2>1 DEF PutPrimary, Return, Returned, Become
  <2>3. tail' = tail
    BY DEF PutPrimary
  <2>4. act'[t].pc \in {"idle", "next"}
    BY <1>1, <2>2, <2>3, ReturnedFacts
  <2>5. \A u \in Acts \ {t} : act'[u] = act[u]
    BY <1>1, <2>2
  <2>6. OutOK(o)'
    BY <1>2, <1>4, <2>1 DEF OutOK
  <2>7. LagOK(t)'
    BY <2>4 DEF LagOK, MidPcs, SeenPcs
  <2>8. QED
    BY <1>1, <1>2, <1>3, <1>5, <2>5, <2>6, <2>7, OneOutput
<1>8. QED
  BY <1>6, <1>7

LEMMA IndexKeys ==
  ASSUME RocksInv, KeysOK, NEW t \in Acts, Index(t)
  PROVE  KeysOK'
<1> PICK o : o = act[t].out
  OBVIOUS
<1>1. /\ act \in [Acts -> ActRec] /\ act[t].pc = "index" /\ o \in Outs
      /\ UNCHANGED <<entity, primary, byStatus, parent, mover>> /\ byBasket' = byBasket \cup {o}
  BY DEF RocksInv, TypeOK, ActRec, ActOK, AllocFits, UpdatePcs, Index
<1>2. /\ \A u \in Acts \ {t} : act'[u] = act[u]
      /\ act'[t].pc = "indexStatus" /\ act'[t].out = o /\ act'[t].status = act[t].status
  BY <1>1 DEF Index, Goto, Become, ActRec
<1>3. OutOK(o)'
  <2>1. Agree(o)' \/ \E u \in Acts : Within(u, o)'
    <3>1. ~Within(t, o)
      BY <1>1 DEF Within, MidPcs
    <3>2. \A u \in Acts : Within(u, o) => Within(u, o)'
      BY <1>2, <3>1 DEF Within
    <3>3. Agree(o) => Agree(o)'
      BY <1>1 DEF Agree
    <3>4. QED
      BY <1>1, <3>2, <3>3 DEF KeysOK, OutOK
  <2>2. Keying(t, o)'
    BY <1>2 DEF Keying
  <2>3. QED
    BY <1>1, <2>1, <2>2 DEF OutOK, InBasket, InStatus
<1>4. LagOK(t)'
  BY <1>1, <1>2 DEF KeysOK, LagOK, MidPcs, SeenPcs
<1>5. act[t].pc \in BusyPcs
  BY <1>1 DEF BusyPcs
<1>6. QED
  BY <1>1, <1>2, <1>3, <1>4, <1>5, OneOutput

\* The last key: the status it is written with was read earlier.
LEMMA IndexStatusKeys ==
  ASSUME RocksInv, KeysOK, NEW t \in Acts, IndexStatus(t)
  PROVE  KeysOK'
<1> PICK o : o = act[t].out
  OBVIOUS
<1>1. /\ act \in [Acts -> ActRec] /\ act[t].pc = "indexStatus" /\ o \in Outs
      /\ UNCHANGED <<entity, primary, byBasket, parent, mover>>
      /\ byStatus' = byStatus \cup {<<o, act[t].status>>}
  BY DEF RocksInv, TypeOK, ActRec, ActOK, AllocFits, UpdatePcs, IndexStatus
<1>2. act' = [act EXCEPT ![t] = Returned(t)] /\ tail' = tail
  BY DEF IndexStatus, Return, Returned, Become
<1>3. act'[t].pc \in {"idle", "next"} /\ \A u \in Acts \ {t} : act'[u] = act[u]
  BY <1>1, <1>2, ReturnedFacts
<1>4. OutOK(o)'
  <2>1. ~Within(t, o) /\ ~Taking(t, o) /\ ~Indexing(t, o)
    BY <1>1 DEF Within, Taking, Indexing, MidPcs
  <2>2. \A u \in Acts : /\ Within(u, o) => Within(u, o)'
                        /\ Taking(u, o) => Taking(u, o)'
                        /\ Indexing(u, o) => Indexing(u, o)'
    BY <1>3, <2>1 DEF Within, Taking, Indexing
  <2>3. Agree(o)' \/ \E u \in Acts : Within(u, o)'
    <3>1. Agree(o) => Agree(o)'
      BY <1>1 DEF Agree
    <3>2. QED
      BY <1>1, <2>2, <3>1 DEF KeysOK, OutOK
  <2>4. InBasket(o) => InBasket(o)'
    BY <1>1, <2>2 DEF InBasket
  <2>5. parent[o] \in Accepted => InStatus(o)'
    <3>1. parent[o] \in Accepted => act[t].status \in Accepted
      BY <1>1 DEF KeysOK, LagOK, SeenPcs
    <3>2. QED
      BY <1>1, <3>1 DEF InStatus
  <2>6. QED
    BY <1>1, <2>3, <2>4, <2>5 DEF KeysOK, OutOK
<1>5. LagOK(t)'
  BY <1>3 DEF LagOK, MidPcs, SeenPcs
<1>6. act[t].pc \in BusyPcs
  BY <1>1 DEF BusyPcs
<1>7. QED
  BY <1>1, <1>3, <1>4, <1>5, <1>6, OneOutput

\* updateTransaction takes the old status key away and puts the new one next.
LEMMA MoveKeys ==
  ASSUME RocksInv, KeysOK, Move
  PROVE  KeysOK'
<1>1. UNCHANGED <<entity, primary, byBasket, act>>
  BY DEF Move, MoveStatus, MoveFind, MoveUnindex, MoveIndex, index
<1>2. \A o : parent'[o] \in Accepted => parent[o] \in Accepted
  <2>1. CASE \E o \in Outs, s \in Status : MoveStatus(o, s)
    <3> PICK o \in Outs, s \in Status : MoveStatus(o, s)
      BY <2>1
    <3>1. parent[o] \in Accepted
      BY DEF MoveStatus, Follows, Accepted
    <3>2. parent' = [parent EXCEPT ![o] = s] /\ parent \in [Outs -> Status]
      BY DEF MoveStatus, RocksInv, TypeOK
    <3>3. QED
      BY <3>1, <3>2
  <2>2. CASE parent' = parent
    BY <2>2
  <2>3. QED
    BY <2>1, <2>2 DEF Move, MoveFind, MoveUnindex, MoveIndex
<1>3. \A t \in Acts : LagOK(t)'
  BY <1>1, <1>2, LagKept DEF KeysOK
<1>4. ASSUME NEW o \in Outs PROVE OutOK(o)'
  <2>1. \A u \in Acts : /\ Within(u, o) => Within(u, o)'
                        /\ Taking(u, o) => Taking(u, o)'
                        /\ Indexing(u, o) => Indexing(u, o)'
                        /\ Keying(u, o) => Keying(u, o)'
    BY <1>1 DEF Within, Taking, Indexing, Keying
  <2>2. CASE /\ \A s \in Accepted : <<o, s>> \in byStatus => <<o, s>> \in byStatus'
             /\ mover.pc = "index" /\ mover.out = o => mover'.pc = "index" /\ mover'.out = o
    BY <1>1, <1>2, <2>1, <2>2, OutKept DEF KeysOK
  <2>3. CASE parent'[o] \in Accepted => InStatus(o)'
    <3>1. Agree(o)' \/ \E u \in Acts : Within(u, o)'
      BY <1>1, <2>1 DEF KeysOK, OutOK, Agree
    <3>2. InBasket(o) => InBasket(o)'
      BY <1>1, <2>1 DEF InBasket
    <3>3. QED
      BY <1>1, <2>3, <3>1, <3>2 DEF KeysOK, OutOK
  <2>4. CASE MoveUnindex
    <3>1. mover'.pc = "index" /\ mover'.out = mover.out
      BY <2>4 DEF MoveUnindex, RocksInv, TypeOK
    <3>2. CASE o = mover.out
      BY <2>3, <3>1, <3>2 DEF InStatus
    <3>3. CASE o # mover.out
      BY <2>2, <2>4, <3>3 DEF MoveUnindex
    <3>4. QED
      BY <3>2, <3>3
  <2>5. CASE MoveIndex
    <3>1. byStatus' = byStatus \cup {<<mover.out, parent[mover.out]>>} /\ parent' = parent
      BY <2>5 DEF MoveIndex
    <3>2. CASE o = mover.out
      BY <2>3, <3>1, <3>2 DEF InStatus
    <3>3. CASE o # mover.out
      BY <2>2, <3>1, <3>3
    <3>4. QED
      BY <3>2, <3>3
  <2>6. CASE MoveFind \/ \E x \in Outs, s \in Status : MoveStatus(x, s)
    BY <2>2, <2>6 DEF MoveFind, MoveStatus, index
  <2>7. QED
    BY <2>4, <2>5, <2>6 DEF Move
<1>5. QED
  BY <1>3, <1>4 DEF KeysOK

LEMMA InitFindInv == Init => FindInv
<1> SUFFICES ASSUME Init PROVE KeysOK
  BY DEF FindInv
<1>1. ASSUME NEW o \in Outs PROVE OutOK(o)
  <2>1. Agree(o) /\ InBasket(o)
    BY RowFacts DEF Init, Agree, InBasket
  <2>2. parent[o] \in Accepted => InStatus(o)
    BY DEF Init, InStatus
  <2>3. QED
    BY <2>1, <2>2 DEF OutOK
<1>2. ASSUME NEW t \in Acts PROVE LagOK(t)
  BY IdleFacts DEF Init, LagOK, MidPcs, SeenPcs
<1>3. QED
  BY <1>1, <1>2 DEF KeysOK

LEMMA NextFindInv == RocksInv /\ RocksInv' /\ FindInv /\ [Next]_vars => FindInv'
<1> SUFFICES ASSUME RocksInv, RocksInv', FindInv, [Next]_vars, crashes' = 0 PROVE KeysOK'
  BY DEF FindInv
<1>1. CASE Crash
  BY <1>1, OutputsAssumption DEF Crash, RocksInv, TypeOK
<1>2. CASE UNCHANGED vars
  <2>1. KeysOK
    BY <1>2 DEF FindInv, vars
  <2>2. QED
    BY <1>2, <2>1 DEF KeysOK, OutOK, Agree, InBasket, InStatus, LagOK, Taking, Indexing, Keying, Within,
                      vars, index
<1>3. ASSUME KeysOK, NEW t \in Acts, Reserve(t) \/ Call(t) \/ UpdateOutput(t) PROVE KeysOK'
  <2>1. CASE Reserve(t) \/ Call(t)
    BY <1>3, <2>1, QuietStep, ReserveKeys DEF Reserve
  <2>2. CASE UpdateOutput(t)
    BY <1>3, <2>2, UpdateKeys, PutEntityKeys, PutPrimaryKeys, IndexKeys, IndexStatusKeys DEF UpdateOutput
  <2>3. QED
    BY <1>3, <2>1, <2>2
<1>4. CASE Move \/ \E t \in Acts : Reserve(t) \/ Call(t) \/ UpdateOutput(t)
  <2>1. crashes' = crashes
    BY <1>4 DEF Move, MoveStatus, MoveFind, MoveUnindex, MoveIndex, Reserve, Pick, ReadPrimary, CheckStatus,
                TryReserve, Call, Release, ValidateNoSendChange, NextOutput, MarkKnownInputs,
                AllocateNoSendChange, Fail, EndScope, UpdateOutput, PutEntity, FindOutput, ReadStatus,
                GetExisting, Unindex, UnindexStatus, ReadVersion, PutPrimary, Index, IndexStatus
  <2>2. KeysOK
    BY <2>1 DEF FindInv
  <2>3. QED
    BY <1>3, <1>4, <2>2, MoveKeys
<1>5. QED
  BY <1>1, <1>2, <1>4 DEF Next

\* updateOutput and updateTransaction write an output and its keys one await after
\* the other: while the process runs on, the copies of an output nobody works on
\* agree, and a free one has a basket key and a status key that allocation reads, if
\* at most one action uses noSend.
THEOREM FreeIsFound == OneNoSend => (Spec => []Findable)
<1>1. FindInv => Findable
  <2> SUFFICES ASSUME FindInv, crashes = 0, NEW o \in Outs, Quiet(o)
               PROVE  /\ Agree(o)
                      /\ entity[o].spendable /\ parent[o] \in Accepted =>
                           o \in byBasket /\ \E s \in Accepted : <<o, s>> \in byStatus
    BY DEF Findable, Agree
  <2>1. \A t \in Acts : ~Within(t, o) /\ ~Taking(t, o) /\ ~Indexing(t, o) /\ ~Keying(t, o)
    BY DEF Quiet, Within, Taking, Indexing, Keying
  <2>2. OutOK(o) /\ mover.out # o
    BY DEF FindInv, KeysOK, Quiet
  <2>3. QED
    BY <2>1, <2>2 DEF OutOK, Agree, InBasket, InStatus
<1>2. OneNoSend => (Spec => [](RocksInv /\ FindInv))
  BY InitRocksInv, NextRocksInv, InitFindInv, NextFindInv, PTL DEF Spec
<1>3. QED
  BY <1>1, <1>2, PTL

================================================================================
