---- MODULE HeaderStore ----
(***************************************************************************)
(* The header store of Chaintracks: a tree of recent ("live") headers of   *)
(* which one branch is active, above a chain of old ("bulk") headers.      *)
(*                                                                         *)
(* One thread inserts headers and runs bulk synchronisation.  An insertion *)
(* that moves the tip starts a pruning task that nobody waits for: it      *)
(* reads the live range, appends the oldest active headers to bulk and     *)
(* deletes them from live, each an asynchronous step of its own.           *)
(*                                                                         *)
(* Headers are the nodes of a constant tree; their height and chain work   *)
(* are what the code stores for them.  A header claims its right height.   *)
(***************************************************************************)
EXTENDS Integers, Sequences, FiniteSets, SequencesExt

CONSTANTS
    Block,          \* headers the network can ever show
    Genesis,        \* the header that bulk storage starts with
    NoBlock,        \* no header (null, undefined)
    Parent,         \* previousHash: Block -> Block \cup {Genesis}
    Work,           \* work of a header's bits: Block -> Nat
    Kinds,          \* the stores to consider: "sql", "memory"
    LiveThreshold,  \* liveHeightThreshold
    Chunk,          \* bulkMigrationChunkSize
    ReorgThreshold, \* reorgHeightThreshold
    Pruners,        \* bound: pruning tasks alive at once
    Limit           \* half of addLiveRecursionLimit

ASSUME HeaderAssumption ==
    /\ Genesis \notin Block /\ NoBlock \notin Block \cup {Genesis}
    /\ Parent \in [Block -> Block \cup {Genesis}]
    /\ \A S \in SUBSET Block : S # {} => \E b \in S : Parent[b] \notin S
    /\ Work \in [Block -> Nat \ {0}]
    /\ {LiveThreshold, ReorgThreshold, Limit} \subseteq Nat
    /\ Chunk \in Nat \ {0} /\ ReorgThreshold <= LiveThreshold

VARIABLES
    kind,           \* which store class this is
    live,           \* header -> [active, tip, prev]
    bulk,           \* headers in bulk storage, by height
    prune,          \* pruner -> [pc, top, total, run]
    migrating,      \* nowMigratingLiveToBulk
    report,         \* deactivated headers listeners were told of by the last step
    syncTo          \* network tip of the bulk synchronisation under way

vars == <<kind, live, bulk, prune, migrating, report, syncTo>>

Header == Block \cup {Genesis}
Height[b \in Header] == IF b = Genesis THEN 0 ELSE Height[Parent[b]] + 1
ChainWork[b \in Header] ==
    IF b = Genesis THEN 0 ELSE ChainWork[Parent[b]] + Work[b]
Branch[b \in Header] ==
    IF b = Genesis THEN <<Genesis>> ELSE Append(Branch[Parent[b]], b)

Actives == {b \in DOMAIN live : live[b].active}
Tips == {b \in Actives : live[b].tip}
Heights(S) == {Height[b] : b \in S}
Least(S) == CHOOSE n \in S : \A m \in S : n <= m
Greatest(S) == CHOOSE n \in S : \A m \in S : n >= m

\* findLiveHeightRange; an empty store has range 0..-1
LiveLow  == IF Actives = {} THEN 0 ELSE Least(Heights(Actives))
LiveHigh == IF Actives = {} THEN -1 ELSE Greatest(Heights(Actives))
BulkHigh == Len(bulk) - 1

\* What getAvailableHeightRanges throws about.
Gap == Actives # {} /\ BulkHigh + 1 # LiveLow

----------------------------------------------------------------------------
\* insertHeader

\* Headers met going down from x by previousHeaderId until stop or the end.
Down(x, stop) ==
    LET f[y \in Header \cup {NoBlock}] ==
            IF y = stop \/ y \notin DOMAIN live THEN {}
            ELSE {y} \cup f[live[y].prev]
    IN  f[x]

\* The first active header from x down, NoBlock when there is none.
ActiveAncestor(x) ==
    LET f[y \in Header \cup {NoBlock}] ==
            IF y \notin DOMAIN live THEN NoBlock
            ELSE IF live[y].active THEN y ELSE f[live[y].prev]
    IN  f[x]

\* The branches swapped when b, on oneBack, outweighs the tip t.
\* Only the tip itself is taken off.
Off_TipOnly(oneBack, t) == IF ActiveAncestor(oneBack) = oneBack THEN {} ELSE {t}

Off(oneBack, t) ==
    LET anc == ActiveAncestor(oneBack)
    IN  IF anc = oneBack THEN {} ELSE Down(t, anc)
On(oneBack) == Down(oneBack, ActiveAncestor(oneBack))

\* A row update touches one column.
ClearTipRow(rows, oneBack) == [rows EXCEPT ![oneBack].tip = FALSE]

\* A put writes the whole record, as it was read before the branches were
\* swapped.
ClearTipRecord(rows, oneBack) ==
    [rows EXCEPT ![oneBack] = [live[oneBack] EXCEPT !.tip = FALSE]]

ClearTip(rows, oneBack) ==
    IF ~live[oneBack].tip THEN rows
    ELSE IF kind = "sql" THEN ClearTipRow(rows, oneBack)
    ELSE ClearTipRecord(rows, oneBack)

Swapped(off, on) ==
    [x \in DOMAIN live |->
        [live[x] EXCEPT !.active = x \in on \/ (@ /\ x \notin off)]]

Added(rows, b, prev, heavier) ==
    [x \in DOMAIN rows \cup {b} |->
        IF x = b THEN [active |-> heavier, tip |-> heavier, prev |-> prev]
        ELSE rows[x]]

IdlePruner == [pc |-> "idle", top |-> 0, total |-> 0, run |-> <<>>]

\* pruneLiveBlockHeaders is called and not awaited.
StartPrune(b) ==
    \E p \in Pruners :
        /\ prune[p].pc = "idle"
        /\ prune' = [prune EXCEPT ![p] = [@ EXCEPT !.pc = "range", !.top = Height[b]]]

\* The live store is empty and b follows the last bulk header.
InsertFirst(b) ==
    /\ live = <<>> /\ Parent[b] = Last(bulk)
    /\ live' = Added(live, b, NoBlock, TRUE)
    /\ report' = {}
    \* Only the SQL store prunes after its first live header.
    /\ IF kind = "sql" THEN StartPrune(b) ELSE UNCHANGED prune

\* b is not heavier than the tip: it joins a side branch.
InsertSide(b) ==
    LET oneBack == Parent[b] IN
    /\ b \notin DOMAIN live /\ oneBack \in DOMAIN live
    /\ \E t \in Tips : ChainWork[b] <= ChainWork[t]
    /\ live' = Added(ClearTip(live, oneBack), b, oneBack, FALSE)
    /\ report' = {}
    /\ UNCHANGED prune

\* b is heavier than the tip: its branch becomes the active one, and
\* listeners learn of the headers that leave the chain.
InsertTip(b) ==
    LET oneBack == Parent[b] IN
    /\ b \notin DOMAIN live /\ oneBack \in DOMAIN live
    /\ ActiveAncestor(oneBack) # NoBlock
    /\ \E t \in IF oneBack \in Tips THEN {oneBack} ELSE Tips :
        LET off == Off(oneBack, t)
            on == On(oneBack) IN
        /\ ChainWork[b] > ChainWork[t]
        /\ live' = Added(ClearTip(Swapped(off, on), oneBack), b, oneBack, TRUE)
        /\ report' = off
    /\ StartPrune(b)

Insert ==
    /\ syncTo = NoBlock
    /\ \E b \in Block : InsertFirst(b) \/ InsertSide(b) \/ InsertTip(b)
    /\ UNCHANGED <<kind, bulk, migrating, syncTo>>

----------------------------------------------------------------------------
\* pruneLiveBlockHeaders and migrateLiveToBulk

\* Active headers are a chain: no two have one height.
Lowest(S, count) ==
    LET below(x) == Cardinality({y \in S : Height[y] < Height[x]})
    IN  [n \in 1..Cardinality({x \in S : below(x) < count}) |-> CHOOSE x \in S : below(x) = n - 1]

\* The `count` lowest active headers.
LiveForBulk(count) == Lowest(Actives, count)

\* mergeIncrementalBlockHeaders: headers already stored are dropped; the rest
\* must extend the last header stored.
NewForBulk(run) == SelectSeq(run, LAMBDA b : Height[b] > BulkHigh)
Extends(run) == IF run = <<>> THEN TRUE ELSE Parent[run[1]] = Last(bulk)

\* deleteOlderLiveBlockHeaders
DeleteOlder(max) ==
    [b \in {x \in DOMAIN live : Height[x] > max} |->
        IF live[b].prev \in DOMAIN live /\ Height[live[b].prev] <= max
        THEN [live[b] EXCEPT !.prev = NoBlock] ELSE live[b]]

\* Another round of the loop, or the end of the task.
Again(p, total) ==
    IF total >= Chunk THEN [p EXCEPT !.pc = "migrate", !.total = total, !.run = <<>>]
    ELSE IdlePruner

PruneRange(p) ==
    /\ prune[p].pc = "range"
    /\ prune' = [prune EXCEPT ![p] =
                    Again(@, prune[p].top - LiveLow + 1 - LiveThreshold)]
    /\ report' = {}
    /\ UNCHANGED <<kind, live, bulk, migrating, syncTo>>

\* The flag is tested and set; a task that finds it set skips its round.
PruneRead(p) ==
    /\ prune[p].pc = "migrate"
    /\ IF migrating
       THEN /\ prune' = [prune EXCEPT ![p] = Again(@, @.total - Chunk)]
            /\ UNCHANGED migrating
       ELSE /\ prune' = [prune EXCEPT ![p] =
                            [@ EXCEPT !.pc = "bulk", !.run = LiveForBulk(Chunk)]]
            /\ migrating' = TRUE
    /\ report' = {}
    /\ UNCHANGED <<kind, live, bulk, syncTo>>

\* What does not extend bulk storage makes the task throw.
PruneBulk(p) ==
    /\ prune[p].pc = "bulk"
    /\ IF Extends(NewForBulk(prune[p].run))
       THEN /\ bulk' = bulk \o NewForBulk(prune[p].run)
            /\ prune' = [prune EXCEPT ![p].pc = "delete"]
            /\ UNCHANGED migrating
       ELSE /\ prune' = [prune EXCEPT ![p] = IdlePruner]
            /\ migrating' = FALSE
            /\ UNCHANGED bulk
    /\ report' = {}
    /\ UNCHANGED <<kind, live, syncTo>>

\* An empty run has no last height: the task throws.
PruneDelete(p) ==
    /\ prune[p].pc = "delete"
    /\ IF prune[p].run = <<>>
       THEN UNCHANGED live /\ prune' = [prune EXCEPT ![p] = IdlePruner]
       ELSE /\ live' = DeleteOlder(Height[Last(prune[p].run)])
            /\ prune' = [prune EXCEPT ![p] = Again(@, @.total - Chunk)]
    /\ migrating' = FALSE
    /\ report' = {}
    /\ UNCHANGED <<kind, bulk, syncTo>>

Prune == \E p \in Pruners :
    PruneRange(p) \/ PruneRead(p) \/ PruneBulk(p) \/ PruneDelete(p)

----------------------------------------------------------------------------
\* BulkIngestorBase.synchronize, run by the inserting thread

MissingBulk(n) == Height[n] - LiveThreshold > BulkHigh

\* The live range is too far behind the network's tip n.  Live headers in
\* excess of ReorgThreshold move to bulk (a call for more than a chunk, or
\* while a pruner migrates, does nothing); when that is not enough, live
\* storage is flushed.  With no live headers in excess the migration throws, and
\* there is no step.
SyncStart(n) ==
    /\ syncTo = NoBlock /\ ~Gap
    /\ LiveHigh < Height[n] - Limit
    /\ LET excess == (LiveHigh - LiveLow + 1) - ReorgThreshold
           missing == Height[n] - LiveThreshold - BulkHigh
           count == IF excess < missing THEN excess ELSE missing
           run == IF count <= 0 \/ count > Chunk \/ migrating THEN <<>>
                  ELSE LiveForBulk(count)
           merged == bulk \o NewForBulk(run)
       IN  IF MissingBulk(n) /\ Actives # {}
           THEN /\ count > 0 \/ migrating
                /\ Extends(NewForBulk(run))
                /\ bulk' = merged
                /\ live' = IF Height[n] - LiveThreshold > Len(merged) - 1 THEN <<>>
                           ELSE IF run = <<>> THEN live
                           ELSE DeleteOlder(Height[Last(run)])
           ELSE UNCHANGED <<bulk, live>>
    /\ syncTo' = n
    /\ report' = {}
    /\ UNCHANGED <<kind, prune, migrating>>

\* fetchHeaders and addBulkHeaders: the missing part of the network's chain is
\* appended, if it extends what is stored and the ranges meet just then.
SyncFetch ==
    LET n == syncTo
        run == SelectSeq(Branch[n], LAMBDA b : /\ Height[b] > BulkHigh
                                               /\ Height[b] <= Height[n] - LiveThreshold)
    IN  /\ n # NoBlock
        /\ bulk' = IF Extends(run) /\ ~Gap THEN bulk \o run ELSE bulk
        /\ syncTo' = NoBlock
        /\ report' = {}
        /\ UNCHANGED <<kind, live, prune, migrating>>

Sync == SyncFetch \/ \E n \in Block : SyncStart(n)

----------------------------------------------------------------------------
Init ==
    /\ kind \in Kinds
    /\ live = <<>>
    /\ bulk = <<Genesis>>
    /\ prune = [p \in Pruners |-> IdlePruner]
    /\ migrating = FALSE
    /\ report = {}
    /\ syncTo = NoBlock

Next == Insert \/ Prune \/ Sync

Spec == Init /\ [][Next]_vars

----------------------------------------------------------------------------
\* What is assumed of the headers that arrive.  Those with one parent have the same
\* bits, which the network's difficulty rule computes from their ancestors.  A
\* heavier one is not lower: within the live range work grows with height.
SiblingsAlike   == \A b, c \in Block : Parent[b] = Parent[c] => Work[b] = Work[c]
HeavierIsHigher == \A b, c \in Block : ChainWork[b] <= ChainWork[c] => Height[b] <= Height[c]

\* The active headers are one chain: one heaviest tip and its ancestors down to
\* the lowest live one.  A reorganisation swaps the two branches completely,
\* and live storage is never left without a tip to extend.
ActiveChain ==
    live # <<>> =>
    \E t \in Tips :
        /\ Tips = {t}
        /\ Actives = {b \in DOMAIN live : b \in Range(Branch[t])}
        /\ \A b \in DOMAIN live : ChainWork[b] <= ChainWork[t]

\* Bulk storage is below every fork: it is a chain, and the active branch
\* stands on it.
BulkIsBelow ==
    /\ \A i \in 2..Len(bulk) : Parent[bulk[i]] = bulk[i - 1]
    /\ \A t \in Tips : IsPrefix(bulk, Branch[t])
====
