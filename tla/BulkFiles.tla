---- MODULE BulkFiles ----
(***************************************************************************)
(* BulkFileDataManager: the bulk headers as a list of files, copied to a   *)
(* table of persistent storage.  CDN files come in chunks of MaxPerFile,   *)
(* the last one growing; the headers above them are in one "incremental"   *)
(* file.  A merge changes the list first and the table after it, one row   *)
(* at a time; the process may die between two rows.                        *)
(*                                                                         *)
(* There is one chain of headers here: that hashes and chain work link up  *)
(* is that heights do, and two files of the same heights are identical.    *)
(***************************************************************************)
EXTENDS Integers, Sequences, FiniteSets, SequencesExt

CONSTANTS
    MaxPerFile,     \* headers per CDN file
    Known,          \* headers of the CDN files the code knows of
    MaxHeight,      \* bound: headers that ever exist
    MaxCrash        \* bound: restarts of the process

ASSUME BulkAssumption ==
    /\ MaxPerFile \in Nat \ {0} /\ Known \in Nat \ {0}
    /\ MaxHeight \in Nat /\ Known <= MaxHeight /\ MaxCrash \in Nat

VARIABLES
    backed,         \* there is persistent storage
    files,          \* bfds: sequence of [cdn, first, count, id]
    table,          \* bulk_files: id -> [cdn, first, count]
    nextId,         \* next row id
    cdn,            \* headers the CDN serves
    todo,           \* files the merge under way has still to take
    writes,         \* table writes the merge under way has still to make
    phase,          \* "new", "seed", "up", "failed"
    crashes

bvars == <<backed, files, table, nextId, cdn, todo, writes, phase, crashes>>

NoId == 0
Upto(f) == f.first + f.count
Row(f) == [cdn |-> f.cdn, first |-> f.first, count |-> f.count]
File(c, first, count) == [cdn |-> c, first |-> first, count |-> count, id |-> NoId]
High == IF files = <<>> THEN 0 ELSE Upto(Last(files))

\* selectBulkHeaderFiles: the largest file at each height, without a gap.
CdnFiles(n) ==
    [i \in 1..((n + MaxPerFile - 1) \div MaxPerFile) |->
        LET first == (i - 1) * MaxPerFile
        IN  File(TRUE, first, IF n - first < MaxPerFile THEN n - first ELSE MaxPerFile)]

\* Index of the first file that holds the height, 0 when none does.
FileAt(h) ==
    LET at == {i \in DOMAIN files : files[i].first <= h /\ h < Upto(files[i])}
    IN  IF at = {} THEN 0 ELSE CHOOSE i \in at : \A j \in at : i <= j

----------------------------------------------------------------------------
\* merge, file by file

PutRow(id, row)  == [op |-> "update", id |-> id, row |-> row, at |-> 0]
DropRow(id)      == [op |-> "delete", id |-> id, row |-> <<>>, at |-> 0]
InsertRow(row, at) == [op |-> "insert", id |-> NoId, row |-> row, at |-> at]

\* No row is written without storage, nor for a file without an id.
Persist(w) == IF backed /\ (w.op = "insert" \/ w.id # NoId) THEN <<w>> ELSE <<>>

Rewrite(fs, ws) == files' = fs /\ writes' = ws

\* A merge that throws leaves its remaining files alone.
MergeThrows == todo' = <<>> /\ UNCHANGED <<files, writes>>

\* A new file follows the last one.
Add(f) ==
    /\ f.first = High
    /\ Rewrite(Append(files, f), Persist(InsertRow(Row(f), Len(files) + 1)))

\* A new run of headers joins the incremental file.
MergeIncremental(f) ==
    LET n == Len(files)
        l == [files[n] EXCEPT !.count = @ + f.count]
    IN  Rewrite([files EXCEPT ![n] = l], Persist(PutRow(l.id, Row(l))))

\* A CDN file takes the place of the last file, whole.
ReplaceLast(f) ==
    Rewrite([files EXCEPT ![Len(files)] = f], Persist(PutRow(f.id, Row(f))))

\* A CDN file takes the lower part of the incremental file: what it leaves is
\* a new file.
SplitLast(f) ==
    LET n == Len(files)
        rest == [files[n] EXCEPT !.first = @ + f.count, !.count = @ - f.count, !.id = NoId]
    IN  Rewrite(Append([files EXCEPT ![n] = f], rest),
               Persist(PutRow(f.id, Row(f))) \o Persist(InsertRow(Row(rest), n + 1)))

\* The incremental file is dropped, whatever else it holds.
GrowBeforeLast_Drop(f) ==
    LET n == Len(files)
        g == [f EXCEPT !.id = files[n - 1].id]
    IN  Rewrite([SubSeq(files, 1, n - 1) EXCEPT ![n - 1] = g],
               Persist(PutRow(g.id, Row(g))) \o Persist(DropRow(files[n].id)))

\* A CDN file grows into the incremental file above it.
GrowBeforeLast(f) ==
    LET n == Len(files)
        g == [f EXCEPT !.id = files[n - 1].id]
        gain == f.count - files[n - 1].count
        rest == [files[n] EXCEPT !.first = @ + gain, !.count = @ - gain]
    IN  IF gain >= files[n].count
        THEN Rewrite([SubSeq(files, 1, n - 1) EXCEPT ![n - 1] = g],
                    Persist(PutRow(g.id, Row(g))) \o Persist(DropRow(files[n].id)))
        ELSE Rewrite([files EXCEPT ![n - 1] = g, ![n] = rest],
                    Persist(PutRow(g.id, Row(g))) \o Persist(PutRow(rest.id, Row(rest))))

\* update: which of the cases above applies to the i-th file, if any.
Updatable(f, i) ==
    /\ files[i].first = f.first
    /\ f.cdn = files[i].cdn => f.count > files[i].count
    /\ IF i = Len(files) THEN f.cdn \/ ~files[i].cdn
       ELSE i = Len(files) - 1 /\ f.cdn /\ files[i].cdn /\ ~Last(files).cdn

Update(f, i) ==
    IF i < Len(files) THEN GrowBeforeLast(f)
    ELSE IF f.cdn /\ ~files[i].cdn /\ f.count < files[i].count THEN SplitLast(f)
    ELSE ReplaceLast(f)

\* mergeNoLock on one file.
MergeFile ==
    /\ phase = "up" /\ todo # <<>> /\ writes = <<>>
    /\ LET f == Head(todo)
           i == FileAt(f.first) IN
       IF i # 0 /\ files[i].first = f.first /\ files[i].count = f.count
       THEN todo' = Tail(todo) /\ UNCHANGED <<files, writes>>
       ELSE IF i # 0
       THEN IF Updatable(f, i) THEN Update(f, i) /\ todo' = Tail(todo) ELSE MergeThrows
       ELSE IF ~f.cdn /\ files # <<>> /\ ~Last(files).cdn
       THEN MergeIncremental(f) /\ todo' = Tail(todo)
       ELSE IF f.first = High THEN Add(f) /\ todo' = Tail(todo) ELSE MergeThrows
    /\ UNCHANGED <<backed, table, nextId, cdn, phase, crashes>>

\* One storage call of the merge; an insertion gives the file its id.
WriteRow ==
    /\ phase \in {"up", "seed"} /\ writes # <<>>
    /\ LET w == Head(writes) IN
       \/ /\ w.op = "insert"
          /\ table' = [i \in DOMAIN table \cup {nextId} |->
                          IF i = nextId THEN w.row ELSE table[i]]
          /\ files' = [files EXCEPT ![w.at].id = nextId]
          /\ nextId' = nextId + 1
       \/ /\ w.op = "update" /\ table' = [i \in DOMAIN table |->
                                             IF i = w.id THEN w.row ELSE table[i]]
          /\ UNCHANGED <<files, nextId>>
       \/ /\ w.op = "delete" /\ table' = [i \in DOMAIN table \ {w.id} |-> table[i]]
          /\ UNCHANGED <<files, nextId>>
    /\ writes' = Tail(writes)
    /\ phase' = IF phase = "seed" /\ Len(writes) = 1 THEN "up" ELSE phase
    /\ UNCHANGED <<backed, cdn, todo, crashes>>

Quiet == phase = "up" /\ todo = <<>> /\ writes = <<>>

\* updateFromUrl and the CDN ingestor merge all files the CDN lists.
MergeCdn ==
    /\ Quiet
    /\ todo' = CdnFiles(cdn)
    /\ UNCHANGED <<backed, files, table, nextId, cdn, writes, phase, crashes>>

\* mergeIncrementalBlockHeaders: headers up to a height move from live storage.
MergeLive ==
    /\ Quiet
    /\ \E h \in High + 1..MaxHeight : todo' = <<File(FALSE, High, h - High)>>
    /\ UNCHANGED <<backed, files, table, nextId, cdn, writes, phase, crashes>>

----------------------------------------------------------------------------
\* setStorageNoLock

\* Rows are read by firstHeight; rows of one height in the order of their ids.
RowsBefore(i) ==
    {j \in DOMAIN table : \/ table[j].first < table[i].first
                          \/ table[j].first = table[i].first /\ j < i}

Rows ==
    [n \in 1..Cardinality(DOMAIN table) |->
        LET i == CHOOSE i \in DOMAIN table : Cardinality(RowsBefore(i)) = n - 1
        IN  [cdn |-> table[i].cdn, first |-> table[i].first, count |-> table[i].count, id |-> i]]

\* HeightRange.union throws at a gap.
HasGap(fs) ==
    \E i \in 2..Len(fs) : \A j \in 1..i - 1 : Upto(fs[j]) < fs[i].first
CdnLength(fs) ==
    LET c == {Upto(fs[i]) : i \in {j \in DOMAIN fs : fs[j].cdn}}
    IN  IF c = {} THEN 0 ELSE CHOOSE n \in c : \A m \in c : n >= m

\* The storage wins when its CDN files reach as far as the known ones; else
\* its rows are deleted, last first, and the known files inserted.
SetStorage ==
    /\ phase = "new"
    /\ IF ~backed THEN phase' = "up" /\ UNCHANGED <<files, writes>>
       ELSE IF HasGap(Rows) THEN phase' = "failed" /\ UNCHANGED <<files, writes>>
       ELSE IF CdnLength(Rows) >= CdnLength(files)
       THEN files' = Rows /\ phase' = "up" /\ UNCHANGED writes
       ELSE /\ writes' = [i \in 1..Len(Rows) |-> DropRow(Rows[Len(Rows) + 1 - i].id)]
                         \o [i \in DOMAIN files |-> InsertRow(Row(files[i]), i)]
            /\ phase' = "seed"
            /\ UNCHANGED files
    /\ UNCHANGED <<backed, table, nextId, cdn, todo, crashes>>

\* The process dies; the next one starts from the files the code knows of.
Restart ==
    /\ backed /\ crashes < MaxCrash
    /\ crashes' = crashes + 1
    /\ files' = CdnFiles(Known)
    /\ todo' = <<>> /\ writes' = <<>>
    /\ phase' = "new"
    /\ UNCHANGED <<backed, table, nextId, cdn>>

\* The CDN publishes more headers (environment).
CdnGrows ==
    /\ cdn < MaxHeight
    /\ cdn' \in cdn + 1..MaxHeight
    /\ UNCHANGED <<backed, files, table, nextId, todo, writes, phase, crashes>>

BulkInit ==
    /\ backed \in BOOLEAN
    /\ files = CdnFiles(Known)
    /\ table = <<>> /\ nextId = 1
    /\ cdn = Known
    /\ todo = <<>> /\ writes = <<>>
    /\ phase = "new"
    /\ crashes = 0

BulkNext ==
    \/ SetStorage \/ MergeCdn \/ MergeLive \/ MergeFile \/ WriteRow
    \/ Restart \/ CdnGrows

BulkSpec == BulkInit /\ [][BulkNext]_bvars

----------------------------------------------------------------------------
\* No merge loses headers: whatever files it grows, splits, replaces or drops, the
\* heights that were in some file still are (BulkFileDataManager.update).
Covered == UNION {files[i].first..Upto(files[i]) - 1 : i \in DOMAIN files}

NeverShrinks == [][phase = "up" /\ phase' = "up" => Covered \subseteq Covered']_bvars
====
