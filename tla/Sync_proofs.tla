------------------------------- MODULE Sync_proofs -------------------------------
(***************************************************************************)
(* What a synchronisation of the stores keeps, for any stores, items and   *)
(* times.  Two invariants: SyInv, of rows, ids and maps, holds whatever     *)
(* happens; CalmInv, of what each store has of another, holds for a wallet *)
(* that never imported and no switch of which was cut off.                 *)
(***************************************************************************)
EXTENDS Sync, SequenceTheorems, FiniteSetTheorems, TLAPS

Below == {p \in Nat \X Nat : p[1] < p[2]}

\* A nonempty set of naturals has a least element, so Min finds one.
LEMMA LeastExists ==
  ASSUME NEW T, T \subseteq Nat, T # {}
  PROVE  Min(T) \in T /\ \A m \in T : Min(T) <= m
<1>1. IsWellFoundedOn(Below, Nat)
  BY NatLessThanWellFounded DEF OpToRel, Below
<1>2. PICK n \in T : \A m \in T : <<m, n>> \notin Below
  BY ONLY <1>1, WFMin, T \subseteq Nat, T # {}
<1>3. \A m \in T : ~(m < n)
  BY <1>2 DEF Below
<1>4. \A m \in T : n <= m
  BY <1>3
<1> QED BY <1>4 DEF Min

Level(S, f, i) == Cardinality({j \in S : f[j] < f[i]})

\* Every place in a ranking is taken.
LEMMA RankTaken ==
  ASSUME NEW S, IsFiniteSet(S), NEW f \in [S -> Int], \A i, j \in S : f[i] = f[j] => i = j,
         NEW n \in 1..Cardinality(S)
  PROVE  \E i \in S : Level(S, f, i) = n - 1
<1> DEFINE less(i) == {j \in S : f[j] < f[i]}
           g == [i \in S |-> Cardinality(less(i))]
           N == Cardinality(S)
<1>1. N \in Nat
  BY FS_CardinalityType
<1>2. ASSUME NEW i \in S PROVE IsFiniteSet(less(i)) /\ Cardinality(less(i)) \in 0..N - 1
  <2>1. less(i) \subseteq S /\ i \notin less(i)
    OBVIOUS
  <2>2. IsFiniteSet(less(i)) /\ Cardinality(less(i)) \in Nat
    BY <2>1, FS_Subset, FS_CardinalityType
  <2>3. Cardinality(less(i)) <= N /\ Cardinality(less(i)) # N
    BY <2>1, FS_Subset
  <2> QED BY <1>1, <2>2, <2>3
<1>3. ASSUME NEW i \in S, NEW j \in S, f[i] < f[j] PROVE g[i] # g[j]
  <2>1. less(i) \subseteq less(j) /\ i \in less(j) /\ i \notin less(i)
    BY <1>3
  <2>2. Cardinality(less(i)) # Cardinality(less(j))
    BY <1>2, <2>1, FS_Subset
  <2> QED BY <2>2
<1>4. g \in [S -> 0..N - 1]
  BY <1>2
<1>5. g \in Injection(S, 0..N - 1)
  <2>1. ASSUME NEW i \in S, NEW j \in S, g[i] = g[j] PROVE i = j
    <3>1. ~(f[i] < f[j]) /\ ~(f[j] < f[i])
      BY <1>3, <2>1
    <3> QED BY <3>1
  <2> HIDE DEF g
  <2> QED BY <1>4, <2>1 DEF Injection, IsInjective
<1>6. IsFiniteSet(0..N - 1) /\ Cardinality(0..N - 1) = N
  <2>1. 0 \in Int /\ N - 1 \in Int
    BY <1>1
  <2> HIDE DEF N
  <2> QED BY <1>1, <2>1, FS_Interval
<1>7. g \in Surjection(S, 0..N - 1)
  <2> HIDE DEF g, N
  <2> QED BY <1>5, <1>6, FS_Injection DEF N
<1>8. n - 1 \in 0..N - 1
  BY <1>1
<1>9. PICK i \in S : g[i] = n - 1
  BY <1>7, <1>8 DEF Surjection
<1> QED BY <1>9 DEF Level

RowRec(v) == {"ver", "at", "id", "par"} \subseteq DOMAIN v /\ v.ver \in Nat
Of(s, k)  == {i \in Items : Kind[i] = k /\ Has(s, i)}

\* A store numbers the rows of a table, and a child has the number of its parent.
RowsTyped == DOMAIN row = Stores /\ \A s \in Stores : DOMAIN row[s] = Items /\ \A i \in Items : RowRec(row[s][i])
Numbered ==
  /\ \A s \in Stores, i \in Items : Has(s, i) =>
       /\ row[s][i].id \in 1..Cardinality(Of(s, Kind[i]))
       /\ Parent[i] = i => row[s][i].par = 0
  /\ \A s \in Stores, i, j \in Items : 
       Has(s, i) /\ Has(s, j) /\ Kind[i] = Kind[j] /\ row[s][i].id = row[s][j].id => i = j
RowsInv == RowsTyped /\ Numbered /\ SameParents

LEMMA StoresManaged ==
  /\ IsFiniteSet(Managed) /\ Managed \subseteq Stores
  /\ Len(Order) \in Nat \ {0} /\ DOMAIN Order = 1..Len(Order) /\ Order[1] \in Managed
<1>1. Len(Order) \in Nat \ {0} /\ DOMAIN Order = 1..Len(Order) /\ Order \in [1..Len(Order) -> Managed]
  BY SyncAssumption DEF Managed
<1>2. Order \in Surjection(1..Len(Order), Managed)
  BY <1>1 DEF Surjection, Managed, Range
<1>3. IsFiniteSet(1..Len(Order))
  BY <1>1, FS_Interval
<1> QED BY <1>1, <1>2, <1>3, FS_Surjection DEF Stores

LEMMA RankedOrder ==
  ASSUME NEW S, S \subseteq Managed
  PROVE  InOrder(S) \in Seq(S)
<1>1. IsFiniteSet(S) /\ Cardinality(S) \in Nat
  BY StoresManaged, FS_Subset, FS_CardinalityType
<1>2. \A s \in S : Place(s) \in DOMAIN Order /\ Order[Place(s)] = s
  BY DEF Managed, Range, Place
<1> DEFINE f == [s \in S |-> Place(s)]
<1>3. f \in [S -> Int] /\ \A i, j \in S : f[i] = f[j] => i = j
  BY <1>2, StoresManaged
<1>4. ASSUME NEW n \in 1..Cardinality(S) PROVE InOrder(S)[n] \in S
  <2>1. \E i \in S : Level(S, f, i) = n - 1
    <3> HIDE DEF f
    <3> QED BY <1>1, <1>3, RankTaken
  <2>2. \A i \in S : Level(S, f, i) = Cardinality({j \in S : Place(j) < Place(i)})
    <3>1. \A i \in S : {j \in S : f[j] < f[i]} = {j \in S : Place(j) < Place(i)}
      OBVIOUS
    <3> QED BY <3>1 DEF Level
  <2>3. \E i \in S : Cardinality({j \in S : Place(j) < Place(i)}) = n - 1
    BY <2>1, <2>2
  <2>4. InOrder(S)[n] = CHOOSE i \in S : Cardinality({j \in S : Place(j) < Place(i)}) = n - 1
    BY DEF InOrder, Ranked
  <2> QED BY <2>3, <2>4
<1>5. InOrder(S) = [n \in 1..Cardinality(S) |-> InOrder(S)[n]]
  BY DEF InOrder, Ranked
<1> QED BY <1>1, <1>4, <1>5

LEMMA RowsCount ==
  ASSUME NEW s \in Stores, NEW k
  PROVE  IsFiniteSet(Of(s, k)) /\ Cardinality(Of(s, k)) \in Nat /\ Cardinality(Of(s, k)) <= Cardinality(Items)
         /\ NextId(s, k) = Cardinality(Of(s, k)) + 1
<1>1. Of(s, k) \subseteq Items
  BY DEF Of
<1>2. IsFiniteSet(Of(s, k)) /\ Cardinality(Of(s, k)) \in Nat /\ Cardinality(Of(s, k)) <= Cardinality(Items)
  BY <1>1, SyncAssumption, FS_Subset, FS_CardinalityType
<1>3. NextId(s, k) = 1 + Cardinality(Of(s, k))
  BY DEF NextId, Of
<1> QED BY <1>2, <1>3

LEMMA SinceRows ==
  ASSUME RowsInv, NEW s \in Stores, NEW k \in Tables, NEW when
  PROVE  Since(s, k, when) \in Seq(Of(s, k))
<1> DEFINE S == {i \in Items : Kind[i] = k /\ Has(s, i) /\ row[s][i].at >= when}
           f == [i \in S |-> row[s][i].id]
<1>1. S \subseteq Of(s, k) /\ IsFiniteSet(S) /\ Cardinality(S) \in Nat
  <2>1. S \subseteq Of(s, k)
    BY DEF Of
  <2> QED BY <2>1, RowsCount, FS_Subset, FS_CardinalityType
<1>2. f \in [S -> Int] /\ \A i, j \in S : f[i] = f[j] => i = j
  <2>1. \A i \in S : row[s][i].id \in Int
    BY RowsCount DEF RowsInv, Numbered
  <2> QED BY <2>1 DEF RowsInv, Numbered
<1> DEFINE e(n) == CHOOSE i \in S : Cardinality({j \in S : row[s][j].id < row[s][i].id}) = n - 1
<1>4. ASSUME NEW n \in 1..Cardinality(S) PROVE e(n) \in S
  <2>1. \E i \in S : Level(S, f, i) = n - 1
    <3> HIDE DEF f, S
    <3> QED BY <1>1, <1>2, RankTaken
  <2>2. \A i \in S : Level(S, f, i) = Cardinality({j \in S : row[s][j].id < row[s][i].id})
    <3>1. \A i \in S : {j \in S : f[j] < f[i]} = {j \in S : row[s][j].id < row[s][i].id}
      OBVIOUS
    <3> HIDE DEF S, f
    <3> QED BY <3>1 DEF Level
  <2>3. \E i \in S : Cardinality({j \in S : row[s][j].id < row[s][i].id}) = n - 1
    <3> HIDE DEF S
    <3> QED BY <2>1, <2>2
  <2> HIDE DEF S, f
  <2> QED BY <2>3
<1>5. Since(s, k, when) = [n \in 1..Cardinality(S) |-> e(n)]
  BY DEF Since, Ranked
<1> HIDE DEF S, e
<1> QED BY <1>1, <1>4, <1>5

LEMMA ChunkItems ==
  ASSUME RowsInv, NEW s \in Stores, NEW st, st.count \in [Tables -> Nat]
  PROVE  /\ ChunkRows(s, st) \in Seq({i \in Items : Has(s, i)})
         /\ Len(ChunkRows(s, st)) \in Nat
<1> DEFINE H == {i \in Items : Has(s, i)}
<1>1. ASSUME NEW k \in Tables PROVE Rest(s, k, st) \in Seq(H)
  <2> DEFINE q == Since(s, k, st.when)
  <2>1. q \in Seq(H)
    <3>1. Of(s, k) \subseteq H
      BY DEF Of
    <3>2. q \in Seq(Of(s, k))
      BY SinceRows
    <3> HIDE DEF q, H
    <3> QED BY <3>1, <3>2
  <2>2. Rest(s, k, st) = SubSeq(q, st.count[k] + 1, Len(q))
    BY DEF Rest
  <2>3. st.count[k] + 1 \in Int /\ Len(q) \in Int /\ \A n \in st.count[k] + 1..Len(q) : q[n] \in H
    <3> HIDE DEF q, H
    <3>1. st.count[k] \in Nat /\ Len(q) \in Nat
      BY <2>1
    <3>2. \A n \in 1..Len(q) : q[n] \in H
      BY <2>1
    <3> QED BY <3>1, <3>2
  <2> HIDE DEF q, H
  <2> QED BY <2>2, <2>3, SubSeqProperties
<1> DEFINE all == Rest(s, 1, st) \o Rest(s, 2, st) \o Rest(s, 3, st) \o Rest(s, 4, st)
           m == Min({MaxItems, Len(all)})
<1>2. all \in Seq(H)
  <2>1. 1 \in Tables /\ 2 \in Tables /\ 3 \in Tables /\ 4 \in Tables
    BY DEF Tables
  <2>2. Rest(s, 1, st) \in Seq(H) /\ Rest(s, 2, st) \in Seq(H) /\ Rest(s, 3, st) \in Seq(H) /\ Rest(s, 4, st) \in Seq(H)
    BY <1>1, <2>1
  <2> HIDE DEF H
  <2> QED BY <2>2
<1>3. m \in Nat /\ m <= Len(all)
  <2> HIDE DEF all, H
  <2>1. {MaxItems, Len(all)} \subseteq Nat /\ {MaxItems, Len(all)} # {}
    BY <1>2, SyncAssumption
  <2>2. m \in {MaxItems, Len(all)} /\ \A x \in {MaxItems, Len(all)} : m <= x
    BY <2>1, LeastExists
  <2> QED BY <2>1, <2>2
<1>4. ChunkRows(s, st) = SubSeq(all, 1, m)
  BY DEF ChunkRows
<1>5. ChunkRows(s, st) \in Seq(H)
  <2> HIDE DEF all, H, m
  <2>1. \A n \in 1..m : all[n] \in H
    BY <1>2, <1>3
  <2> QED BY <1>3, <1>4, <2>1, SubSeqProperties
<1> QED BY <1>5

-----------------------------------------------------------------------------
(* What a row may become.                                                  *)

Kept(s, i) == Has(s, i) => Has(s, i)' /\ row'[s][i].id = row[s][i].id /\ row'[s][i].par = row[s][i].par
AllKept == \A s \in Stores, i \in Items : Kept(s, i)

\* The row of an item whose parent is there.
FitsIn(v, s, i) ==
  IF Has(s, i) THEN v.id = row[s][i].id /\ v.par = row[s][i].par
  ELSE /\ v.id = NextId(s, Kind[i])
       /\ IF Parent[i] = i THEN v.par = 0 ELSE Has(s, Parent[i]) /\ v.par = row[s][Parent[i]].id

LEMMA RowKept ==
  ASSUME RowsInv, NEW s \in Stores, NEW i \in Items, NEW v, RowRec(v), v.ver > 0, FitsIn(v, s, i),
         row' = [row EXCEPT ![s][i] = v]
  PROVE  RowsInv' /\ AllKept
<1>1. RowsTyped' /\ (\A t \in Stores, j \in Items : row'[t][j] = IF t = s /\ j = i THEN v ELSE row[t][j])
  BY DEF RowsInv, RowsTyped, RowRec
<1>2. \A t \in Stores, j \in Items : Has(t, j)' <=> (Has(t, j) \/ (t = s /\ j = i))
  BY <1>1 DEF Has
<1>3. AllKept
  BY <1>1, <1>2 DEF AllKept, Kept, FitsIn
<1>4. ASSUME NEW t \in Stores, NEW k 
      PROVE  Of(t, k)' = IF t = s /\ Kind[i] = k THEN Of(t, k) \cup {i} ELSE Of(t, k)
  BY <1>2 DEF Of
<1>5. ASSUME NEW t \in Stores, NEW k 
      PROVE  /\ Cardinality(Of(t, k)) \in Nat /\ Cardinality(Of(t, k)') \in Nat
             /\ Cardinality(Of(t, k)') = IF t = s /\ Kind[i] = k /\ ~Has(s, i) 
                                         THEN Cardinality(Of(t, k)) + 1 ELSE Cardinality(Of(t, k))
  <2>1. IsFiniteSet(Of(t, k)) /\ Cardinality(Of(t, k)) \in Nat
    BY RowsCount
  <2>2. i \in Of(s, Kind[i]) <=> Has(s, i)
    BY DEF Of
  <2>3. CASE t = s /\ Kind[i] = k /\ ~Has(s, i)
    BY <1>4, <2>1, <2>2, <2>3, FS_AddElement
  <2>4. CASE ~(t = s /\ Kind[i] = k /\ ~Has(s, i))
    <3>1. Of(t, k)' = Of(t, k)
      BY <1>4, <2>2, <2>4
    <3> QED BY <2>1, <2>4, <3>1
  <2> QED BY <2>3, <2>4
<1>6. SameParents'
  <2> SUFFICES ASSUME NEW t \in Stores, NEW j \in Items, Has(t, j)', Parent[j] # j
               PROVE  Has(t, Parent[j])' /\ row'[t][j].par = row'[t][Parent[j]].id
    BY DEF SameParents
  <2>1. Parent[j] \in Items
    BY SyncAssumption
  <2>2. Has(t, Parent[j]) /\ row'[t][j].par = row[t][Parent[j]].id
    <3>1. CASE Has(t, j)
      BY <1>3, <3>1, <2>1 DEF RowsInv, SameParents, AllKept, Kept
    <3>2. CASE ~Has(t, j)
      BY <1>1, <1>2, <3>2 DEF FitsIn
    <3> QED BY <3>1, <3>2
  <2> QED BY <1>3, <2>1, <2>2 DEF AllKept, Kept
<1>7. ASSUME NEW t \in Stores, NEW j \in Items, Has(t, j)'
      PROVE  row'[t][j].id \in 1..Cardinality(Of(t, Kind[j])') /\ (Parent[j] = j => row'[t][j].par = 0)
  <2>1. CASE Has(t, j)
    <3>1. row[t][j].id \in 1..Cardinality(Of(t, Kind[j])) /\ (Parent[j] = j => row[t][j].par = 0)
      BY <2>1 DEF RowsInv, Numbered
    <3>2. row'[t][j].id = row[t][j].id /\ row'[t][j].par = row[t][j].par
      BY <1>3, <2>1 DEF AllKept, Kept
    <3> QED BY <1>5, <3>1, <3>2
  <2>2. CASE ~Has(t, j)
    <3>1. t = s /\ j = i /\ row'[t][j] = v
      BY <1>1, <1>2, <1>7, <2>2
    <3>2. v.id = Cardinality(Of(s, Kind[i])) + 1 /\ (Parent[i] = i => v.par = 0)
      BY <2>2, <3>1, RowsCount DEF FitsIn
    <3> QED BY <1>5, <2>2, <3>1, <3>2
  <2> QED BY <2>1, <2>2
<1>8. ASSUME NEW t \in Stores, NEW j \in Items, NEW l \in Items,
             Has(t, j)', Has(t, l)', Kind[j] = Kind[l], row'[t][j].id = row'[t][l].id
      PROVE  j = l
  <2>1. CASE Has(t, j) /\ Has(t, l)
    BY <1>3, <1>8, <2>1 DEF RowsInv, Numbered, AllKept, Kept
  <2>2. ASSUME NEW x \in Items, NEW y \in Items, Has(t, x), ~Has(t, y), Has(t, y)', Kind[x] = Kind[y]
        PROVE  row'[t][x].id # row'[t][y].id
    <3>1. t = s /\ y = i /\ row'[t][y].id = Cardinality(Of(s, Kind[i])) + 1
      BY <1>1, <1>2, <2>2, RowsCount DEF FitsIn
    <3>2. row'[t][x].id \in 1..Cardinality(Of(s, Kind[i]))
      BY <1>3, <2>2, <3>1 DEF RowsInv, Numbered, AllKept, Kept
    <3> QED BY <1>5, <3>1, <3>2
  <2>3. CASE ~Has(t, j) /\ ~Has(t, l)
    BY <1>2, <1>8, <2>3
  <2> QED BY <1>8, <2>1, <2>2, <2>3
<1>9. Numbered'
  BY <1>7, <1>8 DEF Numbered
<1> QED BY <1>1, <1>3, <1>6, <1>9 DEF RowsInv

LEMMA RowsAlike ==
  ASSUME RowsInv, UNCHANGED row
  PROVE  RowsInv' /\ AllKept
BY DEF RowsInv, RowsTyped, RowRec, Numbered, SameParents, Of, Has, AllKept, Kept

-----------------------------------------------------------------------------
(* Maps of ids, and what is under way.                                     *)

\* An entry of the map for reader r and writer w is about one item of both.
Entry(w, r, k, from, to) ==
  \E i \in Items : /\ Kind[i] = k /\ Has(r, i) /\ row[r][i].id = from
                   /\ Has(w, i) /\ row[w][i].id = to
SyncOK(st, w, r) ==
  /\ {"when", "max", "count", "map"} \subseteq DOMAIN st
  /\ st.count \in [Tables -> Nat] /\ st.map \in [Tables -> [Ids -> Nat]]
  /\ \A k \in Tables, x \in Ids : st.map[k][x] # 0 => Entry(w, r, k, x, st.map[k][x])

\* A row of a chunk is a row the reader had; it may have changed since.
Carried(x, r) ==
  /\ {"item", "val"} \subseteq DOMAIN x
  /\ x.item \in Items /\ Has(r, x.item) /\ RowRec(x.val) /\ x.val.ver > 0
  /\ x.val.id = row[r][x.item].id /\ x.val.par = row[r][x.item].par
ChunkOK(chunk, w, r) ==
  /\ {"user", "st", "size", "rows"} \subseteq DOMAIN chunk
  /\ SyncOK(chunk.st, w, r)
  /\ Len(chunk.rows) \in Nat /\ chunk.rows \in Seq({chunk.rows[n] : n \in 1..Len(chunk.rows)})
  /\ \A n \in 1..Len(chunk.rows) : Carried(chunk.rows[n], r)

Errands == [op : {"push", "mark", "wake"}, from : Stores, to : Managed]
JobOK ==
  /\ {"kind", "target", "todo", "chunk"} \subseteq DOMAIN job
  /\ job.todo \in Seq(Errands)
  /\ job.chunk # NoChunk => Doing("push") /\ ChunkOK(job.chunk, To, From)
MgrOK ==
  /\ {"avail", "active", "backups", "conflicts", "cache", "isActive"} \subseteq DOMAIN mgr
  /\ mgr.active \in Managed /\ mgr.backups \subseteq Managed /\ mgr.conflicts \subseteq Managed
SyncsOK ==
  /\ DOMAIN sync = Managed
  /\ \A w \in Managed : DOMAIN sync[w] = Stores /\ \A r \in Stores : SyncOK(sync[w][r], w, r)

SyInv == RowsInv /\ JobOK /\ MgrOK /\ SyncsOK /\ clock \in Nat

LEMMA SyncKept ==
  ASSUME AllKept, NEW st, NEW w \in Managed, NEW r \in Stores, SyncOK(st, w, r)
  PROVE  SyncOK(st, w, r)'
<1>1. w \in Stores
  BY DEF Stores
<1>2. \A k, x, y : Entry(w, r, k, x, y) => Entry(w, r, k, x, y)'
  BY <1>1 DEF Entry, AllKept, Kept
<1> QED BY <1>2 DEF SyncOK

LEMMA CarriedKept ==
  ASSUME AllKept, NEW x, NEW r \in Stores, Carried(x, r)
  PROVE  Carried(x, r)'
BY DEF Carried, AllKept, Kept

LEMMA SyncsKept ==
  ASSUME AllKept, SyncsOK, UNCHANGED sync
  PROVE  SyncsOK'
<1>1. ASSUME NEW w \in Managed, NEW r \in Stores PROVE SyncOK(sync[w][r], w, r)'
  <2>1. SyncOK(sync[w][r], w, r)
    BY DEF SyncsOK
  <2>2. PICK st : st = sync[w][r]
    OBVIOUS
  <2>3. SyncOK(st, w, r)'
    BY <2>1, <2>2, SyncKept
  <2>4. st = sync'[w][r]
    BY <2>2
  <2> QED BY <2>3, <2>4
<1> QED BY <1>1 DEF SyncsOK

LEMMA ChunkKept ==
  ASSUME AllKept, NEW c, NEW w \in Managed, NEW r \in Stores, ChunkOK(c, w, r)
  PROVE  ChunkOK(c, w, r)'
<1>1. SyncOK(c.st, w, r)'
  BY SyncKept DEF ChunkOK
<1>2. \A n \in 1..Len(c.rows) : Carried(c.rows[n], r)'
  BY CarriedKept DEF ChunkOK
<1> QED BY <1>1, <1>2 DEF ChunkOK

LEMMA ErrandEnds ==
  ASSUME JobOK, job.todo # <<>>
  PROVE  From \in Stores /\ To \in Managed /\ Head(job.todo) \in Errands /\ Tail(job.todo) \in Seq(Errands)
<1>1. Head(job.todo) \in Errands /\ Tail(job.todo) \in Seq(Errands)
  BY DEF JobOK
<1> QED BY <1>1 DEF Errands, From, To

\* The job goes on as it was.
LEMMA JobKept ==
  ASSUME AllKept, JobOK, UNCHANGED job
  PROVE  JobOK'
<1>1. Doing("push") => Doing("push")'
  BY DEF Doing
<1>2. ASSUME job.chunk # NoChunk PROVE ChunkOK(job.chunk, To, From)'
  <2>1. ChunkOK(job.chunk, To, From) /\ From \in Stores /\ To \in Managed
    BY <1>2, ErrandEnds DEF JobOK, Doing
  <2>2. PICK c, w, r : c = job.chunk /\ w = To /\ r = From
    OBVIOUS
  <2>3. ChunkOK(c, w, r)'
    BY <2>1, <2>2, ChunkKept
  <2>4. c = job'.chunk /\ w = To' /\ r = From'
    BY <2>2 DEF To, From
  <2> QED BY <2>3, <2>4
<1> QED BY <1>1, <1>2 DEF JobOK

\* No job, or one between chunks.
LEMMA NoChunkJob ==
  ASSUME {"kind", "target", "todo", "chunk"} \subseteq DOMAIN job', job'.todo \in Seq(Errands), job'.chunk = NoChunk
  PROVE  JobOK'
BY DEF JobOK

LEMMA JobGone ==
  ASSUME job' = NoJob
  PROVE  JobOK'
<1>1. job'.todo \in Seq(Errands) /\ job'.chunk = NoChunk /\ DOMAIN job' = {"kind", "target", "todo", "chunk"}
  BY DEF NoJob
<1> QED BY <1>1, NoChunkJob

LEMMA Partition ==
  ASSUME NEW cache
  PROVE  LET m == Available(cache)
         IN  /\ {"avail", "active", "backups", "conflicts", "cache", "isActive"} \subseteq DOMAIN m
             /\ m.active \in Managed /\ m.backups \subseteq Managed /\ m.conflicts \subseteq Managed
<1>1. Selected(cache) \in Managed
  <2> DEFINE own == {n \in DOMAIN Order : cache[Order[n]] = Order[n]}
  <2>1. \A n \in DOMAIN Order : Order[n] \in Managed
    BY DEF Managed, Range
  <2>2. CASE own = {}
    BY <2>2, StoresManaged DEF Selected
  <2>3. CASE own # {}
    <3>1. Min(own) \in own
      BY <2>3, StoresManaged, LeastExists
    <3> QED BY <2>1, <2>3, <3>1 DEF Selected
  <2> QED BY <2>2, <2>3
<1> QED BY <1>1 DEF Available

-----------------------------------------------------------------------------
(* Steps.                                                                  *)

LEMMA ManyPushes ==
  ASSUME NEW S, S \subseteq Managed, NEW s \in Managed
  PROVE  /\ Pushes(s, S) \in Seq(Errands)
         /\ [k \in 1..Len(InOrder(S)) |-> Push(InOrder(S)[k], s)] \in Seq(Errands)
<1>1. Len(InOrder(S)) \in Nat /\ \A n \in 1..Len(InOrder(S)) : InOrder(S)[n] \in Managed
  BY RankedOrder
<1>2. \A n \in 1..Len(InOrder(S)) : Push(s, InOrder(S)[n]) \in Errands /\ Push(InOrder(S)[n], s) \in Errands
  BY <1>1 DEF Push, Errands, Stores
<1> QED BY <1>1, <1>2 DEF Pushes

LEMMA SwitchErrands ==
  ASSUME NEW n \in Managed, NEW S, S \subseteq Managed, MgrOK
  PROVE  Switch(n, S) \in Seq(Errands)
<1> DEFINE source == IF S = {} THEN mgr.active ELSE n
           one == [k \in 1..Len(InOrder(S)) |-> Push(InOrder(S)[k], n)]
<1>1. source \in Managed
  BY DEF MgrOK
<1>2. one \in Seq(Errands) 
  BY ManyPushes
<1>3. <<Mark(source)>> \in Seq(Errands)
  BY <1>1 DEF Mark, Errands, Stores
<1>4. <<Wake(n)>> \in Seq(Errands)
  BY DEF Wake, Errands, Stores
<1>5. Pushes(source, Managed \ {source}) \in Seq(Errands)
  BY <1>1, ManyPushes
<1>6. Switch(n, S) = one \o <<Mark(source)>> \o Pushes(source, Managed \ {source}) \o <<Wake(n)>>
  BY DEF Switch
<1> HIDE DEF one, source
<1> QED BY <1>2, <1>3, <1>4, <1>5, <1>6

\* A step that leaves the rows and the maps alone.
LEMMA OthersStay ==
  ASSUME SyInv, UNCHANGED <<row, sync>>, clock' \in Nat, MgrOK', JobOK'
  PROVE  SyInv'
BY RowsAlike, SyncsKept DEF SyInv

LEMMA Begun ==
  ASSUME SyInv, UNCHANGED <<row, sync, clock>>, NEW kind, NEW target, NEW todo \in Seq(Errands), NEW m,
         Begin(kind, target, todo, m), m = mgr \/ \E S \in SUBSET Managed : m = [mgr EXCEPT !.conflicts = S]
  PROVE  SyInv'
<1>1. MgrOK'
  BY DEF SyInv, MgrOK, Begin
<1>2. JobOK'
  <2>1. job' = [kind |-> kind, target |-> target, todo |-> todo, chunk |-> NoChunk]
    BY DEF Begin
  <2>2. DOMAIN job' = {"kind", "target", "todo", "chunk"} /\ job'.todo = todo /\ job'.chunk = NoChunk
    BY <2>1
  <2> QED BY <2>2, NoChunkJob
<1> QED BY <1>1, <1>2, OthersStay DEF SyInv

LEMMA MakeAvailableKeeps ==
  ASSUME SyInv, MakeAvailable
  PROVE  SyInv'
<1>1. MgrOK'
  <2>1. PICK cache : mgr' = Available(cache)
    BY DEF MakeAvailable
  <2> QED BY <2>1, Partition DEF MgrOK
<1>2. JobOK'
  BY JobKept, RowsAlike DEF SyInv, MakeAvailable
<1> QED BY <1>1, <1>2, OthersStay DEF SyInv, MakeAvailable

LEMMA UpdateBackupsKeeps ==
  ASSUME SyInv, UpdateBackups
  PROVE  SyInv'
<1>1. Pushes(mgr.active, mgr.backups) \in Seq(Errands)
  BY ManyPushes DEF SyInv, MgrOK
<1> QED BY <1>1, Begun DEF UpdateBackups

LEMMA SetActiveKeeps ==
  ASSUME SyInv, NEW n \in Managed, SetActive(n)
  PROVE  SyInv'
<1>1. PICK c : /\ c = IF mgr.conflicts = {} THEN {} ELSE (mgr.conflicts \cup {mgr.active}) \ {n}
               /\ Begin("switch", n, Switch(n, c), [mgr EXCEPT !.conflicts = c])
  BY DEF SetActive
<1>2. c \subseteq Managed
  BY <1>1 DEF SyInv, MgrOK
<1>3. Switch(n, c) \in Seq(Errands)
  BY <1>2, SwitchErrands DEF SyInv
<1>4. UNCHANGED <<row, sync, clock>>
  BY DEF SetActive
<1> QED BY <1>1, <1>2, <1>3, <1>4, Begun

LEMMA ImportKeeps ==
  ASSUME SyInv, Import
  PROVE  SyInv'
<1>1. PICK r \in Outside : Begin("import", mgr.active, <<Push(r, mgr.active)>>, mgr)
  BY DEF Import
<1>2. <<Push(r, mgr.active)>> \in Seq(Errands)
  BY DEF SyInv, MgrOK, Push, Errands, Stores
<1> QED BY <1>1, <1>2, Begun DEF Import

\* The errand is done.
LEMMA NextErrand ==
  ASSUME JobOK, job.todo # <<>>, job.chunk = NoChunk \/ job'.chunk = NoChunk,
         job' = [job EXCEPT !.todo = Tail(@)] \/ job' = [job EXCEPT !.chunk = NoChunk, !.todo = Tail(@)]
  PROVE  JobOK'
<1>1. job'.chunk = NoChunk /\ DOMAIN job' = DOMAIN job /\ job'.todo = Tail(job.todo)
  BY DEF JobOK
<1> QED BY <1>1, ErrandEnds, NoChunkJob DEF JobOK

LEMMA MarkSourceKeeps ==
  ASSUME SyInv, MarkSource
  PROVE  SyInv'
<1>1. JobOK'
  BY NextErrand DEF SyInv, MarkSource, JobOK, Doing
<1> QED BY <1>1, OthersStay DEF SyInv, MarkSource, MgrOK

LEMMA WakeUpKeeps ==
  ASSUME SyInv, WakeUp
  PROVE  SyInv'
<1>1. JobOK'
  BY NextErrand DEF SyInv, WakeUp, JobOK, Doing
<1>2. MgrOK'
  <2>1. PICK cache : mgr' = Available(cache)
    BY DEF WakeUp
  <2> QED BY <2>1, Partition DEF MgrOK
<1> QED BY <1>1, <1>2, OthersStay DEF SyInv, WakeUp

LEMMA JobEndsKeeps ==
  ASSUME SyInv, MergeThrows \/ Finish \/ StoreFails \/ SyncCrash
  PROVE  SyInv'
<1>1. JobOK'
  BY JobGone DEF MergeThrows, Finish, StoreFails, SyncCrash, CutOff
<1>2. MgrOK'
  <2>1. CASE mgr' = mgr
    BY <2>1 DEF SyInv, MgrOK
  <2>2. CASE mgr' = Asleep
    BY <2>2, StoresManaged DEF MgrOK, Asleep
  <2> QED BY <2>1, <2>2 DEF MergeThrows, Finish, StoreFails, SyncCrash
<1> QED BY <1>1, <1>2, OthersStay DEF SyInv, MergeThrows, Finish, StoreFails, SyncCrash

LEMMA WriteKeeps ==
  ASSUME SyInv, Write
  PROVE  SyInv'
<1>1. PICK i \in Items : 
        /\ Parent[i] = i \/ Has(mgr.active, Parent[i])
        /\ row' = [row EXCEPT ![mgr.active][i] =
                     IF Has(mgr.active, i) THEN [@ EXCEPT !.ver = clock + 1, !.at = clock + 1]
                     ELSE [ver |-> clock + 1, at |-> clock + 1, id |-> NextId(mgr.active, Kind[i]),
                           par |-> IF Parent[i] = i THEN 0 ELSE row[mgr.active][Parent[i]].id]]
  BY DEF Write
<1>2. mgr.active \in Stores /\ clock \in Nat /\ DOMAIN row = Stores /\ DOMAIN row[mgr.active] = Items /\ RowRec(row[mgr.active][i])
  BY DEF SyInv, MgrOK, Stores, RowsInv, RowsTyped
<1>3. PICK v : v = IF Has(mgr.active, i) THEN [row[mgr.active][i] EXCEPT !.ver = clock + 1, !.at = clock + 1]
                     ELSE [ver |-> clock + 1, at |-> clock + 1, id |-> NextId(mgr.active, Kind[i]),
                           par |-> IF Parent[i] = i THEN 0 ELSE row[mgr.active][Parent[i]].id]
  OBVIOUS
<1>4. RowRec(v) /\ v.ver > 0 /\ FitsIn(v, mgr.active, i)
  BY <1>1, <1>2, <1>3 DEF RowRec, FitsIn
<1>5. row' = [row EXCEPT ![mgr.active][i] = v]
  BY <1>1, <1>2, <1>3
<1>6. RowsInv' /\ AllKept
  BY <1>2, <1>4, <1>5, RowKept DEF SyInv
<1> QED BY <1>6, JobKept, SyncsKept DEF SyInv, Write, MgrOK

LEMMA FetchKeeps ==
  ASSUME SyInv, Fetch
  PROVE  SyInv'
<1> DEFINE st == SyncState(To, From)
           q == ChunkRows(From, st)
           c == [user |-> ChunkUser(From, st), st |-> st, size |-> Len(q),
                 rows |-> [n \in 1..Len(q) |-> [item |-> q[n], val |-> row[From][q[n]]]]]
<1>1. From \in Stores /\ To \in Managed /\ Doing("push")
  BY ErrandEnds DEF SyInv, Fetch, Doing
<1>2. SyncOK(st, To, From)
  BY <1>1 DEF SyInv, SyncsOK, SyncState
<1>3. q \in Seq({i \in Items : Has(From, i)}) /\ Len(q) \in Nat
  BY <1>1, <1>2, ChunkItems DEF SyInv, SyncOK
<1>4. \A n \in 1..Len(q) : Carried([item |-> q[n], val |-> row[From][q[n]]], From)
  <2> HIDE DEF q
  <2>1. \A n \in 1..Len(q) : q[n] \in Items /\ Has(From, q[n])
    BY <1>3
  <2> QED BY <1>1, <2>1 DEF Carried, SyInv, RowsInv, RowsTyped, Has
<1>5. ChunkOK(c, To, From)
  <2>1. {"user", "st", "size", "rows"} \subseteq DOMAIN c /\ c.st = st
    OBVIOUS
  <2>2. Len(q) \in Nat /\ c.rows = [n \in 1..Len(q) |-> [item |-> q[n], val |-> row[From][q[n]]]]
    BY <1>3
  <2>3. Len(c.rows) = Len(q) /\ c.rows \in Seq({c.rows[n] : n \in 1..Len(c.rows)})
    <3> HIDE DEF q, c
    <3>1. c.rows \in Seq({[item |-> q[n], val |-> row[From][q[n]]] : n \in 1..Len(q)}) /\ Len(c.rows) = Len(q)
      BY <2>2
    <3> QED BY <2>2, <3>1
  <2>4. \A n \in 1..Len(c.rows) : Carried(c.rows[n], From)
    <3> HIDE DEF q, c
    <3> QED BY <1>4, <2>2, <2>3
  <2> HIDE DEF c, st
  <2> QED BY <1>2, <1>3, <2>1, <2>3, <2>4 DEF ChunkOK
<1>6. job' = [job EXCEPT !.chunk = c]
  BY DEF Fetch
<1>7. JobOK'
  <2>1. PICK d, w, r : d = c /\ w = To /\ r = From
    OBVIOUS
  <2> HIDE DEF c
  <2>2. DOMAIN job' = DOMAIN job /\ job'.chunk = c /\ job'.todo = job.todo /\ job'.kind = job.kind
    BY <1>6 DEF SyInv, JobOK
  <2>3. w = To' /\ r = From' /\ Doing("push")' /\ d = job'.chunk
    BY <1>1, <2>1, <2>2 DEF To, From, Doing
  <2>4. ChunkOK(d, w, r)'
    BY <1>1, <1>5, <2>1, ChunkKept, RowsAlike DEF SyInv, Fetch
  <2> QED BY <2>2, <2>3, <2>4 DEF SyInv, JobOK
<1>8. MgrOK'
  BY DEF SyInv, MgrOK, Fetch
<1> QED BY <1>7, <1>8, OthersStay DEF SyInv, Fetch

\* The job has another chunk of the same errand.
LEMMA ChunkChanges ==
  ASSUME JobOK, Doing("push"), 
         DOMAIN job' = DOMAIN job, job'.todo = job.todo, job'.kind = job.kind,
         NEW c, NEW w, NEW r, c = job'.chunk, w = To, r = From, ChunkOK(c, w, r)'
  PROVE  JobOK'
<1>1. w = To' /\ r = From' /\ Doing("push")'
  BY DEF To, From, Doing
<1> QED BY <1>1 DEF JobOK

LEMMA MergeUserKeeps ==
  ASSUME SyInv, MergeUser
  PROVE  SyInv'
<1>1. From \in Stores /\ To \in Managed /\ Doing("push") /\ ChunkOK(job.chunk, To, From)
  BY ErrandEnds DEF SyInv, MergeUser, Doing, JobOK
<1>2. PICK c, w, r : c = [job.chunk EXCEPT !.user = {}] /\ w = To /\ r = From
  OBVIOUS
<1>3. job' = [job EXCEPT !.chunk = c]
  BY <1>2 DEF MergeUser
<1>4. ChunkOK(c, w, r)
  BY <1>1, <1>2 DEF ChunkOK
<1>5. ChunkOK(c, w, r)'
  BY <1>1, <1>2, <1>4, ChunkKept, RowsAlike DEF SyInv, MergeUser
<1>6. JobOK'
  <2>1. DOMAIN job' = DOMAIN job /\ job'.todo = job.todo /\ job'.kind = job.kind /\ job'.chunk = c
    BY <1>3 DEF SyInv, JobOK
  <2> QED BY <1>1, <1>2, <1>5, <2>1, ChunkChanges DEF SyInv
<1> QED BY <1>6, OthersStay DEF SyInv, MergeUser, MgrOK

LEMMA EndChunkKeeps ==
  ASSUME SyInv, EndChunk
  PROVE  SyInv'
<1>1. From \in Stores /\ To \in Managed /\ job.todo # <<>> /\ ChunkOK(job.chunk, To, From)
  BY ErrandEnds DEF SyInv, EndChunk, Doing, JobOK
<1>2. PICK st : /\ st = Ended(job.chunk.st) \/ st = job.chunk.st
                /\ sync' = [sync EXCEPT ![To][From] = st]
  BY DEF EndChunk
<1>3. SyncOK(st, To, From)
  <2>1. CASE st = job.chunk.st
    BY <1>1, <2>1 DEF ChunkOK
  <2>2. CASE st = Ended(job.chunk.st)
    <3>1. SyncOK(job.chunk.st, To, From)
      BY <1>1 DEF ChunkOK
    <3>2. DOMAIN st = DOMAIN job.chunk.st /\ st.count = [k \in Tables |-> 0] /\ st.map = job.chunk.st.map
      BY <2>2, <3>1 DEF Ended, SyncOK
    <3> QED BY <3>1, <3>2 DEF SyncOK
  <2> QED BY <1>2, <2>1, <2>2
<1>4. AllKept /\ RowsInv'
  BY RowsAlike DEF SyInv, EndChunk
<1>5. SyncsOK'
  <2>1. DOMAIN sync' = Managed /\ \A w \in Managed : DOMAIN sync'[w] = Stores
    BY <1>1, <1>2 DEF SyInv, SyncsOK
  <2>2. ASSUME NEW w \in Managed, NEW r \in Stores PROVE SyncOK(sync[w][r], w, r)'
    <3>1. PICK x : x = sync'[w][r] /\ SyncOK(x, w, r)
      <4>1. sync'[w][r] = IF w = To /\ r = From THEN st ELSE sync[w][r]
        BY <1>1, <1>2 DEF SyInv, SyncsOK
      <4> QED BY <1>3, <4>1 DEF SyInv, SyncsOK
    <3>2. SyncOK(x, w, r)'
      BY <1>4, <3>1, SyncKept
    <3> QED BY <3>1, <3>2
  <2> QED BY <2>1, <2>2 DEF SyncsOK
<1>6. JobOK'
  <2>1. job' = [job EXCEPT !.chunk = NoChunk, !.todo = IF job.chunk.size = 0 THEN Tail(@) ELSE @]
    BY DEF EndChunk
  <2>2. DOMAIN job' = DOMAIN job /\ job'.chunk = NoChunk /\ job'.todo \in {job.todo, Tail(job.todo)}
    BY <2>1 DEF SyInv, JobOK
  <2> QED BY <1>1, <2>2, ErrandEnds, NoChunkJob DEF SyInv, JobOK
<1> QED BY <1>4, <1>5, <1>6 DEF SyInv, EndChunk, MgrOK

\* The parent of a row that arrives is the parent of the item in the writer.
LEMMA ParentArrived ==
  ASSUME RowsInv, NEW w \in Managed, NEW r \in Stores, NEW st, SyncOK(st, w, r), NEW x, Carried(x, r),
         ~Unmapped(x.item, x.val, st.map), Parent[x.item] # x.item
  PROVE  Has(w, Parent[x.item]) /\ Mapped(x.item, x.val, st.map) = row[w][Parent[x.item]].id
<1> DEFINE p == Parent[x.item]
<1>1. p \in Items /\ Kind[p] \in Tables /\ w \in Stores
  BY SyncAssumption DEF Carried, Stores
<1>2. Has(r, p) /\ x.val.par = row[r][p].id
  BY DEF RowsInv, SameParents, Carried
<1>3. row[r][p].id \in Ids
  <2>1. row[r][p].id \in 1..Cardinality(Of(r, Kind[p]))
    BY <1>1, <1>2 DEF RowsInv, Numbered
  <2>2. Cardinality(Items) \in Nat
    BY SyncAssumption, FS_CardinalityType
  <2> QED BY <2>1, <2>2, RowsCount DEF Ids
<1>4. Mapped(x.item, x.val, st.map) = st.map[Kind[p]][row[r][p].id]
  BY <1>2 DEF Mapped
<1>5. Entry(w, r, Kind[p], row[r][p].id, st.map[Kind[p]][row[r][p].id])
  BY <1>1, <1>3, <1>4 DEF SyncOK, Unmapped
<1>6. PICK i \in Items : /\ Kind[i] = Kind[p] /\ Has(r, i) /\ row[r][i].id = row[r][p].id
                         /\ Has(w, i) /\ row[w][i].id = st.map[Kind[p]][row[r][p].id]
  BY <1>5 DEF Entry
<1>7. i = p
  BY <1>1, <1>2, <1>6 DEF RowsInv, Numbered
<1> QED BY <1>4, <1>6, <1>7

\* So a row that arrives meets the row of its item, or none.
LEMMA MatchesItself ==
  ASSUME RowsInv, To \in Managed, NEW r \in Stores, NEW st, SyncOK(st, To, r), NEW x, Carried(x, r),
         ~Unmapped(x.item, x.val, st.map)
  PROVE  Matches(x.item, x.val, st.map) = IF Has(To, x.item) THEN {x.item} ELSE {}
<1> DEFINE i == x.item
           p == Parent[i]
<1>1. i \in Items /\ p \in Items /\ To \in Stores
  BY SyncAssumption DEF Carried, Stores
<1>2. CASE p = i
  BY <1>1, <1>2 DEF Matches
<1>3. CASE p # i
  <2>1. Has(To, p) /\ Mapped(i, x.val, st.map) = row[To][p].id
    BY <1>3, ParentArrived
  <2>2. row[To][p].id # 0
    <3>1. row[To][p].id \in 1..Cardinality(Of(To, Kind[p]))
      BY <1>1, <2>1 DEF RowsInv, Numbered
    <3>2. Cardinality(Of(To, Kind[p])) \in Nat
      BY <1>1, RowsCount
    <3> QED BY <3>1, <3>2
  <2>3. ASSUME NEW j \in Items, Kind[j] = Kind[i], Has(To, j), row[To][j].par = row[To][p].id
        PROVE  j = i
    <3>1. Parent[j] # j
      BY <1>1, <2>2, <2>3 DEF RowsInv, Numbered
    <3>2. Parent[j] \in Items /\ Kind[Parent[j]] = Kind[p]
      BY <1>1, <1>3, <2>3, <3>1, SyncAssumption
    <3>3. Has(To, Parent[j]) /\ row[To][j].par = row[To][Parent[j]].id
      BY <1>1, <2>3, <3>1 DEF RowsInv, SameParents
    <3>4. Parent[j] = p
      BY <1>1, <2>1, <2>3, <3>2, <3>3 DEF RowsInv, Numbered
    <3> QED BY <1>1, <1>3, <2>3, <3>1, <3>4, SyncAssumption
  <2>4. Has(To, i) => row[To][i].par = row[To][p].id
    BY <1>1, <1>3 DEF RowsInv, SameParents
  <2> QED BY <1>1, <1>3, <2>1, <2>3, <2>4 DEF Matches
<1> QED BY <1>2, <1>3

\* What is merged into it fits in.
LEMMA MergedFits ==
  ASSUME RowsInv, To \in Managed, NEW r \in Stores, NEW st, SyncOK(st, To, r), NEW x, Carried(x, r),
         ~Unmapped(x.item, x.val, st.map), NEW new,
         new = IF Has(To, x.item) THEN MergeExisting(x.item, row[To][x.item], x.val) 
               ELSE MergeNew(x.item, x.val, st.map)
  PROVE  RowRec(new) /\ new.ver > 0 /\ FitsIn(new, To, x.item)
<1>1. x.item \in Items /\ To \in Stores /\ Kind[x.item] \in 1..4 
  BY SyncAssumption DEF Carried, Stores, Tables
<1>2. CASE Has(To, x.item)
  <2>1. RowRec(row[To][x.item]) /\ row[To][x.item].ver > 0
    BY <1>1, <1>2 DEF RowsInv, RowsTyped, Has
  <2>2. new \in {MergeProven(row[To][x.item], x.val), MergeNewer(row[To][x.item], x.val), MergeReq(row[To][x.item], x.val)}
    BY <1>1, <1>2 DEF MergeExisting
  <2>3. RowRec(new) /\ new.ver > 0 /\ new.id = row[To][x.item].id /\ new.par = row[To][x.item].par
    BY <2>1, <2>2 DEF MergeProven, MergeNewer, MergeReq, RowRec, Carried
  <2> QED BY <1>2, <2>3 DEF FitsIn
<1>3. CASE ~Has(To, x.item)
  <2>1. RowRec(new) /\ new.ver > 0 /\ new.id = NextId(To, Kind[x.item]) /\ new.par = Mapped(x.item, x.val, st.map)
    BY <1>3 DEF MergeNew, RowRec, Carried
  <2>2. CASE Parent[x.item] = x.item
    BY <1>3, <2>1, <2>2 DEF FitsIn, Mapped
  <2>3. CASE Parent[x.item] # x.item
    BY <1>3, <2>1, <2>3, ParentArrived DEF FitsIn
  <2> QED BY <2>2, <2>3
<1> QED BY <1>2, <1>3

\* The next row x of the chunk is merged: the writer's row of its item becomes new.
MergesRow(x, new) ==
  /\ From \in Stores /\ To \in Managed /\ Doing("push")
  /\ ChunkOK(job.chunk, To, From) /\ Carried(x, From) /\ x = Head(job.chunk.rows)
  /\ RowRec(new) /\ new.ver > 0 /\ FitsIn(new, To, x.item)
  /\ new = IF Has(To, x.item) THEN MergeExisting(x.item, row[To][x.item], x.val) 
           ELSE MergeNew(x.item, x.val, job.chunk.st.map)
  /\ row' = [row EXCEPT ![To][x.item] = new]
  /\ DOMAIN job' = DOMAIN job /\ job'.todo = job.todo /\ job'.kind = job.kind /\ job'.target = job.target
  /\ DOMAIN job'.chunk = DOMAIN job.chunk /\ job'.chunk.rows = Tail(job.chunk.rows)
  /\ job'.chunk.user = job.chunk.user /\ job'.chunk.size = job.chunk.size
  /\ DOMAIN job'.chunk.st = DOMAIN job.chunk.st
  /\ job'.chunk.st.map = [job.chunk.st.map EXCEPT ![Kind[x.item]][x.val.id] = new.id]
  /\ job'.chunk.st.count = [job.chunk.st.count EXCEPT ![Kind[x.item]] = @ + 1]
  /\ job'.chunk.st.when = job.chunk.st.when
  /\ job'.chunk.st.max = Max({job.chunk.st.max, x.val.at})

LEMMA MergeRowWrites ==
  ASSUME SyInv, MergeRow
  PROVE  \E x, new : MergesRow(x, new)
<1> DEFINE x == Head(job.chunk.rows)
           map == job.chunk.st.map
           same == Matches(x.item, x.val, map)
           j == IF same = {} THEN x.item ELSE CHOOSE l \in same : TRUE
           new == IF same = {} THEN MergeNew(x.item, x.val, map) ELSE MergeExisting(x.item, row[To][j], x.val)
<1>1. From \in Stores /\ To \in Managed /\ Doing("push") /\ ChunkOK(job.chunk, To, From)
  BY ErrandEnds DEF SyInv, MergeRow, Doing, JobOK
<1>2. Carried(x, From)
  <2>1. job.chunk.rows \in Seq({job.chunk.rows[n] : n \in 1..Len(job.chunk.rows)}) /\ job.chunk.rows # <<>>
    BY <1>1 DEF MergeRow, ChunkOK
  <2>2. x = job.chunk.rows[1] /\ 1 \in 1..Len(job.chunk.rows)
    BY <2>1
  <2> QED BY <1>1, <2>2 DEF ChunkOK
<1>3. ~Unmapped(x.item, x.val, map) /\ row' = [row EXCEPT ![To][j] = new]
  BY DEF MergeRow
<1>4. job' = [job EXCEPT !.chunk.rows = Tail(@),
                         !.chunk.st.map = NotePair(@, Kind[x.item], x.val.id, new.id),
                         !.chunk.st.max = Max({@, x.val.at}),
                         !.chunk.st.count[Kind[x.item]] = @ + 1]
  BY DEF MergeRow
<1>5. SyncOK(job.chunk.st, To, From)
  BY <1>1 DEF ChunkOK
<1>6. same = IF Has(To, x.item) THEN {x.item} ELSE {}
  <2> HIDE DEF x
  <2> QED BY <1>1, <1>2, <1>3, <1>5, MatchesItself DEF SyInv
<1>7. j = x.item /\ new = IF Has(To, x.item) THEN MergeExisting(x.item, row[To][x.item], x.val) 
                          ELSE MergeNew(x.item, x.val, map)
  <2> HIDE DEF x, same
  <2> QED BY <1>6
<1>8. RowRec(new) /\ new.ver > 0 /\ FitsIn(new, To, x.item)
  <2> HIDE DEF x, same, new, j
  <2> QED BY <1>1, <1>2, <1>3, <1>5, <1>7, MergedFits DEF SyInv
<1> HIDE DEF x, same, new, j, map
<1>9. /\ DOMAIN job' = DOMAIN job /\ job'.todo = job.todo /\ job'.kind = job.kind /\ job'.target = job.target
      /\ DOMAIN job'.chunk = DOMAIN job.chunk /\ job'.chunk.rows = Tail(job.chunk.rows)
      /\ job'.chunk.user = job.chunk.user /\ job'.chunk.size = job.chunk.size
      /\ job'.chunk.st.when = job.chunk.st.when /\ job'.chunk.st.max = Max({job.chunk.st.max, x.val.at})
      /\ DOMAIN job'.chunk.st = DOMAIN job.chunk.st
      /\ job'.chunk.st.map = [job.chunk.st.map EXCEPT ![Kind[x.item]][x.val.id] = new.id]
      /\ job'.chunk.st.count = [job.chunk.st.count EXCEPT ![Kind[x.item]] = @ + 1]
  <2>1. {"kind", "target", "todo", "chunk"} \subseteq DOMAIN job 
    BY DEF SyInv, JobOK
  <2>2. {"user", "st", "size", "rows"} \subseteq DOMAIN job.chunk
        /\ {"when", "max", "count", "map"} \subseteq DOMAIN job.chunk.st
    BY <1>1 DEF ChunkOK, SyncOK
  <2> QED BY <1>4, <2>1, <2>2 DEF NotePair
<1>10. MergesRow(x, new)
  <2>1. row' = [row EXCEPT ![To][x.item] = new] /\ x = Head(job.chunk.rows)
    BY <1>3, <1>7 DEF x
  <2>2. new = IF Has(To, x.item) THEN MergeExisting(x.item, row[To][x.item], x.val) 
              ELSE MergeNew(x.item, x.val, job.chunk.st.map)
    BY <1>7 DEF map
  <2> QED BY <1>1, <1>2, <1>8, <1>9, <2>1, <2>2 DEF MergesRow
<1> QED BY <1>10

LEMMA MergeRowKeeps ==
  ASSUME SyInv, MergeRow
  PROVE  SyInv'
<1>1. PICK x, new :
        /\ From \in Stores /\ To \in Managed /\ Doing("push")
        /\ ChunkOK(job.chunk, To, From) /\ Carried(x, From)
        /\ RowRec(new) /\ new.ver > 0 /\ FitsIn(new, To, x.item)
        /\ row' = [row EXCEPT ![To][x.item] = new]
        /\ DOMAIN job' = DOMAIN job /\ job'.todo = job.todo /\ job'.kind = job.kind
        /\ DOMAIN job'.chunk = DOMAIN job.chunk /\ job'.chunk.rows = Tail(job.chunk.rows)
        /\ DOMAIN job'.chunk.st = DOMAIN job.chunk.st
        /\ job'.chunk.st.map = [job.chunk.st.map EXCEPT ![Kind[x.item]][x.val.id] = new.id]
        /\ job'.chunk.st.count = [job.chunk.st.count EXCEPT ![Kind[x.item]] = @ + 1]
  BY MergeRowWrites DEF MergesRow
<1>2. PICK i, k, w, r, from, c : i = x.item /\ k = Kind[i] /\ w = To /\ r = From /\ from = x.val.id /\ c = job'.chunk
  OBVIOUS
<1>3. i \in Items /\ k \in Tables /\ w \in Stores /\ w \in Managed /\ r \in Stores
  BY <1>1, <1>2, SyncAssumption DEF Carried, Stores
<1>4. RowsInv' /\ AllKept
  BY <1>1, <1>2, <1>3, RowKept DEF SyInv
<1>5. new.id \in Nat
  <2>1. row'[w][i] = new
    BY <1>1, <1>2, <1>3 DEF SyInv, RowsInv, RowsTyped
  <2>2. Has(w, i)'
    BY <1>1, <2>1 DEF Has
  <2>3. row'[w][i].id \in 1..Cardinality(Of(w, k))'
    BY <1>2, <1>3, <1>4, <2>2 DEF RowsInv, Numbered
  <2> QED BY <2>1, <2>3
<1>6. Entry(w, r, k, from, new.id)'
  <2>1. Has(r, i)' /\ row'[r][i].id = from
    BY <1>1, <1>2, <1>3, <1>4 DEF Carried, AllKept, Kept
  <2>2. row'[w][i] = new
    BY <1>1, <1>2, <1>3 DEF SyInv, RowsInv, RowsTyped
  <2>3. Has(w, i)'
    BY <1>1, <2>2 DEF Has
  <2> QED BY <1>2, <1>3, <2>1, <2>2, <2>3 DEF Entry
<1>7. PICK old : old = job.chunk /\ ChunkOK(old, w, r)
  BY <1>1, <1>2
<1>8. /\ DOMAIN job' = DOMAIN job /\ job'.todo = job.todo /\ job'.kind = job.kind
      /\ DOMAIN c = DOMAIN old /\ c.rows = Tail(old.rows)
      /\ DOMAIN c.st = DOMAIN old.st
      /\ c.st.map = [old.st.map EXCEPT ![k][from] = new.id]
      /\ c.st.count = [old.st.count EXCEPT ![k] = @ + 1]
  BY <1>1, <1>2, <1>7
<1>9. ChunkOK(old, w, r)'
  BY <1>3, <1>4, <1>7, ChunkKept
<1>10. SyncOK(c.st, w, r)'
  <2>1. c.st.count \in [Tables -> Nat] /\ c.st.map \in [Tables -> [Ids -> Nat]]
    <3>1. old.st.count \in [Tables -> Nat] /\ old.st.map \in [Tables -> [Ids -> Nat]]
      BY <1>7 DEF ChunkOK, SyncOK
    <3>2. PICK m, v, n : m = old.st.map /\ v = new.id /\ n = old.st.count
      OBVIOUS
    <3>3. [m EXCEPT ![k][from] = v] \in [Tables -> [Ids -> Nat]]
      BY <1>3, <1>5, <3>1, <3>2
    <3>4. [n EXCEPT ![k] = @ + 1] \in [Tables -> Nat]
      BY <1>3, <3>1, <3>2
    <3> QED BY <1>8, <3>2, <3>3, <3>4
  <2>2. ASSUME NEW l \in Tables, NEW y \in Ids, c.st.map[l][y] # 0
        PROVE  Entry(w, r, l, y, c.st.map[l][y])'
    <3>1. CASE l = k /\ y = from
      <4>1. c.st.map[l][y] = new.id
        BY <1>7, <1>8, <2>2, <3>1 DEF ChunkOK, SyncOK
      <4> QED BY <1>6, <3>1, <4>1
    <3>2. CASE ~(l = k /\ y = from)
      <4>1. c.st.map[l][y] = old.st.map[l][y]
        BY <1>3, <1>7, <1>8, <2>2, <3>2 DEF ChunkOK, SyncOK
      <4> QED BY <1>9, <2>2, <4>1 DEF ChunkOK, SyncOK
    <3> QED BY <3>1, <3>2
  <2> QED BY <1>7, <1>8, <2>1, <2>2 DEF ChunkOK, SyncOK
<1>11. ChunkOK(c, w, r)'
  <2>1. Len(old.rows) \in Nat /\ old.rows \in Seq({old.rows[n] : n \in 1..Len(old.rows)}) /\ old.rows # <<>>
    BY <1>7 DEF ChunkOK, MergeRow
  <2>2. Len(c.rows) = Len(old.rows) - 1 /\ Len(c.rows) \in Nat /\ \A n \in 1..Len(c.rows) : c.rows[n] = old.rows[n + 1]
    BY <1>8, <2>1
  <2>3. c.rows \in Seq({c.rows[n] : n \in 1..Len(c.rows)})
    <3>1. c.rows \in Seq({old.rows[n] : n \in 1..Len(old.rows)})
      BY <1>8, <2>1
    <3>2. DOMAIN c.rows = 1..Len(c.rows) /\ c.rows = [n \in 1..Len(c.rows) |-> c.rows[n]]
      BY <3>1
    <3> QED BY <2>2, <3>2
  <2>4. \A n \in 1..Len(c.rows) : Carried(c.rows[n], r)'
    <3>1. \A n \in 1..Len(old.rows) : Carried(old.rows[n], r)'
      BY <1>9 DEF ChunkOK
    <3>2. \A n \in 1..Len(c.rows) : n + 1 \in 1..Len(old.rows) /\ c.rows[n] = old.rows[n + 1]
      BY <2>1, <2>2
    <3> QED BY <3>1, <3>2
  <2> QED BY <1>8, <1>9, <1>10, <2>2, <2>3, <2>4 DEF ChunkOK
<1>12. JobOK'
  BY <1>1, <1>2, <1>8, <1>11, ChunkChanges DEF SyInv
<1> QED BY <1>4, <1>12, SyncsKept DEF SyInv, MergeRow, MgrOK

HeldOf(s, k)  == {l \in Held[s] : Kind[l] = k}
FirstId(s, j) == OldIds(HeldOf(s, Kind[j]))[j]

LEMMA SyncStart == SyInit => SyInv
<1> SUFFICES ASSUME SyInit PROVE SyInv
  OBVIOUS
<1>1. ASSUME NEW s \in Stores, NEW i \in Items 
      PROVE  /\ Has(s, i) <=> i \in Held[s]
             /\ RowRec(row[s][i])
             /\ i \in Held[s] => /\ row[s][i].id = FirstId(s, i)
                                 /\ row[s][i].par = IF Parent[i] = i THEN 0 ELSE FirstId(s, Parent[i])
  <2>1. row[s][i] = IF i \in Held[s] THEN OldRow(s, i) ELSE NoRow
    BY DEF SyInit
  <2> QED BY <2>1 DEF Has, RowRec, OldRow, NoRow, FirstId, HeldOf
<1>2. ASSUME NEW s \in Stores, NEW k
      PROVE  /\ Cardinality(HeldOf(s, k)) \in Nat /\ HeldOf(s, k) = Of(s, k)
             /\ \A i \in HeldOf(s, k) : OldIds(HeldOf(s, k))[i] \in 1..Cardinality(HeldOf(s, k))
             /\ \A i, j \in HeldOf(s, k) : OldIds(HeldOf(s, k))[i] = OldIds(HeldOf(s, k))[j] => i = j
  <2>1. HeldOf(s, k) \subseteq Items
    BY SyncAssumption DEF HeldOf
  <2>2. PICK T : T = HeldOf(s, k)
    OBVIOUS
  <2>3. IsFiniteSet(T) /\ Cardinality(T) \in Nat
    BY <2>1, <2>2, SyncAssumption, FS_Subset, FS_CardinalityType
  <2>4. PICK g \in Bijection(1..Cardinality(T), T) : TRUE
    BY <2>3, FS_CardinalityType DEF ExistsBijection
  <2>5. \A t \in T : \E n \in 1..Cardinality(T) : g[n] = t
    BY <2>4 DEF Bijection, Surjection
  <2>6. PICK f : f = [t \in T |-> CHOOSE n \in 1..Cardinality(T) : g[n] = t]
    OBVIOUS
  <2>7. f \in [T -> 1..Cardinality(T)] /\ \A i, j \in T : f[i] = f[j] => i = j
    <3>1. \A t \in T : f[t] \in 1..Cardinality(T) /\ g[f[t]] = t
      BY <2>5, <2>6
    <3> QED BY <2>6, <3>1
  <2>8. OldIds(T) \in [T -> 1..Cardinality(T)] /\ \A i, j \in T : OldIds(T)[i] = OldIds(T)[j] => i = j
    BY <2>7 DEF OldIds
  <2>9. HeldOf(s, k) = Of(s, k)
    BY <1>1, SyncAssumption DEF Of, HeldOf
  <2> QED BY <2>2, <2>3, <2>8, <2>9
<1>3. RowsTyped
  BY <1>1 DEF RowsTyped, SyInit
<1>4. Numbered
  <2>1. ASSUME NEW s \in Stores, NEW i \in Items, Has(s, i)
        PROVE  row[s][i].id \in 1..Cardinality(Of(s, Kind[i])) /\ (Parent[i] = i => row[s][i].par = 0)
    <3>1. i \in HeldOf(s, Kind[i])
      BY <1>1, <2>1 DEF HeldOf
    <3> QED BY <1>1, <1>2, <2>1, <3>1 DEF FirstId
  <2>2. ASSUME NEW s \in Stores, NEW i \in Items, NEW j \in Items,
               Has(s, i), Has(s, j), Kind[i] = Kind[j], row[s][i].id = row[s][j].id
        PROVE  i = j
    <3>1. i \in HeldOf(s, Kind[i]) /\ j \in HeldOf(s, Kind[i])
      BY <1>1, <2>2 DEF HeldOf
    <3>2. OldIds(HeldOf(s, Kind[i]))[i] = OldIds(HeldOf(s, Kind[i]))[j]
      BY <1>1, <2>2 DEF FirstId
    <3> QED BY <1>2, <3>1, <3>2
  <2> QED BY <2>1, <2>2 DEF Numbered
<1>5. SameParents
  <2> SUFFICES ASSUME NEW s \in Stores, NEW i \in Items, Has(s, i), Parent[i] # i
               PROVE  Has(s, Parent[i]) /\ row[s][i].par = row[s][Parent[i]].id
    BY DEF SameParents
  <2>1. Parent[i] \in Items /\ i \in Held[s] /\ Parent[i] \in Held[s]
    BY <1>1, SyncAssumption
  <2> QED BY <1>1, <2>1
<1>6. JobOK
  BY DEF SyInit, JobOK, NoJob
<1>7. MgrOK
  BY StoresManaged DEF SyInit, MgrOK, Asleep
<1>8. SyncsOK
  <2>1. ASSUME NEW w, NEW r PROVE SyncOK(NewSync, w, r)
    BY DEF SyncOK, NewSync
  <2> QED BY <2>1 DEF SyInit, SyncsOK
<1> QED BY <1>3, <1>4, <1>5, <1>6, <1>7, <1>8 DEF SyInit, SyInv, RowsInv

LEMMA SyncStep == SyInv /\ [SyNext]_syVars => SyInv'
<1> SUFFICES ASSUME SyInv, [SyNext]_syVars PROVE SyInv'
  OBVIOUS
<1>1. CASE UNCHANGED syVars
  BY <1>1, OthersStay, JobKept, RowsAlike DEF syVars, SyInv, MgrOK
<1>2. CASE SyNext
  BY <1>2, MakeAvailableKeeps, UpdateBackupsKeeps, SetActiveKeeps, ImportKeeps, FetchKeeps, MergeUserKeeps,
     MergeRowKeeps, JobEndsKeeps, EndChunkKeeps, MarkSourceKeeps, WakeUpKeeps, WriteKeeps DEF SyNext
<1> QED BY <1>1, <1>2

-----------------------------------------------------------------------------
(* What a sync still has to bring: the rows of the reader, q, under the     *)
(* sync state st, for a writer with the rows p.  With `all` it brings the   *)
(* newest versions too, not only the rows.                                  *)

There(q, i)   == q[i].ver > 0
Changed(q, k, when) == {i \in Items : Kind[i] = k /\ There(q, i) /\ q[i].at >= when}
Pos(q, when, i) == Cardinality({j \in Changed(q, Kind[i], when) : q[j].id < q[i].id})
Due(st, q) == {i \in Items : There(q, i) /\ q[i].at >= st.when /\ Pos(q, st.when, i) >= st.count[Kind[i]]}
Brought(st, p, q, i, all) ==
  st.map[Kind[i]][q[i].id] # 0 /\ (all /\ Newest(i) => p[i].ver >= q[i].ver)
Covers(st, p, q, all) ==
  /\ \A i \in Items : There(q, i) => i \in Due(st, q) \/ Brought(st, p, q, i, all)
  /\ \A k \in Tables : st.count[k] <= Cardinality(Changed(q, k, st.when))

\* Rows of one store: numbered by table, with times.
Book(q) ==
  /\ DOMAIN q = Items /\ \A i \in Items : q[i].ver \in Nat
  /\ \A i \in Items : There(q, i) => q[i].at \in Nat /\ q[i].id \in Nat
  /\ \A i, j \in Items : There(q, i) /\ There(q, j) /\ Kind[i] = Kind[j] /\ q[i].id = q[j].id => i = j
State(st) == st.when \in Int /\ st.max \in Int /\ st.count \in [Tables -> Nat] /\ {"when", "max", "count", "map"} \subseteq DOMAIN st

LEMMA LevelRises ==
  ASSUME NEW S, IsFiniteSet(S), NEW f \in [S -> Int], NEW i \in S
  PROVE  /\ Level(S, f, i) \in Nat /\ Level(S, f, i) < Cardinality(S) /\ Cardinality(S) \in Nat
         /\ \A j \in S : f[i] < f[j] => Level(S, f, i) < Level(S, f, j)
<1> DEFINE less(l) == {j \in S : f[j] < f[l]}
<1>1. ASSUME NEW l \in S PROVE IsFiniteSet(less(l)) /\ Cardinality(less(l)) \in Nat
  <2>1. less(l) \subseteq S
    OBVIOUS
  <2> QED BY <2>1, FS_Subset, FS_CardinalityType
<1>2. Cardinality(less(i)) < Cardinality(S) /\ Cardinality(S) \in Nat
  <2>1. less(i) \subseteq S /\ i \notin less(i)
    OBVIOUS
  <2>2. Cardinality(less(i)) <= Cardinality(S) /\ Cardinality(less(i)) # Cardinality(S)
    BY <2>1, FS_Subset
  <2> QED BY <1>1, <2>2, FS_CardinalityType
<1>3. ASSUME NEW j \in S, f[i] < f[j] PROVE Cardinality(less(i)) < Cardinality(less(j))
  <2>1. less(i) \subseteq less(j) /\ i \in less(j) /\ i \notin less(i)
    BY <1>3
  <2>2. Cardinality(less(i)) <= Cardinality(less(j)) /\ Cardinality(less(i)) # Cardinality(less(j))
    BY <1>1, <2>1, FS_Subset
  <2> QED BY <1>1, <2>2
<1> QED BY <1>1, <1>2, <1>3 DEF Level

LEMMA PosIs ==
  ASSUME NEW q, Book(q), NEW k \in Tables, NEW when \in Int
  PROVE  /\ IsFiniteSet(Changed(q, k, when)) /\ Cardinality(Changed(q, k, when)) \in Nat
         /\ \A i \in Changed(q, k, when) : 
              Pos(q, when, i) \in Nat /\ Pos(q, when, i) < Cardinality(Changed(q, k, when))
         /\ \A i, j \in Changed(q, k, when) : q[i].id < q[j].id => Pos(q, when, i) < Pos(q, when, j)
         /\ \A n \in Nat : n < Cardinality(Changed(q, k, when)) => \E i \in Changed(q, k, when) : Pos(q, when, i) = n
<1> DEFINE S == Changed(q, k, when)
           f == [i \in S |-> q[i].id]
<1>1. S \subseteq Items
  BY DEF Changed
<1>2. IsFiniteSet(S) /\ Cardinality(S) \in Nat
  BY <1>1, SyncAssumption, FS_Subset, FS_CardinalityType
<1>3. f \in [S -> Int] /\ \A i, j \in S : f[i] = f[j] => i = j
  <2>1. \A i \in S : i \in Items /\ There(q, i) /\ Kind[i] = k /\ f[i] = q[i].id
    BY DEF Changed
  <2>2. \A i \in S : q[i].id \in Int
    BY <2>1 DEF Book
  <2> QED BY <2>1, <2>2 DEF Book
<1>4. ASSUME NEW i \in S PROVE Pos(q, when, i) = Level(S, f, i)
  <2>1. Kind[i] = k
    BY DEF Changed
  <2>2. {j \in S : q[j].id < q[i].id} = {j \in S : f[j] < f[i]}
    OBVIOUS
  <2> HIDE DEF S, f
  <2> QED BY <2>1, <2>2 DEF Pos, Level, S
<1>5. \A n \in Nat : n < Cardinality(S) => \E i \in S : Pos(q, when, i) = n
  <2> SUFFICES ASSUME NEW n \in Nat, n < Cardinality(S) PROVE \E i \in S : Pos(q, when, i) = n
    OBVIOUS
  <2>1. n + 1 \in 1..Cardinality(S) /\ n = (n + 1) - 1
    BY <1>2
  <2> HIDE DEF S, f
  <2>2. \E i \in S : Level(S, f, i) = (n + 1) - 1
    BY <1>2, <1>3, <2>1, RankTaken
  <2> QED BY <1>4, <2>1, <2>2
<1>6. \A i \in S : Level(S, f, i) \in Nat /\ Level(S, f, i) < Cardinality(S)
  <2> HIDE DEF S, f
  <2> QED BY <1>2, <1>3, LevelRises
<1>7. \A i, j \in S : q[i].id < q[j].id => Level(S, f, i) < Level(S, f, j)
  <2> SUFFICES ASSUME NEW i \in S, NEW j \in S, q[i].id < q[j].id PROVE Level(S, f, i) < Level(S, f, j)
    OBVIOUS
  <2>1. f[i] < f[j]
    OBVIOUS
  <2> HIDE DEF S, f
  <2> QED BY <1>2, <1>3, <2>1, LevelRises
<1> HIDE DEF S, f
<1> QED BY <1>2, <1>4, <1>5, <1>6, <1>7 DEF S

\* The reader writes one row: it keeps its number, or has the next one.
NextOf(q, k) == 1 + Cardinality({i \in Items : Kind[i] = k /\ There(q, i)})
Rewritten(q, x, v, new) ==
  /\ x \in Items /\ new = [q EXCEPT ![x] = v] /\ Book(new) /\ v.ver > 0
  /\ There(q, x) => v.id = q[x].id /\ v.at >= q[x].at
  /\ ~There(q, x) => \A j \in Items : Kind[j] = Kind[x] /\ There(q, j) => q[j].id < v.id

LEMMA CoverGrows ==
  ASSUME NEW q, NEW p, NEW x, NEW v, NEW new, NEW st, NEW all \in BOOLEAN,
         Book(q), Rewritten(q, x, v, new), State(st), Covers(st, p, q, all),
         ~There(q, x) => v.at >= st.when,
         There(q, x) /\ all /\ Newest(x) /\ v.ver # q[x].ver => v.at >= st.when /\ \A k \in Tables : st.count[k] = 0
  PROVE  Covers(st, p, new, all)
<1>1. \A i \in Items : new[i] = IF i = x THEN v ELSE q[i]
  BY DEF Rewritten, Book
<1>2. \A i \in Items : There(new, i) <=> There(q, i) \/ i = x
  BY <1>1 DEF There, Rewritten
<1>3. \A i \in Items : There(q, i) => There(new, i) /\ new[i].id = q[i].id /\ new[i].at >= q[i].at 
      /\ new[i].id \in Nat /\ new[i].at \in Nat /\ q[i].at \in Nat /\ q[i].id \in Nat
  <2> SUFFICES ASSUME NEW i \in Items, There(q, i)
               PROVE  There(new, i) /\ new[i].id = q[i].id /\ new[i].at >= q[i].at 
                      /\ new[i].id \in Nat /\ new[i].at \in Nat /\ q[i].at \in Nat /\ q[i].id \in Nat
    OBVIOUS
  <2>1. There(new, i) /\ Book(new)
    BY <1>2 DEF Rewritten
  <2>2. new[i].id \in Nat /\ new[i].at \in Nat /\ q[i].at \in Nat /\ q[i].id \in Nat
    BY <2>1 DEF Book
  <2>3. CASE i = x
    BY <1>1, <2>1, <2>2, <2>3 DEF Rewritten
  <2>4. CASE i # x
    BY <1>1, <2>1, <2>2, <2>4
  <2> QED BY <2>3, <2>4
<1>4. ASSUME NEW k PROVE Changed(q, k, st.when) \subseteq Changed(new, k, st.when)
  BY <1>3 DEF Changed, State
<1>5. Kind \in [Items -> Tables]
  BY SyncAssumption
<1>6. ASSUME NEW i \in Items, There(q, i), q[i].at >= st.when, Pos(q, st.when, i) >= st.count[Kind[i]]
      PROVE  i \in Due(st, new)
  <2> DEFINE S == {j \in Changed(q, Kind[i], st.when) : q[j].id < q[i].id}
             T == {j \in Changed(new, Kind[i], st.when) : new[j].id < new[i].id}
  <2>1. S \subseteq T
    BY <1>3, <1>4, <1>6 DEF Changed
  <2>2. IsFiniteSet(T) /\ T \subseteq Items
    <3>1. T \subseteq Items
      BY DEF Changed
    <3> QED BY <3>1, FS_Subset, SyncAssumption
  <2>3. IsFiniteSet(S) /\ Cardinality(S) \in Nat /\ Cardinality(T) \in Nat /\ Cardinality(S) <= Cardinality(T)
    <3> HIDE DEF S, T
    <3> QED BY <2>1, <2>2, FS_Subset, FS_CardinalityType
  <2>4. Pos(q, st.when, i) = Cardinality(S) /\ Pos(new, st.when, i) = Cardinality(T)
    BY DEF Pos
  <2>5. st.count[Kind[i]] \in Nat
    BY <1>5 DEF State
  <2>6. Pos(new, st.when, i) >= st.count[Kind[i]]
    <3> HIDE DEF S, T
    <3> QED BY <1>6, <2>3, <2>4, <2>5
  <2>7. There(new, i) /\ new[i].at >= st.when
    BY <1>3, <1>6 DEF State
  <2> QED BY <2>6, <2>7 DEF Due
<1>7. ASSUME ~There(q, x) PROVE x \in Due(st, new)
  <2> DEFINE S == Changed(q, Kind[x], st.when)
             T == {j \in Changed(new, Kind[x], st.when) : new[j].id < new[x].id}
  <2>1. S \subseteq T
    <3>1. \A j \in S : j \in Items /\ There(q, j) /\ Kind[j] = Kind[x]
      BY DEF Changed
    <3>2. new[x].id = v.id
      BY <1>1 DEF Rewritten
    <3>3. \A j \in S : q[j].id < v.id
      BY <1>7, <3>1 DEF Rewritten
    <3>4. S \subseteq Changed(new, Kind[x], st.when)
      BY <1>4
    <3> HIDE DEF S
    <3> QED BY <1>3, <3>1, <3>2, <3>3, <3>4
  <2>2. IsFiniteSet(T) /\ T \subseteq Items
    <3>1. T \subseteq Items
      BY DEF Changed
    <3> QED BY <3>1, FS_Subset, SyncAssumption
  <2>3. Cardinality(S) \in Nat /\ Cardinality(T) \in Nat /\ Cardinality(S) <= Cardinality(T)
    <3> HIDE DEF S, T
    <3>1. IsFiniteSet(S)
      BY <2>1, <2>2, FS_Subset
    <3> QED BY <2>1, <2>2, <3>1, FS_Subset, FS_CardinalityType
  <2>4. Pos(new, st.when, x) = Cardinality(T)
    BY DEF Pos
  <2>5. x \in Items /\ Kind[x] \in Tables
    BY <1>5 DEF Rewritten
  <2>6. st.count[Kind[x]] \in Nat /\ st.count[Kind[x]] <= Cardinality(S)
    BY <2>5 DEF State, Covers
  <2>7. Pos(new, st.when, x) >= st.count[Kind[x]]
    <3> HIDE DEF S, T
    <3> QED BY <2>3, <2>4, <2>6
  <2>8. There(new, x) /\ new[x].at >= st.when
    BY <1>1, <1>2, <1>7, <2>5
  <2> QED BY <2>5, <2>7, <2>8 DEF Due
<1>8. ASSUME NEW i \in Items, There(new, i) PROVE i \in Due(st, new) \/ Brought(st, p, new, i, all)
  <2>1. CASE ~There(q, i)
    BY <1>2, <1>7, <1>8, <2>1
  <2>2. CASE i \in Due(st, q)
    BY <1>6, <2>2 DEF Due
  <2>3. CASE There(q, i) /\ Brought(st, p, q, i, all)
    <3>1. CASE new[i].ver = q[i].ver
      BY <1>3, <2>3, <3>1 DEF Brought
    <3>2. CASE ~(all /\ Newest(i))
      BY <1>3, <2>3, <3>2 DEF Brought
    <3>3. CASE new[i].ver # q[i].ver /\ all /\ Newest(i)
      <4>1. i = x /\ v.at >= st.when /\ st.count[Kind[i]] = 0
        BY <1>1, <1>5, <2>3, <3>3
      <4>2. Pos(new, st.when, i) >= 0
        <5>1. i \in Changed(new, Kind[i], st.when)
          BY <1>1, <1>8, <4>1 DEF Changed
        <5> QED BY <1>5, <5>1, PosIs DEF Rewritten, State
      <4> QED BY <1>1, <1>8, <4>1, <4>2 DEF Due
    <3> QED BY <3>1, <3>2, <3>3
  <2> QED BY <2>1, <2>2, <2>3 DEF Covers
<1>9. ASSUME NEW k \in Tables PROVE st.count[k] <= Cardinality(Changed(new, k, st.when))
  <2>1. IsFiniteSet(Changed(new, k, st.when)) /\ Cardinality(Changed(new, k, st.when)) \in Nat
        /\ Cardinality(Changed(q, k, st.when)) \in Nat
    BY PosIs DEF Rewritten, State
  <2>2. Cardinality(Changed(q, k, st.when)) <= Cardinality(Changed(new, k, st.when))
    BY <1>4, <2>1, FS_Subset
  <2>3. st.count[k] \in Nat /\ st.count[k] <= Cardinality(Changed(q, k, st.when))
    BY DEF State, Covers
  <2> QED BY <2>1, <2>2, <2>3
<1> QED BY <1>8, <1>9 DEF Covers

\* The writer has newer rows, or less is claimed.
LEMMA CoverStays ==
  ASSUME NEW q, NEW p, NEW new, NEW st, NEW all, NEW less, Covers(st, p, q, all), less => all,
         Book(p), Book(q), Book(new), \A i \in Items : less /\ Newest(i) => new[i].ver >= p[i].ver
  PROVE  Covers(st, new, q, less)
<1>1. ASSUME NEW i \in Items, Brought(st, p, q, i, all) PROVE Brought(st, new, q, i, less)
  <2>1. (less /\ Newest(i) => new[i].ver >= p[i].ver) /\ new[i].ver \in Nat /\ p[i].ver \in Nat /\ q[i].ver \in Nat
    BY DEF Book
  <2> QED BY <1>1, <2>1 DEF Brought
<1> QED BY <1>1 DEF Covers

-----------------------------------------------------------------------------
(* The rows of a chunk are the next ones of those that are due.            *)

Before(q, i, j) == Kind[i] < Kind[j] \/ (Kind[i] = Kind[j] /\ q[i].id < q[j].id)
Segment(rows, U, q) ==
  /\ \A n \in 1..Len(rows) : rows[n].item \in U
  /\ \A m, n \in 1..Len(rows) : m < n => Before(q, rows[m].item, rows[n].item)
  /\ \A n \in 1..Len(rows), u \in U : Before(q, u, rows[n].item) => \E m \in 1..n - 1 : rows[m].item = u

LEMMA DueIs ==
  ASSUME NEW q, Book(q), NEW st, State(st), NEW i \in Due(st, q)
  PROVE  /\ i \in Items /\ Kind[i] \in Tables /\ Kind[i] \in Nat /\ There(q, i) /\ q[i].id \in Nat
         /\ i \in Changed(q, Kind[i], st.when) /\ st.count[Kind[i]] \in Nat
         /\ st.count[Kind[i]] <= Pos(q, st.when, i)
<1>1. i \in Items /\ There(q, i) /\ q[i].at >= st.when /\ Pos(q, st.when, i) >= st.count[Kind[i]]
  BY DEF Due
<1>2. Kind[i] \in Tables /\ Kind[i] \in Nat
  BY <1>1, SyncAssumption DEF Tables
<1>3. i \in Changed(q, Kind[i], st.when)
  BY <1>1 DEF Changed
<1>4. Pos(q, st.when, i) \in Nat
  BY <1>2, <1>3, PosIs DEF State
<1> QED BY <1>1, <1>2, <1>3, <1>4 DEF Book, State

\* The first row due is noted: the state goes on behind it.
Advances(st, next, q, h, id) ==
  /\ h \in Due(st, q) /\ State(next) /\ next.when = st.when /\ id # 0
  /\ next.count = [st.count EXCEPT ![Kind[h]] = @ + 1]
  /\ st.map \in [Tables -> [Ids -> Nat]] /\ next.map = [st.map EXCEPT ![Kind[h]][q[h].id] = id]

LEMMA FirstIsDone ==
  ASSUME NEW q, Book(q), NEW st, State(st), NEW next, NEW h, NEW id, Advances(st, next, q, h, id),
         \A u \in Due(st, q) : ~Before(q, u, h)
  PROVE  /\ Due(next, q) = Due(st, q) \ {h}
         /\ next.count[Kind[h]] <= Cardinality(Changed(q, Kind[h], st.when))
<1> DEFINE k == Kind[h]
           S == Changed(q, k, st.when)
<1>1. h \in Due(st, q) /\ st.when \in Int /\ next.when = st.when
  BY DEF Advances, State
<1>2. /\ h \in Items /\ k \in Tables /\ k \in Nat /\ There(q, h) /\ q[h].id \in Nat /\ h \in S
      /\ st.count[k] \in Nat /\ st.count[k] <= Pos(q, st.when, h)
  BY <1>1, DueIs
<1>3. Pos(q, st.when, h) \in Nat /\ Pos(q, st.when, h) < Cardinality(S) /\ Cardinality(S) \in Nat
  BY <1>1, <1>2, PosIs
<1>4. Pos(q, st.when, h) = st.count[k]
  <2> SUFFICES ASSUME st.count[k] < Pos(q, st.when, h) PROVE FALSE
    BY <1>2, <1>3
  <2>1. st.count[k] < Cardinality(S)
    BY <1>2, <1>3
  <2>2. PICK i \in S : Pos(q, st.when, i) = st.count[k]
    BY <1>1, <1>2, <2>1, PosIs
  <2>3. i \in Items /\ Kind[i] = k /\ There(q, i) /\ q[i].at >= st.when /\ q[i].id \in Nat
    BY <2>2 DEF Changed, Book
  <2>4. i \in Due(st, q)
    BY <1>2, <2>2, <2>3 DEF Due
  <2>5. ~(q[i].id < q[h].id) /\ i # h
    BY <1>2, <2>2, <2>3, <2>4 DEF Before
  <2>6. q[h].id < q[i].id
    BY <1>2, <2>3, <2>5 DEF Book
  <2>7. Pos(q, st.when, h) < Pos(q, st.when, i)
    BY <1>1, <1>2, <2>2, <2>6, PosIs
  <2> QED BY <1>2, <1>3, <2>2, <2>7
<1>5. next.count = [st.count EXCEPT ![k] = @ + 1]
  BY DEF Advances
<1>6. \A l \in Tables : next.count[l] = IF l = k THEN st.count[l] + 1 ELSE st.count[l]
  BY <1>2, <1>5 DEF State
<1>7. ASSUME NEW i \in Items PROVE i \in Due(next, q) <=> i \in Due(st, q) /\ i # h
  <2>1. Kind[i] \in Tables
    BY SyncAssumption
  <2>2. CASE Kind[i] # k
    BY <1>1, <1>6, <2>1, <2>2 DEF Due
  <2>3. CASE Kind[i] = k /\ i \notin S
    BY <1>1, <2>3, <1>2 DEF Due, Changed
  <2>4. CASE i = h
    BY <1>1, <1>2, <1>4, <1>6, <2>4 DEF Due
  <2>5. CASE Kind[i] = k /\ i \in S /\ i # h
    <3>1. Pos(q, st.when, i) \in Nat
      BY <1>1, <1>2, <2>5, PosIs
    <3>2. q[i].id \in Nat /\ q[i].id # q[h].id
      BY <1>2, <2>5 DEF Changed, Book
    <3>3. q[i].id < q[h].id \/ q[h].id < q[i].id
      BY <1>2, <3>2
    <3>4. Pos(q, st.when, i) # st.count[k]
      <4>1. Pos(q, st.when, i) < Pos(q, st.when, h) \/ Pos(q, st.when, h) < Pos(q, st.when, i)
        BY <1>1, <1>2, <2>5, <3>3, PosIs
      <4> QED BY <1>3, <1>4, <3>1, <4>1
    <3>5. Pos(q, st.when, i) >= st.count[k] <=> Pos(q, st.when, i) >= st.count[k] + 1
      BY <1>2, <3>1, <3>4
    <3> QED BY <1>1, <1>2, <1>6, <2>5, <3>5 DEF Due
  <2> QED BY <2>2, <2>3, <2>4, <2>5
<1>8. Due(next, q) \subseteq Items /\ Due(st, q) \subseteq Items
  BY DEF Due
<1> HIDE DEF S, k
<1> QED BY <1>2, <1>3, <1>4, <1>6, <1>7, <1>8 DEF S, k

LEMMA HeadBrought ==
  ASSUME NEW q, Book(q), NEW p, Book(p), NEW new, Book(new), NEW st, State(st), NEW all, Covers(st, p, q, all),
         NEW next, NEW h, NEW id, Advances(st, next, q, h, id), \A u \in Due(st, q) : ~Before(q, u, h),
         \A i \in Items : all /\ Newest(i) => new[i].ver >= p[i].ver, all /\ Newest(h) => new[h].ver >= q[h].ver,
         \A i \in Items : There(q, i) => q[i].id \in Ids
  PROVE  Covers(next, new, q, all)
<1>1. Due(next, q) = Due(st, q) \ {h} /\ next.count[Kind[h]] <= Cardinality(Changed(q, Kind[h], st.when))
  BY FirstIsDone
<1>2. h \in Items /\ Kind[h] \in Tables /\ There(q, h)
  BY DueIs DEF Advances
<1>3. ASSUME NEW i \in Items, There(q, i) PROVE i \in Due(next, q) \/ Brought(next, new, q, i, all)
  <2>1. q[i].id \in Ids /\ q[h].id \in Ids /\ Kind[i] \in Tables
    BY <1>2, <1>3, SyncAssumption
  <2>2. next.map[Kind[i]][q[i].id] = IF Kind[i] = Kind[h] /\ q[i].id = q[h].id THEN id ELSE st.map[Kind[i]][q[i].id]
    BY <1>2, <2>1 DEF Advances
  <2>3. CASE i = h
    BY <2>2, <2>3 DEF Brought, Advances
  <2>4. CASE i # h /\ i \in Due(st, q)
    BY <1>1, <2>4
  <2>5. CASE i # h /\ Brought(st, p, q, i, all)
    <3>1. (all /\ Newest(i) => new[i].ver >= p[i].ver) /\ new[i].ver \in Nat /\ p[i].ver \in Nat /\ q[i].ver \in Nat
      BY DEF Book
    <3>2. next.map[Kind[i]][q[i].id] # 0
      BY <2>2, <2>5 DEF Brought, Advances
    <3> QED BY <2>5, <3>1, <3>2 DEF Brought
  <2> QED BY <1>3, <2>3, <2>4, <2>5 DEF Covers
<1>4. ASSUME NEW k \in Tables PROVE next.count[k] <= Cardinality(Changed(q, k, next.when))
  <2>1. next.when = st.when /\ (k # Kind[h] => next.count[k] = st.count[k])
    BY <1>2 DEF Advances, State
  <2> QED BY <1>1, <2>1 DEF Covers
<1> QED BY <1>3, <1>4 DEF Covers

LEMMA FirstOfSegment ==
  ASSUME NEW rows, NEW U, NEW q, Segment(rows, U, q), Len(rows) \in Nat \ {0}
  PROVE  rows[1].item \in U /\ \A u \in U : ~Before(q, u, rows[1].item)
<1>1. 1 \in 1..Len(rows) /\ 1..0 = {}
  OBVIOUS
<1> QED BY <1>1 DEF Segment

LEMMA RestOfSegment ==
  ASSUME NEW rows, NEW U, NEW q, Segment(rows, U, q), Len(rows) \in Nat \ {0},
         NEW rest, Len(rest) = Len(rows) - 1, \A n \in 1..Len(rest) : rest[n] = rows[n + 1],
         \A u \in U : ~Before(q, u, u)
  PROVE  Segment(rest, U \ {rows[1].item}, q)
<1>1. \A n \in 1..Len(rest) : n + 1 \in 1..Len(rows) /\ 1 < n + 1 /\ 1 \in 1..Len(rows)
  OBVIOUS
<1>2. ASSUME NEW n \in 1..Len(rest) PROVE rest[n].item \in U \ {rows[1].item}
  <2>1. rest[n].item \in U /\ Before(q, rows[1].item, rest[n].item)
    BY <1>1 DEF Segment
  <2> QED BY <2>1
<1>3. ASSUME NEW m \in 1..Len(rest), NEW n \in 1..Len(rest), m < n PROVE Before(q, rest[m].item, rest[n].item)
  <2>1. m + 1 \in 1..Len(rows) /\ n + 1 \in 1..Len(rows) /\ m + 1 < n + 1
    BY <1>1, <1>3
  <2>2. Before(q, rows[m + 1].item, rows[n + 1].item)
    BY <2>1 DEF Segment
  <2> QED BY <2>2
<1>4. ASSUME NEW n \in 1..Len(rest), NEW u \in U \ {rows[1].item}, Before(q, u, rest[n].item)
      PROVE  \E m \in 1..n - 1 : rest[m].item = u
  <2>1. PICK m \in 1..(n + 1) - 1 : rows[m].item = u
    BY <1>1, <1>4 DEF Segment
  <2>2. m # 1
    BY <2>1
  <2>3. m - 1 \in 1..n - 1 /\ m - 1 \in 1..Len(rest) /\ rows[m] = rest[m - 1]
    <3>1. m - 1 \in 1..n - 1 /\ m - 1 \in 1..Len(rest) /\ (m - 1) + 1 = m
      BY <2>2
    <3> QED BY <3>1
  <2> QED BY <2>1, <2>3
<1> QED BY <1>2, <1>3, <1>4 DEF Segment

\* A list of all of U, in the order of a chunk.
Lists(e, U, q) ==
  /\ e \in Seq(U) /\ \A u \in U : \E n \in 1..Len(e) : e[n] = u
  /\ \A m, n \in 1..Len(e) : m < n => Before(q, e[m], e[n])
Listed(e, U, q, len) ==
  /\ len \in Nat /\ e = [n \in 1..len |-> e[n]] /\ \A n \in 1..len : e[n] \in U
  /\ \A u \in U : \E n \in 1..len : e[n] = u
  /\ \A m, n \in 1..len : m < n => Before(q, e[m], e[n])

LEMMA ListedLists ==
  ASSUME NEW e, NEW U, NEW q, NEW len, Listed(e, U, q, len)
  PROVE  Lists(e, U, q) /\ Len(e) = len
<1>1. len \in Nat /\ e = [n \in 1..len |-> e[n]] /\ \A n \in 1..len : e[n] \in U
  BY DEF Listed
<1>2. e \in Seq(U) /\ Len(e) = len
  BY <1>1
<1> QED BY <1>2 DEF Lists, Listed

LEMMA SinceIs ==
  ASSUME NEW s \in Stores, Book(row[s]), NEW k \in Tables, NEW when \in Int
  PROVE  /\ Since(s, k, when) \in Seq(Changed(row[s], k, when))
         /\ Len(Since(s, k, when)) = Cardinality(Changed(row[s], k, when))
         /\ \A n \in 1..Len(Since(s, k, when)) : Pos(row[s], when, Since(s, k, when)[n]) = n - 1
<1> DEFINE q == row[s]
           S == Changed(q, k, when)
           e(n) == CHOOSE i \in S : Cardinality({j \in S : q[j].id < q[i].id}) = n - 1
<1>1. \A i \in S : Pos(q, when, i) = Cardinality({j \in S : q[j].id < q[i].id})
  <2>1. \A i \in S : Kind[i] = k
    BY DEF Changed
  <2> QED BY <2>1 DEF Pos
<1>2. Cardinality(S) \in Nat
  BY PosIs
<1>3. ASSUME NEW n \in 1..Cardinality(S) PROVE e(n) \in S /\ Pos(q, when, e(n)) = n - 1
  <2>1. n - 1 \in Nat /\ n - 1 < Cardinality(S)
    BY <1>2
  <2>2. \E i \in S : Pos(q, when, i) = n - 1
    BY <2>1, PosIs
  <2>3. \E i \in S : Cardinality({j \in S : q[j].id < q[i].id}) = n - 1
    <3> HIDE DEF S
    <3> QED BY <1>1, <2>2
  <2>4. e(n) \in S /\ Cardinality({j \in S : q[j].id < q[e(n)].id}) = n - 1
    <3> HIDE DEF S
    <3> QED BY <2>3
  <2> HIDE DEF S, e
  <2> QED BY <1>1, <2>4
<1>4. Since(s, k, when) = [n \in 1..Cardinality(S) |-> e(n)]
  <2> DEFINE R == {i \in Items : Kind[i] = k /\ Has(s, i) /\ row[s][i].at >= when}
             d(n) == CHOOSE i \in R : Cardinality({j \in R : row[s][j].id < row[s][i].id}) = n - 1
  <2>1. R = S
    BY DEF Changed, There, Has
  <2>2. Since(s, k, when) = [n \in 1..Cardinality(R) |-> d(n)]
    BY DEF Since, Ranked
  <2>3. \A n : d(n) = e(n)
    <3> HIDE DEF R, S
    <3> QED BY <2>1
  <2> HIDE DEF R, S, d, e
  <2> QED BY <2>1, <2>2, <2>3
<1> HIDE DEF S, e
<1>5. Since(s, k, when) \in Seq(S) /\ Len(Since(s, k, when)) = Cardinality(S)
  BY <1>2, <1>3, <1>4
<1> QED BY <1>3, <1>4, <1>5 DEF S

\* The items due of one table.
DueOf(st, q, k) == {i \in Due(st, q) : Kind[i] = k}

LEMMA RestIs ==
  ASSUME NEW s \in Stores, Book(row[s]), NEW k \in Tables, NEW st, State(st),
         \A l \in Tables : st.count[l] <= Cardinality(Changed(row[s], l, st.when))
  PROVE  Lists(Rest(s, k, st), DueOf(st, row[s], k), row[s])
<1> DEFINE q == row[s]
           S == Changed(q, k, st.when)
           all == Since(s, k, st.when)
           c == st.count[k]
           N == Cardinality(S)
           e == Rest(s, k, st)
<1>1. st.when \in Int /\ c \in Nat /\ c <= N
  BY DEF State
<1>2. N \in Nat
  BY <1>1, PosIs
<1>3. all \in Seq(S) /\ Len(all) = N /\ \A n \in 1..N : Pos(q, st.when, all[n]) = n - 1
  BY <1>1, SinceIs
<1>4. e = [n \in 1..N - c |-> all[c + n]]
  <2>1. e = SubSeq(all, c + 1, N)
    BY <1>3 DEF Rest
  <2> HIDE DEF all, c, N, S, e
  <2>2. SubSeq(all, c + 1, N) = [n \in 1..N - (c + 1) + 1 |-> all[c + 1 + n - 1]]
    BY <1>1, <1>2, <1>3
  <2>3. \A n \in 1..N - c : c + 1 + n - 1 = c + n
    BY <1>1, <1>2
  <2>4. N - (c + 1) + 1 = N - c
    BY <1>1, <1>2
  <2> QED BY <2>1, <2>2, <2>3, <2>4
<1>5. ASSUME NEW n \in 1..N - c PROVE e[n] \in S /\ Pos(q, st.when, e[n]) = c + n - 1 /\ e[n] \in DueOf(st, q, k)
  <2>1. c + n \in 1..N /\ e[n] = all[c + n]
    <3> HIDE DEF all, c, N, S, e
    <3> QED BY <1>1, <1>2, <1>4
  <2>2. e[n] \in S /\ Pos(q, st.when, e[n]) = c + n - 1
    <3>1. PICK m \in 1..N : m = c + n
      BY <2>1
    <3>2. c + n - 1 = m - 1
      BY <1>1, <3>1
    <3> HIDE DEF c, N, S, e, all
    <3>3. all[m] \in S /\ Pos(q, st.when, all[m]) = m - 1
      BY <1>3
    <3> QED BY <2>1, <3>1, <3>2, <3>3
  <2>3. Pos(q, st.when, e[n]) >= c
    <3> HIDE DEF c, N, S, e, all
    <3> QED BY <1>1, <1>2, <2>2
  <2> HIDE DEF e
  <2> QED BY <2>2, <2>3 DEF DueOf, Due, Changed
<1>6. ASSUME NEW u \in DueOf(st, q, k) PROVE \E n \in 1..N - c : e[n] = u
  <2>1. u \in S /\ c <= Pos(q, st.when, u)
    BY DueIs DEF DueOf
  <2>2. Pos(q, st.when, u) \in Nat /\ Pos(q, st.when, u) < N
    BY <1>1, <2>1, PosIs
  <2>3. PICK n \in 1..N - c : n = Pos(q, st.when, u) - c + 1
    <3> HIDE DEF c, N, S
    <3> QED BY <1>1, <1>2, <2>1, <2>2
  <2>4. Pos(q, st.when, e[n]) = Pos(q, st.when, u) /\ e[n] \in S
    <3>1. e[n] \in S /\ Pos(q, st.when, e[n]) = c + n - 1
      BY <1>5
    <3> HIDE DEF c, N, S, e
    <3> QED BY <1>1, <2>2, <2>3, <3>1
  <2>5. ~(q[e[n]].id < q[u].id) /\ ~(q[u].id < q[e[n]].id)
    <3>1. q[e[n]].id < q[u].id => Pos(q, st.when, e[n]) < Pos(q, st.when, u)
      <4> HIDE DEF e
      <4> QED BY <1>1, <2>1, <2>4, PosIs
    <3>2. q[u].id < q[e[n]].id => Pos(q, st.when, u) < Pos(q, st.when, e[n])
      <4> HIDE DEF e
      <4> QED BY <1>1, <2>1, <2>4, PosIs
    <3> HIDE DEF e
    <3> QED BY <2>2, <2>4, <3>1, <3>2
  <2>6. e[n] = u
    <3> HIDE DEF e
    <3>1. /\ e[n] \in Items /\ There(q, e[n]) /\ Kind[e[n]] = k /\ q[e[n]].id \in Nat
          /\ u \in Items /\ There(q, u) /\ Kind[u] = k /\ q[u].id \in Nat
      BY <2>1, <2>4 DEF Changed, Book
    <3>2. q[e[n]].id = q[u].id
      BY <2>5, <3>1
    <3> QED BY <3>1, <3>2 DEF Book
  <2> QED BY <2>6
<1>7. ASSUME NEW m \in 1..N - c, NEW n \in 1..N - c, m < n PROVE Before(q, e[m], e[n])
  <2>1. /\ e[m] \in S /\ Pos(q, st.when, e[m]) = c + m - 1
        /\ e[n] \in S /\ Pos(q, st.when, e[n]) = c + n - 1
    BY <1>5
  <2>2. Pos(q, st.when, e[m]) < Pos(q, st.when, e[n]) /\ Pos(q, st.when, e[m]) \in Nat /\ Pos(q, st.when, e[n]) \in Nat
    <3>1. Pos(q, st.when, e[m]) \in Nat /\ Pos(q, st.when, e[n]) \in Nat
      <4> HIDE DEF e
      <4> QED BY <1>1, <2>1, PosIs
    <3> HIDE DEF e, c, S
    <3> QED BY <1>1, <1>7, <2>1, <3>1
  <2>3. /\ e[n] \in Items /\ There(q, e[n]) /\ Kind[e[n]] = k /\ q[e[n]].id \in Nat
        /\ e[m] \in Items /\ There(q, e[m]) /\ Kind[e[m]] = k /\ q[e[m]].id \in Nat
    <3> HIDE DEF e
    <3> QED BY <2>1 DEF Changed, Book
  <2>4. ~(q[e[n]].id < q[e[m]].id)
    <3>1. q[e[n]].id < q[e[m]].id => Pos(q, st.when, e[n]) < Pos(q, st.when, e[m])
      <4> HIDE DEF e
      <4> QED BY <1>1, <2>1, PosIs
    <3> HIDE DEF e
    <3> QED BY <2>2, <3>1
  <2>5. q[e[n]].id # q[e[m]].id
    <3> HIDE DEF e
    <3> SUFFICES ASSUME q[e[n]].id = q[e[m]].id PROVE FALSE
      OBVIOUS
    <3>1. e[n] = e[m]
      BY <2>3 DEF Book
    <3> QED BY <2>2, <3>1
  <2> HIDE DEF e
  <2> QED BY <2>3, <2>4, <2>5 DEF Before
<1>8. N - c \in Nat
  BY <1>1, <1>2
<1>9. e = [n \in 1..N - c |-> e[n]]
  BY <1>4
<1> HIDE DEF N, c, S, e, all
<1>10. Listed(e, DueOf(st, q, k), q, N - c)
  BY <1>5, <1>6, <1>7, <1>8, <1>9 DEF Listed
<1> QED BY <1>10, ListedLists DEF e

LEMMA ListsJoined ==
  ASSUME NEW q, NEW U, NEW V, NEW e, NEW f, Lists(e, U, q), Lists(f, V, q), \A u \in U, v \in V : Before(q, u, v)
  PROVE  Lists(e \o f, U \cup V, q)
<1> DEFINE g == e \o f
           M == Len(e)
           N == Len(f)
<1>1. e \in Seq(U) /\ f \in Seq(V) /\ M \in Nat /\ N \in Nat
  BY DEF Lists
<1>2. g = [n \in 1..M + N |-> IF n <= M THEN e[n] ELSE f[n - M]]
  <2>1. e \in Seq(U \cup V) /\ f \in Seq(U \cup V)
    BY <1>1
  <2>2. /\ g \in Seq(U \cup V) /\ Len(g) = M + N
        /\ \A n \in 1..M + N : g[n] = IF n <= M THEN e[n] ELSE f[n - M]
    BY <2>1, ConcatProperties
  <2> HIDE DEF g, M, N
  <2>3. g = [n \in 1..M + N |-> g[n]]
    BY <2>2
  <2> QED BY <2>2, <2>3
<1>3. (\A n \in 1..M : g[n] = e[n] /\ e[n] \in U) /\ (\A n \in M + 1..M + N : g[n] = f[n - M] /\ n - M \in 1..N /\ f[n - M] \in V)
  <2>1. \A n \in 1..M : n \in 1..M + N /\ e[n] \in U
    BY <1>1
  <2>2. \A n \in M + 1..M + N : n \in 1..M + N /\ ~(n <= M) /\ n - M \in 1..N
    BY <1>1
  <2>3. \A n \in 1..N : f[n] \in V
    BY <1>1
  <2> HIDE DEF g, M, N
  <2> QED BY <1>1, <1>2, <2>1, <2>2, <2>3
<1>4. ASSUME NEW n \in 1..M + N PROVE n \in 1..M \/ n \in M + 1..M + N
  <2>1. M \in Nat /\ N \in Nat
    BY <1>1
  <2> HIDE DEF g, M, N
  <2> QED BY <2>1
<1> HIDE DEF g
<1>5. ASSUME NEW m \in 1..M + N, NEW n \in 1..M + N, m < n PROVE Before(q, g[m], g[n])
  <2>1. CASE m \in 1..M /\ n \in 1..M
    BY <1>3, <1>5, <2>1 DEF Lists
  <2>2. CASE m \in 1..M /\ n \in M + 1..M + N
    BY <1>3, <2>2
  <2>3. CASE m \in M + 1..M + N /\ n \in M + 1..M + N
    <3>1. m - M \in 1..N /\ n - M \in 1..N /\ m - M < n - M
      BY <1>1, <1>5, <2>3
    <3>2. Before(q, f[m - M], f[n - M])
      BY <3>1 DEF Lists
    <3> QED BY <1>3, <2>3, <3>2
  <2>4. ~(m \in M + 1..M + N /\ n \in 1..M)
    <3>1. M \in Nat /\ N \in Nat
      BY <1>1
    <3> HIDE DEF M, N
    <3> QED BY <1>5, <3>1
  <2> QED BY <1>4, <2>1, <2>2, <2>3, <2>4
<1>6. ASSUME NEW u \in U \cup V PROVE \E n \in 1..M + N : g[n] = u
  <2>1. CASE u \in U
    <3>1. PICK n \in 1..M : e[n] = u
      BY <2>1 DEF Lists
    <3>2. n \in 1..M + N
      BY <1>1
    <3> QED BY <1>3, <3>1, <3>2
  <2>2. CASE u \in V
    <3>1. PICK n \in 1..N : f[n] = u
      BY <2>2 DEF Lists
    <3>2. n + M \in M + 1..M + N /\ n + M \in 1..M + N /\ (n + M) - M = n
      BY <1>1
    <3> QED BY <1>3, <3>1, <3>2
  <2> QED BY <2>1, <2>2
<1>7. \A n \in 1..M + N : g[n] \in U \cup V
  BY <1>3, <1>4
<1>8. M + N \in Nat /\ g = [n \in 1..M + N |-> g[n]]
  BY <1>1, <1>2
<1>9. Listed(g, U \cup V, q, M + N)
  <2> HIDE DEF M, N
  <2> QED BY <1>5, <1>6, <1>7, <1>8 DEF Listed
<1> QED BY <1>9, ListedLists DEF g

LEMMA BeforeIsOrder ==
  ASSUME NEW q, Book(q), NEW st, State(st)
  PROVE  \A u, v \in Due(st, q) : ~(Before(q, u, v) /\ Before(q, v, u))
<1> SUFFICES ASSUME NEW u \in Due(st, q), NEW v \in Due(st, q), Before(q, u, v), Before(q, v, u) PROVE FALSE
  OBVIOUS
<1>1. Kind[u] \in Nat /\ q[u].id \in Nat /\ Kind[v] \in Nat /\ q[v].id \in Nat
  BY DueIs
<1> QED BY <1>1 DEF Before

LEMMA PrefixIsSegment ==
  ASSUME NEW q, NEW U, \A u, v \in U : ~(Before(q, u, v) /\ Before(q, v, u)), NEW e, Lists(e, U, q),
         NEW m \in Nat, m <= Len(e), NEW rows, Len(rows) = m, \A n \in 1..m : rows[n].item = e[n]
  PROVE  Segment(rows, U, q)
<1>1. Len(e) \in Nat /\ \A n \in 1..Len(e) : e[n] \in U
  BY DEF Lists
<1>2. \A n \in 1..m : n \in 1..Len(e)
  BY <1>1
<1>3. ASSUME NEW n \in 1..m, NEW u \in U, Before(q, u, e[n]) PROVE \E k \in 1..n - 1 : rows[k].item = u
  <2>1. PICK k \in 1..Len(e) : e[k] = u
    BY DEF Lists
  <2>2. k # n
    BY <1>3, <2>1
  <2>3. ~(n < k)
    <3> SUFFICES ASSUME n < k PROVE FALSE
      OBVIOUS
    <3>1. Before(q, e[n], e[k])
      BY <1>2 DEF Lists
    <3>2. e[n] \in U
      BY <1>1, <1>2
    <3> QED BY <1>3, <2>1, <3>1, <3>2
  <2>4. k \in 1..n - 1 /\ k \in 1..m
    BY <1>1, <2>2, <2>3
  <2> QED BY <2>1, <2>4
<1>4. \A k, n \in 1..m : k < n => Before(q, rows[k].item, rows[n].item)
  BY <1>2 DEF Lists
<1> QED BY <1>1, <1>2, <1>3, <1>4 DEF Segment

LEMMA ChunkIs ==
  ASSUME NEW s \in Stores, Book(row[s]), NEW st, State(st),
         \A k \in Tables : st.count[k] <= Cardinality(Changed(row[s], k, st.when)),
         NEW rows, Len(rows) = Len(ChunkRows(s, st)),
         \A n \in 1..Len(rows) : rows[n].item = ChunkRows(s, st)[n]
  PROVE  Segment(rows, Due(st, row[s]), row[s]) /\ (Len(rows) = 0 => Due(st, row[s]) = {})
<1> DEFINE q == row[s]
           D(k) == DueOf(st, q, k)
           U == Due(st, q)
           e == Rest(s, 1, st) \o Rest(s, 2, st) \o Rest(s, 3, st) \o Rest(s, 4, st)
           m == Min({MaxItems, Len(e)})
<1>1. 1 \in Tables /\ 2 \in Tables /\ 3 \in Tables /\ 4 \in Tables
  BY DEF Tables
<1>2. /\ Lists(Rest(s, 1, st), D(1), q) /\ Lists(Rest(s, 2, st), D(2), q)
      /\ Lists(Rest(s, 3, st), D(3), q) /\ Lists(Rest(s, 4, st), D(4), q)
  BY <1>1, RestIs
<1>3. \A k, l \in Nat : k < l => \A u \in D(k), v \in D(l) : Before(q, u, v)
  BY DEF DueOf, Before
<1>4. Lists(e, ((D(1) \cup D(2)) \cup D(3)) \cup D(4), q)
  <2>1. Lists(Rest(s, 1, st) \o Rest(s, 2, st), D(1) \cup D(2), q)
    <3> HIDE DEF D
    <3>1. \A u \in D(1), v \in D(2) : Before(q, u, v)
      BY <1>3
    <3> QED BY <1>2, <3>1, ListsJoined
  <2>2. Lists((Rest(s, 1, st) \o Rest(s, 2, st)) \o Rest(s, 3, st), (D(1) \cup D(2)) \cup D(3), q)
    <3> HIDE DEF D
    <3>1. \A u \in D(1) \cup D(2), v \in D(3) : Before(q, u, v)
      BY <1>3
    <3> QED BY <1>2, <2>1, <3>1, ListsJoined
  <2>3. Lists(((Rest(s, 1, st) \o Rest(s, 2, st)) \o Rest(s, 3, st)) \o Rest(s, 4, st), ((D(1) \cup D(2)) \cup D(3)) \cup D(4), q)
    <3> HIDE DEF D
    <3>1. \A u \in (D(1) \cup D(2)) \cup D(3), v \in D(4) : Before(q, u, v)
      BY <1>3
    <3> QED BY <1>2, <2>2, <3>1, ListsJoined
  <2> QED BY <2>3
<1>5. ((D(1) \cup D(2)) \cup D(3)) \cup D(4) = U
  <2>1. \A i \in U : Kind[i] \in 1..4
    BY DueIs DEF Tables
  <2> QED BY <2>1 DEF DueOf
<1> HIDE DEF e, D
<1>6. Lists(e, U, q) /\ Len(e) \in Nat /\ e \in Seq(U)
  BY <1>4, <1>5 DEF Lists
<1>7. m \in Nat /\ m <= Len(e) /\ (m = 0 => Len(e) = 0)
  <2>1. {MaxItems, Len(e)} \subseteq Nat /\ {MaxItems, Len(e)} # {}
    BY <1>6, SyncAssumption
  <2>2. m \in {MaxItems, Len(e)} /\ \A x \in {MaxItems, Len(e)} : m <= x
    BY <2>1, LeastExists
  <2>3. MaxItems # 0
    BY SyncAssumption
  <2> HIDE DEF m
  <2> QED BY <2>1, <2>2, <2>3
<1>8. ChunkRows(s, st) = SubSeq(e, 1, m)
  BY DEF ChunkRows, e
<1> HIDE DEF m, U
<1>9. Len(ChunkRows(s, st)) = m /\ \A n \in 1..m : ChunkRows(s, st)[n] = e[n]
  BY <1>6, <1>7, <1>8
<1>10. Segment(rows, U, q)
  <2>1. \A u, v \in U : ~(Before(q, u, v) /\ Before(q, v, u))
    BY BeforeIsOrder DEF U
  <2> QED BY <1>6, <1>7, <1>9, <2>1, PrefixIsSegment
<1>11. Len(rows) = 0 => U = {}
  <2>1. Len(rows) = 0 => Len(e) = 0
    BY <1>7, <1>9
  <2>2. 1..0 = {}
    OBVIOUS
  <2> QED BY <1>6, <2>1, <2>2 DEF Lists
<1> QED BY <1>10, <1>11 DEF U

-----------------------------------------------------------------------------
(* The invariant of a wallet that never imported and no switch of which    *)
(* was cut off.  Times: nothing is later than the clock.  Pairs: what a     *)
(* pair of stores did not bring yet is due.  Flow: a chunk has the next     *)
(* rows due, as the reader has them.  Phase: one store leads, and what the *)
(* others lack of it is newer than their last sync with it.                *)

Calm == imports = 0 /\ "switch" \notin cut
Full == cut = {}

Timed(st) == st.when \in Int /\ st.max \in Int /\ st.when <= clock /\ st.max <= clock
Times ==
  /\ \A s \in Managed, i \in Items : There(row[s], i) => row[s][i].at \in Nat /\ row[s][i].at <= clock /\ row[s][i].ver <= clock
  /\ DOMAIN user = Stores /\ \A s \in Managed : user[s].at \in Nat /\ user[s].at <= clock
  /\ \A w, r \in Managed : Timed(sync[w][r])
  /\ ~mgr.avail => ~mgr.isActive

\* No chunk of the pair was stored but the last.
Idle(st) == \A k \in Tables : st.count[k] = 0
Pairs ==
  \A w, r \in Managed : w # r =>
    /\ Covers(sync[w][r], row[w], row[r], Full)
    /\ Full => (Doing("push") /\ w = To /\ r = From) \/ Idle(sync[w][r])

\* The rows of a chunk are as the reader has them, and the next ones due.
Flows(c, p, q, all) ==
  /\ Covers(c.st, p, q, all)
  /\ Segment(c.rows, Due(c.st, q), q)
  /\ \A n \in 1..Len(c.rows) : c.rows[n].val = q[c.rows[n].item]
  /\ c.size = 0 => c.rows = <<>> /\ Due(c.st, q) = {}
Flow ==
  job.chunk # NoChunk =>
    /\ Timed(job.chunk.st) /\ job.chunk.st.when = sync[To][From].when
    /\ Flows(job.chunk, row[To], row[From], Full)

\* What the rows q do not have of the rows p; what they lack is due to whoever
\* asks with one of the times T, and newer than what they have.
Lacks(p, q, i, all) ==
  There(p, i) /\ (~There(q, i) \/ (all /\ Newest(i) /\ q[i].ver < p[i].ver))
Forward(p, q, T, all) ==
  \A i \in Items : There(p, i) =>
    /\ There(q, i) /\ all /\ Newest(i) => q[i].ver <= p[i].ver
    /\ Lacks(p, q, i, all) => (\A t \in T : p[i].at >= t) /\ (There(q, i) => p[i].at > q[i].at)
Within(p, q) == \A i \in Items : There(q, i) => There(p, i)
Same(p, q, all) == \A i \in Items : ~Lacks(p, q, i, all)

Asked(s) == {sync[w][s].when : w \in Managed \ {s}}
Leads(a) == \A s \in Managed \ {a} : Within(row[a], row[s]) /\ Forward(row[a], row[s], Asked(s), Full)
Chosen(a) == \A s \in Managed : user[s].active = a
Agreed(a) == Available([s \in Managed |-> a])

PushesFrom(todo, a, m, n) == \A k \in m..n : \E s \in Managed \ {a} : todo[k] = Push(a, s)
Goes(todo, s, m, n) == \E k \in m..n : todo[k].to = s
Comes(todo, s, m, n) == \E k \in m..n : todo[k].from = s

\* No row, user row or sync was ever changed.
FreshRows ==
  /\ clock = 1 /\ \A s \in Managed : user[s] = NewUser(s)
  /\ \A s \in Managed, i \in Items : There(row[s], i) => row[s][i].at = 1 /\ row[s][i].ver = 1
Fresh ==
  /\ FreshRows /\ job.kind = "none" /\ \A w, r \in Managed : sync[w][r].when = Undefined
  /\ \E s, t \in Managed : s # t
  /\ mgr.avail => ~mgr.isActive /\ mgr.conflicts # {} /\ mgr.conflicts \cup {mgr.active} = Managed

\* From the m-th errand on a tells its choice, n, to all.
Marks(todo, a, m, n) ==
  /\ m \in 1..Len(todo) - 1 /\ todo[m] = Mark(a) /\ PushesFrom(todo, a, m + 1, Len(todo) - 1) 
  /\ todo[Len(todo)] = Wake(n) /\ \A s \in Managed \ {a} : Goes(todo, s, m + 1, Len(todo) - 1)
Switches(a) == job.kind = "switch" /\ mgr.avail /\ a \in Managed /\ job.target \in Managed

\* The rows of the conflicting stores are merged into a first.
Merging(a, m) ==
  /\ Switches(a) /\ Marks(job.todo, a, m, job.target) /\ job.target = a /\ FreshRows
  /\ \A w, r \in Managed : w # a => sync[w][r].when = Undefined
  /\ job.chunk # NoChunk => job.chunk.user \subseteq {user[From]}
  /\ \A k \in 1..m - 1 : \E s \in Managed \ {a} : job.todo[k] = Push(s, a)
  /\ \A s \in Managed \ {a} : Comes(job.todo, s, 1, m - 1) \/ Within(row[a], row[s])
Marking(a) == Switches(a) /\ Marks(job.todo, a, 1, job.target) /\ Leads(a)

\* The store s knows the choice of a.
Told(a, s) == user[s].active = job.target /\ user[s].at >= user[a].at
Waits(a, s) == user[a].at > sync[s][a].when /\ (user[s].at < user[a].at \/ Told(a, s))
Switching(a) ==
  /\ Switches(a) /\ Leads(a) /\ Len(job.todo) > 0
  /\ PushesFrom(job.todo, a, 1, Len(job.todo) - 1) /\ job.todo[Len(job.todo)] = Wake(job.target)
  /\ user[a].active = job.target
  /\ \A s \in Managed \ {a} :
       \/ Goes(job.todo, s, 1, Len(job.todo) - 1) /\ Waits(a, s)
       \/ Told(a, s) /\ Same(row[a], row[s], Full)
  /\ job.chunk # NoChunk => job.chunk.user = {user[a]} \/ (job.chunk.user = {} /\ Told(a, To))
Pushing(a) ==
  /\ job.kind = "backup" /\ mgr.avail /\ PushesFrom(job.todo, a, 1, Len(job.todo))
  /\ \A s \in Managed \ {a} : Goes(job.todo, s, 1, Len(job.todo)) \/ Same(row[a], row[s], Full)
  /\ job.chunk # NoChunk => job.chunk.user \subseteq {user[a]}
Settled(a) ==
  /\ a \in Managed /\ Leads(a) /\ Chosen(a) /\ (mgr.avail => mgr = Agreed(a))
  /\ \/ job.kind = "none"
     \/ job.kind = "switch" /\ job.todo = <<>> /\ mgr.avail
     \/ Pushing(a)

Phase == Fresh \/ (\E a \in Managed : (\E m \in Nat : Merging(a, m)) \/ Marking(a) \/ Switching(a) \/ Settled(a))
Good == Times /\ Pairs /\ Flow /\ Phase
CalmInv == SyInv /\ imports \in Nat /\ (Calm => Good)

LEMMA BookIs ==
  ASSUME SyInv, Times, NEW s \in Managed
  PROVE  s \in Stores /\ Book(row[s]) /\ \A i \in Items : There(row[s], i) => row[s][i].id \in Ids
<1>1. s \in Stores
  BY DEF Stores
<1>2. DOMAIN row[s] = Items /\ \A i \in Items : row[s][i].ver \in Nat
  BY <1>1 DEF SyInv, RowsInv, RowsTyped, RowRec
<1>3. ASSUME NEW i \in Items, There(row[s], i) PROVE row[s][i].id \in Ids
  <2>1. row[s][i].id \in 1..Cardinality(Of(s, Kind[i]))
    BY <1>1, <1>3 DEF SyInv, RowsInv, Numbered, There, Has
  <2>2. Cardinality(Items) \in Nat
    BY SyncAssumption, FS_CardinalityType
  <2> QED BY <1>1, <2>1, <2>2, RowsCount DEF Ids
<1>4. ASSUME NEW i \in Items, There(row[s], i) PROVE row[s][i].id \in Nat /\ row[s][i].at \in Nat
  BY <1>3, <1>4 DEF Ids, Times
<1>5. \A i, j \in Items : There(row[s], i) /\ There(row[s], j) /\ Kind[i] = Kind[j] /\ row[s][i].id = row[s][j].id => i = j
  BY <1>1 DEF SyInv, RowsInv, Numbered, There, Has
<1> QED BY <1>1, <1>2, <1>3, <1>4, <1>5 DEF Book

LEMMA StateIs ==
  ASSUME NEW st, NEW w, NEW r, SyncOK(st, w, r), Timed(st)
  PROVE  State(st)
BY DEF SyncOK, Timed, State

LEMMA MaxOfTwo ==
  ASSUME NEW m \in Int, NEW n \in Int
  PROVE  Max({m, n}) \in {m, n} /\ Max({m, n}) >= m /\ Max({m, n}) >= n
<1>1. \E x \in {m, n} : \A y \in {m, n} : x >= y
  OBVIOUS
<1> QED BY <1>1 DEF Max

-----------------------------------------------------------------------------
(* Lists of errands.                                                       *)

LEMMA OrderTaken ==
  ASSUME NEW S, S \subseteq Managed
  PROVE  /\ Len(InOrder(S)) \in Nat /\ \A n \in 1..Len(InOrder(S)) : InOrder(S)[n] \in S
         /\ \A s \in S : \E n \in 1..Len(InOrder(S)) : InOrder(S)[n] = s
<1>1. IsFiniteSet(S) /\ Cardinality(S) \in Nat
  BY StoresManaged, FS_Subset, FS_CardinalityType
<1>2. \A s \in S : Place(s) \in DOMAIN Order /\ Order[Place(s)] = s
  BY DEF Managed, Range, Place
<1> DEFINE f == [s \in S |-> Place(s)]
           e == [n \in 1..Cardinality(S) |-> CHOOSE i \in S : Cardinality({j \in S : Place(j) < Place(i)}) = n - 1]
<1>3. f \in [S -> Int] /\ \A i, j \in S : f[i] = f[j] => i = j
  BY <1>2, StoresManaged
<1>4. \A i \in S : Level(S, f, i) = Cardinality({j \in S : Place(j) < Place(i)})
  <2>1. \A i \in S : {j \in S : f[j] < f[i]} = {j \in S : Place(j) < Place(i)}
    OBVIOUS
  <2> QED BY <2>1 DEF Level
<1>5. InOrder(S) = e
  BY DEF InOrder, Ranked
<1>6. InOrder(S) \in Seq(Managed) /\ Len(InOrder(S)) = Cardinality(S)
  <2>1. InOrder(S) \in Seq(Managed)
    BY RankedOrder
  <2>2. DOMAIN InOrder(S) = 1..Cardinality(S)
    BY <1>5
  <2> HIDE DEF e
  <2> QED BY <1>1, <2>1, <2>2
<1>7. ASSUME NEW i \in S, NEW j \in S, Level(S, f, i) = Level(S, f, j) PROVE i = j
  <2> HIDE DEF f
  <2>1. ~(f[i] < f[j])
    BY <1>1, <1>3, <1>7, LevelRises
  <2>2. ~(f[j] < f[i])
    BY <1>1, <1>3, <1>7, LevelRises
  <2> QED BY <1>3, <2>1, <2>2
<1>8. ASSUME NEW n \in 1..Cardinality(S) PROVE e[n] \in S /\ Level(S, f, e[n]) = n - 1
  <2>1. \E i \in S : Level(S, f, i) = n - 1
    <3> HIDE DEF f
    <3> QED BY <1>1, <1>3, RankTaken
  <2>2. \E i \in S : Cardinality({j \in S : Place(j) < Place(i)}) = n - 1
    BY <1>4, <2>1
  <2>3. e[n] \in S /\ Cardinality({j \in S : Place(j) < Place(e[n])}) = n - 1
    BY <2>2
  <2> HIDE DEF e, f
  <2> QED BY <1>4, <2>3
<1>9. ASSUME NEW s \in S PROVE \E n \in 1..Cardinality(S) : e[n] = s
  <2>1. Level(S, f, s) \in Nat /\ Level(S, f, s) < Cardinality(S)
    <3> HIDE DEF f
    <3> QED BY <1>1, <1>3, LevelRises
  <2>2. PICK n \in 1..Cardinality(S) : n = Level(S, f, s) + 1
    BY <1>1, <2>1
  <2>3. Level(S, f, s) = n - 1
    BY <2>1, <2>2
  <2> HIDE DEF e, f
  <2> QED BY <1>7, <1>8, <2>3
<1> HIDE DEF e, f
<1> QED BY <1>1, <1>5, <1>6, <1>8, <1>9

\* The list e tells the stores S, and no other, what a has.
Tells(e, a, S) ==
  /\ Len(e) \in Nat /\ \A n \in 1..Len(e) : \E s \in S : e[n] = Push(a, s)
  /\ \A s \in S : \E n \in 1..Len(e) : e[n] = Push(a, s)

LEMMA PushesAre ==
  ASSUME NEW S, S \subseteq Managed, NEW a
  PROVE  Tells(Pushes(a, S), a, S)
<1>1. /\ Len(InOrder(S)) \in Nat /\ \A n \in 1..Len(InOrder(S)) : InOrder(S)[n] \in S
      /\ \A s \in S : \E n \in 1..Len(InOrder(S)) : InOrder(S)[n] = s
  BY OrderTaken
<1>2. Pushes(a, S) = [n \in 1..Len(InOrder(S)) |-> Push(a, InOrder(S)[n])]
  BY DEF Pushes
<1>3. Len(Pushes(a, S)) = Len(InOrder(S))
  BY <1>1, <1>2
<1> QED BY <1>1, <1>2, <1>3 DEF Tells

LEMMA TailShifts ==
  ASSUME NEW S, NEW e \in Seq(S), e # <<>>
  PROVE  /\ Len(e) \in Nat \ {0} /\ Len(Tail(e)) = Len(e) - 1 /\ Head(e) = e[1]
         /\ \A k \in 1..Len(e) - 1 : Tail(e)[k] = e[k + 1]
OBVIOUS

\* All of the stores agree on a.
LEMMA AgreedIs ==
  ASSUME NEW a \in Managed
  PROVE  /\ Agreed(a).active = a /\ Agreed(a).conflicts = {} /\ Agreed(a).backups = Managed \ {a}
         /\ Agreed(a).avail /\ Agreed(a).isActive /\ Agreed(a).cache = [s \in Managed |-> a]
<1> DEFINE cache == [s \in Managed |-> a]
           own == {n \in DOMAIN Order : cache[Order[n]] = Order[n]}
<1>1. \A n \in DOMAIN Order : Order[n] \in Managed
  BY DEF Managed, Range
<1>2. own # {} /\ own \subseteq Nat
  <2>1. \E n \in DOMAIN Order : Order[n] = a
    BY DEF Managed, Range
  <2> QED BY <1>1, <2>1, StoresManaged
<1>3. Min(own) \in own
  BY <1>2, LeastExists
<1>4. Order[Min(own)] = a
  BY <1>1, <1>3
<1>5. Selected(cache) = a
  <2>1. Selected(cache) = Order[IF own = {} THEN 1 ELSE Min(own)]
    BY DEF Selected
  <2> HIDE DEF own
  <2> QED BY <1>2, <1>4, <2>1
<1>6. cache[a] = a /\ {s \in Managed \ {a} : cache[s] # a} = {}
  OBVIOUS
<1>7. Agreed(a) = Available(cache)
  BY DEF Agreed
<1> HIDE DEF cache, own
<1>8. PICK b, others : b = (cache[a] = a /\ {} = {}) /\ others = Managed \ {a}
  OBVIOUS
<1>9. b
  BY <1>6, <1>8
<1>10. others \ {} = others
  OBVIOUS
<1>11. Available(cache) = 
         [avail |-> TRUE, active |-> a, backups |-> others, conflicts |-> {}, cache |-> cache, isActive |-> b]
  BY <1>5, <1>6, <1>8, <1>10 DEF Available
<1> QED BY <1>7, <1>8, <1>9, <1>11 DEF cache

\* Every store is its own choice.
LEMMA OwnIs ==
  LET m == Available([s \in Managed |-> s])
  IN  /\ m.active \in Managed /\ m.conflicts = Managed \ {m.active} /\ m.avail
      /\ (m.conflicts # {} => ~m.isActive)
<1> DEFINE cache == [s \in Managed |-> s]
           a == Selected(cache)
<1>1. Available(cache).active \in Managed
  BY Partition
<1>2. Available(cache).active = a
  BY DEF Available
<1>3. {s \in Managed \ {a} : cache[s] # a} = Managed \ {a}
  OBVIOUS
<1> HIDE DEF cache, a
<1> QED BY <1>1, <1>2, <1>3 DEF Available, cache, a

LEMMA FourJoined ==
  ASSUME NEW E, NEW e \in Seq(E), NEW x \in E, NEW f \in Seq(E), NEW y \in E, NEW t, t = e \o <<x>> \o f \o <<y>>
  PROVE  /\ Len(e) \in Nat /\ Len(f) \in Nat /\ Len(t) = Len(e) + Len(f) + 2
         /\ \A k \in 1..Len(e) : t[k] = e[k]
         /\ t[Len(e) + 1] = x /\ t[Len(t)] = y
         /\ \A k \in 1..Len(f) : t[Len(e) + 1 + k] = f[k]
<1>1. Len(e) \in Nat /\ Len(f) \in Nat
  OBVIOUS
<1>2. PICK u : u = e \o <<x>>
  OBVIOUS
<1>3. /\ u \in Seq(E) /\ Len(u) = Len(e) + 1 /\ \A k \in 1..Len(e) : u[k] = e[k]
      /\ u[Len(e) + 1] = x
  BY <1>2
<1>4. PICK v : v = u \o f
  OBVIOUS
<1>5. /\ v \in Seq(E) /\ Len(v) = Len(u) + Len(f) 
      /\ \A k \in 1..Len(u) + Len(f) : v[k] = IF k <= Len(u) THEN u[k] ELSE f[k - Len(u)]
  <2>1. u \in Seq(E) /\ f \in Seq(E)
    BY <1>3
  <2>2. u \o f \in Seq(E) /\ Len(u \o f) = Len(u) + Len(f)
    BY ONLY <2>1, ConcatProperties
  <2>3. \A k \in 1..Len(u) + Len(f) : (u \o f)[k] = IF k <= Len(u) THEN u[k] ELSE f[k - Len(u)]
    BY ONLY <2>1, ConcatProperties
  <2> QED BY <1>4, <2>2, <2>3
<1>6. t = v \o <<y>>
  BY <1>2, <1>4
<1>7. Len(t) = Len(v) + 1 /\ (\A k \in 1..Len(v) : t[k] = v[k]) /\ t[Len(v) + 1] = y
  BY <1>5, <1>6
<1>8. ASSUME NEW k \in 1..Len(e) PROVE t[k] = e[k]
  BY <1>1, <1>3, <1>5, <1>7
<1>9. ASSUME NEW k \in 1..Len(f) PROVE t[Len(e) + 1 + k] = f[k]
  <2>1. Len(u) + k \in 1..Len(v) /\ Len(u) + k \in 1..Len(u) + Len(f) /\ ~(Len(u) + k <= Len(u)) /\ (Len(u) + k) - Len(u) = k
    BY <1>1, <1>3, <1>5
  <2>2. t[Len(u) + k] = f[k]
    BY <1>5, <1>7, <2>1
  <2> QED BY <1>3, <2>2
<1>10. t[Len(e) + 1] = x
  BY <1>1, <1>3, <1>5, <1>7
<1> QED BY <1>1, <1>3, <1>5, <1>7, <1>8, <1>9, <1>10

\* A switch to n: the conflicting stores S are pushed to n, then a marks its choice
\* and is pushed to all.
SwitchList(n, a, S) ==
  [k \in 1..Len(InOrder(S)) |-> Push(InOrder(S)[k], n)]
  \o <<Mark(a)>> \o Pushes(a, Managed \ {a}) \o <<Wake(n)>>
SwitchesTo(t, n, a, S, m) ==
  /\ m \in Nat /\ Marks(t, a, m, n) /\ (S = {} => m = 1)
  /\ \A k \in 1..m - 1 : \E s \in S : t[k] = Push(s, n)
  /\ \A s \in S : Comes(t, s, 1, m - 1)

LEMMA SwitchIs ==
  ASSUME NEW n \in Managed, NEW a \in Managed, NEW S, S \subseteq Managed, NEW t, t = SwitchList(n, a, S)
  PROVE  \E m : SwitchesTo(t, n, a, S, m)
<1> DEFINE e == [k \in 1..Len(InOrder(S)) |-> Push(InOrder(S)[k], n)]
           f == Pushes(a, Managed \ {a})
           M == Len(InOrder(S))
           P == Len(f)
<1>1. /\ M \in Nat /\ \A k \in 1..M : InOrder(S)[k] \in S
      /\ \A s \in S : \E k \in 1..M : InOrder(S)[k] = s
  BY OrderTaken
<1>2. e \in Seq(Errands) /\ f \in Seq(Errands)
  BY ManyPushes
<1>3. Mark(a) \in Errands /\ Wake(n) \in Errands
  BY DEF Mark, Wake, Errands, Stores
<1>4. Len(e) = M /\ \A k \in 1..M : e[k] = Push(InOrder(S)[k], n)
  BY <1>1
<1>5. /\ P \in Nat /\ \A k \in 1..P : \E s \in Managed \ {a} : f[k] = Push(a, s)
      /\ \A s \in Managed \ {a} : \E k \in 1..P : f[k] = Push(a, s)
  <2>1. Tells(f, a, Managed \ {a})
    BY PushesAre
  <2> HIDE DEF f, P
  <2> QED BY <2>1 DEF Tells, P
<1>6. /\ Len(t) = M + P + 2
      /\ \A k \in 1..M : t[k] = e[k]
      /\ t[M + 1] = Mark(a) /\ t[Len(t)] = Wake(n)
      /\ \A k \in 1..P : t[M + 1 + k] = f[k]
  <2> HIDE DEF e, f
  <2>1. t = e \o <<Mark(a)>> \o f \o <<Wake(n)>>
    BY DEF e, f, SwitchList
  <2>2. Len(e) = M /\ Len(f) = P
    BY <1>4 DEF P
  <2> HIDE DEF M, P
  <2>3. PICK x, y, E : x = Mark(a) /\ y = Wake(n) /\ E = Errands
    OBVIOUS
  <2>4. e \in Seq(E) /\ x \in E /\ f \in Seq(E) /\ y \in E /\ t = e \o <<x>> \o f \o <<y>>
    BY <1>2, <1>3, <2>1, <2>3
  <2>5. /\ Len(t) = Len(e) + Len(f) + 2
        /\ \A k \in 1..Len(e) : t[k] = e[k]
        /\ t[Len(e) + 1] = x /\ t[Len(t)] = y
        /\ \A k \in 1..Len(f) : t[Len(e) + 1 + k] = f[k]
    BY ONLY <2>4, FourJoined
  <2> QED BY <2>2, <2>3, <2>5
<1> HIDE DEF e, f, M, P
<1>7. PushesFrom(t, a, M + 2, Len(t) - 1)
  <2> SUFFICES ASSUME NEW k \in M + 2..Len(t) - 1 PROVE \E s \in Managed \ {a} : t[k] = Push(a, s)
    BY DEF PushesFrom
  <2>1. PICK l \in 1..P : k = M + 1 + l
    <3>1. M \in Nat /\ P \in Nat /\ Len(t) = M + P + 2
      BY <1>1, <1>5, <1>6
    <3>2. k - M - 1 \in 1..P /\ k = M + 1 + (k - M - 1)
      BY <3>1
    <3> QED BY <3>2
  <2> QED BY <1>5, <1>6, <2>1
<1>8. ASSUME NEW s \in Managed \ {a} PROVE Goes(t, s, M + 2, Len(t) - 1)
  <2>1. PICK l \in 1..P : f[l] = Push(a, s)
    BY <1>5
  <2>2. M + 1 + l \in M + 2..Len(t) - 1
    <3>1. M \in Nat /\ P \in Nat /\ Len(t) = M + P + 2
      BY <1>1, <1>5, <1>6
    <3> QED BY <3>1
  <2>3. t[M + 1 + l] = f[l]
    BY <1>6
  <2>4. Push(a, s).to = s
    BY DEF Push
  <2> QED BY <2>1, <2>2, <2>3, <2>4 DEF Goes
<1>9. ASSUME NEW s \in S PROVE Comes(t, s, 1, M)
  <2>1. PICK k \in 1..M : InOrder(S)[k] = s
    BY <1>1
  <2>2. t[k] = Push(s, n)
    BY <1>4, <1>6, <2>1
  <2>3. Push(s, n).from = s
    BY DEF Push
  <2> QED BY <2>2, <2>3 DEF Comes
<1>10. PICK m \in Nat : m = M + 1
  BY <1>1
<1>11. m + 1 = M + 2 /\ m - 1 = M /\ m \in 1..Len(t) - 1
  <2>1. M \in Nat /\ P \in Nat /\ Len(t) = M + P + 2
    BY <1>1, <1>5, <1>6
  <2> QED BY <1>10, <2>1
<1>12. Marks(t, a, m, n)
  BY <1>6, <1>7, <1>8, <1>10, <1>11 DEF Marks
<1>13. \A k \in 1..m - 1 : \E s \in S : t[k] = Push(s, n)
  <2> SUFFICES ASSUME NEW k \in 1..M PROVE \E s \in S : t[k] = Push(s, n)
    BY <1>11
  <2>1. t[k] = Push(InOrder(S)[k], n) /\ InOrder(S)[k] \in S
    BY <1>1, <1>4, <1>6
  <2> QED BY <2>1
<1>14. S = {} => m = 1
  <2> SUFFICES ASSUME S = {}, m # 1 PROVE FALSE
    OBVIOUS
  <2>1. 1 \in 1..M
    BY <1>1, <1>10
  <2> QED BY <1>1, <2>1
<1> QED BY <1>9, <1>11, <1>12, <1>13, <1>14 DEF SwitchesTo

-----------------------------------------------------------------------------
(* Steps that leave the rows alone.                                        *)

LEMMA NextBook ==
  ASSUME SyInv', Times', NEW s \in Managed
  PROVE  Book(row'[s])
<1>1. s \in Stores
  BY DEF Stores
<1>2. DOMAIN row'[s] = Items /\ \A i \in Items : row'[s][i].ver \in Nat
  BY <1>1 DEF SyInv, RowsInv, RowsTyped, RowRec
<1>3. ASSUME NEW i \in Items, There(row'[s], i) PROVE row'[s][i].id \in Nat /\ row'[s][i].at \in Nat
  <2>1. row'[s][i].id \in 1..Cardinality(Of(s, Kind[i])')
    BY <1>1, <1>3 DEF SyInv, RowsInv, Numbered, There, Has
  <2>2. row'[s][i].id \in Nat
    BY <2>1
  <2> QED BY <1>3, <2>2 DEF Times
<1>4. \A i, j \in Items : There(row'[s], i) /\ There(row'[s], j) /\ Kind[i] = Kind[j] /\ row'[s][i].id = row'[s][j].id => i = j
  BY <1>1 DEF SyInv, RowsInv, Numbered, There, Has
<1> QED BY <1>2, <1>3, <1>4 DEF Book

LEMMA TimesStay ==
  ASSUME SyInv, Times, UNCHANGED <<row, sync>>, clock' \in Nat, clock' >= clock, DOMAIN user' = Stores, 
         \A s \in Managed : user'[s].at \in Nat /\ user'[s].at <= clock', ~mgr'.avail => ~mgr'.isActive
  PROVE  Times'
<1>1. clock \in Nat
  BY DEF SyInv
<1>2. ASSUME NEW s \in Managed, NEW i \in Items, There(row[s], i) 
      PROVE row[s][i].at \in Nat /\ row[s][i].at <= clock' /\ row[s][i].ver <= clock'
  <2>1. row[s][i].at \in Nat /\ row[s][i].at <= clock /\ row[s][i].ver <= clock
    BY <1>2 DEF Times
  <2>2. row[s][i].ver \in Nat
    BY DEF SyInv, RowsInv, RowsTyped, RowRec, Stores
  <2> QED BY <1>1, <2>1, <2>2
<1>3. ASSUME NEW w \in Managed, NEW r \in Managed PROVE Timed(sync[w][r])'
  <2>1. Timed(sync[w][r])
    BY DEF Times
  <2> QED BY <1>1, <2>1 DEF Timed
<1> QED BY <1>2, <1>3 DEF Times, There

\* The same errands are ahead.
SameErrands == job'.kind = job.kind /\ job'.todo = job.todo

LEMMA ErrandsSame ==
  ASSUME SameErrands
  PROVE  (Doing("push")' <=> Doing("push")) /\ To' = To /\ From' = From
BY DEF SameErrands, Doing, To, From

LEMMA PairsStay ==
  ASSUME SyInv, Times, Pairs, UNCHANGED <<row, sync>>, Full' => Full, Full' => ~Doing("push") \/ SameErrands
  PROVE  Pairs'
<1> SUFFICES ASSUME NEW w \in Managed, NEW r \in Managed, w # r
             PROVE  /\ Covers(sync[w][r], row[w], row[r], Full')
                    /\ Full' => (Doing("push") /\ w = To /\ r = From)' \/ Idle(sync[w][r])
  BY DEF Pairs, Idle
<1>1. Covers(sync[w][r], row[w], row[r], Full) /\ (Full => (Doing("push") /\ w = To /\ r = From) \/ Idle(sync[w][r]))
  BY DEF Pairs
<1>2. Book(row[w]) /\ Book(row[r])
  BY BookIs
<1>3. PICK p, q, st, all, less : p = row[w] /\ q = row[r] /\ st = sync[w][r] /\ all = Full /\ less = Full'
  OBVIOUS
<1>4. \A i \in Items : p[i].ver >= p[i].ver
  BY <1>2, <1>3 DEF Book
<1>5. less => all
  BY <1>3
<1>6. Covers(st, p, q, less)
  <2>1. Covers(st, p, q, all) /\ Book(p) /\ Book(q)
    BY <1>1, <1>2, <1>3
  <2> QED BY <1>4, <1>5, <2>1, CoverStays
<1>7. Full' => (Doing("push") /\ w = To /\ r = From)' \/ Idle(sync[w][r])
  BY <1>1, ErrandsSame
<1> QED BY <1>3, <1>6, <1>7

LEMMA ChunkRuns ==
  ASSUME SyInv, job.chunk # NoChunk
  PROVE  Doing("push") /\ ChunkOK(job.chunk, To, From) /\ To \in Managed /\ From \in Stores
BY ErrandEnds DEF SyInv, JobOK, Doing

LEMMA NoErrand ==
  ASSUME SyInv, ~Doing("push")
  PROVE  job.chunk = NoChunk
BY ChunkRuns

\* Who pushes to whom.
LEMMA PushEnds ==
  ASSUME SyInv, Phase, Doing("push")
  PROVE  /\ From \in Managed /\ To \in Managed /\ From # To /\ ~Fresh
         /\ job.kind \in {"switch", "backup"} /\ mgr.avail
         /\ \A a \in Managed : ~Marking(a)
         /\ \A a \in Managed, m \in Nat : Merging(a, m) => m # 1 /\ To = a /\ job.todo[1] = Push(From, a)
         /\ \A a \in Managed : Switching(a) => From = a /\ Len(job.todo) > 1 /\ job.todo[1] = Push(a, To)
         /\ \A a \in Managed : Settled(a) => Pushing(a) /\ From = a /\ job.todo[1] = Push(a, To)
<1>1. job.todo \in Seq(Errands) /\ job.todo # <<>> /\ Head(job.todo).op = "push" /\ job.kind # "none"
  BY DEF SyInv, JobOK, Doing
<1>2. Len(job.todo) \in Nat \ {0} /\ Head(job.todo) = job.todo[1]
  BY <1>1, TailShifts
<1>3. job.todo[1].op = "push" /\ From = job.todo[1].from /\ To = job.todo[1].to
  BY <1>1, <1>2 DEF From, To
<1>4. \A s, t : /\ Push(s, t).op = "push" /\ Push(s, t).from = s /\ Push(s, t).to = t
                /\ Mark(s).op = "mark" /\ Wake(s).op = "wake"
  BY DEF Push, Mark, Wake
<1>5. ~Fresh
  BY <1>1 DEF Fresh
<1>6. ASSUME NEW a \in Managed PROVE ~Marking(a)
  <2> SUFFICES ASSUME Marking(a) PROVE FALSE
    OBVIOUS
  <2>1. job.todo[1] = Mark(a)
    BY DEF Marking, Marks
  <2> QED BY <1>3, <1>4, <2>1
<1>7. ASSUME NEW a \in Managed, NEW m \in Nat, Merging(a, m)
      PROVE  /\ m # 1 /\ To = a /\ job.todo[1] = Push(From, a) /\ From \in Managed /\ From # a
             /\ job.kind = "switch" /\ mgr.avail
  <2>1. m \in 1..Len(job.todo) - 1 /\ job.todo[m] = Mark(a)
    BY <1>7 DEF Merging, Marks
  <2>2. m # 1
    BY <1>3, <1>4, <2>1
  <2>3. 1 \in 1..m - 1
    BY <2>1, <2>2
  <2>4. PICK s \in Managed \ {a} : job.todo[1] = Push(s, a)
    BY <1>7, <2>3 DEF Merging
  <2> QED BY <1>3, <1>4, <1>7, <2>2, <2>4 DEF Merging, Switches
<1>8. ASSUME NEW a \in Managed, Switching(a)
      PROVE  /\ From = a /\ Len(job.todo) > 1 /\ job.todo[1] = Push(a, To) /\ To \in Managed /\ To # a
             /\ job.kind = "switch" /\ mgr.avail
  <2>1. PushesFrom(job.todo, a, 1, Len(job.todo) - 1) /\ job.todo[Len(job.todo)] = Wake(job.target)
    BY <1>8 DEF Switching
  <2>2. Len(job.todo) # 1
    BY <1>3, <1>4, <2>1
  <2>3. 1 \in 1..Len(job.todo) - 1 /\ Len(job.todo) > 1
    <3>1. PICK len : len = Len(job.todo)
      OBVIOUS
    <3>2. len \in Nat \ {0} /\ len # 1
      BY <1>2, <2>2, <3>1
    <3>3. 1 \in 1..len - 1 /\ len > 1
      BY <3>2
    <3> QED BY <3>1, <3>3
  <2>4. PICK s \in Managed \ {a} : job.todo[1] = Push(a, s)
    BY <2>1, <2>3 DEF PushesFrom
  <2> QED BY <1>3, <1>4, <1>8, <2>3, <2>4 DEF Switching, Switches
<1>9. ASSUME NEW a \in Managed, Settled(a)
      PROVE  /\ Pushing(a) /\ From = a /\ job.todo[1] = Push(a, To) /\ To \in Managed /\ To # a
             /\ job.kind = "backup" /\ mgr.avail
  <2>1. Pushing(a)
    BY <1>1, <1>9 DEF Settled
  <2>2. 1 \in 1..Len(job.todo)
    BY <1>2
  <2>3. PICK s \in Managed \ {a} : job.todo[1] = Push(a, s)
    BY <2>1, <2>2 DEF Pushing, PushesFrom
  <2> QED BY <1>3, <1>4, <2>1, <2>3 DEF Pushing
<1> QED BY <1>5, <1>6, <1>7, <1>8, <1>9 DEF Phase

-----------------------------------------------------------------------------
(* A row is merged.                                                        *)

\* The writer has what is older or the same as what the reader sends.
LEMMA Forwards ==
  ASSUME SyInv, Good, Doing("push")
  PROVE  Forward(row[From], row[To], Asked(To), Full)
<1>1. /\ From \in Managed /\ To \in Managed /\ From # To /\ ~Fresh
      /\ \A a \in Managed : ~Marking(a)
      /\ \A a \in Managed, m \in Nat : Merging(a, m) => To = a
      /\ \A a \in Managed : Switching(a) \/ Settled(a) => From = a
  BY PushEnds DEF Good
<1>2. PICK a \in Managed : (\E m \in Nat : Merging(a, m)) \/ Switching(a) \/ Settled(a)
  BY <1>1 DEF Good, Phase
<1>3. CASE Switching(a) \/ Settled(a)
  <2>1. Leads(a) /\ From = a
    BY <1>1, <1>3 DEF Switching, Settled
  <2> QED BY <1>1, <2>1 DEF Leads
<1>4. ASSUME NEW m \in Nat, Merging(a, m) PROVE Forward(row[From], row[To], Asked(To), Full)
  <2>1. FreshRows /\ To = a /\ \A w \in Managed : w # a => sync[w][a].when = Undefined
    BY <1>1, <1>4 DEF Merging
  <2>2. \A i \in Items : /\ There(row[From], i) => row[From][i].at = 1 /\ row[From][i].ver = 1
                         /\ There(row[To], i) => row[To][i].at = 1 /\ row[To][i].ver = 1
    BY <1>1, <2>1 DEF FreshRows
  <2>3. \A t \in Asked(To) : 1 >= t
    BY <2>1 DEF Asked, Undefined
  <2> QED BY <2>2, <2>3 DEF Forward, Lacks
<1> QED BY <1>2, <1>3, <1>4

\* What new, the row of i in the writer, has of the rows p before and of q.
Takes(i, p, q, new) ==
  /\ new.ver \in Nat /\ new.ver > 0 /\ new.at \in Nat /\ There(q, i)
  /\ ~There(p, i) => new.ver = q[i].ver /\ new.at = q[i].at
  /\ There(p, i) => 
       /\ new.at >= p[i].at /\ new.id = p[i].id
       /\ IF Newest(i) /\ q[i].at > p[i].at THEN new.ver = q[i].ver /\ new.at >= q[i].at ELSE new.ver = p[i].ver

LEMMA MergeTakes ==
  ASSUME SyInv, Times, From \in Managed, NEW x, NEW new, MergesRow(x, new), x.val = row[From][x.item]
  PROVE  Takes(x.item, row[To], row[From], new) /\ new.at <= clock /\ new.ver <= clock
<1> DEFINE i == x.item
           p == row[To]
           q == row[From]
<1>1. i \in Items /\ Kind[i] \in 1..4 /\ To \in Managed /\ Has(From, i) /\ clock \in Nat
  BY SyncAssumption DEF MergesRow, Carried, Tables, SyInv
<1>2. There(q, i) /\ q[i].at \in Nat /\ q[i].at <= clock /\ q[i].ver <= clock /\ q[i].ver \in Nat /\ q[i].ver > 0
  <2>1. There(q, i)
    BY <1>1 DEF Has, There
  <2> QED BY <1>1, <2>1, BookIs DEF Times, Book, There
<1>3. CASE ~There(p, i)
  <2>1. ~Has(To, i)
    BY <1>3 DEF There, Has
  <2>2. new = MergeNew(i, x.val, job.chunk.st.map)
    BY <2>1 DEF MergesRow
  <2>3. {"ver", "at", "id", "par"} \subseteq DOMAIN x.val
    BY DEF MergesRow, Carried, RowRec
  <2>4. new.ver = q[i].ver /\ new.at = q[i].at
    BY <2>2, <2>3 DEF MergeNew
  <2> QED BY <1>2, <1>3, <2>4 DEF Takes
<1>4. CASE There(p, i)
  <2>1. Has(To, i) /\ RowRec(p[i]) /\ p[i].at \in Nat /\ p[i].at <= clock /\ p[i].ver <= clock /\ p[i].ver > 0
    BY <1>1, <1>4 DEF There, Has, SyInv, RowsInv, RowsTyped, Times, Stores
  <2>2. new = MergeExisting(i, p[i], x.val)
    BY <2>1 DEF MergesRow
  <2>3. PICK old, val, t : old = p[i] /\ val = x.val /\ t = Max({val.at, old.at})
    OBVIOUS
  <2>4. /\ RowRec(old) /\ old.at \in Nat /\ old.at <= clock /\ old.ver <= clock /\ old.ver > 0
        /\ val.ver = q[i].ver /\ val.at = q[i].at /\ t \in {val.at, old.at} /\ t >= old.at
    <3>1. val.ver = q[i].ver /\ val.at = q[i].at /\ val.at \in Int /\ old.at \in Int
      BY <1>2, <2>1, <2>3
    <3>2. t \in {val.at, old.at} /\ t >= old.at
      BY <2>3, <3>1, MaxOfTwo
    <3> QED BY <2>1, <2>3, <3>1, <3>2
  <2>5. CASE Kind[i] = 1
    <3>1. new = old /\ ~Newest(i)
      BY <2>2, <2>3, <2>5 DEF MergeExisting, MergeProven, Newest
    <3> QED BY <1>2, <1>4, <2>3, <2>4, <3>1 DEF Takes, RowRec
  <2>6. CASE Kind[i] \in {2, 3}
    <3>1. new = IF val.at > old.at THEN [old EXCEPT !.ver = val.ver, !.at = Stamp(To, val.at)] ELSE old
      BY <2>2, <2>3, <2>6 DEF MergeExisting, MergeNewer
    <3>2. Newest(i)
      BY <2>6 DEF Newest
    <3>3. CASE val.at > old.at
      <4>1. new.ver = val.ver /\ new.at = Stamp(To, val.at) /\ new.id = old.id
        BY <2>4, <3>1, <3>3 DEF RowRec
      <4>2. Stamp(To, val.at) \in Nat /\ Stamp(To, val.at) >= val.at /\ Stamp(To, val.at) <= clock
        BY <1>1, <1>2, <2>4 DEF Stamp
      <4> QED BY <1>2, <1>4, <2>3, <2>4, <3>2, <3>3, <4>1, <4>2 DEF Takes, RowRec
    <3>4. CASE ~(val.at > old.at)
      BY <1>2, <1>4, <2>3, <2>4, <3>1, <3>4 DEF Takes, RowRec
    <3> QED BY <3>3, <3>4
  <2>7. CASE Kind[i] = 4
    <3>1. new = [old EXCEPT !.at = Stamp(To, t)] /\ ~Newest(i)
      BY <2>2, <2>3, <2>7 DEF MergeExisting, MergeReq, Newest
    <3>2. new.ver = old.ver /\ new.at = Stamp(To, t) /\ new.id = old.id
      BY <2>4, <3>1 DEF RowRec
    <3>3. Stamp(To, t) \in Nat /\ Stamp(To, t) >= t /\ Stamp(To, t) <= clock
      BY <1>1, <1>2, <2>4 DEF Stamp
    <3> QED BY <1>2, <1>4, <2>3, <2>4, <3>1, <3>2, <3>3 DEF Takes, RowRec
  <2> QED BY <1>1, <2>5, <2>6, <2>7
<1> QED BY <1>3, <1>4

\* Afterwards the writer lacks nothing of it, and has not less than before.
LEMMA TakesAll ==
  ASSUME NEW p, Book(p), NEW q, Book(q), NEW T, NEW all, Forward(q, p, T, all), NEW i \in Items, NEW new, Takes(i, p, q, new)
  PROVE  /\ all /\ Newest(i) => new.ver = q[i].ver /\ new.ver >= p[i].ver
         /\ all /\ Newest(i) /\ There(p, i) /\ new.ver # p[i].ver => (\A t \in T : q[i].at >= t) /\ new.at >= q[i].at
         /\ ~There(p, i) => (\A t \in T : q[i].at >= t) /\ new.at = q[i].at
         /\ There(p, i) => new.at >= p[i].at
<1>1. There(q, i) /\ q[i].ver \in Nat /\ p[i].ver \in Nat
  BY DEF Takes, Book
<1>2. ~There(p, i) => p[i].ver = 0
  BY <1>1 DEF There
<1>3. CASE ~There(p, i)
  BY <1>1, <1>2, <1>3 DEF Takes, Forward, Lacks
<1>4. CASE There(p, i)
  <2>1. all /\ Newest(i) => p[i].ver <= q[i].ver
    BY <1>1, <1>4 DEF Forward
  <2>2. all /\ Newest(i) /\ p[i].ver # q[i].ver => q[i].at > p[i].at /\ \A t \in T : q[i].at >= t
    BY <1>1, <1>4, <2>1 DEF Forward, Lacks
  <2> QED BY <1>1, <1>4, <2>1, <2>2 DEF Takes
<1> QED BY <1>3, <1>4

\* What a step does that merges the row of item i.
MergesOne(i, new) ==
  /\ From \in Managed /\ To \in Managed /\ From # To /\ Doing("push") /\ job.chunk # NoChunk
  /\ SameErrands /\ job'.target = job.target
  /\ Takes(i, row[To], row[From], new) /\ new.at <= clock /\ new.ver <= clock
  /\ ~There(row[To], i) => \A j \in Items : Kind[j] = Kind[i] /\ There(row[To], j) => row[To][j].id < new.id
  /\ row'[To] = [row[To] EXCEPT ![i] = new] /\ \A s \in Managed \ {To} : row'[s] = row[s]
  /\ Advances(job.chunk.st, job'.chunk.st, row[From], i, new.id) /\ Timed(job'.chunk.st)
  /\ \A u \in Due(job.chunk.st, row[From]) : ~Before(row[From], u, i)
  /\ Segment(job'.chunk.rows, Due(job.chunk.st, row[From]) \ {i}, row[From])
  /\ \A n \in 1..Len(job'.chunk.rows) : job'.chunk.rows[n].val = row[From][job'.chunk.rows[n].item]
  /\ job'.chunk.user = {} /\ job.chunk.user = {} /\ job'.chunk.size # 0

LEMMA MergedOne ==
  ASSUME SyInv, Good, MergeRow
  PROVE  \E i \in Items : \E new : MergesOne(i, new)
<1>1. PICK x, new : MergesRow(x, new)
  BY MergeRowWrites
<1>2. job.chunk # NoChunk /\ job.chunk.rows # <<>> /\ job.chunk.user = {} /\ Doing("push")
  BY DEF MergeRow
<1>3. From \in Managed /\ To \in Managed /\ From # To
  BY <1>2, PushEnds DEF Good
<1>4. PICK c, st, d, next, q, p, rows, i, rest : 
        /\ c = job.chunk /\ st = c.st /\ d = job'.chunk /\ next = d.st /\ q = row[From] /\ p = row[To]
        /\ rows = c.rows /\ i = x.item /\ rest = d.rows
  OBVIOUS
<1>5. Timed(st) /\ Flows(c, p, q, Full) /\ ChunkOK(c, To, From)
  BY <1>2, <1>4, ChunkRuns DEF Good, Flow
<1>6. SyncOK(st, To, From) /\ State(st) /\ Book(q) /\ Book(p)
  BY <1>3, <1>4, <1>5, StateIs, BookIs DEF ChunkOK, Good
<1>7. /\ Len(rows) \in Nat \ {0} /\ x = rows[1] /\ rest = Tail(rows)
      /\ Len(rest) = Len(rows) - 1 /\ \A n \in 1..Len(rest) : rest[n] = rows[n + 1]
  <2>1. PICK E : rows \in Seq(E)
    BY <1>4, <1>5 DEF ChunkOK
  <2>2. rows # <<>> /\ x = Head(rows) /\ rest = Tail(rows)
    BY <1>1, <1>2, <1>4 DEF MergesRow
  <2> QED BY <2>1, <2>2, TailShifts
<1>8. Segment(rows, Due(st, q), q) /\ \A n \in 1..Len(rows) : rows[n].val = q[rows[n].item]
  BY <1>4, <1>5 DEF Flows
<1>9. i \in Due(st, q) /\ \A u \in Due(st, q) : ~Before(q, u, i)
  BY <1>4, <1>7, <1>8, FirstOfSegment
<1>10. i \in Items /\ Kind[i] \in Tables /\ There(q, i) /\ q[i].id \in Nat
  BY <1>6, <1>9, DueIs
<1>11. x.val = q[i]
  BY <1>4, <1>7, <1>8
<1>12. Takes(i, p, q, new) /\ new.at <= clock /\ new.ver <= clock
  BY <1>1, <1>3, <1>4, <1>11, MergeTakes DEF Good
<1>13. /\ new.id # 0
       /\ ~There(p, i) => \A j \in Items : Kind[j] = Kind[i] /\ There(p, j) => p[j].id < new.id
  <2>1. To \in Stores
    BY <1>3 DEF Stores
  <2>2. Has(To, i) <=> There(p, i)
    BY <1>4 DEF Has, There
  <2>3. FitsIn(new, To, i)
    BY <1>1, <1>4 DEF MergesRow
  <2>4. ASSUME NEW j \in Items, There(p, j)
        PROVE  p[j].id \in Nat /\ p[j].id # 0 /\ p[j].id <= Cardinality(Of(To, Kind[j])) /\ Cardinality(Of(To, Kind[j])) \in Nat
    <3>1. p[j].id \in 1..Cardinality(Of(To, Kind[j]))
      BY <1>4, <2>1, <2>4 DEF SyInv, RowsInv, Numbered, Has, There
    <3>2. Cardinality(Of(To, Kind[j])) \in Nat
      BY <2>1, RowsCount
    <3> QED BY <3>1, <3>2
  <2>5. CASE There(p, i)
    BY <1>4, <1>10, <2>2, <2>3, <2>4, <2>5 DEF FitsIn
  <2>6. CASE ~There(p, i)
    <3>1. new.id = Cardinality(Of(To, Kind[i])) + 1 /\ Cardinality(Of(To, Kind[i])) \in Nat
      BY <2>1, <2>2, <2>3, <2>6, RowsCount DEF FitsIn
    <3> QED BY <2>4, <3>1
  <2> QED BY <2>5, <2>6
<1>14. row'[To] = [p EXCEPT ![i] = new] /\ \A s \in Managed \ {To} : row'[s] = row[s]
  <2>1. row' = [row EXCEPT ![To][i] = new]
    BY <1>1, <1>4 DEF MergesRow
  <2>2. DOMAIN row = Stores /\ To \in Stores
    BY <1>3 DEF SyInv, RowsInv, RowsTyped, Stores
  <2> QED BY <1>3, <1>4, <2>1, <2>2 DEF Stores
<1>15. Timed(next) /\ State(next)
  <2>1. /\ next.when = st.when /\ next.max = Max({st.max, q[i].at}) /\ DOMAIN next = DOMAIN st
        /\ next.count = [st.count EXCEPT ![Kind[i]] = @ + 1]
    BY <1>1, <1>4, <1>11 DEF MergesRow
  <2>2. q[i].at \in Nat /\ q[i].at <= clock /\ clock \in Nat
    BY <1>3, <1>4, <1>10 DEF Good, Times, SyInv
  <2>3. st.max \in Int /\ st.max <= clock /\ st.when \in Int /\ st.when <= clock
    BY <1>5 DEF Timed
  <2>4. next.max \in Int /\ next.max <= clock
    <3>1. st.max \in Int /\ q[i].at \in Int
      BY <2>2, <2>3
    <3>2. next.max \in {st.max, q[i].at}
      BY <2>1, <3>1, MaxOfTwo
    <3> QED BY <2>2, <2>3, <3>2
  <2>5. next.count \in [Tables -> Nat]
    BY <1>6, <1>10, <2>1 DEF State
  <2> QED BY <1>6, <2>1, <2>3, <2>4, <2>5 DEF Timed, State
<1>16. Advances(st, next, q, i, new.id)
  <2>1. st.map \in [Tables -> [Ids -> Nat]]
    BY <1>6 DEF SyncOK
  <2>2. /\ next.when = st.when /\ next.count = [st.count EXCEPT ![Kind[i]] = @ + 1]
        /\ next.map = [st.map EXCEPT ![Kind[i]][q[i].id] = new.id]
    BY <1>1, <1>4, <1>11 DEF MergesRow
  <2> QED BY <1>9, <1>13, <1>15, <2>1, <2>2 DEF Advances
<1>17. Segment(rest, Due(st, q) \ {i}, q) /\ \A n \in 1..Len(rest) : rest[n].val = q[rest[n].item]
  <2>1. \A u \in Due(st, q) : ~Before(q, u, u)
    BY <1>6, BeforeIsOrder
  <2>2. \A n \in 1..Len(rest) : n + 1 \in 1..Len(rows)
    BY <1>7
  <2>3. Segment(rest, Due(st, q) \ {rows[1].item}, q)
    BY <1>7, <1>8, <2>1, RestOfSegment
  <2> QED BY <1>4, <1>7, <1>8, <2>2, <2>3
<1>18. /\ SameErrands /\ job'.target = job.target /\ d.user = {} /\ d.size # 0
  <2>1. c.size = 0 => rows = <<>>
    BY <1>4, <1>5 DEF Flows
  <2> QED BY <1>1, <1>2, <1>4, <2>1 DEF MergesRow, SameErrands
<1> QED BY <1>2, <1>3, <1>4, <1>9, <1>10, <1>12, <1>13, <1>14, <1>15, <1>16, <1>17, <1>18 DEF MergesOne

LEMMA MergeRowTimes ==
  ASSUME SyInv, Good, MergeRow
  PROVE  Times'
<1>0. PICK i \in Items : \E new : MergesOne(i, new)
  BY MergedOne
<1>1. PICK new : MergesOne(i, new)
  BY <1>0
<1>2. PICK w, p, v : w = To /\ p = row[To] /\ v = new
  OBVIOUS
<1>3. w \in Managed /\ row'[w] = [p EXCEPT ![i] = v] /\ \A s \in Managed \ {w} : row'[s] = row[s]
  BY <1>1, <1>2 DEF MergesOne
<1>4. v.at \in Nat /\ v.at <= clock /\ v.ver <= clock
  BY <1>1, <1>2 DEF MergesOne, Takes
<1>5. UNCHANGED <<user, sync, mgr, clock>>
  BY DEF MergeRow
<1>6. ASSUME NEW s \in Managed, NEW j \in Items, There(row'[s], j)
      PROVE row'[s][j].at \in Nat /\ row'[s][j].at <= clock /\ row'[s][j].ver <= clock
  <2>0. DOMAIN p = Items
    BY <1>2, <1>3 DEF SyInv, RowsInv, RowsTyped, Stores
  <2>1. CASE s = w /\ j = i
    BY <1>3, <1>4, <2>0, <2>1
  <2>2. CASE ~(s = w /\ j = i)
    <3>1. row'[s][j] = row[s][j]
      BY <1>2, <1>3, <2>0, <2>2
    <3> QED BY <1>6, <3>1 DEF Good, Times, There
  <2> QED BY <2>1, <2>2
<1> QED BY <1>5, <1>6 DEF Good, Times, Timed

\* The rows of the writer are rewritten.
LEMMA WriterRewritten ==
  ASSUME SyInv, SyInv', Good, Times', NEW i \in Items, NEW new, MergesOne(i, new)
  PROVE  /\ Book(row[To]) /\ Book(row'[To]) /\ Rewritten(row[To], i, new, row'[To])
         /\ \A j \in Items : row'[To][j] = IF j = i THEN new ELSE row[To][j]
         /\ \A j \in Items : Full /\ Newest(j) => row'[To][j].ver >= row[To][j].ver
         /\ Full /\ Newest(i) => row'[To][i].ver = row[From][i].ver
         /\ Full /\ Newest(i) /\ There(row[To], i) /\ new.ver # row[To][i].ver =>
              (\A t \in Asked(To) : row[From][i].at >= t) /\ new.at >= row[From][i].at
         /\ ~There(row[To], i) => (\A t \in Asked(To) : row[From][i].at >= t) /\ new.at = row[From][i].at
<1>1. PICK p, q, e, T : p = row[To] /\ q = row[From] /\ e = row'[To] /\ T = Asked(To)
  OBVIOUS
<1>2. /\ To \in Managed /\ From \in Managed /\ Doing("push")
      /\ Takes(i, p, q, new) /\ e = [p EXCEPT ![i] = new]
      /\ ~There(p, i) => \A j \in Items : Kind[j] = Kind[i] /\ There(p, j) => p[j].id < new.id
  BY <1>1 DEF MergesOne
<1>3. Book(p) /\ Book(e) /\ Book(q)
  BY <1>1, <1>2, BookIs, NextBook DEF Good
<1>4. Forward(q, p, T, Full)
  BY <1>1, <1>2, Forwards
<1>5. /\ Full /\ Newest(i) => new.ver = q[i].ver /\ new.ver >= p[i].ver
      /\ Full /\ Newest(i) /\ There(p, i) /\ new.ver # p[i].ver => (\A t \in T : q[i].at >= t) /\ new.at >= q[i].at
      /\ ~There(p, i) => (\A t \in T : q[i].at >= t) /\ new.at = q[i].at
      /\ There(p, i) => new.at >= p[i].at
  BY <1>2, <1>3, <1>4, TakesAll
<1>6. \A j \in Items : e[j] = IF j = i THEN new ELSE p[j]
  BY <1>2, <1>3 DEF Book
<1>7. Rewritten(p, i, new, e)
  <2>1. There(p, i) => new.id = p[i].id
    BY <1>2 DEF Takes
  <2>2. new.ver > 0
    BY <1>2 DEF Takes
  <2> QED BY <1>2, <1>3, <1>5, <2>1, <2>2 DEF Rewritten
<1>8. \A j \in Items : Full /\ Newest(j) => e[j].ver >= p[j].ver
  BY <1>3, <1>5, <1>6 DEF Book
<1> QED BY <1>1, <1>3, <1>5, <1>6, <1>7, <1>8

LEMMA FullIsBoolean == Full \in BOOLEAN
BY DEF Full

LEMMA MergeRowPairs ==
  ASSUME SyInv, SyInv', Good, Times', MergeRow
  PROVE  Pairs'
<1>0. PICK i \in Items : \E new : MergesOne(i, new)
  BY MergedOne
<1>1. PICK new : MergesOne(i, new)
  BY <1>0
<1>2. UNCHANGED <<sync, cut>>
  BY DEF MergeRow
<1>3. /\ From \in Managed /\ To \in Managed /\ From # To /\ SameErrands
      /\ \A s \in Managed \ {To} : row'[s] = row[s]
  BY <1>1 DEF MergesOne
<1>4. PICK t, all, e : t = To /\ all = Full /\ e = row'[To] /\ all \in BOOLEAN
  BY FullIsBoolean
<1>5. (Doing("push")' <=> Doing("push")) /\ To' = To /\ From' = From
  BY <1>3, ErrandsSame
<1>6. /\ Book(row[To]) /\ Book(row'[To]) /\ Rewritten(row[To], i, new, row'[To])
      /\ \A j \in Items : Full /\ Newest(j) => row'[To][j].ver >= row[To][j].ver
      /\ Full /\ Newest(i) /\ There(row[To], i) /\ new.ver # row[To][i].ver =>
           (\A x \in Asked(To) : row[From][i].at >= x) /\ new.at >= row[From][i].at
      /\ ~There(row[To], i) => (\A x \in Asked(To) : row[From][i].at >= x) /\ new.at = row[From][i].at
  BY <1>1, WriterRewritten
<1>7. \A s \in Managed : Book(row[s])
  BY BookIs DEF Good
<1>8. ASSUME NEW w \in Managed, NEW r \in Managed, w # r
      PROVE  Covers(sync[w][r], row'[w], row'[r], Full)
  <2>1. Covers(sync[w][r], row[w], row[r], Full)
    BY <1>8 DEF Good, Pairs
  <2>2. Timed(sync[w][r]) /\ SyncOK(sync[w][r], w, r)
    BY DEF Good, Times, SyInv, SyncsOK, Stores
  <2>3. CASE r # t /\ w # t
    BY <1>3, <1>4, <2>1, <2>3
  <2>4. CASE w = t
    <3>1. PICK p, q, st : p = row[w] /\ q = row[r] /\ st = sync[w][r]
      OBVIOUS
    <3>2. Covers(st, p, q, all) /\ Book(p) /\ Book(e) /\ Book(q) /\ \A j \in Items : all /\ Newest(j) => e[j].ver >= p[j].ver
      BY <1>4, <1>6, <1>7, <2>1, <2>4, <3>1
    <3>3. Covers(st, e, q, all)
      BY <3>2, CoverStays
    <3> QED BY <1>3, <1>4, <1>8, <2>4, <3>1, <3>3
  <2>5. CASE r = t
    <3>1. PICK p, q, st : p = row[w] /\ q = row[r] /\ st = sync[w][r]
      OBVIOUS
    <3>2. State(st) /\ Book(q) /\ Covers(st, p, q, all) /\ Rewritten(q, i, new, e)
      BY <1>4, <1>6, <1>7, <2>1, <2>2, <2>5, <3>1, StateIs
    <3>3. st.when \in Asked(To) /\ st.when \in Int
      BY <1>4, <1>8, <2>2, <2>5, <3>1 DEF Asked, Timed
    <3>4. new.at \in Nat /\ There(row[From], i) /\ row[From][i].at \in Nat
      <4>1. new.at \in Nat /\ There(row[From], i)
        BY <1>1 DEF MergesOne, Takes
      <4> QED BY <1>3, <1>7, <4>1 DEF Book
    <3>5. ~There(q, i) => new.at >= st.when
      BY <1>4, <1>6, <2>5, <3>1, <3>3
    <3>6. There(q, i) /\ all /\ Newest(i) /\ new.ver # q[i].ver => new.at >= st.when
      <4> SUFFICES ASSUME There(q, i), all, Newest(i), new.ver # q[i].ver PROVE new.at >= st.when
        OBVIOUS
      <4>1. row[From][i].at >= st.when /\ new.at >= row[From][i].at
        BY <1>4, <1>6, <2>5, <3>1, <3>3
      <4> QED BY <3>3, <3>4, <4>1
    <3>7. all => \A k \in Tables : st.count[k] = 0
      BY <1>4, <1>8, <2>5, <3>1 DEF Good, Pairs, Idle
    <3>8. Covers(st, p, e, all)
      <4>1. There(q, i) /\ all /\ Newest(i) /\ new.ver # q[i].ver =>
              new.at >= st.when /\ \A k \in Tables : st.count[k] = 0
        BY <3>6, <3>7
      <4>2. all \in BOOLEAN
        BY <1>4
      <4> QED BY ONLY <3>2, <3>5, <4>1, <4>2, CoverGrows
    <3> QED BY <1>3, <1>4, <1>8, <2>5, <3>1, <3>8
  <2> QED BY <2>3, <2>4, <2>5
<1>9. Full' = Full
  BY <1>2 DEF Full
<1>10. \A w, r \in Managed : w # r => (Full => (Doing("push") /\ w = To /\ r = From) \/ Idle(sync[w][r]))
  BY DEF Good, Pairs
<1> QED BY <1>2, <1>5, <1>8, <1>9, <1>10 DEF Pairs, Idle

LEMMA MergeRowFlow ==
  ASSUME SyInv, SyInv', Good, Times', MergeRow
  PROVE  Flow'
<1>0. PICK i \in Items : \E new : MergesOne(i, new)
  BY MergedOne
<1>1. PICK new : MergesOne(i, new)
  BY <1>0
<1>2. PICK c, st, d, next, q, p, e, all : 
        /\ c = job.chunk /\ st = c.st /\ d = job'.chunk /\ next = d.st /\ q = row[From] /\ p = row[To]
        /\ e = row'[To] /\ all = Full
  OBVIOUS
<1>3. /\ From \in Managed /\ To \in Managed /\ From # To /\ SameErrands /\ c # NoChunk
      /\ row'[From] = q /\ Advances(st, next, q, i, new.id) /\ Timed(next)
      /\ \A u \in Due(st, q) : ~Before(q, u, i)
      /\ Segment(d.rows, Due(st, q) \ {i}, q)
      /\ \A n \in 1..Len(d.rows) : d.rows[n].val = q[d.rows[n].item]
      /\ d.size # 0
  BY <1>1, <1>2 DEF MergesOne
<1>4. (Doing("push")' <=> Doing("push")) /\ To' = To /\ From' = From
  BY <1>3, ErrandsSame
<1>5. Timed(st) /\ st.when = sync[To][From].when /\ Covers(st, p, q, all) /\ SyncOK(st, To, From)
  BY <1>2, <1>3, ChunkRuns DEF Good, Flow, Flows, ChunkOK
<1>6. Book(q) /\ Book(p) /\ Book(e) /\ \A j \in Items : There(q, j) => q[j].id \in Ids
  BY <1>1, <1>2, <1>3, BookIs, WriterRewritten DEF Good
<1>7. State(st) /\ State(next) /\ next.when = st.when
  BY <1>3, <1>5, StateIs DEF Advances
<1>8. (\A j \in Items : all /\ Newest(j) => e[j].ver >= p[j].ver) /\ (all /\ Newest(i) => e[i].ver >= q[i].ver)
  <2>1. \A j \in Items : Full /\ Newest(j) => row'[To][j].ver >= row[To][j].ver
    BY <1>1, WriterRewritten
  <2>2. Full /\ Newest(i) => row'[To][i].ver = row[From][i].ver
    BY <1>1, WriterRewritten
  <2>3. q[i].ver \in Nat
    BY <1>6 DEF Book
  <2> QED BY <1>2, <2>1, <2>2, <2>3
<1>9. Covers(next, e, q, all)
  BY <1>3, <1>5, <1>6, <1>7, <1>8, HeadBrought
<1>10. Due(next, q) = Due(st, q) \ {i}
  BY <1>3, <1>6, <1>7, FirstIsDone
<1>11. Flows(d, e, q, all)
  BY <1>2, <1>3, <1>9, <1>10 DEF Flows
<1>12. UNCHANGED <<sync, cut, clock>>
  BY DEF MergeRow
<1>13. Timed(next)' /\ Full' = Full
  BY <1>3, <1>12 DEF Timed, Full
<1> QED BY <1>2, <1>3, <1>4, <1>5, <1>7, <1>11, <1>12, <1>13 DEF Flow, Timed

LEMMA LeadsOn ==
  ASSUME NEW p, NEW q, NEW e, NEW T, NEW all, NEW i \in Items, There(q, i), e[i].ver > 0, 
         all /\ Newest(i) => e[i].ver = q[i].ver, q[i].ver \in Nat,
         \A j \in Items \ {i} : e[j] = p[j]
  PROVE  /\ Within(q, p) => Within(q, e)
         /\ Forward(q, p, T, all) => Forward(q, e, T, all)
         /\ Same(q, p, all) => Same(q, e, all)
<1>1. ~Lacks(q, e, i, all)
  BY DEF Lacks, There
<1>2. \A j \in Items \ {i} : Lacks(q, e, j, all) <=> Lacks(q, p, j, all)
  BY DEF Lacks, There
<1>3. Within(q, p) => Within(q, e)
  BY DEF Within, There
<1>4. ASSUME Forward(q, p, T, all) PROVE Forward(q, e, T, all)
  <2> SUFFICES ASSUME NEW j \in Items, There(q, j)
               PROVE  /\ There(e, j) /\ all /\ Newest(j) => e[j].ver <= q[j].ver
                      /\ Lacks(q, e, j, all) => (\A t \in T : q[j].at >= t) /\ (There(e, j) => q[j].at > e[j].at)
    BY DEF Forward
  <2>1. CASE j = i
    BY <1>1, <2>1
  <2>2. CASE j # i
    BY <1>2, <1>4, <2>2 DEF Forward, There
  <2> QED BY <2>1, <2>2
<1>5. Same(q, p, all) => Same(q, e, all)
  BY <1>1, <1>2 DEF Same
<1> QED BY <1>3, <1>4, <1>5

LEMMA MergeRowPhase ==
  ASSUME SyInv, SyInv', Good, Times', MergeRow
  PROVE  Phase'
<1>0. PICK i \in Items : \E new : MergesOne(i, new)
  BY MergedOne
<1>1. PICK new : MergesOne(i, new)
  BY <1>0
<1>2. UNCHANGED <<user, sync, mgr, cut, clock>>
  BY DEF MergeRow
<1>3. /\ From \in Managed /\ To \in Managed /\ From # To /\ SameErrands /\ job.chunk # NoChunk /\ Doing("push")
      /\ \A s \in Managed \ {To} : row'[s] = row[s]
      /\ job'.target = job.target /\ job.chunk.user = {} /\ job'.chunk.user = {}
      /\ Takes(i, row[To], row[From], new) /\ new.at <= clock
  BY <1>1 DEF MergesOne
<1>4. /\ Book(row[To]) /\ \A j \in Items : row'[To][j] = IF j = i THEN new ELSE row[To][j]
      /\ Full /\ Newest(i) => row'[To][i].ver = row[From][i].ver
  BY <1>1, WriterRewritten
<1>5. Full' = Full /\ From' = From /\ To' = To
  BY <1>2, <1>3, ErrandsSame DEF Full
<1>6. PICK q, p, e, all : q = row[From] /\ p = row[To] /\ e = row'[To] /\ all = Full
  OBVIOUS
<1>7. /\ Within(q, p) => Within(q, e)
      /\ \A T : Forward(q, p, T, all) => Forward(q, e, T, all)
      /\ Same(q, p, all) => Same(q, e, all)
      /\ Within(p, p) /\ Within(e, p)
  <2>1. There(q, i) /\ e[i].ver > 0 /\ (all /\ Newest(i) => e[i].ver = q[i].ver) /\ \A j \in Items \ {i} : e[j] = p[j]
    BY <1>3, <1>4, <1>6 DEF Takes
  <2>2. q[i].ver \in Nat
    BY <1>3, <1>6, BookIs DEF Good, Book
  <2>3. Within(p, p) /\ Within(e, p)
    BY <2>1 DEF Within, There
  <2> QED BY <2>1, <2>2, <2>3, LeadsOn
<1>8. /\ From \in Managed /\ To \in Managed /\ From # To /\ ~Fresh
      /\ \A a \in Managed : ~Marking(a)
      /\ \A a \in Managed, m \in Nat : Merging(a, m) => To = a
      /\ \A a \in Managed : Switching(a) \/ Settled(a) => From = a
      /\ \A a \in Managed : Settled(a) => Pushing(a)
  BY <1>3, PushEnds DEF Good
<1>9. ASSUME NEW a \in Managed, From = a, Leads(a) PROVE Leads(a)'
  <2> SUFFICES ASSUME NEW s \in Managed \ {a}
               PROVE  Within(row'[a], row'[s]) /\ Forward(row'[a], row'[s], Asked(s), Full)
    BY <1>2, <1>5 DEF Leads, Asked
  <2>1. Within(row[a], row[s]) /\ Forward(row[a], row[s], Asked(s), Full) /\ row'[a] = row[a]
    BY <1>3, <1>9 DEF Leads
  <2>2. CASE s = To
    BY <1>6, <1>7, <1>9, <2>1, <2>2
  <2>3. CASE s # To
    BY <1>3, <2>1, <2>3
  <2> QED BY <2>2, <2>3
<1>10. ASSUME NEW a \in Managed, From = a, NEW s \in Managed \ {a}, Same(row[a], row[s], Full)
       PROVE  Same(row'[a], row'[s], Full)
  <2>1. row'[a] = row[a]
    BY <1>3, <1>10
  <2>2. CASE s = To
    BY <1>6, <1>7, <1>10, <2>1, <2>2
  <2>3. CASE s # To
    BY <1>3, <1>10, <2>1, <2>3
  <2> QED BY <2>2, <2>3
<1>11. ASSUME NEW a \in Managed, NEW m \in Nat, Merging(a, m) PROVE Merging(a, m)'
  <2>1. FreshRows'
    <3>1. FreshRows
      BY <1>11 DEF Merging
    <3>2. ASSUME NEW s \in Managed, NEW j \in Items, There(row'[s], j)
          PROVE  row'[s][j].at = 1 /\ row'[s][j].ver = 1
      <4>1. CASE s = To /\ j = i
        <5>1. (There(p, i) => p[i].at = 1 /\ p[i].ver = 1) /\ (There(q, i) => q[i].at = 1 /\ q[i].ver = 1)
          BY <1>3, <1>6, <3>1 DEF FreshRows
        <5>2. new.at = 1 /\ new.ver = 1
          BY <1>3, <1>6, <3>1, <5>1 DEF Takes, FreshRows
        <5> QED BY <1>4, <4>1, <5>2
      <4>2. CASE ~(s = To /\ j = i)
        <5>1. row'[s][j] = row[s][j]
          BY <1>3, <1>4, <4>2
        <5> QED BY <3>1, <3>2, <5>1 DEF FreshRows, There
      <4> QED BY <4>1, <4>2
    <3> QED BY <1>2, <3>1, <3>2 DEF FreshRows
  <2>2. To = a
    BY <1>8, <1>11
  <2>3. ASSUME NEW s \in Managed \ {a}, Within(row[a], row[s]) PROVE Within(row'[a], row'[s])
    <3>1. row'[s] = row[s]
      BY <1>3, <2>2
    <3>2. \A j \in Items : There(p, j) => There(e, j)
      BY <1>7 DEF Within
    <3> QED BY <1>6, <2>2, <2>3, <3>1, <3>2 DEF Within
  <2>4. Switches(a)' /\ Marks(job'.todo, a, m, job'.target) /\ job'.target = a
    BY <1>2, <1>3, <1>11 DEF Merging, Switches, SameErrands
  <2>5. /\ \A w, r \in Managed : w # a => sync'[w][r].when = Undefined
        /\ \A k \in 1..m - 1 : \E s \in Managed \ {a} : job'.todo[k] = Push(s, a)
    BY <1>2, <1>3, <1>11 DEF Merging, SameErrands
  <2>6. \A s \in Managed \ {a} : Comes(job'.todo, s, 1, m - 1) \/ Within(row'[a], row'[s])
    BY <1>3, <1>11, <2>3 DEF Merging, SameErrands
  <2> QED BY <1>3, <2>1, <2>4, <2>5, <2>6 DEF Merging
<1>12. ASSUME NEW a \in Managed, Switching(a) PROVE Switching(a)'
  <2>1. From = a /\ Leads(a) /\ Switches(a)
    BY <1>8, <1>12 DEF Switching
  <2>2. Leads(a)' /\ Switches(a)'
    BY <1>2, <1>3, <1>9, <2>1 DEF Switches, SameErrands
  <2>3. \A s \in Managed \ {a} : 
          \/ Goes(job.todo, s, 1, Len(job.todo) - 1) /\ Waits(a, s)
          \/ Told(a, s) /\ Same(row'[a], row'[s], Full)
    BY <1>10, <1>12, <2>1 DEF Switching
  <2>4. job'.chunk.user = {} /\ Told(a, To)
    BY <1>3, <1>12, <2>1 DEF Switching
  <2>5. Told(a, To)' /\ \A s \in Managed \ {a} : 
          \/ Goes(job'.todo, s, 1, Len(job'.todo) - 1) /\ Waits(a, s)'
          \/ Told(a, s)' /\ Same(row'[a], row'[s], Full')
    BY <1>2, <1>3, <1>5, <2>3, <2>4 DEF Waits, Told, SameErrands
  <2> QED BY <1>2, <1>3, <1>12, <2>2, <2>4, <2>5 DEF Switching, SameErrands
<1>13. ASSUME NEW a \in Managed, Settled(a) PROVE Settled(a)'
  <2>1. From = a /\ Leads(a) /\ Pushing(a) /\ Chosen(a)
    BY <1>8, <1>13 DEF Settled
  <2>2. Leads(a)' /\ Chosen(a)'
    BY <1>2, <1>9, <2>1 DEF Chosen
  <2>3. \A s \in Managed \ {a} : Goes(job'.todo, s, 1, Len(job'.todo)) \/ Same(row'[a], row'[s], Full')
    BY <1>3, <1>5, <1>10, <2>1 DEF Pushing, SameErrands
  <2>4. Pushing(a)'
    BY <1>2, <1>3, <2>1, <2>3 DEF Pushing, SameErrands
  <2> QED BY <1>2, <1>13, <2>2, <2>4 DEF Settled, Agreed, Available
<1> QED BY <1>8, <1>11, <1>12, <1>13 DEF Good, Phase

-----------------------------------------------------------------------------
(* The wallet writes.                                                      *)

\* Between the jobs of an awake wallet a store leads, or nothing has happened yet.
LEMMA Resting ==
  ASSUME SyInv, Good, job.kind = "none"
  PROVE  /\ Fresh \/ \E a \in Managed : Settled(a)
         /\ ~Doing("push") /\ job.chunk = NoChunk
         /\ mgr.isActive => mgr.avail /\ ~Fresh
         /\ \A a \in Managed : Settled(a) => Leads(a) /\ Chosen(a) /\ (mgr.avail => mgr = Agreed(a))
<1>1. ~Doing("push")
  BY DEF Doing
<1>2. \A a \in Managed : ~Switches(a)
  BY DEF Switches
<1>3. \A a \in Managed : (\A m \in Nat : ~Merging(a, m)) /\ ~Marking(a) /\ ~Switching(a)
  BY <1>2 DEF Merging, Marking, Switching
<1>4. mgr.isActive => mgr.avail /\ ~Fresh
  BY DEF Good, Times, Fresh
<1>5. \A a \in Managed : Settled(a) => Leads(a) /\ Chosen(a) /\ (mgr.avail => mgr = Agreed(a))
  BY DEF Settled
<1> QED BY <1>1, <1>3, <1>4, <1>5, NoErrand DEF Good, Phase

\* A store writes the row of an item, newer than all there is.
WritesOne(a, i, v) ==
  /\ a \in Managed /\ i \in Items /\ clock' = clock + 1
  /\ v.ver = clock + 1 /\ v.at = clock + 1
  /\ There(row[a], i) => v.id = row[a][i].id
  /\ ~There(row[a], i) => \A j \in Items : Kind[j] = Kind[i] /\ There(row[a], j) => row[a][j].id < v.id
  /\ row'[a] = [row[a] EXCEPT ![i] = v] /\ \A s \in Managed \ {a} : row'[s] = row[s]

LEMMA WrittenOne ==
  ASSUME SyInv, Write, NEW a \in Managed, mgr.active = a
  PROVE  \E i \in Items : \E v : WritesOne(a, i, v)
<1>1. PICK i \in Items : 
        row' = [row EXCEPT ![a][i] =
                  IF Has(a, i) THEN [@ EXCEPT !.ver = clock + 1, !.at = clock + 1]
                  ELSE [ver |-> clock + 1, at |-> clock + 1, id |-> NextId(a, Kind[i]),
                        par |-> IF Parent[i] = i THEN 0 ELSE row[a][Parent[i]].id]]
  BY DEF Write
<1>2. a \in Stores /\ DOMAIN row = Stores /\ DOMAIN row[a] = Items /\ RowRec(row[a][i])
  BY DEF SyInv, RowsInv, RowsTyped, Stores
<1>3. PICK v : v = IF Has(a, i) THEN [row[a][i] EXCEPT !.ver = clock + 1, !.at = clock + 1]
                   ELSE [ver |-> clock + 1, at |-> clock + 1, id |-> NextId(a, Kind[i]),
                         par |-> IF Parent[i] = i THEN 0 ELSE row[a][Parent[i]].id]
  OBVIOUS
<1>4. row' = [row EXCEPT ![a][i] = v]
  BY <1>1, <1>2, <1>3
<1>5. row'[a] = [row[a] EXCEPT ![i] = v] /\ \A s \in Managed \ {a} : row'[s] = row[s]
  BY <1>2, <1>4 DEF Stores
<1>6. CASE Has(a, i)
  <2>1. v.ver = clock + 1 /\ v.at = clock + 1 /\ v.id = row[a][i].id
    BY <1>2, <1>3, <1>6 DEF RowRec
  <2> QED BY <1>5, <1>6, <2>1 DEF WritesOne, Write, Has, There
<1>7. CASE ~Has(a, i)
  <2>1. v.ver = clock + 1 /\ v.at = clock + 1 /\ v.id = Cardinality(Of(a, Kind[i])) + 1 /\ Cardinality(Of(a, Kind[i])) \in Nat
    BY <1>2, <1>3, <1>7, RowsCount
  <2>2. ASSUME NEW j \in Items, Kind[j] = Kind[i], There(row[a], j) PROVE row[a][j].id < v.id
    <3>1. row[a][j].id \in 1..Cardinality(Of(a, Kind[i]))
      BY <1>2, <2>2 DEF SyInv, RowsInv, Numbered, Has, There
    <3> QED BY <2>1, <3>1
  <2> QED BY <1>5, <1>7, <2>1, <2>2 DEF WritesOne, Write, Has, There
<1> QED BY <1>6, <1>7

LEMMA WriteTimes ==
  ASSUME SyInv, Good, Write, NEW a, NEW i, NEW v, WritesOne(a, i, v)
  PROVE  /\ Times' /\ clock \in Nat
         /\ \A j \in Items : row'[a][j] = IF j = i THEN v ELSE row[a][j]
<1>1. clock \in Nat /\ clock' = clock + 1 /\ UNCHANGED <<user, sync, mgr>>
  BY DEF SyInv, Write
<1>2. a \in Managed /\ DOMAIN row[a] = Items
  BY DEF WritesOne, SyInv, RowsInv, RowsTyped, Stores
<1>3. \A j \in Items : row'[a][j] = IF j = i THEN v ELSE row[a][j]
  BY <1>2 DEF WritesOne
<1>4. ASSUME NEW s \in Managed, NEW j \in Items, There(row'[s], j) 
      PROVE row'[s][j].at \in Nat /\ row'[s][j].at <= clock' /\ row'[s][j].ver <= clock'
  <2>1. CASE s = a /\ j = i
    <3>1. v.at = clock + 1 /\ v.ver = clock + 1
      BY DEF WritesOne
    <3>2. row'[s][j] = v
      BY <1>3, <2>1
    <3> QED BY <1>1, <3>1, <3>2
  <2>2. CASE ~(s = a /\ j = i)
    <3>1. row'[s][j] = row[s][j]
      BY <1>2, <1>3, <2>2 DEF WritesOne
    <3>2. row[s][j].at \in Nat /\ row[s][j].at <= clock /\ row[s][j].ver <= clock
      BY <1>4, <3>1 DEF Good, Times, There
    <3>3. row[s][j].ver \in Nat
      BY DEF SyInv, RowsInv, RowsTyped, RowRec, Stores
    <3> QED BY <1>1, <3>1, <3>2, <3>3
  <2> QED BY <2>1, <2>2
<1>5. \A s \in Managed : user[s].at \in Nat /\ user[s].at <= clock'
  BY <1>1 DEF Good, Times
<1>6. ASSUME NEW w \in Managed, NEW r \in Managed PROVE Timed(sync[w][r])'
  <2>1. Timed(sync[w][r])
    BY DEF Good, Times
  <2> QED BY <1>1, <2>1 DEF Timed
<1> QED BY <1>1, <1>3, <1>4, <1>5, <1>6 DEF Good, Times

LEMMA WritePairs ==
  ASSUME SyInv, SyInv', Good, Write, NEW a, NEW i, NEW v, WritesOne(a, i, v)
  PROVE  Pairs'
<1>1. /\ Times' /\ clock \in Nat 
      /\ \A j \in Items : row'[a][j] = IF j = i THEN v ELSE row[a][j]
  BY WriteTimes
<1>2. /\ a \in Managed /\ i \in Items /\ v.ver = clock + 1 /\ v.at = clock + 1
      /\ row'[a] = [row[a] EXCEPT ![i] = v] /\ \A s \in Managed \ {a} : row'[s] = row[s]
  BY DEF WritesOne
<1>3. UNCHANGED <<sync, cut, job>> /\ ~Doing("push")
  BY Resting DEF Write
<1>4. PICK all, e : all = Full /\ e = row'[a] /\ all \in BOOLEAN
  BY FullIsBoolean
<1>5. \A s \in Managed : Book(row[s]) /\ Book(row'[s])
  BY <1>1, BookIs, NextBook DEF Good
<1>6. There(row[a], i) => row[a][i].at \in Nat /\ v.at >= row[a][i].at
  BY <1>1, <1>2 DEF Good, Times
<1>7. Rewritten(row[a], i, v, e)
  BY <1>1, <1>2, <1>4, <1>5, <1>6 DEF Rewritten, WritesOne
<1>8. \A j \in Items : e[j].ver >= row[a][j].ver
  <2> SUFFICES ASSUME NEW j \in Items PROVE e[j].ver >= row[a][j].ver
    OBVIOUS
  <2>1. row[a][j].ver \in Nat /\ (There(row[a], j) => row[a][j].ver <= clock)
    BY <1>2, <1>5 DEF Good, Times, Book
  <2> QED BY <1>1, <1>2, <1>4, <2>1 DEF There
<1>9. ASSUME NEW w \in Managed, NEW r \in Managed, w # r
      PROVE  Covers(sync[w][r], row'[w], row'[r], Full) /\ (Full => Idle(sync[w][r]))
  <2>1. Covers(sync[w][r], row[w], row[r], Full) /\ (Full => Idle(sync[w][r]))
    BY <1>3, <1>9 DEF Good, Pairs
  <2>2. Timed(sync[w][r]) /\ SyncOK(sync[w][r], w, r)
    BY DEF Good, Times, SyInv, SyncsOK, Stores
  <2>3. PICK p, q, st : p = row[w] /\ q = row[r] /\ st = sync[w][r]
    OBVIOUS
  <2>4. CASE r # a /\ w # a
    BY <1>2, <2>1, <2>4
  <2>5. CASE w = a
    <3>1. Covers(st, p, q, all) /\ Book(p) /\ Book(e) /\ Book(q) /\ \A j \in Items : all /\ Newest(j) => e[j].ver >= p[j].ver
      BY <1>4, <1>5, <1>8, <2>1, <2>3, <2>5
    <3>2. Covers(st, e, q, all)
      BY <3>1, CoverStays
    <3> QED BY <1>2, <1>4, <1>9, <2>1, <2>3, <2>5, <3>2
  <2>6. CASE r = a
    <3>1. State(st) /\ Book(q) /\ Covers(st, p, q, all) /\ Rewritten(q, i, v, e) /\ all \in BOOLEAN
      BY <1>4, <1>5, <1>7, <2>1, <2>2, <2>3, <2>6, StateIs
    <3>2. v.at >= st.when
      <4>1. st.when \in Int /\ st.when <= clock
        BY <2>2, <2>3 DEF Timed
      <4> QED BY <1>1, <1>2, <4>1
    <3>3. all => \A k \in Tables : st.count[k] = 0
      BY <1>4, <2>1, <2>3 DEF Idle
    <3>4. ~There(q, i) => v.at >= st.when
      BY <3>2
    <3>5. There(q, i) /\ all /\ Newest(i) /\ v.ver # q[i].ver => v.at >= st.when /\ \A k \in Tables : st.count[k] = 0
      BY <3>2, <3>3
    <3>6. Covers(st, p, e, all)
      BY ONLY <3>1, <3>4, <3>5, CoverGrows
    <3> QED BY <1>2, <1>4, <1>9, <2>1, <2>3, <2>6, <3>6
  <2> QED BY <2>4, <2>5, <2>6
<1>10. Full' = Full /\ \A st : Idle(st)' <=> Idle(st)
  BY <1>3 DEF Full, Idle
<1> QED BY <1>3, <1>9, <1>10 DEF Pairs, Idle

LEMMA WriteGood ==
  ASSUME SyInv, SyInv', Good, Write
  PROVE  Good'
<1>1. mgr.isActive /\ job.kind = "none" /\ UNCHANGED <<user, sync, mgr, job, cut>>
  BY DEF Write
<1>2. PICK a \in Managed : Settled(a) /\ Leads(a) /\ Chosen(a) /\ mgr = Agreed(a)
  BY <1>1, Resting
<1>3. mgr.active = a
  BY <1>2, AgreedIs
<1>40. PICK i \in Items : \E v : WritesOne(a, i, v)
  BY <1>3, WrittenOne
<1>4. PICK v : WritesOne(a, i, v)
  BY <1>40
<1>5. /\ Times' /\ clock \in Nat 
      /\ \A j \in Items : row'[a][j] = IF j = i THEN v ELSE row[a][j]
  BY <1>4, WriteTimes
<1>6. Pairs'
  BY <1>4, WritePairs
<1>7. Flow'
  BY <1>1, Resting DEF Flow
<1>8. /\ v.ver = clock + 1 /\ v.at = clock + 1 /\ \A s \in Managed \ {a} : row'[s] = row[s]
  BY <1>4 DEF WritesOne
<1>9. Full' = Full
  BY <1>1 DEF Full
<1>10. ASSUME NEW s \in Managed \ {a} PROVE Within(row'[a], row'[s]) /\ Forward(row'[a], row'[s], Asked(s), Full)
  <2>1. Within(row[a], row[s]) /\ Forward(row[a], row[s], Asked(s), Full) /\ row'[s] = row[s]
    BY <1>2, <1>8 DEF Leads
  <2>2. \A j \in Items : There(row'[a], j) <=> There(row[a], j) \/ j = i
    BY <1>5, <1>8 DEF There
  <2>3. Within(row'[a], row'[s])
    BY <2>1, <2>2 DEF Within
  <2>4. ASSUME NEW j \in Items, There(row'[a], j)
        PROVE  /\ There(row[s], j) /\ Full /\ Newest(j) => row[s][j].ver <= row'[a][j].ver
               /\ Lacks(row'[a], row[s], j, Full) =>
                    (\A t \in Asked(s) : row'[a][j].at >= t) /\ (There(row[s], j) => row'[a][j].at > row[s][j].at)
    <3>1. CASE j = i
      <4>1. There(row[s], j) => row[s][j].at \in Nat /\ row[s][j].at <= clock /\ row[s][j].ver <= clock
        BY DEF Good, Times
      <4>2. row[s][j].ver \in Nat
        BY BookIs DEF Good, Book
      <4>3. \A t \in Asked(s) : t \in Int /\ t <= clock
        BY DEF Good, Times, Timed, Asked
      <4> QED BY <1>5, <1>8, <3>1, <4>1, <4>2, <4>3
    <3>2. CASE j # i
      <4>1. row'[a][j] = row[a][j]
        BY <1>5, <3>2
      <4> QED BY <2>1, <2>4, <4>1 DEF Forward, Lacks, There
    <3> QED BY <3>1, <3>2
  <2> QED BY <2>1, <2>3, <2>4 DEF Forward
<1>11. Leads(a)'
  BY <1>1, <1>9, <1>10 DEF Leads, Asked
<1>12. Settled(a)'
  BY <1>1, <1>2, <1>11 DEF Settled, Chosen, Agreed, Available
<1> QED BY <1>5, <1>6, <1>7, <1>12 DEF Good, Phase

-----------------------------------------------------------------------------
(* Jobs begin and end.                                                     *)

LEMMA LeadsLess ==
  ASSUME NEW p, NEW q, NEW T, NEW all, NEW less, less => all
  PROVE  /\ Forward(p, q, T, all) => Forward(p, q, T, less)
         /\ Same(p, q, all) => Same(p, q, less)
<1>1. \A i : Lacks(p, q, i, less) => Lacks(p, q, i, all)
  BY DEF Lacks
<1> QED BY <1>1 DEF Forward, Same

LEMMA LeadsStay ==
  ASSUME NEW a, Leads(a), UNCHANGED <<row, sync>>, Full' => Full
  PROVE  Leads(a)'
<1> SUFFICES ASSUME NEW s \in Managed \ {a}
             PROVE  Within(row[a], row[s]) /\ Forward(row[a], row[s], Asked(s), Full')
  BY DEF Leads, Asked
<1>1. Within(row[a], row[s]) /\ Forward(row[a], row[s], Asked(s), Full)
  BY DEF Leads
<1>2. PICK p, q, T, all, less : p = row[a] /\ q = row[s] /\ T = Asked(s) /\ all = Full /\ less = Full'
  OBVIOUS
<1>3. Forward(p, q, T, less)
  <2>1. Forward(p, q, T, all) /\ (less => all)
    BY <1>1, <1>2
  <2> QED BY <2>1, LeadsLess
<1> QED BY <1>1, <1>2, <1>3

\* A step of the manager only.
LEMMA ManagerSteps ==
  ASSUME SyInv, Good, UNCHANGED <<row, sync, user, clock>>, ~mgr'.avail => ~mgr'.isActive,
         Full' => Full, Full' => ~Doing("push") \/ SameErrands, job'.chunk = NoChunk
  PROVE  Times' /\ Pairs' /\ Flow'
<1>1. clock \in Nat /\ \A s \in Managed : user[s].at \in Nat /\ user[s].at <= clock
  BY DEF SyInv, Good, Times
<1>2. Times'
  BY <1>1, TimesStay DEF Good, Times
<1>3. Pairs'
  BY PairsStay DEF Good
<1> QED BY <1>2, <1>3 DEF Flow

LEMMA AvailableIs ==
  ASSUME NEW cache
  PROVE  Available(cache).avail
BY DEF Available

LEMMA MakeAvailableGood ==
  ASSUME SyInv, Good, MakeAvailable
  PROVE  Good'
<1> DEFINE cache == [s \in Managed |-> user[s].active]
<1>1. job.kind = "none" /\ UNCHANGED <<row, sync, user, clock, job, cut>> /\ mgr' = Available(cache)
  BY DEF MakeAvailable
<1>2. mgr'.avail
  BY <1>1, AvailableIs
<1>3. /\ Fresh \/ \E a \in Managed : Settled(a)
      /\ ~Doing("push") /\ job.chunk = NoChunk
      /\ \A a \in Managed : Settled(a) => Leads(a) /\ Chosen(a)
  BY <1>1, Resting
<1>4. Full' = Full
  BY <1>1 DEF Full
<1>5. Times' /\ Pairs' /\ Flow'
  BY <1>1, <1>2, <1>3, <1>4, ManagerSteps
<1>6. CASE Fresh
  <2>1. \A s \in Managed : user[s].active = s
    <3>1. \A s \in Managed : user[s] = NewUser(s)
      BY <1>6 DEF Fresh, FreshRows
    <3>2. \A s : NewUser(s).active = s
      BY DEF NewUser
    <3> QED BY <3>1, <3>2
  <2>2. cache = [s \in Managed |-> s]
    BY <2>1
  <2> HIDE DEF cache
  <2>3. mgr'.active \in Managed /\ mgr'.conflicts = Managed \ {mgr'.active} /\ (mgr'.conflicts # {} => ~mgr'.isActive)
    BY <1>1, <2>2, OwnIs
  <2>4. mgr'.conflicts # {} /\ mgr'.conflicts \cup {mgr'.active} = Managed
    <3>1. PICK s \in Managed, t \in Managed : s # t
      BY <1>6 DEF Fresh
    <3>2. PICK m, S : m = mgr'.active /\ S = mgr'.conflicts
      OBVIOUS
    <3> QED BY <2>3, <3>1, <3>2
  <2>5. Fresh'
    BY <1>1, <1>6, <2>3, <2>4 DEF Fresh, FreshRows
  <2> QED BY <1>5, <2>5 DEF Good, Phase
<1>7. CASE \E a \in Managed : Settled(a)
  <2>1. PICK a \in Managed : Settled(a)
    BY <1>7
  <2>2. Leads(a)'
    BY <1>1, <1>3, <1>4, <2>1, LeadsStay
  <2>3. Chosen(a) /\ cache = [s \in Managed |-> a]
    BY <1>3, <2>1 DEF Chosen
  <2>4. mgr' = Agreed(a)
    BY <1>1, <2>3 DEF Agreed
  <2>5. Settled(a)'
    <3>1. Chosen(a)' /\ Agreed(a)' = Agreed(a) /\ job'.kind = "none"
      BY <1>1, <2>3 DEF Chosen, Agreed, Available
    <3> QED BY <2>2, <2>4, <3>1 DEF Settled
  <2> QED BY <1>5, <2>5 DEF Good, Phase
<1> QED BY <1>3, <1>6, <1>7

\* What a job begins with.
LEMMA BeginsGood ==
  ASSUME SyInv, Good, NEW kind, NEW target, NEW todo, NEW m, Begin(kind, target, todo, m), 
         UNCHANGED <<row, sync, user, clock, cut>>, m.avail
  PROVE  /\ Times' /\ Pairs' /\ Flow' /\ mgr.avail /\ job.kind = "none" /\ mgr' = m
         /\ job'.kind = kind /\ job'.target = target /\ job'.todo = todo /\ job'.chunk = NoChunk
         /\ \A a \in Managed : Leads(a) => Leads(a)'
         /\ Fresh \/ \E a \in Managed : Settled(a)
<1>1. job.kind = "none" /\ job' = [kind |-> kind, target |-> target, todo |-> todo, chunk |-> NoChunk] /\ mgr' = m /\ mgr.avail
  BY DEF Begin
<1>2. job'.kind = kind /\ job'.target = target /\ job'.todo = todo /\ job'.chunk = NoChunk
  BY <1>1
<1>3. ~Doing("push") /\ (Fresh \/ \E a \in Managed : Settled(a))
  BY <1>1, Resting
<1>4. Full' = Full
  BY DEF Full
<1>5. Times' /\ Pairs' /\ Flow'
  BY <1>1, <1>2, <1>3, <1>4, ManagerSteps
<1>6. \A a \in Managed : Leads(a) => Leads(a)'
  BY <1>4, LeadsStay
<1> QED BY <1>1, <1>2, <1>3, <1>5, <1>6

LEMMA UpdateBackupsGood ==
  ASSUME SyInv, Good, UpdateBackups
  PROVE  Good'
<1> DEFINE todo == Pushes(mgr.active, mgr.backups)
<1>1. mgr.isActive /\ Begin("backup", mgr.active, todo, mgr) /\ UNCHANGED <<row, sync, user, clock, cut>>
  BY DEF UpdateBackups
<1>2. job.kind = "none" /\ mgr.avail
  BY <1>1 DEF Begin
<1>3. /\ Times' /\ Pairs' /\ Flow' /\ mgr' = mgr
      /\ job'.kind = "backup" /\ job'.todo = todo /\ job'.chunk = NoChunk
      /\ \A a \in Managed : Leads(a) => Leads(a)'
  <2> HIDE DEF todo
  <2> QED BY <1>1, <1>2, BeginsGood
<1>4. PICK a \in Managed : Settled(a) /\ Leads(a) /\ Chosen(a) /\ mgr = Agreed(a)
  BY <1>1, <1>2, Resting
<1>5. mgr.active = a /\ mgr.backups = Managed \ {a}
  BY <1>4, AgreedIs
<1>6. PICK S : S = Managed \ {a}
  OBVIOUS
<1>7. Tells(todo, a, S)
  <2>1. S \subseteq Managed
    BY <1>6
  <2> QED BY <1>5, <1>6, <2>1, PushesAre
<1>8. PushesFrom(todo, a, 1, Len(todo)) /\ \A s \in Managed \ {a} : Goes(todo, s, 1, Len(todo))
  <2> HIDE DEF todo
  <2>1. \A s : Push(a, s).to = s
    BY DEF Push
  <2> QED BY <1>6, <1>7, <2>1 DEF Tells, PushesFrom, Goes
<1>9. Pushing(a)'
  BY <1>2, <1>3, <1>8 DEF Pushing
<1>10. Settled(a)'
  BY <1>1, <1>3, <1>4, <1>9 DEF Settled, Chosen, Agreed, Available
<1> QED BY <1>3, <1>10 DEF Good, Phase

LEMMA SetActiveGood ==
  ASSUME SyInv, Good, NEW n \in Managed, SetActive(n)
  PROVE  Good'
<1>1. PICK S, m, todo : 
        /\ S = IF mgr.conflicts = {} THEN {} ELSE (mgr.conflicts \cup {mgr.active}) \ {n}
        /\ m = [mgr EXCEPT !.conflicts = S] /\ todo = Switch(n, S) /\ Begin("switch", n, todo, m)
  BY DEF SetActive
<1>2. UNCHANGED <<row, sync, user, clock, cut>> /\ mgr.avail /\ job.kind = "none"
  BY <1>1 DEF SetActive, Begin
<1>3. m.avail /\ S \subseteq Managed
  BY <1>1, <1>2 DEF SyInv, MgrOK
<1>4. /\ Times' /\ Pairs' /\ Flow' /\ mgr' = m
      /\ job'.kind = "switch" /\ job'.target = n /\ job'.todo = todo /\ job'.chunk = NoChunk
      /\ \A a \in Managed : Leads(a) => Leads(a)'
      /\ Fresh \/ \E a \in Managed : Settled(a)
  BY <1>1, <1>2, <1>3, BeginsGood
<1>5. ASSUME NEW a \in Managed, a = IF S = {} THEN mgr.active ELSE n
      PROVE  \E k : SwitchesTo(todo, n, a, S, k)
  <2>1. todo = SwitchList(n, a, S)
    BY <1>1, <1>5 DEF Switch, SwitchList
  <2> QED BY <1>3, <2>1, SwitchIs
<1>6. CASE Fresh
  <2>1. S = Managed \ {n} /\ S # {}
    <3>1. PICK s \in Managed, t \in Managed : s # t
      BY <1>6 DEF Fresh
    <3>2. mgr.conflicts # {} /\ mgr.conflicts \cup {mgr.active} = Managed
      BY <1>2, <1>6 DEF Fresh
    <3> QED BY <1>1, <3>1, <3>2
  <2>2. PICK k : /\ k \in Nat /\ Marks(todo, n, k, n)
                 /\ \A l \in 1..k - 1 : \E s \in S : todo[l] = Push(s, n)
                 /\ \A s \in S : Comes(todo, s, 1, k - 1)
    BY <1>5, <2>1 DEF SwitchesTo
  <2>3. FreshRows' /\ \A w, r \in Managed : sync'[w][r].when = Undefined
    BY <1>2, <1>6 DEF Fresh, FreshRows
  <2>4. Merging(n, k)'
    BY <1>3, <1>4, <2>1, <2>2, <2>3 DEF Merging, Switches
  <2> QED BY <1>4, <2>2, <2>4 DEF Good, Phase
<1>7. CASE \E a \in Managed : Settled(a)
  <2>1. PICK a \in Managed : Settled(a) /\ Leads(a) /\ mgr = Agreed(a)
    BY <1>2, <1>7, Resting
  <2>2. S = {} /\ mgr.active = a
    BY <1>1, <2>1, AgreedIs
  <2>3. Marks(todo, a, 1, n)
    BY <1>5, <2>2 DEF SwitchesTo
  <2>4. Marking(a)'
    BY <1>3, <1>4, <2>1, <2>3 DEF Marking, Switches
  <2> QED BY <1>4, <2>4 DEF Good, Phase
<1> QED BY <1>4, <1>6, <1>7

LEMMA JobsEnd ==
  ASSUME SyInv, Good, Calm', Finish \/ MergeThrows \/ StoreFails \/ SyncCrash
  PROVE  Good'
<1>1. /\ UNCHANGED <<row, sync, user, clock>> /\ job' = NoJob 
      /\ mgr' = mgr \/ (mgr.avail /\ mgr' = Asleep)
  BY DEF Finish, MergeThrows, StoreFails, SyncCrash, CutOff
<1>2. job'.chunk = NoChunk /\ job'.kind = "none" /\ ~Doing("push")' /\ ~Asleep.avail /\ ~Asleep.isActive
  BY <1>1 DEF NoJob, Asleep, Doing
<1>3. ~mgr'.avail => ~mgr'.isActive
  BY <1>1, <1>2 DEF Good, Times
<1>4. \/ cut' = cut /\ (job.kind = "none" \/ job.todo = <<>>)
      \/ cut' = cut \cup {job.kind} /\ job.kind # "switch"
  BY DEF Finish, MergeThrows, StoreFails, SyncCrash, CutOff, Calm
<1>5. (Full' => Full) /\ (Full' => ~Doing("push"))
  BY <1>4 DEF Full, Doing
<1>6. Times' /\ Pairs' /\ Flow'
  BY <1>1, <1>2, <1>3, <1>5, ManagerSteps
<1>7. job.kind # "switch" \/ job.todo = <<>>
  BY <1>4
<1>8. \A a \in Managed : (\A m \in Nat : ~Merging(a, m)) /\ ~Marking(a) /\ ~Switching(a)
  <2> SUFFICES ASSUME NEW a \in Managed, Switches(a) 
               PROVE  (\A m \in Nat : ~Merging(a, m)) /\ ~Marking(a) /\ ~Switching(a)
    BY DEF Merging, Marking, Switching
  <2>1. Len(job.todo) = 0
    BY <1>7 DEF Switches
  <2>2. \A m : ~(m \in 1..Len(job.todo) - 1)
    BY <2>1
  <2> QED BY <2>1, <2>2 DEF Merging, Marking, Switching, Marks
<1>9. CASE Fresh
  <2>1. Fresh'
    BY <1>1, <1>2, <1>9 DEF Fresh, FreshRows
  <2> QED BY <1>6, <2>1 DEF Good, Phase
<1>10. CASE \E a \in Managed : Settled(a)
  <2>1. PICK a \in Managed : Settled(a)
    BY <1>10
  <2>2. Leads(a) /\ Chosen(a) /\ (mgr.avail => mgr = Agreed(a))
    BY <2>1 DEF Settled
  <2>3. Leads(a)'
    BY <1>1, <1>5, <2>2, LeadsStay
  <2>4. Settled(a)'
    BY <1>1, <1>2, <2>2, <2>3 DEF Settled, Chosen, Agreed, Available
  <2> QED BY <1>6, <2>4 DEF Good, Phase
<1> QED BY <1>8, <1>9, <1>10 DEF Good, Phase

-----------------------------------------------------------------------------
(* The errands at the end of a switch.                                     *)

\* Two stores with the same rows.
Alike(p, q, all) ==
  \A i \in Items : (There(p, i) <=> There(q, i)) /\ (There(p, i) /\ all /\ Newest(i) => p[i].ver = q[i].ver)

LEMMA AlikeIs ==
  ASSUME NEW p, Book(p), NEW q, Book(q), NEW all
  PROVE  /\ \A T : Within(p, q) /\ Forward(p, q, T, all) /\ Same(p, q, all) => Alike(p, q, all)
         /\ Alike(p, p, all)
         /\ Alike(p, q, all) => Alike(q, p, all) /\ Same(p, q, all) /\ Within(p, q)
         /\ Alike(p, q, all) => \A T : Forward(p, q, T, all)
         /\ \A e : Alike(p, q, all) /\ Alike(q, e, all) => Alike(p, e, all)
<1>1. \A i \in Items : p[i].ver \in Nat /\ q[i].ver \in Nat
  BY DEF Book
<1>2. ASSUME NEW T, Within(p, q), Forward(p, q, T, all), Same(p, q, all) PROVE Alike(p, q, all)
  <2> SUFFICES ASSUME NEW i \in Items
               PROVE  (There(p, i) <=> There(q, i)) /\ (There(p, i) /\ all /\ Newest(i) => p[i].ver = q[i].ver)
    BY DEF Alike
  <2>1. ~Lacks(p, q, i, all) /\ (There(q, i) => There(p, i))
    BY <1>2 DEF Same, Within
  <2>2. There(p, i) => There(q, i)
    BY <2>1 DEF Lacks
  <2>3. There(p, i) /\ all /\ Newest(i) => q[i].ver <= p[i].ver /\ ~(q[i].ver < p[i].ver)
    BY <1>2, <2>1, <2>2 DEF Forward, Lacks
  <2> QED BY <1>1, <2>1, <2>2, <2>3
<1>3. ASSUME Alike(p, q, all) PROVE Same(p, q, all) /\ Within(p, q) /\ Alike(q, p, all)
  BY <1>1, <1>3 DEF Alike, Same, Lacks, Within
<1>4. ASSUME Alike(p, q, all), NEW T PROVE Forward(p, q, T, all)
  BY <1>1, <1>4 DEF Alike, Forward, Lacks
<1>5. Alike(p, p, all) /\ \A e : Alike(p, q, all) /\ Alike(q, e, all) => Alike(p, e, all)
  BY DEF Alike
<1> QED BY <1>2, <1>3, <1>4, <1>5

LEMMA OtherLeads ==
  ASSUME SyInv, Good, NEW a \in Managed, Leads(a), \A s \in Managed \ {a} : Same(row[a], row[s], Full), 
         NEW b \in Managed
  PROVE  Leads(b)
<1>1. \A s \in Managed : Book(row[s])
  BY BookIs DEF Good
<1>2. ASSUME NEW s \in Managed PROVE Alike(row[a], row[s], Full) /\ Alike(row[s], row[a], Full)
  <2>1. CASE s = a
    BY <1>1, <2>1, AlikeIs
  <2>2. CASE s # a
    <3>1. PICK p, q, T, all : p = row[a] /\ q = row[s] /\ T = Asked(s) /\ all = Full
      OBVIOUS
    <3>2. Within(p, q) /\ Forward(p, q, T, all) /\ Same(p, q, all) /\ Book(p) /\ Book(q)
      BY <1>1, <2>2, <3>1 DEF Leads
    <3>3. Alike(p, q, all) /\ Alike(q, p, all)
      BY <3>2, AlikeIs
    <3> QED BY <3>1, <3>3
  <2> QED BY <2>1, <2>2
<1>3. ASSUME NEW s \in Managed \ {b} PROVE Within(row[b], row[s]) /\ Forward(row[b], row[s], Asked(s), Full)
  <2>1. PICK o, p, q, T, all : o = row[a] /\ p = row[b] /\ q = row[s] /\ T = Asked(s) /\ all = Full
    OBVIOUS
  <2>2. Alike(p, o, all) /\ Alike(o, q, all) /\ Book(o) /\ Book(p) /\ Book(q)
    BY <1>1, <1>2, <2>1
  <2>3. Alike(p, q, all)
    BY <2>2, AlikeIs
  <2>4. Within(p, q) /\ Forward(p, q, T, all)
    BY <2>2, <2>3, AlikeIs
  <2> QED BY <2>1, <2>4
<1> QED BY <1>3 DEF Leads

\* What is left after the first errand.
LEMMA Shifted ==
  ASSUME NEW E, NEW e \in Seq(E), e # <<>>, NEW rest, rest = Tail(e), NEW n \in Nat, n <= Len(e), NEW m \in Nat \ {0}, NEW a, NEW s
  PROVE  /\ \A k \in Nat \ {0} : k + 1 <= Len(e) => rest[k] = e[k + 1]
         /\ PushesFrom(e, a, m + 1, n) => PushesFrom(rest, a, m, n - 1)
         /\ Goes(e, s, m + 1, n) => Goes(rest, s, m, n - 1)
         /\ Goes(e, s, 1, n) => e[1].to = s \/ Goes(rest, s, 1, n - 1)
         /\ Comes(e, s, 1, n) => e[1].from = s \/ Comes(rest, s, 1, n - 1)
<1>1. Len(e) \in Nat \ {0} /\ \A k \in 1..Len(e) - 1 : rest[k] = e[k + 1]
  BY TailShifts
<1>2. PICK len : len = Len(e)
  OBVIOUS
<1>3. len \in Nat \ {0} /\ (\A k \in 1..len - 1 : rest[k] = e[k + 1]) /\ n <= len
  BY <1>1, <1>2
<1>4. \A k \in Nat \ {0} : k + 1 <= len => rest[k] = e[k + 1]
  <2> SUFFICES ASSUME NEW k \in Nat \ {0}, k + 1 <= len PROVE rest[k] = e[k + 1]
    OBVIOUS
  <2>1. len \in Nat
    BY <1>3
  <2>2. k \in 1..len - 1
    BY <2>1
  <2> QED BY <1>3, <2>2
<1>5. ASSUME PushesFrom(e, a, m + 1, n) PROVE PushesFrom(rest, a, m, n - 1)
  <2> SUFFICES ASSUME NEW k \in m..n - 1 PROVE \E x \in Managed \ {a} : rest[k] = Push(a, x)
    BY DEF PushesFrom
  <2>1. k + 1 \in m + 1..n /\ k \in Nat \ {0} /\ k + 1 <= len
    BY <1>3
  <2> QED BY <1>4, <1>5, <2>1 DEF PushesFrom
<1>6. ASSUME NEW k \in m + 1..n PROVE k - 1 \in m..n - 1 /\ rest[k - 1] = e[k]
  <2>1. k - 1 \in m..n - 1 /\ k - 1 \in Nat \ {0} /\ (k - 1) + 1 <= len /\ (k - 1) + 1 = k
    BY <1>3
  <2>2. rest[k - 1] = e[(k - 1) + 1]
    BY <1>4, <2>1
  <2> QED BY <2>1, <2>2
<1>7. Goes(e, s, m + 1, n) => Goes(rest, s, m, n - 1)
  BY <1>6 DEF Goes
<1>8. ASSUME NEW k \in 1..n, k # 1 PROVE k - 1 \in 1..n - 1 /\ rest[k - 1] = e[k]
  <2>1. k - 1 \in 1..n - 1 /\ k - 1 \in Nat \ {0} /\ (k - 1) + 1 <= len /\ (k - 1) + 1 = k
    BY <1>3, <1>8
  <2>2. rest[k - 1] = e[(k - 1) + 1]
    BY <1>4, <2>1
  <2> QED BY <2>1, <2>2
<1>9. Goes(e, s, 1, n) => e[1].to = s \/ Goes(rest, s, 1, n - 1)
  BY <1>8 DEF Goes
<1>10. Comes(e, s, 1, n) => e[1].from = s \/ Comes(rest, s, 1, n - 1)
  BY <1>8 DEF Comes
<1> QED BY <1>2, <1>4, <1>5, <1>7, <1>9, <1>10

LEMMA ErrandSteps ==
  ASSUME SyInv, Good, Doing("mark") \/ Doing("wake")
  PROVE  /\ ~Doing("push") /\ job.chunk = NoChunk /\ job.todo # <<>> /\ job.todo \in Seq(Errands) /\ Len(job.todo) \in Nat \ {0}
         /\ Doing("wake") => \E a \in Managed : Switching(a) /\ Len(job.todo) = 1
         /\ Doing("mark") => \E a \in Managed : From = a /\ Switches(a) /\ Marks(job.todo, a, 1, job.target) /\ Leads(a)
<1>1. job.todo \in Seq(Errands) /\ job.todo # <<>> /\ Head(job.todo).op \in {"mark", "wake"} /\ job.kind # "none"
  BY DEF SyInv, JobOK, Doing
<1>2. ~Doing("push") /\ job.chunk = NoChunk
  BY <1>1, NoErrand DEF Doing
<1>3. PICK todo, len, h : todo = job.todo /\ len = Len(todo) /\ h = todo[1]
  OBVIOUS
<1>4. len \in Nat \ {0} /\ Head(job.todo) = h
  BY <1>1, <1>3, TailShifts
<1>5. \A s, t : Push(s, t).op = "push" /\ Mark(s).op = "mark" /\ Mark(s).from = s /\ Wake(s).op = "wake"
  BY DEF Push, Mark, Wake
<1>6. \A s, t : h # Push(s, t)
  BY <1>1, <1>4, <1>5
<1>7. ~Fresh /\ \A a \in Managed : ~Settled(a)
  <2>1. ~Fresh
    BY <1>1 DEF Fresh
  <2>2. \A a \in Managed : ~Pushing(a)
    <3>1. 1 \in 1..len
      BY <1>4
    <3> QED BY <1>3, <1>6, <3>1 DEF Pushing, PushesFrom
  <2> QED BY <1>1, <2>1, <2>2 DEF Settled
<1>8. ASSUME NEW a \in Managed, Switching(a) PROVE len = 1 /\ h.op = "wake"
  <2>1. PushesFrom(todo, a, 1, len - 1) /\ todo[len] = Wake(job.target)
    BY <1>3, <1>8 DEF Switching
  <2>2. ~(1 \in 1..len - 1)
    BY <1>3, <1>6, <2>1 DEF PushesFrom
  <2>3. len = 1
    BY <1>4, <2>2
  <2> QED BY <1>3, <1>5, <2>1, <2>3
<1>9. ASSUME NEW a \in Managed, NEW m \in Nat, Merging(a, m) PROVE m = 1
  <2>1. m \in 1..len - 1 /\ \A k \in 1..m - 1 : \E s \in Managed \ {a} : todo[k] = Push(s, a)
    BY <1>3, <1>9 DEF Merging, Marks
  <2>2. ~(1 \in 1..m - 1)
    BY <1>3, <1>6, <2>1
  <2> QED BY <2>1, <2>2
<1>10. ASSUME NEW a \in Managed, Marks(job.todo, a, 1, job.target) PROVE h = Mark(a) /\ h.op = "mark" /\ From = a
  BY <1>3, <1>4, <1>5, <1>10 DEF Marks, From
<1>11. ASSUME NEW a \in Managed, Merging(a, 1) PROVE Leads(a)
  <2>1. FreshRows /\ \A s \in Managed \ {a} : Comes(job.todo, s, 1, 0) \/ Within(row[a], row[s])
    BY <1>11 DEF Merging
  <2>2. ASSUME NEW s \in Managed \ {a} PROVE Within(row[a], row[s]) /\ Forward(row[a], row[s], Asked(s), Full)
    <3>1. Within(row[a], row[s])
      BY <2>1 DEF Comes
    <3>2. \A i \in Items : /\ There(row[a], i) => row[a][i].at = 1 /\ row[a][i].ver = 1
                           /\ There(row[s], i) => row[s][i].at = 1 /\ row[s][i].ver = 1
      BY <2>1 DEF FreshRows
    <3>3. \A t \in Asked(s) : 1 >= t
      BY <2>1 DEF Asked, FreshRows, Good, Times, Timed
    <3> QED BY <3>1, <3>2, <3>3 DEF Forward, Lacks
  <2> QED BY <2>2 DEF Leads
<1>12. Doing("wake") => \E a \in Managed : Switching(a) /\ Len(job.todo) = 1
  <2> SUFFICES ASSUME Doing("wake") PROVE \E a \in Managed : Switching(a) /\ Len(job.todo) = 1
    OBVIOUS
  <2>1. h.op = "wake"
    BY <1>4 DEF Doing
  <2>2. \A a \in Managed : ~Marks(job.todo, a, 1, job.target)
    BY <1>10, <2>1
  <2>3. \A a \in Managed : ~Marking(a) /\ \A m \in Nat : ~Merging(a, m)
    BY <1>9, <2>2 DEF Marking, Merging
  <2> QED BY <1>3, <1>7, <1>8, <2>3 DEF Good, Phase
<1>13. Doing("mark") => \E a \in Managed : From = a /\ Switches(a) /\ Marks(job.todo, a, 1, job.target) /\ Leads(a)
  <2> SUFFICES ASSUME Doing("mark") 
               PROVE  \E a \in Managed : From = a /\ Switches(a) /\ Marks(job.todo, a, 1, job.target) /\ Leads(a)
    OBVIOUS
  <2>1. h.op = "mark"
    BY <1>4 DEF Doing
  <2>2. \A a \in Managed : ~Switching(a)
    BY <1>8, <2>1
  <2>3. PICK a \in Managed : Marking(a) \/ Merging(a, 1)
    BY <1>7, <1>9, <2>2 DEF Good, Phase
  <2>4. Switches(a) /\ Marks(job.todo, a, 1, job.target) /\ Leads(a)
    BY <1>11, <2>3 DEF Marking, Merging
  <2> QED BY <1>10, <2>4
<1> QED BY <1>1, <1>2, <1>3, <1>4, <1>12, <1>13

LEMMA WakeUpGood ==
  ASSUME SyInv, Good, WakeUp
  PROVE  Good'
<1>1. /\ Doing("wake") /\ mgr' = Available([s \in Managed |-> job.target])
      /\ job' = [job EXCEPT !.todo = Tail(@)] /\ UNCHANGED <<row, user, sync, cut, clock>>
  BY DEF WakeUp
<1>2. PICK a \in Managed : Switching(a) /\ Len(job.todo) = 1
  BY <1>1, ErrandSteps
<1>3. ~Doing("push") /\ job.chunk = NoChunk /\ job.todo # <<>> /\ job.todo \in Seq(Errands)
  BY <1>1, ErrandSteps
<1>4. /\ job.kind = "switch" /\ job.target \in Managed /\ user[a].active = job.target
      /\ Leads(a) /\ \A s \in Managed \ {a} :
           \/ Goes(job.todo, s, 1, 0) /\ Waits(a, s)
           \/ Told(a, s) /\ Same(row[a], row[s], Full)
  BY <1>2 DEF Switching, Switches
<1>5. \A s \in Managed \ {a} : Told(a, s) /\ Same(row[a], row[s], Full)
  <2>1. \A s : ~Goes(job.todo, s, 1, 0)
    BY DEF Goes
  <2> QED BY <1>4, <2>1
<1>6. PICK b \in Managed : b = job.target
  BY <1>4
<1>7. job'.kind = "switch" /\ job'.chunk = NoChunk /\ job'.todo = <<>>
  <2>1. job'.kind = job.kind /\ job'.chunk = job.chunk /\ job'.todo = Tail(job.todo)
    BY <1>1 DEF SyInv, JobOK
  <2>2. Tail(job.todo) \in Seq(Errands) /\ Len(Tail(job.todo)) = 0
    BY <1>2, <1>3
  <2>3. Tail(job.todo) = <<>>
    BY <2>2, EmptySeq
  <2> QED BY <1>3, <1>4, <2>1, <2>3
<1>8. Full' = Full
  BY <1>1 DEF Full
<1>9. Leads(b)'
  <2>1. Leads(b)
    BY <1>4, <1>5, OtherLeads
  <2> QED BY <1>1, <1>8, <2>1, LeadsStay
<1>10. mgr' = Agreed(b) /\ mgr'.avail
  BY <1>1, <1>6, AvailableIs DEF Agreed
<1>11. Chosen(b)'
  BY <1>1, <1>4, <1>5, <1>6 DEF Chosen, Told
<1>12. Settled(b)'
  <2>1. Agreed(b)' = Agreed(b)
    BY DEF Agreed, Available
  <2> QED BY <1>7, <1>9, <1>10, <1>11, <2>1 DEF Settled
<1>13. Times' /\ Pairs' /\ Flow'
  BY <1>1, <1>3, <1>7, <1>8, <1>10, ManagerSteps
<1> QED BY <1>12, <1>13 DEF Good, Phase

LEMMA MarkSourceGood ==
  ASSUME SyInv, Good, MarkSource
  PROVE  Good'
<1>1. /\ Doing("mark") /\ user' = Marked(From) /\ clock' = clock + 1 
      /\ job' = [job EXCEPT !.todo = Tail(@)] /\ UNCHANGED <<row, sync, mgr, cut>>
  BY DEF MarkSource
<1>2. PICK a \in Managed : From = a /\ Switches(a) /\ Marks(job.todo, a, 1, job.target) /\ Leads(a)
  BY <1>1, ErrandSteps
<1>3. ~Doing("push") /\ job.chunk = NoChunk /\ job.todo # <<>> /\ job.todo \in Seq(Errands)
  BY <1>1, ErrandSteps
<1>4. job'.kind = job.kind /\ job'.chunk = NoChunk /\ job'.todo = Tail(job.todo) /\ job'.target = job.target
  BY <1>1, <1>3 DEF SyInv, JobOK
<1>5. clock \in Nat /\ DOMAIN user = Stores /\ a \in Stores /\ \A s \in Managed : user[s].at \in Nat /\ user[s].at <= clock
  BY DEF SyInv, Good, Times, Stores
<1>6. user'[a] = [active |-> job.target, at |-> clock + 1] /\ DOMAIN user' = Stores
      /\ \A s \in Managed \ {a} : user'[s] = user[s]
  BY <1>1, <1>2, <1>5 DEF Marked, Stores
<1>7. user'[a].active = job.target /\ user'[a].at = clock + 1
  BY <1>6
<1>8. Full' = Full
  BY <1>1 DEF Full
<1>9. Times'
  <2>1. \A s \in Managed : user'[s].at \in Nat /\ user'[s].at <= clock'
    BY <1>1, <1>5, <1>6, <1>7
  <2>2. ~mgr'.avail => ~mgr'.isActive
    BY <1>1 DEF Good, Times
  <2>3. clock' \in Nat /\ clock' >= clock
    BY <1>1, <1>5
  <2> QED BY <1>1, <1>6, <2>1, <2>2, <2>3, TimesStay DEF Good
<1>10. Pairs'
  BY <1>1, <1>3, <1>8, PairsStay DEF Good
<1>11. Flow'
  BY <1>4 DEF Flow
<1>12. PICK e, rest, len, n : e = job.todo /\ rest = Tail(e) /\ len = Len(e) /\ n = job.target
  OBVIOUS
<1>13. e \in Seq(Errands) /\ e # <<>> /\ len \in Nat \ {0} /\ Len(rest) = len - 1
  BY <1>3, <1>12, TailShifts
<1>14. /\ 1 \in 1..len - 1 /\ PushesFrom(e, a, 2, len - 1) /\ e[len] = Wake(n)
       /\ \A s \in Managed \ {a} : Goes(e, s, 2, len - 1)
  BY <1>2, <1>12 DEF Marks
<1>15. len - 1 \in Nat /\ len - 1 <= len /\ len > 1 /\ (len - 1) - 1 = Len(rest) - 1 /\ Len(rest) > 0 /\ (len - 1) + 1 = len
       /\ len - 1 \in Nat \ {0} /\ 1 \in Nat \ {0} /\ 1 + 1 = 2
  BY <1>13, <1>14
<1>16. /\ PushesFrom(rest, a, 1, Len(rest) - 1) /\ rest[Len(rest)] = Wake(n)
       /\ \A s \in Managed \ {a} : Goes(rest, s, 1, Len(rest) - 1)
  <2>1. PICK m, one : m = len - 1 /\ one = 1
    OBVIOUS
  <2>2. m \in Nat /\ m <= Len(e) /\ one \in Nat \ {0} /\ m \in Nat \ {0} /\ m + 1 = len /\ m + 1 <= Len(e) /\ one + 1 = 2 
        /\ m - 1 = Len(rest) - 1 /\ m = Len(rest)
    BY <1>12, <1>13, <1>15, <2>1
  <2>3. rest[m] = e[m + 1]
    BY <1>12, <1>13, <2>2, Shifted
  <2>4. PushesFrom(e, a, one + 1, m) => PushesFrom(rest, a, one, m - 1)
    BY <1>12, <1>13, <2>2, Shifted
  <2>5. ASSUME NEW s \in Managed \ {a} PROVE Goes(e, s, one + 1, m) => Goes(rest, s, one, m - 1)
    BY <1>12, <1>13, <2>2, Shifted
  <2> QED BY <1>14, <2>1, <2>2, <2>3, <2>4, <2>5
<1>17. ASSUME NEW s \in Managed \ {a} PROVE Waits(a, s)'
  <2>1. sync[s][a].when \in Int /\ sync[s][a].when <= clock /\ user[s].at \in Nat /\ user[s].at <= clock
    BY <1>5 DEF Good, Times, Timed
  <2>2. user'[a].at > sync'[s][a].when /\ user'[s].at < user'[a].at
    BY <1>1, <1>5, <1>6, <1>7, <2>1
  <2> QED BY <2>2 DEF Waits
<1>18. Switching(a)'
  <2>1. Leads(a)' /\ Switches(a)'
    BY <1>1, <1>2, <1>4, <1>8, LeadsStay DEF Switches
  <2>2. /\ Len(job'.todo) > 0 /\ PushesFrom(job'.todo, a, 1, Len(job'.todo) - 1) 
        /\ job'.todo[Len(job'.todo)] = Wake(job'.target)
        /\ \A s \in Managed \ {a} : Goes(job'.todo, s, 1, Len(job'.todo) - 1)
    BY <1>4, <1>12, <1>15, <1>16
  <2> QED BY <1>4, <1>7, <1>17, <2>1, <2>2 DEF Switching
<1> QED BY <1>9, <1>10, <1>11, <1>18 DEF Good, Phase

-----------------------------------------------------------------------------
(* The user row of a chunk is merged.                                      *)

\* The writer takes the newer choice of a store, or keeps its own.
MergesUser ==
  /\ From \in Managed /\ To \in Managed /\ From # To /\ Doing("push") /\ job.chunk # NoChunk
  /\ SameErrands /\ job'.target = job.target /\ UNCHANGED <<row, sync, mgr, cut, clock>>
  /\ job'.chunk.st = job.chunk.st /\ job'.chunk.rows = job.chunk.rows /\ job'.chunk.size = job.chunk.size
  /\ job'.chunk.user = {} /\ job.chunk.user = {user[From]}
  /\ DOMAIN user' = Stores /\ \A s \in Managed \ {To} : user'[s] = user[s]
  /\ user'[To].at \in Nat /\ user'[To].at <= clock
  /\ IF user[From].at > user[To].at
     THEN user'[To].active = user[From].active /\ user'[To].at >= user[From].at ELSE user' = user

LEMMA MergedUser ==
  ASSUME SyInv, Good, MergeUser
  PROVE  MergesUser
<1>1. /\ Doing("push") /\ job.chunk # NoChunk /\ job.chunk.user # {}
      /\ job' = [job EXCEPT !.chunk.user = {}] /\ UNCHANGED <<row, sync, mgr, cut, clock>>
  BY DEF MergeUser
<1>2. PICK ei : /\ ei \in job.chunk.user
                /\ user' = IF ei.at > user[To].at
                           THEN [user EXCEPT ![To] = [active |-> ei.active, at |-> Stamp(To, ei.at)]] ELSE user
  BY <1>1 DEF MergeUser
<1>3. From \in Managed /\ To \in Managed /\ From # To
  BY <1>1, PushEnds DEF Good
<1>4. job.chunk.user = {user[From]}
  <2>1. /\ ~Fresh /\ \A a \in Managed : ~Marking(a)
        /\ \A a \in Managed : Switching(a) \/ Settled(a) => From = a
        /\ \A a \in Managed : Settled(a) => Pushing(a)
    BY <1>1, PushEnds DEF Good
  <2>2. job.chunk.user \subseteq {user[From]}
    BY <1>1, <2>1 DEF Good, Phase, Merging, Switching, Pushing
  <2> QED BY <1>1, <2>2
<1>5. ei = user[From]
  BY <1>2, <1>4
<1>6. /\ DOMAIN user = Stores /\ To \in Stores /\ From \in Stores /\ clock \in Nat
      /\ \A s \in Managed : user[s].at \in Nat /\ user[s].at <= clock
  BY <1>3 DEF Good, Times, Stores, SyInv
<1>7. Stamp(To, ei.at) \in Nat /\ Stamp(To, ei.at) <= clock /\ Stamp(To, ei.at) >= ei.at
  BY <1>3, <1>5, <1>6 DEF Stamp
<1>8. /\ DOMAIN user' = Stores /\ \A s \in Managed \ {To} : user'[s] = user[s]
      /\ user'[To].at \in Nat /\ user'[To].at <= clock
      /\ IF user[From].at > user[To].at
         THEN user'[To].active = user[From].active /\ user'[To].at >= user[From].at ELSE user' = user
  <2>1. CASE user[From].at > user[To].at
    <3>1. user' = [user EXCEPT ![To] = [active |-> ei.active, at |-> Stamp(To, ei.at)]]
      BY <1>2, <1>5, <2>1
    <3>2. user'[To] = [active |-> ei.active, at |-> Stamp(To, ei.at)]
      BY <1>6, <3>1
    <3>3. user'[To].active = ei.active /\ user'[To].at = Stamp(To, ei.at)
      BY <3>2
    <3>4. DOMAIN user' = Stores /\ \A s \in Managed \ {To} : user'[s] = user[s]
      BY <1>6, <3>1 DEF Stores
    <3> QED BY <1>5, <1>7, <2>1, <3>3, <3>4
  <2>2. CASE ~(user[From].at > user[To].at)
    BY <1>2, <1>3, <1>5, <1>6, <2>2
  <2> QED BY <2>1, <2>2
<1>9. /\ SameErrands /\ job'.target = job.target
      /\ job'.chunk.st = job.chunk.st /\ job'.chunk.rows = job.chunk.rows /\ job'.chunk.size = job.chunk.size
      /\ job'.chunk.user = {}
  <2>1. {"user", "st", "size", "rows"} \subseteq DOMAIN job.chunk /\ {"kind", "target", "todo", "chunk"} \subseteq DOMAIN job
    BY <1>1, ChunkRuns DEF ChunkOK, SyInv, JobOK
  <2> QED BY <1>1, <2>1 DEF SameErrands
<1> QED BY <1>1, <1>3, <1>4, <1>8, <1>9 DEF MergesUser

LEMMA MergeUserGood ==
  ASSUME SyInv, Good, MergeUser
  PROVE  Good'
<1>1. MergesUser
  BY MergedUser
<1>2. /\ From \in Managed /\ To \in Managed /\ From # To /\ Doing("push") /\ job.chunk # NoChunk
      /\ SameErrands /\ job'.target = job.target /\ UNCHANGED <<row, sync, mgr, cut, clock>>
      /\ job'.chunk.user = {} /\ job.chunk.user = {user[From]}
      /\ \A s \in Managed \ {To} : user'[s] = user[s]
  BY <1>1 DEF MergesUser
<1>3. IF user[From].at > user[To].at
      THEN user'[To].active = user[From].active /\ user'[To].at >= user[From].at ELSE user' = user
  BY <1>1 DEF MergesUser
<1>4. Full' = Full /\ (Doing("push")' <=> Doing("push")) /\ To' = To /\ From' = From
  BY <1>2, ErrandsSame DEF Full
<1>5. Times'
  <2>1. \A s \in Managed : user'[s].at \in Nat /\ user'[s].at <= clock'
    BY <1>1, <1>2 DEF MergesUser, Good, Times
  <2>2. ~mgr'.avail => ~mgr'.isActive
    BY <1>2 DEF Good, Times
  <2>3. clock' \in Nat /\ clock' >= clock /\ DOMAIN user' = Stores
    BY <1>1, <1>2 DEF MergesUser, SyInv
  <2> QED BY <1>2, <2>1, <2>2, <2>3, TimesStay DEF Good
<1>6. Pairs'
  BY <1>2, <1>4, PairsStay DEF Good
<1>7. Flow'
  <2>1. PICK c, d, p, q, all : c = job.chunk /\ d = job'.chunk /\ p = row[To] /\ q = row[From] /\ all = Full
    OBVIOUS
  <2>2. Timed(c.st) /\ c.st.when = sync[To][From].when /\ Flows(c, p, q, all)
    BY <1>2, <2>1 DEF Good, Flow
  <2>3. d.st = c.st /\ d.rows = c.rows /\ d.size = c.size
    BY <1>1, <2>1 DEF MergesUser
  <2>4. Flows(d, p, q, all)
    BY <2>2, <2>3 DEF Flows
  <2>5. Timed(d.st)'
    BY <1>2, <2>1, <2>2, <2>3 DEF Timed
  <2> QED BY <1>2, <1>4, <2>1, <2>2, <2>3, <2>4, <2>5 DEF Flow
<1>8. /\ ~Fresh /\ \A a \in Managed : ~Marking(a)
      /\ \A a \in Managed : Switching(a) \/ Settled(a) => From = a
      /\ \A a \in Managed : Settled(a) => Pushing(a)
  BY <1>2, PushEnds DEF Good
<1>9. \A a \in Managed : Leads(a) => Leads(a)'
  BY <1>2, <1>4, LeadsStay
<1>10. ASSUME NEW a \in Managed, NEW m \in Nat, Merging(a, m) PROVE Merging(a, m)'
  <2>1. user' = user
    <3>1. user[From] = NewUser(From) /\ user[To] = NewUser(To)
      BY <1>2, <1>10 DEF Merging, FreshRows
    <3>2. \A s : NewUser(s).at = 0
      BY DEF NewUser
    <3>3. user[From].at = 0 /\ user[To].at = 0
      BY <3>1, <3>2
    <3> QED BY <1>3, <3>3
  <2> QED BY <1>2, <1>10, <2>1 DEF Merging, Switches, SameErrands, FreshRows
<1>11. ASSUME NEW a \in Managed, Switching(a) PROVE Switching(a)'
  <2>1. From = a /\ Leads(a)' /\ Switches(a)'
    BY <1>2, <1>8, <1>9, <1>11 DEF Switching, Switches, SameErrands
  <2>2. user'[a] = user[a] /\ user[a].active = job.target
    BY <1>2, <1>11, <2>1 DEF Switching
  <2>3. \A s \in Managed \ {a} :
          \/ Goes(job.todo, s, 1, Len(job.todo) - 1) /\ Waits(a, s)
          \/ Told(a, s) /\ Same(row[a], row[s], Full)
    BY <1>11 DEF Switching
  <2>4. Told(a, To)'
    <3>1. CASE user[a].at > user[To].at
      BY <1>2, <1>3, <1>4, <2>1, <2>2, <3>1 DEF Told
    <3>2. CASE ~(user[a].at > user[To].at)
      <4>1. user[a].at \in Nat /\ user[To].at \in Nat
        BY <1>2 DEF Good, Times
      <4>2. Told(a, To)
        BY <1>2, <2>1, <2>3, <3>2, <4>1 DEF Waits
      <4>3. user' = user
        BY <1>3, <2>1, <3>2
      <4> QED BY <1>2, <1>4, <4>2, <4>3 DEF Told
    <3> QED BY <3>1, <3>2
  <2>5. ASSUME NEW s \in Managed \ {a}
        PROVE  \/ Goes(job.todo, s, 1, Len(job.todo) - 1) /\ Waits(a, s)'
               \/ Told(a, s)' /\ Same(row[a], row[s], Full)
    <3>1. CASE s = To
      BY <1>2, <1>4, <2>2, <2>3, <2>4, <3>1 DEF Waits, Told
    <3>2. CASE s # To
      <4>1. user'[s] = user[s]
        BY <1>2, <3>2
      <4> QED BY <1>2, <2>2, <2>3, <4>1 DEF Waits, Told
    <3> QED BY <3>1, <3>2
  <2> QED BY <1>2, <1>4, <1>11, <2>1, <2>2, <2>4, <2>5 DEF Switching, SameErrands
<1>12. ASSUME NEW a \in Managed, Settled(a) PROVE Settled(a)'
  <2>1. From = a /\ Leads(a)' /\ Pushing(a) /\ Chosen(a)
    BY <1>8, <1>9, <1>12 DEF Settled
  <2>2. Chosen(a)'
    BY <1>2, <1>3, <2>1 DEF Chosen
  <2>3. Pushing(a)'
    BY <1>2, <1>4, <2>1 DEF Pushing, SameErrands
  <2> QED BY <1>2, <1>12, <2>1, <2>2, <2>3 DEF Settled, Agreed, Available
<1> QED BY <1>5, <1>6, <1>7, <1>8, <1>10, <1>11, <1>12 DEF Good, Phase

-----------------------------------------------------------------------------
(* The next chunk is asked for.                                            *)

LEMMA FetchGood ==
  ASSUME SyInv, Good, Fetch
  PROVE  Good'
<1>1. Doing("push") /\ job.chunk = NoChunk /\ UNCHANGED <<row, user, sync, cut, clock>>
  BY DEF Fetch
<1>2. /\ From \in Managed /\ To \in Managed /\ From # To /\ ~Fresh
      /\ job.kind \in {"switch", "backup"} /\ mgr.avail
      /\ \A a \in Managed : ~Marking(a)
      /\ \A a \in Managed : Switching(a) \/ Settled(a) => From = a
      /\ \A a \in Managed : Settled(a) => Pushing(a)
  BY <1>1, PushEnds DEF Good
<1>3. PICK st, q, c : /\ st = sync[To][From] /\ q = ChunkRows(From, st)
                      /\ c = [user |-> ChunkUser(From, st), st |-> st, size |-> Len(q),
                              rows |-> [n \in 1..Len(q) |-> [item |-> q[n], val |-> row[From][q[n]]]]]
  OBVIOUS
<1>4. job' = [job EXCEPT !.chunk = c]
  BY <1>3 DEF Fetch, SyncState
<1>5. SameErrands /\ job'.target = job.target /\ job'.chunk = c
  BY <1>4 DEF SyInv, JobOK, SameErrands
<1>6. Full' = Full /\ (Doing("push")' <=> Doing("push")) /\ To' = To /\ From' = From
  BY <1>1, <1>5, ErrandsSame DEF Full
<1>7. /\ mgr'.avail = mgr.avail /\ mgr'.isActive = mgr.isActive
      /\ job.kind # "switch" => mgr' = mgr
  BY DEF Fetch, SyInv, MgrOK
<1>8. /\ c.user = ChunkUser(From, st) /\ c.st = st /\ c.size = Len(q) 
      /\ c.rows = [n \in 1..Len(q) |-> [item |-> q[n], val |-> row[From][q[n]]]]
  BY <1>3
<1>9. Times'
  <2>1. \A s \in Managed : user'[s].at \in Nat /\ user'[s].at <= clock'
    BY <1>1 DEF Good, Times
  <2>2. ~mgr'.avail => ~mgr'.isActive
    BY <1>7 DEF Good, Times
  <2>3. clock' \in Nat /\ clock' >= clock /\ DOMAIN user' = Stores
    BY <1>1 DEF SyInv, Good, Times
  <2> QED BY <1>1, <2>1, <2>2, <2>3, TimesStay DEF Good
<1>10. Pairs'
  BY <1>1, <1>5, <1>6, PairsStay DEF Good
<1>11. Timed(st) /\ SyncOK(st, To, From) /\ Covers(st, row[To], row[From], Full) /\ From \in Stores
  BY <1>2, <1>3 DEF Good, Times, Pairs, SyInv, SyncsOK, Stores
<1>12. Flows(c, row[To], row[From], Full)
  <2>1. Book(row[From]) /\ State(st)
    BY <1>2, <1>11, BookIs, StateIs DEF Good
  <2>2. Len(q) \in Nat
    BY <1>3, <1>11, ChunkItems DEF SyInv, SyncOK
  <2>3. Len(c.rows) = Len(q) /\ \A n \in 1..Len(c.rows) : c.rows[n].item = q[n] /\ c.rows[n].val = row[From][q[n]]
    BY <1>8, <2>2
  <2>4. \A k \in Tables : st.count[k] <= Cardinality(Changed(row[From], k, st.when))
    BY <1>11 DEF Covers
  <2>5. PICK rows, s : rows = c.rows /\ s = From
    OBVIOUS
  <2>6. Segment(rows, Due(st, row[s]), row[s]) /\ (Len(rows) = 0 => Due(st, row[s]) = {})
    <3>1. Len(rows) = Len(ChunkRows(s, st)) /\ \A n \in 1..Len(rows) : rows[n].item = ChunkRows(s, st)[n]
      BY <1>3, <2>3, <2>5
    <3> QED BY <1>11, <2>1, <2>4, <2>5, <3>1, ChunkIs
  <2>7. c.size = 0 => c.rows = <<>>
    BY <1>8
  <2> QED BY <1>8, <1>11, <2>3, <2>5, <2>6, <2>7 DEF Flows
<1>13. Flow'
  <2>1. Timed(c.st)'
    BY <1>1, <1>8, <1>11 DEF Timed
  <2> QED BY <1>1, <1>3, <1>5, <1>6, <1>8, <1>12, <2>1 DEF Flow
<1>14. /\ c.user \subseteq {user[From]}
       /\ user[From].at > st.when => c.user = {user[From]}
  <2>1. user[From].at \in Nat /\ st.when \in Int
    BY <1>2, <1>11 DEF Good, Times, Timed
  <2>2. ChunkUser(From, st) = IF st.when # Undefined /\ user[From].at <= st.when THEN {} ELSE {user[From]}
    BY <1>2 DEF ChunkUser
  <2> QED BY <1>8, <2>1, <2>2
<1>15. \A a \in Managed : Leads(a) => Leads(a)'
  BY <1>1, <1>6, LeadsStay
<1>16. ASSUME NEW a \in Managed, NEW m \in Nat, Merging(a, m) PROVE Merging(a, m)'
  BY <1>1, <1>5, <1>6, <1>7, <1>14, <1>16 DEF Merging, Switches, SameErrands, FreshRows
<1>17. ASSUME NEW a \in Managed, Switching(a) PROVE Switching(a)'
  <2>1. From = a /\ Leads(a)' /\ Switches(a)'
    BY <1>2, <1>5, <1>7, <1>15, <1>17 DEF Switching, Switches, SameErrands
  <2>2. \A s \in Managed \ {a} :
          \/ Goes(job.todo, s, 1, Len(job.todo) - 1) /\ Waits(a, s)
          \/ Told(a, s) /\ Same(row[a], row[s], Full)
    BY <1>17 DEF Switching
  <2>3. c.user = {user[a]} \/ (c.user = {} /\ Told(a, To))
    <3>1. Waits(a, To) \/ Told(a, To)
      BY <1>2, <2>1, <2>2
    <3>2. Waits(a, To) => user[a].at > st.when
      BY <1>3, <2>1 DEF Waits
    <3> QED BY <1>14, <2>1, <3>1, <3>2
  <2>4. job'.chunk.user = {user'[a]} \/ (job'.chunk.user = {} /\ Told(a, To)')
    BY <1>1, <1>5, <1>6, <2>3 DEF Told
  <2>5. \A s \in Managed \ {a} :
          \/ Goes(job'.todo, s, 1, Len(job'.todo) - 1) /\ Waits(a, s)'
          \/ Told(a, s)' /\ Same(row'[a], row'[s], Full')
    BY <1>1, <1>5, <1>6, <2>2 DEF Waits, Told, SameErrands
  <2> QED BY <1>1, <1>5, <1>17, <2>1, <2>4, <2>5 DEF Switching, SameErrands
<1>18. ASSUME NEW a \in Managed, Settled(a) PROVE Settled(a)'
  <2>1. From = a /\ Leads(a)' /\ Pushing(a) /\ Chosen(a)
    BY <1>2, <1>15, <1>18 DEF Settled
  <2>2. mgr' = mgr
    BY <1>7, <2>1 DEF Pushing
  <2>3. Pushing(a)'
    BY <1>1, <1>5, <1>6, <1>14, <2>1, <2>2 DEF Pushing, SameErrands
  <2> QED BY <1>1, <1>18, <2>1, <2>2, <2>3 DEF Settled, Agreed, Available, Chosen
<1> QED BY <1>2, <1>9, <1>10, <1>13, <1>16, <1>17, <1>18 DEF Good, Phase

-----------------------------------------------------------------------------
(* A chunk is done.                                                        *)

\* A writer that has all of the map's rows has them.
LEMMA AllBrought ==
  ASSUME SyInv, Times, NEW w \in Managed, NEW r \in Managed, NEW st, SyncOK(st, w, r),
         \A i \in Items : There(row[r], i) => Brought(st, row[w], row[r], i, Full)
  PROVE  Same(row[r], row[w], Full) /\ Within(row[w], row[r])
<1>1. /\ Book(row[r]) /\ Book(row[w]) /\ \A i \in Items : There(row[r], i) => row[r][i].id \in Ids
  BY BookIs
<1>2. ASSUME NEW i \in Items, There(row[r], i)
      PROVE  There(row[w], i) /\ (Full /\ Newest(i) => row[w][i].ver >= row[r][i].ver)
  <2>1. st.map[Kind[i]][row[r][i].id] # 0 /\ (Full /\ Newest(i) => row[w][i].ver >= row[r][i].ver)
    BY <1>2 DEF Brought
  <2>2. Kind[i] \in Tables /\ row[r][i].id \in Ids
    BY <1>1, <1>2, SyncAssumption
  <2>3. Entry(w, r, Kind[i], row[r][i].id, st.map[Kind[i]][row[r][i].id])
    BY <2>1, <2>2 DEF SyncOK
  <2>4. PICK j \in Items : Kind[j] = Kind[i] /\ There(row[r], j) /\ row[r][j].id = row[r][i].id /\ There(row[w], j)
    BY <2>3 DEF Entry, Has, There
  <2>5. j = i
    BY <1>1, <1>2, <2>4 DEF Book
  <2> QED BY <2>1, <2>4, <2>5
<1>3. \A i \in Items : row[r][i].ver \in Nat /\ row[w][i].ver \in Nat
  BY <1>1 DEF Book
<1>4. \A i \in Items : ~Lacks(row[r], row[w], i, Full)
  BY <1>2, <1>3 DEF Lacks
<1> QED BY <1>2, <1>4 DEF Same, Within

\* The state of the pair is stored; done tells whether it was the last chunk.
Stored(new, st, done) ==
  /\ new.map = st.map /\ new.count = (IF done THEN [k \in Tables |-> 0] ELSE st.count)
  /\ new.when = (IF done THEN st.max ELSE st.when) /\ new.max = st.max
EndsOne(w, r, done, new, todo) ==
  /\ r \in Managed /\ w \in Managed /\ w # r /\ w = To /\ r = From /\ Doing("push") /\ job.chunk # NoChunk
  /\ done = (job.chunk.size = 0) /\ UNCHANGED <<row, user, mgr, cut, clock>>
  /\ job.chunk.user = {} /\ job'.chunk = NoChunk /\ job'.kind = job.kind /\ job'.target = job.target
  /\ todo = job'.todo /\ todo = (IF done THEN Tail(job.todo) ELSE job.todo)
  /\ new = sync'[w][r] /\ Stored(new, job.chunk.st, done) /\ Timed(new)
  /\ \A x, y \in Managed : ~(x = w /\ y = r) => sync'[x][y] = sync[x][y]
  /\ SyncOK(job.chunk.st, w, r) /\ Covers(job.chunk.st, row[w], row[r], Full) /\ job.chunk.st.when = sync[w][r].when
  /\ done => Due(job.chunk.st, row[r]) = {}

LEMMA EndedOne ==
  ASSUME SyInv, Good, EndChunk
  PROVE  \E w, r, done, new, todo : EndsOne(w, r, done, new, todo)
<1>1. PICK w, r, done, st : w = To /\ r = From /\ done = (job.chunk.size = 0) /\ st = job.chunk.st
  OBVIOUS
<1>2. /\ Doing("push") /\ job.chunk # NoChunk /\ job.chunk.user = {} /\ UNCHANGED <<row, user, mgr, cut, clock>>
  BY DEF EndChunk
<1>3. r \in Managed /\ w \in Managed /\ w # r
  BY <1>1, <1>2, PushEnds DEF Good
<1>4. PICK next : next = IF done THEN Ended(st) ELSE st
  OBVIOUS
<1>5. sync' = [sync EXCEPT ![w][r] = next]
  BY <1>1, <1>4 DEF EndChunk
<1>6. job' = [job EXCEPT !.chunk = NoChunk, !.todo = IF done THEN Tail(@) ELSE @]
  BY <1>1 DEF EndChunk
<1>7. job'.chunk = NoChunk /\ job'.kind = job.kind /\ job'.target = job.target /\ job'.todo = (IF done THEN Tail(job.todo) ELSE job.todo)
  BY <1>6 DEF SyInv, JobOK
<1>8. /\ SyncOK(st, w, r) /\ Timed(st) /\ st.when = sync[w][r].when /\ Covers(st, row[w], row[r], Full)
      /\ done => Due(st, row[r]) = {}
  BY <1>1, <1>2, ChunkRuns DEF ChunkOK, Good, Flow, Flows
<1>9. Stored(next, st, done)
  <2>1. {"when", "max", "count", "map"} \subseteq DOMAIN st
    BY <1>8 DEF SyncOK
  <2> QED BY <1>4, <2>1 DEF Ended, Stored
<1>10. Timed(next)
  BY <1>8, <1>9 DEF Timed, Stored
<1>11. sync'[w][r] = next /\ \A x, y \in Managed : ~(x = w /\ y = r) => sync'[x][y] = sync[x][y]
  <2>1. DOMAIN sync = Managed /\ \A x \in Managed : DOMAIN sync[x] = Stores
    BY DEF SyInv, SyncsOK
  <2>2. Managed \subseteq Stores
    BY DEF Stores
  <2> QED BY <1>3, <1>5, <2>1, <2>2
<1>12. EndsOne(w, r, done, next, job'.todo)
  BY <1>1, <1>2, <1>3, <1>7, <1>8, <1>9, <1>10, <1>11 DEF EndsOne
<1> QED BY <1>12

\* After the last chunk the pair is covered by what the map has.
LEMMA EndedCovers ==
  ASSUME NEW p, NEW q, Book(q), NEW st, NEW new, NEW all, Covers(st, p, q, all), Due(st, q) = {}, Stored(new, st, TRUE),
         new.when \in Int
  PROVE  Covers(new, p, q, all) /\ \A i \in Items : There(q, i) => Brought(st, p, q, i, all)
<1>1. ASSUME NEW i \in Items, There(q, i) PROVE Brought(st, p, q, i, all) /\ Brought(new, p, q, i, all)
  BY <1>1 DEF Covers, Brought, Stored
<1>2. ASSUME NEW k \in Tables PROVE new.count[k] <= Cardinality(Changed(q, k, new.when))
  <2>1. Cardinality(Changed(q, k, new.when)) \in Nat
    BY PosIs
  <2> QED BY <2>1 DEF Stored
<1> QED BY <1>1, <1>2 DEF Covers

LEMMA EndChunkTimes ==
  ASSUME SyInv, Good, EndChunk
  PROVE  Times' /\ Pairs' /\ Flow'
<1>1. PICK w, r, done, new, todo : EndsOne(w, r, done, new, todo)
  BY EndedOne
<1>2. /\ r \in Managed /\ w \in Managed /\ w # r /\ w = To /\ r = From /\ Doing("push")
      /\ UNCHANGED <<row, user, mgr, cut, clock>> /\ job'.chunk = NoChunk /\ job'.kind = job.kind
      /\ new = sync'[w][r] /\ Timed(new)
      /\ \A x, y \in Managed : ~(x = w /\ y = r) => sync'[x][y] = sync[x][y]
  BY <1>1 DEF EndsOne
<1>3. Flow'
  BY <1>2 DEF Flow
<1>4. Times'
  <2>1. ASSUME NEW x \in Managed, NEW y \in Managed PROVE Timed(sync'[x][y])
    BY <1>2 DEF Good, Times
  <2> QED BY <1>2, <2>1 DEF Good, Times, Timed
<1>5. Full' = Full
  BY <1>2 DEF Full
<1>6. ASSUME NEW x \in Managed, NEW y \in Managed, x # y, ~(x = w /\ y = r)
      PROVE  Covers(sync'[x][y], row[x], row[y], Full) /\ (Full => Idle(sync'[x][y]))
  BY <1>2, <1>6 DEF Good, Pairs
<1>7. Covers(new, row[w], row[r], Full) /\ (~done => SameErrands) /\ (done => Idle(new)) /\ Book(row[w]) /\ done \in BOOLEAN
  <2>1. PICK st, p, q, all : st = job.chunk.st /\ p = row[w] /\ q = row[r] /\ all = Full
    OBVIOUS
  <2>2. /\ Covers(st, p, q, all) /\ Stored(new, st, done) /\ (done => Due(st, q) = {})
        /\ done \in BOOLEAN /\ (~done => SameErrands)
    BY <1>1, <2>1 DEF EndsOne, SameErrands
  <2>3. Book(q) /\ Book(p)
    BY <1>2, <2>1, BookIs DEF Good
  <2>4. new.when \in Int
    BY <1>2 DEF Timed
  <2>5. Covers(new, p, q, all)
    <3>1. CASE done
      <4>1. Stored(new, st, TRUE) /\ Due(st, q) = {}
        BY <2>2, <3>1 DEF Stored
      <4> QED BY <2>2, <2>3, <2>4, <4>1, EndedCovers
    <3>2. CASE ~done
      <4>1. new.map = st.map /\ new.count = st.count /\ new.when = st.when
        BY <2>2, <3>2 DEF Stored
      <4> QED BY <2>2, <4>1 DEF Covers, Due, Brought
    <3> QED BY <2>2, <3>1, <3>2
  <2>6. done => Idle(new)
    BY <2>2 DEF Idle, Stored
  <2> QED BY <2>1, <2>2, <2>3, <2>5, <2>6
<1>8. ~done => (Doing("push") /\ w = To /\ r = From)'
  BY <1>2, <1>7, ErrandsSame
<1>9. Pairs'
  <2> SUFFICES ASSUME NEW x \in Managed, NEW y \in Managed, x # y
               PROVE  /\ Covers(sync'[x][y], row[x], row[y], Full)
                      /\ Full => (Doing("push") /\ x = To /\ y = From)' \/ Idle(sync'[x][y])
    BY <1>2, <1>5 DEF Pairs, Idle
  <2>1. CASE ~(x = w /\ y = r)
    BY <1>6, <2>1
  <2>2. CASE x = w /\ y = r
    BY <1>2, <1>7, <1>8, <2>2
  <2> QED BY <2>1, <2>2
<1> QED BY <1>3, <1>4, <1>9

\* The errand goes on: a chunk was not the last.
LEMMA ChunkStored ==
  ASSUME SyInv, Good, NEW w, NEW r, NEW new, NEW todo, EndsOne(w, r, FALSE, new, todo)
  PROVE  Phase'
<1>1. /\ r \in Managed /\ w \in Managed /\ w # r /\ w = To /\ r = From /\ Doing("push")
      /\ UNCHANGED <<row, user, mgr, cut, clock>> /\ job'.chunk = NoChunk /\ job'.kind = job.kind
      /\ job'.target = job.target /\ job'.todo = job.todo
      /\ sync'[w][r].when = sync[w][r].when
      /\ \A x, y \in Managed : ~(x = w /\ y = r) => sync'[x][y] = sync[x][y]
  BY DEF EndsOne, Stored
<1>2. Full' = Full
  BY <1>1 DEF Full
<1>3. \A x, y \in Managed : sync'[x][y].when = sync[x][y].when
  BY <1>1
<1>4. \A s \in Managed : Asked(s)' = Asked(s)
  BY <1>3 DEF Asked
<1>5. \A a \in Managed : Leads(a) => Leads(a)'
  BY <1>1, <1>2, <1>4 DEF Leads
<1>6. /\ ~Fresh /\ \A a \in Managed : ~Marking(a)
      /\ \A a \in Managed : Settled(a) => Pushing(a)
  BY <1>1, PushEnds DEF Good
<1>7. ASSUME NEW a \in Managed, NEW m \in Nat, Merging(a, m) PROVE Merging(a, m)'
  BY <1>1, <1>3, <1>7 DEF Merging, Switches, FreshRows
<1>8. ASSUME NEW a \in Managed, Switching(a) PROVE Switching(a)'
  <2>1. Leads(a)' /\ Switches(a)'
    BY <1>1, <1>5, <1>8 DEF Switching, Switches
  <2>2. \A s \in Managed \ {a} :
          \/ Goes(job.todo, s, 1, Len(job.todo) - 1) /\ Waits(a, s)
          \/ Told(a, s) /\ Same(row[a], row[s], Full)
    BY <1>8 DEF Switching
  <2>3. \A s \in Managed \ {a} : (Waits(a, s) => Waits(a, s)') /\ (Told(a, s) => Told(a, s)')
    BY <1>1, <1>3 DEF Waits, Told
  <2> QED BY <1>1, <1>2, <1>8, <2>1, <2>2, <2>3 DEF Switching
<1>9. ASSUME NEW a \in Managed, Settled(a) PROVE Settled(a)'
  <2>1. Leads(a)' /\ Pushing(a)
    BY <1>5, <1>6, <1>9 DEF Settled
  <2>2. Pushing(a)'
    BY <1>1, <1>2, <2>1 DEF Pushing
  <2> QED BY <1>1, <1>9, <2>1, <2>2 DEF Settled, Agreed, Available, Chosen
<1> QED BY <1>6, <1>7, <1>8, <1>9 DEF Good, Phase

\* The next errand begins: the writer has what the reader has.
LEMMA ErrandDone ==
  ASSUME SyInv, Good, NEW w, NEW r, NEW new, NEW todo, EndsOne(w, r, TRUE, new, todo)
  PROVE  Phase'
<1>1. /\ r \in Managed /\ w \in Managed /\ w # r /\ w = To /\ r = From /\ Doing("push") /\ job.chunk # NoChunk
      /\ UNCHANGED <<row, user, mgr, cut, clock>> /\ job'.chunk = NoChunk /\ job'.kind = job.kind
      /\ job'.target = job.target /\ job'.todo = Tail(job.todo) /\ job.chunk.user = {}
      /\ \A x, y \in Managed : ~(x = w /\ y = r) => sync'[x][y] = sync[x][y]
  BY DEF EndsOne
<1>2. Full' = Full
  BY <1>1 DEF Full
<1>3. Same(row[r], row[w], Full) /\ Within(row[w], row[r])
  <2>1. PICK st, p, q, all : st = job.chunk.st /\ p = row[w] /\ q = row[r] /\ all = Full
    OBVIOUS
  <2>2. /\ SyncOK(st, w, r) /\ Covers(st, p, q, all) /\ Due(st, q) = {}
    BY <2>1 DEF EndsOne
  <2>3. \A i \in Items : There(q, i) => Brought(st, p, q, i, all)
    BY <2>2 DEF Covers
  <2> QED BY <1>1, <2>1, <2>2, <2>3, AllBrought DEF Good
<1>4. /\ ~Fresh /\ \A a \in Managed : ~Marking(a)
      /\ \A a \in Managed, m \in Nat : Merging(a, m) => m # 1 /\ w = a /\ job.todo[1] = Push(r, a)
      /\ \A a \in Managed : Switching(a) => r = a /\ Len(job.todo) > 1 /\ job.todo[1] = Push(a, w)
      /\ \A a \in Managed : Settled(a) => Pushing(a) /\ r = a /\ job.todo[1] = Push(a, w)
  BY <1>1, PushEnds DEF Good
<1>5. PICK e, rest, len : e = job.todo /\ rest = Tail(e) /\ len = Len(e)
  OBVIOUS
<1>6. e \in Seq(Errands) /\ e # <<>> /\ len \in Nat \ {0} /\ Len(rest) = len - 1 /\ job'.todo = rest
  <2>1. e \in Seq(Errands) /\ e # <<>>
    BY <1>1, <1>5 DEF SyInv, JobOK, Doing
  <2> QED BY <1>1, <1>5, <2>1, TailShifts
<1>7. \A s, t : Push(s, t).from = s /\ Push(s, t).to = t
  BY DEF Push
<1>8. ASSUME NEW a \in Managed, a = r PROVE \A s \in Managed \ {a} : Asked(s)' = Asked(s)
  BY <1>1, <1>8 DEF Asked
<1>9. \A a \in Managed : a = r /\ Leads(a) => Leads(a)'
  BY <1>1, <1>2, <1>8 DEF Leads
<1>10. ASSUME NEW a \in Managed, NEW m \in Nat, Merging(a, m) PROVE \E l \in Nat : Merging(a, l)'
  <2>1. m # 1 /\ w = a /\ e[1] = Push(r, a)
    BY <1>4, <1>5, <1>10
  <2>2. /\ m \in 1..len - 1 /\ e[m] = Mark(a) /\ PushesFrom(e, a, m + 1, len - 1)
        /\ e[len] = Wake(job.target) /\ \A s \in Managed \ {a} : Goes(e, s, m + 1, len - 1)
    BY <1>5, <1>10 DEF Merging, Marks
  <2>3. PICK l, n : l = m - 1 /\ n = len - 1
    OBVIOUS
  <2>4. /\ l \in Nat \ {0} /\ l \in Nat /\ n \in Nat /\ n \in Nat \ {0} /\ n <= Len(e) /\ m = l + 1 /\ l + 1 <= Len(e)
        /\ n + 1 <= Len(e) /\ n = Len(rest) /\ n + 1 = len /\ l \in 1..Len(rest) - 1 /\ m \in Nat \ {0} /\ m <= Len(e) 
        /\ l <= Len(e) /\ m - 1 = l
    <3>1. len \in Nat \ {0} /\ m \in 1..len - 1 /\ m # 1 /\ Len(rest) = len - 1
      BY <1>6, <2>1, <2>2
    <3>2. PICK lr : lr = Len(rest)
      OBVIOUS
    <3>3. /\ l \in Nat \ {0} /\ n \in Nat \ {0} /\ n <= len /\ m = l + 1 /\ l + 1 <= len
          /\ n + 1 <= len /\ n = lr /\ n + 1 = len /\ l \in 1..lr - 1 /\ m \in Nat \ {0} /\ m <= len 
          /\ l <= len /\ m - 1 = l
      BY <2>3, <3>1, <3>2
    <3> QED BY <1>5, <3>2, <3>3
  <2>5. rest[l] = Mark(a) /\ rest[n] = Wake(job.target)
    <3>1. \A k \in Nat \ {0} : k + 1 <= Len(e) => rest[k] = e[k + 1]
      BY <1>5, <1>6, <2>4, Shifted
    <3> QED BY <2>2, <2>4, <3>1
  <2>6. PushesFrom(rest, a, l + 1, n - 1)
    <3>1. PushesFrom(e, a, m + 1, n) => PushesFrom(rest, a, m, n - 1)
      BY <1>5, <1>6, <2>4, Shifted
    <3> QED BY <2>2, <2>3, <2>4, <3>1
  <2>7. ASSUME NEW s \in Managed \ {a} PROVE Goes(rest, s, l + 1, n - 1)
    <3>1. Goes(e, s, m + 1, n) => Goes(rest, s, m, n - 1)
      BY <1>5, <1>6, <2>4, Shifted
    <3> QED BY <2>2, <2>3, <2>4, <3>1
  <2>8. Marks(rest, a, l, job.target)
    BY <2>4, <2>5, <2>6, <2>7 DEF Marks
  <2>9. \A k \in 1..l - 1 : \E s \in Managed \ {a} : rest[k] = Push(s, a)
    <3> SUFFICES ASSUME NEW k \in 1..l - 1 PROVE \E s \in Managed \ {a} : rest[k] = Push(s, a)
      OBVIOUS
    <3>1. k \in Nat \ {0} /\ k + 1 <= Len(e) /\ k + 1 \in 1..m - 1
      BY <1>5, <1>6, <2>4
    <3>2. rest[k] = e[k + 1]
      BY <1>5, <1>6, <2>4, <3>1, Shifted
    <3>3. \A x \in 1..m - 1 : \E s \in Managed \ {a} : e[x] = Push(s, a)
      BY <1>5, <1>10 DEF Merging
    <3> QED BY <3>1, <3>2, <3>3
  <2>10. ASSUME NEW s \in Managed \ {a} PROVE Comes(rest, s, 1, l - 1) \/ Within(row[a], row[s])
    <3>1. Comes(e, s, 1, l) \/ Within(row[a], row[s])
      BY <1>5, <1>10, <2>4 DEF Merging
    <3>2. Comes(e, s, 1, l) => e[1].from = s \/ Comes(rest, s, 1, l - 1)
      BY <1>5, <1>6, <2>4, Shifted
    <3>3. e[1].from = s => Within(row[a], row[s])
      BY <1>3, <1>7, <2>1
    <3> QED BY <3>1, <3>2, <3>3
  <2>11. Switches(a)' /\ FreshRows' /\ job'.target = a /\ \A x, y \in Managed : x # a => sync'[x][y].when = Undefined
    BY <1>1, <1>10, <2>1 DEF Merging, Switches, FreshRows
  <2>12. Merging(a, l)'
    BY <1>1, <1>6, <2>8, <2>9, <2>10, <2>11 DEF Merging
  <2> QED BY <2>4, <2>12
<1>11. ASSUME NEW a \in Managed, Switching(a) PROVE Switching(a)'
  <2>1. r = a /\ len > 1 /\ e[1] = Push(a, w) /\ Leads(a)
    BY <1>4, <1>5, <1>11 DEF Switching
  <2>2. /\ PushesFrom(e, a, 1, len - 1) /\ e[len] = Wake(job.target) /\ user[a].active = job.target
        /\ \A s \in Managed \ {a} :
             \/ Goes(e, s, 1, len - 1) /\ Waits(a, s)
             \/ Told(a, s) /\ Same(row[a], row[s], Full)
        /\ Told(a, w)
    BY <1>1, <1>5, <1>11 DEF Switching
  <2>3. PICK n, one : n = len - 1 /\ one = 1
    OBVIOUS
  <2>4. n \in Nat \ {0} /\ n \in Nat /\ n <= Len(e) /\ one \in Nat \ {0} /\ n + 1 <= Len(e) /\ n + 1 = len /\ n = Len(rest)
    BY <1>5, <1>6, <2>1, <2>3
  <2>5. rest[n] = Wake(job.target)
    <3>1. rest[n] = e[n + 1]
      BY <1>5, <1>6, <2>4, Shifted
    <3> QED BY <2>2, <2>4, <3>1
  <2>6. PushesFrom(rest, a, 1, n - 1)
    <3>1. PushesFrom(e, a, one + 1, n) => PushesFrom(rest, a, one, n - 1)
      BY <1>5, <1>6, <2>4, Shifted
    <3>2. PushesFrom(e, a, one + 1, n)
      <4>1. \A k \in one + 1..n : k \in 1..n
        BY <2>3, <2>4
      <4> QED BY <2>2, <2>3, <4>1 DEF PushesFrom
    <3> QED BY <2>3, <3>1, <3>2
  <2>7. ASSUME NEW s \in Managed \ {a}
        PROVE  \/ Goes(rest, s, 1, n - 1) /\ Waits(a, s)'
               \/ Told(a, s)' /\ Same(row[a], row[s], Full)
    <3>1. Told(a, s) => Told(a, s)'
      BY <1>1 DEF Told
    <3>2. CASE s = w
      BY <1>3, <2>1, <2>2, <3>1, <3>2
    <3>3. CASE s # w
      <4>1. Goes(e, s, 1, n) => e[1].to = s \/ Goes(rest, s, 1, n - 1)
        BY <1>5, <1>6, <2>4, Shifted
      <4>2. e[1].to # s
        BY <1>7, <2>1, <3>3
      <4>3. Waits(a, s) => Waits(a, s)'
        <5>1. sync'[s][a] = sync[s][a]
          BY <1>1, <3>3
        <5> QED BY <1>1, <5>1 DEF Waits, Told
      <4> QED BY <2>2, <2>3, <3>1, <4>1, <4>2, <4>3
    <3> QED BY <3>2, <3>3
  <2>8. Leads(a)' /\ Switches(a)' /\ Len(rest) > 0
    BY <1>1, <1>6, <1>9, <1>11, <2>1, <2>4 DEF Switching, Switches
  <2> QED BY <1>1, <1>2, <1>6, <2>2, <2>4, <2>5, <2>6, <2>7, <2>8 DEF Switching
<1>12. ASSUME NEW a \in Managed, Settled(a) PROVE Settled(a)'
  <2>1. r = a /\ Pushing(a) /\ e[1] = Push(a, w) /\ Leads(a)
    BY <1>4, <1>5, <1>12 DEF Settled
  <2>2. PushesFrom(e, a, 1, len) /\ \A s \in Managed \ {a} : Goes(e, s, 1, len) \/ Same(row[a], row[s], Full)
    BY <1>5, <2>1 DEF Pushing
  <2>3. PICK one : one = 1
    OBVIOUS
  <2>4. len \in Nat /\ len <= Len(e) /\ one \in Nat \ {0} /\ len - 1 = Len(rest)
    BY <1>5, <1>6, <2>3
  <2>5. PushesFrom(rest, a, 1, Len(rest))
    <3>1. PushesFrom(e, a, one + 1, len) => PushesFrom(rest, a, one, len - 1)
      BY <1>5, <1>6, <2>4, Shifted
    <3>2. PushesFrom(e, a, one + 1, len)
      <4>1. \A k \in one + 1..len : k \in 1..len
        BY <2>3, <2>4
      <4> QED BY <2>2, <2>3, <4>1 DEF PushesFrom
    <3> QED BY <2>3, <2>4, <3>1, <3>2
  <2>6. ASSUME NEW s \in Managed \ {a} PROVE Goes(rest, s, 1, Len(rest)) \/ Same(row[a], row[s], Full)
    <3>1. Goes(e, s, 1, len) => e[1].to = s \/ Goes(rest, s, 1, len - 1)
      BY <1>5, <1>6, <2>4, Shifted
    <3>2. e[1].to = s => Same(row[a], row[s], Full)
      BY <1>3, <1>7, <2>1
    <3> QED BY <2>2, <2>4, <3>1, <3>2
  <2>7. Pushing(a)'
    BY <1>1, <1>2, <1>6, <2>1, <2>5, <2>6 DEF Pushing
  <2>8. Leads(a)'
    BY <1>9, <2>1
  <2> QED BY <1>1, <1>12, <2>7, <2>8 DEF Settled, Agreed, Available, Chosen
<1> QED BY <1>4, <1>10, <1>11, <1>12 DEF Good, Phase

LEMMA EndChunkGood ==
  ASSUME SyInv, Good, EndChunk
  PROVE  Good'
<1>1. PICK w, r, done, new, todo : EndsOne(w, r, done, new, todo)
  BY EndedOne
<1>2. done \in BOOLEAN
  BY <1>1 DEF EndsOne
<1>3. Phase'
  <2>1. CASE done = TRUE
    BY <1>1, <2>1, ErrandDone
  <2>2. CASE done = FALSE
    BY <1>1, <2>2, ChunkStored
  <2> QED BY <1>2, <2>1, <2>2
<1> QED BY <1>3, EndChunkTimes DEF Good

-----------------------------------------------------------------------------
(* The invariant holds.                                                    *)

LEMMA CalmStart == SyInit => CalmInv
<1> SUFFICES ASSUME SyInit PROVE SyInv /\ imports \in Nat /\ Good
  BY DEF CalmInv
<1>1. SyInv /\ imports \in Nat
  BY SyncStart DEF SyInit
<1>2. /\ clock = 1 /\ cut = {} /\ mgr = Asleep /\ job = NoJob
      /\ DOMAIN user = Stores /\ \A s \in Stores : user[s] = NewUser(s)
      /\ \A s \in Stores, i \in Items : row[s][i] = IF i \in Held[s] THEN OldRow(s, i) ELSE NoRow
      /\ \A w \in Managed, r \in Stores : sync[w][r] = NewSync
  BY DEF SyInit
<1>3. ~mgr.avail /\ ~mgr.isActive /\ job.kind = "none" /\ job.chunk = NoChunk /\ ~Doing("push")
  BY <1>2 DEF Asleep, NoJob, Doing
<1>4. Managed \subseteq Stores
  BY DEF Stores
<1>5. ASSUME NEW s \in Stores, NEW i \in Items, There(row[s], i) PROVE row[s][i].at = 1 /\ row[s][i].ver = 1
  <2>1. NoRow.ver = 0 /\ OldRow(s, i).at = 1 /\ OldRow(s, i).ver = 1
    BY DEF NoRow, OldRow
  <2> QED BY <1>2, <1>5, <2>1 DEF There
<1>6. ASSUME NEW s \in Stores PROVE user[s].at = 0 /\ user[s].active = s
  BY <1>2 DEF NewUser
<1>7. NewSync.when = -1 /\ NewSync.max = -1 /\ \A k \in Tables : NewSync.count[k] = 0
  BY DEF NewSync, Undefined
<1>8. Times
  <2>1. \A w, r \in Managed : Timed(sync[w][r])
    BY <1>2, <1>4, <1>7 DEF Timed
  <2> QED BY <1>2, <1>3, <1>4, <1>5, <1>6, <2>1 DEF Times
<1>9. ASSUME NEW w \in Managed, NEW r \in Managed PROVE Covers(sync[w][r], row[w], row[r], Full) /\ Idle(sync[w][r])
  <2>1. PICK st, p, q, all : st = sync[w][r] /\ p = row[w] /\ q = row[r] /\ all = Full
    OBVIOUS
  <2>2. Book(q) /\ st.when = -1 /\ st.when \in Int /\ \A k \in Tables : st.count[k] = 0
    BY <1>1, <1>2, <1>4, <1>7, <1>8, <2>1, BookIs
  <2>3. ASSUME NEW i \in Items, There(q, i) PROVE i \in Due(st, q)
    <3>1. q[i].at \in Nat /\ Kind[i] \in Tables
      BY <2>2, <2>3, SyncAssumption DEF Book
    <3>2. q[i].at >= st.when
      BY <2>2, <3>1
    <3>3. Pos(q, st.when, i) \in Nat
      BY <2>2, <2>3, <3>1, <3>2, PosIs DEF Changed
    <3> QED BY <2>2, <2>3, <3>1, <3>2, <3>3 DEF Due
  <2>4. ASSUME NEW k \in Tables PROVE st.count[k] <= Cardinality(Changed(q, k, st.when))
    <3>1. Cardinality(Changed(q, k, st.when)) \in Nat
      BY <2>2, PosIs
    <3> QED BY <2>2, <3>1
  <2>5. Covers(st, p, q, all) /\ Idle(st)
    BY <2>2, <2>3, <2>4 DEF Covers, Idle
  <2> QED BY <2>1, <2>5
<1>10. Pairs /\ Flow
  BY <1>3, <1>9 DEF Pairs, Flow
<1>11. Phase
  <2>1. CASE \E s, t \in Managed : s # t
    <3>1. FreshRows
      BY <1>2, <1>4, <1>5 DEF FreshRows
    <3>2. \A w, r \in Managed : sync[w][r].when = Undefined
      BY <1>2, <1>4, <1>7 DEF Undefined
    <3> QED BY <1>3, <2>1, <3>1, <3>2 DEF Fresh, Phase
  <2>2. CASE \A s, t \in Managed : s = t
    <3>1. PICK a \in Managed : TRUE
      BY StoresManaged
    <3>2. Managed \ {a} = {}
      BY <2>2
    <3>3. Leads(a)
      BY <3>2 DEF Leads
    <3>4. Chosen(a)
      BY <1>4, <1>6, <2>2 DEF Chosen
    <3> QED BY <1>3, <3>3, <3>4 DEF Settled, Phase
  <2> QED BY <2>1, <2>2
<1> QED BY <1>1, <1>8, <1>10, <1>11 DEF Good

LEMMA CalmStays ==
  ASSUME Good, UNCHANGED syVars
  PROVE  Good'
<1>1. UNCHANGED <<row, user, sync, mgr, job, cut, clock>>
  BY DEF syVars
<1>2. Full' = Full /\ (Doing("push")' <=> Doing("push")) /\ To' = To /\ From' = From
  BY <1>1 DEF Full, Doing, To, From
<1>3. Times'
  BY <1>1 DEF Good, Times, Timed
<1>4. Pairs'
  BY <1>1, <1>2 DEF Good, Pairs, Idle
<1>5. Flow'
  BY <1>1, <1>2 DEF Good, Flow, Timed
<1>6. FreshRows' = FreshRows /\ Fresh' = Fresh
  BY <1>1 DEF FreshRows, Fresh
<1>7. \A a : (Leads(a)' <=> Leads(a)) /\ (Chosen(a)' <=> Chosen(a)) /\ (Switches(a)' <=> Switches(a)) /\ Agreed(a)' = Agreed(a)
  BY <1>1, <1>2 DEF Leads, Asked, Chosen, Switches, Agreed, Available
<1>8. \A a : Marking(a)' <=> Marking(a)
  BY <1>1, <1>7 DEF Marking
<1>9. \A a, m : Merging(a, m) => Merging(a, m)'
  BY <1>1, <1>2, <1>6, <1>7 DEF Merging
<1>10. \A a, s : (Waits(a, s)' <=> Waits(a, s)) /\ (Told(a, s)' <=> Told(a, s))
  BY <1>1 DEF Waits, Told
<1>11. \A a : Switching(a) => Switching(a)'
  BY <1>1, <1>2, <1>7, <1>10 DEF Switching, Told
<1>12. \A a : Pushing(a) => Pushing(a)'
  BY <1>1, <1>2 DEF Pushing
<1>13. \A a : Settled(a) => Settled(a)'
  BY <1>1, <1>7, <1>12 DEF Settled
<1>14. Phase'
  BY <1>6, <1>8, <1>9, <1>11, <1>13 DEF Good, Phase
<1> QED BY <1>3, <1>4, <1>5, <1>14 DEF Good

LEMMA CalmStep == CalmInv /\ [SyNext]_syVars => CalmInv'
<1> SUFFICES ASSUME SyInv, imports \in Nat, Calm => Good, [SyNext]_syVars PROVE CalmInv'
  BY DEF CalmInv
<1>1. SyInv'
  BY SyncStep
<1>2. imports' \in Nat /\ (imports' = imports \/ (Import /\ imports' = imports + 1))
  <2>1. CASE UNCHANGED syVars
    BY <2>1 DEF syVars
  <2>2. CASE Import
    BY <2>2 DEF Import
  <2>3. CASE \E n \in Managed : SetActive(n)
    BY <2>3 DEF SetActive
  <2>4. CASE MakeAvailable \/ UpdateBackups \/ Fetch \/ MergeUser \/ MergeRow \/ MergeThrows \/ EndChunk
    BY <2>4 DEF MakeAvailable, UpdateBackups, Fetch, MergeUser, MergeRow, MergeThrows, EndChunk
  <2>5. CASE MarkSource \/ WakeUp \/ Finish \/ StoreFails \/ SyncCrash \/ Write
    BY <2>5 DEF MarkSource, WakeUp, Finish, StoreFails, SyncCrash, Write
  <2> QED BY <2>1, <2>2, <2>3, <2>4, <2>5 DEF SyNext
<1>3. cut \subseteq cut'
  BY DEF SyNext, syVars, MakeAvailable, UpdateBackups, SetActive, Import, Fetch, MergeUser, MergeRow, MergeThrows,
     EndChunk, MarkSource, WakeUp, Finish, StoreFails, SyncCrash, Write, CutOff
<1>4. ASSUME Calm' PROVE Good'
  <2>1. Calm /\ imports' = imports
    BY <1>2, <1>3, <1>4 DEF Calm
  <2>2. Good
    BY <2>1
  <2>3. CASE UNCHANGED syVars
    BY <2>2, <2>3, CalmStays
  <2>4. ~Import
    BY <2>1 DEF Import
  <2>5. CASE MakeAvailable
    BY <2>2, <2>5, MakeAvailableGood
  <2>6. CASE UpdateBackups
    BY <2>2, <2>6, UpdateBackupsGood
  <2>7. ASSUME NEW n \in Managed, SetActive(n) PROVE Good'
    BY <2>2, <2>7, SetActiveGood
  <2>8. CASE Fetch
    BY <2>2, <2>8, FetchGood
  <2>9. CASE MergeUser
    BY <2>2, <2>9, MergeUserGood
  <2>10. CASE MergeRow
    <3>1. Times'
      BY <2>2, <2>10, MergeRowTimes
    <3> QED BY <1>1, <2>2, <2>10, <3>1, MergeRowPairs, MergeRowFlow, MergeRowPhase DEF Good
  <2>11. CASE EndChunk
    BY <2>2, <2>11, EndChunkGood
  <2>12. CASE MarkSource
    BY <2>2, <2>12, MarkSourceGood
  <2>13. CASE WakeUp
    BY <2>2, <2>13, WakeUpGood
  <2>14. CASE Finish \/ MergeThrows \/ StoreFails \/ SyncCrash
    BY <1>4, <2>2, <2>14, JobsEnd
  <2>15. CASE Write
    BY <1>1, <2>2, <2>15, WriteGood
  <2> QED BY <2>3, <2>4, <2>5, <2>6, <2>7, <2>8, <2>9, <2>10, <2>11, <2>12, <2>13, <2>14, <2>15 DEF SyNext
<1> QED BY <1>1, <1>2, <1>4 DEF CalmInv

-----------------------------------------------------------------------------
(* What it means for the wallet.                                           *)

LEMMA ParentComes == CalmInv => ParentsAgree
<1> SUFFICES ASSUME SyInv, Calm => Good PROVE ParentsAgree
  BY DEF CalmInv
<1>1. SameParents
  BY DEF SyInv, RowsInv
<1>2. ASSUME Calm, Doing("push"), job.chunk # NoChunk, job.chunk.rows # <<>>
      PROVE  ~Unmapped(Head(job.chunk.rows).item, Head(job.chunk.rows).val, job.chunk.st.map)
  <2>1. Good
    BY <1>2
  <2>2. From \in Managed /\ To \in Managed
    BY <1>2, <2>1, PushEnds DEF Good
  <2>3. PICK c, st, q, p, rows, x, i, all :
          /\ c = job.chunk /\ st = c.st /\ q = row[From] /\ p = row[To] /\ rows = c.rows
          /\ x = Head(rows) /\ i = x.item /\ all = Full
    OBVIOUS
  <2>4. Timed(st) /\ Flows(c, p, q, all) /\ ChunkOK(c, To, From) /\ Book(q)
    BY <1>2, <2>1, <2>2, <2>3, ChunkRuns, BookIs DEF Good, Flow
  <2>5. Len(rows) \in Nat \ {0} /\ x = rows[1]
    <3>1. PICK E : rows \in Seq(E)
      BY <2>3, <2>4 DEF ChunkOK
    <3> QED BY <1>2, <2>3, <3>1, TailShifts
  <2>6. i \in Due(st, q) /\ (\A u \in Due(st, q) : ~Before(q, u, i)) /\ x.val = q[i]
    <3>1. Segment(rows, Due(st, q), q) /\ \A n \in 1..Len(rows) : rows[n].val = q[rows[n].item]
      BY <2>3, <2>4 DEF Flows
    <3>2. 1 \in 1..Len(rows)
      BY <2>5
    <3> QED BY <2>3, <2>5, <3>1, <3>2, FirstOfSegment
  <2>7. SyncOK(st, To, From) /\ State(st)
    BY <2>3, <2>4, StateIs DEF ChunkOK
  <2>8. i \in Items /\ There(q, i)
    BY <2>4, <2>6, <2>7, DueIs
  <2> SUFFICES ASSUME Parent[i] # i PROVE st.map[Kind[Parent[i]]][q[i].par] # 0
    BY <2>3, <2>6 DEF Unmapped, Mapped
  <2>9. PICK j \in Items : j = Parent[i] /\ Kind[j] < Kind[i]
    BY <2>8, SyncAssumption
  <2>10. There(q, j) /\ q[i].par = q[j].id
    BY <1>1, <2>2, <2>3, <2>8, <2>9 DEF SameParents, There, Has, Stores
  <2>11. j \notin Due(st, q)
    BY <2>6, <2>9 DEF Before
  <2>12. Brought(st, p, q, j, all)
    BY <2>4, <2>3, <2>10, <2>11 DEF Flows, Covers
  <2> QED BY <2>9, <2>10, <2>12 DEF Brought
<1> QED BY <1>1, <1>2 DEF ParentsAgree, ParentKnown, Calm

LEMMA BackupsHave == CalmInv => BackupComplete
<1> SUFFICES ASSUME SyInv, Calm => Good, imports = 0, cut = {}, job.kind = "backup", job.todo = <<>>,
                    NEW s \in mgr.backups, NEW i \in Items, Newest(i)
             PROVE  row[s][i].ver = row[mgr.active][i].ver
  BY DEF CalmInv, BackupComplete, BackedUp
<1>1. Good /\ Full
  BY DEF Calm, Full
<1>2. \A a \in Managed : ~Switches(a)
  BY DEF Switches
<1>3. PICK a \in Managed : Settled(a)
  BY <1>1, <1>2 DEF Good, Phase, Fresh, Merging, Marking, Switching
<1>4. Pushing(a) /\ Leads(a) /\ mgr = Agreed(a)
  BY <1>3 DEF Settled, Pushing
<1>5. mgr.active = a /\ s \in Managed \ {a}
  BY <1>4, AgreedIs
<1>6. ~Goes(job.todo, s, 1, Len(job.todo))
  <2>1. Len(job.todo) = 0 /\ 1..0 = {}
    OBVIOUS
  <2> QED BY <2>1 DEF Goes
<1>7. PICK p, q, T, all : p = row[a] /\ q = row[s] /\ T = Asked(s) /\ all = Full
  OBVIOUS
<1>8. Within(p, q) /\ Forward(p, q, T, all) /\ Same(p, q, all) /\ Book(p) /\ Book(q) /\ all
  BY <1>1, <1>4, <1>5, <1>6, <1>7, BookIs DEF Pushing, Leads, Good
<1>9. Alike(p, q, all)
  BY <1>8, AlikeIs
<1>10. p[i].ver = q[i].ver
  <2>1. p[i].ver \in Nat /\ q[i].ver \in Nat
    BY <1>8 DEF Book
  <2> QED BY <1>8, <1>9, <2>1 DEF Alike, There
<1> QED BY <1>5, <1>7, <1>10

LEMMA ActiveHas == CalmInv => SwitchKeepsAll
<1> SUFFICES ASSUME SyInv, Calm => Good, imports = 0, cut = {}, mgr.isActive, job.kind = "none",
                    NEW s \in Managed, NEW i \in Items, Newest(i)
             PROVE  row[s][i].ver <= row[mgr.active][i].ver
  BY DEF CalmInv, SwitchKeepsAll, ActiveComplete
<1>1. Good /\ Full
  BY DEF Calm, Full
<1>2. PICK a \in Managed : Leads(a) /\ mgr = Agreed(a)
  BY <1>1, Resting
<1>3. mgr.active = a
  BY <1>2, AgreedIs
<1>4. row[s][i].ver \in Nat /\ row[a][i].ver \in Nat
  BY <1>1, BookIs DEF Good, Book
<1>5. CASE s = a
  BY <1>3, <1>4, <1>5
<1>6. CASE s # a
  <2>1. Within(row[a], row[s]) /\ Forward(row[a], row[s], Asked(s), Full)
    BY <1>2, <1>6 DEF Leads
  <2>2. There(row[s], i) => row[s][i].ver <= row[a][i].ver
    BY <1>1, <2>1 DEF Within, Forward
  <2> QED BY <1>3, <1>4, <2>2 DEF There
<1> QED BY <1>5, <1>6

LEMMA CalmHolds == SySpec => []CalmInv
BY CalmStart, CalmStep, PTL DEF SySpec

\* Whatever ids the stores give, and wherever a synchronisation or an import is
\* interrupted and resumed, a row has the same parent in every store, and its parent
\* is there (EntityOutput.mergeNew, syncMap).  The parent of a row that arrives is
\* known, whatever backups were cut off (getSyncChunk's order of tables).
THEOREM ParentsTravel == SySpec => []ParentsAgree
BY CalmHolds, ParentComes, PTL

\* When updateBackups ends, every backup has what the active store has, for any
\* stores, size of chunk, number of restarts and of switches before.
THEOREM BackupsAreComplete == SySpec => []BackupComplete
BY CalmHolds, BackupsHave, PTL

\* The active store that is enabled has the newest row of everything (setActive).
THEOREM SwitchesKeepAll == SySpec => []SwitchKeepsAll
BY CalmHolds, ActiveHas, PTL

==================================================================================
