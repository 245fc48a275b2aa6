-------------------------------- MODULE Caches --------------------------------
\* UtxoCacheManager on several nodes, kept fresh by invalidations that travel
\* over the event bus of a node and the stream CACHE_INVALIDATE between nodes.
\*
\* A query that misses starts a load, whose answer is cached unless something was
\* invalidated meanwhile (generation).  CacheInvalidationPublisher handles an
\* event on its own node and publishes it; CacheInvalidationConsumer handles it
\* on the others.
\*
\* Abstracted: the status of an outpoint is the version of its last change; a
\* load is one call of the providers, which answer with the version of the time.
\* Every node has its own consumer.  Hits, sizes and metrics are left out.
EXTENDS Integers, FiniteSets

CONSTANTS
    Nodes, Outs,
    CacheKeys,      \* queries: output format, script and outpoint
    OutOf,          \* the outpoint of a query
    EventHeights,        \* heights of block events
    NoVersion,
    MaxVersion,     \* bound on the changes of an outpoint
    MaxLoads,       \* bound on the loads of a node at a time
    MaxEvents       \* bound on published events

ASSUME CachesAssumption ==
    /\ OutOf \in [CacheKeys -> Outs] /\ EventHeights \subseteq Nat
    /\ MaxVersion \in Nat /\ MaxLoads \in Nat /\ MaxEvents \in Nat

VARIABLES
    version,    \* the status of each outpoint
    cache,      \* cache: per node and query, the version cached
    index,      \* outpointKeys: per node and outpoint, the queries cached
    loads,      \* loads under way: query, answer, whether the generation is still theirs
    inFlight,   \* queries whose load later callers join
    told,       \* the version of each outpoint when a node last handled its invalidation
    news,       \* messages still to be received, per node
    window,     \* ids within the duplicate window of the stream
    events      \* published events so far

caVars == <<version, cache, index, loads, inFlight, told, news, window, events>>

\* Events: spent outpoints, a block with the outpoints it touches or with none
\* known, a reorganisation.
Events ==
    [type : {"utxo", "block"}, at : EventHeights, outs : SUBSET Outs \ {{}}]
        \cup [type : {"blockAll", "reorg"}, at : EventHeights, outs : {Outs}]

-----------------------------------------------------------------------------
\* The cache of one node.

\* dispose: an entry that goes leaves the index of its outpoint.
Disposed(ix, k) == [ix EXCEPT ![OutOf[k]] = @ \ {k}]

\* set: the overwritten entry is disposed of before the query is indexed again.
StoreAnswer(n, k, v) ==
    /\ cache' = [cache EXCEPT ![n][k] = v]
    /\ LET left == Disposed(index[n], k)
       IN  index' = [index EXCEPT ![n] = [left EXCEPT ![OutOf[k]] = @ \cup {k}]]

\* invalidateOutpoint finds its entries by the index, and ends every load's
\* right to be cached; clear drops the loads themselves too.
Dropped(n, outs) == UNION {index[n][o] : o \in outs}

Outdated(ls) == {[l EXCEPT !.current = FALSE] : l \in ls}

Clears(e) == e.type \in {"blockAll", "reorg"}

Invalidate(n, e) ==
    LET gone == IF Clears(e) THEN CacheKeys ELSE Dropped(n, e.outs) IN
    /\ cache' = [cache EXCEPT ![n] = [k \in CacheKeys |-> IF k \in gone THEN NoVersion ELSE @[k]]]
    /\ index' = [index EXCEPT ![n] = [o \in Outs |-> IF o \in e.outs THEN {} ELSE @[o]]]
    /\ loads' = [loads EXCEPT ![n] = Outdated(@)]
    /\ inFlight' = IF Clears(e) THEN [inFlight EXCEPT ![n] = {}] ELSE inFlight
    /\ told' = [told EXCEPT ![n] = [o \in Outs |-> IF o \in e.outs THEN version[o] ELSE @[o]]]

\* getOrLoad that misses, with no load to join.
Query(n, k) ==
    /\ cache[n][k] = NoVersion /\ k \notin inFlight[n]
    /\ Cardinality(loads[n]) < MaxLoads
    /\ [key |-> k, answer |-> NoVersion, current |-> TRUE] \notin loads[n]
    /\ loads' = [loads EXCEPT ![n] = @ \cup {[key |-> k, answer |-> NoVersion, current |-> TRUE]}]
    /\ inFlight' = [inFlight EXCEPT ![n] = @ \cup {k}]
    /\ UNCHANGED <<version, cache, index, told, news, window, events>>

AnswerLoad(n, l) ==
    /\ l.answer = NoVersion
    /\ loads' = [loads EXCEPT ![n] = (@ \ {l}) \cup {[l EXCEPT !.answer = version[OutOf[l.key]]]}]
    /\ UNCHANGED <<version, cache, index, inFlight, told, news, window, events>>

\* Mutant: the generation is not compared.
MayCache_Always(l) == TRUE

\* The answer is cached if the generation is the same, and the query leaves
\* inFlight even when a newer load has been put there.
MayCache(l) == l.current

FinishLoad(n, l) ==
    /\ l.answer # NoVersion
    /\ IF MayCache(l) THEN StoreAnswer(n, l.key, l.answer) ELSE UNCHANGED <<cache, index>>
    /\ loads' = [loads EXCEPT ![n] = @ \ {l}]
    /\ inFlight' = [inFlight EXCEPT ![n] = @ \ {l.key}]
    /\ UNCHANGED <<version, told, news, window, events>>

\* The provider fails, or has no decisive answer: nothing is cached.
FailLoad(n, l) ==
    /\ loads' = [loads EXCEPT ![n] = @ \ {l}]
    /\ inFlight' = [inFlight EXCEPT ![n] = @ \ {l.key}]
    /\ UNCHANGED <<version, cache, index, told, news, window, events>>

\* The time to live ends, or the entry is the least recently used one.
Evict(n, k) ==
    /\ cache[n][k] # NoVersion
    /\ cache' = [cache EXCEPT ![n][k] = NoVersion]
    /\ index' = [index EXCEPT ![n] = Disposed(@, k)]
    /\ UNCHANGED <<version, loads, inFlight, told, news, window, events>>

-----------------------------------------------------------------------------
\* Invalidations.

Change(o) ==
    /\ version[o] < MaxVersion
    /\ version' = [version EXCEPT ![o] = @ + 1]
    /\ UNCHANGED <<cache, index, loads, inFlight, told, news, window, events>>

\* publishDistributed: the id has the type, the height (or depth) and the
\* outpoints of the event; the stream drops an id of the last 30 seconds.
EventId(e) == <<IF e.type = "blockAll" THEN "block" ELSE e.type, e.at, IF Clears(e) THEN {} ELSE e.outs>>

PublishEvent(n, e) ==
    /\ events < MaxEvents
    /\ events' = events + 1
    /\ Invalidate(n, e)
    /\ news' = IF EventId(e) \in window THEN news ELSE [m \in Nodes |-> news[m] \cup {e}]
    /\ window' = window \cup {EventId(e)}
    /\ UNCHANGED version

\* consume invalidates and emits the event on the bus of the node, where the
\* cache listens too.  Messages may come in any order and more than once.
Receive(n, e) ==
    /\ Invalidate(n, e)
    /\ \E again \in BOOLEAN : news' = IF again THEN news ELSE [news EXCEPT ![n] = @ \ {e}]
    /\ UNCHANGED <<version, window, events>>

WindowEnds(id) ==
    /\ window' = window \ {id}
    /\ UNCHANGED <<version, cache, index, loads, inFlight, told, news, events>>

-----------------------------------------------------------------------------

CaInit ==
    /\ version = [o \in Outs |-> 0]
    /\ cache = [n \in Nodes |-> [k \in CacheKeys |-> NoVersion]]
    /\ index = [n \in Nodes |-> [o \in Outs |-> {}]]
    /\ loads = [n \in Nodes |-> {}] /\ inFlight = loads /\ news = loads
    /\ told = [n \in Nodes |-> version]
    /\ window = {} /\ events = 0

CaNext ==
    \/ \E o \in Outs : Change(o)
    \/ \E n \in Nodes :
        \/ \E k \in CacheKeys : Query(n, k) \/ Evict(n, k)
        \/ \E l \in loads[n] : AnswerLoad(n, l) \/ FinishLoad(n, l) \/ FailLoad(n, l)
        \/ \E e \in Events : PublishEvent(n, e)
        \/ \E e \in news[n] : Receive(n, e)
    \/ \E id \in window : WindowEnds(id)

CaSpec == CaInit /\ [][CaNext]_caVars

-----------------------------------------------------------------------------
\* Properties.

\* What a cache holds is never older than the last invalidation its node handled:
\* no load that was under way brings the old status back, and no entry escapes
\* the index by which invalidateOutpoint looks for it.
Fresh ==
    \A n \in Nodes, k \in CacheKeys :
        cache[n][k] # NoVersion => cache[n][k] >= told[n][OutOf[k]]
================================================================================
