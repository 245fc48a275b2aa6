------------------------------ MODULE Locks_proofs ------------------------------
(***************************************************************************)
(* The four queues of WalletStorageManager admit one caller at a time, and *)
(* without a concurrent store the manager refines SingleAccess, for any    *)
(* number of callers of each role (StorageLocks).  Chaintracks starts one  *)
(* main thread, for any number of clients, calls, headers and              *)
(* synchronisations, until a start fails or the service is destroyed.      *)
(***************************************************************************)
EXTENDS StorageLocks, Chaintracks, SequenceTheorems, FiniteSetTheorems, TLAPS

-----------------------------------------------------------------------------
(* StorageLocks: the queues of WalletStorageManager.                       *)

Pcs == {"out", "exclusive", "queue", "shared", "in"}

\* The holders that take no queue.
Concurrent(c) == concurrent /\ c \in Actions

Distinct(s) == \A i, j \in 1..Len(s) : s[i] = s[j] => i = j

\* A caller stays in every queue it joined, and in the exclusive one, until it leaves.
QueuesOK ==
  /\ queue \in [Levels -> Seq(Callers)]
  /\ \A i \in Levels : /\ Distinct(queue[i])
                       /\ \A c \in Callers : c \in Elements(queue[i]) <=> level[c] >= i
  /\ exclusive \in Seq(Callers) /\ Distinct(exclusive)
  /\ \A c \in Callers : c \in Elements(exclusive) <=> TakesExclusive(c) /\ pc[c] # "out"
  /\ shared \in Seq(Callers)
  /\ \A c \in Callers : c \in Elements(shared) => pc[c] = "shared" /\ c \notin resolved

\* c has passed queue i, or is about to.
Passes(c, i) == level[c] > i \/ (level[c] = i /\ (pc[c] = "in" \/ c \in resolved))

\* Where a caller can be, and that it passes a queue only at its head.
CallerOK(c) ==
  /\ pc[c] \in {"out", "in"} => c \notin resolved
  /\ pc[c] \in {"out", "exclusive", "shared"} => level[c] = 0
  /\ pc[c] = "exclusive" => TakesExclusive(c)
  /\ pc[c] = "shared" => Concurrent(c)
  /\ pc[c] = "queue" => level[c] \in 1..Depth(c) /\ ~Concurrent(c)
  /\ pc[c] = "in" => level[c] = IF Concurrent(c) THEN 0 ELSE Depth(c)
  /\ \A i \in Levels : Passes(c, i) => Head(queue[i]) = c
  /\ TakesExclusive(c) /\ (pc[c] \in {"queue", "in"} \/ c \in resolved) => Head(exclusive) = c

\* The inductive invariant.
LocksInv ==
  /\ concurrent \in BOOLEAN
  /\ pc \in [Callers -> Pcs]
  /\ level \in [Callers -> 0..4]
  /\ resolved \subseteq Callers
  /\ QueuesOK
  /\ \A c \in Callers : CallerOK(c)

-----------------------------------------------------------------------------
(* Queues as sequences without repetition.                                 *)

LEMMA HeadFacts ==
  ASSUME NEW S, NEW s \in Seq(S), s # <<>>
  PROVE  Head(s) = s[1] /\ Head(s) \in Elements(s) /\ Head(s) \in S /\ Len(s) \in Nat \ {0}
BY EmptySeq, HeadTailProperties DEF Elements

LEMMA EmptyElements == Elements(<<>>) = {} /\ Distinct(<<>>)
BY DEF Elements, Distinct

LEMMA ElementsIn ==
  ASSUME NEW S, NEW s \in Seq(S)
  PROVE  Elements(s) \subseteq S
BY ElementOfSeq DEF Elements

\* What joins a queue goes behind the others.
LEMMA AppendFacts ==
  ASSUME NEW S, NEW s \in Seq(S), NEW x \in S
  PROVE  /\ Append(s, x) \in Seq(S)
         /\ Elements(Append(s, x)) = Elements(s) \cup {x}
         /\ Head(Append(s, x)) = IF s = <<>> THEN x ELSE Head(s)
         /\ Distinct(s) /\ x \notin Elements(s) => Distinct(Append(s, x))
<1> DEFINE a == Append(s, x)
<1>1. /\ Len(s) \in Nat /\ a \in Seq(S) /\ Len(a) = Len(s) + 1
      /\ \A i \in 1..Len(s) : a[i] = s[i]
      /\ a[Len(s) + 1] = x
  BY LenProperties
<1>2. a # <<>>
  BY <1>1
<1> HIDE DEF a
<1>3. Elements(a) = Elements(s) \cup {x}
  BY <1>1 DEF Elements
<1>4. Head(a) = IF s = <<>> THEN x ELSE Head(s)
  <2>1. CASE s = <<>>
    BY <1>1, <1>2, <2>1, HeadFacts
  <2>2. CASE s # <<>>
    BY <1>1, <1>2, <2>2, HeadFacts
  <2>3. QED
    BY <2>1, <2>2
<1>5. Distinct(s) /\ x \notin Elements(s) => Distinct(a)
  BY <1>1 DEF Distinct, Elements
<1>6. QED
  BY <1>1, <1>3, <1>4, <1>5 DEF a

\* What is shifted is gone.
LEMMA TailFacts ==
  ASSUME NEW S, NEW s \in Seq(S), s # <<>>, Distinct(s)
  PROVE  /\ Tail(s) \in Seq(S) /\ Distinct(Tail(s))
         /\ Elements(Tail(s)) = Elements(s) \ {Head(s)}
<1>1. /\ Len(s) \in Nat \ {0} /\ Head(s) = s[1]
      /\ Tail(s) \in Seq(S) /\ Len(Tail(s)) = Len(s) - 1
      /\ \A i \in 1..Len(Tail(s)) : Tail(s)[i] = s[i + 1]
  BY HeadFacts, HeadTailProperties
<1>2. Distinct(Tail(s))
  BY <1>1 DEF Distinct
<1>3. ASSUME NEW x \in Elements(Tail(s)) PROVE x \in Elements(s) /\ x # Head(s)
  BY <1>1, <1>3 DEF Elements, Distinct
<1>4. ASSUME NEW x \in Elements(s) \ {Head(s)} PROVE x \in Elements(Tail(s))
  <2>1. PICK i \in 1..Len(s) : x = s[i]
    BY DEF Elements
  <2>2. i # 1 /\ i - 1 \in 1..Len(Tail(s)) /\ Tail(s)[i - 1] = s[i]
    BY <1>1, <1>4, <2>1
  <2>3. QED
    BY <2>1, <2>2 DEF Elements
<1>5. QED
  BY <1>1, <1>2, <1>3, <1>4

LEMMA DepthFacts == \A c : Depth(c) \in Levels
BY DEF Depth, Levels

-----------------------------------------------------------------------------
(* Acquisition.                                                            *)

\* getActiveLock: a caller that reaches the next queue has passed those before it.
LEMMA JoinStep ==
  ASSUME LocksInv, NEW c \in Callers, NEW i \in Levels, Join(c, i),
         UNCHANGED <<concurrent, exclusive, shared, sharedCount>>,
         level[c] = i - 1, i <= Depth(c), ~Concurrent(c),
         IF i = 1 THEN pc[c] = "out" \/ c \in resolved ELSE c \in resolved,
         pc[c] # "shared",
         TakesExclusive(c) => c \in resolved
  PROVE  LocksInv'
<1> USE DEF LocksInv, Concurrent
<1>1. /\ queue' = [queue EXCEPT ![i] = Append(@, c)]
      /\ level' = [level EXCEPT ![c] = i] /\ pc' = [pc EXCEPT ![c] = "queue"]
      /\ resolved' = IF queue[i] = <<>> THEN resolved \cup {c} ELSE resolved \ {c}
  BY DEF Join
<1>2. /\ queue[i] \in Seq(Callers) /\ Distinct(queue[i]) /\ c \notin Elements(queue[i])
  BY DEF QueuesOK, Levels
<1>3. /\ queue'[i] \in Seq(Callers)
      /\ Elements(queue'[i]) = Elements(queue[i]) \cup {c}
      /\ Head(queue'[i]) = IF queue[i] = <<>> THEN c ELSE Head(queue[i])
      /\ Distinct(queue'[i])
      /\ \A j \in Levels \ {i} : queue'[j] = queue[j]
  BY <1>1, <1>2, AppendFacts DEF QueuesOK
<1>4. level'[c] = i /\ pc'[c] = "queue" /\ \A d \in Callers \ {c} : level'[d] = level[d] /\ pc'[d] = pc[d]
  BY <1>1
<1>5. \A d \in Callers : TakesExclusive(d)' <=> TakesExclusive(d)
  BY DEF TakesExclusive
<1>6. /\ concurrent' \in BOOLEAN /\ pc' \in [Callers -> Pcs] /\ level' \in [Callers -> 0..4]
      /\ resolved' \subseteq Callers
  BY <1>1 DEF Pcs, Levels
<1>7. QueuesOK'
  <2>1. queue' \in [Levels -> Seq(Callers)]
    BY <1>1, <1>2, <1>3 DEF QueuesOK
  <2>2. ASSUME NEW j \in Levels
        PROVE  Distinct(queue'[j]) /\ \A d \in Callers : d \in Elements(queue'[j]) <=> level'[d] >= j
    <3>1. Distinct(queue[j]) /\ \A d \in Callers : d \in Elements(queue[j]) <=> level[d] >= j
      BY DEF QueuesOK
    <3>2. \A d \in Callers : level'[d] = IF d = c THEN i ELSE level[d]
      BY <1>4
    <3>3. level[c] = i - 1 /\ i \in Nat /\ j \in Nat /\ \A d \in Callers : level[d] \in Nat
      BY DEF Levels
    <3>4. CASE j = i
      BY <1>3, <3>1, <3>2, <3>3, <3>4
    <3>5. CASE j # i
      BY <1>3, <3>1, <3>2, <3>3, <3>5
    <3>6. QED
      BY <3>4, <3>5
  <2>3. \A d \in Callers : d \in Elements(exclusive') <=> TakesExclusive(d)' /\ pc'[d] # "out"
    BY <1>4, <1>5, RolesAssumption DEF QueuesOK, CallerOK
  <2>4. \A d \in Callers : d \in Elements(shared') => pc'[d] = "shared" /\ d \notin resolved'
    BY <1>1, <1>4 DEF QueuesOK
  <2>5. QED
    BY <2>1, <2>2, <2>3, <2>4 DEF QueuesOK
<1>8. ASSUME NEW d \in Callers \ {c} PROVE CallerOK(d)'
  <2>1. d \in resolved' <=> d \in resolved
    BY <1>1
  <2>2. ASSUME NEW j \in Levels, Passes(d, j)' PROVE Head(queue'[j]) = d
    <3>1. Passes(d, j)
      BY <1>4, <2>1, <2>2 DEF Passes
    <3>2. level[d] >= j
      BY <3>1 DEF Passes, Levels
    <3>3. d \in Elements(queue[j])
      BY <3>2 DEF QueuesOK
    <3>4. Head(queue[j]) = d /\ queue[j] # <<>>
      BY <3>1, <3>3, EmptyElements DEF CallerOK
    <3>5. QED
      BY <1>3, <3>4
  <2>3. QED
    BY <1>4, <1>5, <2>1, <2>2 DEF CallerOK
<1>9. CallerOK(c)'
  <2>1. ASSUME NEW j \in Levels, Passes(c, j)' PROVE Head(queue'[j]) = c
    <3>1. CASE j = i
      <4>1. c \in resolved'
        BY <1>4, <2>1, <3>1 DEF Passes, Levels
      <4>2. queue[i] = <<>>
        BY <1>1, <4>1
      <4>3. QED
        BY <1>3, <3>1, <4>2
    <3>2. CASE j # i
      <4>1. j < i /\ Passes(c, j)
        BY <1>4, <2>1, <3>2 DEF Passes, Levels
      <4>2. QED
        BY <1>3, <3>2, <4>1 DEF CallerOK
    <3>3. QED
      BY <3>1, <3>2
  <2>2. TakesExclusive(c)' => Head(exclusive') = c
    BY <1>5 DEF CallerOK
  <2>3. QED
    BY <1>4, <1>5, <2>1, <2>2 DEF CallerOK, Levels
<1>10. QED
  BY <1>6, <1>7, <1>8, <1>9

\* runAsReader, runAsSync and runAsStorageProvider.
LEMMA CallStep ==
  ASSUME LocksInv, NEW c \in Callers, Call(c)
  PROVE  LocksInv'
<1>1. ~Concurrent(c) /\ ~TakesExclusive(c)
  BY RolesAssumption DEF Call, Concurrent, TakesExclusive
<1>2. pc[c] = "out" /\ level[c] = 0 /\ Depth(c) \in Levels /\ 1 \in Levels
  BY DepthFacts DEF LocksInv, CallerOK, Call, Levels
<1>3. Join(c, 1) /\ UNCHANGED <<concurrent, exclusive, shared, sharedCount>>
  BY DEF Call
<1>4. QED
  BY <1>1, <1>2, <1>3, JoinStep DEF Levels

\* getActionWriterExclusiveLock.
LEMMA CallExclusiveStep ==
  ASSUME LocksInv, NEW c \in Callers, CallExclusive(c)
  PROVE  LocksInv'
<1> USE DEF LocksInv
<1>1. /\ pc[c] = "out" /\ TakesExclusive(c) /\ level[c] = 0 /\ c \notin resolved
      /\ exclusive' = Append(exclusive, c) /\ pc' = [pc EXCEPT ![c] = "exclusive"]
      /\ resolved' \in {resolved, resolved \cup {c}}
      /\ c \in resolved' => exclusive = <<>>
      /\ UNCHANGED <<concurrent, queue, shared, level>>
  BY DEF CallExclusive, CallerOK
<1>2. /\ exclusive' \in Seq(Callers) /\ Elements(exclusive') = Elements(exclusive) \cup {c}
      /\ Head(exclusive') = IF exclusive = <<>> THEN c ELSE Head(exclusive)
      /\ Distinct(exclusive')
  BY <1>1, AppendFacts DEF QueuesOK
<1>3. pc'[c] = "exclusive" /\ \A d \in Callers \ {c} : pc'[d] = pc[d] /\ (d \in resolved' <=> d \in resolved)
  BY <1>1
<1>4. \A d \in Callers : TakesExclusive(d)' <=> TakesExclusive(d)
  BY <1>1 DEF TakesExclusive
<1>5. pc' \in [Callers -> Pcs] /\ resolved' \subseteq Callers
  BY <1>1 DEF Pcs
<1>6. QueuesOK'
  BY <1>1, <1>2, <1>3, <1>4 DEF QueuesOK
<1>7. ASSUME NEW d \in Callers \ {c} PROVE CallerOK(d)'
  <2>1. \A j \in Levels : Passes(d, j)' => Passes(d, j)
    BY <1>1, <1>3 DEF Passes
  <2>2. TakesExclusive(d) /\ pc[d] # "out" => Head(exclusive') = Head(exclusive)
    BY <1>2, EmptyElements DEF QueuesOK
  <2>3. QED
    BY <1>1, <1>3, <1>4, <2>1, <2>2 DEF CallerOK, Concurrent
<1>8. CallerOK(c)'
  BY <1>1, <1>2, <1>3, <1>4 DEF CallerOK, Passes, Levels
<1>9. QED
  BY <1>1, <1>5, <1>6, <1>7, <1>8

\* getActionWriterSharedLock.
LEMMA CallSharedStep ==
  ASSUME LocksInv, NEW c \in Callers, CallShared(c)
  PROVE  LocksInv'
<1> USE DEF LocksInv
<1>1. /\ pc[c] = "out" /\ Concurrent(c) /\ level[c] = 0 /\ c \notin resolved
      /\ UNCHANGED <<concurrent, queue, exclusive, level, resolved>>
      /\ \/ pc' = [pc EXCEPT ![c] = "in"] /\ shared' = shared
         \/ pc' = [pc EXCEPT ![c] = "shared"] /\ shared' = Append(shared, c)
  BY DEF CallShared, CallerOK, Concurrent
<1>2. pc'[c] \in {"in", "shared"} /\ \A d \in Callers \ {c} : pc'[d] = pc[d]
  BY <1>1
<1>3. ~TakesExclusive(c) /\ \A d \in Callers : (TakesExclusive(d)' <=> TakesExclusive(d)) /\ (Concurrent(d)' <=> Concurrent(d))
  BY <1>1, RolesAssumption DEF TakesExclusive, Concurrent
<1>4. pc' \in [Callers -> Pcs]
  BY <1>1 DEF Pcs
<1>5. QueuesOK'
  <2>1. shared' \in Seq(Callers) /\ \A d \in Callers : d \in Elements(shared') => pc'[d] = "shared" /\ d \notin resolved'
    <3>1. c \notin Elements(shared) /\ shared \in Seq(Callers)
      BY <1>1 DEF QueuesOK
    <3>2. Append(shared, c) \in Seq(Callers) /\ Elements(Append(shared, c)) = Elements(shared) \cup {c}
      BY <3>1, AppendFacts
    <3>3. CASE pc' = [pc EXCEPT ![c] = "in"] /\ shared' = shared
      BY <1>1, <1>2, <3>1, <3>3 DEF QueuesOK
    <3>4. CASE pc' = [pc EXCEPT ![c] = "shared"] /\ shared' = Append(shared, c)
      <4>1. pc'[c] = "shared"
        BY <3>4
      <4>2. QED
        BY <1>1, <1>2, <3>1, <3>2, <3>4, <4>1 DEF QueuesOK
    <3>5. QED
      BY <1>1, <3>3, <3>4
  <2>2. QED
    BY <1>1, <1>2, <1>3, <2>1 DEF QueuesOK
<1>6. ASSUME NEW d \in Callers \ {c} PROVE CallerOK(d)'
  BY <1>1, <1>2, <1>3, <1>6 DEF CallerOK, Passes
<1>7. CallerOK(c)'
  BY <1>1, <1>2, <1>3 DEF CallerOK, Passes, Levels
<1>8. QED
  BY <1>1, <1>4, <1>5, <1>6, <1>7

\* A resolved caller goes on: it was at the head of its queue.
LEMMA ResumeStep ==
  ASSUME LocksInv, NEW c \in Callers, Resume(c)
  PROVE  LocksInv'
<1> USE DEF LocksInv
<1>1. c \in resolved /\ pc[c] \in {"exclusive", "queue", "shared"}
  BY DEF Resume, CallerOK, Pcs
<1>2. ASSUME pc[c] # "shared", level[c] < Depth(c)
      PROVE  LocksInv'
  <2>1. Join(c, level[c] + 1) /\ UNCHANGED <<concurrent, exclusive, shared, sharedCount>>
    BY <1>2 DEF Resume
  <2>2. level[c] + 1 \in Levels /\ level[c] = (level[c] + 1) - 1 /\ level[c] + 1 <= Depth(c) /\ Depth(c) \in Levels
    BY <1>2, DepthFacts DEF Levels
  <2>3. ~Concurrent(c)
    BY <1>1, <1>2, RolesAssumption DEF CallerOK, Concurrent, TakesExclusive
  <2>4. QED
    BY <1>1, <1>2, <2>1, <2>2, <2>3, JoinStep
<1>3. ASSUME pc[c] = "shared" \/ level[c] >= Depth(c)
      PROVE  LocksInv'
  <2>1. /\ pc' = [pc EXCEPT ![c] = "in"] /\ resolved' = resolved \ {c}
        /\ UNCHANGED <<concurrent, queue, exclusive, shared, level>>
    BY <1>1, <1>3, DepthFacts DEF Resume, Levels
  <2>2. pc'[c] = "in" /\ \A d \in Callers \ {c} : pc'[d] = pc[d] /\ (d \in resolved' <=> d \in resolved)
    BY <2>1
  <2>3. \A d \in Callers : (TakesExclusive(d)' <=> TakesExclusive(d)) /\ (Concurrent(d)' <=> Concurrent(d))
    BY <2>1 DEF TakesExclusive, Concurrent
  <2>4. pc' \in [Callers -> Pcs] /\ resolved' \subseteq Callers
    BY <2>1 DEF Pcs
  <2>5. c \notin Elements(shared)
    BY <1>1 DEF QueuesOK
  <2>6. QueuesOK'
    BY <1>1, <2>1, <2>2, <2>3, <2>5 DEF QueuesOK
  <2>7. ASSUME NEW d \in Callers \ {c} PROVE CallerOK(d)'
    BY <2>1, <2>2, <2>3 DEF CallerOK, Passes
  <2>8. CallerOK(c)'
    <3>1. level[c] = IF Concurrent(c) THEN 0 ELSE Depth(c)
      BY <1>1, <1>3, DepthFacts DEF CallerOK, Levels
    <3>2. \A j \in Levels : Passes(c, j)' => Passes(c, j)
      BY <1>1, <2>1, <2>2 DEF Passes
    <3>3. QED
      BY <1>1, <2>1, <2>2, <2>3, <3>1, <3>2 DEF CallerOK
  <2>9. QED
    BY <2>1, <2>4, <2>6, <2>7, <2>8
<1>4. QED
  BY <1>2, <1>3, DepthFacts DEF Levels

-----------------------------------------------------------------------------
(* Release.                                                                *)

\* While c is inside nobody else has passed a queue.
LEMMA OthersWait ==
  ASSUME LocksInv, NEW c \in Callers, pc[c] = "in", ~Concurrent(c), NEW d \in Callers \ {c}
  PROVE  (\A j \in Levels : ~Passes(d, j)) /\ level[d] <= 1
<1>1. 1 \in Levels /\ Depth(c) \in Levels /\ level[c] = Depth(c) /\ level[c] >= 1 /\ level[d] \in Nat
  BY DepthFacts DEF LocksInv, CallerOK, Levels
<1>2. Passes(c, 1) /\ Head(queue[1]) = c
  BY <1>1 DEF Passes, LocksInv, CallerOK
<1>3. ~Passes(d, 1)
  BY <1>1, <1>2 DEF LocksInv, CallerOK
<1>4. ASSUME NEW j \in Levels, Passes(d, j) PROVE FALSE
  BY <1>1, <1>3, <1>4 DEF Passes, Levels
<1>5. QED
  BY <1>1, <1>3, <1>4 DEF Passes

\* What releaseActiveLock shifts is the caller that leaves, and what it resolves
\* waits in the first queue.
LEMMA LeavingFacts ==
  ASSUME LocksInv, NEW c \in Callers, pc[c] = "in", ~Concurrent(c)
  PROVE  /\ Leaving(c) \in [Levels -> Seq(Callers)]
         /\ \A i \in Levels : /\ Distinct(Leaving(c)[i])
                              /\ Elements(Leaving(c)[i]) = Elements(queue[i]) \ {c}
         /\ \A d \in WokenBy(c) : /\ d \in Callers \ {c} /\ d \notin resolved
                                  /\ level[d] = 1 /\ pc[d] = "queue" /\ Head(Leaving(c)[1]) = d
<1> USE DEF LocksInv
<1>1. level[c] = Depth(c) /\ Depth(c) \in Levels /\ level[c] \in 1..4
  BY DepthFacts DEF CallerOK, Levels
<1>2. ASSUME NEW i \in Levels
      PROVE  /\ Leaving(c)[i] \in Seq(Callers) /\ Distinct(Leaving(c)[i])
             /\ Elements(Leaving(c)[i]) = Elements(queue[i]) \ {c}
  <2>1. queue[i] \in Seq(Callers) /\ Distinct(queue[i]) /\ (c \in Elements(queue[i]) <=> level[c] >= i)
    BY DEF QueuesOK
  <2>2. CASE i <= level[c]
    <3>1. Head(queue[i]) = c
      BY <1>1, <2>2 DEF CallerOK, Passes, Levels
    <3>2. queue[i] # <<>>
      BY <1>1, <2>1, <2>2, EmptyElements DEF Levels
    <3>3. QED
      BY <2>1, <2>2, <3>1, <3>2, TailFacts DEF Leaving
  <2>3. CASE ~(i <= level[c])
    BY <1>1, <2>1, <2>3 DEF Leaving, Levels
  <2>4. QED
    BY <2>2, <2>3
<1>3. Leaving(c) \in [Levels -> Seq(Callers)]
  BY <1>2 DEF Leaving
<1>4. ASSUME NEW d \in WokenBy(c)
      PROVE  /\ d \in Callers \ {c} /\ d \notin resolved
             /\ level[d] = 1 /\ pc[d] = "queue" /\ Head(Leaving(c)[1]) = d
  <2>1. PICK j \in Levels : Leaving(c)[j] # <<>> /\ d = Head(Leaving(c)[j])
    BY DEF WokenBy, AtFront
  <2>2. d \in Elements(queue[j]) \ {c} /\ d \in Callers
    BY <1>2, <2>1, HeadFacts
  <2>3. level[d] >= j
    BY <2>2 DEF QueuesOK
  <2>4. /\ \A i \in Levels : ~Passes(d, i)
        /\ level[d] <= 1
    BY <2>2, OthersWait
  <2>5. j = 1 /\ level[d] = 1
    BY <2>3, <2>4, <2>2 DEF Levels
  <2>6. pc[d] # "in" /\ d \notin resolved
    BY <2>4, <2>5 DEF Passes, Levels
  <2>7. pc[d] = "queue"
    BY <2>2, <2>5, <2>6 DEF CallerOK, Pcs
  <2>8. QED
    BY <2>1, <2>2, <2>5, <2>6, <2>7
<1>5. QED
  BY <1>2, <1>3, <1>4

\* A caller that took the queues leaves; the action lock wakes some others.
LEMMA LeaveQueuesStep ==
  ASSUME LocksInv, NEW c \in Callers, pc[c] = "in", ~Concurrent(c), Gone(c), NEW roused \in SUBSET Callers,
         queue' = Leaving(c), concurrent' = concurrent,
         resolved' = resolved \cup WokenBy(c) \cup roused,
         exclusive' = IF TakesExclusive(c) THEN Tail(exclusive) ELSE exclusive,
         shared' \in {shared, <<>>},
         \A d \in roused : /\ d # c /\ pc[d] \in {"exclusive", "shared"} /\ d \notin Elements(shared')
                           /\ TakesExclusive(d) => Head(exclusive') = d
  PROVE  LocksInv'
<1> USE DEF LocksInv
<1>1. pc'[c] = "out" /\ level'[c] = 0 /\ \A d \in Callers \ {c} : pc'[d] = pc[d] /\ level'[d] = level[d]
  BY DEF Gone
<1>2. /\ Leaving(c) \in [Levels -> Seq(Callers)]
      /\ \A i \in Levels : /\ Distinct(Leaving(c)[i])
                           /\ Elements(Leaving(c)[i]) = Elements(queue[i]) \ {c}
      /\ \A d \in WokenBy(c) : /\ d \in Callers \ {c} /\ d \notin resolved
                               /\ level[d] = 1 /\ pc[d] = "queue" /\ Head(Leaving(c)[1]) = d
  BY LeavingFacts
<1>3. \A d \in Callers : (TakesExclusive(d)' <=> TakesExclusive(d)) /\ (Concurrent(d)' <=> Concurrent(d))
  BY DEF TakesExclusive, Concurrent
<1>4. c \notin resolved /\ c \notin resolved'
  BY <1>2 DEF CallerOK
<1>5. /\ concurrent' \in BOOLEAN /\ pc' \in [Callers -> Pcs] /\ level' \in [Callers -> 0..4]
      /\ resolved' \subseteq Callers
  BY <1>2 DEF Gone, Pcs
<1>6. ASSUME TakesExclusive(c)
      PROVE  /\ Head(exclusive) = c /\ c \in Elements(exclusive) /\ exclusive # <<>>
             /\ Tail(exclusive) \in Seq(Callers) /\ Distinct(Tail(exclusive))
             /\ Elements(Tail(exclusive)) = Elements(exclusive) \ {c}
  <2>1. Head(exclusive) = c /\ c \in Elements(exclusive)
    BY <1>6 DEF CallerOK, QueuesOK
  <2>2. QED
    BY <2>1, EmptyElements, TailFacts DEF QueuesOK
<1>7. /\ exclusive' \in Seq(Callers) /\ Distinct(exclusive')
      /\ Elements(exclusive') = Elements(exclusive) \ {c}
  BY <1>6 DEF QueuesOK
<1>8. QueuesOK'
  <2>1. ASSUME NEW j \in Levels
        PROVE  Distinct(queue'[j]) /\ \A d \in Callers : d \in Elements(queue'[j]) <=> level'[d] >= j
    <3>1. \A d \in Callers : d \in Elements(queue[j]) <=> level[d] >= j
      BY DEF QueuesOK
    <3>2. ~(0 >= j)
      BY DEF Levels
    <3>3. QED
      BY <1>1, <1>2, <3>1, <3>2
  <2>2. \A d \in Callers : d \in Elements(exclusive') <=> TakesExclusive(d)' /\ pc'[d] # "out"
    BY <1>1, <1>3, <1>7 DEF QueuesOK
  <2>3. shared' \in Seq(Callers) /\ Elements(shared') \subseteq Elements(shared)
    BY EmptySeq, EmptyElements DEF QueuesOK
  <2>4. \A d \in Callers : d \in Elements(shared') => pc'[d] = "shared" /\ d \notin resolved'
    BY <1>1, <1>2, <2>3 DEF QueuesOK
  <2>5. QED
    BY <1>2, <1>7, <2>1, <2>2, <2>3, <2>4 DEF QueuesOK
<1>9. ASSUME NEW d \in Callers \ {c} PROVE CallerOK(d)'
  <2>1. (\A j \in Levels : ~Passes(d, j)) /\ level[d] <= 1
    BY OthersWait
  <2>2. ASSUME NEW j \in Levels, Passes(d, j)' PROVE Head(queue'[j]) = d
    <3>1. level[d] = j /\ d \in resolved' /\ d \notin resolved /\ pc[d] # "in"
      BY <1>1, <2>1, <2>2 DEF Passes
    <3>2. j = 1
      BY <2>1, <3>1 DEF Levels
    <3>3. d \notin roused
      BY <3>1, <3>2 DEF CallerOK
    <3>4. QED
      BY <1>2, <3>1, <3>2, <3>3
  <2>3. d \in resolved' => pc[d] \in {"exclusive", "queue", "shared"}
    BY <1>2 DEF CallerOK, Pcs
  <2>4. ASSUME TakesExclusive(d), pc[d] \in {"queue", "in"} \/ d \in resolved'
        PROVE  Head(exclusive') = d
    <3>1. CASE d \in roused
      BY <2>4, <3>1
    <3>2. CASE d \notin roused
      <4>1. Head(exclusive) = d
        BY <1>2, <2>4, <3>2 DEF CallerOK
      <4>2. ~TakesExclusive(c)
        BY <1>6, <4>1
      <4>3. QED
        BY <4>1, <4>2
    <3>3. QED
      BY <3>1, <3>2
  <2>5. QED
    BY <1>1, <1>3, <2>2, <2>3, <2>4 DEF CallerOK
<1>10. CallerOK(c)'
  BY <1>1, <1>4 DEF CallerOK, Passes, Levels
<1>11. QED
  BY <1>5, <1>8, <1>9, <1>10

\* releaseActiveForReader, ...ForSync and ...ForStorageProvider.
LEMMA LeaveStep ==
  ASSUME LocksInv, NEW c \in Callers, Leave(c)
  PROVE  LocksInv'
<1>1. ~Concurrent(c) /\ ~TakesExclusive(c)
  BY RolesAssumption DEF Leave, Concurrent, TakesExclusive
<1>2. /\ pc[c] = "in" /\ Gone(c) /\ queue' = Leaving(c) /\ UNCHANGED <<concurrent, exclusive, shared>>
      /\ resolved' = resolved \cup WokenBy(c) \cup {}
  BY DEF Leave
<1>3. QED
  BY <1>1, <1>2, LeaveQueuesStep

\* releaseActiveForWriter and releaseActionWriterExclusiveLock.
LEMMA LeaveExclusiveStep ==
  ASSUME LocksInv, NEW c \in Callers, LeaveExclusive(c)
  PROVE  LocksInv'
<1> USE DEF LocksInv
<1> DEFINE left == Tail(exclusive)
<1>1. /\ pc[c] = "in" /\ TakesExclusive(c) /\ Gone(c) /\ queue' = Leaving(c) /\ exclusive' = left
      /\ concurrent' = concurrent
  BY DEF LeaveExclusive
<1>2. ~Concurrent(c)
  BY <1>1, RolesAssumption DEF Concurrent, TakesExclusive
<1>3. Head(exclusive) = c /\ c \in Elements(exclusive)
  BY <1>1 DEF CallerOK, QueuesOK
<1>4. left \in Seq(Callers) /\ Elements(left) = Elements(exclusive) \ {c}
  BY <1>3, EmptyElements, TailFacts DEF QueuesOK
<1>5. CASE left # <<>>
  <2> DEFINE roused == IF sharedCount = 0 THEN AtFront(left) ELSE {}
  <2>1. resolved' = resolved \cup WokenBy(c) \cup roused /\ shared' = shared
    BY <1>5 DEF LeaveExclusive
  <2>2. ASSUME NEW d \in roused
        PROVE  d \in Callers /\ d # c /\ pc[d] = "exclusive" /\ Head(left) = d /\ d \notin Elements(shared)
    <3>0. d = Head(left)
      BY <1>5 DEF AtFront
    <3>1. Head(left) = d /\ d \in Elements(left) /\ d \in Callers
      BY <1>4, <1>5, <3>0, HeadFacts
    <3>2. TakesExclusive(d) /\ pc[d] # "out" /\ d # c
      BY <1>4, <3>1 DEF QueuesOK
    <3>3. pc[d] \notin {"queue", "in"}
      BY <1>3, <3>1, <3>2 DEF CallerOK
    <3>4. pc[d] # "shared"
      BY <3>1, <3>2, RolesAssumption DEF CallerOK, Concurrent, TakesExclusive
    <3>5. QED
      BY <3>1, <3>2, <3>3, <3>4 DEF Pcs, QueuesOK
  <2> HIDE DEF roused, left
  <2>3. roused \in SUBSET Callers
    BY <2>2
  <2>4. exclusive' = IF TakesExclusive(c) THEN Tail(exclusive) ELSE exclusive
    BY <1>1 DEF left
  <2>5. QED
    BY <1>1, <1>2, <2>1, <2>2, <2>3, <2>4, LeaveQueuesStep
<1>6. CASE left = <<>>
  <2>1. resolved' = resolved \cup WokenBy(c) \cup Elements(shared) /\ shared' = <<>>
    BY <1>6 DEF LeaveExclusive
  <2>2. ASSUME NEW d \in Elements(shared)
        PROVE  d \in Callers /\ d # c /\ pc[d] = "shared" /\ ~TakesExclusive(d)
    <3>1. d \in Callers /\ pc[d] = "shared"
      BY ElementsIn DEF QueuesOK
    <3>2. QED
      BY <1>1, <3>1, RolesAssumption DEF CallerOK, Concurrent, TakesExclusive
  <2>3. Elements(shared) \in SUBSET Callers /\ Elements(shared') = {}
    BY <2>1, <2>2, EmptyElements
  <2>4. exclusive' = IF TakesExclusive(c) THEN Tail(exclusive) ELSE exclusive
    BY <1>1
  <2> HIDE DEF left
  <2>5. QED
    BY <1>1, <1>2, <2>1, <2>2, <2>3, <2>4, LeaveQueuesStep
<1>7. QED
  BY <1>5, <1>6

\* releaseActionWriterSharedLock.
LEMMA LeaveSharedStep ==
  ASSUME LocksInv, NEW c \in Callers, LeaveShared(c)
  PROVE  LocksInv'
<1> USE DEF LocksInv
<1>1. /\ pc[c] = "in" /\ Concurrent(c) /\ Gone(c) /\ level[c] = 0 /\ c \notin resolved
      /\ UNCHANGED <<concurrent, queue, exclusive, shared>>
  BY DEF LeaveShared, Concurrent, CallerOK
<1>2. /\ pc'[c] = "out" /\ level'[c] = 0 /\ pc' \in [Callers -> Pcs] /\ level' \in [Callers -> 0..4]
      /\ \A d \in Callers \ {c} : pc'[d] = pc[d]
      /\ \A d \in Callers : level'[d] = level[d]
  BY <1>1 DEF Gone, Pcs
<1>3. ~TakesExclusive(c) /\ \A d \in Callers : (TakesExclusive(d)' <=> TakesExclusive(d)) /\ (Concurrent(d)' <=> Concurrent(d))
  BY <1>1, RolesAssumption DEF TakesExclusive, Concurrent
<1>4. /\ resolved \subseteq resolved' /\ resolved' \subseteq Callers
      /\ \A d \in resolved' \ resolved : pc[d] = "exclusive" /\ Head(exclusive) = d
  <2>1. \A d \in AtFront(exclusive) : Head(exclusive) = d /\ d \in Callers
    BY HeadFacts DEF AtFront, QueuesOK
  <2>2. QED
    BY <2>1 DEF LeaveShared
<1>5. QueuesOK'
  BY <1>1, <1>2, <1>3, <1>4 DEF QueuesOK
<1>6. ASSUME NEW d \in Callers \ {c} PROVE CallerOK(d)'
  <2>1. \A j \in Levels : Passes(d, j)' => Passes(d, j)
    BY <1>1, <1>2, <1>4 DEF Passes, CallerOK, Levels
  <2>2. QED
    BY <1>1, <1>2, <1>3, <1>4, <2>1 DEF CallerOK
<1>7. CallerOK(c)'
  BY <1>1, <1>2, <1>4 DEF CallerOK, Passes, Levels
<1>8. QED
  BY <1>1, <1>2, <1>4, <1>5, <1>6, <1>7

-----------------------------------------------------------------------------
(* The specification.                                                      *)

LEMMA InitLocksInv == Init => LocksInv
<1> SUFFICES ASSUME Init PROVE LocksInv
  OBVIOUS
<1> USE DEF Init
<1>1. QueuesOK
  BY EmptySeq, EmptyElements DEF QueuesOK, Levels
<1>2. \A c \in Callers : CallerOK(c)
  BY DEF CallerOK, Passes, Levels
<1>3. QED
  BY <1>1, <1>2 DEF LocksInv, Pcs

LEMMA NextLocksInv == LocksInv /\ [Next]_vars => LocksInv'
<1> SUFFICES ASSUME LocksInv, [Next]_vars PROVE LocksInv'
  OBVIOUS
<1>1. CASE UNCHANGED vars
  <2>1. QueuesOK' /\ \A c \in Callers : CallerOK(c)'
    BY <1>1 DEF vars, LocksInv, QueuesOK, CallerOK, Passes, TakesExclusive, Concurrent
  <2>2. QED
    BY <1>1, <2>1 DEF vars, LocksInv
<1>2. ASSUME NEW c \in Callers, Ask(c) PROVE LocksInv'
  BY <1>2, CallStep, CallExclusiveStep, CallSharedStep DEF Ask
<1>3. ASSUME NEW c \in Callers, Exit(c) PROVE LocksInv'
  BY <1>3, LeaveStep, LeaveExclusiveStep, LeaveSharedStep DEF Exit
<1>4. QED
  BY <1>1, <1>2, <1>3, ResumeStep DEF Next

LEMMA LocksInvariance == FairSpec => []LocksInv
BY InitLocksInv, NextLocksInv, PTL DEF FairSpec

\* Whoever is inside, without being a concurrent action, is at the head of the
\* first queue.
LEMMA OneInside ==
  ASSUME LocksInv, NEW c \in Callers, NEW d \in Callers,
         pc[c] = "in", pc[d] = "in", ~Concurrent(c), ~Concurrent(d)
  PROVE  c = d
<1>1. \A e \in {c, d} : level[e] = Depth(e) /\ Depth(e) \in Levels
  BY DepthFacts DEF LocksInv, CallerOK
<1>2. \A e \in {c, d} : Passes(e, 1)
  BY <1>1 DEF Passes, Levels
<1>3. QED
  BY <1>2 DEF LocksInv, CallerOK, Levels

\* runAsReader, runAsWriter, runAsSync and runAsStorageProvider: one caller at a
\* time is inside, and releaseActiveLock, which shifts the head of each queue
\* without looking at it, gives back that caller's own places.
THEOREM QueuesAreHeld == FairSpec => []QueueHolder
<1>1. LocksInv => QueueHolder
  <2> SUFFICES ASSUME LocksInv PROVE QueueHolder
    OBVIOUS
  <2> DEFINE I == Inside({c \in Callers : ~(concurrent /\ c \in Actions)})
  <2>1. \A c, d \in I : c = d
    BY OneInside DEF Inside, Concurrent
  <2>2. Cardinality(I) <= 1
    <3>1. CASE I = {}
      BY <3>1, FS_EmptySet
    <3>2. CASE I # {}
      <4>1. PICK c \in I : TRUE
        BY <3>2
      <4>2. I = {c}
        BY <2>1, <4>1
      <4>3. QED
        BY <4>2, FS_Singleton
    <3>3. QED
      BY <3>1, <3>2
  <2>3. ASSUME NEW c \in Callers, pc[c] = "in", NEW i \in 1..level[c] PROVE Head(queue[i]) = c
    <3>1. level[c] \in 0..4
      BY DEF LocksInv
    <3>2. i \in Levels /\ Passes(c, i)
      BY <2>3, <3>1 DEF Levels, Passes
    <3>3. QED
      BY <3>2 DEF LocksInv, CallerOK
  <2>4. ASSUME NEW c \in Writers, pc[c] = "in" PROVE Head(exclusive) = c
    <3>1. c \in Callers /\ TakesExclusive(c)
      BY DEF Callers, TakesExclusive
    <3>2. QED
      BY <2>4, <3>1 DEF LocksInv, CallerOK
  <2>5. QED
    BY <2>2, <2>3, <2>4 DEF QueueHolder
<1>2. QED
  BY <1>1, LocksInvariance, PTL

-----------------------------------------------------------------------------
(* The manager without a concurrent store implements SingleAccess.         *)

asking == {c \in Callers : ~concurrent /\ pc[c] \notin {"out", "in"}}
within == {c \in Inside(Callers) : ~concurrent}

\* A step that moves no caller, or moves one on its way, is not seen.
LEMMA AbstractStep ==
  ASSUME LocksInv, [Next]_vars
  PROVE  [SA!Next]_<<asking, within>>
<1> USE DEF asking, within, Inside
<1> SUFFICES ASSUME ~concurrent, asking' # asking \/ within' # within
             PROVE  SA!Next
  <2>1. concurrent' = concurrent /\ concurrent \in BOOLEAN
    BY DEF Next, vars, Ask, Exit, Call, CallExclusive, CallShared, Resume, Leave, LeaveExclusive, LeaveShared, LocksInv
  <2>2. CASE concurrent
    BY <2>1, <2>2
  <2>3. QED
    BY <2>2
<1>1. concurrent' = concurrent
  BY DEF Next, vars, Ask, Exit, Call, CallExclusive, CallShared, Resume, Leave, LeaveExclusive, LeaveShared
<1>2. PICK c \in Callers : Ask(c) \/ Resume(c) \/ Exit(c)
  BY DEF Next, vars
<1>3. PICK p \in Pcs : pc' = [pc EXCEPT ![c] = p]
  BY <1>2 DEF Ask, Exit, Call, CallExclusive, CallShared, Resume, Join, Gone, Leave, LeaveExclusive,
              LeaveShared, Pcs
<1>4. pc'[c] = p /\ pc[c] \in Pcs /\ \A d \in Callers \ {c} : pc'[d] = pc[d]
  BY <1>3 DEF LocksInv
<1>5. CASE Ask(c)
  <2>1. pc[c] = "out" /\ p \in {"queue", "exclusive"}
    BY <1>3, <1>4, <1>5 DEF Ask, Call, CallExclusive, CallShared, Join
  <2>2. SA!Ask(c)
    BY <1>1, <1>4, <2>1 DEF SA!Ask
  <2>3. QED
    BY <2>2 DEF SA!Next
<1>6. CASE Resume(c)
  <2>1. pc[c] \in {"exclusive", "queue", "shared"} /\ p \in {"queue", "in"}
    BY <1>3, <1>4, <1>6 DEF Resume, Join, LocksInv, CallerOK, Pcs
  <2>2. CASE p = "in"
    <3>1. ASSUME NEW d \in within PROVE FALSE
      <4>1. LocksInv'
        BY <1>6, ResumeStep
      <4>2. d \in Callers /\ d # c /\ pc'[d] = "in" /\ pc'[c] = "in"
        BY <1>4, <2>1, <2>2
      <4>3. level'[c] = Depth(c) /\ level'[d] = Depth(d) /\ Depth(c) \in Levels /\ Depth(d) \in Levels
        BY <1>1, <4>1, <4>2, DepthFacts DEF LocksInv, CallerOK, Concurrent
      <4>4. Passes(c, 1)' /\ Passes(d, 1)'
        BY <4>2, <4>3 DEF Passes, Levels
      <4>5. QED
        BY <4>1, <4>2, <4>4 DEF LocksInv, CallerOK, Levels
    <3>2. SA!Enter(c)
      BY <1>1, <1>4, <2>1, <2>2, <3>1 DEF SA!Enter
    <3>3. QED
      BY <3>2 DEF SA!Next
  <2>3. CASE p = "queue"
    BY <1>1, <1>4, <2>1, <2>3
  <2>4. QED
    BY <2>1, <2>2, <2>3
<1>7. CASE Exit(c)
  <2>1. pc[c] = "in" /\ p = "out"
    BY <1>3, <1>4, <1>7 DEF Exit, Leave, LeaveExclusive, LeaveShared, Gone
  <2>2. SA!Exit(c)
    BY <1>1, <1>4, <2>1 DEF SA!Exit
  <2>3. QED
    BY <2>2 DEF SA!Next
<1>8. QED
  BY <1>2, <1>5, <1>6, <1>7

\* Without a concurrent store every runAs... call of WalletStorageManager has the
\* storage to itself: each step of the locks is a caller that asks, is let in
\* when nobody is inside, or leaves, or is not seen (the safety of Serialised).
THEOREM LocksImplementSingleAccess ==
  FairSpec => SA!Init /\ [][SA!Next]_<<asking, within>>
<1>1. Init => SA!Init
  BY DEF Init, SA!Init, Inside
<1>2. LocksInv /\ [Next]_vars => [SA!Next]_<<asking, within>>
  BY AbstractStep
<1>3. QED
  BY <1>1, <1>2, LocksInvariance, PTL DEF FairSpec

-----------------------------------------------------------------------------
(* Chaintracks: its clients and main threads.                              *)

ClientPlaces == {"idle", "startWaits", "starting", "polling", "started", "throwing", "ask", "readWaits",
                 "reading", "destroyWaits", "destroying", "joining", "destroyed"}
ThreadPlaces == {"unborn", "ended", "loop", "queue", "wantSync", "syncWaits", "syncing", "insertWaits",
                 "inserting"}

PlacesOK ==
  /\ at \in [Clients -> ClientPlaces]
  /\ thread \in [Threads -> ThreadPlaces]
  /\ failures \in Nat /\ destroys \in Nat

\* The service is starting: the client that has the write lock waits for the main
\* thread it started, and the others for the lock.
StartingOK ==
  /\ readers = 0 /\ woken = {}
  /\ \A c \in Clients : at[c] \in {"idle", "startWaits", "starting", "polling"}
  /\ \A c \in Clients : at[c] \in {"starting", "polling"} => writerActive
  /\ \A c, d \in Clients : at[c] \in {"starting", "polling"} /\ at[d] \in {"starting", "polling"} => c = d
  /\ Started # {} => \E c \in Clients : at[c] = "polling"
  /\ \A t \in Threads : thread[t] \in {"unborn", "ended", "loop", "queue"}

ServiceOK ==
  /\ ~startupError
  /\ \A c \in Clients : at[c] \notin {"throwing", "destroyWaits", "destroying", "joining", "destroyed"}
  /\ \A t, u \in Started : t = u
  /\ ~available => StartingOK

\* The inductive invariant.
CtInv == PlacesOK /\ (failures + destroys = 0 => ServiceOK)

-----------------------------------------------------------------------------
\* A step before any failure and any call of destroy.
LEMMA ClientKeepsService ==
  ASSUME CtInv, ServiceOK, failures + destroys = 0, failures' + destroys' = 0,
         NEW c \in Clients, Query(c) \/ Destroy(c) \/ ClientStep(c)
  PROVE  PlacesOK' /\ ServiceOK'
<1> USE DEF CtInv, PlacesOK, ServiceOK
<1>1. CASE Query(c)
  <2>1. thread' = thread /\ available' = available /\ startupError' = startupError
        /\ failures' = failures /\ destroys' = destroys
    BY <1>1 DEF Query, stateVars, bounds
  <2>2. CASE available
    <3>1. at' = [at EXCEPT ![c] = "ask"]
      BY <1>1, <2>2 DEF Query, Go
    <3>2. QED
      BY <2>1, <2>2, <3>1 DEF Started, ClientPlaces
  <2>3. CASE ~available
    <3>1. AskWrite(c, at, "starting", "startWaits")
      BY <1>1, <2>3 DEF Query
    <3>2. CASE WriteFree
      <4>1. at' = [at EXCEPT ![c] = "starting"] /\ writerActive' = TRUE /\ readers' = readers /\ woken' = woken
        BY <3>1, <3>2 DEF AskWrite, TakeWrite
      <4>2. \A d \in Clients : at[d] \notin {"starting", "polling"}
        BY <2>3, <3>2 DEF WriteFree, StartingOK
      <4>3. Started = {}
        BY <2>3, <4>2 DEF StartingOK
      <4>4. QED
        BY <2>1, <2>3, <4>1, <4>2, <4>3 DEF Started, ClientPlaces, StartingOK
    <3>3. CASE ~WriteFree
      <4>1. at' = [at EXCEPT ![c] = "startWaits"] /\ UNCHANGED <<readers, writerActive, woken>>
        BY <3>1, <3>3 DEF AskWrite, QueueWrite
      <4>2. at[c] = "idle"
        BY <1>1 DEF Query
      <4>3. QED
        BY <2>1, <2>3, <4>1, <4>2 DEF Started, ClientPlaces, StartingOK
    <3>4. QED
      BY <3>2, <3>3
  <2>4. QED
    BY <2>2, <2>3
<1>2. CASE Destroy(c)
  BY <1>2 DEF Destroy
<1>3. CASE Start(c)
  <2>1. at[c] = "starting" /\ UNCHANGED <<readers, writerActive, woken, available, startupError, failures, destroys>>
    BY <1>3 DEF Start, lockVars, bounds
  <2>2. CASE available
    <3>1. at' = [at EXCEPT ![c] = "started"] /\ thread' = thread
      BY <1>3, <2>2 DEF Start, Go
    <3>2. QED
      BY <2>1, <2>2, <3>1 DEF Started, ClientPlaces
  <2>3. CASE ~available
    <3>1. PICK t \in Threads : /\ thread[t] = "unborn" /\ thread' = [thread EXCEPT ![t] = "loop"]
                               /\ at' = [at EXCEPT ![c] = "polling"]
      BY <1>3, <2>3 DEF Start, Go
    <3>2. \A d \in Clients : at[d] # "polling"
      BY <2>1, <2>3 DEF StartingOK
    <3>3. Started = {}
      BY <2>3, <3>2 DEF StartingOK
    <3>4. Started' = {t}
      BY <3>1, <3>3 DEF Started
    <3>5. QED
      BY <2>1, <2>3, <3>1, <3>2, <3>4 DEF ClientPlaces, ThreadPlaces, StartingOK
  <2>4. QED
    BY <2>2, <2>3
<1>4. CASE Poll(c)
  <2>1. available /\ at' = [at EXCEPT ![c] = "started"]
        /\ UNCHANGED <<thread, available, startupError, failures, destroys>>
    BY <1>4 DEF Poll, Go, stateVars, bounds
  <2>2. QED
    BY <2>1 DEF Started, ClientPlaces
<1>5. CASE StartResumes(c) \/ StartEnds(c) \/ EnterRead(c) \/ ReadResumes(c) \/ ReadEnds(c)
  <2>1. available
    BY <1>5 DEF StartResumes, StartEnds, EnterRead, ReadResumes, ReadEnds, Resumes, StartingOK
  <2>2. UNCHANGED <<thread, available, startupError, failures, destroys>>
    BY <1>5 DEF StartResumes, StartEnds, EnterRead, ReadResumes, ReadEnds, stateVars, bounds
  <2>3. PICK p \in {"starting", "ask", "reading", "readWaits", "idle"} : at' = [at EXCEPT ![c] = p]
    BY <1>5 DEF StartResumes, StartEnds, EnterRead, ReadResumes, ReadEnds, AskRead, Resumes, Go
  <2>4. QED
    BY <2>1, <2>2, <2>3 DEF Started, ClientPlaces
<1>6. CASE DestroyResumes(c) \/ DestroyStops(c) \/ DestroyJoins(c) \/ DestroyEnds(c)
  BY <1>6 DEF DestroyResumes, DestroyStops, DestroyJoins, DestroyEnds, Resumes
<1>7. QED
  BY <1>1, <1>2, <1>3, <1>4, <1>5, <1>6 DEF ClientStep

LEMMA ThreadKeepsService ==
  ASSUME CtInv, ServiceOK, failures + destroys = 0, failures' + destroys' = 0, NEW t \in Threads, ThreadStep(t)
  PROVE  PlacesOK' /\ ServiceOK'
<1> USE DEF CtInv, PlacesOK, ServiceOK
<1>1. at' = at /\ destroys' = destroys /\ t \in Started
  BY DEF ThreadStep, Loop, WantSync, SyncResumes, SyncEnds, Queue, InsertResumes, InsertEnds, Started, Resumes,
         bounds
<1>2. PICK p \in ThreadPlaces \ {"unborn"} : thread' = [thread EXCEPT ![t] = p]
  BY DEF ThreadStep, Loop, WantSync, SyncResumes, SyncEnds, Queue, InsertResumes, InsertEnds, Resumes,
         AskWrite, Step, ThreadPlaces
<1>3. Started' \subseteq Started
  BY <1>1, <1>2 DEF Started
<1>4. failures' = failures /\ startupError' = startupError
  BY DEF ThreadStep, Loop, WantSync, SyncResumes, SyncEnds, Queue, InsertResumes, InsertEnds, bounds, stateVars
<1>5. CASE available
  <2>1. available'
    BY <1>5 DEF ThreadStep, Loop, WantSync, SyncResumes, SyncEnds, Queue, InsertResumes, InsertEnds, stateVars
  <2>2. QED
    BY <1>1, <1>2, <1>3, <1>4, <2>1
<1>6. CASE ~available
  <2>1. Loop(t) \/ Queue(t)
    BY <1>6 DEF ThreadStep, WantSync, SyncResumes, SyncEnds, InsertResumes, InsertEnds, Resumes, StartingOK
  <2>2. available' \/ (p \in {"loop", "queue", "ended"} /\ UNCHANGED <<readers, writerActive, woken>>)
    BY <1>2, <1>6, <2>1, <1>4 DEF Loop, Queue, Step, lockVars, StartingOK
  <2>3. QED
    BY <1>1, <1>2, <1>3, <1>4, <1>6, <2>2 DEF StartingOK
<1>7. QED
  BY <1>5, <1>6

LEMMA KeepsPlaces ==
  ASSUME PlacesOK, CtNext
  PROVE  PlacesOK' /\ (failures' + destroys' = 0 => failures + destroys = 0)
<1> USE DEF PlacesOK
<1>1. CASE \E c \in Clients : Query(c) \/ Destroy(c) \/ ClientStep(c)
  <2> PICK c \in Clients : Query(c) \/ Destroy(c) \/ ClientStep(c)
    BY <1>1
  <2>1. at' \in [Clients -> ClientPlaces]
    BY DEF Query, Destroy, ClientStep, StartResumes, Start, Poll, StartEnds, EnterRead, ReadResumes, ReadEnds,
           DestroyResumes, DestroyStops, DestroyJoins, DestroyEnds, Go, AskRead, AskWrite, Resumes, ClientPlaces
  <2>2. thread' \in [Threads -> ThreadPlaces]
    BY DEF Query, Destroy, ClientStep, StartResumes, Start, Poll, StartEnds, EnterRead, ReadResumes, ReadEnds,
           DestroyResumes, DestroyStops, DestroyJoins, DestroyEnds, ThreadPlaces
  <2>3. failures' = failures /\ (destroys' = destroys \/ destroys' = destroys + 1)
    BY DEF Query, Destroy, ClientStep, StartResumes, Start, Poll, StartEnds, EnterRead, ReadResumes, ReadEnds,
           DestroyResumes, DestroyStops, DestroyJoins, DestroyEnds, bounds
  <2>4. failures' \in Nat /\ destroys' \in Nat /\ (failures' + destroys' = 0 => failures + destroys = 0)
    BY <2>3
  <2>5. QED
    BY <2>1, <2>2, <2>4
<1>2. CASE \E t \in Threads : ThreadStep(t)
  <2> PICK t \in Threads : ThreadStep(t)
    BY <1>2
  <2>1. thread' \in [Threads -> ThreadPlaces] /\ at' = at
    BY DEF ThreadStep, Loop, WantSync, SyncResumes, SyncEnds, Queue, InsertResumes, InsertEnds, Resumes,
           AskWrite, Step, ThreadPlaces
  <2>2. destroys' = destroys /\ (failures' = failures \/ failures' = failures + 1)
    BY DEF ThreadStep, Loop, WantSync, SyncResumes, SyncEnds, Queue, InsertResumes, InsertEnds, bounds
  <2>3. failures' \in Nat /\ destroys' \in Nat /\ (failures' + destroys' = 0 => failures + destroys = 0)
    BY <2>2
  <2>4. QED
    BY <2>1, <2>3
<1>3. CASE Arrive
  BY <1>3 DEF Arrive
<1>4. QED
  BY <1>1, <1>2, <1>3 DEF CtNext

LEMMA InitCtInv == CtInit => CtInv
BY DEF CtInit, CtInv, PlacesOK, ServiceOK, StartingOK, Started, ClientPlaces, ThreadPlaces

LEMMA NextCtInv == CtInv /\ [CtNext]_ctVars => CtInv'
<1> SUFFICES ASSUME CtInv, [CtNext]_ctVars PROVE CtInv'
  OBVIOUS
<1>1. CASE CtNext
  <2>1. PlacesOK' /\ (failures' + destroys' = 0 => failures + destroys = 0)
    BY <1>1, KeepsPlaces DEF CtInv
  <2>2. ASSUME failures' + destroys' = 0 PROVE ServiceOK'
    <3>1. ServiceOK /\ failures + destroys = 0
      BY <2>1, <2>2 DEF CtInv
    <3>2. CASE Arrive
      BY <3>1, <3>2 DEF Arrive, ServiceOK, StartingOK, Started, lockVars, stateVars
    <3>3. QED
      BY <1>1, <2>2, <3>1, <3>2, ClientKeepsService, ThreadKeepsService DEF CtNext
  <2>3. QED
    BY <2>1, <2>2 DEF CtInv
<1>2. CASE UNCHANGED ctVars
  BY <1>2 DEF ctVars, lockVars, stateVars, bounds, CtInv, PlacesOK, ServiceOK, StartingOK, Started
<1>3. QED
  BY <1>1, <1>2

\* makeAvailable: the first caller starts the main thread under the write lock and
\* keeps it until the service is available, and whoever comes later starts none.
THEOREM OneThreadStarts == CtSpec => []OneMainThread
<1>1. CtInv => OneMainThread
  <2> SUFFICES ASSUME CtInv, failures + destroys = 0 PROVE Cardinality(Started) <= 1
    BY DEF OneMainThread
  <2>1. \A t, u \in Started : t = u
    BY DEF CtInv, ServiceOK
  <2>2. CASE Started = {}
    BY <2>2, FS_EmptySet
  <2>3. CASE Started # {}
    <3>1. PICK t \in Started : TRUE
      BY <2>3
    <3>2. Started = {t}
      BY <2>1, <3>1
    <3>3. Cardinality({t}) = 1
      BY FS_Singleton
    <3>4. QED
      BY <3>2, <3>3
  <2>4. QED
    BY <2>2, <2>3
<1>2. QED
  BY <1>1, InitCtInv, NextCtInv, PTL DEF CtSpec

================================================================================
