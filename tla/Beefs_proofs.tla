------------------------------ MODULE Beefs_proofs ------------------------------
(***************************************************************************)
(* Beefs, for any transactions that spend one another and any bounds.  A   *)
(* beef that was built is complete, however rows change between two reads. *)
(* And as long as the purge overlapped with no action that it did not see, *)
(* every unspent output stays provable.                                    *)
(***************************************************************************)
EXTENDS Beefs, SequenceTheorems, FiniteSetTheorems, TLAPS

Below == {p \in Nat \X Nat : p[1] < p[2]}

\* A nonempty set of naturals has a least element, so Min finds one.
LEMMA LeastExists ==
  ASSUME NEW T, T \subseteq Nat, T # {}
  PROVE  Min(T) \in T /\ \A m \in T : Min(T) <= m
<1>1. IsWellFoundedOn(Below, Nat)
  BY NatLessThanWellFounded DEF OpToRel, Below
<1>2. PICK n \in T : \A m \in T : <<m, n>> \notin Below
  BY ONLY <1>1, WFMin, T \subseteq Nat, T # {}
<1>3. \A m \in T : ~(m < n)
  BY <1>2 DEF Below
<1>4. \A m \in T : n <= m
  BY <1>3
<1> QED BY <1>4 DEF Min

-----------------------------------------------------------------------------
(* Beefs: what is in a beef.                                               *)

Marks == {"no", "only", "raw", "bump"}
Frames == [by : {"services", "storage"}, todo : SUBSET Wtx]
BeefTyped(r) ==
  /\ DOMAIN r = {"mode", "pc", "at", "beef", "stack"}
  /\ r.pc \in {"idle", "proven", "req", "services", "next", "done", "failed"}
  /\ r.beef \in [Wtx -> Marks]
  /\ r.stack \in Seq(Frames)
  /\ r.pc \in {"proven", "req", "services"} => r.at \in Wtx
  /\ r.pc = "done" => r.stack = <<>>

\* What the reader will still look at: more, and what is left of its stack.
InStack(stack, i) == \E n \in 1..Len(stack) : i \in stack[n].todo
Visiting(r) == IF r.pc \in {"proven", "req", "services"} THEN {r.at} ELSE {}

\* A txid alone stands for what the caller knows, or an action trusted.
Trusted(mode, beef, t) ==
  \/ t \in KnownTo(mode)
  \/ \E c \in Wtx : beef[c] # "no" /\ brought[c] = "stub" /\ t \in Inputs[c]

\* Every input of what is raw is there or will be looked at.
Closed(mode, beef, stack, more) ==
  \A t \in Wtx :
    /\ beef[t] = "raw" => \A i \in Inputs[t] : beef[i] # "no" \/ i \in more \/ InStack(stack, i)
    /\ beef[t] = "only" => Trusted(mode, beef, t)

BeefOK(r) == BeefTyped(r) /\ (r.pc # "failed" => Closed(r.mode, r.beef, r.stack, Visiting(r)))

BeInv ==
  /\ DOMAIN txSt = Wtx /\ DOMAIN rd = Readers
  /\ brought \in [Wtx -> {"change", "proof", "stub"}]
  /\ \A t \in Wtx : txSt[t] = "new" => brought[t] = "change"
  /\ BeefOK(rd["caller"])

\* Merging raises marks and lowers none.
LEMMA Merged ==
  ASSUME NEW beef \in [Wtx -> Marks], NEW S \in SUBSET Wtx, NEW k \in Marks
  PROVE  /\ Merge(beef, S, k) \in [Wtx -> Marks]
         /\ \A t \in Wtx : beef[t] # "no" => Merge(beef, S, k)[t] # "no"
         /\ \A t \in S : k # "no" => Merge(beef, S, k)[t] # "no"
         /\ \A t \in Wtx : Merge(beef, S, k)[t] = "raw" => beef[t] = "raw" \/ (t \in S /\ k = "raw")
         /\ \A t \in Wtx : Merge(beef, S, k)[t] = "only" => beef[t] = "only" \/ (t \in S /\ k = "only")
<1>1. Rank["no"] = 0 /\ Rank["only"] = 1 /\ Rank["raw"] = 2 /\ Rank["bump"] = 3
  BY DEF Rank
<1>2. \A t \in Wtx : Merge(beef, S, k)[t] = IF t \in S /\ Rank[k] > Rank[beef[t]] THEN k ELSE beef[t]
  BY DEF Merge
<1>3. Merge(beef, S, k) \in [Wtx -> Marks]
  BY <1>2 DEF Merge
<1>4. \A t \in Wtx : beef[t] \in Marks
  OBVIOUS
<1> QED BY <1>1, <1>2, <1>3, <1>4 DEF Marks

\* The raw transaction and what its action brought; nothing else is alone or raw.
LEMMA RawMerged ==
  ASSUME NEW beef \in [Wtx -> Marks], NEW t \in Wtx, NEW by \in {"services", "storage"},
         brought \in [Wtx -> {"change", "proof", "stub"}]
  PROVE  /\ MergeRaw(beef, t, by) \in [Wtx -> Marks]
         /\ MergeRaw(beef, t, by)[t] # "no"
         /\ \A x \in Wtx : beef[x] # "no" => MergeRaw(beef, t, by)[x] # "no"
         /\ \A x \in Wtx : MergeRaw(beef, t, by)[x] = "raw" => beef[x] = "raw" \/ x = t
         /\ \A x \in Wtx : MergeRaw(beef, t, by)[x] = "only" =>
              beef[x] = "only" \/ (brought[t] = "stub" /\ x \in Inputs[t])
<1> DEFINE raw == Merge(beef, {t}, "raw")
           k == IF brought[t] = "proof" THEN "bump" ELSE "only"
           full == Merge(raw, Inputs[t], k)
<1>1. {t} \in SUBSET Wtx /\ Inputs[t] \in SUBSET Wtx
  BY BeefsAssumption
<1>2. /\ raw \in [Wtx -> Marks] /\ raw[t] # "no"
      /\ \A x \in Wtx : beef[x] # "no" => raw[x] # "no"
      /\ \A x \in Wtx : raw[x] = "raw" => beef[x] = "raw" \/ x = t
      /\ \A x \in Wtx : raw[x] = "only" => beef[x] = "only"
  BY <1>1, Merged DEF Marks
<1>3. MergeRaw(beef, t, by) = IF by = "services" \/ brought[t] = "change" THEN raw ELSE full
  BY DEF MergeRaw
<1> HIDE DEF raw
<1>4. k \in Marks /\ k # "raw" /\ (k = "only" => brought[t] # "proof")
  BY DEF Marks
<1> HIDE DEF k
<1>5. /\ full \in [Wtx -> Marks] /\ full[t] # "no"
      /\ \A x \in Wtx : beef[x] # "no" => full[x] # "no"
      /\ \A x \in Wtx : full[x] = "raw" => beef[x] = "raw" \/ x = t
      /\ \A x \in Wtx : full[x] = "only" => beef[x] = "only" \/ (x \in Inputs[t] /\ k = "only")
  BY <1>1, <1>2, <1>4, Merged
<1> HIDE DEF full
<1>6. CASE by = "services" \/ brought[t] = "change"
  BY <1>2, <1>3, <1>6
<1>7. CASE ~(by = "services" \/ brought[t] = "change")
  <2>1. k = "only" => brought[t] = "stub"
    BY <1>4, <1>7
  <2>2. MergeRaw(beef, t, by) = full
    BY <1>3, <1>7
  <2> QED BY <1>5, <2>1, <2>2
<1> QED BY <1>6, <1>7

\* What is in the beef stays in it, so a mark that was trusted is.
LEMMA TrustStays ==
  ASSUME NEW mode, NEW beef, NEW next, NEW t \in Wtx, Trusted(mode, beef, t),
         \A c \in Wtx : beef[c] # "no" => next[c] # "no"
  PROVE  Trusted(mode, next, t)
BY DEF Trusted

\* After a visit of t its inputs are still to be looked at.
LEMMA FollowOK ==
  ASSUME NEW r, BeefTyped(r), NEW t \in Wtx, NEW by \in {"services", "storage"},
         brought \in [Wtx -> {"change", "proof", "stub"}],
         Closed(r.mode, r.beef, r.stack, {t})
  PROVE  BeefOK(Follow(r, t, by))
<1> DEFINE q == Follow(r, t, by)
           frame == [by |-> by, todo |-> Inputs[t]]
<1>1. /\ DOMAIN q = DOMAIN r /\ q.mode = r.mode /\ q.pc = "next" /\ q.beef = MergeRaw(r.beef, t, by)
      /\ q.stack = Append(r.stack, frame)
  BY DEF Follow, BeefTyped
<1> HIDE DEF q
<1>2. frame \in Frames /\ r.stack \in Seq(Frames) /\ r.beef \in [Wtx -> Marks]
  BY BeefsAssumption DEF Frames, BeefTyped
<1>3. /\ q.stack \in Seq(Frames) /\ Len(q.stack) = Len(r.stack) + 1 /\ Len(r.stack) \in Nat
      /\ \A n \in 1..Len(r.stack) : q.stack[n] = r.stack[n]
      /\ q.stack[Len(r.stack) + 1] = frame
  BY <1>1, <1>2, AppendProperties
<1>4. \A i : InStack(r.stack, i) \/ i \in Inputs[t] => InStack(q.stack, i)
  <2>1. \A i : InStack(r.stack, i) => InStack(q.stack, i)
    BY <1>3 DEF InStack
  <2>2. \A i \in Inputs[t] : i \in q.stack[Len(r.stack) + 1].todo
    BY <1>3
  <2>3. Len(r.stack) + 1 \in 1..Len(q.stack)
    BY <1>3
  <2> QED BY <2>1, <2>2, <2>3 DEF InStack
<1>5. /\ q.beef \in [Wtx -> Marks] /\ q.beef[t] # "no"
      /\ \A x \in Wtx : r.beef[x] # "no" => q.beef[x] # "no"
      /\ \A x \in Wtx : q.beef[x] = "raw" => r.beef[x] = "raw" \/ x = t
      /\ \A x \in Wtx : q.beef[x] = "only" => r.beef[x] = "only" \/ (brought[t] = "stub" /\ x \in Inputs[t])
  BY <1>1, <1>2, RawMerged
<1>6. BeefTyped(q)
  BY <1>1, <1>3, <1>5 DEF BeefTyped
<1>7. ASSUME NEW x \in Wtx, q.beef[x] = "raw", NEW i \in Inputs[x]
      PROVE  q.beef[i] # "no" \/ InStack(q.stack, i)
  <2>1. i \in Wtx
    BY BeefsAssumption
  <2>2. CASE x = t
    BY <1>4, <2>2
  <2>3. CASE r.beef[x] = "raw"
    BY <1>4, <1>5, <2>1, <2>3 DEF Closed
  <2> QED BY <1>5, <1>7, <2>2, <2>3
<1>8. ASSUME NEW x \in Wtx, q.beef[x] = "only"
      PROVE  Trusted(q.mode, q.beef, x)
  <2>1. CASE brought[t] = "stub" /\ x \in Inputs[t]
    BY <1>5, <2>1 DEF Trusted
  <2>2. CASE r.beef[x] = "only"
    BY <1>1, <1>5, <2>2, TrustStays DEF Closed
  <2> QED BY <1>5, <1>8, <2>1, <2>2
<1> QED BY <1>6, <1>7, <1>8 DEF BeefOK, Closed, q

\* Once t is in the beef there is no more to look at.
LEMMA BumpOK ==
  ASSUME NEW r, BeefTyped(r), NEW t \in Wtx, Closed(r.mode, r.beef, r.stack, {t}), r.pc # "done"
  PROVE  BeefOK([r EXCEPT !.beef = Merge(@, {t}, "bump"), !.pc = "next"])
<1> DEFINE q == [r EXCEPT !.beef = Merge(@, {t}, "bump"), !.pc = "next"]
<1>1. /\ DOMAIN q = DOMAIN r /\ q.mode = r.mode /\ q.pc = "next" /\ q.beef = Merge(r.beef, {t}, "bump")
      /\ q.stack = r.stack
  BY DEF BeefTyped
<1> HIDE DEF q
<1>2. /\ q.beef \in [Wtx -> Marks] /\ q.beef[t] # "no"
      /\ \A x \in Wtx : r.beef[x] # "no" => q.beef[x] # "no"
      /\ \A x \in Wtx : q.beef[x] = "raw" => r.beef[x] = "raw"
      /\ \A x \in Wtx : q.beef[x] = "only" => r.beef[x] = "only"
  BY <1>1, Merged DEF BeefTyped, Marks
<1>3. BeefTyped(q)
  BY <1>1, <1>2 DEF BeefTyped
<1>4. \A x \in Wtx : \A i \in Inputs[x] : i \in Wtx
  BY BeefsAssumption
<1>5. ASSUME NEW x \in Wtx, q.beef[x] = "raw", NEW i \in Inputs[x]
      PROVE  q.beef[i] # "no" \/ InStack(q.stack, i)
  BY <1>1, <1>2, <1>4, <1>5 DEF Closed
<1>6. ASSUME NEW x \in Wtx, q.beef[x] = "only"
      PROVE  Trusted(q.mode, q.beef, x)
  BY <1>1, <1>2, <1>6, TrustStays DEF Closed
<1> QED BY <1>3, <1>5, <1>6 DEF BeefOK, Closed, q

\* A visit of t looks at t.
LEMMA VisitOK ==
  ASSUME NEW r, BeefTyped(r), NEW t \in Wtx, Closed(r.mode, r.beef, r.stack, {t})
  PROVE  BeefOK(Visit(r, t))
<1>1. CASE Visit(r, t) = [r EXCEPT !.pc = "failed"]
  <2> DEFINE q == [r EXCEPT !.pc = "failed"]
  <2>1. DOMAIN q = DOMAIN r /\ q.beef = r.beef /\ q.stack = r.stack /\ q.pc = "failed"
    BY DEF BeefTyped
  <2> HIDE DEF q
  <2>2. BeefOK(q)
    BY <2>1 DEF BeefOK, BeefTyped
  <2> QED BY <1>1, <2>2 DEF q
<1>2. ASSUME NEW p \in {"services", "proven"}, Visit(r, t) = [r EXCEPT !.at = t, !.pc = p]
      PROVE  BeefOK(Visit(r, t))
  <2> DEFINE q == [r EXCEPT !.at = t, !.pc = p]
  <2>1. DOMAIN q = DOMAIN r /\ q.mode = r.mode /\ q.beef = r.beef /\ q.stack = r.stack /\ q.pc = p /\ q.at = t
    BY DEF BeefTyped
  <2> HIDE DEF q
  <2>2. BeefTyped(q) /\ Visiting(q) = {t}
    BY <2>1 DEF BeefTyped, Visiting
  <2>3. BeefOK(q)
    BY <2>1, <2>2 DEF BeefOK
  <2> QED BY <1>2, <2>3 DEF q
<1> QED BY <1>1, <1>2 DEF Visit

\* A beef that gets another pc and nothing else.
LEMMA PcOK ==
  ASSUME NEW r, BeefOK(r), NEW p \in {"req", "services", "failed"}, r.pc \in {"proven", "req", "services"}
  PROVE  BeefOK([r EXCEPT !.pc = p])
<1> DEFINE q == [r EXCEPT !.pc = p]
<1>1. /\ DOMAIN q = DOMAIN r /\ q.mode = r.mode /\ q.beef = r.beef /\ q.stack = r.stack /\ q.pc = p
      /\ q.at = r.at
  BY DEF BeefOK, BeefTyped
<1> HIDE DEF q
<1>2. BeefTyped(q) /\ (p # "failed" => Visiting(q) = Visiting(r))
  BY <1>1 DEF BeefOK, BeefTyped, Visiting
<1>3. BeefOK(q)
  BY <1>1, <1>2 DEF BeefOK
<1> QED BY <1>3 DEF q

\* A reader that is not the caller, or a caller with a beef in order.
LEMMA UpdateOK ==
  ASSUME BeInv, NEW p \in Readers, NEW r, p = "caller" => BeefOK(r), rd' = [rd EXCEPT ![p] = r],
         txSt' = txSt, brought' = brought
  PROVE  BeInv'
<1>1. DOMAIN rd' = Readers /\ rd'["caller"] = IF p = "caller" THEN r ELSE rd["caller"]
  BY DEF BeInv, Readers
<1>2. BeefOK(rd'["caller"])
  BY <1>1 DEF BeInv
<1>3. BeefOK(rd["caller"])'
  BY <1>2 DEF BeefOK, BeefTyped, Closed, Trusted, Visiting
<1> QED BY <1>1, <1>3 DEF BeInv

LEMMA NoReadOK ==
  ASSUME NEW mode
  PROVE  /\ BeefOK([NoRead EXCEPT !.mode = mode]) /\ BeefTyped([NoRead EXCEPT !.mode = mode])
         /\ \A t \in Wtx : Closed(mode, NoBeef, <<>>, {t})
         /\ [NoRead EXCEPT !.mode = mode].pc = "idle"
         /\ [NoRead EXCEPT !.mode = mode].beef = NoBeef /\ [NoRead EXCEPT !.mode = mode].stack = <<>>
         /\ [NoRead EXCEPT !.mode = mode].mode = mode
<1> DEFINE q == [NoRead EXCEPT !.mode = mode]
<1>1. DOMAIN q = {"mode", "pc", "at", "beef", "stack"} /\ q.mode = mode /\ q.pc = "idle" /\ q.beef = NoBeef
      /\ q.stack = <<>>
  BY DEF NoRead
<1> HIDE DEF q
<1>2. NoBeef \in [Wtx -> Marks] /\ \A t \in Wtx : NoBeef[t] = "no"
  BY DEF NoBeef, Marks
<1>3. BeefTyped(q)
  BY <1>1, <1>2 DEF BeefTyped
<1>4. \A S : Closed(mode, NoBeef, <<>>, S)
  BY <1>2 DEF Closed
<1>5. BeefOK(q)
  BY <1>1, <1>3, <1>4 DEF BeefOK
<1> QED BY <1>1, <1>3, <1>4, <1>5 DEF q

LEMMA StartReadStep ==
  ASSUME BeInv, NEW t \in Wtx, NEW mode \in Modes, StartRead(mode, t)
  PROVE  BeInv'
<1> DEFINE r == [NoRead EXCEPT !.mode = mode]
<1>1. /\ BeefTyped(r) /\ Closed(r.mode, r.beef, r.stack, {t}) /\ r.pc # "done"
  BY NoReadOK
<1> HIDE DEF r
<1>2. BeefOK(Visit(r, t))
  BY <1>1, VisitOK
<1>3. BeefOK(Follow(r, t, "storage"))
  BY <1>1, FollowOK DEF BeInv
<1>4. /\ txSt' = txSt /\ brought' = brought
      /\ rd' = [rd EXCEPT !["caller"] = Visit(r, t)] \/ rd' = [rd EXCEPT !["caller"] = Follow(r, t, "storage")]
  BY DEF StartRead, bookVars, r
<1> QED BY <1>2, <1>3, <1>4, UpdateOK DEF Readers

LEMMA ReadProvenStep ==
  ASSUME BeInv, NEW p \in Readers, ReadProven(p)
  PROVE  BeInv'
<1> DEFINE r == rd[p]
           bump == [r EXCEPT !.beef = Merge(@, {r.at}, "bump"), !.pc = "next"]
<1>1. ASSUME p = "caller" PROVE BeefOK(bump) /\ BeefOK([r EXCEPT !.pc = "req"])
  <2>1. BeefOK(r) /\ r.pc = "proven"
    BY <1>1 DEF BeInv, ReadProven
  <2> HIDE DEF r
  <2>2. BeefTyped(r) /\ r.at \in Wtx /\ Visiting(r) = {r.at} /\ Closed(r.mode, r.beef, r.stack, {r.at})
    BY <2>1 DEF BeefOK, BeefTyped, Visiting
  <2> QED BY <2>1, <2>2, BumpOK, PcOK
<1>2. PICK q \in {bump, [r EXCEPT !.pc = "req"]} : Update(p, q)
  BY DEF ReadProven
<1> HIDE DEF bump, r
<1>3. p = "caller" => BeefOK(q)
  BY <1>1, <1>2
<1> QED BY <1>2, <1>3, UpdateOK DEF Update

LEMMA ReadReqStep ==
  ASSUME BeInv, NEW p \in Readers, ReadReq(p)
  PROVE  BeInv'
<1> DEFINE r == rd[p]
           follow == Follow(r, r.at, "storage")
<1>1. ASSUME p = "caller"
      PROVE  BeefOK(follow) /\ BeefOK([r EXCEPT !.pc = "services"]) /\ BeefOK([r EXCEPT !.pc = "failed"])
  <2>1. BeefOK(r) /\ r.pc = "req"
    BY <1>1 DEF BeInv, ReadReq
  <2> HIDE DEF r
  <2>2. BeefTyped(r) /\ r.at \in Wtx /\ Visiting(r) = {r.at} /\ Closed(r.mode, r.beef, r.stack, {r.at})
    BY <2>1 DEF BeefOK, BeefTyped, Visiting
  <2> QED BY <2>1, <2>2, FollowOK, PcOK DEF BeInv
<1>2. PICK q \in {follow, [r EXCEPT !.pc = "services"], [r EXCEPT !.pc = "failed"]} : Update(p, q)
  BY DEF ReadReq
<1> HIDE DEF follow, r
<1>3. p = "caller" => BeefOK(q)
  BY <1>1, <1>2
<1> QED BY <1>2, <1>3, UpdateOK DEF Update

LEMMA AskServicesStep ==
  ASSUME BeInv, NEW p \in Readers, AskServices(p)
  PROVE  BeInv'
<1> DEFINE r == rd[p]
           follow == Follow(r, r.at, "services")
           bump == [r EXCEPT !.beef = Merge(@, {r.at}, "bump"), !.pc = "next"]
<1>1. ASSUME p = "caller"
      PROVE  BeefOK(follow) /\ BeefOK(bump) /\ BeefOK([r EXCEPT !.pc = "failed"])
  <2>1. BeefOK(r) /\ r.pc = "services"
    BY <1>1 DEF BeInv, AskServices
  <2> HIDE DEF r
  <2>2. BeefTyped(r) /\ r.at \in Wtx /\ Visiting(r) = {r.at} /\ Closed(r.mode, r.beef, r.stack, {r.at})
    BY <2>1 DEF BeefOK, BeefTyped, Visiting
  <2> QED BY <2>1, <2>2, FollowOK, BumpOK, PcOK DEF BeInv
<1>2. PICK q \in {follow, bump, [r EXCEPT !.pc = "failed"]} :
        rd' = [rd EXCEPT ![p] = q] /\ txSt' = txSt /\ brought' = brought
  BY DEF AskServices, Update
<1> HIDE DEF follow, r, bump
<1>3. p = "caller" => BeefOK(q)
  BY <1>1, <1>2
<1> QED BY <1>2, <1>3, UpdateOK

\* The frame on top has nothing left: without it all else is as it was.
LEMMA PopOK ==
  ASSUME NEW r, BeefOK(r), r.pc = "next", Len(r.stack) # 0, r.stack[Len(r.stack)].todo = {}
  PROVE  BeefOK([r EXCEPT !.stack = SubSeq(@, 1, Len(r.stack) - 1)])
<1> DEFINE n == Len(r.stack)
           q == [r EXCEPT !.stack = SubSeq(@, 1, n - 1)]
<1>1. DOMAIN q = DOMAIN r /\ q.mode = r.mode /\ q.beef = r.beef /\ q.pc = "next" /\ q.stack = SubSeq(r.stack, 1, n - 1)
  BY DEF BeefOK, BeefTyped
<1> HIDE DEF q
<1>2. r.stack \in Seq(Frames) /\ n \in Nat /\ n > 0
  BY DEF BeefOK, BeefTyped
<1>3. /\ q.stack \in Seq(Frames) /\ Len(q.stack) = n - 1
      /\ \A m \in 1..(n - 1) : q.stack[m] = r.stack[m]
  BY <1>1, <1>2, SubSeqProperties
<1>4. BeefTyped(q)
  BY <1>1, <1>3 DEF BeefOK, BeefTyped
<1>5. \A i : InStack(r.stack, i) => InStack(q.stack, i)
  <2>1. ASSUME NEW i, InStack(r.stack, i) PROVE InStack(q.stack, i)
    <3>1. PICK m \in 1..n : i \in r.stack[m].todo
      BY <2>1 DEF InStack
    <3>2. m # n
      BY <3>1
    <3>3. m \in 1..(n - 1)
      BY <1>2, <3>2
    <3>4. m \in 1..Len(q.stack) /\ i \in q.stack[m].todo
      BY <1>3, <3>1, <3>3
    <3> QED BY <3>4 DEF InStack
  <2> QED BY <2>1
<1>6. Closed(r.mode, r.beef, r.stack, Visiting(r)) /\ Visiting(r) = {} /\ Visiting(q) = {}
  BY <1>1 DEF BeefOK, Visiting
<1>7. Closed(q.mode, q.beef, q.stack, Visiting(q))
  BY <1>1, <1>5, <1>6 DEF Closed, Trusted
<1> QED BY <1>1, <1>4, <1>7 DEF BeefOK, q

\* i is taken from the frame on top, to be looked at now.
LEMMA TakeOK ==
  ASSUME NEW r, BeefOK(r), r.pc = "next", Len(r.stack) # 0, NEW i \in r.stack[Len(r.stack)].todo
  PROVE  LET s == [r EXCEPT !.stack[Len(r.stack)].todo = @ \ {i}] IN
         /\ BeefTyped(s) /\ i \in Wtx /\ Closed(s.mode, s.beef, s.stack, {i})
         /\ s.pc = "next" /\ s.beef = r.beef /\ s.mode = r.mode
<1> DEFINE n == Len(r.stack)
           s == [r EXCEPT !.stack[n].todo = @ \ {i}]
           frame == [r.stack[n] EXCEPT !.todo = @ \ {i}]
<1>1. /\ DOMAIN s = DOMAIN r /\ s.mode = r.mode /\ s.beef = r.beef /\ s.pc = "next"
      /\ s.stack = [r.stack EXCEPT ![n] = frame]
  BY DEF BeefOK, BeefTyped
<1> HIDE DEF s
<1>2. r.stack \in Seq(Frames) /\ n \in Nat /\ n \in 1..n
  BY DEF BeefOK, BeefTyped
<1>3. r.stack[n] \in Frames
  BY <1>2
<1>4. frame \in Frames /\ frame.todo = r.stack[n].todo \ {i} /\ i \in Wtx
  BY <1>3 DEF Frames
<1> HIDE DEF frame
<1>5. /\ s.stack \in Seq(Frames) /\ Len(s.stack) = n
      /\ \A m \in 1..n : s.stack[m] = IF m = n THEN frame ELSE r.stack[m]
  BY <1>1, <1>2, <1>4
<1>6. BeefTyped(s)
  BY <1>1, <1>5 DEF BeefOK, BeefTyped
<1>7. \A j : InStack(r.stack, j) => j = i \/ InStack(s.stack, j)
  BY <1>4, <1>5 DEF InStack
<1>8. Closed(r.mode, r.beef, r.stack, {})
  BY DEF BeefOK, Visiting
<1>9. Closed(s.mode, s.beef, s.stack, {i})
  BY <1>1, <1>7, <1>8 DEF Closed, Trusted
<1> QED BY <1>1, <1>4, <1>6, <1>9 DEF s

\* What the caller knows stands in the beef by its txid.
LEMMA OnlyOK ==
  ASSUME NEW r, BeefTyped(r), NEW i \in Wtx, Closed(r.mode, r.beef, r.stack, {i}), r.pc = "next",
         i \in KnownTo(r.mode)
  PROVE  BeefOK([r EXCEPT !.beef = Merge(@, {i}, "only")])
<1> DEFINE q == [r EXCEPT !.beef = Merge(@, {i}, "only")]
<1>1. /\ DOMAIN q = DOMAIN r /\ q.mode = r.mode /\ q.pc = "next" /\ q.beef = Merge(r.beef, {i}, "only")
      /\ q.stack = r.stack
  BY DEF BeefTyped
<1> HIDE DEF q
<1>2. /\ q.beef \in [Wtx -> Marks] /\ q.beef[i] # "no"
      /\ \A x \in Wtx : r.beef[x] # "no" => q.beef[x] # "no"
      /\ \A x \in Wtx : q.beef[x] = "raw" => r.beef[x] = "raw"
      /\ \A x \in Wtx : q.beef[x] = "only" => r.beef[x] = "only" \/ x = i
  BY <1>1, Merged DEF BeefTyped, Marks
<1>3. BeefTyped(q)
  BY <1>1, <1>2 DEF BeefTyped
<1>4. \A x \in Wtx : \A y \in Inputs[x] : y \in Wtx
  BY BeefsAssumption
<1>5. ASSUME NEW x \in Wtx, q.beef[x] = "raw", NEW y \in Inputs[x]
      PROVE  q.beef[y] # "no" \/ InStack(q.stack, y)
  BY <1>1, <1>2, <1>4, <1>5 DEF Closed
<1>6. ASSUME NEW x \in Wtx, q.beef[x] = "only"
      PROVE  Trusted(q.mode, q.beef, x)
  <2>1. CASE x = i
    BY <1>1, <2>1 DEF Trusted
  <2>2. CASE r.beef[x] = "only"
    BY <1>1, <1>2, <2>2, TrustStays DEF Closed
  <2> QED BY <1>2, <1>6, <2>1, <2>2
<1> QED BY <1>3, <1>5, <1>6 DEF BeefOK, Closed, q

LEMMA NextInputStep ==
  ASSUME BeInv, NEW p \in Readers, NextInput(p)
  PROVE  BeInv'
<1> DEFINE r == rd[p]
           n == Len(r.stack)
           i == CHOOSE i \in r.stack[n].todo : \A j \in r.stack[n].todo : i <= j
           s == [r EXCEPT !.stack[n].todo = @ \ {i}]
           done == [r EXCEPT !.pc = "done"]
           pop == [r EXCEPT !.stack = SubSeq(@, 1, n - 1)]
           only == [s EXCEPT !.beef = Merge(@, {i}, "only")]
           next == IF n = 0 THEN done
                   ELSE IF r.stack[n].todo = {} THEN pop
                   ELSE IF r.beef[i] # "no" THEN s ELSE IF i \in KnownTo(r.mode) THEN only ELSE Visit(s, i)
<1>1. r.pc = "next" /\ rd' = [rd EXCEPT ![p] = next] /\ txSt' = txSt /\ brought' = brought
  BY DEF NextInput, Update
<1>2. ASSUME p = "caller" PROVE BeefOK(next)
  <2>1. BeefOK(r) /\ BeefTyped(r) /\ Closed(r.mode, r.beef, r.stack, Visiting(r)) /\ Visiting(r) = {}
    BY <1>1, <1>2 DEF BeInv, BeefOK, Visiting
  <2> HIDE DEF r
  <2>2. CASE n = 0
    <3>1. r.stack = <<>>
      BY <2>1, <2>2, EmptySeq DEF BeefTyped
    <3>2. /\ DOMAIN done = DOMAIN r /\ done.mode = r.mode /\ done.beef = r.beef /\ done.stack = r.stack
          /\ done.pc = "done"
      BY <2>1 DEF BeefTyped
    <3> HIDE DEF done
    <3>3. BeefTyped(done) /\ Visiting(done) = {}
      BY <2>1, <3>1, <3>2 DEF BeefTyped, Visiting
    <3>4. BeefOK(done)
      BY <2>1, <3>2, <3>3 DEF BeefOK
    <3> QED BY <2>2, <3>4
  <2>3. CASE n # 0 /\ r.stack[n].todo = {}
    <3>1. BeefOK(pop)
      BY <1>1, <2>1, <2>3, PopOK
    <3> QED BY <2>3, <3>1
  <2>4. CASE n # 0 /\ r.stack[n].todo # {}
    <3>1. r.stack \in Seq(Frames) /\ n \in 1..n
      BY <2>1, <2>4 DEF BeefTyped
    <3>2. r.stack[n].todo \subseteq Wtx
      <4>1. r.stack[n] \in Frames
        BY <3>1
      <4> QED BY <4>1 DEF Frames
    <3>3. r.stack[n].todo \subseteq Nat
      BY <3>2, BeefsAssumption
    <3> DEFINE T == r.stack[n].todo
    <3>4. T \subseteq Nat /\ T # {} /\ i = Min(T)
      BY <2>4, <3>3 DEF Min
    <3>5. i \in T
      <4> HIDE DEF T, i
      <4> QED BY <3>4, LeastExists
    <3> HIDE DEF i
    <3>6. /\ BeefTyped(s) /\ i \in Wtx /\ Closed(s.mode, s.beef, s.stack, {i})
          /\ s.pc = "next" /\ s.beef = r.beef /\ s.mode = r.mode
      BY <1>1, <2>1, <2>4, <3>5, TakeOK
    <3> HIDE DEF s, T
    <3>7. CASE r.beef[i] # "no"
      <4>1. Closed(s.mode, s.beef, s.stack, {})
        BY <3>6, <3>7 DEF Closed
      <4>2. BeefOK(s)
        BY <3>6, <4>1 DEF BeefOK, Visiting
      <4> QED BY <2>4, <3>7, <4>2
    <3>8. CASE r.beef[i] = "no" /\ i \in KnownTo(r.mode)
      <4>1. BeefOK(only)
        BY <3>6, <3>8, OnlyOK
      <4> QED BY <2>4, <3>8, <4>1
    <3>9. CASE r.beef[i] = "no" /\ i \notin KnownTo(r.mode)
      <4>1. BeefOK(Visit(s, i))
        BY <3>6, VisitOK
      <4> QED BY <2>4, <3>9, <4>1
    <3> QED BY <3>7, <3>8, <3>9
  <2> QED BY <2>2, <2>3, <2>4
<1> HIDE DEF next
<1> QED BY <1>1, <1>2, UpdateOK

LEMMA GiveBeefStep ==
  ASSUME BeInv, GiveBeef
  PROVE  BeInv'
<1>1. NoRead = [NoRead EXCEPT !.mode = "none"]
  BY DEF NoRead
<1>2. BeefOK(NoRead)
  BY <1>1, NoReadOK
<1> QED BY <1>2, UpdateOK DEF GiveBeef, Update, Readers

\* Only an action that is new gets what it brought, so what was trusted stays trusted;
\* and none becomes new again.
LEMMA RowsOK ==
  ASSUME BeInv, DOMAIN rd' = Readers, rd'["caller"] = rd["caller"],
         DOMAIN txSt' = Wtx, \A t \in Wtx : txSt'[t] = "new" => txSt[t] = "new",
         brought' \in [Wtx -> {"change", "proof", "stub"}],
         \A t \in Wtx : brought'[t] # brought[t] => txSt[t] = "new" /\ txSt'[t] # "new"
  PROVE  BeInv'
<1> DEFINE r == rd["caller"]
<1>1. \A mode, beef, t : Trusted(mode, beef, t) => Trusted(mode, beef, t)'
  <2>1. ASSUME NEW c \in Wtx, brought[c] = "stub" PROVE brought'[c] = "stub"
    BY <2>1 DEF BeInv
  <2>2. ASSUME NEW mode, NEW beef, NEW t, Trusted(mode, beef, t)
        PROVE  t \in KnownTo(mode) \/ \E c \in Wtx : beef[c] # "no" /\ brought'[c] = "stub" /\ t \in Inputs[c]
    BY <2>1, <2>2 DEF Trusted
  <2> QED BY <2>2 DEF Trusted
<1>2. BeefOK(r)
  BY DEF BeInv
<1> HIDE DEF r
<1>3. \A beef, stack, more, mode : Closed(mode, beef, stack, more) => Closed(mode, beef, stack, more)'
  BY <1>1 DEF Closed
<1> QED BY <1>2, <1>3 DEF BeInv, BeefOK, BeefTyped, Visiting, r

LEMMA BookStep ==
  ASSUME BeInv, NEW t \in Wtx, Create(t) \/ Process(t) \/ Prove(t) \/ FailTx(t) \/ Age(t)
  PROVE  BeInv'
<1>1. rd' = rd /\ DOMAIN txSt' = Wtx
  BY DEF BeInv, Create, Process, Prove, FailTx, Age
<1>2. \A x \in Wtx : txSt'[x] = "new" => txSt[x] = "new"
  BY DEF BeInv, Create, Process, Prove, FailTx, Age
<1>3. CASE Create(t)
  <2>1. /\ brought' \in [Wtx -> {"change", "proof", "stub"}]
        /\ \A x \in Wtx : x # t => brought'[x] = brought[x]
        /\ txSt[t] = "new" /\ txSt'[t] = "unsigned"
    BY <1>3 DEF BeInv, Create
  <2> QED BY <1>1, <1>2, <2>1, RowsOK DEF BeInv
<1>4. CASE Process(t) \/ Prove(t) \/ FailTx(t) \/ Age(t)
  <2>1. brought' = brought
    BY <1>4 DEF Process, Prove, FailTx, Age
  <2> QED BY <1>1, <1>2, <2>1, RowsOK DEF BeInv
<1> QED BY <1>3, <1>4

PurgeAct ==
  \/ PurgeStart \/ PurgeCompleted \/ PurgeFailedRows \/ PurgeOutputs \/ PurgeGiveBack \/ PurgeRows \/ PurgeReqs
  \/ PurgeUtxos \/ PurgeProve \/ PurgeSpent \/ PurgeSpenders \/ PurgeOrphans \/ PurgeStops

LEMMA PurgeStep ==
  ASSUME BeInv, PurgeAct
  PROVE  BeInv'
<1>1. DOMAIN rd' = Readers /\ rd'["caller"] = rd["caller"]
  <2>1. CASE PurgeUtxos \/ PurgeProve \/ PurgeSpent \/ PurgeStops
    <3>1. PICK q : rd' = [rd EXCEPT !["purge"] = q]
      BY <2>1 DEF PurgeUtxos, PurgeProve, PurgeSpent, PurgeStops
    <3> QED BY <3>1 DEF BeInv, Readers
  <2>2. CASE ~(PurgeUtxos \/ PurgeProve \/ PurgeSpent \/ PurgeStops)
    <3>1. rd' = rd
      BY <2>2 DEF PurgeAct, PurgeStart, PurgeCompleted, PurgeFailedRows, PurgeOutputs, PurgeGiveBack, PurgeRows,
            PurgeReqs, PurgeSpenders, PurgeOrphans
    <3> QED BY <3>1 DEF BeInv
  <2> QED BY <2>1, <2>2
<1>2. brought' = brought
  BY DEF PurgeAct, PurgeStart, PurgeCompleted, PurgeFailedRows, PurgeOutputs, PurgeGiveBack, PurgeRows,
         PurgeReqs, PurgeUtxos, PurgeProve, PurgeSpent, PurgeSpenders, PurgeOrphans, PurgeStops, Turn, bookVars
<1>3. DOMAIN txSt' = Wtx /\ \A x \in Wtx : txSt'[x] = "new" => txSt[x] = "new"
  <2>1. CASE PurgeRows
    BY <2>1 DEF PurgeRows
  <2>2. CASE ~PurgeRows
    <3>1. txSt' = txSt
      BY <2>2 DEF PurgeAct, PurgeStart, PurgeCompleted, PurgeFailedRows, PurgeOutputs, PurgeGiveBack,
            PurgeReqs, PurgeUtxos, PurgeProve, PurgeSpent, PurgeSpenders, PurgeOrphans, PurgeStops, bookVars
    <3> QED BY <3>1 DEF BeInv
  <2> QED BY <2>1, <2>2
<1> QED BY <1>1, <1>2, <1>3, RowsOK DEF BeInv

LEMMA BeInvInit == BeInit => BeInv
<1> SUFFICES ASSUME BeInit PROVE BeInv
  OBVIOUS
<1>1. NoRead = [NoRead EXCEPT !.mode = "none"]
  BY DEF NoRead
<1>2. BeefOK(NoRead)
  BY <1>1, NoReadOK
<1> QED BY <1>2 DEF BeInit, BeInv, Readers

LEMMA BeInvNext == BeInv /\ [BeNext]_beVars => BeInv'
<1> SUFFICES ASSUME BeInv, [BeNext]_beVars PROVE BeInv'
  OBVIOUS
<1>1. CASE \E t \in Wtx : Create(t) \/ Process(t) \/ Prove(t) \/ FailTx(t) \/ Age(t)
  BY <1>1, BookStep
<1>2. CASE \E t \in Wtx, mode \in Modes : StartRead(mode, t)
  BY <1>2, StartReadStep
<1>3. CASE \E p \in Readers : ReadProven(p) \/ ReadReq(p) \/ AskServices(p) \/ NextInput(p)
  BY <1>3, ReadProvenStep, ReadReqStep, AskServicesStep, NextInputStep
<1>4. CASE GiveBeef
  BY <1>4, GiveBeefStep
<1>5. CASE PurgeAct
  BY <1>5, PurgeStep
<1>6. CASE UNCHANGED beVars
  <2>1. rd' = rd /\ txSt' = txSt /\ brought' = brought
    BY <1>6 DEF beVars
  <2> QED BY <2>1, RowsOK DEF BeInv
<1> HIDE DEF BeInv
<1> QED BY <1>1, <1>2, <1>3, <1>4, <1>5, <1>6 DEF BeNext, PurgeAct

(* A beef that was built while rows changed and went away is complete: the *)
(* inputs of what is in it raw are in it, and a txid alone stands for what *)
(* the caller knows or for an action trusted, whatever was spent, proven,  *)
(* failed or purged between two reads of rows, and whatever the services   *)
(* answered.                                                               *)
THEOREM BeefsAreClosed == BeSpec => []BeefClosed
<1>1. BeInv => BeefClosed
  <2> SUFFICES ASSUME BeInv, rd["caller"].pc = "done"
               PROVE  LET beef == rd["caller"].beef IN
                      \A t \in Wtx :
                        /\ beef[t] = "raw" => \A i \in Inputs[t] : beef[i] # "no"
                        /\ beef[t] = "only" => Trusted(rd["caller"].mode, beef, t)
    BY DEF BeefClosed, Trusted
  <2> DEFINE r == rd["caller"]
  <2>1. Closed(r.mode, r.beef, r.stack, Visiting(r)) /\ Visiting(r) = {} /\ r.stack = <<>>
    BY DEF BeInv, BeefOK, BeefTyped, Visiting
  <2>2. \A i : ~InStack(r.stack, i)
    BY <2>1 DEF InStack
  <2> QED BY <2>1, <2>2 DEF Closed
<1> QED BY <1>1, BeInvInit, BeInvNext, PTL DEF BeSpec

-----------------------------------------------------------------------------
(* Beefs: what the purge leaves.                                           *)

NoStub == \A t \in Wtx : brought[t] # "stub"

\* It may fail yet; its output is spent by none, or by one that may fail.
MayFail(t) == txSt[t] \in {"unsigned", "sending"} /\ Unmined(t)
Wanted(t) == coin[t] = Unspent \/ (coin[t] \in Wtx /\ MayFail(coin[t]))

\* Its inputs are needed to prove it.
Rests(t) ==
  /\ sound[t] /\ t \notin provenTxs /\ brought[t] = "change"
  /\ txSt[t] = "unsigned" \/ (txSt[t] = "sending" /\ Wanted(t))

Stages == {"new", "unsigned", "sending", "completed", "failed", "wiped", "gone"}
Deleting == {"outputs", "back", "rows"}
BookTypes ==
  /\ txSt \in [Wtx -> Stages] /\ reqSt \in [Wtx -> {"none", "unsent", "completed", "invalid"}]
  /\ provenTxs \subseteq Wtx /\ aged \subseteq Wtx
  /\ coin \in [Wtx -> Wtx \cup {Unspent, NoOutput, Forgotten}]
  /\ brought \in [Wtx -> {"change", "proof", "stub"}]
  /\ DOMAIN purge = {"pc", "opts", "utxos", "ids"} /\ purge.utxos \subseteq Wtx /\ purge.ids \subseteq Wtx
  /\ DOMAIN rd = Readers /\ DOMAIN rd["purge"] = {"mode", "pc", "at", "beef", "stack"}
  /\ rd["purge"].mode \in {"none", "purge"}

\* What a row says of the others.
RowsAgree ==
  \A t \in Wtx :
    /\ txSt[t] = "completed" => t \in provenTxs
    /\ txSt[t] = "sending" => reqSt[t] = "unsent" /\ coin[t] # NoOutput
    /\ txSt[t] \in {"new", "unsigned"} => reqSt[t] = "none" /\ coin[t] = NoOutput
    /\ txSt[t] = "new" => brought[t] = "change"
    /\ t \in aged => txSt[t] \in {"completed", "failed", "wiped", "gone"}
    /\ Mined(t) => txSt[t] \in {"sending", "completed", "gone"} /\ sound[t]

\* Who spends what.
SpendsAgree ==
  /\ \A t \in Wtx : \A i \in Inputs[t] :
       /\ txSt[t] # "new" => txSt[i] \notin {"new", "unsigned"}
       /\ txSt[t] \in {"unsigned", "sending", "completed"} => coin[i] \in {t, Forgotten, NoOutput}
       /\ txSt[t] = "gone" => coin[i] \in {Forgotten, NoOutput}
       /\ brought[t] = "proof" => Mined(i)
  /\ \A t \in Wtx :
       /\ coin[t] \in Wtx => t \in Inputs[coin[t]] /\ txSt[coin[t]] \in {"unsigned", "sending", "completed"}
       /\ coin[t] = Forgotten => \E c \in Wtx : t \in Inputs[c] /\ txSt[c] \in {"completed", "gone"}

InputsThere == \A t \in Wtx : Rests(t) => \A i \in Inputs[t] : coin[i] = t /\ txSt[i] \in UtxoStatus

\* What the purge deletes: failed ones, or completed ones that nothing rests on.
Sparing(ids) ==
  /\ \A i \in ids : txSt[i] = "completed" /\ coin[i] # Unspent
  /\ \A t \in Wtx : Rests(t) => Inputs[t] \cap ids = {}
  /\ \A t \in Wtx : MayFail(t) => Inputs[t] \cap ids = {}
PurgeSpares ==
  /\ purge.pc = "spenders" => Sparing(purge.ids)
  /\ purge.pc \in Deleting =>
       \/ \A i \in purge.ids : txSt[i] = "failed"
       \/ Sparing(purge.ids) /\ \A t \in Wtx : coin[t] \notin purge.ids
  /\ purge.pc \in {"back", "rows"} => \A i \in purge.ids : coin[i] = NoOutput

\* The beef of the purge: what it reads is proven, and what it leaves is needed by none
\* of the Old actions, those that were there when the outputs were read.
ReachedBy(r, utxos, x) ==
  r.beef[x] # "no" \/ x \in utxos \/ x \in Visiting(r) \/ InStack(r.stack, x)
Reached(x) == ReachedBy(rd["purge"], purge.utxos, x)
Spent == {i \in aged : txSt[i] = "completed"}
GoesOn(r) ==
  /\ BeefOK(r) /\ r.mode = "purge" /\ r.pc \in {"proven", "req", "next", "done"}
  /\ \A n \in 1..Len(r.stack) : r.stack[n].by = "storage"
  /\ r.pc = "proven" => provable[r.at]
  /\ r.pc = "req" => reqSt[r.at] \in Usable /\ (brought[r.at] = "change" => \A i \in Inputs[r.at] : provable[i])
  /\ \A i \in Wtx : InStack(r.stack, i) => provable[i] \/ r.beef[i] # "no"
  /\ \A x \in Wtx : r.beef[x] # "only" /\ (r.beef[x] = "bump" => Mined(x))
ReadsOn == GoesOn(rd["purge"]) /\ \A x \in purge.utxos : provable[x]
Covers ==
  /\ \A i \in Spent : coin[i] = Unspent => Reached(i)
  /\ \E Old \in SUBSET {t \in Wtx : txSt[t] \notin {"new", "unsigned"}} :
       /\ \A d \in Wtx : MayFail(d) => d \in Old \/ \A i \in Inputs[d] \cap Spent : Reached(i)
       /\ \A d \in Old : MayFail(d) => Reached(d) \/ coin[d] \in Old

BookInv == BookTypes /\ RowsAgree /\ SpendsAgree /\ InputsThere /\ PurgeSpares
PurgeInv == BookInv /\ (purge.pc = "beef" => ReadsOn /\ Covers)

-----------------------------------------------------------------------------
(* What rests on what.                                                     *)

\* Below: a transaction is numbered after what it spends.
LEMMA InputsBelow ==
  ASSUME NEW t \in Wtx, NEW i \in Inputs[t]
  PROVE  i \in Wtx /\ i < t /\ i \in Nat /\ t \in Nat /\ i # t
BY BeefsAssumption

LEMMA UnderExists ==
  \E g : g = [t \in Wtx |-> {t} \cup UNION {g[i] : i \in Inputs[t]}]
<1> DEFINE Grown(S) == \A y \in S : Inputs[y] \subseteq S
           g == [t \in Wtx |-> {x \in Wtx : \A S \in SUBSET Wtx : t \in S /\ Grown(S) => x \in S}]
           h == [t \in Wtx |-> {t} \cup UNION {g[i] : i \in Inputs[t]}]
<1>1. \A t \in Wtx : t \in g[t] /\ g[t] \subseteq Wtx /\ Grown(g[t])
  BY BeefsAssumption
<1>2. \A t \in Wtx : \A S \in SUBSET Wtx : t \in S /\ Grown(S) => g[t] \subseteq S
  OBVIOUS
<1> HIDE DEF g
<1>3. ASSUME NEW t \in Wtx PROVE g[t] = {t} \cup UNION {g[i] : i \in Inputs[t]}
  <2> DEFINE S == {t} \cup UNION {g[i] : i \in Inputs[t]}
  <2>1. Inputs[t] \subseteq Wtx
    BY BeefsAssumption
  <2>2. S \subseteq Wtx /\ t \in S
    BY <1>1, <2>1
  <2>3. Grown(S)
    <3>1. Inputs[t] \subseteq S
      BY <1>1, <2>1
    <3>2. ASSUME NEW i \in Inputs[t], NEW y \in g[i] PROVE Inputs[y] \subseteq S
      BY <1>1, <2>1, <3>2
    <3> QED BY <3>1, <3>2
  <2>4. g[t] \subseteq S
    BY <1>2, <2>2, <2>3
  <2>5. ASSUME NEW i \in Inputs[t] PROVE g[i] \subseteq g[t]
    <3>1. i \in g[t] /\ Grown(g[t]) /\ g[t] \subseteq Wtx
      BY <1>1
    <3> QED BY <1>2, <2>1, <3>1
  <2>6. S \subseteq g[t]
    BY <1>1, <2>5
  <2> QED BY <2>4, <2>6
<1>4. g = h
  <2>1. \A t \in Wtx : g[t] = h[t]
    BY <1>3
  <2>2. g = [t \in Wtx |-> g[t]]
    BY DEF g
  <2> QED BY <2>1, <2>2
<1> QED BY <1>4

LEMMA UnderIs ==
  ASSUME NEW t \in Wtx
  PROVE  under[t] = {t} \cup UNION {under[i] : i \in Inputs[t]}
<1> DEFINE F(g) == [x \in Wtx |-> {x} \cup UNION {g[i] : i \in Inputs[x]}]
<1>1. under = CHOOSE g : g = F(g)
  BY DEF under
<1>2. \E g : g = F(g)
  BY UnderExists
<1>3. under = F(under)
  <2> HIDE DEF F
  <2> QED BY <1>1, <1>2
<1>4. under[t] = F(under)[t]
  BY <1>3
<1> QED BY <1>4

\* A least transaction that is not as it should be, is not there.
LEMMA LeastWtx ==
  ASSUME NEW T, T \subseteq Wtx, T # {}
  PROVE  \E t \in T : t \in Wtx /\ \A i \in Inputs[t] : i \in Wtx /\ i \notin T
<1>1. T \subseteq Nat
  BY BeefsAssumption
<1>2. Min(T) \in T /\ \A m \in T : Min(T) <= m
  BY <1>1, LeastExists
<1>3. \A i \in Inputs[Min(T)] : i \in Wtx /\ i < Min(T) /\ i \in Nat /\ Min(T) \in Nat
  BY <1>2, InputsBelow
<1>4. \A i \in Inputs[Min(T)] : i \notin T
  BY <1>2, <1>3
<1> QED BY <1>2, <1>3, <1>4

LEMMA UnderSelf ==
  ASSUME NEW t \in Wtx
  PROVE  t \in under[t] /\ \A i \in Inputs[t] : under[i] \subseteq under[t]
BY UnderIs

LEMMA UnderWtx ==
  ASSUME NEW t \in Wtx
  PROVE  under[t] \subseteq Wtx
<1> DEFINE T == {x \in Wtx : ~(under[x] \subseteq Wtx)}
<1>1. T = {}
  <2> SUFFICES ASSUME T # {} PROVE FALSE
    OBVIOUS
  <2>1. PICK x \in T : x \in Wtx /\ \A i \in Inputs[x] : i \in Wtx /\ i \notin T
    <3>1. T \subseteq Wtx
      OBVIOUS
    <3> HIDE DEF T
    <3> QED BY <3>1, LeastWtx
  <2>2. \A i \in Inputs[x] : under[i] \subseteq Wtx
    BY <2>1
  <2> QED BY <2>1, <2>2, UnderIs
<1> QED BY <1>1

LEMMA UnderDown ==
  ASSUME NEW t \in Wtx, NEW y \in under[t]
  PROVE  y \in Wtx /\ Inputs[y] \subseteq under[t]
<1> DEFINE T == {x \in Wtx : \E z \in under[x] : ~(Inputs[z] \subseteq under[x])}
<1>1. T = {}
  <2> SUFFICES ASSUME T # {} PROVE FALSE
    OBVIOUS
  <2>1. PICK x \in T : x \in Wtx /\ \A i \in Inputs[x] : i \in Wtx /\ i \notin T
    <3>1. T \subseteq Wtx
      OBVIOUS
    <3> HIDE DEF T
    <3> QED BY <3>1, LeastWtx
  <2>2. PICK z \in under[x] : ~(Inputs[z] \subseteq under[x])
    OBVIOUS
  <2>3. CASE z = x
    <3>1. \A i \in Inputs[x] : i \in under[x]
      BY <2>1, UnderSelf
    <3> QED BY <2>2, <2>3, <3>1
  <2>4. CASE z # x
    <3>1. PICK i \in Inputs[x] : z \in under[i]
      BY <2>1, <2>4, UnderIs
    <3>2. Inputs[z] \subseteq under[i]
      BY <2>1, <3>1
    <3> QED BY <2>1, <2>2, <3>1, <3>2, UnderSelf
  <2> QED BY <2>3, <2>4
<1> QED BY <1>1, UnderWtx

\* What is under it, and is not it, is spent by something under it.
LEMMA UnderUp ==
  ASSUME NEW t \in Wtx, NEW y \in under[t], y # t
  PROVE  \E z \in under[t] : y \in Inputs[z]
<1> DEFINE T == {x \in Wtx : \E u \in under[x] : u # x /\ \A z \in under[x] : u \notin Inputs[z]}
<1>1. T = {}
  <2> SUFFICES ASSUME T # {} PROVE FALSE
    OBVIOUS
  <2>1. PICK x \in T : x \in Wtx /\ \A i \in Inputs[x] : i \in Wtx /\ i \notin T
    <3>1. T \subseteq Wtx
      OBVIOUS
    <3> HIDE DEF T
    <3> QED BY <3>1, LeastWtx
  <2>2. PICK u \in under[x] : u # x /\ \A z \in under[x] : u \notin Inputs[z]
    OBVIOUS
  <2>3. PICK i \in Inputs[x] : u \in under[i]
    BY <2>1, <2>2, UnderIs
  <2>4. u # i
    BY <2>1, <2>2, UnderSelf
  <2>5. PICK z \in under[i] : u \in Inputs[z]
    BY <2>1, <2>3, <2>4
  <2> QED BY <2>1, <2>2, <2>3, <2>5, UnderSelf
<1> QED BY <1>1

Lost == {"failed", "wiped"}

\* Sound: nothing under it is lost.
LEMMA SoundFun ==
  ASSUME NEW st, NEW f, f = CHOOSE g : g = [t \in Wtx |-> st[t] \notin Lost /\ \A i \in Inputs[t] : g[i]]
  PROVE  \A t \in Wtx : f[t] <=> \A x \in under[t] : st[x] \notin Lost
<1> DEFINE F(g) == [t \in Wtx |-> st[t] \notin Lost /\ \A i \in Inputs[t] : g[i]]
           h == [t \in Wtx |-> \A x \in under[t] : st[x] \notin Lost]
<1>1. \A t \in Wtx : h[t] = (st[t] \notin Lost /\ \A i \in Inputs[t] : h[i])
  <2> TAKE t \in Wtx
  <2>1. \A i \in Inputs[t] : i \in Wtx
    BY InputsBelow
  <2>2. under[t] = {t} \cup UNION {under[i] : i \in Inputs[t]}
    BY UnderIs
  <2>3. (\A x \in under[t] : st[x] \notin Lost)
          <=> (st[t] \notin Lost /\ \A i \in Inputs[t] : \A x \in under[i] : st[x] \notin Lost)
    BY <2>2
  <2> QED BY <2>1, <2>3
<1>2. h = F(h)
  <2>1. \A t \in Wtx : h[t] = F(h)[t]
    BY <1>1
  <2> QED BY <2>1
<1>3. f = F(f)
  <2>1. f = CHOOSE g : g = F(g)
    OBVIOUS
  <2>2. \E g : g = F(g)
    <3> HIDE DEF F, h
    <3> QED BY <1>2
  <2> HIDE DEF F
  <2> QED BY <2>1, <2>2
<1>4. \A t \in Wtx : f[t] <=> (st[t] \notin Lost /\ \A i \in Inputs[t] : f[i])
  BY <1>3
<1> DEFINE T == {t \in Wtx : ~(f[t] <=> h[t])}
<1>5. T = {}
  <2> SUFFICES ASSUME T # {} PROVE FALSE
    OBVIOUS
  <2> HIDE DEF h
  <2>1. PICK x \in T : x \in Wtx /\ \A i \in Inputs[x] : i \in Wtx /\ i \notin T
    <3>1. T \subseteq Wtx
      OBVIOUS
    <3> HIDE DEF T
    <3> QED BY <3>1, LeastWtx
  <2>2. \A i \in Inputs[x] : f[i] <=> h[i]
    BY <2>1
  <2>3. f[x] <=> h[x]
    BY <1>1, <1>4, <2>1, <2>2
  <2> QED BY <2>3
<1> QED BY <1>5

LEMMA SoundIs ==
  ASSUME NEW t \in Wtx
  PROVE  sound[t] <=> \A x \in under[t] : txSt[x] \notin Lost
<1>1. sound = CHOOSE g : g = [x \in Wtx |-> txSt[x] \notin Lost /\ \A i \in Inputs[x] : g[i]]
  BY DEF sound, Lost
<1> QED BY <1>1, SoundFun

LEMMA SoundIsNext ==
  ASSUME NEW t \in Wtx
  PROVE  sound'[t] <=> \A x \in under[t] : txSt'[x] \notin Lost
<1>1. sound' = CHOOSE g : g = [x \in Wtx |-> txSt'[x] \notin Lost /\ \A i \in Inputs[x] : g[i]]
  BY DEF sound, Lost
<1> QED BY <1>1, SoundFun

-----------------------------------------------------------------------------
(* What storage can prove.                                                 *)

ProvableRule(pt, rq, br, g) ==
  [t \in Wtx |-> t \in pt \/ (rq[t] \in Usable /\ (br[t] # "change" \/ \A i \in Inputs[t] : g[i]))]

\* Provable: the least of what the rule allows.
LEMMA ProvableExists ==
  ASSUME NEW pt, NEW rq, NEW br
  PROVE  \E g : g = ProvableRule(pt, rq, br, g)
<1> DEFINE G(S) == {t \in Wtx : t \in pt \/ (rq[t] \in Usable /\ (br[t] # "change" \/ Inputs[t] \subseteq S))}
           P == {t \in Wtx : \A S \in SUBSET Wtx : G(S) \subseteq S => t \in S}
           h == [t \in Wtx |-> t \in P]
<1>1. G(P) \subseteq P
  <2>1. ASSUME NEW t \in G(P), NEW S \in SUBSET Wtx, G(S) \subseteq S PROVE t \in S
    <3>1. P \subseteq S
      BY <2>1
    <3>2. t \in G(S)
      <4> HIDE DEF P
      <4> QED BY <3>1
    <3> QED BY <2>1, <3>2
  <2>2. G(P) \subseteq Wtx
    OBVIOUS
  <2> HIDE DEF G
  <2> QED BY <2>1, <2>2
<1>2. P \subseteq G(P)
  <2>1. G(G(P)) \subseteq G(P)
    <3> HIDE DEF P
    <3> QED BY <1>1
  <2>2. G(P) \in SUBSET Wtx
    <3> HIDE DEF P
    <3> QED OBVIOUS
  <2>3. ASSUME NEW t \in P PROVE t \in G(P)
    <3>1. \A S \in SUBSET Wtx : G(S) \subseteq S => t \in S
      OBVIOUS
    <3> HIDE DEF P, G
    <3> QED BY <2>1, <2>2, <3>1
  <2> HIDE DEF P, G
  <2> QED BY <2>3
<1>3. \A t \in Wtx : t \in P <=> t \in pt \/ (rq[t] \in Usable /\ (br[t] # "change" \/ Inputs[t] \subseteq P))
  <2> HIDE DEF P
  <2> QED BY <1>1, <1>2
<1>4. \A t \in Wtx : Inputs[t] \subseteq P <=> \A i \in Inputs[t] : h[i]
  <2>1. \A t \in Wtx : \A i \in Inputs[t] : i \in Wtx
    BY InputsBelow
  <2> HIDE DEF P
  <2> QED BY <2>1
<1>5. \A t \in Wtx : h[t] = (t \in pt \/ (rq[t] \in Usable /\ (br[t] # "change" \/ \A i \in Inputs[t] : h[i])))
  <2> TAKE t \in Wtx
  <2>1. h[t] = (t \in P)
    OBVIOUS
  <2> HIDE DEF P, h
  <2> QED BY <1>3, <1>4, <2>1
<1>6. h = [t \in Wtx |-> t \in pt \/ (rq[t] \in Usable /\ (br[t] # "change" \/ \A i \in Inputs[t] : h[i]))]
  <2>1. h = [t \in Wtx |-> h[t]]
    OBVIOUS
  <2> HIDE DEF h
  <2> QED BY <1>5, <2>1
<1> HIDE DEF h
<1> QED BY <1>6 DEF ProvableRule

LEMMA ProvableIs ==
  ASSUME NEW t \in Wtx
  PROVE  provable[t] <=> t \in provenTxs \/ (reqSt[t] \in Usable
                           /\ (brought[t] # "change" \/ \A i \in Inputs[t] : provable[i]))
<1>1. provable = CHOOSE g : g = ProvableRule(provenTxs, reqSt, brought, g)
  BY DEF provable, ProvableRule
<1>2. provable = ProvableRule(provenTxs, reqSt, brought, provable)
  BY <1>1, ProvableExists
<1>3. provable[t] = ProvableRule(provenTxs, reqSt, brought, provable)[t]
  BY <1>2
<1> QED BY <1>3 DEF ProvableRule

LEMMA ProvableIsNext ==
  ASSUME NEW t \in Wtx
  PROVE  provable'[t] <=> t \in provenTxs' \/ (reqSt'[t] \in Usable
                           /\ (brought'[t] # "change" \/ \A i \in Inputs[t] : provable'[i]))
<1>1. provable' = CHOOSE g : g = ProvableRule(provenTxs', reqSt', brought', g)
  BY DEF provable, ProvableRule
<1>2. provable' = ProvableRule(provenTxs', reqSt', brought', provable')
  BY <1>1, ProvableExists
<1>3. provable'[t] = ProvableRule(provenTxs', reqSt', brought', provable')[t]
  BY <1>2
<1> QED BY <1>3 DEF ProvableRule

\* Nothing is forgotten, so what is provable stays provable.
LEMMA ProvableStays ==
  ASSUME provenTxs \subseteq provenTxs',
         \A x \in Wtx : reqSt[x] \in Usable => reqSt'[x] \in Usable /\ brought'[x] = brought[x],
         NEW t \in Wtx, provable[t]
  PROVE  provable'[t]
<1> DEFINE T == {x \in Wtx : provable[x] /\ ~provable'[x]}
<1>1. T = {}
  <2> SUFFICES ASSUME T # {} PROVE FALSE
    OBVIOUS
  <2>1. PICK x \in T : x \in Wtx /\ \A i \in Inputs[x] : i \in Wtx /\ i \notin T
    <3>1. T \subseteq Wtx
      OBVIOUS
    <3> HIDE DEF T
    <3> QED BY <3>1, LeastWtx
  <2>2. provable[x] /\ ~provable'[x] /\ \A i \in Inputs[x] : provable[i] => provable'[i]
    BY <2>1
  <2>3. x \in provenTxs \/ (reqSt[x] \in Usable /\ (brought[x] # "change" \/ \A i \in Inputs[x] : provable[i]))
    BY <2>1, <2>2, ProvableIs
  <2>4. ~(x \in provenTxs' \/ (reqSt'[x] \in Usable /\ (brought'[x] # "change" \/ \A i \in Inputs[x] : provable'[i])))
    BY <2>1, <2>2, ProvableIsNext
  <2> QED BY <2>1, <2>2, <2>3, <2>4
<1> QED BY <1>1

\* What an old one rests on is older.
LEMMA OlderUnder ==
  ASSUME SpendsAgree, NEW c \in Wtx, txSt[c] # "new", NEW x \in under[c], x # c
  PROVE  txSt[x] \notin {"new", "unsigned"}
<1> DEFINE T == {d \in Wtx : txSt[d] # "new" /\ \E y \in under[d] : y # d /\ txSt[y] \in {"new", "unsigned"}}
<1>1. T = {}
  <2> SUFFICES ASSUME T # {} PROVE FALSE
    OBVIOUS
  <2>1. PICK d \in T : d \in Wtx /\ \A i \in Inputs[d] : i \in Wtx /\ i \notin T
    <3>1. T \subseteq Wtx
      OBVIOUS
    <3> HIDE DEF T
    <3> QED BY <3>1, LeastWtx
  <2>2. PICK y \in under[d] : y # d /\ txSt[y] \in {"new", "unsigned"}
    OBVIOUS
  <2>3. PICK i \in Inputs[d] : y \in under[i]
    BY <2>1, <2>2, UnderIs
  <2>4. txSt[i] \notin {"new", "unsigned"}
    BY <2>1 DEF SpendsAgree
  <2> QED BY <2>1, <2>2, <2>3, <2>4
<1> QED BY <1>1

\* What an action rests on that is needed may fail, or nothing of it is mined.
LEMMA RestsFree ==
  ASSUME BookTypes, RowsAgree, SpendsAgree, NEW t \in Wtx, Rests(t)
  PROVE  MayFail(t)
<1>1. txSt[t] \in {"unsigned", "sending"} /\ t \notin provenTxs /\ (txSt[t] = "sending" => Wanted(t))
  BY DEF Rests
<1>2. ASSUME NEW c \in Wtx, t \in under[c], Mined(c) PROVE FALSE
  <2>1. c # t
    BY <1>1, <1>2 DEF Mined
  <2>2. PICK z \in under[c] : t \in Inputs[z]
    BY <1>2, <2>1, UnderUp
  <2>3. z \in Wtx /\ txSt[c] \in {"sending", "completed", "gone"} /\ sound[c]
    BY <1>2, UnderWtx DEF RowsAgree
  <2>4. txSt[z] \in {"sending", "completed", "gone"}
    <3>1. txSt[z] \notin Lost
      BY <1>2, <2>3, SoundIs
    <3>2. z # c => txSt[z] \notin {"new", "unsigned"}
      BY <2>3, OlderUnder
    <3> QED BY <2>3, <3>1, <3>2 DEF BookTypes, Stages, Lost
  <2>5. txSt[t] = "sending" /\ coin[t] \in {z, Forgotten, NoOutput}
    BY <1>1, <2>2, <2>3, <2>4 DEF SpendsAgree
  <2>6. coin[t] = z /\ MayFail(z)
    <3>1. z # 0
      BY <2>3, BeefsAssumption
    <3>2. Forgotten \notin Wtx /\ NoOutput \notin Wtx
      BY BeefsAssumption DEF Forgotten, NoOutput
    <3>3. coin[t] # Unspent
      BY <2>5, <3>1 DEF Unspent, Forgotten, NoOutput
    <3> QED BY <1>1, <2>5, <3>2, <3>3 DEF Wanted
  <2> QED BY <1>2, <2>3, <2>6 DEF MayFail, Unmined
<1> QED BY <1>1, <1>2 DEF MayFail, Unmined

\* An output that is spendable, or may be given back, can be proven.
LEMMA WantedProvable ==
  ASSUME BookTypes, RowsAgree, SpendsAgree, InputsThere, NEW t \in Wtx,
         Wanted(t), txSt[t] \in UtxoStatus, sound[t]
  PROVE  provable[t]
<1> DEFINE T == {x \in Wtx : Wanted(x) /\ txSt[x] \in UtxoStatus /\ sound[x] /\ ~provable[x]}
<1>1. T = {}
  <2> SUFFICES ASSUME T # {} PROVE FALSE
    OBVIOUS
  <2>1. PICK x \in T : x \in Wtx /\ \A i \in Inputs[x] : i \in Wtx /\ i \notin T
    <3>1. T \subseteq Wtx
      OBVIOUS
    <3> HIDE DEF T
    <3> QED BY <3>1, LeastWtx
  <2>2. Wanted(x) /\ txSt[x] \in UtxoStatus /\ sound[x] /\ ~provable[x]
    BY <2>1
  <2>3. x \notin provenTxs /\ ~(reqSt[x] \in Usable /\ brought[x] # "change")
    BY <2>1, <2>2, ProvableIs
  <2>4. txSt[x] = "sending" /\ reqSt[x] \in Usable /\ brought[x] = "change"
    BY <2>1, <2>2, <2>3 DEF RowsAgree, UtxoStatus, Usable
  <2>5. Rests(x)
    BY <2>2, <2>3, <2>4 DEF Rests
  <2>6. ASSUME NEW i \in Inputs[x] PROVE provable[i]
    <3>1. coin[i] = x /\ txSt[i] \in UtxoStatus
      BY <2>1, <2>5 DEF InputsThere
    <3>2. Wanted(i)
      BY <2>1, <2>5, <3>1, RestsFree DEF Wanted
    <3>3. sound[i]
      BY <2>1, <2>2, SoundIs, UnderSelf
    <3> QED BY <2>1, <3>1, <3>2, <3>3
  <2> QED BY <2>1, <2>2, <2>4, <2>6, ProvableIs
<1> QED BY <1>1

-----------------------------------------------------------------------------
(* What changes, and what it leaves as it is.                              *)

\* The three marks of an output are no transactions.
LEMMA Marked ==
  /\ Unspent \notin Wtx /\ NoOutput \notin Wtx /\ Forgotten \notin Wtx
  /\ Unspent # NoOutput /\ Unspent # Forgotten /\ NoOutput # Forgotten
BY BeefsAssumption DEF Unspent, NoOutput, Forgotten

LEMMA SoundBack ==
  ASSUME NEW t \in Wtx, sound'[t], \A x \in Wtx : txSt[x] \in Lost => txSt'[x] \in Lost
  PROVE  sound[t]
BY SoundIs, SoundIsNext, UnderWtx

LEMMA SoundKept ==
  ASSUME NEW t \in Wtx, sound[t], \A x \in under[t] : txSt'[x] \in Lost => txSt[x] \in Lost
  PROVE  sound'[t]
BY SoundIs, SoundIsNext, UnderWtx

\* What may happen to t and its output while its inputs stay needed.
Kept(t) ==
  /\ brought'[t] = brought[t]
  /\ txSt'[t] = "unsigned" => txSt[t] = "unsigned"
  /\ txSt'[t] = "sending" => txSt[t] = "sending"
  /\ t \in provenTxs => t \in provenTxs' \/ txSt'[t] \in {"gone", "wiped"}
SpentOn(t) ==
  \/ coin'[t] = coin[t] \/ coin[t] = Unspent \/ coin'[t] \in {NoOutput, Forgotten}
  \/ coin'[t] = Unspent /\ coin[t] \in Wtx /\ MayFail(coin[t])
\* No transaction gets unmined, found again, or made twice.
Onward ==
  \A x \in Wtx :
    /\ Mined(x) => Mined(x)'
    /\ txSt[x] \in Lost => txSt'[x] \in Lost
    /\ txSt'[x] \in {"unsigned", "sending"} => txSt[x] \in {"new", "unsigned", "sending"}

LEMMA FreeBack ==
  ASSUME Onward, NEW t \in Wtx, Unmined(t)'
  PROVE  Unmined(t)
BY DEF Onward, Unmined

LEMMA MayFailBack ==
  ASSUME Onward, NEW t \in Wtx, MayFail(t)', txSt[t] # "new"
  PROVE  MayFail(t)
BY FreeBack DEF Onward, MayFail

LEMMA WantedBack ==
  ASSUME SpendsAgree, Onward, NEW t \in Wtx, Wanted(t)', SpentOn(t)
  PROVE  Wanted(t)
<1>1. CASE coin'[t] = coin[t]
  <2>1. CASE coin[t] \in Wtx /\ MayFail(coin[t])'
    <3>1. txSt[coin[t]] # "new"
      BY <2>1 DEF SpendsAgree
    <3>2. MayFail(coin[t])
      <4>1. PICK c \in Wtx : c = coin[t]
        BY <2>1
      <4>2. MayFail(c)'
        BY <1>1, <2>1, <4>1 DEF MayFail, Unmined
      <4> QED BY <3>1, <4>1, <4>2, MayFailBack
    <3> QED BY <2>1, <3>2 DEF Wanted
  <2>2. CASE coin[t] = Unspent
    BY <2>2 DEF Wanted
  <2>3. coin[t] = Unspent \/ (coin[t] \in Wtx /\ MayFail(coin[t])')
    BY <1>1 DEF Wanted
  <2> QED BY <2>1, <2>2, <2>3
<1>2. CASE coin'[t] # coin[t]
  BY <1>2, Marked DEF SpentOn, Wanted
<1> QED BY <1>1, <1>2

LEMMA RestsBack ==
  ASSUME SpendsAgree, Onward, NEW t \in Wtx, Rests(t)', Kept(t), SpentOn(t)
  PROVE  Rests(t)
<1>1. sound[t]
  BY SoundBack DEF Rests, Onward
<1>2. txSt'[t] = "sending" => Wanted(t)
  BY WantedBack DEF Rests
<1> QED BY <1>1, <1>2 DEF Rests, Kept

-----------------------------------------------------------------------------
(* The rows, while actions are made, sent, mined and failed.               *)

LEMMA CreateBooks ==
  ASSUME BookInv, NoStub', NEW t \in Wtx, Create(t)
  PROVE  BookInv' /\ Onward
<1>1. /\ \A x \in Wtx : txSt'[x] = IF x = t THEN "unsigned" ELSE txSt[x]
      /\ \A x \in Wtx : coin'[x] = IF x \in Inputs[t] THEN t ELSE coin[x]
      /\ reqSt' = reqSt /\ provenTxs' = provenTxs /\ aged' = aged /\ purge' = purge /\ rd' = rd
      /\ txSt[t] = "new" /\ \A i \in Inputs[t] : coin[i] = Unspent /\ txSt[i] \in UtxoStatus
  BY DEF Create, BookInv, BookTypes
<1>2. PICK g \in {"change", "proof"} :
        /\ g = "proof" => Inputs[t] \subseteq provenTxs
        /\ \A x \in Wtx : brought'[x] = IF x = t THEN g ELSE brought[x]
  BY DEF Create, BookInv, BookTypes, NoStub
<1>3. BookTypes'
  BY DEF Create, BookInv, BookTypes, Stages
<1>4. \A x \in Wtx : Mined(x)' <=> Mined(x)
  BY <1>1 DEF Mined, BookInv, RowsAgree
<1>5. Onward
  BY <1>1, <1>4 DEF Onward, Lost
<1>6. \A i \in Inputs[t] : i \in Wtx /\ i # t
  BY InputsBelow
<1>7. RowsAgree'
  <2>1. \A x \in Wtx : Mined(x)' => sound'[x] /\ txSt'[x] \in {"sending", "completed", "gone"}
    <3>1. TAKE x \in Wtx
    <3>2. HAVE Mined(x)'
    <3>3. sound[x] /\ txSt[x] \in {"sending", "completed", "gone"}
      BY <1>4, <3>2 DEF BookInv, RowsAgree
    <3>4. sound'[x]
      BY <1>1, <3>3, SoundKept, UnderWtx DEF Lost
    <3> QED BY <1>1, <3>3, <3>4
  <2>2. \A x \in Wtx : x \in Inputs[t] => txSt[x] \notin {"new", "unsigned"}
    BY <1>1 DEF UtxoStatus
  <2>3. t # NoOutput
    BY Marked
  <2> QED BY <1>1, <1>2, <1>6, <2>1, <2>2, <2>3 DEF BookInv, RowsAgree
<1>8. SpendsAgree'
  <2>1. ASSUME NEW d \in Wtx, NEW i \in Inputs[d]
        PROVE  /\ txSt'[d] # "new" => txSt'[i] \notin {"new", "unsigned"}
               /\ txSt'[d] \in {"unsigned", "sending", "completed"} => coin'[i] \in {d, Forgotten, NoOutput}
               /\ txSt'[d] = "gone" => coin'[i] \in {Forgotten, NoOutput}
               /\ brought'[d] = "proof" => Mined(i)'
    <3>1. i \in Wtx /\ d # 0
      BY InputsBelow, BeefsAssumption
    <3>2. CASE d = t
      BY <1>1, <1>2, <1>4, <1>6, <3>1, <3>2 DEF UtxoStatus, Mined
    <3>3. CASE d # t
      <4>1. txSt[d] \in {"unsigned", "sending", "completed", "gone"} => i \notin Inputs[t]
        BY <1>1, <3>1, <3>3, Marked DEF BookInv, SpendsAgree
      <4> QED BY <1>1, <1>2, <1>4, <3>1, <3>3, <4>1 DEF BookInv, SpendsAgree
    <3> QED BY <3>2, <3>3
  <2>2. ASSUME NEW x \in Wtx
        PROVE  /\ coin'[x] \in Wtx => x \in Inputs[coin'[x]]
                                      /\ txSt'[coin'[x]] \in {"unsigned", "sending", "completed"}
               /\ coin'[x] = Forgotten => \E c \in Wtx : x \in Inputs[c] /\ txSt'[c] \in {"completed", "gone"}
    <3>1. CASE x \in Inputs[t]
      BY <1>1, <3>1, Marked
    <3>2. CASE x \notin Inputs[t]
      BY <1>1, <3>2 DEF BookInv, SpendsAgree
    <3> QED BY <3>1, <3>2
  <2> QED BY <2>1, <2>2 DEF SpendsAgree
<1>9. ASSUME NEW x \in Wtx, x # t, Rests(x)' PROVE Rests(x)
  <2>1. Kept(x) /\ SpentOn(x)
    BY <1>1, <1>2, <1>9 DEF Kept, SpentOn
  <2> QED BY <1>5, <1>9, <2>1, RestsBack DEF BookInv
<1>10. InputsThere'
  <2>1. ASSUME NEW x \in Wtx, Rests(x)', NEW i \in Inputs[x] PROVE coin'[i] = x /\ txSt'[i] \in UtxoStatus
    <3>1. CASE x = t
      BY <1>1, <1>6, <2>1, <3>1
    <3>2. CASE x # t
      <4>1. coin[i] = x /\ txSt[i] \in UtxoStatus /\ i \in Wtx
        BY <1>9, <2>1, <3>2, InputsBelow DEF BookInv, InputsThere
      <4>2. i \notin Inputs[t] /\ i # t
        BY <1>1, <4>1, Marked DEF UtxoStatus
      <4> QED BY <1>1, <4>1, <4>2
    <3> QED BY <3>1, <3>2
  <2> QED BY <2>1 DEF InputsThere, UtxoStatus
<1>11. ASSUME Sparing(purge.ids) PROVE Sparing(purge.ids)'
  <2>1. \A i \in purge.ids : i \in Wtx /\ i # t /\ i \notin Inputs[t]
    BY <1>1, <1>11 DEF Sparing, BookInv, BookTypes
  <2>2. \A i \in purge.ids : txSt'[i] = "completed" /\ coin'[i] # Unspent
    BY <1>1, <1>11, <2>1 DEF Sparing
  <2>3. \A x \in Wtx : Rests(x)' => Inputs[x] \cap purge.ids = {}
    BY <1>9, <1>11, <2>1 DEF Sparing
  <2>4. ASSUME NEW x \in Wtx, MayFail(x)' PROVE Inputs[x] \cap purge.ids = {}
    <3>1. CASE x = t
      BY <2>1, <3>1
    <3>2. CASE x # t
      <4>1. txSt[x] # "new"
        BY <1>1, <2>4, <3>2 DEF MayFail
      <4> QED BY <1>5, <1>11, <2>4, <4>1, MayFailBack DEF Sparing
    <3> QED BY <3>1, <3>2
  <2> QED BY <1>1, <2>2, <2>3, <2>4 DEF Sparing
<1>12. PurgeSpares'
  <2>1. (\A i \in purge.ids : txSt[i] = "failed") => \A i \in purge.ids : txSt'[i] = "failed"
    BY <1>1 DEF BookInv, BookTypes
  <2>2. Sparing(purge.ids) /\ (\A x \in Wtx : coin[x] \notin purge.ids) => \A x \in Wtx : coin'[x] \notin purge.ids
    BY <1>1 DEF Sparing
  <2>3. (\A i \in purge.ids : coin[i] = NoOutput) => \A i \in purge.ids : coin'[i] = NoOutput
    BY <1>1, Marked DEF BookInv, BookTypes
  <2> QED BY <1>1, <1>11, <2>1, <2>2, <2>3 DEF BookInv, PurgeSpares
<1> QED BY <1>3, <1>5, <1>7, <1>8, <1>10, <1>12 DEF BookInv

LEMMA ProcessBooks ==
  ASSUME BookInv, NEW t \in Wtx, Process(t)
  PROVE  BookInv' /\ Onward
<1>1. /\ \A x \in Wtx : txSt'[x] = IF x = t THEN "sending" ELSE txSt[x]
      /\ \A x \in Wtx : reqSt'[x] = IF x = t THEN "unsent" ELSE reqSt[x]
      /\ \A x \in Wtx : coin'[x] = IF x = t THEN Unspent ELSE coin[x]
      /\ brought' = brought /\ provenTxs' = provenTxs /\ aged' = aged /\ purge' = purge /\ rd' = rd
      /\ txSt[t] = "unsigned"
  BY DEF Process, BookInv, BookTypes
<1>3. BookTypes'
  BY DEF Process, BookInv, BookTypes, Stages
<1>4. \A x \in Wtx : Mined(x)' <=> Mined(x)
  BY <1>1 DEF Mined
<1>5. Onward
  BY <1>1, <1>4 DEF Onward, Lost
<1>6. \A x \in Wtx : \A i \in Inputs[x] : i \in Wtx /\ i # x
  BY InputsBelow
<1>7. RowsAgree'
  <2>1. \A x \in Wtx : Mined(x)' => sound'[x] /\ txSt'[x] \in {"sending", "completed", "gone"}
    <3>1. TAKE x \in Wtx
    <3>2. HAVE Mined(x)'
    <3>3. sound[x] /\ txSt[x] \in {"sending", "completed", "gone"}
      BY <1>4, <3>2 DEF BookInv, RowsAgree
    <3>4. sound'[x]
      BY <1>1, <3>3, SoundKept, UnderWtx DEF Lost
    <3> QED BY <1>1, <3>3, <3>4
  <2> QED BY <1>1, <2>1, Marked DEF BookInv, RowsAgree
<1>8. SpendsAgree'
  <2>1. ASSUME NEW d \in Wtx, NEW i \in Inputs[d]
        PROVE  /\ txSt'[d] # "new" => txSt'[i] \notin {"new", "unsigned"}
               /\ txSt'[d] \in {"unsigned", "sending", "completed"} => coin'[i] \in {d, Forgotten, NoOutput}
               /\ txSt'[d] = "gone" => coin'[i] \in {Forgotten, NoOutput}
               /\ brought'[d] = "proof" => Mined(i)'
    <3>1. i \in Wtx /\ i # d
      BY <1>6
    <3>2. CASE i = t
      BY <1>1, <1>4, <3>1, <3>2 DEF BookInv, SpendsAgree
    <3>3. CASE i # t
      BY <1>1, <1>4, <3>1, <3>3 DEF BookInv, SpendsAgree
    <3> QED BY <3>2, <3>3
  <2>2. ASSUME NEW x \in Wtx
        PROVE  /\ coin'[x] \in Wtx => x \in Inputs[coin'[x]]
                                      /\ txSt'[coin'[x]] \in {"unsigned", "sending", "completed"}
               /\ coin'[x] = Forgotten => \E c \in Wtx : x \in Inputs[c] /\ txSt'[c] \in {"completed", "gone"}
    <3>1. CASE x = t
      BY <1>1, <3>1, Marked
    <3>2. CASE x # t
      BY <1>1, <3>2 DEF BookInv, SpendsAgree
    <3> QED BY <3>1, <3>2
  <2> QED BY <2>1, <2>2 DEF SpendsAgree
<1>9. ASSUME NEW x \in Wtx, Rests(x)' PROVE Rests(x)
  <2>1. CASE x = t
    <3>1. sound[x]
      BY <1>5, <1>9, SoundBack DEF Rests, Onward
    <3> QED BY <1>1, <1>9, <2>1, <3>1 DEF Rests
  <2>2. CASE x # t
    <3>1. Kept(x) /\ SpentOn(x)
      BY <1>1, <2>2 DEF Kept, SpentOn
    <3> QED BY <1>5, <1>9, <3>1, RestsBack DEF BookInv
  <2> QED BY <2>1, <2>2
<1>10. InputsThere'
  <2>1. ASSUME NEW x \in Wtx, Rests(x)', NEW i \in Inputs[x] PROVE coin'[i] = x /\ txSt'[i] \in UtxoStatus
    <3>1. coin[i] = x /\ txSt[i] \in UtxoStatus /\ i \in Wtx
      BY <1>6, <1>9, <2>1 DEF BookInv, InputsThere
    <3> QED BY <1>1, <3>1 DEF UtxoStatus
  <2> QED BY <2>1 DEF InputsThere, UtxoStatus
<1>11. ASSUME Sparing(purge.ids) PROVE Sparing(purge.ids)'
  <2>1. \A i \in purge.ids : i \in Wtx /\ i # t
    BY <1>1, <1>11 DEF Sparing, BookInv, BookTypes
  <2>2. ASSUME NEW x \in Wtx, MayFail(x)' PROVE MayFail(x)
    <3>1. txSt[x] # "new"
      BY <1>1, <2>2 DEF MayFail
    <3> QED BY <1>5, <2>2, <3>1, MayFailBack
  <2> QED BY <1>1, <1>9, <1>11, <2>1, <2>2 DEF Sparing
<1>12. PurgeSpares'
  <2>1. (\A i \in purge.ids : txSt[i] = "failed") => \A i \in purge.ids : i # t /\ txSt'[i] = "failed"
    BY <1>1 DEF BookInv, BookTypes
  <2>2. (\A x \in Wtx : coin[x] \notin purge.ids) => \A x \in Wtx : coin'[x] \notin purge.ids
    BY <1>1, Marked DEF BookInv, BookTypes
  <2>3. Sparing(purge.ids) => t \notin purge.ids
    BY <1>1 DEF Sparing
  <2>4. t \notin purge.ids /\ (\A i \in purge.ids : coin[i] = NoOutput) => \A i \in purge.ids : coin'[i] = NoOutput
    BY <1>1 DEF BookInv, BookTypes
  <2> QED BY <1>1, <1>11, <2>1, <2>2, <2>3, <2>4 DEF BookInv, PurgeSpares, Deleting
<1> QED BY <1>3, <1>5, <1>7, <1>8, <1>10, <1>12 DEF BookInv

\* A transaction is found mined, by the monitor or for a caller's beef.
LEMMA MinedBooks ==
  ASSUME BookInv, NEW t \in Wtx, MayBeMined(t), t \notin provenTxs, provenTxs' = provenTxs \cup {t},
         \/ UNCHANGED <<txSt, reqSt>>
         \/ /\ txSt[t] = "sending" /\ txSt' = [txSt EXCEPT ![t] = "completed"]
            /\ reqSt' = [reqSt EXCEPT ![t] = "completed"],
         coin' = coin, brought' = brought, aged' = aged, purge' = purge,
         BookTypes'
  PROVE  BookInv' /\ Onward
<1>1. /\ \A x \in Wtx : x # t => txSt'[x] = txSt[x] /\ reqSt'[x] = reqSt[x]
      /\ \/ txSt'[t] = txSt[t] /\ reqSt'[t] = reqSt[t]
         \/ txSt[t] = "sending" /\ txSt'[t] = "completed" /\ reqSt'[t] = "completed"
  <2>1. DOMAIN txSt = Wtx /\ DOMAIN reqSt = Wtx
    BY DEF BookInv, BookTypes
  <2>2. CASE UNCHANGED <<txSt, reqSt>>
    <3>1. txSt' = txSt /\ reqSt' = reqSt
      BY <2>2
    <3> QED BY <3>1
  <2>3. CASE txSt[t] = "sending" /\ txSt' = [txSt EXCEPT ![t] = "completed"] /\ reqSt' = [reqSt EXCEPT ![t] = "completed"]
    BY <2>1, <2>3
  <2> QED BY <2>2, <2>3
<1>2. txSt[t] \in {"sending", "completed", "gone"} /\ sound[t]
  <2>1. txSt[t] \notin Lost
    BY SoundIs, UnderSelf DEF MayBeMined
  <2> QED BY <2>1 DEF MayBeMined, Lost, BookInv, BookTypes, Stages
<1>4. \A x \in Wtx : Mined(x)' <=> Mined(x) \/ x = t
  BY <1>1 DEF Mined
<1>5. Onward
  BY <1>1, <1>4 DEF Onward, Lost
<1>6. \A x \in Wtx : \A i \in Inputs[x] : i \in Wtx /\ i # x
  BY InputsBelow
<1>7. RowsAgree'
  <2>1. \A x \in Wtx : Mined(x)' => sound'[x] /\ txSt'[x] \in {"sending", "completed", "gone"}
    <3>1. TAKE x \in Wtx
    <3>2. HAVE Mined(x)'
    <3>3. sound[x] /\ txSt[x] \in {"sending", "completed", "gone"}
      BY <1>2, <1>4, <3>2 DEF BookInv, RowsAgree
    <3>4. sound'[x]
      BY <1>1, <3>3, SoundKept, UnderWtx DEF Lost
    <3> QED BY <1>1, <3>3, <3>4
  <2> QED BY <1>1, <1>2, <2>1 DEF BookInv, RowsAgree
<1>8. SpendsAgree'
  <2>1. ASSUME NEW d \in Wtx, NEW i \in Inputs[d]
        PROVE  /\ txSt'[d] # "new" => txSt'[i] \notin {"new", "unsigned"}
               /\ txSt'[d] \in {"unsigned", "sending", "completed"} => coin'[i] \in {d, Forgotten, NoOutput}
               /\ txSt'[d] = "gone" => coin'[i] \in {Forgotten, NoOutput}
               /\ brought'[d] = "proof" => Mined(i)'
    BY <1>1, <1>4, <1>6, <2>1 DEF BookInv, SpendsAgree
  <2>2. ASSUME NEW x \in Wtx
        PROVE  /\ coin'[x] \in Wtx => x \in Inputs[coin'[x]]
                                      /\ txSt'[coin'[x]] \in {"unsigned", "sending", "completed"}
               /\ coin'[x] = Forgotten => \E c \in Wtx : x \in Inputs[c] /\ txSt'[c] \in {"completed", "gone"}
    BY <1>1, <2>2 DEF BookInv, SpendsAgree
  <2> QED BY <2>1, <2>2 DEF SpendsAgree
<1>9. ASSUME NEW x \in Wtx, Rests(x)' PROVE Rests(x)
  <2>1. Kept(x) /\ SpentOn(x)
    BY <1>1 DEF Kept, SpentOn
  <2> QED BY <1>5, <1>9, <2>1, RestsBack DEF BookInv
<1>10. InputsThere'
  <2>1. ASSUME NEW x \in Wtx, Rests(x)', NEW i \in Inputs[x] PROVE coin'[i] = x /\ txSt'[i] \in UtxoStatus
    <3>1. coin[i] = x /\ txSt[i] \in UtxoStatus /\ i \in Wtx
      BY <1>6, <1>9, <2>1 DEF BookInv, InputsThere
    <3> QED BY <1>1, <3>1 DEF UtxoStatus
  <2> QED BY <2>1 DEF InputsThere, UtxoStatus
<1>11. ASSUME Sparing(purge.ids) PROVE Sparing(purge.ids)'
  <2>1. \A i \in purge.ids : i \in Wtx /\ txSt'[i] = "completed"
    BY <1>1, <1>11 DEF Sparing, BookInv, BookTypes
  <2>2. ASSUME NEW x \in Wtx, MayFail(x)' PROVE MayFail(x)
    <3>1. txSt[x] # "new"
      BY <1>1, <2>2 DEF MayFail
    <3> QED BY <1>5, <2>2, <3>1, MayFailBack
  <2> QED BY <1>1, <1>9, <1>11, <2>1, <2>2 DEF Sparing
<1>12. PurgeSpares'
  <2>1. (\A i \in purge.ids : txSt[i] = "failed") => \A i \in purge.ids : txSt'[i] = "failed"
    BY <1>1 DEF BookInv, BookTypes
  <2> QED BY <1>11, <2>1 DEF BookInv, PurgeSpares
<1> QED BY <1>5, <1>7, <1>8, <1>10, <1>12 DEF BookInv

LEMMA FailTxBooks ==
  ASSUME BookInv, ~overlapped', NEW t \in Wtx, FailTx(t)
  PROVE  BookInv' /\ Onward /\ purge.pc # "beef"
<1>1. /\ \A x \in Wtx : txSt'[x] = IF x = t THEN "failed" ELSE txSt[x]
      /\ \A x \in Wtx : x # t => reqSt'[x] = reqSt[x]
      /\ \A x \in Wtx : coin'[x] = IF coin[x] = t THEN Unspent ELSE coin[x]
      /\ brought' = brought /\ provenTxs' = provenTxs /\ aged' = aged /\ purge' = purge /\ rd' = rd
      /\ MayFail(t) /\ purge.pc # "beef"
  BY DEF FailTx, BookInv, BookTypes, MayFail
<1>2. txSt[t] \in {"unsigned", "sending"} /\ \A c \in Wtx : t \in under[c] => ~Mined(c)
  BY <1>1 DEF MayFail, Unmined
<1>3. BookTypes'
  BY DEF FailTx, BookInv, BookTypes, Stages
<1>4. \A x \in Wtx : Mined(x)' <=> Mined(x)
  BY <1>1, <1>2 DEF Mined
<1>5. Onward
  BY <1>1, <1>2, <1>4 DEF Onward, Lost
<1>6. \A x \in Wtx : \A i \in Inputs[x] : i \in Wtx /\ i # x
  BY InputsBelow
<1>7. RowsAgree'
  <2>1. \A x \in Wtx : Mined(x)' => sound'[x] /\ txSt'[x] \in {"sending", "completed", "gone"}
    <3>1. TAKE x \in Wtx
    <3>2. HAVE Mined(x)'
    <3>3. sound[x] /\ txSt[x] \in {"sending", "completed", "gone"} /\ t \notin under[x]
      BY <1>2, <1>4, <3>2 DEF BookInv, RowsAgree
    <3>4. sound'[x]
      BY <1>1, <3>3, SoundKept, UnderWtx DEF Lost
    <3>5. x # t
      BY <3>3, UnderSelf
    <3> QED BY <1>1, <3>3, <3>4, <3>5
  <2> QED BY <1>1, <1>2, <2>1, Marked DEF BookInv, RowsAgree
<1>8. SpendsAgree'
  <2>1. ASSUME NEW d \in Wtx, NEW i \in Inputs[d]
        PROVE  /\ txSt'[d] # "new" => txSt'[i] \notin {"new", "unsigned"}
               /\ txSt'[d] \in {"unsigned", "sending", "completed"} => coin'[i] \in {d, Forgotten, NoOutput}
               /\ txSt'[d] = "gone" => coin'[i] \in {Forgotten, NoOutput}
               /\ brought'[d] = "proof" => Mined(i)'
    <3>1. i \in Wtx /\ i # d
      BY <1>6
    <3>2. /\ txSt[d] # "new" => txSt[i] \notin {"new", "unsigned"}
          /\ txSt[d] \in {"unsigned", "sending", "completed"} => coin[i] \in {d, Forgotten, NoOutput}
          /\ txSt[d] = "gone" => coin[i] \in {Forgotten, NoOutput}
          /\ brought[d] = "proof" => Mined(i)
      BY DEF BookInv, SpendsAgree
    <3>3. CASE d = t
      BY <1>1, <1>2, <1>4, <3>1, <3>2, <3>3
    <3>4. CASE d # t
      BY <1>1, <1>4, <3>1, <3>2, <3>4, Marked
    <3> QED BY <3>3, <3>4
  <2>2. ASSUME NEW x \in Wtx
        PROVE  /\ coin'[x] \in Wtx => x \in Inputs[coin'[x]]
                                      /\ txSt'[coin'[x]] \in {"unsigned", "sending", "completed"}
               /\ coin'[x] = Forgotten => \E c \in Wtx : x \in Inputs[c] /\ txSt'[c] \in {"completed", "gone"}
    <3>1. CASE coin[x] = t
      BY <1>1, <3>1, Marked
    <3>2. CASE coin[x] # t
      BY <1>1, <1>2, <3>2 DEF BookInv, SpendsAgree
    <3> QED BY <3>1, <3>2
  <2> QED BY <2>1, <2>2 DEF SpendsAgree
<1>9. ASSUME NEW x \in Wtx, Rests(x)' PROVE Rests(x)
  <2>1. Kept(x) /\ SpentOn(x)
    BY <1>1 DEF Kept, SpentOn
  <2> QED BY <1>5, <1>9, <2>1, RestsBack DEF BookInv
<1>10. InputsThere'
  <2>1. ASSUME NEW x \in Wtx, Rests(x)', NEW i \in Inputs[x] PROVE coin'[i] = x /\ txSt'[i] \in UtxoStatus
    <3>1. coin[i] = x /\ txSt[i] \in UtxoStatus /\ i \in Wtx
      BY <1>6, <1>9, <2>1 DEF BookInv, InputsThere
    <3>2. i # t
      <4>1. i \in under[x] /\ sound'[x]
        BY <2>1, UnderSelf, <3>1 DEF Rests
      <4>2. txSt'[i] \notin Lost
        BY <4>1, SoundIsNext
      <4> QED BY <1>1, <4>2 DEF Lost
    <3>3. x # t
      BY <1>1, <2>1 DEF Rests
    <3> QED BY <1>1, <3>1, <3>2, <3>3
  <2> QED BY <2>1 DEF InputsThere, UtxoStatus
<1>12. PurgeSpares'
  <2>1. (\A i \in purge.ids : coin[i] = NoOutput) => \A i \in purge.ids : coin'[i] = NoOutput
    BY <1>1, Marked DEF BookInv, BookTypes
  <2>2. ASSUME NEW x \in Wtx, MayFail(x)' PROVE MayFail(x)
    <3>1. txSt[x] # "new"
      BY <1>1, <1>2, <2>2 DEF MayFail
    <3> QED BY <1>5, <2>2, <3>1, MayFailBack
  <2>3. ASSUME Sparing(purge.ids) PROVE Sparing(purge.ids)'
    <3>1. \A i \in purge.ids : i \in Wtx /\ i # t /\ i \notin Inputs[t]
      BY <1>1, <1>2, <2>3 DEF Sparing, BookInv, BookTypes
    <3>2. \A i \in purge.ids : coin[i] # t
      BY <3>1, <1>2 DEF BookInv, SpendsAgree
    <3>3. \A i \in purge.ids : txSt'[i] = "completed" /\ coin'[i] # Unspent
      BY <1>1, <2>3, <3>1, <3>2 DEF Sparing
    <3> QED BY <1>1, <1>9, <2>2, <2>3, <3>3 DEF Sparing
  <2>4. (\A i \in purge.ids : txSt[i] = "failed") => \A i \in purge.ids : txSt'[i] = "failed"
    BY <1>1 DEF BookInv, BookTypes
  <2>5. (\A x \in Wtx : coin[x] \notin purge.ids) => \A x \in Wtx : coin'[x] \notin purge.ids
    BY <1>1, Marked DEF BookInv, BookTypes
  <2> QED BY <1>1, <2>1, <2>2, <2>3, <2>4, <2>5 DEF BookInv, PurgeSpares
<1> QED BY <1>1, <1>3, <1>5, <1>7, <1>8, <1>10, <1>12 DEF BookInv

\* The rows stay as they are, but some grow old, and reqs and proofs may go that none of
\* them refers to.
LEMMA SameBooks ==
  ASSUME BookInv, BookTypes', UNCHANGED <<txSt, coin, brought>>,
         \A x \in Wtx : txSt[x] \in {"new", "unsigned", "sending"} => reqSt'[x] = reqSt[x],
         provenTxs' \subseteq provenTxs,
         \A x \in provenTxs : x \in provenTxs' \/ txSt[x] \in {"gone", "wiped"},
         \A t \in aged' : t \in aged \/ txSt[t] \in {"completed", "failed"}
  PROVE  /\ (RowsAgree /\ SpendsAgree /\ InputsThere)' /\ Onward
         /\ \A ids : Sparing(ids) => Sparing(ids)'
<1>1. txSt' = txSt /\ coin' = coin /\ brought' = brought
  OBVIOUS
<1>4. \A x \in Wtx : Mined(x)' <=> Mined(x)
  <2>1. \A x \in Wtx : Mined(x) => txSt[x] # "wiped"
    BY DEF BookInv, RowsAgree
  <2> QED BY <1>1, <2>1 DEF Mined
<1>5. Onward
  BY <1>1, <1>4 DEF Onward, Lost
<1>6. \A x \in Wtx : sound[x] => sound'[x]
  BY <1>1, SoundKept
<1>7. RowsAgree'
  <2>1. \A x \in Wtx : txSt[x] = "completed" => x \in provenTxs'
    BY DEF BookInv, RowsAgree
  <2> QED BY <1>1, <1>4, <1>6, <2>1 DEF BookInv, RowsAgree
<1>8. SpendsAgree'
  <2>2. \A d \in Wtx : \A i \in Inputs[d] : brought[d] = "proof" => Mined(i)'
    BY <1>4, InputsBelow DEF BookInv, SpendsAgree
  <2> QED BY <1>1, <2>2 DEF BookInv, SpendsAgree
<1>9. ASSUME NEW x \in Wtx, Rests(x)' PROVE Rests(x)
  <2>1. Kept(x) /\ SpentOn(x)
    BY <1>1 DEF Kept, SpentOn
  <2> QED BY <1>5, <1>9, <2>1, RestsBack DEF BookInv
<1>10. InputsThere'
  BY <1>1, <1>9 DEF BookInv, InputsThere
<1>11. ASSUME NEW x \in Wtx, MayFail(x)' PROVE MayFail(x)
  <2>1. txSt[x] # "new"
    BY <1>1, <1>11 DEF MayFail
  <2> QED BY <1>5, <1>11, <2>1, MayFailBack
<1>12. \A ids : Sparing(ids) => Sparing(ids)'
  BY <1>1, <1>9, <1>11 DEF Sparing
<1> QED BY <1>5, <1>7, <1>8, <1>10, <1>12

-----------------------------------------------------------------------------
(* The rows, while the purge deletes some.                                 *)

\* Age, and the steps of the purge that delete no transaction and no output.
LEMMA QuietBooks ==
  ASSUME BookInv, \/ \E t \in Wtx : Age(t)
                  \/ PurgeStart \/ PurgeCompleted \/ PurgeFailedRows \/ PurgeReqs \/ PurgeOrphans \/ PurgeStops
  PROVE  BookInv' /\ Onward
<1>1. /\ txSt' = txSt /\ coin' = coin /\ brought' = brought
      /\ \A x \in Wtx : reqSt'[x] = reqSt[x] \/ (reqSt[x] \in {"completed", "invalid"} /\ reqSt'[x] = "none")
      /\ reqSt' \in [Wtx -> {"none", "unsent", "completed", "invalid"}]
      /\ provenTxs' \subseteq provenTxs
      /\ \A x \in provenTxs : x \in provenTxs' \/ txSt[x] \in {"gone", "wiped"}
      /\ aged' \subseteq Wtx /\ \A t \in aged' : t \in aged \/ txSt[t] \in {"completed", "failed"}
  <2>1. CASE \E t \in Wtx : Age(t)
    <3>1. PICK t \in Wtx : Age(t)
      BY <2>1
    <3> QED BY <3>1 DEF BookInv, BookTypes, Age
  <2>2. CASE PurgeStart \/ PurgeFailedRows \/ PurgeStops
    BY <2>2 DEF BookInv, BookTypes, PurgeStart, PurgeFailedRows, PurgeStops, Turn, bookVars
  <2>3. CASE PurgeCompleted
    BY <2>3 DEF BookInv, BookTypes, PurgeCompleted, Turn
  <2>4. CASE PurgeReqs
    BY <2>4 DEF BookInv, BookTypes, PurgeReqs, Turn
  <2>5. CASE PurgeOrphans
    BY <2>5 DEF BookInv, BookTypes, PurgeOrphans, Turn
  <2> QED BY <2>1, <2>2, <2>3, <2>4, <2>5
<1>2. \A x \in Wtx : txSt[x] \in {"new", "unsigned", "sending"} => reqSt'[x] = reqSt[x]
  BY <1>1 DEF BookInv, RowsAgree
<1>4. /\ DOMAIN purge' = {"pc", "opts", "utxos", "ids"} /\ purge'.utxos \subseteq Wtx /\ purge'.ids \subseteq Wtx
      /\ \/ purge' = purge
         \/ purge'.pc \in {"idle", "completed", "failed", "utxos"}
         \/ purge'.pc = "outputs" /\ \A i \in purge'.ids : txSt[i] = "failed"
  <2>1. CASE PurgeStart \/ PurgeOrphans \/ PurgeStops
    <3>1. CASE PurgeStart
      <4>1. PICK o : purge' = [NoPurge EXCEPT !.opts = o, !.pc = "completed"]
        BY <3>1 DEF PurgeStart
      <4> QED BY <4>1 DEF NoPurge
    <3>2. CASE PurgeOrphans \/ PurgeStops
      BY <3>2 DEF PurgeOrphans, PurgeStops, Turn, NoPurge
    <3> QED BY <2>1, <3>1, <3>2
  <2>2. CASE PurgeCompleted \/ PurgeReqs
    BY <2>2 DEF PurgeCompleted, PurgeReqs, Turn, BookInv, BookTypes
  <2>3. CASE PurgeFailedRows
    BY <2>3 DEF PurgeFailedRows, Turn, BookInv, BookTypes
  <2>4. CASE \E t \in Wtx : Age(t)
    BY <2>4 DEF Age, BookInv, BookTypes
  <2> QED BY <2>1, <2>2, <2>3, <2>4
<1>5. /\ DOMAIN rd' = Readers /\ DOMAIN rd'["purge"] = {"mode", "pc", "at", "beef", "stack"}
      /\ rd'["purge"].mode \in {"none", "purge"}
  <2>1. rd' = rd \/ rd' = [rd EXCEPT !["purge"] = NoRead]
    BY DEF Age, PurgeStart, PurgeCompleted, PurgeFailedRows, PurgeReqs, PurgeOrphans, PurgeStops
  <2> QED BY <2>1 DEF BookInv, BookTypes, NoRead, Readers
<1>6. BookTypes'
  BY <1>1, <1>4, <1>5 DEF BookInv, BookTypes
<1>7. (RowsAgree /\ SpendsAgree /\ InputsThere)' /\ Onward /\ \A ids : Sparing(ids) => Sparing(ids)'
  BY <1>1, <1>2, <1>6, SameBooks
<1>8. PurgeSpares'
  <2>1. CASE purge' = purge
    BY <1>1, <1>7, <2>1 DEF BookInv, PurgeSpares
  <2>2. CASE purge'.pc \in {"idle", "completed", "failed", "utxos"}
    BY <2>2 DEF PurgeSpares, Deleting
  <2>3. CASE purge'.pc = "outputs" /\ \A i \in purge'.ids : txSt[i] = "failed"
    BY <1>1, <2>3 DEF PurgeSpares, Deleting
  <2> QED BY <1>4, <2>1, <2>2, <2>3
<1> QED BY <1>6, <1>7, <1>8 DEF BookInv

\* The outputs of what is deleted: none of them is needed.
LEMMA OutputsBooks ==
  ASSUME BookInv, PurgeOutputs
  PROVE  BookInv' /\ Onward
<1>1. /\ txSt' = txSt /\ reqSt' = reqSt /\ provenTxs' = provenTxs /\ brought' = brought /\ aged' = aged /\ rd' = rd
      /\ \A x \in Wtx : coin'[x] = IF x \in purge.ids THEN NoOutput ELSE coin[x]
      /\ purge' = [purge EXCEPT !.pc = "back"] /\ purge.pc = "outputs"
  BY DEF PurgeOutputs, Turn
<1>2. DOMAIN purge' = DOMAIN purge /\ purge'.pc = "back" /\ purge'.ids = purge.ids /\ purge'.utxos = purge.utxos
  BY <1>1 DEF BookInv, BookTypes
<1>3. BookTypes'
  <2>1. coin' \in [Wtx -> Wtx \cup {Unspent, NoOutput, Forgotten}]
    BY DEF PurgeOutputs, BookInv, BookTypes
  <2> QED BY <1>1, <1>2, <2>1 DEF BookInv, BookTypes
<1>4. \A x \in Wtx : Mined(x)' <=> Mined(x)
  BY <1>1 DEF Mined
<1>5. Onward
  BY <1>1, <1>4 DEF Onward, Lost
<1>6. purge.ids \subseteq Wtx /\ (\/ \A i \in purge.ids : txSt[i] = "failed"
                                  \/ Sparing(purge.ids) /\ \A t \in Wtx : coin[t] \notin purge.ids)
  BY <1>1 DEF BookInv, BookTypes, PurgeSpares, Deleting
<1>7. RowsAgree'
  <2>1. \A x \in Wtx : sound[x] => sound'[x]
    BY <1>1, SoundKept
  <2>2. \A x \in purge.ids : txSt[x] # "sending"
    BY <1>6 DEF Sparing
  <2> QED BY <1>1, <1>4, <2>1, <2>2 DEF BookInv, RowsAgree
<1>8. SpendsAgree'
  <2>1. \A d \in Wtx : \A i \in Inputs[d] : i \in Wtx /\ (brought[d] = "proof" => Mined(i)')
    BY <1>4, InputsBelow DEF BookInv, SpendsAgree
  <2>2. \A x \in Wtx : coin'[x] # NoOutput => coin'[x] = coin[x]
    BY <1>1
  <2>3. \A x \in Wtx : coin[x] = NoOutput => coin'[x] = NoOutput
    BY <1>1
  <2>4. \A d \in Wtx : \A i \in Inputs[d] :
          /\ txSt'[d] # "new" => txSt'[i] \notin {"new", "unsigned"}
          /\ txSt'[d] \in {"unsigned", "sending", "completed"} => coin'[i] \in {d, Forgotten, NoOutput}
          /\ txSt'[d] = "gone" => coin'[i] \in {Forgotten, NoOutput}
    BY <1>1, <2>1, <2>2 DEF BookInv, SpendsAgree
  <2>5. \A x \in Wtx :
          /\ coin'[x] \in Wtx => x \in Inputs[coin'[x]] /\ txSt'[coin'[x]] \in {"unsigned", "sending", "completed"}
          /\ coin'[x] = Forgotten => \E c \in Wtx : x \in Inputs[c] /\ txSt'[c] \in {"completed", "gone"}
    <3>1. TAKE x \in Wtx
    <3>2. CASE coin'[x] = NoOutput
      BY <3>2, Marked
    <3>3. CASE coin'[x] = coin[x]
      BY <1>1, <3>3 DEF BookInv, SpendsAgree
    <3> QED BY <2>2, <3>2, <3>3
  <2> QED BY <1>1, <2>1, <2>4, <2>5 DEF SpendsAgree
<1>9. ASSUME NEW x \in Wtx, Rests(x)' PROVE Rests(x)
  <2>1. Kept(x) /\ SpentOn(x)
    BY <1>1 DEF Kept, SpentOn
  <2> QED BY <1>5, <1>9, <2>1, RestsBack DEF BookInv
<1>10. InputsThere'
  <2>1. ASSUME NEW x \in Wtx, Rests(x)', NEW i \in Inputs[x] PROVE coin'[i] = x /\ txSt'[i] \in UtxoStatus
    <3>1. coin[i] = x /\ txSt[i] \in UtxoStatus /\ i \in Wtx
      BY <1>9, <2>1, InputsBelow DEF BookInv, InputsThere
    <3>2. i \notin purge.ids
      BY <1>6, <1>9, <2>1, <3>1 DEF Sparing, UtxoStatus
    <3> QED BY <1>1, <3>1, <3>2
  <2> QED BY <2>1 DEF InputsThere, UtxoStatus
<1>11. PurgeSpares'
  <2>1. \A i \in purge.ids : coin'[i] = NoOutput
    BY <1>1, <1>6
  <2>2. \A x \in Wtx : coin[x] \notin purge.ids => coin'[x] \notin purge.ids
    BY <1>1, <1>6, Marked
  <2>3. ASSUME NEW x \in Wtx, MayFail(x)' PROVE MayFail(x)
    <3>1. txSt[x] # "new"
      BY <1>1, <2>3 DEF MayFail
    <3> QED BY <1>5, <2>3, <3>1, MayFailBack
  <2>4. Sparing(purge.ids) => Sparing(purge.ids)'
    BY <1>1, <1>2, <1>9, <2>1, <2>3, Marked DEF Sparing
  <2> QED BY <1>1, <1>2, <1>6, <2>1, <2>2, <2>4 DEF PurgeSpares, Sparing
<1> QED BY <1>3, <1>5, <1>7, <1>8, <1>10, <1>11 DEF BookInv

\* What failed actions spent was brought back when they failed.
LEMMA GiveBackBooks ==
  ASSUME BookInv, PurgeGiveBack
  PROVE  BookInv' /\ Onward
<1>1. /\ txSt' = txSt /\ reqSt' = reqSt /\ provenTxs' = provenTxs /\ brought' = brought /\ aged' = aged /\ rd' = rd
      /\ purge' = [purge EXCEPT !.pc = "rows"] /\ purge.pc = "back"
  BY DEF PurgeGiveBack, Turn
<1>2. DOMAIN purge' = DOMAIN purge /\ purge'.pc = "rows" /\ purge'.ids = purge.ids /\ purge'.utxos = purge.utxos
  BY <1>1 DEF BookInv, BookTypes
<1>3. coin' = coin
  <2>1. \A x \in Wtx : coin[x] \in purge.ids => ~Failing
    BY DEF Failing, BookInv, BookTypes, SpendsAgree
  <2>2. coin' = [x \in Wtx |-> coin[x]]
    BY <2>1 DEF PurgeGiveBack
  <2> QED BY <2>2 DEF BookInv, BookTypes
<1>4. BookTypes'
  BY <1>1, <1>2, <1>3 DEF BookInv, BookTypes
<1>5. (RowsAgree /\ SpendsAgree /\ InputsThere)' /\ Onward /\ \A ids : Sparing(ids) => Sparing(ids)'
  BY <1>1, <1>3, <1>4, SameBooks
<1>6. PurgeSpares'
  BY <1>1, <1>2, <1>3, <1>5 DEF BookInv, PurgeSpares, Deleting
<1> QED BY <1>4, <1>5, <1>6 DEF BookInv

\* The rows of what is deleted: failed ones, or completed ones without output.
LEMMA RowsBooks ==
  ASSUME BookInv, PurgeRows
  PROVE  BookInv' /\ Onward
<1> DEFINE last == IF Failing THEN "wiped" ELSE "gone"
<1>1. /\ reqSt' = reqSt /\ provenTxs' = provenTxs /\ coin' = coin /\ brought' = brought /\ aged' = aged /\ rd' = rd
      /\ \A x \in Wtx : txSt'[x] = IF x \in purge.ids THEN last ELSE txSt[x]
      /\ DOMAIN purge' = DOMAIN purge /\ purge'.pc \in {"reqs", "orphans"} /\ purge'.ids = {} /\ purge'.utxos = purge.utxos
      /\ purge.pc = "rows"
  BY DEF PurgeRows, Turn, BookInv, BookTypes
<1>2. /\ purge.ids \subseteq Wtx /\ \A i \in purge.ids : coin[i] = NoOutput
      /\ \/ \A i \in purge.ids : txSt[i] = "failed"
         \/ Sparing(purge.ids) /\ \A t \in Wtx : coin[t] \notin purge.ids
  BY <1>1 DEF BookInv, BookTypes, PurgeSpares, Deleting
<1>3. \A i \in purge.ids :
        \/ (txSt[i] = "failed" /\ last = "wiped")
        \/ (txSt[i] = "completed" /\ last = "gone" /\ \A t \in Wtx : coin[t] \notin purge.ids)
  <2>1. CASE \A i \in purge.ids : txSt[i] = "failed"
    <3>1. last = "wiped"
      BY <2>1 DEF Failing
    <3> HIDE DEF last
    <3> QED BY <2>1, <3>1
  <2>2. CASE Sparing(purge.ids) /\ \A t \in Wtx : coin[t] \notin purge.ids
    <3>1. \A i \in purge.ids : last = "gone"
      BY <2>2 DEF Failing, Sparing
    <3> HIDE DEF last
    <3> QED BY <2>2, <3>1 DEF Sparing
  <2> QED BY <1>2, <2>1, <2>2
<1> HIDE DEF last
<1>4. BookTypes'
  <2>1. txSt' \in [Wtx -> Stages]
    BY DEF PurgeRows, BookInv, BookTypes, Stages
  <2> QED BY <1>1, <2>1 DEF BookInv, BookTypes
<1>5. \A x \in Wtx : Mined(x)' <=> Mined(x)
  <2>1. \A x \in purge.ids : txSt[x] = "failed" => x \notin provenTxs
    BY <1>2 DEF BookInv, RowsAgree, Mined
  <2> QED BY <1>1, <1>3, <2>1 DEF Mined
<1>6. \A x \in Wtx : txSt'[x] \in Lost <=> txSt[x] \in Lost
  BY <1>1, <1>3 DEF Lost
<1>7. Onward
  <2>1. \A x \in Wtx : txSt'[x] \in {"unsigned", "sending"} => txSt[x] = txSt'[x]
    BY <1>1, <1>3
  <2> QED BY <1>5, <1>6, <2>1 DEF Onward
<1>8. RowsAgree'
  <2>1. \A x \in Wtx : sound[x] => sound'[x]
    BY <1>6, SoundKept, UnderWtx
  <2>2. \A x \in Wtx : txSt'[x] = txSt[x] \/ (txSt[x] = "failed" /\ txSt'[x] = "wiped")
                       \/ (txSt[x] = "completed" /\ txSt'[x] = "gone")
    BY <1>1, <1>3
  <2>3. \A x \in Wtx :
          /\ txSt[x] = "completed" => x \in provenTxs
          /\ txSt[x] = "sending" => reqSt[x] = "unsent" /\ coin[x] # NoOutput
          /\ txSt[x] \in {"new", "unsigned"} => reqSt[x] = "none" /\ coin[x] = NoOutput
          /\ txSt[x] = "new" => brought[x] = "change"
          /\ x \in aged => txSt[x] \in {"completed", "failed", "wiped", "gone"}
          /\ Mined(x) => txSt[x] \in {"sending", "completed", "gone"} /\ sound[x]
    BY DEF BookInv, RowsAgree
  <2> QED BY <1>1, <1>5, <2>1, <2>2, <2>3 DEF RowsAgree
<1>9. SpendsAgree'
  <2>1. ASSUME NEW d \in Wtx, NEW i \in Inputs[d]
        PROVE  /\ txSt'[d] # "new" => txSt'[i] \notin {"new", "unsigned"}
               /\ txSt'[d] \in {"unsigned", "sending", "completed"} => coin'[i] \in {d, Forgotten, NoOutput}
               /\ txSt'[d] = "gone" => coin'[i] \in {Forgotten, NoOutput}
               /\ brought'[d] = "proof" => Mined(i)'
    <3>1. i \in Wtx
      BY InputsBelow
    <3>2. /\ txSt[d] # "new" => txSt[i] \notin {"new", "unsigned"}
          /\ txSt[d] \in {"unsigned", "sending", "completed"} => coin[i] \in {d, Forgotten, NoOutput}
          /\ txSt[d] = "gone" => coin[i] \in {Forgotten, NoOutput}
          /\ brought[d] = "proof" => Mined(i)
      BY DEF BookInv, SpendsAgree
    <3>3. txSt'[i] = txSt[i] \/ txSt'[i] \in {"wiped", "gone"}
      BY <1>1, <1>3, <3>1
    <3>4. CASE d \in purge.ids
      BY <1>1, <1>3, <1>5, <3>1, <3>2, <3>3, <3>4
    <3>5. CASE d \notin purge.ids
      BY <1>1, <1>5, <3>1, <3>2, <3>3, <3>5
    <3> QED BY <3>4, <3>5
  <2>2. ASSUME NEW x \in Wtx
        PROVE  /\ coin'[x] \in Wtx => x \in Inputs[coin'[x]]
                                      /\ txSt'[coin'[x]] \in {"unsigned", "sending", "completed"}
               /\ coin'[x] = Forgotten => \E c \in Wtx : x \in Inputs[c] /\ txSt'[c] \in {"completed", "gone"}
    <3>1. /\ coin[x] \in Wtx => x \in Inputs[coin[x]] /\ txSt[coin[x]] \in {"unsigned", "sending", "completed"}
          /\ coin[x] = Forgotten => \E c \in Wtx : x \in Inputs[c] /\ txSt[c] \in {"completed", "gone"}
      BY DEF BookInv, SpendsAgree
    <3>2. coin[x] \in Wtx => coin[x] \notin purge.ids
      BY <1>3, <3>1
    <3>3. \A c \in Wtx : txSt[c] \in {"completed", "gone"} => txSt'[c] \in {"completed", "gone"}
      BY <1>1, <1>3
    <3> QED BY <1>1, <3>1, <3>2, <3>3
  <2> QED BY <2>1, <2>2 DEF SpendsAgree
<1>10. ASSUME NEW x \in Wtx, Rests(x)' PROVE Rests(x) /\ x \notin purge.ids
  <2>1. Kept(x) /\ SpentOn(x)
    BY <1>1, <1>3 DEF Kept, SpentOn
  <2>2. txSt'[x] \in {"unsigned", "sending"}
    BY <1>10 DEF Rests
  <2> QED BY <1>1, <1>3, <1>7, <1>10, <2>1, <2>2, RestsBack DEF BookInv
<1>11. InputsThere'
  <2>1. ASSUME NEW x \in Wtx, Rests(x)', NEW i \in Inputs[x] PROVE coin'[i] = x /\ txSt'[i] \in UtxoStatus
    <3>1. coin[i] = x /\ txSt[i] \in UtxoStatus /\ i \in Wtx
      BY <1>10, <2>1, InputsBelow DEF BookInv, InputsThere
    <3>2. i \notin purge.ids
      BY <1>2, <2>1, <3>1, Marked
    <3> QED BY <1>1, <3>1, <3>2
  <2> QED BY <2>1 DEF InputsThere, UtxoStatus
<1>12. PurgeSpares'
  BY <1>1 DEF PurgeSpares, Deleting
<1> QED BY <1>4, <1>7, <1>8, <1>9, <1>11, <1>12 DEF BookInv

\* What the deleted ones spent stays spent.
LEMMA SpendersBooks ==
  ASSUME BookInv, PurgeSpenders
  PROVE  BookInv' /\ Onward
<1>1. /\ txSt' = txSt /\ reqSt' = reqSt /\ provenTxs' = provenTxs /\ brought' = brought /\ aged' = aged /\ rd' = rd
      /\ \A x \in Wtx : coin'[x] = IF coin[x] \in purge.ids THEN Forgotten ELSE coin[x]
      /\ DOMAIN purge' = DOMAIN purge /\ purge'.pc = "outputs" /\ purge'.ids = purge.ids /\ purge'.utxos = purge.utxos
      /\ purge.pc = "spenders"
  BY DEF PurgeSpenders, Turn, BookInv, BookTypes
<1>2. purge.ids \subseteq Wtx /\ Sparing(purge.ids)
  BY <1>1 DEF BookInv, BookTypes, PurgeSpares
<1>3. BookTypes'
  <2>1. coin' \in [Wtx -> Wtx \cup {Unspent, NoOutput, Forgotten}]
    BY DEF PurgeSpenders, BookInv, BookTypes
  <2> QED BY <1>1, <2>1 DEF BookInv, BookTypes
<1>4. \A x \in Wtx : Mined(x)' <=> Mined(x)
  BY <1>1 DEF Mined
<1>5. Onward
  BY <1>1, <1>4 DEF Onward, Lost
<1>6. \A x \in Wtx : coin'[x] = coin[x] \/ (coin'[x] = Forgotten /\ coin[x] \in purge.ids)
  BY <1>1
<1>7. RowsAgree'
  <2>1. \A x \in Wtx : sound[x] => sound'[x]
    BY <1>1, SoundKept
  <2>2. \A x \in Wtx : coin'[x] = NoOutput <=> coin[x] = NoOutput
    BY <1>2, <1>6, Marked
  <2> QED BY <1>1, <1>4, <2>1, <2>2 DEF BookInv, RowsAgree
<1>8. SpendsAgree'
  <2>1. ASSUME NEW d \in Wtx, NEW i \in Inputs[d]
        PROVE  /\ txSt'[d] # "new" => txSt'[i] \notin {"new", "unsigned"}
               /\ txSt'[d] \in {"unsigned", "sending", "completed"} => coin'[i] \in {d, Forgotten, NoOutput}
               /\ txSt'[d] = "gone" => coin'[i] \in {Forgotten, NoOutput}
               /\ brought'[d] = "proof" => Mined(i)'
    <3>1. i \in Wtx
      BY InputsBelow
    <3>2. coin'[i] = coin[i] \/ coin'[i] = Forgotten
      BY <1>6, <3>1
    <3> QED BY <1>1, <1>4, <3>1, <3>2 DEF BookInv, SpendsAgree
  <2>2. ASSUME NEW x \in Wtx
        PROVE  /\ coin'[x] \in Wtx => x \in Inputs[coin'[x]]
                                      /\ txSt'[coin'[x]] \in {"unsigned", "sending", "completed"}
               /\ coin'[x] = Forgotten => \E c \in Wtx : x \in Inputs[c] /\ txSt'[c] \in {"completed", "gone"}
    <3>1. CASE coin'[x] = coin[x]
      BY <1>1, <3>1 DEF BookInv, SpendsAgree
    <3>2. CASE coin'[x] = Forgotten /\ coin[x] \in purge.ids
      <4>1. coin[x] \in Wtx /\ x \in Inputs[coin[x]] /\ txSt[coin[x]] = "completed"
        BY <1>2, <3>2 DEF BookInv, SpendsAgree, Sparing
      <4> QED BY <1>1, <3>2, <4>1, Marked
    <3> QED BY <1>6, <3>1, <3>2
  <2> QED BY <2>1, <2>2 DEF SpendsAgree
<1>9. ASSUME NEW x \in Wtx, Rests(x)' PROVE Rests(x)
  <2>1. Kept(x) /\ SpentOn(x)
    BY <1>1 DEF Kept, SpentOn
  <2> QED BY <1>5, <1>9, <2>1, RestsBack DEF BookInv
<1>10. InputsThere'
  <2>1. ASSUME NEW x \in Wtx, Rests(x)', NEW i \in Inputs[x] PROVE coin'[i] = x /\ txSt'[i] \in UtxoStatus
    <3>1. coin[i] = x /\ txSt[i] \in UtxoStatus /\ i \in Wtx
      BY <1>9, <2>1, InputsBelow DEF BookInv, InputsThere
    <3>2. x \notin purge.ids
      BY <1>2, <1>9, <2>1 DEF Rests, Sparing
    <3> QED BY <1>1, <3>1, <3>2
  <2> QED BY <2>1 DEF InputsThere, UtxoStatus
<1>11. PurgeSpares'
  <2>1. \A x \in Wtx : coin'[x] \notin purge.ids
    BY <1>1, <1>2, Marked
  <2>2. \A i \in purge.ids : coin'[i] # Unspent
    BY <1>2, <1>6, Marked DEF Sparing
  <2>3. ASSUME NEW x \in Wtx, MayFail(x)' PROVE MayFail(x)
    <3>1. txSt[x] # "new"
      BY <1>1, <2>3 DEF MayFail
    <3> QED BY <1>5, <2>3, <3>1, MayFailBack
  <2>4. Sparing(purge.ids)'
    BY <1>1, <1>2, <1>9, <2>2, <2>3 DEF Sparing
  <2> QED BY <1>1, <2>1, <2>4 DEF PurgeSpares, Sparing
<1> QED BY <1>3, <1>5, <1>7, <1>8, <1>10, <1>11 DEF BookInv

-----------------------------------------------------------------------------
(* The beef of the purge.                                                  *)

\* A step that reads rows and writes none.
LEMMA ReadBooks ==
  ASSUME BookInv, UNCHANGED bookVars,
         DOMAIN rd' = Readers, DOMAIN rd'["purge"] = {"mode", "pc", "at", "beef", "stack"},
         rd'["purge"].mode \in {"none", "purge"},
         DOMAIN purge' = {"pc", "opts", "utxos", "ids"}, purge'.utxos \subseteq Wtx, purge'.ids \subseteq Wtx,
         \/ purge' = purge
         \/ purge'.pc \in {"beef", "orphans"}
         \/ purge'.pc = "spenders" /\ Sparing(purge'.ids)
  PROVE  BookInv' /\ Onward
<1>1. /\ txSt' = txSt /\ reqSt' = reqSt /\ provenTxs' = provenTxs /\ coin' = coin /\ brought' = brought
      /\ aged' = aged
  BY DEF bookVars
<1>2. BookTypes'
  BY <1>1 DEF BookInv, BookTypes
<1>3. (RowsAgree /\ SpendsAgree /\ InputsThere)' /\ Onward /\ \A ids : Sparing(ids) => Sparing(ids)'
  BY <1>1, <1>2, SameBooks
<1>4. PurgeSpares'
  <2>1. CASE purge' = purge
    BY <1>1, <1>3, <2>1 DEF BookInv, PurgeSpares
  <2>2. CASE purge'.pc \in {"beef", "orphans"}
    BY <2>2 DEF PurgeSpares, Deleting
  <2>3. CASE purge'.pc = "spenders" /\ Sparing(purge'.ids)
    <3>1. PICK ids : ids = purge'.ids
      OBVIOUS
    <3>2. Sparing(ids)'
      BY <1>3, <2>3, <3>1
    <3>3. Sparing(purge.ids)'
      BY <3>1, <3>2 DEF Sparing
    <3> QED BY <2>3, <3>3 DEF PurgeSpares, Deleting
  <2> QED BY <2>1, <2>2, <2>3
<1> QED BY <1>2, <1>3, <1>4 DEF BookInv

\* What may happen around the beef of the purge.
Around ==
  /\ purge' = purge /\ rd'["purge"] = rd["purge"] /\ aged' = aged /\ provenTxs \subseteq provenTxs'
  /\ \A x \in Wtx :
       /\ reqSt[x] \in Usable => reqSt'[x] \in Usable /\ brought'[x] = brought[x]
       /\ coin[x] \in Wtx => coin'[x] = coin[x]
       /\ x \in aged /\ txSt'[x] = "completed" => txSt[x] = "completed" /\ (coin'[x] = Unspent => coin[x] = Unspent)
       /\ txSt[x] \notin {"new", "unsigned"} => txSt'[x] \notin {"new", "unsigned"}
       /\ txSt[x] = "new" /\ txSt'[x] # "new" => \A i \in Inputs[x] : coin[i] = Unspent

LEMMA CreateAround ==
  ASSUME BookInv, NEW t \in Wtx, Create(t)
  PROVE  Around
<1>1. /\ \A x \in Wtx : txSt'[x] = IF x = t THEN "unsigned" ELSE txSt[x]
      /\ \A x \in Wtx : coin'[x] = IF x \in Inputs[t] THEN t ELSE coin[x]
      /\ reqSt' = reqSt /\ provenTxs' = provenTxs /\ aged' = aged /\ purge' = purge /\ rd' = rd
      /\ txSt[t] = "new" /\ \A i \in Inputs[t] : coin[i] = Unspent
      /\ \A x \in Wtx : x # t => brought'[x] = brought[x]
  BY DEF Create, BookInv, BookTypes
<1>2. reqSt[t] \notin Usable
  BY <1>1 DEF BookInv, RowsAgree, Usable
<1> QED BY <1>1, <1>2, Marked DEF Around

LEMMA ProcessAround ==
  ASSUME BookInv, NEW t \in Wtx, Process(t)
  PROVE  Around
<1>1. /\ \A x \in Wtx : txSt'[x] = IF x = t THEN "sending" ELSE txSt[x]
      /\ \A x \in Wtx : reqSt'[x] = IF x = t THEN "unsent" ELSE reqSt[x]
      /\ \A x \in Wtx : coin'[x] = IF x = t THEN Unspent ELSE coin[x]
      /\ brought' = brought /\ provenTxs' = provenTxs /\ aged' = aged /\ purge' = purge /\ rd' = rd
      /\ txSt[t] = "unsigned"
  BY DEF Process, BookInv, BookTypes
<1>2. coin[t] = NoOutput
  BY <1>1 DEF BookInv, RowsAgree
<1> QED BY <1>1, <1>2, Marked DEF Around, Usable

LEMMA MinedAround ==
  ASSUME BookInv, NEW t \in Wtx, provenTxs' = provenTxs \cup {t},
         \/ UNCHANGED <<txSt, reqSt>>
         \/ /\ txSt[t] = "sending" /\ txSt' = [txSt EXCEPT ![t] = "completed"]
            /\ reqSt' = [reqSt EXCEPT ![t] = "completed"],
         coin' = coin, brought' = brought, aged' = aged, purge' = purge, rd'["purge"] = rd["purge"]
  PROVE  Around
<1>1. \A x \in Wtx :
        \/ txSt'[x] = txSt[x] /\ reqSt'[x] = reqSt[x]
        \/ txSt[x] = "sending" /\ txSt'[x] = "completed" /\ reqSt'[x] = "completed"
  <2>1. CASE UNCHANGED <<txSt, reqSt>>
    <3>1. txSt' = txSt /\ reqSt' = reqSt
      BY <2>1
    <3> QED BY <3>1
  <2>2. CASE txSt[t] = "sending" /\ txSt' = [txSt EXCEPT ![t] = "completed"] /\ reqSt' = [reqSt EXCEPT ![t] = "completed"]
    BY <2>2 DEF BookInv, BookTypes
  <2> QED BY <2>1, <2>2
<1>2. \A x \in Wtx : x \in aged => txSt[x] # "sending"
  BY DEF BookInv, RowsAgree
<1> QED BY <1>1, <1>2 DEF Around, Usable

\* The caller reads rows, and what is new of them is a proof.
LEMMA CallerBooks ==
  ASSUME BeInv, BookInv,
         \/ \E t \in Wtx, mode \in Modes : StartRead(mode, t)
         \/ ReadProven("caller") \/ ReadReq("caller") \/ AskServices("caller") \/ NextInput("caller") \/ GiveBeef
  PROVE  BookInv' /\ Onward /\ Around
<1>1. PICK q : rd' = [rd EXCEPT !["caller"] = q]
  <2>1. CASE \E t \in Wtx, mode \in Modes : StartRead(mode, t)
    BY <2>1 DEF StartRead
  <2>2. CASE ReadProven("caller") \/ ReadReq("caller") \/ NextInput("caller") \/ GiveBeef
    BY <2>2 DEF ReadProven, ReadReq, NextInput, GiveBeef, Update
  <2>3. CASE AskServices("caller")
    BY <2>3 DEF AskServices, Update
  <2> QED BY <2>1, <2>2, <2>3
<1>2. /\ DOMAIN rd' = Readers /\ rd'["purge"] = rd["purge"]
      /\ DOMAIN rd'["purge"] = {"mode", "pc", "at", "beef", "stack"} /\ rd'["purge"].mode \in {"none", "purge"}
      /\ DOMAIN purge = {"pc", "opts", "utxos", "ids"} /\ purge.utxos \subseteq Wtx /\ purge.ids \subseteq Wtx
  BY <1>1 DEF BookInv, BookTypes, Readers
<1>3. CASE UNCHANGED <<txSt, reqSt, provenTxs, coin, brought, aged, purge>>
  <2>1. /\ txSt' = txSt /\ reqSt' = reqSt /\ provenTxs' = provenTxs /\ coin' = coin /\ brought' = brought
        /\ aged' = aged /\ purge' = purge
    BY <1>3
  <2>2. BookInv' /\ Onward
    BY <1>2, <2>1, ReadBooks DEF bookVars
  <2> QED BY <1>2, <2>1, <2>2 DEF Around
<1>4. CASE ~UNCHANGED <<txSt, reqSt, provenTxs, coin, brought, aged, purge>>
  <2>1. PICK t \in Wtx : /\ t \notin provenTxs /\ MayBeMined(t) /\ provenTxs' = provenTxs \cup {t}
                         /\ UNCHANGED <<txSt, reqSt, coin, brought, aged, purge>>
    <3>1. AskServices("caller")
      BY <1>4 DEF StartRead, ReadProven, ReadReq, NextInput, GiveBeef, Update, bookVars
    <3>2. rd["caller"].at \in Wtx
      BY <3>1 DEF AskServices, BeInv, BeefOK, BeefTyped
    <3> QED BY <1>4, <3>1, <3>2 DEF AskServices, Update
  <2>2. /\ txSt' = txSt /\ reqSt' = reqSt /\ coin' = coin /\ brought' = brought
        /\ aged' = aged /\ purge' = purge
    BY <2>1
  <2>3. BookTypes'
    BY <1>2, <2>1, <2>2 DEF BookInv, BookTypes
  <2>4. BookInv' /\ Onward
    BY <2>1, <2>2, <2>3, MinedBooks
  <2> QED BY <1>2, <2>1, <2>2, <2>4, MinedAround
<1> QED BY <1>3, <1>4

\* Whatever happens around it, the beef of the purge goes on as it must.
LEMMA AroundReads ==
  ASSUME BookInv, ReadsOn, Onward, Around
  PROVE  ReadsOn'
<1>1. PICK r : r = rd["purge"]
  OBVIOUS
<1>2. rd["purge"] = r /\ rd'["purge"] = r /\ purge' = purge
  BY <1>1 DEF Around
<1>3. /\ BeefOK(r) /\ r.mode = "purge" /\ r.pc \in {"proven", "req", "next", "done"}
      /\ \A n \in 1..Len(r.stack) : r.stack[n].by = "storage"
      /\ \A x \in purge.utxos : provable[x]
      /\ r.pc = "proven" => provable[r.at]
      /\ r.pc = "req" => reqSt[r.at] \in Usable /\ (brought[r.at] = "change" => \A i \in Inputs[r.at] : provable[i])
      /\ \A i \in Wtx : InStack(r.stack, i) => provable[i] \/ r.beef[i] # "no"
      /\ \A x \in Wtx : r.beef[x] # "only" /\ (r.beef[x] = "bump" => Mined(x))
  BY <1>2 DEF ReadsOn, GoesOn
<1>4. \A x \in Wtx : provable[x] => provable'[x]
  BY ProvableStays DEF Around
<1>5. BeefOK(r)'
  <2>1. BeefTyped(r) /\ Closed(r.mode, r.beef, r.stack, Visiting(r))
    BY <1>3 DEF BeefOK
  <2>2. BeefTyped(r)'
    BY <2>1 DEF BeefTyped
  <2>3. Closed(r.mode, r.beef, r.stack, Visiting(r))'
    BY <1>3, <2>1 DEF Closed
  <2> QED BY <2>2, <2>3 DEF BeefOK
<1>6. r.pc \in {"proven", "req"} => r.at \in Wtx
  BY <1>3 DEF BeefOK, BeefTyped
<1>7. r.pc = "req" => reqSt'[r.at] \in Usable /\ (brought'[r.at] = "change" => \A i \in Inputs[r.at] : provable'[i])
  BY <1>3, <1>4, <1>6, InputsBelow DEF Around
<1>8. \A x \in purge.utxos : provable'[x]
  BY <1>3, <1>4 DEF BookInv, BookTypes
<1>9. \A x \in Wtx : r.beef[x] # "only" /\ (r.beef[x] = "bump" => Mined(x)')
  BY <1>3 DEF Onward
<1> QED BY <1>2, <1>3, <1>4, <1>5, <1>6, <1>7, <1>8, <1>9 DEF ReadsOn, GoesOn

LEMMA AroundCovers ==
  ASSUME BookInv, Covers, Onward, Around
  PROVE  Covers'
<1>1. \A x : Reached(x)' <=> Reached(x)
  BY DEF Reached, ReachedBy, Around, InStack, Visiting
<1>2. \A x \in Wtx : x \in Spent' => x \in Spent
  BY DEF Around, Spent
<1>3. \A i \in Spent' : i \in Spent /\ (coin'[i] = Unspent => coin[i] = Unspent)
  BY DEF Around, Spent, BookInv, BookTypes
<1>4. PICK Old \in SUBSET {t \in Wtx : txSt[t] \notin {"new", "unsigned"}} :
        /\ \A d \in Wtx : MayFail(d) => d \in Old \/ \A i \in Inputs[d] \cap Spent : Reached(i)
        /\ \A d \in Old : MayFail(d) => Reached(d) \/ coin[d] \in Old
  BY DEF Covers
<1>5. \A i \in Spent : coin[i] = Unspent => Reached(i)
  BY DEF Covers
<1>6. ASSUME NEW d \in Wtx, MayFail(d)' PROVE d \in Old \/ \A i \in Inputs[d] \cap Spent' : Reached(i)'
  <2>1. CASE txSt[d] = "new"
    <3>1. \A i \in Inputs[d] : coin[i] = Unspent
      BY <1>6, <2>1 DEF Around, MayFail
    <3> QED BY <1>1, <1>3, <1>5, <3>1
  <2>2. CASE txSt[d] # "new"
    <3>1. MayFail(d)
      BY <1>6, <2>2, MayFailBack
    <3> QED BY <1>1, <1>3, <1>4, <3>1
  <2> QED BY <2>1, <2>2
<1>7. ASSUME NEW d \in Old, MayFail(d)' PROVE Reached(d)' \/ coin'[d] \in Old
  <2>1. d \in Wtx /\ MayFail(d)
    BY <1>7, MayFailBack
  <2> QED BY <1>1, <1>4, <2>1 DEF Around
<1>8. Old \in SUBSET {t \in Wtx : txSt'[t] \notin {"new", "unsigned"}}
  BY <1>4 DEF Around
<1> QED BY <1>1, <1>3, <1>5, <1>6, <1>7, <1>8 DEF Covers

\* A read of the purge reaches what it reached.
LEMMA CoversStay ==
  ASSUME BookInv, UNCHANGED bookVars, Covers, \A x \in Wtx : Reached(x) => Reached(x)'
  PROVE  Covers'
<1>1. txSt' = txSt /\ coin' = coin /\ aged' = aged /\ provenTxs' = provenTxs
  BY DEF bookVars
<1>2. \A d \in Wtx : MayFail(d)' <=> MayFail(d)
  BY <1>1 DEF MayFail, Unmined, Mined
<1>3. Spent' = Spent /\ Spent \subseteq Wtx
  BY <1>1 DEF Spent, BookInv, BookTypes
<1>4. PICK Old \in SUBSET {t \in Wtx : txSt[t] \notin {"new", "unsigned"}} :
        /\ \A d \in Wtx : MayFail(d) => d \in Old \/ \A i \in Inputs[d] \cap Spent : Reached(i)
        /\ \A d \in Old : MayFail(d) => Reached(d) \/ coin[d] \in Old
  BY DEF Covers
<1>5. \A i \in Spent' : coin'[i] = Unspent => Reached(i)'
  BY <1>1, <1>3 DEF Covers
<1>6. /\ \A d \in Wtx : MayFail(d)' => d \in Old \/ \A i \in Inputs[d] \cap Spent' : Reached(i)'
      /\ \A d \in Old : MayFail(d)' => Reached(d)' \/ coin'[d] \in Old
  BY <1>1, <1>2, <1>3, <1>4
<1>7. Old \in SUBSET {t \in Wtx : txSt'[t] \notin {"new", "unsigned"}}
  BY <1>1, <1>4
<1> QED BY <1>5, <1>6, <1>7 DEF Covers

\* The inputs that an action came with a proof of are proven with it.
LEMMA BumpMerged ==
  ASSUME NEW beef \in [Wtx -> Marks], NEW t \in Wtx, brought \in [Wtx -> {"change", "proof", "stub"}]
  PROVE  /\ brought[t] = "proof" => \A i \in Inputs[t] : MergeRaw(beef, t, "storage")[i] # "no"
         /\ \A x \in Wtx : MergeRaw(beef, t, "storage")[x] = "bump" =>
              beef[x] = "bump" \/ (brought[t] = "proof" /\ x \in Inputs[t])
<1>1. Rank["no"] = 0 /\ Rank["only"] = 1 /\ Rank["raw"] = 2 /\ Rank["bump"] = 3
  BY DEF Rank
<1>2. \A b \in [Wtx -> Marks], S \in SUBSET Wtx, k \in Marks : \A x \in Wtx :
        Merge(b, S, k)[x] = IF x \in S /\ Rank[k] > Rank[b[x]] THEN k ELSE b[x]
  BY DEF Merge
<1> DEFINE raw == Merge(beef, {t}, "raw")
           k == IF brought[t] = "proof" THEN "bump" ELSE "only"
<1>3. {t} \in SUBSET Wtx /\ Inputs[t] \in SUBSET Wtx /\ "raw" \in Marks /\ "bump" \in Marks /\ "only" \in Marks
  BY BeefsAssumption DEF Marks
<1>4. raw \in [Wtx -> Marks]
  BY <1>3, Merged
<1>5. \A x \in Wtx : raw[x] = "bump" => beef[x] = "bump"
  BY <1>2, <1>3
<1> HIDE DEF raw
<1>6. MergeRaw(beef, t, "storage") = IF brought[t] = "change" THEN raw ELSE Merge(raw, Inputs[t], k)
  BY DEF MergeRaw, raw
<1>7. CASE brought[t] = "proof"
  <2>1. MergeRaw(beef, t, "storage") = Merge(raw, Inputs[t], "bump")
    BY <1>6, <1>7
  <2>2. \A x \in Wtx : raw[x] \in Marks
    BY <1>4
  <2>3. \A x \in Wtx : Merge(raw, Inputs[t], "bump")[x] =
                         IF x \in Inputs[t] /\ Rank["bump"] > Rank[raw[x]] THEN "bump" ELSE raw[x]
    BY <1>2, <1>3, <1>4
  <2> QED BY <1>1, <1>3, <1>5, <1>7, <2>1, <2>2, <2>3 DEF Marks
<1>8. CASE brought[t] = "stub"
  <2>1. MergeRaw(beef, t, "storage") = Merge(raw, Inputs[t], "only")
    BY <1>6, <1>8
  <2>2. \A x \in Wtx : Merge(raw, Inputs[t], "only")[x] \in {"only", raw[x]}
    BY <1>2, <1>3, <1>4
  <2> QED BY <1>5, <1>8, <2>1, <2>2
<1>9. CASE brought[t] = "change"
  BY <1>5, <1>6, <1>9
<1> QED BY <1>7, <1>8, <1>9

\* A step of the purge's beef.
LEMMA BeefStep ==
  ASSUME BookInv, ReadsOn, Covers, UNCHANGED bookVars, NEW q, rd' = [rd EXCEPT !["purge"] = q], GoesOn(q),
         DOMAIN purge' = {"pc", "opts", "utxos", "ids"}, purge'.ids \subseteq Wtx, purge'.utxos \subseteq purge.utxos,
         purge' = purge \/ purge'.pc = "beef",
         \A x \in Wtx : Reached(x) => ReachedBy(q, purge'.utxos, x)
  PROVE  BookInv' /\ Onward /\ ReadsOn' /\ Covers'
<1>1. DOMAIN rd' = Readers /\ rd'["purge"] = q
  BY DEF BookInv, BookTypes, Readers
<1>2. DOMAIN q = {"mode", "pc", "at", "beef", "stack"} /\ q.mode = "purge" /\ (q.pc \in {"proven", "req"} => q.at \in Wtx)
  BY DEF GoesOn, BeefOK, BeefTyped
<1>3. BookInv' /\ Onward
  BY <1>1, <1>2, ReadBooks DEF BookInv, BookTypes
<1>4. provenTxs' = provenTxs /\ reqSt' = reqSt /\ brought' = brought /\ txSt' = txSt
  BY DEF bookVars
<1>5. \A x \in Wtx : provable[x] => provable'[x]
  BY <1>4, ProvableStays
<1>6. GoesOn(q)'
  <2>1. BeefOK(q)'
    BY <1>4 DEF GoesOn, BeefOK, BeefTyped, Closed, Trusted
  <2>2. q.pc = "req" => reqSt'[q.at] \in Usable /\ (brought'[q.at] = "change" => \A i \in Inputs[q.at] : provable'[i])
    BY <1>2, <1>4, <1>5, InputsBelow DEF GoesOn
  <2>3. /\ q.pc = "proven" => provable'[q.at]
        /\ \A i \in Wtx : InStack(q.stack, i) => provable'[i] \/ q.beef[i] # "no"
        /\ \A x \in Wtx : q.beef[x] # "only" /\ (q.beef[x] = "bump" => Mined(x)')
    BY <1>2, <1>4, <1>5 DEF GoesOn, Mined
  <2> QED BY <2>1, <2>2, <2>3 DEF GoesOn
<1>7. ReadsOn'
  <2>1. \A x \in purge'.utxos : provable'[x]
    BY <1>5 DEF ReadsOn, BookInv, BookTypes
  <2>2. GoesOn(rd["purge"])'
    BY <1>1, <1>6 DEF GoesOn, BeefOK, BeefTyped, Closed, Visiting, Trusted, InStack
  <2> QED BY <2>1, <2>2 DEF ReadsOn
<1>8. Covers'
  <2>1. \A x \in Wtx : Reached(x) => Reached(x)'
    BY <1>1 DEF Reached, ReachedBy, Visiting, InStack
  <2> QED BY <2>1, CoversStay
<1> QED BY <1>3, <1>7, <1>8

LEMMA PurgeReadProven ==
  ASSUME BookInv, ReadsOn, Covers, ReadProven("purge")
  PROVE  BookInv' /\ Onward /\ ReadsOn' /\ Covers'
<1> DEFINE r == rd["purge"]
           bump == [r EXCEPT !.beef = Merge(@, {r.at}, "bump"), !.pc = "next"]
           req == [r EXCEPT !.pc = "req"]
<1>1. /\ UNCHANGED bookVars /\ purge' = purge /\ r.pc = "proven" /\ GoesOn(r)
      /\ \A x : Reached(x) <=> ReachedBy(r, purge.utxos, x)
      /\ rd' = [rd EXCEPT !["purge"] = IF r.at \in provenTxs THEN bump ELSE req]
  BY DEF ReadProven, Update, bookVars, ReadsOn, Reached
<1>2. /\ DOMAIN purge = {"pc", "opts", "utxos", "ids"} /\ purge.ids \subseteq Wtx
  BY DEF BookInv, BookTypes
<1> HIDE DEF r
<1>3. /\ BeefOK(r) /\ BeefTyped(r) /\ r.at \in Wtx /\ Visiting(r) = {r.at}
      /\ Closed(r.mode, r.beef, r.stack, {r.at}) /\ provable[r.at]
  BY <1>1 DEF GoesOn, BeefOK, BeefTyped, Visiting
<1>4. CASE r.at \in provenTxs
  <2>1. /\ bump.mode = r.mode /\ bump.pc = "next" /\ bump.beef = Merge(r.beef, {r.at}, "bump")
        /\ bump.stack = r.stack
    BY <1>3 DEF BeefTyped
  <2>2. BeefOK(bump)
    BY <1>1, <1>3, BumpOK
  <2> HIDE DEF bump
  <2>3. Rank["no"] = 0 /\ Rank["only"] = 1 /\ Rank["raw"] = 2 /\ Rank["bump"] = 3
    BY DEF Rank
  <2>4. /\ \A x \in Wtx : bump.beef[x] = r.beef[x] \/ (x = r.at /\ bump.beef[x] = "bump")
        /\ bump.beef[r.at] # "no"
    <3>1. r.beef[r.at] \in Marks
      BY <1>3 DEF BeefTyped
    <3> QED BY <1>3, <2>1, <2>3, <3>1 DEF Merge, Marks
  <2>5. Mined(r.at)
    BY <1>4 DEF Mined
  <2>6. GoesOn(bump)
    BY <1>1, <2>1, <2>2, <2>4, <2>5 DEF GoesOn
  <2>7. \A x \in Wtx : ReachedBy(r, purge.utxos, x) => ReachedBy(bump, purge.utxos, x)
    BY <1>3, <2>1, <2>4 DEF ReachedBy
  <2> QED BY <1>1, <1>2, <1>4, <2>6, <2>7, BeefStep
<1>5. CASE r.at \notin provenTxs
  <2>1. /\ req.mode = r.mode /\ req.pc = "req" /\ req.beef = r.beef /\ req.stack = r.stack /\ req.at = r.at
    BY <1>3 DEF BeefTyped
  <2>2. BeefOK(req)
    BY <1>1, <1>3, PcOK
  <2> HIDE DEF req
  <2>3. reqSt[r.at] \in Usable /\ (brought[r.at] = "change" => \A i \in Inputs[r.at] : provable[i])
    BY <1>3, <1>5, ProvableIs
  <2>4. GoesOn(req)
    BY <1>1, <2>1, <2>2, <2>3 DEF GoesOn
  <2>5. Visiting(req) = {r.at}
    BY <2>1 DEF Visiting
  <2>6. \A x \in Wtx : ReachedBy(r, purge.utxos, x) => ReachedBy(req, purge.utxos, x)
    BY <1>3, <2>1, <2>5 DEF ReachedBy
  <2> QED BY <1>1, <1>2, <1>5, <2>4, <2>6, BeefStep
<1> QED BY <1>4, <1>5

LEMMA PurgeReadReq ==
  ASSUME BookInv, NoStub, ReadsOn, Covers, ReadReq("purge")
  PROVE  BookInv' /\ Onward /\ ReadsOn' /\ Covers'
<1> DEFINE r == rd["purge"]
           q == Follow(r, r.at, "storage")
           frame == [by |-> "storage", todo |-> Inputs[r.at]]
<1>1. /\ UNCHANGED bookVars /\ purge' = purge /\ r.pc = "req" /\ GoesOn(r)
      /\ \A x : Reached(x) <=> ReachedBy(r, purge.utxos, x)
      /\ reqSt[r.at] \in Usable => rd' = [rd EXCEPT !["purge"] = q]
  BY DEF ReadReq, Update, bookVars, ReadsOn, Reached
<1>2. /\ DOMAIN purge = {"pc", "opts", "utxos", "ids"} /\ purge.ids \subseteq Wtx
      /\ brought \in [Wtx -> {"change", "proof", "stub"}]
  BY DEF BookInv, BookTypes
<1> HIDE DEF r
<1>3. /\ BeefOK(r) /\ BeefTyped(r) /\ r.at \in Wtx /\ Visiting(r) = {r.at}
      /\ Closed(r.mode, r.beef, r.stack, {r.at}) /\ reqSt[r.at] \in Usable
      /\ (brought[r.at] = "change" => \A i \in Inputs[r.at] : provable[i])
  BY <1>1 DEF GoesOn, BeefOK, BeefTyped, Visiting
<1>4. /\ q.mode = r.mode /\ q.pc = "next" /\ q.beef = MergeRaw(r.beef, r.at, "storage")
      /\ q.stack = Append(r.stack, frame)
  BY <1>3 DEF Follow, BeefTyped
<1>5. BeefOK(q)
  BY <1>2, <1>3, FollowOK
<1> HIDE DEF q
<1>6. frame \in Frames /\ r.stack \in Seq(Frames) /\ r.beef \in [Wtx -> Marks]
  BY <1>3, BeefsAssumption DEF Frames, BeefTyped
<1>7. /\ Len(q.stack) = Len(r.stack) + 1 /\ Len(r.stack) \in Nat
      /\ \A n \in 1..Len(r.stack) : q.stack[n] = r.stack[n]
      /\ q.stack[Len(r.stack) + 1] = frame
  BY <1>4, <1>6, AppendProperties
<1>8. \A n \in 1..Len(q.stack) : q.stack[n].by = "storage"
  <2>1. TAKE n \in 1..Len(q.stack)
  <2>2. CASE n = Len(r.stack) + 1
    BY <1>7, <2>2
  <2>3. CASE n # Len(r.stack) + 1
    <3>1. n \in 1..Len(r.stack)
      BY <1>7, <2>3
    <3> QED BY <1>1, <1>7, <3>1 DEF GoesOn
  <2> QED BY <2>2, <2>3
<1>9. \A i : InStack(q.stack, i) <=> InStack(r.stack, i) \/ i \in Inputs[r.at]
  <2>1. \A i : InStack(r.stack, i) => InStack(q.stack, i)
    BY <1>7 DEF InStack
  <2>2. \A i \in Inputs[r.at] : i \in q.stack[Len(r.stack) + 1].todo
    BY <1>7
  <2>3. Len(r.stack) + 1 \in 1..Len(q.stack)
    BY <1>7
  <2>4. \A i : InStack(q.stack, i) => InStack(r.stack, i) \/ i \in Inputs[r.at]
    <3>1. \A n \in 1..Len(q.stack) : n \in 1..Len(r.stack) \/ n = Len(r.stack) + 1
      BY <1>7
    <3> QED BY <1>7, <3>1 DEF InStack
  <2> QED BY <2>1, <2>2, <2>3, <2>4 DEF InStack
<1>10. /\ q.beef[r.at] # "no"
       /\ \A x \in Wtx : r.beef[x] # "no" => q.beef[x] # "no"
       /\ \A x \in Wtx : q.beef[x] = "only" => r.beef[x] = "only" \/ (brought[r.at] = "stub" /\ x \in Inputs[r.at])
  BY <1>2, <1>3, <1>4, <1>6, RawMerged
<1>11. /\ brought[r.at] = "proof" => \A i \in Inputs[r.at] : q.beef[i] # "no"
       /\ \A x \in Wtx : q.beef[x] = "bump" => r.beef[x] = "bump" \/ (brought[r.at] = "proof" /\ x \in Inputs[r.at])
  BY <1>2, <1>3, <1>4, <1>6, BumpMerged
<1>12. GoesOn(q)
  <2>1. brought[r.at] # "stub"
    BY <1>3 DEF NoStub
  <2>2. \A i \in Inputs[r.at] : provable[i] \/ q.beef[i] # "no"
    BY <1>2, <1>3, <1>11, <2>1
  <2>3. \A i \in Wtx : InStack(q.stack, i) => provable[i] \/ q.beef[i] # "no"
    BY <1>1, <1>9, <1>10, <2>2 DEF GoesOn
  <2>4. \A x \in Wtx : q.beef[x] # "only"
    BY <1>1, <1>10, <2>1 DEF GoesOn
  <2>5. \A x \in Wtx : q.beef[x] = "bump" => Mined(x)
    BY <1>1, <1>3, <1>11 DEF GoesOn, BookInv, SpendsAgree
  <2>6. q.mode = "purge"
    BY <1>1, <1>4 DEF GoesOn
  <2> QED BY <1>4, <1>5, <1>8, <2>3, <2>4, <2>5, <2>6 DEF GoesOn
<1>13. \A x \in Wtx : ReachedBy(r, purge.utxos, x) => ReachedBy(q, purge.utxos, x)
  BY <1>3, <1>9, <1>10 DEF ReachedBy
<1> QED BY <1>1, <1>2, <1>3, <1>12, <1>13, BeefStep

\* A visit of the purge, in storage, never gives up.
LEMMA PurgeVisit ==
  ASSUME NEW s, BeefTyped(s), NEW i \in Wtx, s.mode = "purge",
         Closed(s.mode, s.beef, s.stack, {i}),
         \A n \in 1..Len(s.stack) : s.stack[n].by = "storage", provable[i],
         \A x \in Wtx : InStack(s.stack, x) => provable[x] \/ s.beef[x] # "no",
         \A x \in Wtx : s.beef[x] # "only" /\ (s.beef[x] = "bump" => Mined(x))
  PROVE  LET q == Visit(s, i) IN
         GoesOn(q) /\ Visiting(q) = {i} /\ q.beef = s.beef /\ q.stack = s.stack
<1> DEFINE q == Visit(s, i)
<1>1. Len(s.stack) \in Nat /\ MaxDepth \in Nat \ {0}
  BY BeefsAssumption DEF BeefTyped
<1>2. ~(Anywhere(s) /\ MaxDepth <= Len(s.stack))
  <2>1. CASE Len(s.stack) = 0
    BY <1>1, <2>1
  <2>2. CASE Len(s.stack) # 0
    <3>1. 1 \in 1..Len(s.stack)
      BY <1>1, <2>2
    <3>2. s.stack[1].by # "services"
      BY <3>1
    <3> QED BY <3>1, <3>2 DEF Anywhere
  <2> QED BY <2>1, <2>2
<1>3. q = [s EXCEPT !.at = i, !.pc = "proven"]
  BY <1>2 DEF Visit
<1>4. DOMAIN q = DOMAIN s /\ q.mode = s.mode /\ q.pc = "proven" /\ q.at = i /\ q.beef = s.beef /\ q.stack = s.stack
  <2> HIDE DEF q
  <2> QED BY <1>3 DEF BeefTyped
<1>5. BeefOK(q)
  BY VisitOK
<1> HIDE DEF q
<1>6. Visiting(q) = {i}
  BY <1>4 DEF Visiting
<1>7. GoesOn(q)
  BY <1>4, <1>5 DEF GoesOn
<1> QED BY <1>4, <1>6, <1>7 DEF q

\* What is taken off the stack, and what stays on it.
LEMMA TakeStack ==
  ASSUME NEW r, BeefTyped(r), Len(r.stack) # 0, NEW i \in r.stack[Len(r.stack)].todo
  PROVE  LET s == [r EXCEPT !.stack[Len(r.stack)].todo = @ \ {i}] IN
         /\ \A j : InStack(s.stack, j) => InStack(r.stack, j)
         /\ \A j : InStack(r.stack, j) => j = i \/ InStack(s.stack, j)
         /\ InStack(r.stack, i)
         /\ Len(s.stack) = Len(r.stack) /\ \A m \in 1..Len(s.stack) : s.stack[m].by = r.stack[m].by
<1> DEFINE n == Len(r.stack)
           s == [r EXCEPT !.stack[n].todo = @ \ {i}]
           frame == [r.stack[n] EXCEPT !.todo = @ \ {i}]
<1>1. s.stack = [r.stack EXCEPT ![n] = frame]
  BY DEF BeefTyped
<1> HIDE DEF s
<1>2. r.stack \in Seq(Frames) /\ n \in Nat /\ n \in 1..n
  BY DEF BeefTyped
<1>3. r.stack[n] \in Frames
  BY <1>2
<1>4. frame \in Frames /\ frame.todo = r.stack[n].todo \ {i} /\ frame.by = r.stack[n].by
  BY <1>3 DEF Frames
<1> HIDE DEF frame
<1>5. /\ s.stack \in Seq(Frames) /\ Len(s.stack) = n
      /\ \A m \in 1..n : s.stack[m] = IF m = n THEN frame ELSE r.stack[m]
  BY <1>1, <1>2, <1>4
<1>6. \A m \in 1..n : s.stack[m].by = r.stack[m].by /\ s.stack[m].todo \subseteq r.stack[m].todo
                      /\ r.stack[m].todo \subseteq s.stack[m].todo \cup {i}
  BY <1>4, <1>5
<1>7. /\ \A j : InStack(s.stack, j) => InStack(r.stack, j)
      /\ \A j : InStack(r.stack, j) => j = i \/ InStack(s.stack, j)
      /\ InStack(r.stack, i)
  BY <1>2, <1>5, <1>6 DEF InStack
<1> QED BY <1>5, <1>6, <1>7 DEF s

LEMMA PopStack ==
  ASSUME NEW r, BeefTyped(r), Len(r.stack) # 0, r.stack[Len(r.stack)].todo = {}
  PROVE  LET s == SubSeq(r.stack, 1, Len(r.stack) - 1) IN
         /\ \A j : InStack(s, j) <=> InStack(r.stack, j)
         /\ \A m \in 1..Len(s) : m \in 1..Len(r.stack) /\ s[m] = r.stack[m]
<1> DEFINE n == Len(r.stack)
           s == SubSeq(r.stack, 1, n - 1)
<1>1. r.stack \in Seq(Frames) /\ n \in Nat /\ n > 0
  BY DEF BeefTyped
<1>2. Len(s) = n - 1 /\ \A m \in 1..(n - 1) : s[m] = r.stack[m]
  BY <1>1, SubSeqProperties
<1> HIDE DEF s
<1>3. \A m \in 1..Len(s) : m \in 1..n /\ s[m] = r.stack[m]
  BY <1>1, <1>2
<1>4. \A m \in 1..n : m = n \/ m \in 1..Len(s)
  BY <1>1, <1>2
<1>5. \A j : InStack(s, j) <=> InStack(r.stack, j)
  BY <1>3, <1>4 DEF InStack
<1> QED BY <1>3, <1>5 DEF s

LEMMA PurgeNextInput ==
  ASSUME BookInv, ReadsOn, Covers, NextInput("purge")
  PROVE  BookInv' /\ Onward /\ ReadsOn' /\ Covers'
<1> DEFINE r == rd["purge"]
           n == Len(r.stack)
           i == CHOOSE i \in r.stack[n].todo : \A j \in r.stack[n].todo : i <= j
           s == [r EXCEPT !.stack[n].todo = @ \ {i}]
           done == [r EXCEPT !.pc = "done"]
           pop == [r EXCEPT !.stack = SubSeq(@, 1, n - 1)]
           only == [s EXCEPT !.beef = Merge(@, {i}, "only")]
           next == IF n = 0 THEN done
                   ELSE IF r.stack[n].todo = {} THEN pop
                   ELSE IF r.beef[i] # "no" THEN s ELSE IF i \in KnownTo(r.mode) THEN only ELSE Visit(s, i)
<1>1. /\ UNCHANGED bookVars /\ purge' = purge /\ r.pc = "next" /\ GoesOn(r)
      /\ \A x : Reached(x) <=> ReachedBy(r, purge.utxos, x)
      /\ rd' = [rd EXCEPT !["purge"] = next]
  BY DEF NextInput, Update, bookVars, ReadsOn, Reached
<1>2. /\ DOMAIN purge = {"pc", "opts", "utxos", "ids"} /\ purge.ids \subseteq Wtx
  BY DEF BookInv, BookTypes
<1>3. GoesOn(next) /\ \A x \in Wtx : ReachedBy(r, purge.utxos, x) => ReachedBy(next, purge.utxos, x)
  <2> HIDE DEF r
  <2>1. /\ BeefOK(r) /\ BeefTyped(r) /\ Visiting(r) = {} /\ Closed(r.mode, r.beef, r.stack, Visiting(r))
        /\ r.mode = "purge" /\ KnownTo(r.mode) = {} /\ \A m \in 1..n : r.stack[m].by = "storage"
        /\ \A x \in Wtx : InStack(r.stack, x) => provable[x] \/ r.beef[x] # "no"
        /\ \A x \in Wtx : r.beef[x] # "only" /\ (r.beef[x] = "bump" => Mined(x))
    BY <1>1 DEF GoesOn, BeefOK, Visiting, KnownTo
  <2>2. CASE n = 0
    <3>1. r.stack = <<>>
      BY <2>1, <2>2, EmptySeq DEF BeefTyped
    <3>2. /\ DOMAIN done = DOMAIN r /\ done.mode = r.mode /\ done.beef = r.beef /\ done.stack = r.stack
          /\ done.pc = "done"
      BY <2>1 DEF BeefTyped
    <3> HIDE DEF done
    <3>3. BeefTyped(done) /\ Visiting(done) = {}
      BY <2>1, <3>1, <3>2 DEF BeefTyped, Visiting
    <3>4. BeefOK(done)
      BY <2>1, <3>2, <3>3 DEF BeefOK
    <3>5. GoesOn(done)
      BY <2>1, <3>2, <3>4 DEF GoesOn
    <3>6. \A x \in Wtx : ReachedBy(r, purge.utxos, x) => ReachedBy(done, purge.utxos, x)
      BY <2>1, <3>2, <3>3 DEF ReachedBy
    <3> QED BY <2>2, <3>5, <3>6
  <2>3. CASE n # 0 /\ r.stack[n].todo = {}
    <3>1. BeefOK(pop)
      BY <1>1, <2>1, <2>3, PopOK
    <3>2. /\ pop.mode = r.mode /\ pop.beef = r.beef /\ pop.stack = SubSeq(r.stack, 1, n - 1) /\ pop.pc = "next"
      BY <1>1, <2>1 DEF BeefTyped
    <3> HIDE DEF pop
    <3>3. /\ \A j : InStack(pop.stack, j) <=> InStack(r.stack, j)
          /\ \A m \in 1..Len(pop.stack) : m \in 1..n /\ pop.stack[m] = r.stack[m]
      BY <2>1, <2>3, <3>2, PopStack
    <3>4. GoesOn(pop)
      BY <2>1, <3>1, <3>2, <3>3 DEF GoesOn
    <3>5. \A x \in Wtx : ReachedBy(r, purge.utxos, x) => ReachedBy(pop, purge.utxos, x)
      BY <2>1, <3>2, <3>3 DEF ReachedBy
    <3> QED BY <2>3, <3>4, <3>5
  <2>4. CASE n # 0 /\ r.stack[n].todo # {}
    <3>1. r.stack \in Seq(Frames) /\ n \in 1..n
      BY <2>1, <2>4 DEF BeefTyped
    <3>2. r.stack[n].todo \subseteq Wtx
      <4>1. r.stack[n] \in Frames
        BY <3>1
      <4> QED BY <4>1 DEF Frames
    <3>3. r.stack[n].todo \subseteq Nat
      BY <3>2, BeefsAssumption
    <3> DEFINE T == r.stack[n].todo
    <3>4. T \subseteq Nat /\ T # {} /\ i = Min(T)
      BY <2>4, <3>3 DEF Min
    <3>5. i \in T
      <4> HIDE DEF T, i
      <4> QED BY <3>4, LeastExists
    <3> HIDE DEF i
    <3>6. /\ BeefTyped(s) /\ i \in Wtx /\ Closed(s.mode, s.beef, s.stack, {i})
          /\ s.pc = "next" /\ s.beef = r.beef /\ s.mode = r.mode
      BY <1>1, <2>1, <2>4, <3>5, TakeOK
    <3>7. /\ \A j : InStack(s.stack, j) => InStack(r.stack, j)
          /\ \A j : InStack(r.stack, j) => j = i \/ InStack(s.stack, j)
          /\ InStack(r.stack, i)
          /\ Len(s.stack) = n /\ \A m \in 1..Len(s.stack) : s.stack[m].by = r.stack[m].by
      BY <2>1, <2>4, <3>5, TakeStack
    <3> HIDE DEF s, T
    <3>8. /\ \A m \in 1..Len(s.stack) : s.stack[m].by = "storage"
          /\ \A x \in Wtx : InStack(s.stack, x) => provable[x] \/ s.beef[x] # "no"
          /\ \A x \in Wtx : s.beef[x] # "only" /\ (s.beef[x] = "bump" => Mined(x))
      BY <2>1, <3>6, <3>7
    <3>9. CASE r.beef[i] # "no"
      <4>1. Closed(s.mode, s.beef, s.stack, {})
        BY <3>6, <3>9 DEF Closed
      <4>2. BeefOK(s) /\ Visiting(s) = {}
        BY <3>6, <4>1 DEF BeefOK, Visiting
      <4>3. GoesOn(s)
        BY <2>1, <3>6, <3>8, <4>2 DEF GoesOn
      <4>4. \A x \in Wtx : ReachedBy(r, purge.utxos, x) => ReachedBy(s, purge.utxos, x)
        BY <2>1, <3>6, <3>7, <3>9 DEF ReachedBy
      <4> QED BY <2>4, <3>9, <4>3, <4>4
    <3>10. CASE r.beef[i] = "no"
      <4>1. provable[i]
        BY <2>1, <3>6, <3>7, <3>10
      <4> DEFINE q == Visit(s, i)
      <4>2. GoesOn(q) /\ Visiting(q) = {i} /\ q.beef = s.beef /\ q.stack = s.stack
        BY <2>1, <3>6, <3>8, <4>1, PurgeVisit
      <4>3. next = q
        BY <2>1, <2>4, <3>10
      <4> HIDE DEF q, next
      <4>4. \A x \in Wtx : ReachedBy(r, purge.utxos, x) => ReachedBy(q, purge.utxos, x)
        BY <2>1, <3>6, <3>7, <4>2 DEF ReachedBy
      <4> QED BY <4>2, <4>3, <4>4
    <3> QED BY <3>9, <3>10
  <2> QED BY <2>2, <2>3, <2>4
<1> HIDE DEF next, r
<1> QED BY <1>1, <1>2, <1>3, BeefStep

LEMMA PurgeProves ==
  ASSUME BookInv, ReadsOn, Covers, PurgeProve
  PROVE  BookInv' /\ Onward /\ ReadsOn' /\ Covers'
<1> DEFINE r == rd["purge"]
           U == purge.utxos
           t == CHOOSE t \in U : \A u \in U : t <= u
           s == [r EXCEPT !.stack = <<>>]
           q == Visit(s, t)
<1>1. /\ UNCHANGED bookVars /\ r.pc \in {"done", "failed"} /\ GoesOn(r) /\ U # {} /\ \A x \in U : provable[x]
      /\ \A x : Reached(x) <=> ReachedBy(r, U, x)
      /\ rd' = [rd EXCEPT !["purge"] = q] /\ purge' = [purge EXCEPT !.utxos = @ \ {t}] /\ purge.pc = "beef"
  BY DEF PurgeProve, Turn, bookVars, ReadsOn, Reached
<1>2. /\ DOMAIN purge' = {"pc", "opts", "utxos", "ids"} /\ purge'.ids \subseteq Wtx /\ purge'.utxos = U \ {t}
      /\ purge'.pc = "beef" /\ U \subseteq Wtx
  <2> HIDE DEF t
  <2> QED BY <1>1 DEF BookInv, BookTypes
<1>3. t \in U /\ t \in Wtx
  <2>1. U \subseteq Nat /\ U # {} /\ t = Min(U)
    BY <1>1, <1>2, BeefsAssumption DEF Min
  <2> HIDE DEF t, U
  <2> QED BY <1>2, <2>1, LeastExists
<1> HIDE DEF t, r
<1>4. /\ BeefOK(r) /\ BeefTyped(r) /\ r.pc = "done" /\ r.stack = <<>> /\ Visiting(r) = {} /\ r.mode = "purge"
      /\ Closed(r.mode, r.beef, r.stack, Visiting(r))
      /\ \A x \in Wtx : r.beef[x] # "only" /\ (r.beef[x] = "bump" => Mined(x))
  BY <1>1 DEF GoesOn, BeefOK, BeefTyped, Visiting
<1>5. /\ DOMAIN s = DOMAIN r /\ s.mode = r.mode /\ s.pc = r.pc /\ s.beef = r.beef /\ s.stack = <<>>
  BY <1>4 DEF BeefTyped
<1> HIDE DEF s
<1>6. BeefTyped(s) /\ Len(s.stack) = 0 /\ \A x : ~InStack(s.stack, x) /\ ~InStack(r.stack, x)
  BY <1>4, <1>5 DEF BeefTyped, InStack
<1>7. Closed(s.mode, s.beef, s.stack, {t})
  BY <1>4, <1>5 DEF Closed
<1>8. provable[t]
  BY <1>1, <1>3
<1>9. GoesOn(q) /\ Visiting(q) = {t} /\ q.beef = s.beef /\ q.stack = s.stack
  <2>1. /\ s.mode = "purge" /\ \A n \in 1..Len(s.stack) : s.stack[n].by = "storage"
        /\ \A x \in Wtx : InStack(s.stack, x) => provable[x] \/ s.beef[x] # "no"
        /\ \A x \in Wtx : s.beef[x] # "only" /\ (s.beef[x] = "bump" => Mined(x))
    BY <1>4, <1>5, <1>6
  <2> QED BY <1>3, <1>6, <1>7, <1>8, <2>1, PurgeVisit
<1> HIDE DEF q
<1>10. \A x \in Wtx : ReachedBy(r, U, x) => ReachedBy(q, purge'.utxos, x)
  BY <1>2, <1>4, <1>5, <1>6, <1>9 DEF ReachedBy
<1> QED BY <1>1, <1>2, <1>9, <1>10, BeefStep

\* The beef of the purge starts with the spendable outputs, which it can prove; an output
\* that is not spendable is so because an action that may fail as well spends it.
LEMMA UtxosBooks ==
  ASSUME BookInv, ~overlapped', PurgeUtxos
  PROVE  BookInv' /\ Onward /\ (purge'.pc = "beef" => ReadsOn' /\ Covers')
<1> DEFINE U == {t \in Wtx : coin[t] = Unspent /\ txSt[t] \in UtxoStatus}
           q == [NoRead EXCEPT !.mode = "purge", !.pc = "done"]
           Old == {t \in Wtx : txSt[t] = "sending"}
           Seen == \A t \in Wtx : txSt[t] # "unsigned" /\ (txSt[t] = "sending" => sound[t])
<1>1. /\ txSt' = txSt /\ reqSt' = reqSt /\ provenTxs' = provenTxs /\ coin' = coin /\ brought' = brought /\ aged' = aged
      /\ rd' = [rd EXCEPT !["purge"] = q]
      /\ \/ purge' = [purge EXCEPT !.pc = "orphans"]
         \/ /\ purge' = [purge EXCEPT !.pc = "beef", !.utxos = U]
            /\ Seen
  BY DEF PurgeUtxos, OutOfSight, bookVars
<1>2. /\ DOMAIN purge' = {"pc", "opts", "utxos", "ids"} /\ purge'.ids \subseteq Wtx /\ purge'.utxos \subseteq Wtx
      /\ \/ purge'.pc = "orphans"
         \/ purge'.pc = "beef" /\ purge'.utxos = U /\ Seen
  <2>1. U \subseteq Wtx
    OBVIOUS
  <2> HIDE DEF U, Seen
  <2>2. CASE purge' = [purge EXCEPT !.pc = "orphans"]
    BY <2>2 DEF BookInv, BookTypes
  <2>3. CASE purge' = [purge EXCEPT !.pc = "beef", !.utxos = U] /\ Seen
    BY <2>1, <2>3 DEF BookInv, BookTypes
  <2> QED BY <1>1, <2>2, <2>3
<1>3. /\ DOMAIN q = {"mode", "pc", "at", "beef", "stack"} /\ q.mode = "purge" /\ q.pc = "done"
      /\ q.beef = NoBeef /\ q.stack = <<>>
  BY DEF NoRead
<1> HIDE DEF q, Old
<1>4. DOMAIN rd' = Readers /\ rd'["purge"] = q
  BY <1>1 DEF BookInv, BookTypes, Readers
<1>5. BookInv' /\ Onward
  BY <1>1, <1>2, <1>3, <1>4, ReadBooks DEF bookVars
<1>6. NoBeef \in [Wtx -> Marks] /\ \A t \in Wtx : NoBeef[t] = "no"
  BY DEF NoBeef, Marks
<1>7. Visiting(q) = {} /\ Len(q.stack) = 0 /\ \A x : ~InStack(q.stack, x)
  BY <1>3 DEF Visiting, InStack
<1>8. ASSUME purge'.utxos = U, Seen PROVE ReadsOn'
  <2>1. ASSUME NEW x \in U PROVE provable[x]
    <3>1. x \in Wtx /\ coin[x] = Unspent /\ txSt[x] \in UtxoStatus
      OBVIOUS
    <3>2. sound[x]
      BY <1>8, <3>1 DEF BookInv, RowsAgree, Mined, UtxoStatus
    <3> QED BY <3>1, <3>2, WantedProvable DEF Wanted, BookInv
  <2>2. \A x \in U : provable'[x]
    BY <1>1, <2>1, ProvableStays
  <2> HIDE DEF U
  <2>3. BeefTyped(q)'
    BY <1>3, <1>6 DEF BeefTyped
  <2>4. Closed(q.mode, q.beef, q.stack, Visiting(q))'
    BY <1>3, <1>6 DEF Closed
  <2>5. GoesOn(q)'
    BY <1>3, <1>6, <1>7, <2>3, <2>4 DEF GoesOn, BeefOK
  <2>6. GoesOn(rd["purge"])'
    BY <1>4, <2>5 DEF GoesOn, BeefOK, BeefTyped, Closed, Visiting, Trusted, InStack
  <2> QED BY <1>8, <2>2, <2>6 DEF ReadsOn
<1>9. ASSUME purge'.utxos = U, Seen PROVE Covers'
  <2>1. \A x \in U : Reached(x)'
    BY <1>9 DEF Reached, ReachedBy
  <2>2. \A i \in Spent' : coin'[i] = Unspent => Reached(i)'
    BY <1>1, <2>1 DEF Spent, UtxoStatus, BookInv, BookTypes
  <2>3. \A d \in Wtx : MayFail(d)' => MayFail(d) /\ d \in Old
    BY <1>1, <1>9 DEF MayFail, Unmined, Mined, Old
  <2>4. ASSUME NEW d \in Old, MayFail(d)' PROVE Reached(d)' \/ coin'[d] \in Old
    <3>1. d \in Wtx /\ MayFail(d) /\ txSt[d] = "sending" /\ coin[d] # NoOutput
      BY <2>3, <2>4 DEF Old, BookInv, RowsAgree
    <3>2. \A c \in Wtx : d \in Inputs[c] => ~Mined(c)
      BY <3>1, UnderSelf DEF MayFail, Unmined
    <3>3. CASE coin[d] = Unspent
      BY <2>1, <3>1, <3>3 DEF UtxoStatus
    <3>4. CASE coin[d] = Forgotten
      BY <3>1, <3>2, <3>4 DEF BookInv, SpendsAgree, Mined
    <3>5. CASE coin[d] \in Wtx
      BY <1>1, <1>9, <3>1, <3>2, <3>5 DEF BookInv, SpendsAgree, Mined, Old
    <3> QED BY <3>1, <3>3, <3>4, <3>5 DEF BookInv, BookTypes
  <2>5. Old \in SUBSET {t \in Wtx : txSt'[t] \notin {"new", "unsigned"}}
    BY <1>1 DEF Old
  <2> HIDE DEF U
  <2> QED BY <2>2, <2>3, <2>4, <2>5 DEF Covers
<1> QED BY <1>2, <1>5, <1>8, <1>9

\* Of some transactions one is the last.
LEMMA LastWtx ==
  ASSUME NEW T, T \subseteq Wtx, T # {}
  PROVE  \E d \in T : \A e \in T : ~(d < e)
<1> DEFINE Above(d) == {x \in Wtx : d < x}
           C == {Cardinality(Above(d)) : d \in T}
<1>1. \A d : IsFiniteSet(Above(d)) /\ Cardinality(Above(d)) \in Nat
  BY BeefsAssumption, FS_Subset, FS_CardinalityType
<1>2. C \subseteq Nat /\ C # {}
  <2> HIDE DEF Above
  <2> QED BY <1>1
<1>3. PICK d \in T : \A e \in T : Cardinality(Above(d)) <= Cardinality(Above(e))
  <2>1. Min(C) \in C /\ \A m \in C : Min(C) <= m
    <3> HIDE DEF C
    <3> QED BY <1>2, LeastExists
  <2>2. PICK d \in T : Min(C) = Cardinality(Above(d))
    BY <2>1
  <2>3. \A e \in T : Cardinality(Above(e)) \in C
    OBVIOUS
  <2> HIDE DEF C, Above
  <2> QED BY <2>1, <2>2, <2>3
<1>4. ASSUME NEW e \in T, d < e PROVE FALSE
  <2>1. d \in Nat /\ e \in Nat /\ e \in Above(d) /\ e \notin Above(e) /\ Above(e) \subseteq Above(d)
    <3>1. d \in Nat /\ e \in Nat /\ e \in Wtx /\ \A x \in Wtx : x \in Nat
      BY BeefsAssumption
    <3>2. d < e /\ ~(e < e) /\ \A x \in Wtx : e < x => d < x
      BY <1>4, <3>1
    <3>3. \A x : x \in Above(d) <=> x \in Wtx /\ d < x
      OBVIOUS
    <3>4. \A x : x \in Above(e) <=> x \in Wtx /\ e < x
      OBVIOUS
    <3> HIDE DEF Above
    <3> QED BY <3>1, <3>2, <3>3, <3>4
  <2>2. /\ Cardinality(Above(e)) <= Cardinality(Above(d))
        /\ Cardinality(Above(d)) = Cardinality(Above(e)) => Above(d) = Above(e)
    <3>1. IsFiniteSet(Above(d)) /\ Above(e) \in SUBSET Above(d)
      BY <1>1, <2>1
    <3> HIDE DEF Above
    <3> QED BY <3>1, FS_Subset
  <2> HIDE DEF Above
  <2> QED BY <1>1, <1>3, <2>1, <2>2
<1> QED BY <1>4

\* When the beef is built, what it leaves is needed by none.
LEMMA SpentSpares ==
  ASSUME BookInv, ReadsOn, Covers, rd["purge"].pc \in {"done", "failed"}, purge.utxos = {}
  PROVE  Sparing(SpentRows)
<1> DEFINE r == rd["purge"]
<1>1. /\ BeefOK(r) /\ r.pc = "done" /\ \A x \in Wtx : r.beef[x] # "only" /\ (r.beef[x] = "bump" => Mined(x))
  BY DEF ReadsOn, GoesOn
<1>2. \A x : Reached(x) <=> r.beef[x] # "no" \/ x \in Visiting(r) \/ InStack(r.stack, x)
  BY DEF Reached, ReachedBy
<1>3. SpentRows = {i \in aged : txSt[i] = "completed" /\ coin[i] # Unspent /\ r.beef[i] = "no"}
  BY DEF SpentRows
<1> HIDE DEF r
<1>4. /\ BeefTyped(r) /\ r.stack = <<>> /\ Visiting(r) = {} /\ Closed(r.mode, r.beef, r.stack, Visiting(r))
      /\ \A x : ~InStack(r.stack, x)
  BY <1>1 DEF BeefOK, BeefTyped, Visiting, InStack
<1>5. \A x : Reached(x) <=> r.beef[x] # "no"
  BY <1>2, <1>4
<1>6. \A x \in Wtx : r.beef[x] \in Marks
  BY <1>4 DEF BeefTyped
<1>7. \A d \in Wtx : Reached(d) /\ MayFail(d) => \A i \in Inputs[d] : Reached(i)
  <2>1. TAKE d \in Wtx
  <2>2. HAVE Reached(d) /\ MayFail(d)
  <2>3. ~Mined(d)
    BY <2>2, UnderSelf DEF MayFail, Unmined
  <2>4. r.beef[d] = "raw"
    BY <1>1, <1>5, <1>6, <2>2, <2>3 DEF Marks
  <2> QED BY <1>4, <1>5, <2>4 DEF Closed
<1>8. PICK Old \in SUBSET {t \in Wtx : txSt[t] \notin {"new", "unsigned"}} :
        /\ \A d \in Wtx : MayFail(d) => d \in Old \/ \A i \in Inputs[d] \cap Spent : Reached(i)
        /\ \A d \in Old : MayFail(d) => Reached(d) \/ coin[d] \in Old
  BY DEF Covers
<1>9. ASSUME NEW d \in Wtx, MayFail(d), NEW c \in Wtx, coin[d] = c
      PROVE  MayFail(c) /\ d \in Inputs[c] /\ d < c
  <2>1. d \in Inputs[c] /\ txSt[c] \in {"unsigned", "sending", "completed"}
    BY <1>9 DEF BookInv, SpendsAgree
  <2>2. \A e \in Wtx : c \in under[e] => d \in under[e]
    BY <2>1, UnderDown
  <2>3. Unmined(c)
    BY <1>9, <2>2 DEF MayFail, Unmined
  <2>4. ~Mined(c)
    BY <2>3, UnderSelf DEF Unmined
  <2> QED BY <2>1, <2>3, <2>4, InputsBelow DEF MayFail, Mined
<1>10. \A d \in Old : MayFail(d) => Reached(d)
  <2> DEFINE T == {d \in Old : MayFail(d) /\ ~Reached(d)}
  <2>1. T = {}
    <3> SUFFICES ASSUME T # {} PROVE FALSE
      OBVIOUS
    <3>1. PICK d \in T : \A e \in T : ~(d < e)
      <4>1. T \subseteq Wtx
        OBVIOUS
      <4> HIDE DEF T
      <4> QED BY <4>1, LastWtx
    <3>2. d \in Old /\ MayFail(d) /\ ~Reached(d) /\ d \in Wtx
      OBVIOUS
    <3>3. PICK c \in Old : coin[d] = c
      BY <1>8, <3>2
    <3>4. c \in Wtx /\ MayFail(c) /\ d \in Inputs[c] /\ d < c
      BY <1>9, <3>2, <3>3
    <3>5. ~Reached(c)
      BY <1>7, <3>2, <3>4
    <3> QED BY <3>1, <3>3, <3>4, <3>5
  <2> QED BY <2>1
<1>11. ASSUME NEW t \in Wtx, MayFail(t), NEW i \in Inputs[t] PROVE i \notin SpentRows
  <2>1. i \in Spent => Reached(i)
    BY <1>7, <1>8, <1>10, <1>11
  <2> QED BY <1>3, <1>5, <2>1 DEF Spent
<1>12. \A i \in SpentRows : txSt[i] = "completed" /\ coin[i] # Unspent
  BY <1>3
<1>13. \A t \in Wtx : Rests(t) => MayFail(t)
  BY RestsFree DEF BookInv
<1> QED BY <1>11, <1>12, <1>13 DEF Sparing

LEMMA SpentBooks ==
  ASSUME BookInv, ReadsOn, Covers, PurgeSpent
  PROVE  BookInv' /\ Onward /\ purge'.pc # "beef"
<1>1. /\ UNCHANGED bookVars /\ rd["purge"].pc \in {"done", "failed"} /\ purge.utxos = {}
      /\ rd' = [rd EXCEPT !["purge"] = NoRead]
      /\ purge' = [purge EXCEPT !.pc = IF SpentRows = {} THEN "orphans" ELSE "spenders", !.ids = SpentRows]
  BY DEF PurgeSpent, Turn, bookVars
<1>2. Sparing(SpentRows)
  BY <1>1, SpentSpares
<1>3. SpentRows \subseteq Wtx
  BY DEF SpentRows, BookInv, BookTypes
<1>4. /\ DOMAIN purge' = {"pc", "opts", "utxos", "ids"} /\ purge'.utxos = purge.utxos /\ purge'.ids = SpentRows
      /\ purge'.pc \in {"orphans", "spenders"}
  BY <1>1 DEF BookInv, BookTypes
<1>5. DOMAIN rd' = Readers /\ rd'["purge"] = NoRead
  BY <1>1 DEF BookInv, BookTypes, Readers
<1>6. DOMAIN NoRead = {"mode", "pc", "at", "beef", "stack"} /\ NoRead.mode = "none"
  BY DEF NoRead
<1>7. BookInv' /\ Onward
  BY <1>1, <1>2, <1>3, <1>4, <1>5, <1>6, ReadBooks
<1> QED BY <1>4, <1>7

-----------------------------------------------------------------------------
(* All steps.                                                              *)

BeefProofs == BeInv /\ (NoStub /\ ~overlapped => PurgeInv)

\* A step of the purge's reader while no beef is built for the purge.
LEMMA IdleReads ==
  ASSUME BookInv, ReadProven("purge") \/ ReadReq("purge") \/ AskServices("purge") \/ NextInput("purge")
  PROVE  BookInv' /\ Onward /\ purge' = purge
<1> DEFINE r == rd["purge"]
<1>1. DOMAIN r = {"mode", "pc", "at", "beef", "stack"} /\ r.mode \in {"none", "purge"}
  BY DEF BookInv, BookTypes
<1>2. /\ DOMAIN purge = {"pc", "opts", "utxos", "ids"} /\ purge.utxos \subseteq Wtx /\ purge.ids \subseteq Wtx
  BY DEF BookInv, BookTypes
<1>3. PICK q : rd' = [rd EXCEPT !["purge"] = q] /\ UNCHANGED bookVars /\ purge' = purge
               /\ DOMAIN q = DOMAIN r /\ q.mode = r.mode
  <2> DEFINE bump == [r EXCEPT !.beef = Merge(@, {r.at}, "bump"), !.pc = "next"]
             stored == Follow(r, r.at, "storage")
             served == Follow(r, r.at, "services")
             n == Len(r.stack)
             i == CHOOSE i \in r.stack[n].todo : \A j \in r.stack[n].todo : i <= j
             s == [r EXCEPT !.stack[n].todo = @ \ {i}]
             pop == [r EXCEPT !.stack = SubSeq(@, 1, n - 1)]
             only == [s EXCEPT !.beef = Merge(@, {i}, "only")]
             at(p) == [r EXCEPT !.pc = p]
             seen(p) == [s EXCEPT !.at = i, !.pc = p]
             failed == [s EXCEPT !.pc = "failed"]
             All == {bump, stored, served, s, pop, only, failed} \cup {at(p) : p \in {"req", "services", "failed", "done"}}
                      \cup {seen(p) : p \in {"services", "proven"}}
  <2>1. r.mode # "rival"
    BY <1>1
  <2> HIDE DEF r
  <2>2. \A q \in All : DOMAIN q = DOMAIN r /\ q.mode = r.mode
    <3>1. DOMAIN bump = DOMAIN r /\ bump.mode = r.mode
      BY <1>1
    <3>2. DOMAIN stored = DOMAIN r /\ stored.mode = r.mode /\ DOMAIN served = DOMAIN r /\ served.mode = r.mode
      BY <1>1 DEF Follow
    <3>3. DOMAIN s = DOMAIN r /\ s.mode = r.mode
      BY <1>1
    <3>4. DOMAIN pop = DOMAIN r /\ pop.mode = r.mode
      BY <1>1
    <3> HIDE DEF s
    <3>5. DOMAIN only = DOMAIN s /\ only.mode = s.mode /\ DOMAIN failed = DOMAIN s /\ failed.mode = s.mode
      BY <1>1, <3>3
    <3>6. \A p : DOMAIN at(p) = DOMAIN r /\ at(p).mode = r.mode
      BY <1>1
    <3>7. \A p : DOMAIN seen(p) = DOMAIN s /\ seen(p).mode = s.mode
      BY <1>1, <3>3
    <3> HIDE DEF bump, stored, served, pop, only, failed, at, seen
    <3> QED BY <3>1, <3>2, <3>3, <3>4, <3>5, <3>6, <3>7
  <2>3. \E q \in All : Update("purge", q)
    <3>1. CASE ReadProven("purge")
      <4>1. Update("purge", bump) \/ Update("purge", at("req"))
        BY <3>1 DEF ReadProven, r
      <4> HIDE DEF bump, stored, served, s, pop, only, failed, at, seen
      <4> QED BY <4>1
    <3>2. CASE ReadReq("purge")
      <4>1. Update("purge", stored) \/ Update("purge", at("services")) \/ Update("purge", at("failed"))
        BY <3>2 DEF ReadReq, r
      <4> HIDE DEF bump, stored, served, s, pop, only, failed, at, seen
      <4> QED BY <4>1
    <3>3. CASE AskServices("purge")
      <4>1. Update("purge", at("failed")) \/ Update("purge", served) \/ Update("purge", bump)
        BY <2>1, <3>3 DEF AskServices, r
      <4> HIDE DEF bump, stored, served, s, pop, only, failed, at, seen
      <4> QED BY <4>1
    <3>4. CASE NextInput("purge")
      <4>1. \E q \in {at("done"), pop, s, only, Visit(s, i)} : Update("purge", q)
        BY <3>4 DEF NextInput, r
      <4>2. Visit(s, i) \in {failed, seen("services"), seen("proven")}
        <5> HIDE DEF s, i
        <5> QED BY DEF Visit
      <4> HIDE DEF bump, stored, served, s, pop, only, failed, at, seen
      <4> QED BY <4>1, <4>2
    <3> QED BY <3>1, <3>2, <3>3, <3>4
  <2> HIDE DEF All
  <2> QED BY <2>2, <2>3 DEF Update, bookVars
<1>4. DOMAIN rd' = Readers /\ rd'["purge"] = q
  BY <1>3 DEF BookInv, BookTypes, Readers
<1> QED BY <1>1, <1>2, <1>3, <1>4, ReadBooks

\* Around the beef of the purge: actions, and the readers of callers.
LEMMA AroundStep ==
  ASSUME PurgeInv, BookInv', Onward, Around
  PROVE  PurgeInv'
<1>1. purge' = purge
  BY DEF Around
<1> QED BY <1>1, AroundReads, AroundCovers DEF PurgeInv

LEMMA PurgeInvStep ==
  ASSUME BeInv, PurgeInv, NoStub', ~overlapped', [BeNext]_beVars, NoStub
  PROVE  PurgeInv'
<1>1. BookInv /\ (purge.pc = "beef" => ReadsOn /\ Covers)
  BY DEF PurgeInv
<1> HIDE DEF BookInv
<1>2. ASSUME NEW t \in Wtx, Create(t) \/ Process(t) \/ Prove(t) \/ FailTx(t) \/ Age(t) PROVE PurgeInv'
  <2>1. CASE Create(t)
    BY <1>1, <2>1, CreateBooks, CreateAround, AroundStep
  <2>2. CASE Process(t)
    BY <1>1, <2>2, ProcessBooks, ProcessAround, AroundStep
  <2>3. CASE Prove(t)
    <3>1. /\ MayBeMined(t) /\ t \notin provenTxs /\ provenTxs' = provenTxs \cup {t}
          /\ txSt[t] = "sending" /\ txSt' = [txSt EXCEPT ![t] = "completed"]
          /\ reqSt' = [reqSt EXCEPT ![t] = "completed"]
          /\ coin' = coin /\ brought' = brought /\ aged' = aged /\ purge' = purge /\ rd' = rd
      BY <2>3 DEF Prove
    <3>2. BookTypes'
      BY <1>1, <3>1 DEF BookInv, BookTypes, Stages
    <3>3. BookInv' /\ Onward
      BY <1>1, <3>1, <3>2, MinedBooks
    <3>4. Around
      BY <1>1, <3>1, MinedAround
    <3> QED BY <3>3, <3>4, AroundStep
  <2>4. CASE FailTx(t)
    <3>1. BookInv' /\ purge.pc # "beef" /\ purge' = purge
      BY <1>1, <2>4, FailTxBooks DEF FailTx
    <3> QED BY <3>1 DEF PurgeInv
  <2>5. CASE Age(t)
    <3>1. BookInv' /\ purge'.pc = "idle"
      BY <1>1, <2>5, QuietBooks DEF Age
    <3> QED BY <3>1 DEF PurgeInv
  <2> QED BY <1>2, <2>1, <2>2, <2>3, <2>4, <2>5
<1>3. CASE \/ \E t \in Wtx, mode \in Modes : StartRead(mode, t)
           \/ ReadProven("caller") \/ ReadReq("caller") \/ AskServices("caller") \/ NextInput("caller") \/ GiveBeef
  BY <1>1, <1>3, CallerBooks, AroundStep
<1>4. CASE ReadProven("purge") \/ ReadReq("purge") \/ AskServices("purge") \/ NextInput("purge")
  <2>1. CASE purge.pc = "beef"
    <3>1. ~AskServices("purge")
      BY <1>1, <2>1 DEF AskServices, ReadsOn, GoesOn
    <3> QED BY <1>1, <1>4, <2>1, <3>1, PurgeReadProven, PurgeReadReq, PurgeNextInput DEF PurgeInv
  <2>2. CASE purge.pc # "beef"
    <3>1. BookInv' /\ purge'.pc # "beef"
      BY <1>1, <1>4, <2>2, IdleReads
    <3> QED BY <3>1 DEF PurgeInv
  <2> QED BY <2>1, <2>2
<1>5. CASE PurgeAct
  <2>1. CASE PurgeUtxos
    BY <1>1, <2>1, UtxosBooks DEF PurgeInv
  <2>2. CASE PurgeProve
    BY <1>1, <2>2, PurgeProves DEF PurgeInv, PurgeProve
  <2>3. CASE PurgeSpent
    BY <1>1, <2>3, SpentBooks DEF PurgeInv, PurgeSpent
  <2>4. CASE PurgeStart \/ PurgeCompleted \/ PurgeFailedRows \/ PurgeReqs \/ PurgeOrphans \/ PurgeStops
    <3>1. purge'.pc # "beef"
      <4>1. CASE PurgeStart
        <5>1. PICK o : purge' = [NoPurge EXCEPT !.opts = o, !.pc = "completed"]
          BY <4>1 DEF PurgeStart
        <5> QED BY <5>1 DEF NoPurge
      <4>2. CASE PurgeOrphans \/ PurgeStops
        BY <4>2 DEF PurgeOrphans, PurgeStops, Turn, NoPurge
      <4>3. CASE PurgeCompleted \/ PurgeFailedRows \/ PurgeReqs
        BY <1>1, <4>3 DEF PurgeCompleted, PurgeFailedRows, PurgeReqs, Turn, BookInv, BookTypes
      <4> QED BY <2>4, <4>1, <4>2, <4>3
    <3>2. BookInv'
      BY <1>1, <2>4, QuietBooks
    <3> QED BY <3>1, <3>2 DEF PurgeInv
  <2>5. CASE PurgeOutputs \/ PurgeGiveBack \/ PurgeRows \/ PurgeSpenders
    <3>1. purge'.pc # "beef"
      BY <1>1, <2>5 DEF PurgeOutputs, PurgeGiveBack, PurgeRows, PurgeSpenders, Turn, BookInv, BookTypes
    <3>2. BookInv'
      BY <1>1, <2>5, OutputsBooks, GiveBackBooks, RowsBooks, SpendersBooks
    <3> QED BY <3>1, <3>2 DEF PurgeInv
  <2> QED BY <1>5, <2>1, <2>2, <2>3, <2>4, <2>5 DEF PurgeAct
<1>6. CASE UNCHANGED beVars
  <2>1. /\ txSt' = txSt /\ reqSt' = reqSt /\ provenTxs' = provenTxs /\ coin' = coin /\ brought' = brought
        /\ aged' = aged /\ purge' = purge /\ rd' = rd
    BY <1>6 DEF beVars
  <2>2. BookInv' /\ Onward
    BY <1>1, <2>1, ReadBooks DEF bookVars, BookInv, BookTypes
  <2>3. Around
    BY <2>1 DEF Around
  <2> QED BY <2>2, <2>3, AroundStep
<1>7. \A p \in Readers : p = "caller" \/ p = "purge"
  BY DEF Readers
<1> HIDE DEF PurgeInv
<1> QED BY <1>2, <1>3, <1>4, <1>5, <1>6, <1>7 DEF BeNext, PurgeAct

\* An overlap is not forgotten.
LEMMA OverlapStays ==
  ASSUME [BeNext]_beVars, overlapped
  PROVE  overlapped'
<1>1. CASE \E t \in Wtx : Create(t) \/ Process(t) \/ Prove(t) \/ FailTx(t) \/ Age(t)
  BY <1>1 DEF Create, Process, Prove, FailTx, Age
<1>2. CASE \E t \in Wtx, mode \in Modes : StartRead(mode, t)
  BY <1>2 DEF StartRead
<1>3. CASE \E p \in Readers : ReadProven(p) \/ ReadReq(p) \/ AskServices(p) \/ NextInput(p)
  BY <1>3 DEF ReadProven, ReadReq, AskServices, NextInput, Update
<1>4. CASE GiveBeef
  BY <1>4 DEF GiveBeef, Update
<1>5. CASE PurgeAct
  BY <1>5 DEF PurgeAct, PurgeStart, PurgeCompleted, PurgeFailedRows, PurgeOutputs, PurgeGiveBack, PurgeRows,
     PurgeReqs, PurgeUtxos, PurgeProve, PurgeSpent, PurgeSpenders, PurgeOrphans, PurgeStops, Turn
<1>6. CASE UNCHANGED beVars
  BY <1>6 DEF beVars
<1> QED BY <1>1, <1>2, <1>3, <1>4, <1>5, <1>6 DEF BeNext, PurgeAct

\* An action never loses what it brought.
LEMMA StubsStay ==
  ASSUME BeInv, [BeNext]_beVars, NoStub'
  PROVE  NoStub
<1>1. ASSUME NEW t \in Wtx, Create(t) PROVE NoStub
  BY <1>1 DEF Create, BeInv, NoStub
<1>2. brought' = brought => NoStub
  BY DEF NoStub
<1>3. CASE \E t \in Wtx : Process(t) \/ Prove(t) \/ FailTx(t) \/ Age(t)
  BY <1>2, <1>3 DEF Process, Prove, FailTx, Age
<1>4. CASE \E t \in Wtx, mode \in Modes : StartRead(mode, t)
  BY <1>2, <1>4 DEF StartRead, bookVars
<1>5. CASE \E p \in Readers : ReadProven(p) \/ ReadReq(p) \/ AskServices(p) \/ NextInput(p)
  BY <1>2, <1>5 DEF ReadProven, ReadReq, AskServices, NextInput, Update
<1>6. CASE GiveBeef
  BY <1>2, <1>6 DEF GiveBeef, Update
<1>7. CASE PurgeAct
  BY <1>2, <1>7 DEF PurgeAct, PurgeStart, PurgeCompleted, PurgeFailedRows, PurgeOutputs, PurgeGiveBack, PurgeRows,
     PurgeReqs, PurgeUtxos, PurgeProve, PurgeSpent, PurgeSpenders, PurgeOrphans, PurgeStops, Turn, bookVars
<1>8. CASE UNCHANGED beVars
  BY <1>2, <1>8 DEF beVars
<1> QED BY <1>1, <1>3, <1>4, <1>5, <1>6, <1>7, <1>8 DEF BeNext, PurgeAct

LEMMA BooksStart ==
  ASSUME BeInit
  PROVE  PurgeInv
<1>1. /\ \A t \in Wtx : txSt[t] = "new" /\ reqSt[t] = "none" /\ coin[t] = NoOutput /\ brought[t] = "change"
      /\ provenTxs = {} /\ aged = {} /\ purge = NoPurge
  BY DEF BeInit
<1>2. BookTypes
  BY DEF BeInit, BookTypes, Stages, NoRead, NoPurge, Readers
<1>3. purge.pc = "idle"
  BY <1>1 DEF NoPurge
<1>4. \A t \in Wtx : ~Mined(t) /\ ~Rests(t)
  BY <1>1 DEF Mined, Rests
<1>5. RowsAgree
  BY <1>1, <1>4 DEF RowsAgree
<1>6. SpendsAgree
  BY <1>1, Marked DEF SpendsAgree
<1>7. InputsThere
  BY <1>4 DEF InputsThere
<1>8. PurgeSpares
  BY <1>3 DEF PurgeSpares, Deleting
<1> QED BY <1>2, <1>3, <1>5, <1>6, <1>7, <1>8 DEF PurgeInv, BookInv

(* The purge never deletes what the proof of an unspent output rests on,   *)
(* whatever is spent and proven while it works and wherever it stops,      *)
(* unless an action was unsigned, or rested on a failed one, when it read  *)
(* the outputs, or failed while it built their beef, or trusted a txid.    *)
(* And beefs that were built are complete.                                 *)
THEOREM UtxosStayProvable == BeSpec => []ProofsHold
<1>1. BeInit => BeefProofs
  BY BeInvInit, BooksStart DEF BeefProofs
<1>2. BeefProofs /\ [BeNext]_beVars => BeefProofs'
  <2> SUFFICES ASSUME BeefProofs, [BeNext]_beVars PROVE BeefProofs'
    OBVIOUS
  <2>1. BeInv /\ BeInv' /\ (NoStub /\ ~overlapped => PurgeInv)
    BY BeInvNext DEF BeefProofs
  <2>2. ASSUME NoStub', ~overlapped' PROVE PurgeInv'
    BY <2>1, <2>2, OverlapStays, StubsStay, PurgeInvStep
  <2> QED BY <2>1, <2>2 DEF BeefProofs
<1>3. BeefProofs => UtxosProvable
  <2> SUFFICES ASSUME BeefProofs, NoStub, ~overlapped, NEW t \in Wtx, coin[t] = Unspent, txSt[t] \in UtxoStatus, sound[t]
               PROVE  provable[t]
    BY DEF UtxosProvable, NoStub
  <2>1. BookInv
    BY DEF BeefProofs, PurgeInv
  <2> QED BY <2>1, WantedProvable DEF Wanted, BookInv
<1>4. BeSpec => []BeefProofs
  BY <1>1, <1>2, PTL DEF BeSpec
<1>5. BeSpec => []UtxosProvable
  BY <1>3, <1>4, PTL
<1> QED BY <1>5, BeefsAreClosed, PTL DEF ProofsHold

================================================================================
