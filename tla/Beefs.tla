--------------------------------- MODULE Beefs ---------------------------------
(***************************************************************************)
(* Beefs and the purge.  A beef proves a transaction: it holds it with its *)
(* Merkle path, or raw with its inputs in the beef too.  Storage builds    *)
(* one, row by row, for listOutputs, createAction, processAction and the   *)
(* purge, which deletes old rows of SQL storage that no unspent output     *)
(* still needs.  A transaction of the model has one output of the wallet;  *)
(* what is outside of the wallet comes in the inputBEEF and stays in it.   *)
(***************************************************************************)
EXTENDS Integers, Sequences, FiniteSets, FiniteSetsExt

CONSTANTS
    Wtx,         \* transactions, numbered so that a later one spends earlier ones
    Inputs,      \* what each of them spends
    KnownIds,    \* knownTxids of a caller
    MaxDepth,    \* maxRecursionDepth, 12 unless set; 0 would be no limit
    MaxReads, MaxPurges   \* bounds on the beefs built for callers, and on the purges

ASSUME BeefsAssumption ==
    /\ Wtx \subseteq Nat \ {0} /\ IsFiniteSet(Wtx) /\ KnownIds \subseteq Wtx
    /\ Inputs \in [Wtx -> SUBSET Wtx] /\ \A t \in Wtx : \A i \in Inputs[t] : i < t
    /\ MaxDepth \in Nat \ {0} /\ MaxReads \in Nat /\ MaxPurges \in Nat

VARIABLES
    txSt,       \* transactions.status, "new" before the row; "gone" and "wiped" after a
                \* completed and a failed one is deleted
    reqSt,      \* proven_tx_reqs.status
    provenTxs,  \* transactions with a row in proven_txs
    coin,       \* the output: who spends it, or how it is
    brought,      \* what the inputBEEF of an action has of its inputs
    aged,       \* rows older than the ages of the purge
    rd,         \* the beef a caller, and the purge, is building
    purge, readsDone, purges,
    overlapped  \* an action was out of the sight of a purge, see below

beVars == <<txSt, reqSt, provenTxs, coin, brought, aged, rd, purge, readsDone, purges, overlapped>>
bookVars == <<txSt, reqSt, provenTxs, coin, brought, aged>>

Unspent == 0
NoOutput == -1
Forgotten == -2
Readers == {"caller", "purge"}
Usable == {"unsent", "completed"}
UtxoStatus == {"sending", "completed"}

NoBeef == [t \in Wtx |-> "no"]
NoRead == [mode |-> "none", pc |-> "idle", at |-> Unspent, beef |-> NoBeef, stack |-> <<>>]
NoPurge == [pc |-> "idle", opts |-> {}, utxos |-> {}, ids |-> {}]

BeInit ==
    /\ txSt = [t \in Wtx |-> "new"] /\ reqSt = [t \in Wtx |-> "none"]
    /\ provenTxs = {} /\ coin = [t \in Wtx |-> NoOutput] /\ brought = [t \in Wtx |-> "change"] /\ aged = {}
    /\ rd = [p \in Readers |-> NoRead] /\ purge = NoPurge /\ readsDone = 0 /\ purges = 0
    /\ overlapped = FALSE

----------------------------------------------------------------------------
\* No transaction it rests on has failed.
sound[t \in Wtx] == txSt[t] \notin {"failed", "wiped"} /\ \A i \in Inputs[t] : sound[i]

\* A transaction and all that it rests on: when it is mined, so are they.
under[t \in Wtx] == {t} \cup UNION {under[i] : i \in Inputs[t]}
Mined(t) == txSt[t] \in {"completed", "gone"} \/ t \in provenTxs
MayBeMined(t) == txSt[t] \notin {"new", "unsigned"} /\ sound[t]
Unmined(t) == \A c \in Wtx : t \in under[c] => ~Mined(c)

\* The life of a transaction, as far as beefs depend on it; TxLifecycle has it all.
\* createAction allocates change, or takes inputs with proofs in the inputBEEF, or
\* inputs that storage knows, of which trustSelf puts only the txid there.
Create(t) ==
    /\ txSt[t] = "new"
    /\ \A i \in Inputs[t] : coin[i] = Unspent /\ txSt[i] \in UtxoStatus
    /\ \E g \in {"change", "proof", "stub"} :
        /\ g = "proof" => Inputs[t] # {} /\ Inputs[t] \subseteq provenTxs
        /\ g = "stub" => Inputs[t] # {} /\ \A i \in Inputs[t] : i \in provenTxs \/ reqSt[i] \in Usable
        /\ brought' = [brought EXCEPT ![t] = g]
    /\ txSt' = [txSt EXCEPT ![t] = "unsigned"]
    /\ coin' = [i \in Wtx |-> IF i \in Inputs[t] THEN t ELSE coin[i]]
    /\ UNCHANGED <<reqSt, provenTxs, aged, rd, purge, readsDone, purges, overlapped>>

\* processAction writes the req and makes the outputs spendable.
Process(t) ==
    /\ txSt[t] = "unsigned"
    /\ txSt' = [txSt EXCEPT ![t] = "sending"]
    /\ reqSt' = [reqSt EXCEPT ![t] = "unsent"]
    /\ coin' = [coin EXCEPT ![t] = Unspent]
    /\ UNCHANGED <<provenTxs, brought, aged, rd, purge, readsDone, purges, overlapped>>

Prove(t) ==
    /\ txSt[t] = "sending" /\ MayBeMined(t) /\ t \notin provenTxs
    /\ txSt' = [txSt EXCEPT ![t] = "completed"]
    /\ reqSt' = [reqSt EXCEPT ![t] = "completed"]
    /\ provenTxs' = provenTxs \cup {t}
    /\ UNCHANGED <<coin, brought, aged, rd, purge, readsDone, purges, overlapped>>

FailTx(t) ==
    /\ txSt[t] \in {"unsigned", "sending"}
    /\ Unmined(t)
    /\ txSt' = [txSt EXCEPT ![t] = "failed"]
    /\ reqSt' = [reqSt EXCEPT ![t] = IF @ = "none" THEN @ ELSE "invalid"]
    /\ coin' = [i \in Wtx |-> IF coin[i] = t THEN Unspent ELSE coin[i]]
    /\ overlapped' = (overlapped \/ purge.pc = "beef")
    /\ UNCHANGED <<provenTxs, brought, aged, rd, purge, readsDone, purges>>

\* Nothing takes as long as the ages, which are days.
Age(t) ==
    /\ txSt[t] \in {"completed", "failed"} /\ t \notin aged
    /\ purge.pc = "idle" /\ rd["caller"].pc = "idle"
    /\ aged' = aged \cup {t}
    /\ UNCHANGED <<txSt, reqSt, provenTxs, coin, brought, rd, purge, readsDone, purges, overlapped>>

----------------------------------------------------------------------------
\* Building a beef.  "list": listOutputs, "change": createAction, "share":
\* processAction and the monitor, "review": the beef of competing transactions,
\* "rival": that of an action which has spent the inputs of a new one, "fetch":
\* getBeefForTxid of the services.
Modes == {"list", "change", "share", "review", "rival", "fetch"}
KnownTo(mode) == IF mode \in {"list", "change"} THEN KnownIds ELSE {}
AsksServices(mode) == mode \in {"review", "rival", "fetch"}

Rank == [k \in {"no", "only", "raw", "bump"} |->
           CASE k = "no" -> 0 [] k = "only" -> 1 [] k = "raw" -> 2 [] k = "bump" -> 3]
Merge(beef, S, kind) ==
    [t \in Wtx |-> IF t \in S /\ Rank[kind] > Rank[beef[t]] THEN kind ELSE beef[t]]

\* The raw transaction and, from a req, its inputBEEF; then its inputs are looked at.
MergeRaw(beef, t, by) ==
    LET raw == Merge(beef, {t}, "raw") IN
    IF by = "services" \/ brought[t] = "change" THEN raw
    ELSE Merge(raw, Inputs[t], IF brought[t] = "proof" THEN "bump" ELSE "only")

\* Mutant: the inputBEEF of a req is taken to prove it.
Follow_NoInputs(r, t, by) ==
    [r EXCEPT !.beef = MergeRaw(@, t, by), !.pc = "next",
              !.stack = Append(@, [by |-> by, todo |-> IF by = "services" THEN Inputs[t] ELSE {}])]
Follow(r, t, by) ==
    [r EXCEPT !.beef = MergeRaw(@, t, by), !.pc = "next", !.stack = Append(@, [by |-> by, todo |-> Inputs[t]])]

\* getValidBeefForTxid of storage, or mergeBeefForTransactionRecurse: the inputs of
\* what the services gave are again looked for anywhere, those of what storage gave
\* in storage only.
Anywhere(r) == r.mode \notin {"list", "share"} /\ \A n \in 1..Len(r.stack) : r.stack[n].by = "services"
Visit(r, t) ==
    IF Anywhere(r) /\ MaxDepth <= Len(r.stack) THEN [r EXCEPT !.pc = "failed"]
    ELSE [r EXCEPT !.at = t, !.pc = IF r.mode = "fetch" THEN "services" ELSE "proven"]

Update(p, r) ==
    /\ rd' = [rd EXCEPT ![p] = r]
    /\ UNCHANGED <<txSt, reqSt, provenTxs, coin, brought, aged, purge, readsDone, purges, overlapped>>

StartRead(mode, t) ==
    /\ rd["caller"].pc = "idle" /\ readsDone < MaxReads
    /\ t \notin KnownTo(mode)
    /\ LET r == [NoRead EXCEPT !.mode = mode] IN
       CASE mode \in {"list", "change"} -> coin[t] # NoOutput /\ txSt[t] \in UtxoStatus
                                            /\ rd' = [rd EXCEPT !["caller"] = Visit(r, t)]
         [] mode = "share" -> reqSt[t] = "unsent" /\ rd' = [rd EXCEPT !["caller"] = Follow(r, t, "storage")]
         [] mode = "rival" -> /\ txSt[t] # "unsigned" /\ \E i \in Wtx : coin[i] = t
                              /\ rd' = [rd EXCEPT !["caller"] = Visit(r, t)]
         [] OTHER -> txSt[t] # "new" /\ rd' = [rd EXCEPT !["caller"] = Visit(r, t)]
    /\ readsDone' = readsDone + 1
    /\ UNCHANGED <<bookVars, purge, purges, overlapped>>

\* getProvenOrRawTx: first the row of proven_txs ...
ReadProven(p) ==
    LET r == rd[p] IN
    /\ r.pc = "proven"
    /\ Update(p, IF r.at \in provenTxs
                 THEN [r EXCEPT !.beef = Merge(@, {r.at}, "bump"), !.pc = "next"]
                 ELSE [r EXCEPT !.pc = "req"])

\* ... then that of proven_tx_reqs.
ReadReq(p) ==
    LET r == rd[p] IN
    /\ r.pc = "req"
    /\ Update(p, CASE reqSt[r.at] \in Usable -> Follow(r, r.at, "storage")
                   [] reqSt[r.at] \notin Usable /\ Anywhere(r) /\ AsksServices(r.mode) ->
                        [r EXCEPT !.pc = "services"]
                   [] OTHER -> [r EXCEPT !.pc = "failed"])

\* getProvenOrRawTxFromServices: a proof is remembered only for "rival".
AskServices(p) ==
    LET r == rd[p]
        proven == [r EXCEPT !.beef = Merge(@, {r.at}, "bump"), !.pc = "next"]
    IN  /\ r.pc = "services"
        /\ \/ Update(p, [r EXCEPT !.pc = "failed"])
           \/ Update(p, Follow(r, r.at, "services"))
           \/ r.mode # "rival" /\ Update(p, proven)
           \/ /\ r.mode = "rival" /\ r.at \notin provenTxs /\ MayBeMined(r.at)
              /\ provenTxs' = provenTxs \cup {r.at} /\ rd' = [rd EXCEPT ![p] = proven]
              /\ UNCHANGED <<txSt, reqSt, coin, brought, aged, purge, readsDone, purges, overlapped>>

\* The next input, unless the beef has it or the caller knows it.
NextInput(p) ==
    LET r == rd[p]
        n == Len(r.stack)
    IN  /\ r.pc = "next"
        /\ Update(p,
             IF n = 0 THEN [r EXCEPT !.pc = "done"]
             ELSE IF r.stack[n].todo = {} THEN [r EXCEPT !.stack = SubSeq(@, 1, n - 1)]
             ELSE LET i == CHOOSE i \in r.stack[n].todo : \A j \in r.stack[n].todo : i <= j
                      s == [r EXCEPT !.stack[n].todo = @ \ {i}]
                  IN  IF r.beef[i] # "no" THEN s
                      ELSE IF i \in KnownTo(r.mode) THEN [s EXCEPT !.beef = Merge(@, {i}, "only")]
                      ELSE Visit(s, i))

GiveBeef ==
    /\ rd["caller"].pc \in {"done", "failed"}
    /\ Update("caller", NoRead)

----------------------------------------------------------------------------
\* purgeData of SQL storage (the others have none): no transaction holds its queries
\* together, each is a step, and it may stop after any of them.  The locks of its
\* WalletStorageManager do not keep the calls of other managers out.
Turn(P) == /\ purge' = P /\ UNCHANGED <<brought, aged, readsDone, purges, overlapped>>

PurgeStart ==
    /\ purge.pc = "idle" /\ purges < MaxPurges
    /\ purges' = purges + 1
    /\ \E opts \in SUBSET {"completed", "failed", "spent"} : purge' = [NoPurge EXCEPT !.opts = opts, !.pc = "completed"]
    /\ UNCHANGED <<bookVars, rd, readsDone, overlapped>>

\* Completed and notified reqs are deleted.
PurgeCompleted ==
    /\ purge.pc = "completed"
    /\ reqSt' = [t \in Wtx |-> IF "completed" \in purge.opts /\ reqSt[t] = "completed" /\ t \in aged
                               THEN "none" ELSE reqSt[t]]
    /\ Turn([purge EXCEPT !.pc = "failed"])
    /\ UNCHANGED <<txSt, provenTxs, coin, rd>>

PurgeFailedRows ==
    /\ purge.pc = "failed"
    /\ Turn(IF "failed" \in purge.opts
            THEN [purge EXCEPT !.pc = "outputs", !.ids = {t \in aged : txSt[t] = "failed"}]
            ELSE [purge EXCEPT !.pc = "utxos"])
    /\ UNCHANGED <<txSt, reqSt, provenTxs, coin, rd>>

\* deleteTransactions: their outputs, what failed ones spent is brought back, the rows.
Failing == \A t \in purge.ids : txSt[t] = "failed"
PurgeOutputs ==
    /\ purge.pc = "outputs"
    /\ coin' = [t \in Wtx |-> IF t \in purge.ids THEN NoOutput ELSE coin[t]]
    /\ Turn([purge EXCEPT !.pc = "back"])
    /\ UNCHANGED <<txSt, reqSt, provenTxs, rd>>
PurgeGiveBack ==
    /\ purge.pc = "back"
    /\ coin' = [t \in Wtx |-> IF Failing /\ coin[t] \in purge.ids THEN Unspent ELSE coin[t]]
    /\ Turn([purge EXCEPT !.pc = "rows"])
    /\ UNCHANGED <<txSt, reqSt, provenTxs, rd>>
PurgeRows ==
    /\ purge.pc = "rows"
    /\ txSt' = [t \in Wtx |-> IF t \notin purge.ids THEN txSt[t] ELSE IF Failing THEN "wiped" ELSE "gone"]
    /\ Turn([purge EXCEPT !.pc = IF Failing THEN "reqs" ELSE "orphans", !.ids = {}])
    /\ UNCHANGED <<reqSt, provenTxs, coin, rd>>
PurgeReqs ==
    /\ purge.pc = "reqs"
    /\ reqSt' = [t \in Wtx |-> IF reqSt[t] = "invalid" /\ t \in aged THEN "none" ELSE reqSt[t]]
    /\ Turn([purge EXCEPT !.pc = "utxos"])
    /\ UNCHANGED <<txSt, provenTxs, coin, rd>>

\* The spendable outputs of all users, and one beef that proves them; an output it
\* cannot prove from storage is skipped.  What an unsigned action has allocated, or one
\* that rests on a failed one, the beef does not hold; nor what is given back later.
OutOfSight(t) == txSt[t] = "unsigned" \/ (txSt[t] = "sending" /\ ~sound[t])
PurgeUtxos ==
    /\ purge.pc = "utxos"
    /\ IF "spent" \notin purge.opts
       THEN purge' = [purge EXCEPT !.pc = "orphans"] /\ UNCHANGED overlapped
       ELSE /\ purge' = [purge EXCEPT !.pc = "beef", !.utxos = {t \in Wtx : coin[t] = Unspent /\ txSt[t] \in UtxoStatus}]
            /\ overlapped' = (overlapped \/ \E t \in Wtx : OutOfSight(t))
    /\ rd' = [rd EXCEPT !["purge"] = [NoRead EXCEPT !.mode = "purge", !.pc = "done"]]
    /\ UNCHANGED <<bookVars, readsDone, purges>>

PurgeProve ==
    /\ purge.pc = "beef" /\ rd["purge"].pc \in {"done", "failed"} /\ purge.utxos # {}
    /\ LET t == CHOOSE t \in purge.utxos : \A u \in purge.utxos : t <= u
       IN  /\ Turn([purge EXCEPT !.utxos = @ \ {t}])
           /\ rd' = [rd EXCEPT !["purge"] = Visit([@ EXCEPT !.stack = <<>>], t)]
    /\ UNCHANGED <<txSt, reqSt, provenTxs, coin>>

\* Completed transactions without a spendable output, unless the beef has them.
\* Mutant: unless they are in it raw.
SpentRows_Raw == {t \in aged : txSt[t] = "completed" /\ coin[t] # Unspent /\ rd["purge"].beef[t] # "raw"}
SpentRows == {t \in aged : txSt[t] = "completed" /\ coin[t] # Unspent /\ rd["purge"].beef[t] = "no"}
PurgeSpent ==
    /\ purge.pc = "beef" /\ rd["purge"].pc \in {"done", "failed"} /\ purge.utxos = {}
    /\ Turn([purge EXCEPT !.pc = IF SpentRows = {} THEN "orphans" ELSE "spenders", !.ids = SpentRows])
    /\ rd' = [rd EXCEPT !["purge"] = NoRead]
    /\ UNCHANGED <<txSt, reqSt, provenTxs, coin>>
PurgeSpenders ==
    /\ purge.pc = "spenders"
    /\ coin' = [t \in Wtx |-> IF coin[t] \in purge.ids THEN Forgotten ELSE coin[t]]
    /\ Turn([purge EXCEPT !.pc = "outputs"])
    /\ UNCHANGED <<txSt, reqSt, provenTxs, rd>>

\* Proofs that no transaction and no req refers to.
PurgeOrphans ==
    /\ purge.pc = "orphans"
    /\ provenTxs' = {t \in provenTxs : txSt[t] \notin {"gone", "wiped"} \/ reqSt[t] # "none"}
    /\ Turn(NoPurge)
    /\ UNCHANGED <<txSt, reqSt, coin, rd>>

PurgeStops ==
    /\ purge.pc # "idle"
    /\ Turn(NoPurge)
    /\ rd' = [rd EXCEPT !["purge"] = NoRead]
    /\ UNCHANGED <<txSt, reqSt, provenTxs, coin>>

BeNext ==
    \/ \E t \in Wtx : Create(t) \/ Process(t) \/ Prove(t) \/ FailTx(t) \/ Age(t)
    \/ \E t \in Wtx, mode \in Modes : StartRead(mode, t)
    \/ \E p \in Readers : ReadProven(p) \/ ReadReq(p) \/ AskServices(p) \/ NextInput(p)
    \/ GiveBeef
    \/ PurgeStart \/ PurgeCompleted \/ PurgeFailedRows \/ PurgeOutputs \/ PurgeGiveBack \/ PurgeRows \/ PurgeReqs
    \/ PurgeUtxos \/ PurgeProve \/ PurgeSpent \/ PurgeSpenders \/ PurgeOrphans \/ PurgeStops

BeSpec == BeInit /\ [][BeNext]_beVars

----------------------------------------------------------------------------
\* What storage can prove by itself; of a stub it is not asked.
provable[t \in Wtx] ==
    t \in provenTxs \/ (reqSt[t] \in Usable /\ (brought[t] # "change" \/ \A i \in Inputs[t] : provable[i]))

UtxosProvable ==
    ~overlapped /\ (\A t \in Wtx : brought[t] # "stub") =>
      \A t \in Wtx : coin[t] = Unspent /\ txSt[t] \in UtxoStatus /\ sound[t] => provable[t]

BeefClosed ==
    rd["caller"].pc = "done" =>
      LET beef == rd["caller"].beef IN
      \A t \in Wtx :
        /\ beef[t] = "raw" => \A i \in Inputs[t] : beef[i] # "no"
        /\ beef[t] = "only" =>
             \/ t \in KnownTo(rd["caller"].mode)
             \/ \E c \in Wtx : beef[c] # "no" /\ brought[c] = "stub" /\ t \in Inputs[c]

\* The purge never deletes a row that the proof of an unspent output rests on, whatever
\* is spent and proven while it works and wherever it stops, as long as no action was out
\* of its sight when it read the outputs, none fails before its beef is built, and none
\* trusts a txid: else it does, and nothing in purgeData.ts prevents it.  And a beef that
\* was built while rows changed and went away is complete, always: what is in it raw has
\* its inputs in it too, and txids alone stand only for what the caller knows or an
\* action trusted.
ProofsHold == UtxosProvable /\ BeefClosed

\* What an action spends is kept for as long as the action may fail.
InputsKept ==
    \A t \in Wtx : txSt[t] \in {"unsigned", "sending"} /\ sound[t] => \A i \in Inputs[t] : coin[i] = t
================================================================================
