------------------------------- MODULE Signing --------------------------------
(***************************************************************************)
(* From the arguments of createAction to a signed transaction in storage.  *)
(* Storage writes one row per output, in an order of its own, and lists    *)
(* the inputs; the Wallet builds a transaction from the two lists, keeps   *)
(* it until the application has signed its inputs, signs its own, and      *)
(* gives it back to storage.  Several processes work on one store, so      *)
(* calls of createAction interleave, calls of signAction with one          *)
(* reference share the transaction they sign, and an action may be given   *)
(* up between the steps of processAction.                                  *)
(*                                                                         *)
(* Positions count from 1.  Which change is taken for a transaction is the *)
(* subject of Funding; how it is broadcast, of TxLifecycle.                *)
(***************************************************************************)
EXTENDS Naturals, FiniteSets, Sequences, SequencesExt, FiniteSetsExt, Functions

CONSTANTS
    Refs,        \* transactions, by reference
    SignCalls,   \* calls of signAction
    Asks,        \* what each createAction may be asked: records as in Args
    Tracked,     \* outputs in the user's baskets that are not change
    Trusted,     \* those of a transaction that storage holds as known valid
    Foreign,     \* outputs storage has no row for
    ChangeOuts,      \* change outputs
    MaxOuts,     \* most change outputs of each
    MaxStarts,   \* bound on restarts of the wallet
    Nil

\* inputs with an unlocking script or without, and with their source transaction
\* in inputBEEF as a whole, as a txid or not at all; whether storage takes a
\* commission.
Input == [coin : Tracked \cup Foreign \cup ChangeOuts, script : BOOLEAN, source : {"whole", "txid", "none"}]
Args == [ins : Seq(Input), outs : Nat, random : BOOLEAN, noSend : BOOLEAN,
        trust : BOOLEAN, txidOnly : BOOLEAN, later : BOOLEAN, charged : BOOLEAN]

ASSUME SigningAssumption ==
    /\ Asks \in [Refs -> SUBSET Args] /\ Trusted \subseteq Tracked
    /\ MaxOuts \in [Refs -> Nat] /\ MaxStarts \in Nat
    /\ IsFiniteSet(ChangeOuts) /\ Nil \notin Refs /\ Refs \cap SignCalls = {}

VARIABLES
    ask,      \* arguments of each createAction
    made,     \* how far it is
    change,   \* the change it spends, and how many outputs of change it makes
    spender,  \* spentBy of each output with a row
    rows,     \* output rows of each transaction, in the order of their insertion
    listed,   \* the inputs storage lists for the wallet
    prior,    \* the transaction in the wallet's memory, with the inputs it is to sign
    pending,  \* pendingSignActions
    kept,     \* the transaction in storage
    state,    \* its status there
    named,    \* noSendChange as createAction returns it
    calls,    \* processAction for each createAction, and the calls of signAction
    overtaken,   \* history: actions given up while a processAction had read their status
    starts    \* restarts so far

sgVars == <<ask, made, change, spender, rows, listed, prior, pending, kept, state, named, calls, overtaken, starts>>

OwnOuts == Tracked \cup ChangeOuts
Callers == Refs \cup SignCalls
Call(r, pc, raw) == [ref |-> r, pc |-> pc, raw |-> raw]
NoCall == Call(Nil, "idle", Nil)

SgInit ==
    /\ ask = [r \in Refs |-> Nil] /\ made = [r \in Refs |-> "no"] /\ change = [r \in Refs |-> Nil]
    /\ spender = [c \in OwnOuts |-> Nil]
    /\ rows = [r \in Refs |-> <<>>] /\ listed = [r \in Refs |-> <<>>]
    /\ prior = [r \in Refs |-> Nil] /\ pending = {}
    /\ kept = [r \in Refs |-> Nil] /\ state = [r \in Refs |-> "none"] /\ named = [r \in Refs |-> {}]
    /\ calls = [x \in Callers |-> NoCall] /\ overtaken = {} /\ starts = 0

----------------------------------------------------------------------------
\* storage: createAction

\* isSignAction of the validated arguments.
SignsLater(q) == q.later \/ \E i \in DOMAIN q.ins : ~q.ins[i].script

\* validateRequiredInputs: the source of an input is in inputBEEF, or storage may
\* be trusted to know it.
Evidence(q, i) ==
    \/ i.source = "whole"
    \/ q.trust /\ i.source = "none" /\ i.coin \in Trusted
    \/ q.trust /\ i.source = "txid" /\ i.coin \in OwnOuts

\* resolveInputScript: change is the wallet's to spend.
ValidInputs(q) ==
    \A k \in DOMAIN q.ins : Evidence(q, q.ins[k]) /\ q.ins[k].coin \notin ChangeOuts

Created(r) == state[r] = "none" /\ made[r] = "valid"

Validate(r) ==
    /\ made[r] = "no"
    /\ \E q \in Asks[r] :
        /\ ask' = [ask EXCEPT ![r] = q]
        /\ made' = [made EXCEPT ![r] = IF ValidInputs(q) THEN "valid" ELSE "refused"]
    /\ UNCHANGED <<change, spender, rows, listed, prior, pending, kept, state, named, calls, overtaken, starts>>

\* createNewTxRecord and fundNewTransactionSdk; without enough change the record
\* stays behind.
FreeChange == {c \in ChangeOuts : spender[c] = Nil}
Orders(S) == {p \in [1..Cardinality(S) -> S] : Range(p) = S}
Allocated(p, n) == [coins |-> p, outs |-> n]

Fund(r) ==
    /\ Created(r)
    /\ state' = [state EXCEPT ![r] = "unsigned"]
    /\ \E S \in SUBSET FreeChange, n \in 0..MaxOuts[r] : \E p \in Orders(S) :
        /\ change' = [change EXCEPT ![r] = Allocated(p, n)]
        /\ spender' = [c \in OwnOuts |-> IF c \in S THEN r ELSE spender[c]]
    /\ made' = [made EXCEPT ![r] = "funded"]
    /\ UNCHANGED <<ask, rows, listed, prior, pending, kept, named, calls, overtaken, starts>>

Starve(r) ==
    /\ Created(r)
    /\ state' = [state EXCEPT ![r] = "unsigned"]
    /\ made' = [made EXCEPT ![r] = "refused"]
    /\ UNCHANGED <<ask, change, spender, rows, listed, prior, pending, kept, named, calls, overtaken, starts>>

\* The outputs asked for, the commission, the change: what their scripts are.
Wanted(r) ==
    [k \in 1..ask[r].outs |-> <<"asked", k>>]
      \o (IF ask[r].charged THEN <<<<"commission", 0>>>> ELSE <<>>)
      \o [k \in 1..change[r].outs |-> <<"change", k>>]
IsChange(o) == o.script[1] = "change"

\* randomizeOutputVouts
Vouts(r, n) == IF ask[r].random THEN Orders(1..n) ELSE {[k \in 1..n |-> k]}

NewRow(script, vout) == [script |-> script, vout |-> vout]
InsertRows(want, p) == [k \in DOMAIN want |-> NewRow(want[k], p[k])]

WriteOutputs(r) ==
    /\ made[r] = "funded"
    /\ LET want == Wanted(r)
       IN  \E p \in Vouts(r, Len(want)) :
             rows' = [rows EXCEPT ![r] = InsertRows(want, p)]
    /\ made' = [made EXCEPT ![r] = "written"]
    /\ UNCHANGED <<ask, change, spender, listed, prior, pending, kept, state, named, calls, overtaken, starts>>

\* markKnownInputsSpent: all inputs with a row, in one storage transaction.  An
\* input that a signed transaction spends ends it, with the marks made so far; one
\* that is only reserved undoes them.
Coins(r) == [k \in DOMAIN ask[r].ins |-> ask[r].ins[k].coin]
KnownIns(r) == Range(Coins(r)) \cap OwnOuts
Before(seq, S) == {seq[k] : k \in {k \in DOMAIN seq : \A j \in 1..k : seq[j] \notin S}}
Taken(r) == {c \in KnownIns(r) : spender[c] # Nil}
FirstTaken(r) == SelectSeq(Coins(r), LAMBDA c : c \in Taken(r))[1]
Marked(r) ==
    IF Taken(r) = {} THEN KnownIns(r)
    ELSE IF kept[spender[FirstTaken(r)]] # Nil THEN Before(Coins(r), Taken(r)) \cap OwnOuts ELSE {}

\* createNewInputs: the inputs given, then the change.
Listed(r) == Coins(r) \o change[r].coins

WriteInputs(r) ==
    /\ made[r] = "written"
    /\ spender' = [c \in OwnOuts |-> IF c \in Marked(r) THEN r ELSE spender[c]]
    /\ IF Taken(r) = {}
       THEN /\ listed' = [listed EXCEPT ![r] = Listed(r)]
            /\ made' = [made EXCEPT ![r] = "listed"]
       ELSE made' = [made EXCEPT ![r] = "refused"] /\ UNCHANGED listed
    /\ UNCHANGED <<ask, change, rows, prior, pending, kept, state, named, calls, overtaken, starts>>

----------------------------------------------------------------------------
\* Wallet: createAction

\* buildSignableTransaction: outputs by vout, whatever the order of the rows;
\* inputs by vin, those of the arguments first.
RowAt(r, v) == rows[r][CHOOSE k \in DOMAIN rows[r] : rows[r][k].vout = v]

\* Mutant: outputs in the order of the rows.
BuiltOuts_Rows(r) == [v \in DOMAIN rows[r] |-> rows[r][v].script]

BuiltOuts(r) ==
    IF rows[r] = <<>> THEN <<<<"dummy", 0>>>> ELSE [v \in DOMAIN rows[r] |-> RowAt(r, v).script]
OwnVins(r) == {v \in DOMAIN listed[r] : v > Len(ask[r].ins)}
BuiltIns(r) ==
    [v \in DOMAIN listed[r] |->
        [coin |-> listed[r][v],
         unlock |-> IF v \notin OwnVins(r) /\ ask[r].ins[v].script THEN <<"given", listed[r][v]>> ELSE <<"none", Nil>>]]

\* Signed by the key of the input it is meant for.
Signed(r, tx) == [tx EXCEPT !.ins = [v \in DOMAIN tx.ins |->
                    IF v \in OwnVins(r) THEN [tx.ins[v] EXCEPT !.unlock = <<"wallet", listed[r][v]>>] ELSE tx.ins[v]]]

\* A transaction to be signed later comes with the source of each input, from
\* inputBEEF; storage gives no beef when only txids are asked for.
GivesBeef(q) == ~q.txidOnly
Showable(q) == GivesBeef(q) /\ \A k \in DOMAIN q.ins : q.ins[k].source = "whole"

ChangeVouts(r) == {rows[r][k].vout : k \in {k \in DOMAIN rows[r] : IsChange(rows[r][k])}}

Build(r) ==
    /\ made[r] = "listed"
    /\ LET tx == [ins |-> BuiltIns(r), outs |-> BuiltOuts(r)]
       IN  IF ~SignsLater(ask[r])
           THEN /\ prior' = [prior EXCEPT ![r] = Signed(r, tx)]
                /\ calls' = [calls EXCEPT ![r] = Call(r, "process", Nil)]
                /\ made' = [made EXCEPT ![r] = "built"] /\ UNCHANGED pending
           ELSE IF Showable(ask[r])
           THEN /\ prior' = [prior EXCEPT ![r] = tx] /\ pending' = pending \cup {r}
                /\ made' = [made EXCEPT ![r] = "built"] /\ UNCHANGED calls
           ELSE made' = [made EXCEPT ![r] = "refused"] /\ UNCHANGED <<prior, pending, calls>>
    /\ named' = IF ask[r].noSend /\ made'[r] # "refused" THEN [named EXCEPT ![r] = ChangeVouts(r)] ELSE named
    /\ UNCHANGED <<ask, change, spender, rows, listed, kept, state, overtaken, starts>>

----------------------------------------------------------------------------
\* Wallet: signAction

\* completeSignedTransaction: spends are put in place until one does not belong.
Spendable(r, v) == v <= Len(ask[r].ins) /\ ~ask[r].ins[v].script
WithSpends(r, S) == [prior[r] EXCEPT !.ins = [v \in DOMAIN prior[r].ins |->
    IF v \in S /\ \A w \in S : w <= v => Spendable(r, w)
    THEN [prior[r].ins[v] EXCEPT !.unlock = <<"spend", prior[r].ins[v].coin>>] ELSE prior[r].ins[v]]]

Sign(s) ==
    /\ calls[s].pc = "idle"
    /\ \E r \in pending : \E S \in SUBSET DOMAIN prior[r].ins :
        /\ prior' = [prior EXCEPT ![r] = WithSpends(r, S)]
        /\ calls' = [calls EXCEPT ![s] =
             Call(r, IF \A v \in S : Spendable(r, v) THEN "sign" ELSE "refused", Nil)]
    /\ UNCHANGED <<ask, made, change, spender, rows, listed, pending, kept, state, named, overtaken, starts>>

\* The wallet's signatures are there when the await is over.
SignOwn(s) ==
    /\ calls[s].pc = "sign"
    /\ prior' = [prior EXCEPT ![calls[s].ref] = Signed(calls[s].ref, prior[calls[s].ref])]
    /\ calls' = [calls EXCEPT ![s].pc = "process"]
    /\ UNCHANGED <<ask, made, change, spender, rows, listed, pending, kept, state, named, overtaken, starts>>

----------------------------------------------------------------------------
\* storage: processAction, for a call of createAction or of signAction

\* buildOutputUpdates: a row that has its script agrees with the transaction.
ScriptsAgree(r) == \A k \in DOMAIN rows[r] :
    IsChange(rows[r][k]) \/ prior[r].outs[rows[r][k].vout] = rows[r][k].script
Processable(r) == state[r] \in {"unsigned", "unprocessed"} /\ ScriptsAgree(r)

\* validateCommitNewTxToStorageArgs, with the transaction as it is then.
Check(x) ==
    /\ calls[x].pc = "process"
    /\ calls' = [calls EXCEPT ![x] = Call(calls[x].ref,
         IF Processable(calls[x].ref) THEN "checked" ELSE "refused", prior[calls[x].ref])]
    /\ UNCHANGED <<ask, made, change, spender, rows, listed, prior, pending, kept, state, named, overtaken, starts>>

\* commitNewTxToStorage: the req, then the status, whatever it is by now.  The two
\* are one storage transaction but in RocksDb.
Record(x) ==
    /\ calls[x].pc = "checked"
    /\ kept' = [kept EXCEPT ![calls[x].ref] = calls[x].raw]
    /\ calls' = [calls EXCEPT ![x].pc = "recorded"]
    /\ UNCHANGED <<ask, made, change, spender, rows, listed, prior, pending, state, named, overtaken, starts>>

\* determineReqTxStatus, with the noSend of createAction.
Commit(x) ==
    LET noSend == ask[calls[x].ref].noSend
    IN  /\ calls[x].pc = "recorded"
        /\ state' = [state EXCEPT ![calls[x].ref] = IF noSend THEN "nosend" ELSE "unprocessed"]
        /\ calls' = [calls EXCEPT ![x].pc = IF noSend THEN "done" ELSE "committed"]
        /\ UNCHANGED <<ask, made, change, spender, rows, listed, prior, pending, kept, named, overtaken, starts>>

\* shareReqsWithWorld: sent now or later, or not if its req is not ready or the
\* beef is not valid.  What verifyUnlockScripts finds in signAction afterwards is
\* only told to the application.
Share(x) ==
    /\ calls[x].pc = "committed"
    /\ \E y \in {"sending", state[calls[x].ref]} : state' = [state EXCEPT ![calls[x].ref] = y]
    /\ calls' = [calls EXCEPT ![x].pc = "done"]
    /\ UNCHANGED <<ask, made, change, spender, rows, listed, prior, pending, kept, named, overtaken, starts>>

----------------------------------------------------------------------------
\* A processAction has read the status and not yet written it for the last time.
InFlight(r) == \E x \in Callers : calls[x].ref = r /\ calls[x].pc \in {"checked", "recorded", "committed"}

\* abortAction, by the application, or TaskFailAbandoned for an action nobody
\* finished, from a list read earlier; neither waits for a processAction.
GiveUp(r) ==
    /\ state[r] \in {"unsigned", "nosend", "unprocessed", "sending"}
    /\ state' = [state EXCEPT ![r] = "failed"]
    /\ spender' = [c \in OwnOuts |-> IF spender[c] = r THEN Nil ELSE spender[c]]
    /\ overtaken' = IF InFlight(r) THEN overtaken \cup {r} ELSE overtaken
    /\ UNCHANGED <<ask, made, change, rows, listed, prior, pending, kept, named, calls, starts>>

\* The process of the wallet and its storage starts again, with something to lose.
Ended == {"idle", "refused", "done"}
StartAgain ==
    /\ starts < MaxStarts
    /\ \/ pending # {} \/ \E r \in Refs : made[r] \notin {"no", "refused", "built"}
       \/ \E x \in Callers : calls[x].pc \notin Ended
    /\ starts' = starts + 1
    /\ pending' = {}
    /\ made' = [r \in Refs |-> IF made[r] \in {"no", "built"} THEN made[r] ELSE "refused"]
    /\ calls' = [x \in Callers |-> IF calls[x].pc \in Ended THEN calls[x] ELSE Call(calls[x].ref, "refused", Nil)]
    /\ UNCHANGED <<ask, change, spender, rows, listed, prior, kept, state, named, overtaken>>

SgNext ==
    \/ \E r \in Refs : \/ Validate(r) \/ Fund(r) \/ Starve(r) \/ WriteOutputs(r) \/ WriteInputs(r)
                       \/ Build(r) \/ GiveUp(r)
    \/ \E s \in SignCalls : Sign(s) \/ SignOwn(s)
    \/ \E x \in Callers : Check(x) \/ Record(x) \/ Commit(x) \/ Share(x)
    \/ StartAgain

SgSpec == SgInit /\ [][SgNext]_sgVars

----------------------------------------------------------------------------
SgTypeOK ==
    /\ \A r \in Refs : state[r] \in {"none", "unsigned", "nosend", "unprocessed", "sending", "failed"}
    /\ \A c \in OwnOuts : spender[c] \in Refs \cup {Nil}

\* Storage and the transaction it keeps agree, whatever order the outputs were
\* drawn in and whoever signed: each row is where its script is; the transaction
\* spends the outputs that are reserved for it, and no other of the wallet's, until
\* it is given up; each change input is signed with its own key, and an input of
\* the application carries a script made for it or none; and the noSendChange
\* returned with it is its change.  One exception: processAction reads the status
\* and writes it some awaits later without looking again, so an action given up in
\* between has lost its outputs and may be sent all the same (overtaken).
Agree(r) ==
    LET tx == kept[r]
        coins == [v \in DOMAIN tx.ins |-> tx.ins[v].coin]
    IN  /\ \A k \in DOMAIN rows[r] : tx.outs[rows[r][k].vout] = rows[r][k].script
        /\ rows[r] # <<>> => Len(tx.outs) = Len(rows[r])
        /\ state[r] # "failed" /\ r \notin overtaken =>
             Range(coins) \cap OwnOuts = {c \in OwnOuts : spender[c] = r}
        /\ \A v \in DOMAIN tx.ins :
             /\ tx.ins[v].unlock # <<"none", Nil>> => tx.ins[v].unlock[2] = coins[v]
             /\ coins[v] \in ChangeOuts <=> tx.ins[v].unlock[1] = "wallet"
        /\ ask[r].noSend => {tx.outs[v] : v \in named[r]} = {o \in Range(tx.outs) : o[1] = "change"}
PositionsAgree == \A r \in Refs : kept[r] # Nil => Agree(r)
================================================================================
