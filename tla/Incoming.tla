------------------------------- MODULE Incoming -------------------------------
(***************************************************************************)
(* internalizeAction: users take outputs of one transaction into their     *)
(* wallets, as payments (change) or into baskets (custom).  It is somebody *)
(* else's transaction or one of their own, and the users share the proof   *)
(* and the proof request (req) of their store.  The writer lock of a       *)
(* wallet admits one call of a user at a time; a call that stops half way  *)
(* may be made again.  What the monitor does with the req, as far as it is *)
(* seen here; TxLifecycle has the tasks.                                   *)
(***************************************************************************)
EXTENDS Integers, FiniteSets, FiniteSetsExt, Functions

CONSTANTS
    Users,
    Vouts,       \* outputs of the transaction
    Satoshis,    \* and what they are worth
    Wants,       \* what each user may ask the outputs to become
    Makers,      \* users who may have made the transaction themselves
    NoUser,
    MaxTries     \* bound on the calls of each user

ASSUME IncomingAssumption ==
    /\ IsFiniteSet(Vouts) /\ Satoshis \in [Vouts -> Nat] /\ NoUser \notin Users /\ Makers \subseteq Users
    /\ Wants \in [Users -> SUBSET [Vouts -> {"none", "change", "custom"}]]
    /\ MaxTries \in [Users -> Nat]

VARIABLES
    reqRow,      \* status of the req
    notify,   \* users whose transaction it notifies
    proven,   \* a proof is stored
    posted,   \* the transaction was handed to the network
    txRows,   \* status of each user's transaction row
    worth,    \* satoshis of the row
    outs,     \* what each output is to each user
    call,     \* the user's call
    tries

inVars == <<reqRow, notify, proven, posted, txRows, worth, outs, call, tries>>

OutKinds == {"change", "custom"}
NoCall == [pc |-> "idle", want |-> [v \in Vouts |-> "none"], bump |-> FALSE, merge |-> FALSE,
           seen |-> [v \in Vouts |-> "none"], sats |-> 0, todo |-> {}]

\* Of a transaction of the user's own the change, and custom outputs, are there already.
Own == [Vouts -> OutKinds \cup {"none"}]

InInit ==
    /\ proven = FALSE /\ posted = FALSE
    /\ \E u \in Makers \cup {NoUser}, o \in Own, st \in {<<"nosend", "nosend">>, <<"unsent", "sending">>} :
        /\ reqRow = IF u = NoUser THEN "none" ELSE st[1]
        /\ notify = {u} \ {NoUser}
        /\ txRows = [w \in Users |-> IF w = u THEN st[2] ELSE "none"]
        /\ outs = [w \in Users |-> IF w = u THEN o ELSE NoCall.seen]
    /\ worth = [u \in Users |-> 0]
    /\ call = [u \in Users |-> NoCall] /\ tries = [u \in Users |-> 0]

Sum(S) == MapThenSumSet(LAMBDA v : Satoshis[v], S)
AsChange(o) == {v \in Vouts : o[v] = "change"}
Named(want) == {v \in Vouts : want[v] # "none"}

----------------------------------------------------------------------------
\* asyncSetup.  A payment of what is change already is ignored.
Payments(want) == {v \in Vouts : want[v] = "change"}
Inserts(want) == {v \in Vouts : want[v] = "custom"}
Ignored(want, seen) == {v \in Payments(want) : seen[v] = "change"}

\* Mutant: it counts again.
NetSatoshis_Again(want, seen) == Sum(Payments(want)) - Sum(Inserts(want) \cap AsChange(seen))
NetSatoshis(want, seen) ==
    Sum(Payments(want) \ Ignored(want, seen)) - Sum(Inserts(want) \cap AsChange(seen))

Mergeable == {"completed", "unproven", "nosend"}

Setup(u) ==
    /\ call[u].pc = "idle" /\ tries[u] < MaxTries[u]
    /\ tries' = [tries EXCEPT ![u] = @ + 1]
    /\ \E want \in Wants[u], bump \in {FALSE, posted} :
        LET merge == txRows[u] # "none"
            seen == IF merge THEN outs[u] ELSE NoCall.seen
        IN  call' = [call EXCEPT ![u] =
              IF merge /\ txRows[u] \notin Mergeable THEN NoCall
              ELSE [want |-> want, bump |-> bump, merge |-> merge, seen |-> seen,
                    sats |-> NetSatoshis(want, seen),
                    todo |-> Named(want) \ Ignored(want, seen),
                    pc |-> IF merge THEN "store" ELSE IF bump THEN "prove" ELSE "row"]]
    /\ UNCHANGED <<reqRow, notify, proven, posted, txRows, worth, outs>>

\* newInternalize: findOrInsertProvenTx, when the BEEF has the proof and the
\* chain tracker the header.
StoreProof(u) ==
    /\ call[u].pc = "prove"
    /\ \/ proven' = TRUE /\ call' = [call EXCEPT ![u].pc = "row"]
       \/ call' = [call EXCEPT ![u] = NoCall] /\ UNCHANGED proven
    /\ UNCHANGED <<reqRow, notify, posted, txRows, worth, outs, tries>>

\* findOrInsertTargetTransaction
InsertRow(u) ==
    /\ call[u].pc = "row"
    /\ txRows' = [txRows EXCEPT ![u] = IF call[u].bump THEN "completed" ELSE "unproven"]
    /\ worth' = [worth EXCEPT ![u] = call[u].sats]
    /\ call' = [call EXCEPT ![u].pc = IF call[u].bump THEN "store" ELSE "req"]
    /\ UNCHANGED <<reqRow, notify, proven, posted, outs, tries>>

\* getProvenOrReq with a req of status unsent.  It does not say whether the req is
\* new, so nothing is sent here.
GetProvenOrReq(u) ==
    /\ call[u].pc = "req"
    /\ IF proven THEN UNCHANGED <<reqRow, notify>>
       ELSE /\ reqRow' = IF reqRow = "none" THEN "unsent" ELSE reqRow
            /\ notify' = notify \cup {u}
    /\ call' = [call EXCEPT ![u].pc = "store"]
    /\ UNCHANGED <<proven, posted, txRows, worth, outs, tries>>

\* One output at a time, payments first: inserted, or updated where a row was seen.
NextOut(c) == IF Payments(c.want) \cap c.todo # {} THEN Payments(c.want) \cap c.todo ELSE c.todo

StoreOutput(u) ==
    /\ call[u].pc = "store" /\ call[u].todo # {}
    /\ \E v \in NextOut(call[u]) :
        /\ outs' = [outs EXCEPT ![u][v] = call[u].want[v]]
        /\ call' = [call EXCEPT ![u].todo = @ \ {v}]
    /\ UNCHANGED <<reqRow, notify, proven, posted, txRows, worth, tries>>

Accept(u) ==
    /\ call[u].pc = "store" /\ call[u].todo = {}
    /\ call' = [call EXCEPT ![u].pc = "done"]
    /\ UNCHANGED <<reqRow, notify, proven, posted, txRows, worth, outs, tries>>

Answer(u) ==
    /\ call[u].pc = "done"
    /\ call' = [call EXCEPT ![u] = NoCall]
    /\ UNCHANGED <<reqRow, notify, proven, posted, txRows, worth, outs, tries>>

\* The process stops, or an insert fails.
Break(u) ==
    /\ call[u].pc \notin {"idle", "done"}
    /\ call' = [call EXCEPT ![u] = NoCall]
    /\ UNCHANGED <<reqRow, notify, proven, posted, txRows, worth, outs, tries>>

----------------------------------------------------------------------------
\* The monitor, and the network.
MonitorSends ==
    /\ reqRow \in {"unsent", "nosend"} /\ posted' = TRUE
    /\ \E ok \in BOOLEAN :
        /\ reqRow' = IF ok THEN "unmined" ELSE "invalid"
        /\ txRows' = [u \in Users |->
             IF u \notin notify \/ txRows[u] = "completed" THEN txRows[u] ELSE IF ok THEN "unproven" ELSE "failed"]
    /\ UNCHANGED <<notify, proven, worth, outs, call, tries>>

MonitorProves ==
    /\ reqRow = "unmined"
    /\ reqRow' = "completed" /\ proven' = TRUE
    /\ txRows' = [u \in Users |-> IF u \in notify THEN "completed" ELSE txRows[u]]
    /\ UNCHANGED <<notify, posted, worth, outs, call, tries>>

InNext ==
    \/ \E u \in Users :
         \/ Setup(u) \/ StoreProof(u) \/ InsertRow(u) \/ GetProvenOrReq(u)
         \/ StoreOutput(u) \/ Accept(u) \/ Answer(u) \/ Break(u)
    \/ MonitorSends \/ MonitorProves

InSpec == InInit /\ [][InNext]_inVars

----------------------------------------------------------------------------
InTypeOK ==
    /\ reqRow \in {"none", "nosend", "unsent", "unmined", "invalid", "completed"}
    /\ \A u \in Users : txRows[u] \in Mergeable \cup {"none", "sending", "failed"}

\* What an accepted call reports is what it did: every output it names is what the
\* user asked for, the others are as they were, and the change grew by the satoshis
\* returned, also when the call finishes what an earlier one left half done.
Credited ==
    \A u \in Users : call[u].pc = "done" =>
        /\ outs[u] = [v \in Vouts |-> IF call[u].want[v] = "none" THEN call[u].seen[v] ELSE call[u].want[v]]
        /\ Sum(AsChange(outs[u])) - Sum(AsChange(call[u].seen)) = call[u].sats

\* A transaction the store did not know, without a proof, has been handed to the
\* network when the call is accepted.
AcceptedWasSent ==
    \A u \in Users : call[u].pc = "done" /\ ~call[u].merge /\ ~call[u].bump /\ ~proven => posted
================================================================================
