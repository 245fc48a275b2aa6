------------------------------- MODULE MCStores -------------------------------
\* RocksDbOutputs, Sync, Funding, StorageTables, Incoming and Beefs for TLC: each
\* behaviour runs one of them.
EXTENDS RocksDbOutputs, Sync, Funding, StorageTables, Incoming, Beefs, TLC

CONSTANTS x1, x2, x3, A, B, X, t1, t2, o1, r1, us1, us2

\* The wallet's stores A and B, and the store X of an older wallet that holds a
\* transaction with an output.
MCOrder   == <<A, B>>
MCOutside == {X}
MCItems   == {t1, t2, o1, r1}
MCKind    == t1 :> 2 @@ t2 :> 2 @@ o1 :> 3 @@ r1 :> 4
MCParent  == [i \in MCItems |-> IF i = o1 THEN t1 ELSE i]
MCHeld    == A :> {} @@ B :> {} @@ X :> {t1, o1}

\* Fixed outputs of 12 satoshis, with and without fixed inputs, noSendChange and
\* a target; and one of maxPossibleSatoshis.
Ask(given, spent, targets, noSends) ==
    [fixedIn : {given}, fixedOut : {spent}, ins : {IF given = 0 THEN 0 ELSE 1}, outs : {1},
     target : targets, first : {3}, initial : {9}, noSend : noSends]
MCRequests == Ask(0, 12, {Unset, -1, 2}, {0, 1}) \cup Ask(14, 12, {1}, {0}) \cup Ask(0, Huge, {2}, {0, 2})

\* The first user asks for both outputs, twice; the second for one of them.
MCSatoshis == 1 :> 3 @@ 2 :> 5
MCWants == us1 :> [{1, 2} -> OutKinds]
           @@ us2 :> {[v \in {1, 2} |-> IF v = 1 THEN "change" ELSE "none"]}
MCMaxTries == us1 :> 2 @@ us2 :> 1

\* A chain of three transactions.
MCInputs == <<{}, {1}, {2}>>

VARIABLE part

storesVars == <<vars, syVars, fVars, tVars, inVars, beVars, part>>

\* A state of Funding for the other parts.
FIdle ==
    /\ req \in Requests /\ req.noSend = 0 /\ req.target = -1 /\ named = <<>>
    /\ sats = [c \in Coins |-> 7] /\ spendable = Coins /\ fixedOut = 0 /\ fpc = "done" /\ others = 0
    /\ marked = {} /\ noSend = <<>> /\ inputs = <<>> /\ outputs = <<>> /\ removing = FALSE

\* StorageTables with no calls, and with nothing to read either.
TQuiet == rows = {} /\ \A c \in Clients : at[c].op = "req" /\ at[c].key = Min(Keys)
TIdle == store = "sql" /\ matches = <<>>

StoresInit ==
    /\ part \in {"rocks", "sync", "funding", "tables", "pages", "incoming", "beefs"}
    /\ Init
    /\ SyInit
    /\ IF part = "funding" THEN FInit ELSE FIdle
    /\ TInit
    /\ part = "tables" => matches = <<>>
    /\ part # "tables" => TQuiet
    /\ part \notin {"tables", "pages"} => TIdle
    /\ InInit
    /\ part # "incoming" => reqRow = "none"
    /\ BeInit

StoresNext ==
    \/ part = "rocks" /\ Next /\ UNCHANGED <<syVars, fVars, tVars, inVars, beVars, part>>
    \/ part = "sync" /\ SyNext /\ UNCHANGED <<vars, fVars, tVars, inVars, beVars, part>>
    \/ part = "funding" /\ FNext /\ UNCHANGED <<vars, syVars, tVars, inVars, beVars, part>>
    \/ /\ \/ part = "tables" /\ CallsNext
          \/ part = "pages" /\ ReadNext
       /\ UNCHANGED <<vars, syVars, fVars, inVars, beVars, part>>
    \/ part = "incoming" /\ InNext /\ UNCHANGED <<vars, syVars, fVars, tVars, beVars, part>>
    \* A purge, or a beef for a caller.
    \/ /\ part = "beefs" /\ BeNext /\ (purges' = 0 \/ readsDone' = 0)
       /\ UNCHANGED <<vars, syVars, fVars, tVars, inVars, part>>

StoresSpec == StoresInit /\ [][StoresNext]_storesVars

================================================================================
