---------------------------- MODULE RocksDbOutputs ----------------------------
(***************************************************************************)
(* Outputs in a RocksDb wallet store while several createAction and        *)
(* processAction calls run at once (supportsConcurrentActionWrites).       *)
(*                                                                         *)
(* An output is kept twice, as an entity (StorageRocksDb) and as a primary *)
(* record with a version (RocksDbWalletStore), and is found through index  *)
(* keys.  Only tryReserveSpendableOutput writes them in one native         *)
(* transaction; updateOutput writes them one await after the other, and    *)
(* `batch` is a loop of single writes.  Each await is a step here.         *)
(***************************************************************************)
EXTENDS Naturals, FiniteSets, FiniteSetsExt

CONSTANTS
  Acts,       \* actions under way, each the transactionId of its transaction
  Change,     \* change outputs, allocated by the wallet
  Known,      \* other outputs, spent as explicit inputs of an action
  NoSendOuts, \* change outputs whose transaction stays kept back ('nosend')
  NoSendActs, \* actions that name noSendChange outputs
  None,       \* spentBy undefined, an idle process
  MaxVersion, \* bound on the versions all primary records gain
  MaxCrashes  \* bound on process restarts

Outs == Change \cup Known

ASSUME OutputsAssumption ==
  /\ None \notin Acts
  /\ Change \cap Known = {}
  /\ NoSendOuts \subseteq Change
  /\ NoSendActs \subseteq Acts
  /\ MaxVersion \in Nat
  /\ MaxCrashes \in Nat

VARIABLES
  entity,   \* the outputs entity: spendable, spentBy
  primary,  \* the primary record: spendable, spentBy, version
  byBasket, \* outputs with a key in the spendable-by-basket index
  byStatus, \* <<output, status>> keys of the spendable-by-status index
  parent,   \* status of the transaction that made the output
  holds,    \* outputs an action counts as its inputs
  act,      \* what each action is doing
  mover,    \* updateTransaction on the transaction of an output
  tail,     \* StorageRocksDb.transactionTail: the action inside transaction()
  crashes

index == <<byBasket, byStatus>>
vars == <<entity, primary, index, parent, holds, act, mover, tail, crashes>>

-----------------------------------------------------------------------------
(* Values.                                                                 *)

Status == {"nosend", "sending", "unproven", "completed", "failed"}
Accepted == {"completed", "unproven", "sending"}

Free == [spendable |-> TRUE, spentBy |-> None]
TakenBy(t) == [spendable |-> FALSE, spentBy |-> t]
Row == {Free} \cup {TakenBy(t) : t \in Acts}

\* The calls that run updateOutput, and what it stores for each.
Kinds == {"release", "nosend", "known", "fail"}

NewRow(t, kind) == IF kind \in {"release", "fail"} THEN Free ELSE TakenBy(t)

UpdatePcs == {"put", "find", "status", "existing", "unindex", "unstatus",
              "version", "primary", "index", "indexStatus"}
Pcs == {"idle", "picked", "read", "checked", "validated", "next", "failed"} \cup UpdatePcs

Idle == [pc |-> "idle", kind |-> "release", out |-> None, row |-> Free, status |-> "sending",
         version |-> 0, todo |-> {}, usable |-> {}]
IdleMover == [pc |-> "idle", out |-> None, from |-> "sending"]

InBound(o) == MapThenSumSet(LAMBDA u : primary[u].version - 1, Outs) < MaxVersion

Become(t, r) == act' = [act EXCEPT ![t] = r]
Goto(t, pc) == Become(t, [act[t] EXCEPT !.pc = pc])

\* An action starts updateOutput on o.
BeginUpdate(t, kind, o) ==
  Become(t, [act[t] EXCEPT !.pc = "put", !.kind = kind, !.out = o])

-----------------------------------------------------------------------------
(* allocateChangeInput: reserveSpendableOutputByStatusAndValue.            *)

\* An index key of an accepted status is met in the range.
Pick(t, o, s) ==
  /\ act[t].pc = "idle" /\ InBound(o)
  /\ o \in Change /\ s \in Accepted /\ <<o, s>> \in byStatus
  /\ Become(t, [act[t] EXCEPT !.pc = "picked", !.out = o, !.status = s])
  /\ UNCHANGED <<entity, primary, index, parent, holds, mover, tail, crashes>>

\* The primary record it names is read; one that is not spendable is passed over.
ReadPrimary(t) ==
  LET o == act[t].out IN
  /\ act[t].pc = "picked"
  /\ IF primary[o].spendable
     THEN Become(t, [act[t] EXCEPT !.pc = "read", !.version = primary[o].version])
     ELSE Become(t, Idle)
  /\ UNCHANGED <<entity, primary, index, parent, holds, mover, tail, crashes>>

\* The predicate of allocateChangeInput, hasAcceptedStatus.
CheckStatus(t) ==
  /\ act[t].pc = "read"
  /\ IF parent[act[t].out] \in Accepted THEN Goto(t, "checked") ELSE Become(t, Idle)
  /\ UNCHANGED <<entity, primary, index, parent, holds, mover, tail, crashes>>

\* Mutant: what was read before the native transaction is trusted inside it.
Reservable_Trusting(t) == TRUE

\* The conditions tryReserveSpendableOutput looks at again.
Reservable(t) ==
  LET o == act[t].out IN
  /\ primary[o].version = act[t].version
  /\ primary[o].spendable /\ entity[o].spendable

\* tryReserveSpendableOutput, one native transaction.
TryReserve(t) ==
  LET o == act[t].out IN
  /\ act[t].pc = "checked"
  /\ Become(t, Idle)
  /\ IF Reservable(t)
     THEN /\ entity' = [entity EXCEPT ![o] = TakenBy(t)]
          /\ primary' = [primary EXCEPT ![o] = [spendable |-> FALSE, spentBy |-> t,
                                                version |-> @.version + 1]]
          /\ byBasket' = byBasket \ {o}
          /\ byStatus' = byStatus \ {<<o, act[t].status>>}
          /\ holds' = [holds EXCEPT ![t] = @ \cup {o}]
     ELSE UNCHANGED <<entity, primary, index, holds>>
  /\ UNCHANGED <<parent, mover, tail, crashes>>

-----------------------------------------------------------------------------
(* The callers of updateOutput.                                            *)

\* releaseChangeInput, when generateChange gives an allocated output back.
Release(t, o) ==
  /\ act[t].pc = "idle" /\ o \in holds[t] \cap (Change \ NoSendOuts) /\ InBound(o)
  /\ holds' = [holds EXCEPT ![t] = @ \ {o}]
  /\ BeginUpdate(t, "release", o)
  /\ UNCHANGED <<entity, primary, index, parent, mover, tail, crashes>>

\* validateNoSendChange, at the start of createAction ...
ValidateNoSendChange(t, o) ==
  /\ t \in NoSendActs /\ o \in NoSendOuts
  /\ act[t].pc = "idle" /\ InBound(o)
  /\ entity[o] = Free
  /\ Become(t, [act[t] EXCEPT !.pc = "validated", !.out = o])
  /\ UNCHANGED <<entity, primary, index, parent, holds, mover, tail, crashes>>

\* ... and its allocation, later, while the transaction is funded.
AllocateNoSendChange(t) ==
  /\ act[t].pc = "validated"
  /\ BeginUpdate(t, "nosend", act[t].out)
  /\ UNCHANGED <<entity, primary, index, parent, holds, mover, tail, crashes>>

\* transaction() runs one scope at a time.
TailFree == tail = None

\* markKnownInputsSpent: the rows of K are read inside transaction() ...
MarkKnownInputs(t, K) ==
  /\ act[t].pc = "idle" /\ TailFree
  /\ K \subseteq Known /\ K # {} /\ \A o \in K : InBound(o)
  /\ tail' = t
  /\ Become(t, [act[t] EXCEPT !.pc = "next", !.kind = "known", !.todo = K,
                              !.usable = {o \in K : entity[o] = Free}])
  /\ UNCHANGED <<entity, primary, index, parent, holds, mover, crashes>>

\* updateTransactionStatus('failed'): the inputs are found by spentBy ...
Fail(t) ==
  /\ act[t].pc = "idle" /\ TailFree
  /\ \A o \in Outs : entity[o].spentBy = t => InBound(o)
  /\ tail' = t
  /\ holds' = [holds EXCEPT ![t] = {}]
  /\ LET O == {o \in Outs : entity[o].spentBy = t} IN
     Become(t, [act[t] EXCEPT !.pc = "next", !.kind = "fail", !.todo = O, !.usable = O])
  /\ UNCHANGED <<entity, primary, index, parent, mover, crashes>>

\* ... and updated one after the other; a known input that is taken throws.
NextOutput(t, o) ==
  /\ act[t].pc = "next" /\ o \in act[t].todo
  /\ IF o \in act[t].usable
     THEN /\ Become(t, [act[t] EXCEPT !.pc = "put", !.out = o, !.todo = @ \ {o}])
          /\ UNCHANGED tail
     ELSE Become(t, Idle) /\ tail' = None
  /\ UNCHANGED <<entity, primary, index, parent, holds, mover, crashes>>

\* The scope of transaction() ends.
EndScope(t) ==
  /\ act[t].pc = "next" /\ act[t].todo = {}
  /\ Become(t, [Idle EXCEPT !.pc = IF act[t].kind = "fail" THEN "failed" ELSE "idle"])
  /\ tail' = None
  /\ UNCHANGED <<entity, primary, index, parent, holds, mover, crashes>>

-----------------------------------------------------------------------------
(* updateOutput.                                                           *)

\* updateByKey: of what it merges, both fields kept here come from the update.
PutEntity(t) ==
  /\ act[t].pc = "put"
  /\ entity' = [entity EXCEPT ![act[t].out] = NewRow(t, act[t].kind)]
  /\ Goto(t, "find")
  /\ UNCHANGED <<primary, index, parent, holds, mover, tail, crashes>>

\* findOutputs: the entity is read again.
FindOutput(t) ==
  /\ act[t].pc = "find"
  /\ Become(t, [act[t] EXCEPT !.pc = "status", !.row = entity[act[t].out]])
  /\ UNCHANGED <<entity, primary, index, parent, holds, mover, tail, crashes>>

\* transactionStatusForOutput.
ReadStatus(t) ==
  /\ act[t].pc = "status"
  /\ Become(t, [act[t] EXCEPT !.pc = "existing", !.status = parent[act[t].out]])
  /\ UNCHANGED <<entity, primary, index, parent, holds, mover, tail, crashes>>

\* putOutput: the keys of a record that was spendable will be deleted first.
GetExisting(t) ==
  /\ act[t].pc = "existing"
  /\ Goto(t, IF primary[act[t].out].spendable THEN "unindex" ELSE "version")
  /\ UNCHANGED <<entity, primary, index, parent, holds, mover, tail, crashes>>

\* batch: one write after the other.
Unindex(t) ==
  /\ act[t].pc = "unindex"
  /\ byBasket' = byBasket \ {act[t].out}
  /\ Goto(t, "unstatus")
  /\ UNCHANGED <<entity, primary, byStatus, parent, holds, mover, tail, crashes>>

UnindexStatus(t) ==
  /\ act[t].pc = "unstatus"
  /\ byStatus' = byStatus \ {<<act[t].out, act[t].status>>}
  /\ Goto(t, "version")
  /\ UNCHANGED <<entity, primary, byBasket, parent, holds, mover, tail, crashes>>

ReadVersion(t) ==
  /\ act[t].pc = "version"
  /\ Become(t, [act[t] EXCEPT !.pc = "primary", !.version = primary[act[t].out].version])
  /\ UNCHANGED <<entity, primary, index, parent, holds, mover, tail, crashes>>

\* updateOutput returns: the caller has its output, or goes on with its loop.
Return(t) ==
  /\ holds' = IF act[t].kind \in {"nosend", "known"}
              THEN [holds EXCEPT ![t] = @ \cup {act[t].out}] ELSE holds
  /\ Become(t, IF act[t].kind \in {"known", "fail"}
                THEN [Idle EXCEPT !.pc = "next", !.kind = act[t].kind,
                                  !.todo = act[t].todo, !.usable = act[t].usable]
                ELSE Idle)

PutPrimary(t) ==
  LET r == act[t].row IN
  /\ act[t].pc = "primary"
  /\ primary' = [primary EXCEPT ![act[t].out] =
       [spendable |-> r.spendable, spentBy |-> r.spentBy, version |-> act[t].version + 1]]
  /\ IF r.spendable THEN Goto(t, "index") /\ UNCHANGED holds ELSE Return(t)
  /\ UNCHANGED <<entity, index, parent, mover, tail, crashes>>

Index(t) ==
  /\ act[t].pc = "index"
  /\ byBasket' = byBasket \cup {act[t].out}
  /\ Goto(t, "indexStatus")
  /\ UNCHANGED <<entity, primary, byStatus, parent, holds, mover, tail, crashes>>

\* Mutant: the key of the status index is not put back.
IndexStatus_Missing(t) ==
  /\ act[t].pc = "indexStatus"
  /\ Return(t)
  /\ UNCHANGED <<entity, primary, index, parent, mover, tail, crashes>>

IndexStatus(t) ==
  /\ act[t].pc = "indexStatus"
  /\ byStatus' = byStatus \cup {<<act[t].out, act[t].status>>}
  /\ Return(t)
  /\ UNCHANGED <<entity, primary, byBasket, parent, mover, tail, crashes>>

-----------------------------------------------------------------------------
(* updateTransaction on the transaction that made o.                       *)

\* The ways a transaction's status moves on.
Follows(s) ==
  CASE s = "sending" -> {"unproven", "completed", "failed"}
    [] s = "unproven" -> {"completed", "failed"}
    [] OTHER -> {}

\* The status is stored ... (Nothing looks up known outputs by this status.)
MoveStatus(o, s) ==
  /\ mover.pc = "idle" /\ o \in Change /\ s \in Follows(parent[o])
  /\ parent' = [parent EXCEPT ![o] = s]
  /\ mover' = [pc |-> "find", out |-> o, from |-> parent[o]]
  /\ UNCHANGED <<entity, primary, index, holds, act, tail, crashes>>

\* ... reindexOutputsForTransactionStatus reads the primary record ...
MoveFind ==
  LET p == primary[mover.out] IN
  /\ mover.pc = "find"
  /\ mover' = IF p.spendable THEN [mover EXCEPT !.pc = "unindex"] ELSE IdleMover
  /\ UNCHANGED <<entity, primary, index, parent, holds, act, tail, crashes>>

\* ... and moves its status key, two writes of a batch.
MoveUnindex ==
  /\ mover.pc = "unindex"
  /\ byStatus' = byStatus \ {<<mover.out, mover.from>>}
  /\ mover' = [mover EXCEPT !.pc = "index"]
  /\ UNCHANGED <<entity, primary, byBasket, parent, holds, act, tail, crashes>>

MoveIndex ==
  /\ mover.pc = "index"
  /\ byStatus' = byStatus \cup {<<mover.out, parent[mover.out]>>}
  /\ mover' = IdleMover
  /\ UNCHANGED <<entity, primary, byBasket, parent, holds, act, tail, crashes>>

-----------------------------------------------------------------------------
\* The process stops and starts again.  Transactions and outputs are kept; an
\* interrupted action is left to be failed later.
Crash ==
  /\ crashes < MaxCrashes
  /\ crashes' = crashes + 1
  /\ act' = [t \in Acts |-> IF act[t].pc = "failed" THEN act[t] ELSE Idle]
  /\ mover' = IdleMover
  /\ tail' = None
  /\ UNCHANGED <<entity, primary, index, parent, holds>>

Init ==
  /\ entity = [o \in Outs |-> Free]
  /\ primary = [o \in Outs |-> [spendable |-> TRUE, spentBy |-> None, version |-> 1]]
  /\ parent = [o \in Outs |-> IF o \in NoSendOuts THEN "nosend" ELSE "sending"]
  /\ byBasket = Outs
  /\ byStatus = {<<o, parent[o]>> : o \in Outs}
  /\ holds = [t \in Acts |-> {}]
  /\ act = [t \in Acts |-> Idle]
  /\ mover = IdleMover
  /\ tail = None
  /\ crashes = 0

Reserve(t) ==
  \/ \E o \in Outs, s \in Status : Pick(t, o, s)
  \/ ReadPrimary(t) \/ CheckStatus(t) \/ TryReserve(t)

Call(t) ==
  \/ \E o \in Outs : Release(t, o) \/ ValidateNoSendChange(t, o) \/ NextOutput(t, o)
  \/ \E K \in SUBSET Known : MarkKnownInputs(t, K)
  \/ AllocateNoSendChange(t) \/ Fail(t) \/ EndScope(t)

UpdateOutput(t) ==
  \/ PutEntity(t) \/ FindOutput(t) \/ ReadStatus(t) \/ GetExisting(t)
  \/ Unindex(t) \/ UnindexStatus(t) \/ ReadVersion(t) \/ PutPrimary(t)
  \/ Index(t) \/ IndexStatus(t)

Move == (\E o \in Outs, s \in Status : MoveStatus(o, s)) \/ MoveFind \/ MoveUnindex \/ MoveIndex

Next == (\E t \in Acts : Reserve(t) \/ Call(t) \/ UpdateOutput(t)) \/ Move \/ Crash

Spec == Init /\ [][Next]_vars

-----------------------------------------------------------------------------
(* Properties.                                                             *)

\* Every record and every process has the form the code gives it; in both copies
\* an output is spendable exactly when it has no spentBy.
TypeOK ==
  /\ entity \in [Outs -> Row]
  /\ primary \in [Outs -> [spendable: BOOLEAN, spentBy: Acts \cup {None}, version: Nat]]
  /\ \A o \in Outs : primary[o].spendable <=> primary[o].spentBy = None
  /\ byBasket \in SUBSET Outs
  /\ byStatus \in SUBSET (Outs \X Status)
  /\ parent \in [Outs -> Status]
  /\ holds \in [Acts -> SUBSET Outs]
  /\ act \in [Acts -> [pc: Pcs, kind: Kinds, out: Outs \cup {None}, row: Row, status: Status,
                       version: Nat, todo: SUBSET Outs, usable: SUBSET Outs]]
  /\ mover \in [pc: {"idle", "find", "unindex", "index"}, out: Outs \cup {None}, from: Status]
  /\ tail \in Acts \cup {None}
  /\ crashes \in 0..MaxCrashes

\* No two actions can be given o as noSendChange: validateNoSendChange looks at the
\* output early and the allocation, an updateOutput, does not look again, so two that
\* name one noSendChange output both allocate it.
OneTaker(o) == o \in NoSendOuts => \A t, u \in NoSendActs : t = u

\* Apart from a noSendChange output that several actions may name, an output that an
\* action counts as its input is allocated to that action, in the entity and in the
\* primary record, and so to no other action, whatever the interleaving of the awaits
\* of createAction, releaseChangeInput, updateOutput and tryReserveSpendableOutput,
\* and whatever stale index keys they leave.
HeldLocked ==
  \A t \in Acts : \A o \in holds[t] : OneTaker(o) =>
    /\ entity[o] = TakenBy(t)
    /\ ~primary[o].spendable /\ primary[o].spentBy = t

\* No process works on o.
Quiet(o) ==
  /\ \A t \in Acts : act[t].out # o /\ o \notin act[t].todo
  /\ mover.out # o

\* An output that was given back can be allocated again: without a crash, and apart
\* from a noSendChange output that several actions may name, the entity and the
\* primary record agree once nobody works on the output, and a spendable one has its
\* basket key and a status key that allocateChangeInput looks at, although
\* updateOutput and updateTransaction move these keys at the same time.
Findable ==
  crashes = 0 => \A o \in Outs : Quiet(o) /\ OneTaker(o) =>
    /\ primary[o].spendable = entity[o].spendable /\ primary[o].spentBy = entity[o].spentBy
    /\ entity[o].spendable /\ parent[o] \in Accepted =>
         o \in byBasket /\ \E s \in Accepted : <<o, s>> \in byStatus
=============================================================================
