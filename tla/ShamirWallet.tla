----------------------------- MODULE ShamirWallet -----------------------------
(***************************************************************************)
(* ShamirWalletManager: a key in N shares of which T restore it, one share *)
(* on a server that knows it by the hash of the key it was stored with.    *)
(* And the PrivilegedKeyManager of the wallet it builds, which keeps a key *)
(* for the retention period after its last use.                            *)
(*                                                                         *)
(* A key stands for its own userIdHash.  Shares of one key fit together,   *)
(* shares of two keys fail the integrity check.                            *)
(***************************************************************************)
EXTENDS Naturals, FiniteSets

CONSTANTS
  Keys,     \* keys that generateEntropy can give
  Gets,     \* calls that need the privileged key
  T, N,     \* threshold, totalShares
  NoKey,
  MaxLost   \* bound: shares the user loses

ASSUME ShamirAssumption ==
  T \in Nat /\ N \in Nat /\ 2 <= T /\ T <= N /\ MaxLost \in Nat /\ NoKey \notin Keys

VARIABLES
  server,   \* by userIdHash: the key whose share the server holds
  mgr,      \* privateKey, userIdHash and the key of the underlying wallet
  work,     \* the operation under way, with the key it is about
  held,     \* shares of each key that the user has saved
  cached,   \* the key in the chunks of the privileged key manager
  timer,    \* destroyTimer is set
  getting,  \* calls of getPrivilegedKey, with the key fetched for them
  created, rotated, touched  \* history: keys given out, and hashes sent to update or delete

account == <<server, mgr, work, held, created, rotated, touched>>
privileged == <<cached, timer, getting>>
shVars == <<account, privileged>>

Out == [key |-> NoKey, hash |-> NoKey, wallet |-> NoKey]
Free == [pc |-> "idle", kind |-> "none", key |-> NoKey]
Working(pc, kind) == work.pc = pc /\ work.kind = kind
NewKeys == Keys \ (created \cup rotated \cup {work.key, mgr.key} \cup {k \in Keys : server[k] # NoKey})

-----------------------------------------------------------------------------
(* createNewWallet and rotateKeys: the server's share first, the user's next. *)

CreateNewWallet(k) ==
  /\ work = Free /\ k \in NewKeys
  /\ work' = [pc |-> "request", kind |-> "create", key |-> k]
  /\ UNCHANGED <<server, mgr, held, created, rotated, touched, privileged>>

RotateKeys(k) ==
  /\ work = Free /\ mgr.hash # NoKey /\ k \in NewKeys
  /\ work' = [pc |-> "request", kind |-> "rotate", key |-> k]
  /\ UNCHANGED <<server, mgr, held, created, rotated, touched, privileged>>

\* Mutant: the share is stored under the hash of the wallet before.
StoreShare_OldHash ==
  /\ Working("request", "create")
  /\ server' = [server EXCEPT ![IF mgr.hash = NoKey THEN work.key ELSE mgr.hash] = work.key]
  /\ work' = [work EXCEPT !.pc = "save"]
  /\ UNCHANGED <<mgr, held, created, rotated, touched, privileged>>

StoreShare ==
  /\ Working("request", "create")
  /\ server' = [server EXCEPT ![work.key] = work.key]
  /\ work' = [work EXCEPT !.pc = "save"]
  /\ UNCHANGED <<mgr, held, created, rotated, touched, privileged>>

\* The server's share is replaced under the hash it has now.
UpdateShare ==
  /\ Working("request", "rotate") /\ server[mgr.hash] # NoKey
  /\ server' = [server EXCEPT ![mgr.hash] = work.key]
  /\ touched' = touched \cup {mgr.hash}
  /\ work' = [work EXCEPT !.pc = "save"]
  /\ UNCHANGED <<mgr, held, created, rotated, privileged>>

\* onUserSharesReady: the user saves all shares, or none, which only warns.
SharesSaved ==
  /\ work.pc = "save"
  /\ mgr' = [mgr EXCEPT !.key = work.key, !.hash = work.key]
  /\ \/ /\ held' = [held EXCEPT ![work.key] = N - 1]
        /\ IF work.kind = "create" THEN created' = created \cup {work.key} /\ UNCHANGED rotated
           ELSE rotated' = rotated \cup {work.key} /\ UNCHANGED created
     \/ UNCHANGED <<held, created, rotated>>
  /\ work' = Free
  /\ UNCHANGED <<server, touched, privileged>>

\* The server refuses, its answer is lost, or the callback throws.
OperationFails ==
  /\ work # Free
  /\ work' = Free
  /\ UNCHANGED <<server, mgr, held, created, rotated, touched, privileged>>

-----------------------------------------------------------------------------
(* Recovery, the wallet, deletion.                                         *)

SetUserIdHash(h) ==
  /\ work = Free /\ mgr.key = NoKey /\ mgr.hash # h
  /\ mgr' = [mgr EXCEPT !.hash = h]
  /\ UNCHANGED <<server, work, held, created, rotated, touched, privileged>>

\* recoverWithServerShare with all shares of k the user has.
RecoverWithServerShare(k) ==
  /\ work = Free /\ mgr.hash # NoKey
  /\ held[k] >= T - 1 /\ held[k] > 0 /\ server[mgr.hash] # NoKey
  /\ work' = [pc |-> "retrieved", kind |-> "recover", key |-> k]
  /\ UNCHANGED <<server, mgr, held, created, rotated, touched, privileged>>

\* fromBackupShares and the check of the hash.
Reconstruct ==
  /\ work.pc = "retrieved"
  /\ IF server[mgr.hash] = work.key /\ mgr.hash = work.key
     THEN mgr' = [mgr EXCEPT !.key = work.key] ELSE UNCHANGED mgr
  /\ work' = Free
  /\ UNCHANGED <<server, held, created, rotated, touched, privileged>>

RecoverWithUserShares(k) ==
  /\ work = Free /\ held[k] >= T
  /\ mgr' = [mgr EXCEPT !.key = k, !.hash = k]
  /\ UNCHANGED <<server, work, held, created, rotated, touched, privileged>>

\* buildWallet: a new privileged key manager; the one before keeps its timer.
BuildWallet ==
  /\ work = Free /\ mgr.key # NoKey /\ mgr.wallet # mgr.key
  /\ mgr' = [mgr EXCEPT !.wallet = mgr.key]
  /\ cached' = NoKey /\ timer' = FALSE /\ getting' = [g \in Gets |-> NoKey]
  /\ UNCHANGED <<server, work, held, created, rotated, touched>>

DeleteAccount ==
  /\ work = Free /\ mgr.hash # NoKey /\ server[mgr.hash] # NoKey
  /\ server' = [server EXCEPT ![mgr.hash] = NoKey]
  /\ touched' = touched \cup {mgr.hash}
  /\ mgr' = Out
  /\ UNCHANGED <<work, held, created, rotated, privileged>>

\* The manager keeps nothing over a restart.
ShRestart ==
  /\ mgr # Out
  /\ mgr' = Out /\ work' = Free
  /\ cached' = NoKey /\ timer' = FALSE /\ getting' = [g \in Gets |-> NoKey]
  /\ UNCHANGED <<server, held, created, rotated, touched>>

LoseShare(k) ==
  /\ held[k] > N - 1 - MaxLost
  /\ held' = [held EXCEPT ![k] = @ - 1]
  /\ UNCHANGED <<server, mgr, work, created, rotated, touched, privileged>>

-----------------------------------------------------------------------------
(* PrivilegedKeyManager.                                                   *)

\* getPrivilegedKey without the key in its chunks (with it, only the timer starts
\* anew): keyGetter answers with the key the manager has at that moment.
Fetch(g) ==
  /\ getting[g] = NoKey /\ mgr.wallet # NoKey /\ cached = NoKey /\ mgr.key # NoKey
  /\ getting' = [getting EXCEPT ![g] = mgr.key]
  /\ UNCHANGED <<account, cached, timer>>

\* destroyKey clears the chunks and the timer of a call that was faster; then the
\* key is split, and scheduleKeyDestruction sets the timer.
Keep(g) ==
  /\ getting[g] # NoKey
  /\ cached' = getting[g]
  /\ getting' = [getting EXCEPT ![g] = NoKey]
  /\ timer' = TRUE
  /\ UNCHANGED account

\* The timer fires.
DestroyKey ==
  /\ timer
  /\ cached' = NoKey /\ timer' = FALSE
  /\ UNCHANGED <<account, getting>>

-----------------------------------------------------------------------------
ShInit ==
  /\ server = [k \in Keys |-> NoKey] /\ mgr = Out /\ work = Free
  /\ held = [k \in Keys |-> 0]
  /\ cached = NoKey /\ timer = FALSE /\ getting = [g \in Gets |-> NoKey]
  /\ created = {} /\ rotated = {} /\ touched = {}

ShNext ==
  \/ \E k \in Keys : \/ CreateNewWallet(k) \/ RotateKeys(k) \/ SetUserIdHash(k)
                     \/ RecoverWithServerShare(k) \/ RecoverWithUserShares(k) \/ LoseShare(k)
  \/ StoreShare \/ UpdateShare \/ SharesSaved \/ OperationFails \/ Reconstruct
  \/ BuildWallet \/ DeleteAccount \/ ShRestart \/ DestroyKey
  \/ \E g \in Gets : Fetch(g) \/ Keep(g)

ShSpec == ShInit /\ [][ShNext]_shVars

-----------------------------------------------------------------------------
(* Properties.                                                             *)

\* A wallet that was created, and neither rotated nor deleted, is restored by the
\* server's share and what the user has left after losing a share: whatever
\* rotations, deletions, recoveries and failures happen to other wallets.
CreatedCovered ==
  \A k \in created \ touched : server[k] = k /\ held[k] >= T - 1
=============================================================================
