---------------------------- MODULE Wallets_proofs ----------------------------
(***************************************************************************)
(* What keeps a user's keys within reach, for any number of devices,       *)
(* passwords, keys and profiles: the shares of ShamirWallet and the tokens *)
(* of UmpWallet; and that the transactions signed with them are the ones   *)
(* the store keeps, for any number of actions and coins (Signing).         *)
(***************************************************************************)
EXTENDS ShamirWallet, UmpWallet, Signing, SequenceTheorems, FiniteSetTheorems, TLAPS

-----------------------------------------------------------------------------
(* Shares.                                                                 *)

ShTyped ==
  /\ server \in [Keys -> Keys \cup {NoKey}]
  /\ held \in [Keys -> Int]
  /\ mgr \in [key : Keys \cup {NoKey}, hash : Keys \cup {NoKey}, wallet : Keys \cup {NoKey}]
  /\ work \in [pc : {"idle", "request", "save", "retrieved"}, kind : {"none", "create", "rotate", "recover"},
               key : Keys \cup {NoKey}]
  /\ work # Free => work.key \in Keys
  /\ created \subseteq Keys

\* The server has the share of a wallet before the user is given the others, under
\* the hash of its own key, and who is about to be given them has not lost any.
SharesInv ==
  /\ ShTyped
  /\ \A k \in created \ touched : server[k] = k /\ held[k] >= N - 1 - MaxLost
  /\ Working("save", "create") => server[work.key] = work.key

LEMMA ShareNumbers == T \in Nat /\ N \in Nat /\ MaxLost \in Nat /\ N - 1 \in Int /\ N - 1 - MaxLost \in Int /\ N - 1 >= N - 1 - MaxLost
BY ShamirAssumption

\* Steps that leave the server's shares, the user's and what is recorded alone.
LEMMA WorkStep ==
  ASSUME SharesInv, ShTyped', UNCHANGED <<server, held, created, touched>>, ~Working("save", "create")' \/ work' = work
  PROVE  SharesInv'
BY DEF SharesInv, Working

LEMMA BeginWork ==
  ASSUME SharesInv, NEW k \in Keys, CreateNewWallet(k) \/ RotateKeys(k) \/ RecoverWithServerShare(k)
  PROVE  SharesInv'
<1>1. work' \in [pc : {"idle", "request", "save", "retrieved"}, kind : {"none", "create", "rotate", "recover"},
                 key : Keys \cup {NoKey}] /\ work'.key \in Keys /\ work'.pc # "save"
  BY DEF CreateNewWallet, RotateKeys, RecoverWithServerShare
<1>2. UNCHANGED <<server, mgr, held, created, touched>>
  BY DEF CreateNewWallet, RotateKeys, RecoverWithServerShare
<1>3. QED
  BY <1>1, <1>2, WorkStep DEF SharesInv, ShTyped, Working

LEMMA MgrStep ==
  ASSUME SharesInv, mgr' \in [key : Keys \cup {NoKey}, hash : Keys \cup {NoKey}, wallet : Keys \cup {NoKey}],
         work' = work \/ work' = Free, UNCHANGED <<server, held, created, touched>>
  PROVE  SharesInv'
<1>1. ShTyped'
  BY DEF SharesInv, ShTyped, Free
<1>2. ~Working("save", "create")' \/ work' = work
  BY DEF Working, Free
<1>3. QED
  BY <1>1, <1>2, WorkStep

LEMMA ServerStep ==
  ASSUME SharesInv, StoreShare \/ UpdateShare \/ DeleteAccount
  PROVE  SharesInv'
<1>1. CASE StoreShare
  <2>1. work.key \in Keys /\ server' = [server EXCEPT ![work.key] = work.key]
    BY <1>1 DEF StoreShare, Working, Free, SharesInv, ShTyped
  <2>2. work' = [work EXCEPT !.pc = "save"] /\ UNCHANGED <<mgr, held, created, touched>>
    BY <1>1 DEF StoreShare
  <2>3. ShTyped'
    BY <2>1, <2>2 DEF SharesInv, ShTyped, Free
  <2>4. server'[work.key] = work.key /\ work'.key = work.key
    BY <2>1, <2>2 DEF SharesInv, ShTyped
  <2>5. \A k \in created \ touched : server'[k] = k
    BY <2>1 DEF SharesInv, ShTyped
  <2>6. QED
    BY <2>2, <2>3, <2>4, <2>5 DEF SharesInv
<1>2. CASE UpdateShare
  <2>1. server' = [server EXCEPT ![mgr.hash] = work.key] /\ work.key \in Keys /\ work.kind = "rotate"
    BY <1>2 DEF UpdateShare, Working, Free, SharesInv, ShTyped
  <2>2. work' = [work EXCEPT !.pc = "save"] /\ touched' = touched \cup {mgr.hash} /\ UNCHANGED <<mgr, held, created>>
    BY <1>2 DEF UpdateShare
  <2>3. ShTyped'
    BY <2>1, <2>2 DEF SharesInv, ShTyped, Free
  <2>4. \A k \in created \ touched' : k \in created \ touched /\ server'[k] = server[k]
    BY <2>1, <2>2 DEF SharesInv, ShTyped
  <2>5. ~Working("save", "create")'
    BY <2>1, <2>2 DEF Working, SharesInv, ShTyped
  <2>6. QED
    BY <2>2, <2>3, <2>4, <2>5 DEF SharesInv
<1>3. CASE DeleteAccount
  <2>1. server' = [server EXCEPT ![mgr.hash] = NoKey] /\ touched' = touched \cup {mgr.hash} /\ UNCHANGED <<work, held, created>>
    BY <1>3 DEF DeleteAccount
  <2>2. mgr' = Out /\ work = Free
    BY <1>3 DEF DeleteAccount
  <2>3. ShTyped'
    BY <2>1, <2>2 DEF SharesInv, ShTyped, Out
  <2>4. \A k \in created \ touched' : k \in created \ touched /\ server'[k] = server[k]
    BY <2>1 DEF SharesInv, ShTyped
  <2>5. ~Working("save", "create")'
    BY <2>1, <2>2 DEF Working, Free
  <2>6. QED
    BY <2>1, <2>3, <2>4, <2>5 DEF SharesInv
<1>4. QED
  BY <1>1, <1>2, <1>3

LEMMA SavedStep ==
  ASSUME SharesInv, SharesSaved
  PROVE  SharesInv'
<1>1. /\ work.pc = "save" /\ work.key \in Keys /\ work' = Free /\ UNCHANGED <<server, touched>>
      /\ mgr' = [mgr EXCEPT !.key = work.key, !.hash = work.key]
  BY DEF SharesSaved, Free, SharesInv, ShTyped
<1>2. mgr' \in [key : Keys \cup {NoKey}, hash : Keys \cup {NoKey}, wallet : Keys \cup {NoKey}]
  BY <1>1 DEF SharesInv, ShTyped
<1>3. CASE UNCHANGED <<held, created>>
  BY <1>1, <1>2, <1>3, MgrStep
<1>4. CASE held' = [held EXCEPT ![work.key] = N - 1] /\ created' = IF work.kind = "create" THEN created \cup {work.key} ELSE created
  <2>1. ShTyped'
    BY <1>1, <1>2, <1>4, ShareNumbers DEF SharesInv, ShTyped, Free
  <2>2. \A k \in created' : held'[k] = IF k = work.key THEN N - 1 ELSE held[k]
    BY <1>1, <1>4, <2>1 DEF SharesInv, ShTyped
  <2>3. \A k \in created' : k \in created \/ (k = work.key /\ Working("save", "create"))
    BY <1>1, <1>4 DEF Working
  <2>4. \A k \in created' \ touched : server[k] = k /\ held'[k] >= N - 1 - MaxLost
    BY <2>2, <2>3, ShareNumbers DEF SharesInv
  <2>5. QED
    BY <1>1, <2>1, <2>4 DEF SharesInv, Working, Free
<1>5. QED
  BY <1>3, <1>4 DEF SharesSaved

LEMMA LoseStep ==
  ASSUME SharesInv, NEW k \in Keys, LoseShare(k)
  PROVE  SharesInv'
<1>1. held[k] \in Int /\ held[k] > N - 1 - MaxLost /\ held' = [held EXCEPT ![k] = held[k] - 1]
  BY DEF LoseShare, SharesInv, ShTyped
<1>2. held[k] - 1 \in Int /\ held[k] - 1 >= N - 1 - MaxLost
  BY <1>1, ShareNumbers
<1>3. UNCHANGED <<server, mgr, work, created, touched>>
  BY DEF LoseShare
<1>4. ShTyped'
  BY <1>1, <1>2, <1>3 DEF SharesInv, ShTyped
<1>5. \A j \in created \ touched : held'[j] >= N - 1 - MaxLost
  BY <1>1, <1>2 DEF SharesInv, ShTyped
<1>6. QED
  BY <1>3, <1>4, <1>5 DEF SharesInv, Working

\* ShamirWalletManager stores the server's share before the user has the others and
\* touches no share under the hash of another wallet, so a wallet that was created can
\* be restored, whatever happens to others, if the user loses no more shares than
\* totalShares leaves above the threshold.
THEOREM CreatedWalletsRestore == ASSUME MaxLost <= N - T PROVE ShSpec => []CreatedCovered
<1>1. ShInit => SharesInv
  <2> SUFFICES ASSUME ShInit PROVE SharesInv
    OBVIOUS
  <2>1. ShTyped
    BY DEF ShInit, ShTyped, Out, Free
  <2>2. QED
    BY <2>1 DEF ShInit, SharesInv, Working, Free
<1>2. SharesInv /\ [ShNext]_shVars => SharesInv'
  <2> SUFFICES ASSUME SharesInv, [ShNext]_shVars PROVE SharesInv'
    OBVIOUS
  <2>1. CASE UNCHANGED shVars
    BY <2>1 DEF shVars, account, SharesInv, ShTyped, Working, Free
  <2>2. ASSUME NEW k \in Keys, SetUserIdHash(k) \/ RecoverWithUserShares(k) PROVE SharesInv'
    <3>1. mgr' \in [key : Keys \cup {NoKey}, hash : Keys \cup {NoKey}, wallet : Keys \cup {NoKey}]
      BY <2>2 DEF SetUserIdHash, RecoverWithUserShares, SharesInv, ShTyped
    <3>2. QED
      BY <2>2, <3>1, MgrStep DEF SetUserIdHash, RecoverWithUserShares
  <2>3. CASE OperationFails \/ Reconstruct \/ BuildWallet \/ ShRestart
    <3>1. mgr' \in [key : Keys \cup {NoKey}, hash : Keys \cup {NoKey}, wallet : Keys \cup {NoKey}]
      BY <2>3 DEF OperationFails, Reconstruct, BuildWallet, ShRestart, Out, SharesInv, ShTyped
    <3>2. QED
      BY <2>3, <3>1, MgrStep DEF OperationFails, Reconstruct, BuildWallet, ShRestart
  <2>4. CASE DestroyKey \/ \E g \in Gets : Fetch(g) \/ Keep(g)
    BY <2>4, MgrStep DEF DestroyKey, Fetch, Keep, account, SharesInv, ShTyped
  <2>5. QED
    BY <2>1, <2>2, <2>3, <2>4, BeginWork, ServerStep, SavedStep, LoseStep DEF ShNext
<1>3. SharesInv => CreatedCovered
  <2> SUFFICES ASSUME SharesInv, NEW k \in created \ touched PROVE server[k] = k /\ held[k] >= T - 1
    BY DEF CreatedCovered
  <2>1. held[k] \in Int /\ held[k] >= N - 1 - MaxLost
    BY DEF SharesInv, ShTyped
  <2>2. QED
    BY <2>1, ShareNumbers DEF SharesInv
<1>4. QED
  BY <1>1, <1>2, <1>3, PTL DEF ShSpec

-----------------------------------------------------------------------------
(* Tokens.                                                                 *)

TokenFields == {"salt", "key", "pres", "rec", "root", "profiles", "at"}
DevFields == {"auth", "mode", "flow", "token", "pres", "rec", "root", "profiles", "active", "wallet"}
OpFields == {"pc", "kind", "salt", "key", "pres", "rec", "token", "old", "from"}

\* The user can open token t, having saved the recovery keys sv.
Opens(t, sv) == TokenFields \subseteq DOMAIN t /\ t.key.salt = t.salt /\ t.rec \in sv

\* A token somebody has in hand: one of those published, or not published yet.
Known(t, toks, sv) == Opens(t, sv) /\ (t.at # 0 => t.at \in 1..Len(toks) /\ t = toks[t.at])

\* The keys and profiles of t are those of u, but for the profiles del.
Carries(t, u, del) == t.root = u.root /\ t.profiles \ del \subseteq u.profiles

\* What a manager r holds, the profiles del having been deleted.
DevGood(r, toks, sv, del) ==
  /\ DevFields \subseteq DOMAIN r
  /\ r.token # None => Known(r.token, toks, sv)
  /\ r.auth /\ r.root = r.token.root => r.token.profiles \ del \subseteq r.profiles

\* What its operation o has read: while nobody logs out, of the token it has now.
OpGood(o, r, toks, sv, del) ==
  /\ OpFields \subseteq DOMAIN o
  /\ o.pc = "gather" => o.kind \in {"password", "presentation", "recovery", "add", "delete"}
  /\ o.pc = "gather" /\ o.kind = "password" => o.key.salt = o.salt
  /\ o.pc \in {"gather", "build"} /\ o.kind \in {"add", "delete"} /\ r.auth => o.salt = r.token.salt
  /\ o.pc = "build" => o.kind \in {"none", "delete"}
  /\ o.pc = "save" /\ o.kind = "recovery" /\ r.auth => o.key.salt = r.token.salt /\ r.root = r.token.root
  /\ o.pc \in {"registerBuild", "registerSend"} => Opens(o.token, sv)
  /\ o.pc \in {"toDefault", "send"} =>
       /\ Opens(o.token, sv)
       /\ o.old \in 1..Len(toks) /\ Carries(toks[o.old], o.token, del)
       /\ r.auth => o.token.profiles \ del \subseteq r.profiles

SnapGood(x, toks, sv) == x # None => {"root", "token", "active"} \subseteq DOMAIN x /\ Known(x.token, toks, sv)

Survives(toks, un, del) ==
  \A i \in 1..Len(toks) : \A p \in (toks[i].profiles \ del) \cup {Default} :
    \E j \in un : toks[j].root = toks[i].root /\ p \in toks[j].profiles \cup {Default}

ChainGood(toks, un, sv, del) ==
  /\ Len(toks) \in Nat /\ toks = [i \in 1..Len(toks) |-> toks[i]]
  /\ un \subseteq 1..Len(toks)
  /\ \A i \in 1..Len(toks) : Opens(toks[i], sv) /\ toks[i].at = i
  /\ Survives(toks, un, del)

\* The inductive invariant.
UmpInv ==
  /\ dev = [d \in Devices |-> dev[d]]
  /\ op = [d \in Devices |-> op[d]] /\ \A d \in Devices : op[d] = [s \in Slots |-> op[d][s]]
  /\ snap = [d \in Devices |-> snap[d]]
  /\ ChainGood(tokens, unspent, saved, deleted)
  /\ \A d \in Devices : /\ DevGood(dev[d], tokens, saved, deleted)
                        /\ SnapGood(snap[d], tokens, saved)
                        /\ \A s \in Slots : OpGood(op[d][s], dev[d], tokens, saved, deleted)

-----------------------------------------------------------------------------
(* What is true of a token, a manager and an operation stays true.         *)

Longer(toks, new) ==
  /\ Len(toks) \in Nat /\ Len(new) \in Nat /\ Len(toks) <= Len(new)
  /\ \A i \in 1..Len(toks) : new[i] = toks[i]

LEMMA Keeps ==
  ASSUME NEW toks, NEW new, Longer(toks, new), NEW sv, NEW sv2, sv \subseteq sv2, NEW del, NEW del2, del \subseteq del2
  PROVE  /\ \A t : Opens(t, sv) => Opens(t, sv2)
         /\ \A t : Known(t, toks, sv) => Known(t, new, sv2)
         /\ \A r : DevGood(r, toks, sv, del) => DevGood(r, new, sv2, del2)
         /\ \A o, r : OpGood(o, r, toks, sv, del) => OpGood(o, r, new, sv2, del2)
         /\ \A x : SnapGood(x, toks, sv) => SnapGood(x, new, sv2)
<1>1. ASSUME NEW t, Opens(t, sv) PROVE Opens(t, sv2)
  BY <1>1 DEF Opens
<1>2. ASSUME NEW t, Known(t, toks, sv) PROVE Known(t, new, sv2)
  <2>1. Opens(t, sv2) /\ (t.at # 0 => t.at \in 1..Len(toks) /\ t = toks[t.at])
    BY <1>1, <1>2 DEF Known
  <2>2. t.at # 0 => t.at \in 1..Len(new) /\ new[t.at] = toks[t.at]
    BY <2>1 DEF Longer
  <2>3. QED
    BY <2>1, <2>2 DEF Known
<1>3. ASSUME NEW r, DevGood(r, toks, sv, del) PROVE DevGood(r, new, sv2, del2)
  BY <1>2, <1>3 DEF DevGood
<1>4. ASSUME NEW o, NEW r, OpGood(o, r, toks, sv, del) PROVE OpGood(o, r, new, sv2, del2)
  <2>1. o.pc \in {"registerBuild", "registerSend"} => Opens(o.token, sv2)
    BY <1>1, <1>4 DEF OpGood
  <2>2. ASSUME o.pc \in {"toDefault", "send"}
        PROVE  /\ Opens(o.token, sv2) /\ o.old \in 1..Len(new) /\ Carries(new[o.old], o.token, del2)
               /\ r.auth => o.token.profiles \ del2 \subseteq r.profiles
    <3>1. /\ Opens(o.token, sv2) /\ o.old \in 1..Len(toks) /\ Carries(toks[o.old], o.token, del)
          /\ r.auth => o.token.profiles \ del \subseteq r.profiles
      BY <1>1, <1>4, <2>2 DEF OpGood
    <3>2. o.old \in 1..Len(new) /\ new[o.old] = toks[o.old]
      BY <3>1 DEF Longer
    <3>3. QED
      BY <3>1, <3>2 DEF Carries
  <2>3. QED
    BY <1>4, <2>1, <2>2 DEF OpGood
<1>5. ASSUME NEW x, SnapGood(x, toks, sv) PROVE SnapGood(x, new, sv2)
  BY <1>2, <1>5 DEF SnapGood
<1>6. QED
  BY <1>1, <1>2, <1>3, <1>4, <1>5

\* A logged-out manager leaves its operation what that has read.
LEMMA LoggedOut ==
  ASSUME NEW o, NEW r, NEW q, NEW toks, NEW sv, NEW del, OpGood(o, r, toks, sv, del), ~q.auth
  PROVE  OpGood(o, q, toks, sv, del)
BY DEF OpGood

\* An operation that is not crossed: idle, logged out, or of a manager that keeps
\* the account it has read.
LEMMA Uncrossed ==
  ASSUME NEW o, NEW r, NEW q, NEW toks, NEW sv, NEW del, OpGood(o, r, toks, sv, del),
         o.pc = "idle" \/ ~q.auth \/ Account(q) = Account(r)
  PROVE  OpGood(o, q, toks, sv, del)
<1>1. CASE o.pc = "idle"
  BY <1>1 DEF OpGood
<1>2. CASE ~q.auth
  BY <1>2, LoggedOut
<1>3. CASE Account(q) = Account(r)
  <2>1. q.auth = r.auth /\ q.token = r.token /\ q.root = r.root /\ q.profiles = r.profiles
    BY <1>3 DEF Account
  <2>2. QED
    BY <2>1 DEF OpGood
<1>4. QED
  BY <1>1, <1>2, <1>3

\* Operations that have nothing in hand.
LEMMA Bare ==
  ASSUME NEW r, NEW toks, NEW sv, NEW del
  PROVE  /\ OpGood(NoOp, r, toks, sv, del)
         /\ \A p : OpGood(BuildOp(p), r, toks, sv, del)
         /\ \A o : OpGood(AfterSend(o), r, toks, sv, del)
<1>1. OpGood(NoOp, r, toks, sv, del)
  BY DEF OpGood, NoOp, OpFields
<1>2. ASSUME NEW p PROVE OpGood(BuildOp(p), r, toks, sv, del)
  <2>1. OpFields \subseteq DOMAIN BuildOp(p) /\ BuildOp(p).pc = "build" /\ BuildOp(p).kind = "none"
    BY DEF BuildOp, NoOp, OpFields
  <2>2. QED
    BY <2>1 DEF OpGood
<1>3. ASSUME NEW o PROVE OpGood(AfterSend(o), r, toks, sv, del)
  <2> DEFINE b == [NoOp EXCEPT !.pc = "back", !.from = o.from]
  <2>1. OpFields \subseteq DOMAIN b /\ b.pc = "back"
    BY DEF NoOp, OpFields
  <2>2. OpGood(b, r, toks, sv, del)
    BY <2>1 DEF OpGood
  <2>3. QED
    BY <1>1, <2>2 DEF AfterSend
<1>4. QED
  BY <1>1, <1>2, <1>3

\* One device does something; tokens are added, and nothing is forgotten.
LEMMA DeviceStep ==
  ASSUME UmpInv, NEW d \in Devices, NEW r, dev' = [dev EXCEPT ![d] = r],
         op' = [e \in Devices |-> op'[e]], op'[d] = [s \in Slots |-> op'[d][s]],
         \A e \in Devices \ {d} : op'[e] = op[e],
         Longer(tokens, tokens'), saved \subseteq saved', deleted \subseteq deleted',
         ChainGood(tokens', unspent', saved', deleted'),
         DevGood(r, tokens', saved', deleted'),
         \A s \in Slots : OpGood(op'[d][s], r, tokens', saved', deleted'),
         snap' = [e \in Devices |-> snap'[e]],
         \A e \in Devices : SnapGood(snap'[e], tokens', saved')
  PROVE  UmpInv'
<1>1. dev' = [e \in Devices |-> dev'[e]] /\ dev'[d] = r /\ \A e \in Devices \ {d} : dev'[e] = dev[e]
  BY DEF UmpInv
<1>2. \A e \in Devices : DevGood(dev'[e], tokens', saved', deleted')
  BY <1>1, Keeps DEF UmpInv
<1>3. \A e \in Devices, s \in Slots : OpGood(op'[e][s], dev'[e], tokens', saved', deleted')
  BY <1>1, Keeps DEF UmpInv
<1>4. \A e \in Devices : op'[e] = [s \in Slots |-> op'[e][s]]
  BY DEF UmpInv
<1>5. QED
  BY <1>1, <1>2, <1>3, <1>4 DEF UmpInv

LEMMA ChainKeeps ==
  ASSUME UmpInv, UNCHANGED <<tokens, unspent>>, saved \subseteq saved', deleted \subseteq deleted'
  PROVE  Longer(tokens, tokens') /\ ChainGood(tokens', unspent', saved', deleted')
<1>1. Longer(tokens, tokens')
  BY DEF UmpInv, ChainGood, Longer
<1>2. \A i \in 1..Len(tokens) : Opens(tokens[i], saved')
  BY DEF UmpInv, ChainGood, Opens
<1>3. Survives(tokens, unspent, deleted')
  BY DEF UmpInv, ChainGood, Survives
<1>4. QED
  BY <1>1, <1>2, <1>3 DEF UmpInv, ChainGood

LEMMA SnapsKeep ==
  ASSUME UmpInv, Longer(tokens, tokens'), saved \subseteq saved', snap' = snap
  PROVE  snap' = [e \in Devices |-> snap'[e]] /\ \A e \in Devices : SnapGood(snap'[e], tokens', saved')
BY Keeps DEF UmpInv

\* The other operations of a manager when one of them moves.
LEMMA Others ==
  ASSUME UmpInv, ~Crosses, NEW d \in Devices, NEW s \in Slots, NEW r, NEW o,
         dev' = [dev EXCEPT ![d] = r], op' = [op EXCEPT ![d][s] = o],
         saved \subseteq saved', deleted \subseteq deleted', Longer(tokens, tokens')
  PROVE  \A t \in Slots \ {s} : op'[d][t] = op[d][t] /\ OpGood(op[d][t], r, tokens', saved', deleted')
<1> SUFFICES ASSUME NEW t \in Slots \ {s}
             PROVE  op'[d][t] = op[d][t] /\ OpGood(op[d][t], r, tokens', saved', deleted')
  OBVIOUS
<1>1. op'[d][t] = op[d][t] /\ dev'[d] = r
  BY DEF UmpInv
<1>2. op[d][t].pc = "idle" \/ ~r.auth \/ Account(r) = Account(dev[d])
  BY <1>1 DEF Crosses
<1>3. OpGood(op[d][t], dev[d], tokens', saved', deleted')
  BY Keeps DEF UmpInv
<1>4. QED
  BY <1>1, <1>2, <1>3, Uncrossed

\* One operation of a manager, and the manager.
LEMMA OpStep ==
  ASSUME UmpInv, ~Crosses, NEW d \in Devices, NEW s \in Slots, NEW r, NEW o,
         dev' = [dev EXCEPT ![d] = r], op' = [op EXCEPT ![d][s] = o], UNCHANGED <<tokens, unspent, snap>>,
         saved \subseteq saved', deleted \subseteq deleted',
         DevGood(r, tokens, saved', deleted'), OpGood(o, r, tokens, saved', deleted')
  PROVE  UmpInv'
<1>1. Longer(tokens, tokens') /\ ChainGood(tokens', unspent', saved', deleted')
  BY ChainKeeps
<1>2. snap' = [e \in Devices |-> snap'[e]] /\ \A e \in Devices : SnapGood(snap'[e], tokens', saved')
  BY <1>1, SnapsKeep
<1>3. op' = [e \in Devices |-> op'[e]] /\ op'[d] = [t \in Slots |-> op'[d][t]] /\ \A e \in Devices \ {d} : op'[e] = op[e]
  BY DEF UmpInv
<1>4. \A t \in Slots : OpGood(op'[d][t], r, tokens', saved', deleted')
  <2>1. op'[d][s] = o
    BY DEF UmpInv
  <2>2. \A t \in Slots \ {s} : OpGood(op'[d][t], r, tokens', saved', deleted')
    BY <1>1, Others
  <2>3. QED
    BY <2>1, <2>2
<1>5. QED
  BY <1>1, <1>2, <1>3, <1>4, DeviceStep

LEMMA OpOnly ==
  ASSUME UmpInv, ~Crosses, NEW d \in Devices, NEW s \in Slots, NEW o,
         op' = [op EXCEPT ![d][s] = o], UNCHANGED <<dev, tokens, unspent, snap>>,
         saved \subseteq saved', deleted \subseteq deleted', OpGood(o, dev[d], tokens, saved', deleted')
  PROVE  UmpInv'
<1>1. dev' = [dev EXCEPT ![d] = dev[d]]
  BY DEF UmpInv
<1>2. Longer(tokens, tokens)
  BY DEF UmpInv, ChainGood, Longer
<1>3. DevGood(dev[d], tokens, saved', deleted')
  BY <1>2, Keeps DEF UmpInv
<1>4. QED
  BY <1>1, <1>3, OpStep

\* The user gives a manager something before anybody is logged in, or logs out.
LEMMA HandStep ==
  ASSUME UmpInv, NEW d \in Devices, NEW r, dev' = [dev EXCEPT ![d] = r], ~r.auth,
         op' = op \/ op' = [op EXCEPT ![d] = [s \in Slots |-> NoOp]],
         UNCHANGED <<tokens, unspent, snap, saved, deleted>>, DevGood(r, tokens, saved, deleted)
  PROVE  UmpInv'
<1>1. Longer(tokens, tokens') /\ ChainGood(tokens', unspent', saved', deleted')
  BY ChainKeeps
<1>2. snap' = [e \in Devices |-> snap'[e]] /\ \A e \in Devices : SnapGood(snap'[e], tokens', saved')
  BY <1>1, SnapsKeep
<1>3. op' = [e \in Devices |-> op'[e]] /\ op'[d] = [s \in Slots |-> op'[d][s]] /\ \A e \in Devices \ {d} : op'[e] = op[e]
  BY DEF UmpInv
<1>4. \A s \in Slots : OpGood(op'[d][s], r, tokens, saved, deleted)
  BY LoggedOut, Bare DEF UmpInv
<1>5. QED
  BY <1>1, <1>2, <1>3, <1>4, DeviceStep

LEMMA Found ==
  ASSUME UmpInv, NEW i \in unspent
  PROVE  i \in 1..Len(tokens) /\ Known(tokens[i], tokens, saved)
BY DEF UmpInv, ChainGood, Known

LEMMA BlankGood ==
  ASSUME NEW toks, NEW sv, NEW del
  PROVE  DevGood(Blank, toks, sv, del) /\ ~Blank.auth
BY DEF Blank, DevGood, DevFields

LEMMA HandsKeep ==
  ASSUME UmpInv, NEW d \in Devices,
         \/ \E m \in Modes : SetMode(d, m)
         \/ \E k \in PresKeys : ProvidePresentationKey(d, k)
         \/ \E k \in saved : FindByRecoveryKey(d, k)
         \/ Destroy(d)
  PROVE  UmpInv'
<1>1. DevGood(dev[d], tokens, saved, deleted)
  BY DEF UmpInv
<1>2. ASSUME NEW m, SetMode(d, m) PROVE UmpInv'
  <2> DEFINE r == [dev[d] EXCEPT !.mode = m]
  <2>1. ~r.auth /\ DevGood(r, tokens, saved, deleted)
    BY <1>2, BlankGood DEF SetMode, DevGood, DevFields
  <2>2. dev' = [dev EXCEPT ![d] = r] /\ op' = op /\ UNCHANGED <<tokens, unspent, snap, saved, deleted>>
    BY <1>2 DEF SetMode, Set, chain, history
  <2> HIDE DEF r
  <2>3. QED
    BY <2>1, <2>2, HandStep
<1>3. ASSUME NEW k, ProvidePresentationKey(d, k) PROVE UmpInv'
  <2>1. ~dev[d].auth /\ op' = op /\ UNCHANGED <<tokens, unspent, snap, saved, deleted>>
    BY <1>3 DEF ProvidePresentationKey, chain
  <2>2. CASE Set(d, [dev[d] EXCEPT !.flow = "new-user", !.pres = k])
    <3> DEFINE r == [dev[d] EXCEPT !.flow = "new-user", !.pres = k]
    <3>1. ~r.auth /\ DevGood(r, tokens, saved, deleted)
      BY <1>1, <2>1 DEF DevGood, DevFields
    <3>2. dev' = [dev EXCEPT ![d] = r]
      BY <2>2 DEF Set
    <3> HIDE DEF r
    <3>3. QED
      BY <2>1, <3>1, <3>2, HandStep
  <2>3. ASSUME NEW i \in unspent, Set(d, [dev[d] EXCEPT !.flow = "existing-user", !.pres = k, !.token = tokens[i]])
        PROVE  UmpInv'
    <3> DEFINE r == [dev[d] EXCEPT !.flow = "existing-user", !.pres = k, !.token = tokens[i]]
    <3>1. ~r.auth /\ r.token = tokens[i] /\ DevFields \subseteq DOMAIN r
      BY <1>1, <2>1 DEF DevGood, DevFields
    <3>2. dev' = [dev EXCEPT ![d] = r]
      BY <2>3 DEF Set
    <3> HIDE DEF r
    <3>3. DevGood(r, tokens, saved, deleted)
      BY <3>1, Found DEF DevGood
    <3>4. QED
      BY <2>1, <3>1, <3>2, <3>3, HandStep
  <2>4. QED
    BY <1>3, <2>2, <2>3 DEF ProvidePresentationKey, ByPresentationKey
<1>4. ASSUME NEW k, FindByRecoveryKey(d, k) PROVE UmpInv'
  <2>1. ~dev[d].auth /\ op' = op /\ UNCHANGED <<tokens, unspent, snap, saved, deleted>>
    BY <1>4 DEF FindByRecoveryKey, chain
  <2>2. PICK i \in unspent : Set(d, [dev[d] EXCEPT !.flow = "existing-user", !.rec = k, !.token = tokens[i]])
    BY <1>4 DEF FindByRecoveryKey, ByRecoveryKey
  <2> DEFINE r == [dev[d] EXCEPT !.flow = "existing-user", !.rec = k, !.token = tokens[i]]
  <2>3. ~r.auth /\ r.token = tokens[i] /\ DevFields \subseteq DOMAIN r
    BY <1>1, <2>1 DEF DevGood, DevFields
  <2>4. dev' = [dev EXCEPT ![d] = r]
    BY <2>2 DEF Set
  <2> HIDE DEF r
  <2>5. DevGood(r, tokens, saved, deleted)
    BY <2>3, Found DEF DevGood
  <2>6. QED
    BY <2>1, <2>3, <2>4, <2>5, HandStep
<1>5. CASE Destroy(d)
  <2>1. /\ dev' = [dev EXCEPT ![d] = Blank] /\ UNCHANGED <<tokens, unspent, snap, saved, deleted>>
        /\ op' = op \/ op' = [op EXCEPT ![d] = [s \in Slots |-> NoOp]]
    BY <1>5 DEF Destroy, Set, chain
  <2>2. QED
    BY <2>1, BlankGood, HandStep
<1>6. QED
  BY <1>2, <1>3, <1>4, <1>5

LEMMA SnapshotKeeps ==
  ASSUME UmpInv, NEW d \in Devices, SaveSnapshot(d)
  PROVE  UmpInv'
<1> DEFINE x == [root |-> dev[d].root, token |-> dev[d].token, active |-> dev[d].active]
<1>1. dev[d].token # None /\ snap' = [snap EXCEPT ![d] = x] /\ UNCHANGED <<dev, op, tokens, unspent, saved, deleted>>
  BY DEF SaveSnapshot, chain, history
<1>2. SnapGood(x, tokens, saved)
  BY <1>1 DEF UmpInv, DevGood, SnapGood
<1> HIDE DEF x
<1>3. snap' = [e \in Devices |-> snap'[e]] /\ \A e \in Devices : SnapGood(snap'[e], tokens, saved)
  BY <1>1, <1>2 DEF UmpInv
<1>4. QED
  BY <1>1, <1>3 DEF UmpInv

-----------------------------------------------------------------------------
(* Logins, and what they leave to do.                                      *)

LEMMA SetupGood ==
  ASSUME NEW r, NEW root, NEW t, NEW toks, NEW sv, NEW del, DevFields \subseteq DOMAIN r, Known(t, toks, sv)
  PROVE  /\ DevGood(Setup(r, root, t), toks, sv, del)
         /\ DevFields \subseteq DOMAIN Setup(r, root, t)
<1> DEFINE q == [r EXCEPT !.token = t, !.root = root, !.profiles = t.profiles, !.auth = TRUE]
<1>1. q.token = t /\ q.profiles = t.profiles /\ DevFields \subseteq DOMAIN q
  BY DEF DevFields
<1>2. Setup(r, root, t) = q
  BY DEF Setup
<1> HIDE DEF q
<1>3. QED
  BY <1>1, <1>2 DEF DevGood

\* The active profile and the wallet are no part of what a manager holds.
LEMMA WalletGood ==
  ASSUME NEW r, NEW toks, NEW sv, NEW del, DevGood(r, toks, sv, del), NEW p, NEW w
  PROVE  /\ DevGood(Switched(r, p), toks, sv, del)
         /\ DevGood([r EXCEPT !.wallet = w], toks, sv, del)
         /\ DevGood([Switched(r, p) EXCEPT !.wallet = w], toks, sv, del)
         /\ \A o : OpGood(o, r, toks, sv, del) =>
              /\ OpGood(o, Switched(r, p), toks, sv, del)
              /\ OpGood(o, [r EXCEPT !.wallet = w], toks, sv, del)
              /\ OpGood(o, [Switched(r, p) EXCEPT !.wallet = w], toks, sv, del)
<1> DEFINE a == Switched(r, p)
           b == [r EXCEPT !.wallet = w]
           c == [a EXCEPT !.wallet = w]
<1>1. a.auth = r.auth /\ a.token = r.token /\ a.root = r.root /\ a.profiles = r.profiles /\ DevFields \subseteq DOMAIN a
  BY DEF Switched, DevGood, DevFields
<1>2. b.auth = r.auth /\ b.token = r.token /\ b.root = r.root /\ b.profiles = r.profiles /\ DevFields \subseteq DOMAIN b
  BY DEF DevGood, DevFields
<1> HIDE DEF a
<1>3. c.auth = r.auth /\ c.token = r.token /\ c.root = r.root /\ c.profiles = r.profiles /\ DevFields \subseteq DOMAIN c
  BY <1>1 DEF DevFields
<1> HIDE DEF b, c
<1>4. DevGood(a, toks, sv, del) /\ DevGood(b, toks, sv, del) /\ DevGood(c, toks, sv, del)
  BY <1>1, <1>2, <1>3 DEF DevGood
<1>5. ASSUME NEW o, OpGood(o, r, toks, sv, del)
      PROVE  OpGood(o, a, toks, sv, del) /\ OpGood(o, b, toks, sv, del) /\ OpGood(o, c, toks, sv, del)
  BY <1>1, <1>2, <1>3, <1>5 DEF OpGood
<1>6. QED
  BY <1>4, <1>5 DEF a, b, c

LEMMA LoginsKeep ==
  ASSUME UmpInv, ~Crosses, NEW d \in Devices, NEW s \in Slots,
         \/ \E w \in Passwords : ProvidePassword(d, s, w)
         \/ \E k \in saved : ProvideRecoveryKey(d, s, k)
         \/ LoadSnapshot(d, s)
  PROVE  UmpInv'
<1>1. DevGood(dev[d], tokens, saved, deleted) /\ SnapGood(snap[d], tokens, saved)
  BY DEF UmpInv
<1>2. CASE (\E w \in Passwords : ProvidePassword(d, s, w)) \/ (\E k \in saved : ProvideRecoveryKey(d, s, k))
  <2> DEFINE r == Setup(dev[d], dev[d].token.root, dev[d].token)
             o == BuildOp(dev[d].active)
  <2>1. dev[d].token # None
    BY <1>2 DEF ProvidePassword, PasswordOpens, ProvideRecoveryKey, RecoveryOpens
  <2>2. DevGood(r, tokens, saved, deleted)
    BY <1>1, <2>1, SetupGood DEF DevGood
  <2>3. dev' = [dev EXCEPT ![d] = r] /\ op' = [op EXCEPT ![d][s] = o] /\ UNCHANGED <<tokens, unspent, snap, saved, deleted>>
    BY <1>2 DEF ProvidePassword, ProvideRecoveryKey, Set, Become, chain
  <2>4. OpGood(o, r, tokens, saved, deleted)
    BY Bare
  <2> HIDE DEF r, o
  <2>5. QED
    BY <2>2, <2>3, <2>4, OpStep
<1>3. CASE LoadSnapshot(d, s)
  <2> DEFINE x == snap[d]
             q == Setup(dev[d], x.root, x.token)
             r == [q EXCEPT !.flow = "existing-user"]
             o == BuildOp(x.active)
  <2>1. x # None /\ UNCHANGED <<tokens, unspent, snap, saved, deleted>>
    BY <1>3 DEF LoadSnapshot, chain
  <2>2. DevGood(q, tokens, saved, deleted)
    BY <1>1, <2>1, SetupGood DEF DevGood, SnapGood
  <2> HIDE DEF q
  <2>3. DevGood(r, tokens, saved, deleted)
    BY <2>2 DEF DevGood, DevFields
  <2> HIDE DEF r
  <2>4. CASE Set(d, Switched(r, x.active)) /\ Become(d, s, o)
    <3>1. DevGood(Switched(r, x.active), tokens, saved, deleted)
      BY <2>3, WalletGood
    <3>2. OpGood(o, Switched(r, x.active), tokens, saved, deleted)
      BY Bare
    <3>3. dev' = [dev EXCEPT ![d] = Switched(r, x.active)] /\ op' = [op EXCEPT ![d][s] = o]
      BY <2>4 DEF Set, Become
    <3>4. QED
      BY <2>1, <3>1, <3>2, <3>3, OpStep
  <2>5. CASE Set(d, Blank) /\ op' = op
    BY <2>1, <2>5, BlankGood, HandStep DEF Set
  <2>6. QED
    BY <1>3, <2>4, <2>5 DEF LoadSnapshot, r, q
<1>4. QED
  BY <1>2, <1>3

LEMMA SyncKeeps ==
  ASSUME UmpInv, ~Crosses, NEW d \in Devices, NEW s \in Slots, SyncUMPToken(d, s)
  PROVE  UmpInv'
<1>1. DevGood(dev[d], tokens, saved, deleted) /\ OpGood(op[d][s], dev[d], tokens, saved, deleted)
  BY DEF UmpInv
<1>2. At(d, s, "idle") /\ op' = op /\ UNCHANGED <<tokens, unspent, snap, saved, deleted>>
  BY DEF SyncUMPToken, Ready, chain, history
<1>3. PICK i \in unspent :
        IF Decrypts(dev[d].root, tokens[i])
        THEN Set(d, Setup(dev[d], dev[d].root, tokens[i]))
        ELSE Set(d, [dev[d] EXCEPT !.token = tokens[i], !.profiles = {}])
  BY DEF SyncUMPToken, Refreshed, ByPresentationKey, ByRecoveryKey
<1>4. op' = [op EXCEPT ![d][s] = op[d][s]]
  BY <1>2 DEF UmpInv
<1>5. \A r : OpGood(op[d][s], r, tokens, saved, deleted)
  BY <1>1, <1>2 DEF OpGood, At
<1>6. CASE Decrypts(dev[d].root, tokens[i])
  <2> DEFINE r == Setup(dev[d], dev[d].root, tokens[i])
  <2>1. DevGood(r, tokens, saved, deleted)
    BY <1>1, Found, SetupGood DEF DevGood
  <2>2. dev' = [dev EXCEPT ![d] = r]
    BY <1>3, <1>6 DEF Set
  <2> HIDE DEF r
  <2>3. QED
    BY <1>2, <1>4, <1>5, <2>1, <2>2, OpStep
<1>7. CASE ~Decrypts(dev[d].root, tokens[i])
  <2> DEFINE r == [dev[d] EXCEPT !.token = tokens[i], !.profiles = {}]
  <2>1. r.token = tokens[i] /\ r.root = dev[d].root /\ DevFields \subseteq DOMAIN r
    BY <1>1 DEF DevGood, DevFields
  <2>2. dev' = [dev EXCEPT ![d] = r]
    BY <1>3, <1>7 DEF Set
  <2> HIDE DEF r
  <2>3. DevGood(r, tokens, saved, deleted)
    BY <1>7, <2>1, Found DEF DevGood, Decrypts
  <2>4. QED
    BY <1>2, <1>4, <1>5, <2>2, <2>3, OpStep
<1>8. QED
  BY <1>6, <1>7

LEMMA SwitchesKeep ==
  ASSUME UmpInv, ~Crosses, NEW d \in Devices, NEW s \in Slots,
         \/ \E p : SwitchProfile(d, s, p)
         \/ Built(d, s) \/ ToDefault(d, s) \/ Back(d, s) \/ Throw(d, s)
  PROVE  UmpInv'
<1>1. DevGood(dev[d], tokens, saved, deleted) /\ OpGood(op[d][s], dev[d], tokens, saved, deleted)
  BY DEF UmpInv
<1>2. UNCHANGED <<tokens, unspent, snap, saved, deleted>>
  BY DEF SwitchProfile, Built, ToDefault, Back, Throw, chain, history
<1>3. ASSUME NEW p, dev' = [dev EXCEPT ![d] = Switched(dev[d], p)], op' = [op EXCEPT ![d][s] = BuildOp(p)]
      PROVE  UmpInv'
  <2>1. DevGood(Switched(dev[d], p), tokens, saved, deleted) /\ OpGood(BuildOp(p), Switched(dev[d], p), tokens, saved, deleted)
    BY <1>1, WalletGood, Bare
  <2>2. QED
    BY <1>2, <1>3, <2>1, OpStep
<1>4. ASSUME NEW o, dev' = dev, op' = [op EXCEPT ![d][s] = o], o = NoOp \/ o = AfterSend(op[d][s])
      PROVE  UmpInv'
  BY <1>2, <1>4, Bare, OpOnly
<1>5. CASE Built(d, s)
  <2> DEFINE r == [dev[d] EXCEPT !.wallet = op[d][s].from]
             o == [op[d][s] EXCEPT !.pc = "gather"]
  <2>1. dev' = [dev EXCEPT ![d] = r] /\ op[d][s].pc = "build"
    BY <1>5 DEF Built, Set, At
  <2>2. DevGood(r, tokens, saved, deleted) /\ OpGood(op[d][s], r, tokens, saved, deleted)
    BY <1>1, WalletGood
  <2> HIDE DEF r
  <2>3. CASE op[d][s].kind = "delete"
    <3>1. op' = [op EXCEPT ![d][s] = o]
      BY <1>5, <2>3 DEF Built, To
    <3>2. o.pc = "gather" /\ o.kind = "delete" /\ o.salt = op[d][s].salt /\ OpFields \subseteq DOMAIN o
      BY <1>1, <2>3 DEF OpGood, OpFields
    <3> HIDE DEF o
    <3>3. OpGood(o, r, tokens, saved, deleted)
      BY <2>1, <2>2, <2>3, <3>2 DEF OpGood
    <3>4. QED
      BY <1>2, <2>1, <2>2, <3>1, <3>3, OpStep
  <2>4. CASE op[d][s].kind # "delete"
    <3>1. op' = [op EXCEPT ![d][s] = NoOp]
      BY <1>5, <2>4 DEF Built, End, Become
    <3>2. QED
      BY <1>2, <2>1, <2>2, <3>1, Bare, OpStep
  <2>5. QED
    BY <2>3, <2>4
<1>6. CASE ToDefault(d, s)
  <2> DEFINE r == [Switched(dev[d], Default) EXCEPT !.wallet = Default]
             o == [op[d][s] EXCEPT !.pc = "send"]
  <2>1. dev' = [dev EXCEPT ![d] = r] /\ op' = [op EXCEPT ![d][s] = o] /\ op[d][s].pc = "toDefault"
    BY <1>6 DEF ToDefault, Set, To, At
  <2>2. DevGood(r, tokens, saved, deleted) /\ OpGood(op[d][s], r, tokens, saved, deleted)
    BY <1>1, WalletGood
  <2> HIDE DEF r
  <2>3. o.pc = "send" /\ o.token = op[d][s].token /\ o.old = op[d][s].old /\ OpFields \subseteq DOMAIN o
    BY <1>1 DEF OpGood, OpFields
  <2> HIDE DEF o
  <2>4. OpGood(o, r, tokens, saved, deleted)
    BY <2>1, <2>2, <2>3 DEF OpGood
  <2>5. QED
    BY <1>2, <2>1, <2>2, <2>4, OpStep
<1>7. CASE Back(d, s)
  <2>1. CASE Set(d, Switched(dev[d], op[d][s].from)) /\ Become(d, s, BuildOp(op[d][s].from))
    BY <1>3, <2>1 DEF Set, Become
  <2>2. CASE End(d, s) /\ UNCHANGED dev
    BY <1>4, <2>2 DEF End, Become
  <2>3. QED
    BY <1>7, <2>1, <2>2 DEF Back
<1>8. CASE Throw(d, s)
  BY <1>4, <1>8 DEF Throw, Become
<1>9. QED
  BY <1>3, <1>5, <1>6, <1>7, <1>8 DEF SwitchProfile, Set, Become

-----------------------------------------------------------------------------
(* Changes of factors and profiles.                                        *)

LEMMA ChangesBegin ==
  ASSUME UmpInv, ~Crosses, NEW d \in Devices, NEW s \in Slots,
         \/ \E w \in Passwords : ChangePassword(d, s, w) \/ Register(d, s, w)
         \/ \E k \in PresKeys : ChangePresentationKey(d, s, k)
         \/ ChangeRecoveryKey(d, s)
  PROVE  UmpInv'
<1>1. UNCHANGED <<dev, tokens, unspent, snap, saved, deleted>>
  BY DEF ChangePassword, Register, ChangePresentationKey, ChangeRecoveryKey, chain, history
<1>2. ASSUME NEW o, op' = [op EXCEPT ![d][s] = o], OpGood(o, dev[d], tokens, saved, deleted) PROVE UmpInv'
  BY <1>1, <1>2, OpOnly
<1>3. ASSUME NEW w, ChangePassword(d, s, w) PROVE UmpInv'
  <2> DEFINE o == [NoOp EXCEPT !.pc = "gather", !.kind = "password", !.salt = NewId, !.key = PasswordKey(w, NewId)]
  <2>1. op' = [op EXCEPT ![d][s] = o]
    BY <1>3 DEF ChangePassword, Become
  <2>2. OpFields \subseteq DOMAIN o /\ o.pc = "gather" /\ o.kind = "password" /\ o.salt = NewId /\ o.key = PasswordKey(w, NewId)
    BY DEF NoOp, OpFields
  <2>3. PasswordKey(w, NewId).salt = NewId
    BY DEF PasswordKey
  <2> HIDE DEF o
  <2>4. OpGood(o, dev[d], tokens, saved, deleted)
    BY <2>2, <2>3 DEF OpGood
  <2>5. QED
    BY <1>2, <2>1, <2>4
<1>4. ASSUME NEW w, Register(d, s, w) PROVE UmpInv'
  <2> DEFINE o == [NoOp EXCEPT !.pc = "save", !.kind = "register", !.key = w, !.rec = NewId]
  <2>1. op' = [op EXCEPT ![d][s] = o]
    BY <1>4 DEF Register, Become
  <2>2. OpFields \subseteq DOMAIN o /\ o.pc = "save" /\ o.kind = "register"
    BY DEF NoOp, OpFields
  <2> HIDE DEF o
  <2>3. OpGood(o, dev[d], tokens, saved, deleted)
    BY <2>2 DEF OpGood
  <2>4. QED
    BY <1>2, <2>1, <2>3
<1>5. ASSUME NEW k, ChangePresentationKey(d, s, k) PROVE UmpInv'
  <2> DEFINE o == [NoOp EXCEPT !.pc = "gather", !.kind = "presentation", !.pres = k]
  <2>1. op' = [op EXCEPT ![d][s] = o]
    BY <1>5 DEF ChangePresentationKey, Become
  <2>2. OpFields \subseteq DOMAIN o /\ o.pc = "gather" /\ o.kind = "presentation"
    BY DEF NoOp, OpFields
  <2> HIDE DEF o
  <2>3. OpGood(o, dev[d], tokens, saved, deleted)
    BY <2>2 DEF OpGood
  <2>4. QED
    BY <1>2, <2>1, <2>3
<1>6. CASE ChangeRecoveryKey(d, s)
  <2> DEFINE o == [NoOp EXCEPT !.pc = "gather", !.kind = "recovery", !.rec = NewId]
  <2>1. op' = [op EXCEPT ![d][s] = o]
    BY <1>6 DEF ChangeRecoveryKey, Become
  <2>2. OpFields \subseteq DOMAIN o /\ o.pc = "gather" /\ o.kind = "recovery"
    BY DEF NoOp, OpFields
  <2> HIDE DEF o
  <2>3. OpGood(o, dev[d], tokens, saved, deleted)
    BY <2>2 DEF OpGood
  <2>4. QED
    BY <1>2, <2>1, <2>3
<1>7. QED
  BY <1>3, <1>4, <1>5, <1>6

LEMMA ProfilesChange ==
  ASSUME UmpInv, ~Crosses, NEW d \in Devices, NEW s \in Slots,
         NEW p, AddProfile(d, s, p) \/ DeleteProfile(d, s, p)
  PROVE  UmpInv'
<1>1. DevGood(dev[d], tokens, saved, deleted)
  BY DEF UmpInv
<1>2. UNCHANGED <<tokens, unspent, snap, saved>>
  BY DEF AddProfile, DeleteProfile, chain, history
<1>3. CASE AddProfile(d, s, p)
  <2> DEFINE r == [dev[d] EXCEPT !.profiles = dev[d].profiles \cup {p}]
             o == [NoOp EXCEPT !.pc = "gather", !.kind = "add", !.salt = dev[d].token.salt]
  <2>1. dev' = [dev EXCEPT ![d] = r] /\ op' = [op EXCEPT ![d][s] = o] /\ deleted' = deleted
    BY <1>3 DEF AddProfile, Set, Become, history
  <2>2. r.token = dev[d].token /\ DevGood(r, tokens, saved, deleted)
    BY <1>1 DEF DevGood, DevFields
  <2>3. OpFields \subseteq DOMAIN o /\ o.pc = "gather" /\ o.kind = "add" /\ o.salt = dev[d].token.salt
    BY DEF NoOp, OpFields
  <2> HIDE DEF r, o
  <2>4. OpGood(o, r, tokens, saved, deleted)
    BY <2>2, <2>3 DEF OpGood
  <2>5. QED
    BY <1>2, <2>1, <2>2, <2>4, OpStep
<1>4. CASE DeleteProfile(d, s, p)
  <2> DEFINE r == [dev[d] EXCEPT !.profiles = dev[d].profiles \ {p}]
             w == [NoOp EXCEPT !.kind = "delete", !.salt = dev[d].token.salt]
             b == [w EXCEPT !.pc = "build"]
             g == [w EXCEPT !.pc = "gather"]
  <2>1. deleted' = deleted \cup {p}
    BY <1>4 DEF DeleteProfile
  <2>2. r.token = dev[d].token /\ DevGood(r, tokens, saved, deleted')
    BY <1>1, <2>1 DEF DevGood, DevFields
  <2>3. w.kind = "delete" /\ w.salt = dev[d].token.salt /\ OpFields \subseteq DOMAIN w
    BY DEF NoOp, OpFields
  <2>4. \/ dev' = [dev EXCEPT ![d] = Switched(r, Default)] /\ op' = [op EXCEPT ![d][s] = b]
        \/ dev' = [dev EXCEPT ![d] = r] /\ op' = [op EXCEPT ![d][s] = g]
    BY <1>4 DEF DeleteProfile, Set, Become
  <2> HIDE DEF r, w
  <2>5. b.pc = "build" /\ b.kind = "delete" /\ b.salt = dev[d].token.salt /\ OpFields \subseteq DOMAIN b
    BY <2>3 DEF OpFields
  <2>6. g.pc = "gather" /\ g.kind = "delete" /\ g.salt = dev[d].token.salt /\ OpFields \subseteq DOMAIN g
    BY <2>3 DEF OpFields
  <2> HIDE DEF b, g
  <2>7. OpGood(b, r, tokens, saved, deleted') /\ OpGood(g, r, tokens, saved, deleted')
    BY <2>2, <2>5, <2>6 DEF OpGood
  <2>8. DevGood(Switched(r, Default), tokens, saved, deleted') /\ OpGood(b, Switched(r, Default), tokens, saved, deleted')
    BY <2>2, <2>7, WalletGood
  <2>9. deleted \subseteq deleted'
    BY <2>1
  <2>10. QED
    BY <1>2, <2>2, <2>4, <2>7, <2>8, <2>9, OpStep
<1>5. QED
  BY <1>3, <1>4

\* updateAuthFactors makes a token the user can open, of the keys and profiles of the
\* token it is to spend.
LEMMA UpdatingGood ==
  ASSUME NEW r, NEW o, NEW toks, NEW sv, NEW del, DevGood(r, toks, sv, del), CanUpdate(r),
         r.root = r.token.root, o.key.salt = o.salt, o.rec \in sv
  PROVE  OpGood(Updating(o, r), r, toks, sv, del)
<1> DEFINE t == NewToken(o, r)
           pc == IF r.active = Default THEN "send" ELSE "toDefault"
           u == [NoOp EXCEPT !.pc = pc, !.kind = o.kind, !.token = t, !.old = r.token.at, !.from = r.active]
<1>1. t.salt = o.salt /\ t.key = o.key /\ t.rec = o.rec /\ t.root = r.root /\ t.profiles = r.profiles /\ TokenFields \subseteq DOMAIN t
  BY DEF NewToken, TokenFields
<1>2. Updating(o, r) = u
  BY DEF Updating
<1>3. pc \in {"send", "toDefault"}
  OBVIOUS
<1> HIDE DEF t, pc
<1>4. OpFields \subseteq DOMAIN u /\ u.pc = pc /\ u.token = t /\ u.old = r.token.at
  BY DEF NoOp, OpFields
<1> HIDE DEF u
<1>5. r.token.at \in 1..Len(toks) /\ r.token = toks[r.token.at] /\ r.token.profiles \ del \subseteq r.profiles
  BY DEF DevGood, Known, CanUpdate
<1>6. Opens(t, sv)
  BY <1>1 DEF Opens
<1>7. Carries(toks[u.old], u.token, del) /\ u.token.profiles \ del \subseteq r.profiles
  BY <1>1, <1>4, <1>5 DEF Carries
<1>8. OpGood(u, r, toks, sv, del)
  BY <1>3, <1>4, <1>5, <1>6, <1>7 DEF OpGood
<1>9. QED
  BY <1>2, <1>8

LEMMA GatherKeeps ==
  ASSUME UmpInv, ~Crosses, NEW d \in Devices, NEW s \in Slots, Gather(d, s)
  PROVE  UmpInv'
<1> DEFINE o == op[d][s]
           r == dev[d]
           t == r.token
           key == IF o.kind = "password" THEN o.key ELSE t.key
           pres == IF o.kind = "presentation" THEN o.pres ELSE t.pres
           rec == IF o.kind = "recovery" THEN o.rec ELSE t.rec
           salt == IF o.kind = "presentation" THEN t.salt ELSE o.salt
           g == [o EXCEPT !.key = key, !.pres = pres, !.rec = rec, !.salt = salt]
           v == [g EXCEPT !.pc = "save"]
<1>1. DevGood(r, tokens, saved, deleted) /\ OpGood(o, r, tokens, saved, deleted)
  BY DEF UmpInv
<1>2. /\ op' = [op EXCEPT ![d][s] = AfterGather(Gathered(o, t), r)]
      /\ UNCHANGED <<dev, tokens, unspent, snap, saved, deleted>>
  BY DEF Gather, Become, chain, history
<1>3. o.pc = "gather" /\ r.auth /\ t # None /\ t.root = r.root /\ t.key.salt = t.salt /\ (o.kind # "recovery" => CanUpdate(r))
  BY DEF Gather, At, Unlocked
<1>4. Gathered(o, t) = g
  BY DEF Gathered
<1>5. o.kind \in {"password", "presentation", "recovery", "add", "delete"} /\ t.rec \in saved
  BY <1>1, <1>3 DEF OpGood, DevGood, Known, Opens
<1>6. OpFields \subseteq DOMAIN o
  BY <1>1 DEF OpGood
<1>7. o.kind # "recovery" => key.salt = salt /\ rec \in saved
  BY <1>1, <1>3, <1>5 DEF OpGood
<1>8. o.kind = "recovery" => key = t.key
  OBVIOUS
<1> HIDE DEF key, pres, rec, salt
<1>9. OpFields \subseteq DOMAIN g /\ g.kind = o.kind /\ g.key = key /\ g.rec = rec /\ g.salt = salt
  BY <1>6 DEF OpFields
<1> HIDE DEF g
<1>10. CASE o.kind = "recovery"
  <2>1. OpFields \subseteq DOMAIN v /\ v.pc = "save" /\ v.kind = "recovery" /\ v.key = t.key
    BY <1>8, <1>9, <1>10 DEF OpFields
  <2>2. AfterGather(g, r) = v
    BY <1>9, <1>10 DEF AfterGather
  <2> HIDE DEF v
  <2>3. OpGood(v, r, tokens, saved, deleted)
    BY <1>3, <2>1 DEF OpGood
  <2>4. QED
    BY <1>2, <1>4, <2>2, <2>3, OpOnly
<1>11. CASE o.kind # "recovery"
  <2>1. AfterGather(g, r) = Updating(g, r)
    BY <1>9, <1>11 DEF AfterGather
  <2>2. OpGood(Updating(g, r), r, tokens, saved, deleted)
    BY <1>1, <1>3, <1>7, <1>9, <1>11, UpdatingGood
  <2>3. QED
    BY <1>2, <1>4, <2>1, <2>2, OpOnly
<1>12. QED
  BY <1>10, <1>11

LEMMA RecoveryKeeps ==
  ASSUME UmpInv, ~Crosses, NEW d \in Devices, NEW s \in Slots, RecoverySaved(d, s)
  PROVE  UmpInv'
<1> DEFINE o == op[d][s]
           r == dev[d]
           g == [o EXCEPT !.salt = r.token.salt]
<1>1. DevGood(r, tokens, saved, deleted) /\ OpGood(o, r, tokens, saved, deleted)
  BY DEF UmpInv
<1>2. /\ o.pc = "save" /\ o.kind = "recovery" /\ saved' = saved \cup {o.rec}
      /\ op' = [op EXCEPT ![d][s] = IF CanUpdate(r) THEN Updating(g, r) ELSE NoOp]
      /\ UNCHANGED <<dev, tokens, unspent, snap, deleted>>
  BY DEF RecoverySaved, At, Become, chain
<1>3. saved \subseteq saved' /\ deleted \subseteq deleted'
  BY <1>2
<1>4. CASE CanUpdate(r)
  <2>1. o.key.salt = r.token.salt /\ r.root = r.token.root
    BY <1>1, <1>2, <1>4 DEF OpGood, CanUpdate
  <2>2. g.salt = r.token.salt /\ g.key = o.key /\ g.rec = o.rec
    BY <1>1 DEF OpGood, OpFields
  <2> HIDE DEF g
  <2>3. Longer(tokens, tokens)
    BY DEF UmpInv, ChainGood, Longer
  <2>4. DevGood(r, tokens, saved', deleted)
    BY <1>1, <1>3, <2>3, Keeps
  <2>5. OpGood(Updating(g, r), r, tokens, saved', deleted)
    BY <1>2, <1>4, <2>1, <2>2, <2>4, UpdatingGood
  <2>6. QED
    BY <1>2, <1>3, <1>4, <2>5, OpOnly
<1>5. CASE ~CanUpdate(r)
  BY <1>2, <1>3, <1>5, Bare, OpOnly
<1>6. QED
  BY <1>4, <1>5

-----------------------------------------------------------------------------
(* Publication.                                                            *)

\* A token is published, and spends none or one whose keys and profiles it carries.
LEMMA PublishKeeps ==
  ASSUME UmpInv, NEW t, Opens(t, saved), Publish(t), saved' = saved, deleted' = deleted, NEW old,
         \/ unspent' = unspent \cup {Len(tokens) + 1}
         \/ unspent' = (unspent \ {old}) \cup {Len(tokens) + 1} /\ old \in 1..Len(tokens) /\ Carries(tokens[old], t, deleted)
  PROVE  /\ Longer(tokens, tokens') /\ ChainGood(tokens', unspent', saved', deleted')
         /\ tokens'[Len(tokens) + 1] = [t EXCEPT !.at = Len(tokens) + 1]
         /\ Known(tokens'[Len(tokens) + 1], tokens', saved')
         /\ Carries(tokens'[Len(tokens) + 1], t, {}) /\ Carries(t, tokens'[Len(tokens) + 1], {})
<1> DEFINE n == Len(tokens) + 1
           new == [t EXCEPT !.at = n]
           S == {tokens[i] : i \in 1..Len(tokens)} \cup {new}
<1>1. Len(tokens) \in Nat /\ tokens = [i \in 1..Len(tokens) |-> tokens[i]] /\ unspent \subseteq 1..Len(tokens)
  BY DEF UmpInv, ChainGood
<1>2. new.at = n /\ new.root = t.root /\ new.profiles = t.profiles /\ Opens(new, saved)
  BY DEF Opens, TokenFields
<1>3. tokens' = Append(tokens, new)
  BY DEF Publish
<1> HIDE DEF new
<1>4. tokens \in Seq(S) /\ new \in S
  BY <1>1
<1>5. /\ Len(tokens') = n /\ tokens' \in Seq(S) /\ tokens'[n] = new
      /\ \A i \in 1..Len(tokens) : tokens'[i] = tokens[i]
  BY <1>1, <1>3, <1>4, AppendProperties
<1>6. n \in Nat /\ n \in 1..n /\ 1..n = 1..Len(tokens) \cup {n} /\ Len(tokens) <= n /\ n # 0 /\ n \notin 1..Len(tokens)
  BY <1>1
<1>7. Longer(tokens, tokens')
  BY <1>1, <1>5, <1>6 DEF Longer
<1>8. tokens' = [i \in 1..Len(tokens') |-> tokens'[i]]
  BY <1>5
<1>9. \A i \in 1..n : Opens(tokens'[i], saved) /\ tokens'[i].at = i
  BY <1>2, <1>5, <1>6 DEF UmpInv, ChainGood
<1>10. unspent' \subseteq 1..n /\ n \in unspent'
  BY <1>1, <1>6
<1>11. Survives(tokens', unspent', deleted)
  <2>1. SUFFICES ASSUME NEW i \in 1..n, NEW p \in (tokens'[i].profiles \ deleted) \cup {Default}
                 PROVE  \E j \in unspent' : tokens'[j].root = tokens'[i].root /\ p \in tokens'[j].profiles \cup {Default}
    BY <1>5 DEF Survives
  <2>2. CASE i = n
    BY <1>10, <2>2
  <2>3. CASE i \in 1..Len(tokens)
    <3>1. tokens'[i] = tokens[i]
      BY <1>5, <2>3
    <3>2. PICK j \in unspent : tokens[j].root = tokens[i].root /\ p \in tokens[j].profiles \cup {Default}
      BY <2>3, <3>1 DEF UmpInv, ChainGood, Survives
    <3>3. tokens'[j] = tokens[j]
      BY <1>1, <1>5, <3>2
    <3>4. CASE j \in unspent'
      BY <3>1, <3>2, <3>3, <3>4
    <3>5. CASE j \notin unspent'
      <4>1. j = old /\ Carries(tokens[old], t, deleted)
        BY <3>2, <3>5
      <4>2. new.root = tokens[i].root /\ p \in new.profiles \cup {Default}
        BY <1>2, <2>1, <3>2, <4>1 DEF Carries
      <4>3. QED
        BY <1>5, <1>10, <3>1, <4>2
    <3>6. QED
      BY <3>4, <3>5
  <2>4. QED
    BY <1>6, <2>2, <2>3
<1>12. Known(tokens'[n], tokens', saved)
  BY <1>2, <1>5, <1>6 DEF Known
<1>13. QED
  BY <1>2, <1>5, <1>6, <1>7, <1>8, <1>9, <1>10, <1>11, <1>12 DEF ChainGood, Carries, new

\* The publisher's own step.
LEMMA PublisherStep ==
  ASSUME UmpInv, ~Crosses, NEW d \in Devices, NEW s \in Slots, NEW r, NEW o,
         dev' = [dev EXCEPT ![d] = r], op' = [op EXCEPT ![d][s] = o], snap' = snap,
         saved' = saved, deleted' = deleted, Longer(tokens, tokens'),
         ChainGood(tokens', unspent', saved', deleted'),
         DevGood(r, tokens', saved', deleted'), OpGood(o, r, tokens', saved', deleted')
  PROVE  UmpInv'
<1>1. snap' = [e \in Devices |-> snap'[e]] /\ \A e \in Devices : SnapGood(snap'[e], tokens', saved')
  BY SnapsKeep
<1>2. op' = [e \in Devices |-> op'[e]] /\ op'[d] = [t \in Slots |-> op'[d][t]] /\ \A e \in Devices \ {d} : op'[e] = op[e]
  BY DEF UmpInv
<1>3. \A t \in Slots : OpGood(op'[d][t], r, tokens', saved', deleted')
  <2>1. op'[d][s] = o
    BY DEF UmpInv
  <2>2. \A t \in Slots \ {s} : OpGood(op'[d][t], r, tokens', saved', deleted')
    BY Others
  <2>3. QED
    BY <2>1, <2>2
<1>4. QED
  BY <1>1, <1>2, <1>3, DeviceStep

LEMMA RegistrationKeeps ==
  ASSUME UmpInv, ~Crosses, NEW d \in Devices, NEW s \in Slots,
         RegisterSaved(d, s) \/ RegisterFunded(d, s) \/ RegisterSend(d, s)
  PROVE  UmpInv'
<1>1. DevGood(dev[d], tokens, saved, deleted) /\ OpGood(op[d][s], dev[d], tokens, saved, deleted)
  BY DEF UmpInv
<1>2. CASE RegisterSaved(d, s)
  <2> DEFINE o == op[d][s]
             t == [salt |-> NewId, key |-> PasswordKey(o.key, NewId), pres |-> dev[d].pres,
                   rec |-> o.rec, root |-> fresh + 2, profiles |-> {}, at |-> 0]
             q == Setup(dev[d], t.root, t)
             b == [NoOp EXCEPT !.pc = "registerBuild", !.kind = "register", !.token = t]
  <2>1. /\ dev' = [dev EXCEPT ![d] = Switched(q, Default)] /\ op' = [op EXCEPT ![d][s] = b]
        /\ saved' = saved \cup {o.rec} /\ UNCHANGED <<tokens, unspent, snap, deleted>>
    BY <1>2 DEF RegisterSaved, Set, Become, chain
  <2>2. t.key = PasswordKey(o.key, NewId) /\ t.salt = NewId /\ t.rec = o.rec /\ t.at = 0 /\ TokenFields \subseteq DOMAIN t
    BY DEF TokenFields
  <2>3. PasswordKey(o.key, NewId).salt = NewId
    BY DEF PasswordKey
  <2> HIDE DEF t
  <2>4. Opens(t, saved') /\ Known(t, tokens, saved')
    BY <2>1, <2>2, <2>3 DEF Opens, Known
  <2>5. DevGood(q, tokens, saved', deleted')
    BY <1>1, <2>4, SetupGood DEF DevGood
  <2>6. OpFields \subseteq DOMAIN b /\ b.pc = "registerBuild" /\ b.token = t
    BY DEF NoOp, OpFields
  <2> HIDE DEF q, b
  <2>7. OpGood(b, Switched(q, Default), tokens, saved', deleted')
    BY <2>4, <2>6 DEF OpGood
  <2>8. DevGood(Switched(q, Default), tokens, saved', deleted')
    BY <2>5, WalletGood
  <2>9. saved \subseteq saved' /\ deleted \subseteq deleted'
    BY <2>1
  <2>10. QED
    BY <2>1, <2>7, <2>8, <2>9, OpStep
<1>3. CASE RegisterFunded(d, s)
  <2> DEFINE r == [dev[d] EXCEPT !.wallet = Default]
             o == [op[d][s] EXCEPT !.pc = "registerSend"]
  <2>1. /\ dev' = [dev EXCEPT ![d] = r] /\ op' = [op EXCEPT ![d][s] = o] /\ op[d][s].pc = "registerBuild"
        /\ UNCHANGED <<tokens, unspent, snap, saved, deleted>>
    BY <1>3 DEF RegisterFunded, Set, To, At, chain, history
  <2>2. DevGood(r, tokens, saved, deleted)
    BY <1>1, WalletGood
  <2>3. OpFields \subseteq DOMAIN o /\ o.pc = "registerSend" /\ o.token = op[d][s].token
    BY <1>1 DEF OpGood, OpFields
  <2> HIDE DEF r, o
  <2>4. OpGood(o, r, tokens, saved, deleted)
    BY <1>1, <2>1, <2>3 DEF OpGood
  <2>5. QED
    BY <2>1, <2>2, <2>4, OpStep
<1>4. CASE RegisterSend(d, s)
  <2> DEFINE t == op[d][s].token
             n == Len(tokens) + 1
             now == IF dev[d].token = t THEN tokens'[n] ELSE dev[d].token
             r == [dev[d] EXCEPT !.token = now]
  <2>1. /\ Publish(t) /\ unspent' = unspent \cup {n} /\ op' = [op EXCEPT ![d][s] = NoOp]
        /\ dev' = [dev EXCEPT ![d] = r] \/ dev' = dev
        /\ UNCHANGED <<snap, saved, deleted>>
    BY <1>4 DEF RegisterSend, End, Become, Set, history
  <2>2. Opens(t, saved)
    BY <1>1, <1>4 DEF RegisterSend, At, OpGood
  <2>3. /\ Longer(tokens, tokens') /\ ChainGood(tokens', unspent', saved', deleted')
        /\ Known(tokens'[n], tokens', saved') /\ Carries(tokens'[n], t, {})
    BY <2>1, <2>2, PublishKeeps
  <2>4. DevGood(dev[d], tokens', saved', deleted')
    BY <1>1, <2>1, <2>3, Keeps
  <2>5. r.token = now /\ r.auth = dev[d].auth /\ r.root = dev[d].root /\ r.profiles = dev[d].profiles /\ DevFields \subseteq DOMAIN r
    BY <1>1 DEF DevGood, DevFields
  <2>6. now = dev[d].token \/ (dev[d].token = t /\ now = tokens'[n])
    OBVIOUS
  <2> HIDE DEF now, r
  <2>7. DevGood(r, tokens', saved', deleted')
    <3>1. CASE now = dev[d].token
      BY <2>4, <2>5, <3>1 DEF DevGood
    <3>2. CASE dev[d].token = t /\ now = tokens'[n]
      <4>1. now.root = t.root /\ now.profiles \subseteq t.profiles
        BY <2>3, <3>2 DEF Carries
      <4>2. QED
        BY <2>3, <2>4, <2>5, <3>2, <4>1 DEF DevGood
    <3>3. QED
      BY <2>6, <3>1, <3>2
  <2>8. dev' = [dev EXCEPT ![d] = r] \/ dev' = [dev EXCEPT ![d] = dev[d]]
    BY <2>1 DEF UmpInv
  <2>9. QED
    BY <2>1, <2>3, <2>4, <2>7, <2>8, Bare, PublisherStep
<1>5. QED
  BY <1>2, <1>3, <1>4

LEMMA SendKeeps ==
  ASSUME UmpInv, ~Crosses, NEW d \in Devices, NEW s \in Slots, Send(d, s)
  PROVE  UmpInv'
<1> DEFINE o == op[d][s]
           t == o.token
           n == Len(tokens) + 1
           pres == IF o.kind = "presentation" /\ dev[d].pres # None THEN t.pres ELSE dev[d].pres
           r == [dev[d] EXCEPT !.token = tokens'[n], !.pres = pres]
<1>1. DevGood(dev[d], tokens, saved, deleted) /\ OpGood(o, dev[d], tokens, saved, deleted)
  BY DEF UmpInv
<1>2. /\ o.pc = "send" /\ Publish(t) /\ op' = [op EXCEPT ![d][s] = AfterSend(o)]
      /\ dev' = [dev EXCEPT ![d] = r] \/ dev' = dev
      /\ UNCHANGED <<snap, saved, deleted>>
      /\ unspent' = (unspent \ {o.old}) \cup {n} \/ unspent' = unspent \cup {n}
  BY DEF Send, Learned, At, Become, Set, history
<1>3. /\ Opens(t, saved) /\ o.old \in 1..Len(tokens) /\ Carries(tokens[o.old], t, deleted)
      /\ dev[d].auth => t.profiles \ deleted \subseteq dev[d].profiles
  BY <1>1, <1>2 DEF OpGood
<1>4. /\ Longer(tokens, tokens') /\ ChainGood(tokens', unspent', saved', deleted')
      /\ Known(tokens'[n], tokens', saved') /\ Carries(tokens'[n], t, {})
  BY <1>2, <1>3, PublishKeeps
<1>5. r.token = tokens'[n] /\ r.auth = dev[d].auth /\ r.profiles = dev[d].profiles /\ DevFields \subseteq DOMAIN r
  BY <1>1 DEF DevGood, DevFields
<1> HIDE DEF r, pres
<1>6. DevGood(r, tokens', saved', deleted')
  BY <1>2, <1>3, <1>4, <1>5 DEF DevGood, Carries
<1>7. DevGood(dev[d], tokens', saved', deleted')
  BY <1>1, <1>2, <1>4, Keeps
<1>8. dev' = [dev EXCEPT ![d] = r] \/ dev' = [dev EXCEPT ![d] = dev[d]]
  BY <1>2 DEF UmpInv
<1>9. QED
  BY <1>2, <1>4, <1>6, <1>7, <1>8, Bare, PublisherStep

LEMMA UmpInvSame ==
  ASSUME UmpInv, UNCHANGED <<dev, op, chain, snap, history>>
  PROVE  UmpInv'
<1>1. UNCHANGED <<dev, op, tokens, unspent, snap, saved, deleted>>
  BY DEF chain, history
<1>2. Longer(tokens, tokens') /\ ChainGood(tokens', unspent', saved', deleted')
  BY <1>1, ChainKeeps
<1>3. QED
  BY <1>1, <1>2 DEF UmpInv

LEMMA UmpInvStep ==
  ASSUME UmpInv, ~Crosses, UmpStep
  PROVE  UmpInv'
<1>1. ASSUME NEW d \in Devices, NEW s \in Slots, Start(d, s) PROVE UmpInv'
  BY <1>1, LoginsKeep, SyncKeeps, SwitchesKeep, ChangesBegin, ProfilesChange DEF Start
<1>2. ASSUME NEW d \in Devices, NEW s \in Slots, Continue(d, s) \/ Throw(d, s) PROVE UmpInv'
  BY <1>2, RegistrationKeeps, SwitchesKeep, GatherKeeps, RecoveryKeeps, SendKeeps DEF Continue
<1>3. QED
  BY <1>1, <1>2, HandsKeep, SnapshotKeeps DEF UmpStep

LEMMA UmpInvInit == UmpInit => UmpInv
<1> SUFFICES ASSUME UmpInit PROVE UmpInv
  OBVIOUS
<1>1. tokens = <<>> /\ unspent = {} /\ Len(tokens) = 0 /\ tokens = [i \in 1..0 |-> tokens[i]]
  BY DEF UmpInit
<1>2. ChainGood(tokens, unspent, saved, deleted)
  BY <1>1 DEF ChainGood, Survives
<1>3. \A d \in Devices : DevGood(dev[d], tokens, saved, deleted) /\ SnapGood(snap[d], tokens, saved)
  BY BlankGood DEF UmpInit, SnapGood
<1>4. \A d \in Devices, s \in Slots : OpGood(op[d][s], dev[d], tokens, saved, deleted)
  BY Bare DEF UmpInit
<1>5. QED
  BY <1>2, <1>3, <1>4 DEF UmpInit, UmpInv

\* The behaviours of CWIStyleWalletManager on any number of devices.
UmpSpec == UmpInit /\ [][UmpNext]_umpVars

-----------------------------------------------------------------------------
(* Recovery keys, whatever crosses.                                        *)

RecSaved(t, sv) == "rec" \in DOMAIN t /\ t.rec \in sv
DevSaved(r, sv) == DevFields \subseteq DOMAIN r /\ (r.token # None => RecSaved(r.token, sv))
OpSaved(o, sv) ==
  /\ OpFields \subseteq DOMAIN o
  /\ o.pc \in {"registerBuild", "registerSend", "toDefault", "send"} => RecSaved(o.token, sv)
SnapSaved(x, sv) == x # None => "token" \in DOMAIN x /\ RecSaved(x.token, sv)
ChainSaved(toks, un, sv) ==
  /\ Len(toks) \in Nat /\ toks = [i \in 1..Len(toks) |-> toks[i]] /\ un \subseteq 1..Len(toks)
  /\ \A i \in 1..Len(toks) : RecSaved(toks[i], sv)

\* Every token published or in hand has a recovery key the user has saved.
SavedInv ==
  /\ dev = [d \in Devices |-> dev[d]]
  /\ op = [d \in Devices |-> op[d]] /\ \A d \in Devices : op[d] = [s \in Slots |-> op[d][s]]
  /\ snap = [d \in Devices |-> snap[d]]
  /\ ChainSaved(tokens, unspent, saved)
  /\ \A d \in Devices : DevSaved(dev[d], saved) /\ SnapSaved(snap[d], saved)
  /\ \A d \in Devices, s \in Slots : OpSaved(op[d][s], saved)

LEMMA UncrossedStep ==
  ASSUME ~crossed => UmpInv, [UmpNext]_umpVars
  PROVE  ~crossed' => UmpInv'
<1>1. CASE UNCHANGED umpVars
  BY <1>1, UmpInvSame DEF umpVars
<1>2. CASE UmpNext
  BY <1>2, UmpInvStep DEF UmpNext
<1>3. QED
  BY <1>1, <1>2

LEMMA SavedInvInit == UmpInit => SavedInv
<1> SUFFICES ASSUME UmpInit PROVE SavedInv
  OBVIOUS
<1>1. tokens = <<>> /\ unspent = {} /\ Len(tokens) = 0 /\ tokens = [i \in 1..0 |-> tokens[i]]
  BY DEF UmpInit
<1>2. DevSaved(Blank, saved)
  BY DEF Blank, DevSaved, DevFields
<1>3. OpSaved(NoOp, saved)
  BY DEF NoOp, OpSaved, OpFields
<1>4. QED
  BY <1>1, <1>2, <1>3 DEF UmpInit, SavedInv, ChainSaved, SnapSaved

LEMMA ChainSavedStep ==
  ASSUME ChainSaved(tokens, unspent, saved), saved \subseteq saved',
         \/ tokens' = tokens /\ unspent' = unspent
         \/ \E t : Publish(t) /\ RecSaved(t, saved') /\ unspent' \subseteq unspent \cup {Len(tokens) + 1}
  PROVE  ChainSaved(tokens', unspent', saved')
<1>1. \A t : RecSaved(t, saved) => RecSaved(t, saved')
  BY DEF RecSaved
<1>2. CASE tokens' = tokens /\ unspent' = unspent
  BY <1>1, <1>2 DEF ChainSaved
<1>3. ASSUME NEW t, Publish(t), RecSaved(t, saved'), unspent' \subseteq unspent \cup {Len(tokens) + 1}
      PROVE  ChainSaved(tokens', unspent', saved')
  <2> DEFINE n == Len(tokens) + 1
             new == [t EXCEPT !.at = n]
             S == {tokens[i] : i \in 1..Len(tokens)} \cup {new}
  <2>1. RecSaved(new, saved')
    BY <1>3 DEF RecSaved
  <2>2. tokens' = Append(tokens, new)
    BY <1>3 DEF Publish
  <2> HIDE DEF new
  <2>3. tokens \in Seq(S) /\ new \in S
    BY DEF ChainSaved
  <2>4. /\ Len(tokens') = n /\ tokens' \in Seq(S) /\ tokens'[n] = new
        /\ \A i \in 1..Len(tokens) : tokens'[i] = tokens[i]
    BY <2>2, <2>3, AppendProperties
  <2>5. Len(tokens) \in Nat /\ n \in Nat /\ 1..n = 1..Len(tokens) \cup {n}
    BY DEF ChainSaved
  <2>6. tokens' = [i \in 1..Len(tokens') |-> tokens'[i]]
    BY <2>4
  <2>7. \A i \in 1..n : RecSaved(tokens'[i], saved')
    BY <1>1, <2>1, <2>4, <2>5 DEF ChainSaved
  <2>8. unspent' \subseteq 1..n
    BY <1>3, <2>5 DEF ChainSaved
  <2>9. QED
    BY <2>4, <2>5, <2>6, <2>7, <2>8 DEF ChainSaved
<1>4. QED
  BY <1>2, <1>3

LEMMA PublishedLast ==
  ASSUME ChainSaved(tokens, unspent, saved), NEW t, Publish(t), NEW un, NEW sv, ChainSaved(tokens', un, sv)
  PROVE  RecSaved(tokens'[Len(tokens) + 1], sv)
<1> DEFINE new == [t EXCEPT !.at = Len(tokens) + 1]
           S == {tokens[i] : i \in 1..Len(tokens)} \cup {new}
<1>1. tokens' = Append(tokens, new) /\ Len(tokens) \in Nat
  BY DEF Publish, ChainSaved
<1> HIDE DEF new
<1>2. tokens \in Seq(S) /\ new \in S
  BY DEF ChainSaved
<1>3. Len(tokens') = Len(tokens) + 1
  BY <1>1, <1>2, AppendProperties
<1>4. QED
  BY <1>1, <1>3 DEF ChainSaved

\* One device does something, and nothing is forgotten.
LEMMA SavedOne ==
  ASSUME SavedInv, NEW d \in Devices, NEW s, NEW r, NEW o, saved \subseteq saved', snap' = snap,
         dev' = dev \/ (dev' = [dev EXCEPT ![d] = r] /\ DevSaved(r, saved')),
         \/ op' = op
         \/ op' = [op EXCEPT ![d][s] = o] /\ OpSaved(o, saved')
         \/ op' = [op EXCEPT ![d] = [t \in Slots |-> NoOp]],
         \/ tokens' = tokens /\ unspent' = unspent
         \/ \E t : Publish(t) /\ RecSaved(t, saved') /\ unspent' \subseteq unspent \cup {Len(tokens) + 1}
  PROVE  SavedInv'
<1>1. \A t : RecSaved(t, saved) => RecSaved(t, saved')
  BY DEF RecSaved
<1>2. dev' = [e \in Devices |-> dev'[e]] /\ \A e \in Devices : DevSaved(dev'[e], saved')
  BY <1>1 DEF SavedInv, DevSaved
<1>3. /\ \A e \in Devices, t \in Slots : OpSaved(op[e][t], saved')
      /\ OpSaved(NoOp, saved')
  BY <1>1 DEF SavedInv, OpSaved, NoOp, OpFields
<1>4. /\ op' = [e \in Devices |-> op'[e]] /\ \A e \in Devices : op'[e] = [t \in Slots |-> op'[e][t]]
      /\ \A e \in Devices, t \in Slots : OpSaved(op'[e][t], saved')
  <2>1. CASE op' = op
    BY <1>3, <2>1 DEF SavedInv
  <2>2. CASE op' = [op EXCEPT ![d][s] = o] /\ OpSaved(o, saved')
    <3>1. \A e \in Devices, t \in Slots : op'[e][t] = o \/ op'[e][t] = op[e][t]
      BY <2>2 DEF SavedInv
    <3>2. op' = [e \in Devices |-> op'[e]] /\ \A e \in Devices : op'[e] = [t \in Slots |-> op'[e][t]]
      BY <2>2 DEF SavedInv
    <3>3. QED
      BY <1>3, <2>2, <3>1, <3>2
  <2>3. CASE op' = [op EXCEPT ![d] = [t \in Slots |-> NoOp]]
    <3>1. \A e \in Devices, t \in Slots : op'[e][t] = NoOp \/ op'[e][t] = op[e][t]
      BY <2>3 DEF SavedInv
    <3>2. op' = [e \in Devices |-> op'[e]] /\ \A e \in Devices : op'[e] = [t \in Slots |-> op'[e][t]]
      BY <2>3 DEF SavedInv
    <3>3. QED
      BY <1>3, <3>1, <3>2
  <2>4. QED
    BY <2>1, <2>2, <2>3
<1>5. ChainSaved(tokens', unspent', saved')
  BY ChainSavedStep DEF SavedInv
<1>6. snap' = [e \in Devices |-> snap'[e]] /\ \A e \in Devices : SnapSaved(snap'[e], saved')
  BY <1>1 DEF SavedInv, SnapSaved
<1>7. QED
  BY <1>2, <1>4, <1>5, <1>6 DEF SavedInv

\* A manager takes a token that has such a key, or keeps its own.
LEMMA DevSavedAs ==
  ASSUME NEW r, NEW q, NEW sv, DevSaved(r, sv), DOMAIN q = DOMAIN r, q.token = r.token \/ RecSaved(q.token, sv)
  PROVE  DevSaved(q, sv)
BY DEF DevSaved

LEMMA SetupSaved ==
  ASSUME NEW r, NEW sv, DevSaved(r, sv), NEW root, NEW t, RecSaved(t, sv)
  PROVE  DevSaved(Setup(r, root, t), sv)
<1> DEFINE q == Setup(r, root, t)
<1>1. q.token = t /\ DOMAIN q = DOMAIN r
  BY DEF Setup, DevSaved, DevFields
<1> HIDE DEF q
<1>2. DevSaved(q, sv)
  BY <1>1, DevSavedAs
<1>3. QED
  BY <1>2 DEF q

LEMMA SwitchedSaved ==
  ASSUME NEW r, NEW sv, DevSaved(r, sv), NEW p
  PROVE  DevSaved(Switched(r, p), sv)
<1> DEFINE q == Switched(r, p)
<1>1. q.token = r.token /\ DOMAIN q = DOMAIN r
  BY DEF Switched, DevSaved, DevFields
<1> HIDE DEF q
<1>2. DevSaved(q, sv)
  BY <1>1, DevSavedAs
<1>3. QED
  BY <1>2 DEF q

\* Operations that publish nothing.
LEMMA QuietSaved ==
  ASSUME NEW sv
  PROVE  /\ OpSaved(NoOp, sv)
         /\ \A p : OpSaved(BuildOp(p), sv)
         /\ \A o : OpSaved(AfterSend(o), sv)
<1>1. OpSaved(NoOp, sv)
  BY DEF OpSaved, NoOp, OpFields
<1>2. ASSUME NEW p PROVE OpSaved(BuildOp(p), sv)
  <2>1. OpFields \subseteq DOMAIN BuildOp(p) /\ BuildOp(p).pc = "build"
    BY DEF BuildOp, NoOp, OpFields
  <2>2. QED
    BY <2>1 DEF OpSaved
<1>3. ASSUME NEW o PROVE OpSaved(AfterSend(o), sv)
  <2> DEFINE b == [NoOp EXCEPT !.pc = "back", !.from = o.from]
  <2>1. OpFields \subseteq DOMAIN b /\ b.pc = "back"
    BY DEF NoOp, OpFields
  <2>2. OpSaved(b, sv)
    BY <2>1 DEF OpSaved
  <2>3. QED
    BY <1>1, <2>2 DEF AfterSend
<1>4. QED
  BY <1>1, <1>2, <1>3

LEMMA HandsSaved ==
  ASSUME SavedInv, NEW d \in Devices,
         \/ \E m \in Modes : SetMode(d, m)
         \/ \E k \in PresKeys : ProvidePresentationKey(d, k)
         \/ \E k \in saved : FindByRecoveryKey(d, k)
         \/ Destroy(d)
  PROVE  SavedInv'
<1>1. DevSaved(dev[d], saved) /\ \A i \in unspent : RecSaved(tokens[i], saved)
  BY DEF SavedInv, ChainSaved
<1>2. UNCHANGED <<tokens, unspent, snap, saved>>
  BY DEF SetMode, ProvidePresentationKey, FindByRecoveryKey, Destroy, chain, history
<1>3. PICK r : dev' = [dev EXCEPT ![d] = r] /\ DevSaved(r, saved)
  <2>1. ASSUME NEW m, SetMode(d, m) PROVE DevSaved([dev[d] EXCEPT !.mode = m], saved) /\ Set(d, [dev[d] EXCEPT !.mode = m])
    BY <1>1, <2>1 DEF SetMode, DevSaved, DevFields
  <2>2. ASSUME NEW k PROVE DevSaved([dev[d] EXCEPT !.flow = "new-user", !.pres = k], saved)
    BY <1>1 DEF DevSaved, DevFields
  <2>3. ASSUME NEW k, NEW i \in unspent
        PROVE  /\ DevSaved([dev[d] EXCEPT !.flow = "existing-user", !.pres = k, !.token = tokens[i]], saved)
               /\ DevSaved([dev[d] EXCEPT !.flow = "existing-user", !.rec = k, !.token = tokens[i]], saved)
    BY <1>1 DEF DevSaved, DevFields
  <2>4. CASE Destroy(d)
    <3>1. Set(d, Blank)
      BY <2>4 DEF Destroy
    <3>2. DevSaved(Blank, saved)
      BY DEF Blank, DevSaved, DevFields
    <3>3. QED
      BY <3>1, <3>2 DEF Set
  <2>5. CASE \E m \in Modes : SetMode(d, m)
    BY <2>1, <2>5 DEF Set
  <2>6. CASE \E k \in PresKeys : ProvidePresentationKey(d, k)
    BY <2>2, <2>3, <2>6 DEF ProvidePresentationKey, ByPresentationKey, Set
  <2>7. CASE \E k \in saved : FindByRecoveryKey(d, k)
    BY <2>3, <2>7 DEF FindByRecoveryKey, ByRecoveryKey, Set
  <2>8. QED
    BY <2>4, <2>5, <2>6, <2>7
<1>4. op' = op \/ op' = [op EXCEPT ![d] = [s \in Slots |-> NoOp]]
  BY DEF SetMode, ProvidePresentationKey, FindByRecoveryKey, Destroy
<1>5. QED
  BY <1>2, <1>3, <1>4, SavedOne

LEMMA SnapshotSaved ==
  ASSUME SavedInv, NEW d \in Devices, SaveSnapshot(d)
  PROVE  SavedInv'
<1> DEFINE x == [root |-> dev[d].root, token |-> dev[d].token, active |-> dev[d].active]
<1>1. dev[d].token # None /\ snap' = [snap EXCEPT ![d] = x] /\ UNCHANGED <<dev, op, tokens, unspent, saved>>
  BY DEF SaveSnapshot, chain, history
<1>2. SnapSaved(x, saved)
  BY <1>1 DEF SavedInv, DevSaved, SnapSaved
<1> HIDE DEF x
<1>3. QED
  BY <1>1, <1>2 DEF SavedInv

LEMMA StartsSaved ==
  ASSUME SavedInv, NEW d \in Devices, NEW s \in Slots, Start(d, s)
  PROVE  SavedInv'
<1>1. DevSaved(dev[d], saved) /\ SnapSaved(snap[d], saved) /\ \A i \in unspent : RecSaved(tokens[i], saved)
  BY DEF SavedInv, ChainSaved
<1>2. UNCHANGED <<tokens, unspent, snap, saved>>
  BY DEF Start, ProvidePassword, Register, ChangePassword, ProvideRecoveryKey, ChangePresentationKey, SwitchProfile,
         AddProfile, DeleteProfile, ChangeRecoveryKey, SyncUMPToken, LoadSnapshot, chain, history
<1>3. ASSUME NEW o, OpSaved(o, saved), op' = [op EXCEPT ![d][s] = o],
             dev' = dev \/ \E r : dev' = [dev EXCEPT ![d] = r] /\ DevSaved(r, saved)
      PROVE  SavedInv'
  BY <1>2, <1>3, SavedOne
<1>4. ASSUME NEW o, OpFields \subseteq DOMAIN o, o.pc \in {"gather", "save", "build"} PROVE OpSaved(o, saved)
  BY <1>4 DEF OpSaved
<1>5. ASSUME NEW w, ProvidePassword(d, s, w) \/ ProvideRecoveryKey(d, s, w) PROVE SavedInv'
  <2>1. /\ dev' = [dev EXCEPT ![d] = Setup(dev[d], dev[d].token.root, dev[d].token)]
        /\ op' = [op EXCEPT ![d][s] = BuildOp(dev[d].active)] /\ dev[d].token # None
    BY <1>5 DEF ProvidePassword, PasswordOpens, ProvideRecoveryKey, RecoveryOpens, Set, Become
  <2>2. DevSaved(Setup(dev[d], dev[d].token.root, dev[d].token), saved)
    <3>1. RecSaved(dev[d].token, saved)
      BY <1>1, <2>1 DEF DevSaved
    <3>2. QED
      BY <1>1, <3>1, SetupSaved
  <2>3. QED
    BY <1>3, <2>1, <2>2, QuietSaved
<1>6. ASSUME NEW w, Register(d, s, w) \/ ChangePassword(d, s, w) \/ ChangePresentationKey(d, s, w) \/ ChangeRecoveryKey(d, s)
      PROVE  SavedInv'
  <2>1. dev' = dev
    BY <1>6 DEF Register, ChangePassword, ChangePresentationKey, ChangeRecoveryKey
  <2>2. ASSUME NEW o, OpFields \subseteq DOMAIN o, o.pc \in {"gather", "save"}, op' = [op EXCEPT ![d][s] = o] PROVE SavedInv'
    BY <1>3, <1>4, <2>1, <2>2
  <2>3. ASSUME Register(d, s, w) PROVE SavedInv'
    <3> DEFINE o == [NoOp EXCEPT !.pc = "save", !.kind = "register", !.key = w, !.rec = NewId]
    <3>1. op' = [op EXCEPT ![d][s] = o] /\ OpFields \subseteq DOMAIN o /\ o.pc = "save"
      BY <2>3 DEF Register, Become, NoOp, OpFields
    <3> HIDE DEF o
    <3>2. QED
      BY <2>2, <3>1
  <2>4. ASSUME ChangePassword(d, s, w) PROVE SavedInv'
    <3> DEFINE o == [NoOp EXCEPT !.pc = "gather", !.kind = "password", !.salt = NewId, !.key = PasswordKey(w, NewId)]
    <3>1. op' = [op EXCEPT ![d][s] = o] /\ OpFields \subseteq DOMAIN o /\ o.pc = "gather"
      BY <2>4 DEF ChangePassword, Become, NoOp, OpFields
    <3> HIDE DEF o
    <3>2. QED
      BY <2>2, <3>1
  <2>5. ASSUME ChangePresentationKey(d, s, w) PROVE SavedInv'
    <3> DEFINE o == [NoOp EXCEPT !.pc = "gather", !.kind = "presentation", !.pres = w]
    <3>1. op' = [op EXCEPT ![d][s] = o] /\ OpFields \subseteq DOMAIN o /\ o.pc = "gather"
      BY <2>5 DEF ChangePresentationKey, Become, NoOp, OpFields
    <3> HIDE DEF o
    <3>2. QED
      BY <2>2, <3>1
  <2>6. ASSUME ChangeRecoveryKey(d, s) PROVE SavedInv'
    <3> DEFINE o == [NoOp EXCEPT !.pc = "gather", !.kind = "recovery", !.rec = NewId]
    <3>1. op' = [op EXCEPT ![d][s] = o] /\ OpFields \subseteq DOMAIN o /\ o.pc = "gather"
      BY <2>6 DEF ChangeRecoveryKey, Become, NoOp, OpFields
    <3> HIDE DEF o
    <3>2. QED
      BY <2>2, <3>1
  <2>7. QED
    BY <1>6, <2>3, <2>4, <2>5, <2>6
<1>7. ASSUME NEW p, SwitchProfile(d, s, p) PROVE SavedInv'
  <2>1. dev' = [dev EXCEPT ![d] = Switched(dev[d], p)] /\ op' = [op EXCEPT ![d][s] = BuildOp(p)]
    BY <1>7 DEF SwitchProfile, Set, Become
  <2>2. QED
    BY <1>1, <1>3, <2>1, QuietSaved, SwitchedSaved
<1>8. ASSUME NEW p, AddProfile(d, s, p) PROVE SavedInv'
  <2> DEFINE r == [dev[d] EXCEPT !.profiles = dev[d].profiles \cup {p}]
             o == [NoOp EXCEPT !.pc = "gather", !.kind = "add", !.salt = dev[d].token.salt]
  <2>1. dev' = [dev EXCEPT ![d] = r] /\ op' = [op EXCEPT ![d][s] = o]
    BY <1>8 DEF AddProfile, Set, Become
  <2>2. DevSaved(r, saved) /\ OpFields \subseteq DOMAIN o /\ o.pc = "gather"
    BY <1>1 DEF DevSaved, DevFields, NoOp, OpFields
  <2> HIDE DEF r, o
  <2>3. QED
    BY <1>3, <1>4, <2>1, <2>2
<1>9. ASSUME NEW p, DeleteProfile(d, s, p) PROVE SavedInv'
  <2> DEFINE r == [dev[d] EXCEPT !.profiles = dev[d].profiles \ {p}]
             w == [NoOp EXCEPT !.kind = "delete", !.salt = dev[d].token.salt]
             b == [w EXCEPT !.pc = "build"]
             g == [w EXCEPT !.pc = "gather"]
  <2>1. \/ dev' = [dev EXCEPT ![d] = Switched(r, Default)] /\ op' = [op EXCEPT ![d][s] = b]
        \/ dev' = [dev EXCEPT ![d] = r] /\ op' = [op EXCEPT ![d][s] = g]
    BY <1>9 DEF DeleteProfile, Set, Become
  <2>2. DevSaved(r, saved) /\ OpFields \subseteq DOMAIN w
    BY <1>1 DEF DevSaved, DevFields, NoOp, OpFields
  <2> HIDE DEF r, w
  <2>3. OpFields \subseteq DOMAIN b /\ b.pc = "build" /\ OpFields \subseteq DOMAIN g /\ g.pc = "gather"
    BY <2>2 DEF OpFields
  <2> HIDE DEF b, g
  <2>4. QED
    BY <1>3, <1>4, <2>1, <2>2, <2>3, SwitchedSaved
<1>10. CASE SyncUMPToken(d, s)
  <2>1. op' = op
    BY <1>10 DEF SyncUMPToken
  <2>2. PICK i \in unspent :
          IF Decrypts(dev[d].root, tokens[i])
          THEN Set(d, Setup(dev[d], dev[d].root, tokens[i]))
          ELSE Set(d, [dev[d] EXCEPT !.token = tokens[i], !.profiles = {}])
    BY <1>10 DEF SyncUMPToken, Refreshed, ByPresentationKey, ByRecoveryKey
  <2>3. DevSaved(Setup(dev[d], dev[d].root, tokens[i]), saved)
    BY <1>1, SetupSaved
  <2>4. DevSaved([dev[d] EXCEPT !.token = tokens[i], !.profiles = {}], saved)
    BY <1>1 DEF DevSaved, DevFields
  <2>5. PICK r : dev' = [dev EXCEPT ![d] = r] /\ DevSaved(r, saved)
    BY <2>2, <2>3, <2>4 DEF Set
  <2>6. QED
    BY <1>2, <2>1, <2>5, SavedOne
<1>11. CASE LoadSnapshot(d, s)
  <2> DEFINE x == snap[d]
             q == Setup(dev[d], x.root, x.token)
             r == [q EXCEPT !.flow = "existing-user"]
  <2>1. RecSaved(x.token, saved)
    BY <1>1, <1>11 DEF LoadSnapshot, SnapSaved
  <2>2. DevSaved(q, saved)
    BY <1>1, <2>1, SetupSaved
  <2> HIDE DEF q
  <2>3. DevSaved(r, saved)
    BY <2>2 DEF DevSaved, DevFields
  <2> HIDE DEF r
  <2>4. DevSaved(Switched(r, x.active), saved) /\ DevSaved(Blank, saved)
    BY <2>3, SwitchedSaved DEF Blank, DevSaved, DevFields
  <2>5. CASE Set(d, Switched(r, x.active)) /\ Become(d, s, BuildOp(x.active))
    BY <1>3, <2>4, <2>5, QuietSaved DEF Set, Become
  <2>6. CASE Set(d, Blank) /\ op' = op
    BY <1>2, <2>4, <2>6, SavedOne DEF Set
  <2>7. QED
    BY <1>11, <2>5, <2>6 DEF LoadSnapshot, r, q
<1>12. QED
  BY <1>5, <1>6, <1>7, <1>8, <1>9, <1>10, <1>11 DEF Start

LEMMA RegistrationSaved ==
  ASSUME SavedInv, NEW d \in Devices, NEW s \in Slots,
         RegisterSaved(d, s) \/ RegisterFunded(d, s) \/ RegisterSend(d, s)
  PROVE  SavedInv'
<1>1. DevSaved(dev[d], saved) /\ OpSaved(op[d][s], saved)
  BY DEF SavedInv
<1>2. CASE RegisterSaved(d, s)
  <2> DEFINE o == op[d][s]
             t == [salt |-> NewId, key |-> PasswordKey(o.key, NewId), pres |-> dev[d].pres,
                   rec |-> o.rec, root |-> fresh + 2, profiles |-> {}, at |-> 0]
             b == [NoOp EXCEPT !.pc = "registerBuild", !.kind = "register", !.token = t]
  <2>1. /\ dev' = [dev EXCEPT ![d] = Switched(Setup(dev[d], t.root, t), Default)] /\ op' = [op EXCEPT ![d][s] = b]
        /\ saved' = saved \cup {o.rec} /\ UNCHANGED <<tokens, unspent, snap>>
    BY <1>2 DEF RegisterSaved, Set, Become, chain
  <2>2. RecSaved(t, saved')
    BY <2>1 DEF RecSaved
  <2> HIDE DEF t
  <2>3. OpSaved(b, saved')
    BY <2>2 DEF OpSaved, NoOp, OpFields
  <2> HIDE DEF b
  <2>4. DevSaved(dev[d], saved')
    BY <1>1, <2>1 DEF DevSaved, RecSaved
  <2>5. DevSaved(Switched(Setup(dev[d], t.root, t), Default), saved')
    BY <2>2, <2>4, SetupSaved, SwitchedSaved
  <2>6. saved \subseteq saved'
    BY <2>1
  <2>7. QED
    BY <2>1, <2>3, <2>5, <2>6, SavedOne
<1>3. CASE RegisterFunded(d, s)
  <2> DEFINE r == [dev[d] EXCEPT !.wallet = Default]
             o == [op[d][s] EXCEPT !.pc = "registerSend"]
  <2>1. /\ dev' = [dev EXCEPT ![d] = r] /\ op' = [op EXCEPT ![d][s] = o] /\ op[d][s].pc = "registerBuild"
        /\ UNCHANGED <<tokens, unspent, snap, saved>>
    BY <1>3 DEF RegisterFunded, Set, To, At, chain, history
  <2>2. DevSaved(r, saved)
    BY <1>1 DEF DevSaved, DevFields
  <2>3. OpSaved(o, saved)
    BY <1>1, <2>1 DEF OpSaved, OpFields
  <2> HIDE DEF r, o
  <2>4. QED
    BY <2>1, <2>2, <2>3, SavedOne
<1>4. CASE RegisterSend(d, s)
  <2> DEFINE t == op[d][s].token
             n == Len(tokens) + 1
             now == IF dev[d].token = t THEN tokens'[n] ELSE dev[d].token
             r == [dev[d] EXCEPT !.token = now]
  <2>1. /\ Publish(t) /\ unspent' = unspent \cup {n} /\ op' = [op EXCEPT ![d][s] = NoOp]
        /\ dev' = [dev EXCEPT ![d] = r] \/ dev' = dev
        /\ UNCHANGED <<snap, saved>>
    BY <1>4 DEF RegisterSend, End, Become, Set, history
  <2>2. RecSaved(t, saved)
    BY <1>1, <1>4 DEF RegisterSend, At, OpSaved
  <2>3. ChainSaved(tokens', unspent', saved')
    BY <2>1, <2>2, ChainSavedStep DEF SavedInv
  <2>4. RecSaved(tokens'[n], saved)
    BY <2>1, <2>3, PublishedLast DEF SavedInv
  <2>5. r.token = now /\ DevFields \subseteq DOMAIN r
    BY <1>1 DEF DevSaved, DevFields
  <2>6. now = dev[d].token \/ now = tokens'[n]
    OBVIOUS
  <2> HIDE DEF now, r
  <2>7. DevSaved(r, saved)
    BY <1>1, <2>4, <2>5, <2>6 DEF DevSaved
  <2> HIDE DEF t
  <2>8. QED
    BY <2>1, <2>2, <2>7, QuietSaved, SavedOne
<1>5. QED
  BY <1>2, <1>3, <1>4

LEMMA SendSaved ==
  ASSUME SavedInv, NEW d \in Devices, NEW s \in Slots, Send(d, s)
  PROVE  SavedInv'
<1> DEFINE o == op[d][s]
           t == o.token
           n == Len(tokens) + 1
           pres == IF o.kind = "presentation" /\ dev[d].pres # None THEN t.pres ELSE dev[d].pres
           r == [dev[d] EXCEPT !.token = tokens'[n], !.pres = pres]
<1>1. DevSaved(dev[d], saved) /\ OpSaved(o, saved)
  BY DEF SavedInv
<1>2. /\ o.pc = "send" /\ Publish(t) /\ op' = [op EXCEPT ![d][s] = AfterSend(o)]
      /\ dev' = [dev EXCEPT ![d] = r] \/ dev' = dev
      /\ UNCHANGED <<snap, saved>>
      /\ unspent' \subseteq unspent \cup {n}
  BY DEF Send, Learned, At, Become, Set, history
<1>3. RecSaved(t, saved)
  BY <1>1, <1>2 DEF OpSaved
<1>4. ChainSaved(tokens', unspent', saved')
  BY <1>2, <1>3, ChainSavedStep DEF SavedInv
<1>5. RecSaved(tokens'[n], saved)
  BY <1>2, <1>4, PublishedLast DEF SavedInv
<1>6. r.token = tokens'[n] /\ DevFields \subseteq DOMAIN r
  BY <1>1 DEF DevSaved, DevFields
<1> HIDE DEF r, pres
<1>7. DevSaved(r, saved)
  BY <1>5, <1>6 DEF DevSaved
<1>8. OpSaved(AfterSend(o), saved)
  BY QuietSaved
<1> HIDE DEF t, o
<1>9. QED
  BY <1>2, <1>3, <1>7, <1>8, SavedOne

LEMMA GatherSaved ==
  ASSUME SavedInv, NEW d \in Devices, NEW s \in Slots, Gather(d, s) \/ RecoverySaved(d, s)
  PROVE  SavedInv'
<1> DEFINE o == op[d][s]
           r == dev[d]
<1>1. DevSaved(r, saved) /\ OpFields \subseteq DOMAIN o
  BY DEF SavedInv, OpSaved
<1>2. ASSUME NEW g, NEW sv, g.rec \in sv PROVE OpSaved(Updating(g, r), sv)
  <2> DEFINE t == NewToken(g, r)
             pc == IF r.active = Default THEN "send" ELSE "toDefault"
             u == [NoOp EXCEPT !.pc = pc, !.kind = g.kind, !.token = t, !.old = r.token.at, !.from = r.active]
  <2>1. RecSaved(t, sv)
    BY <1>2 DEF NewToken, RecSaved
  <2>2. Updating(g, r) = u
    BY DEF Updating
  <2> HIDE DEF t, pc
  <2>3. OpFields \subseteq DOMAIN u /\ u.token = t
    BY DEF NoOp, OpFields
  <2> HIDE DEF u
  <2>4. QED
    BY <2>1, <2>2, <2>3 DEF OpSaved
<1>3. CASE Gather(d, s)
  <2> DEFINE t == r.token
             key == IF o.kind = "password" THEN o.key ELSE t.key
             pres == IF o.kind = "presentation" THEN o.pres ELSE t.pres
             rec == IF o.kind = "recovery" THEN o.rec ELSE t.rec
             salt == IF o.kind = "presentation" THEN t.salt ELSE o.salt
             g == [o EXCEPT !.key = key, !.pres = pres, !.rec = rec, !.salt = salt]
             v == [g EXCEPT !.pc = "save"]
  <2>1. /\ op' = [op EXCEPT ![d][s] = AfterGather(Gathered(o, t), r)] /\ t # None
        /\ UNCHANGED <<dev, tokens, unspent, snap, saved>>
    BY <1>3 DEF Gather, Unlocked, Become, chain, history
  <2>2. Gathered(o, t) = g
    BY DEF Gathered
  <2>3. o.kind # "recovery" => rec \in saved
    BY <1>1, <2>1 DEF DevSaved, RecSaved
  <2> HIDE DEF key, pres, rec, salt
  <2>4. OpFields \subseteq DOMAIN g /\ g.kind = o.kind /\ g.rec = rec
    BY <1>1 DEF OpFields
  <2> HIDE DEF g
  <2>5. OpFields \subseteq DOMAIN v /\ v.pc = "save"
    BY <2>4 DEF OpFields
  <2>6. AfterGather(g, r) = v \/ (g.kind # "recovery" /\ AfterGather(g, r) = Updating(g, r))
    BY DEF AfterGather
  <2> HIDE DEF v
  <2>7. OpSaved(AfterGather(g, r), saved)
    BY <1>2, <2>3, <2>4, <2>5, <2>6 DEF OpSaved
  <2>8. QED
    BY <2>1, <2>2, <2>7, SavedOne
<1>4. CASE RecoverySaved(d, s)
  <2> DEFINE g == [o EXCEPT !.salt = r.token.salt]
  <2>1. /\ saved' = saved \cup {o.rec}
        /\ op' = [op EXCEPT ![d][s] = IF CanUpdate(r) THEN Updating(g, r) ELSE NoOp]
        /\ UNCHANGED <<dev, tokens, unspent, snap>>
    BY <1>4 DEF RecoverySaved, Become, chain
  <2>2. g.rec = o.rec
    BY <1>1 DEF OpFields
  <2> HIDE DEF g, o
  <2>3. OpSaved(Updating(g, r), saved') /\ OpSaved(NoOp, saved')
    BY <1>2, <2>1, <2>2, QuietSaved
  <2>4. saved \subseteq saved'
    BY <2>1
  <2>5. QED
    BY <2>1, <2>3, <2>4, SavedOne
<1>5. QED
  BY <1>3, <1>4

LEMMA SwitchesSaved ==
  ASSUME SavedInv, NEW d \in Devices, NEW s \in Slots,
         Built(d, s) \/ ToDefault(d, s) \/ Back(d, s) \/ Throw(d, s)
  PROVE  SavedInv'
<1>1. DevSaved(dev[d], saved) /\ OpSaved(op[d][s], saved)
  BY DEF SavedInv
<1>2. UNCHANGED <<tokens, unspent, snap, saved>>
  BY DEF Built, ToDefault, Back, Throw, chain, history
<1>3. PICK r : DevSaved(r, saved) /\ (dev' = dev \/ dev' = [dev EXCEPT ![d] = r])
  <2>1. DevSaved([dev[d] EXCEPT !.wallet = op[d][s].from], saved)
    BY <1>1 DEF DevSaved, DevFields
  <2>2. \A p : DevSaved(Switched(dev[d], p), saved)
    BY <1>1, SwitchedSaved
  <2>3. DevSaved([Switched(dev[d], Default) EXCEPT !.wallet = Default], saved)
    BY <2>2 DEF DevSaved, DevFields
  <2>4. QED
    BY <1>1, <2>1, <2>2, <2>3 DEF Built, ToDefault, Back, Throw, Set
<1>4. PICK o : OpSaved(o, saved) /\ op' = [op EXCEPT ![d][s] = o]
  <2>1. ASSUME Built(d, s) PROVE OpSaved([op[d][s] EXCEPT !.pc = "gather"], saved)
    BY <1>1 DEF OpSaved, OpFields
  <2>2. ASSUME ToDefault(d, s) PROVE OpSaved([op[d][s] EXCEPT !.pc = "send"], saved)
    BY <1>1, <2>2 DEF ToDefault, At, OpSaved, OpFields
  <2>3. CASE Built(d, s)
    BY <2>1, <2>3, QuietSaved DEF Built, To, End, Become
  <2>4. CASE ToDefault(d, s)
    BY <2>2, <2>4 DEF ToDefault, To
  <2>5. CASE Back(d, s) \/ Throw(d, s)
    BY <2>5, QuietSaved DEF Back, Throw, End, Become
  <2>6. QED
    BY <2>3, <2>4, <2>5
<1>5. QED
  BY <1>2, <1>3, <1>4, SavedOne

LEMMA SavedInvStep ==
  ASSUME SavedInv, [UmpNext]_umpVars
  PROVE  SavedInv'
<1>1. CASE UNCHANGED umpVars
  BY <1>1 DEF umpVars, chain, history, SavedInv
<1>2. ASSUME NEW d \in Devices, NEW s \in Slots, Continue(d, s) \/ Throw(d, s) PROVE SavedInv'
  BY <1>2, RegistrationSaved, SwitchesSaved, GatherSaved, SendSaved DEF Continue
<1>3. QED
  BY <1>1, <1>2, StartsSaved, HandsSaved, SnapshotSaved DEF UmpNext, UmpStep
\* However changes of password, keys and profiles follow, cross, fail, or meet a logout
\* (updateAuthFactors, changeRecoveryKey, destroy), every token published has a recovery
\* key the user saved; and, unless operations of one manager crossed, the salt of its
\* password key.
THEOREM TokensOpen == UmpSpec => []FactorsOpen
<1>1. UmpInit => SavedInv /\ (~crossed => UmpInv)
  BY SavedInvInit, UmpInvInit
<1>2. SavedInv /\ (~crossed => UmpInv) /\ [UmpNext]_umpVars => SavedInv' /\ (~crossed' => UmpInv')
  BY SavedInvStep, UncrossedStep
<1>3. SavedInv /\ (~crossed => UmpInv) => FactorsOpen
  BY DEF SavedInv, ChainSaved, RecSaved, UmpInv, ChainGood, Opens, FactorsOpen
<1>4. QED
  BY <1>1, <1>2, <1>3, PTL DEF UmpSpec

\* And updateAuthFactors, which spends the token a device knew, maybe a stale one,
\* never takes root keys off the chain, nor a profile nobody asked to delete, unless
\* operations of one manager crossed.
THEOREM KeysStay == UmpSpec => []KeysSurvive
<1>1. UmpInit => (~crossed => UmpInv)
  BY UmpInvInit
<1>2. (~crossed => UmpInv) /\ [UmpNext]_umpVars => (~crossed' => UmpInv')
  BY UncrossedStep
<1>3. (~crossed => UmpInv) => KeysSurvive
  BY DEF UmpInv, ChainGood, Survives, KeysSurvive
<1>4. QED
  BY <1>1, <1>2, <1>3, PTL DEF UmpSpec

-----------------------------------------------------------------------------
(* Actions from their arguments to a signed transaction.                   *)

Asked == {"valid", "funded", "written", "listed", "built"}
Funded == {"funded", "written", "listed", "built"}
Written == {"written", "listed", "built"}
InputsListed == {"listed", "built"}
TxBuilt == {"built"}

AskOK(q) == q \in Args /\ \A k \in DOMAIN q.ins : q.ins[k].coin \notin ChangeOuts
ChangeOK(g) == {"coins", "outs"} \subseteq DOMAIN g /\ g.coins \in Seq(ChangeOuts) /\ g.outs \in Nat

\* Each position is drawn once.
RowsOK(w) ==
  /\ \E n \in Nat : DOMAIN w = 1..n
  /\ \A k \in DOMAIN w : w[k].vout \in DOMAIN w
  /\ \A k, l \in DOMAIN w : w[k].vout = w[l].vout => k = l
  /\ \A v \in DOMAIN w : \E k \in DOMAIN w : w[k].vout = v

\* What spends which coin of the wallet, as far as the action has come.
SpendsOf(r) ==
  IF made[r] \in InputsListed THEN Range(listed[r])
  ELSE IF made[r] \in Funded THEN Range(change[r].coins) ELSE {}

\* A transaction that was built for r, however far it is signed.
UnlockOK(r, v, u) ==
  \/ u = <<"none", Nil>>
  \/ v \notin OwnVins(r) /\ u[1] \in {"given", "spend"} /\ u[2] = listed[r][v]
  \/ v \in OwnVins(r) /\ u = <<"wallet", listed[r][v]>>
TxOK(r, tx) ==
  /\ {"ins", "outs"} \subseteq DOMAIN tx
  /\ tx.outs = BuiltOuts(r)
  /\ DOMAIN tx.ins = DOMAIN listed[r]
  /\ \A v \in DOMAIN listed[r] :
       /\ {"coin", "unlock"} \subseteq DOMAIN tx.ins[v]
       /\ tx.ins[v].coin = listed[r][v]
       /\ UnlockOK(r, v, tx.ins[v].unlock)
OwnSigned(r, tx) == \A v \in OwnVins(r) : tx.ins[v].unlock = <<"wallet", listed[r][v]>>

\* Not given up, nor between a give-up and a processAction that had begun before it.
Standing(r) == state[r] # "failed" /\ r \notin overtaken

RefOK(r) ==
  /\ made[r] \in {"no", "refused"} \cup Asked
  /\ made[r] \in Asked => AskOK(ask[r])
  /\ made[r] \in Funded => ChangeOK(change[r])
  /\ made[r] \in Written => RowsOK(rows[r])
  /\ made[r] \in InputsListed => listed[r] = Listed(r)
  /\ made[r] # "refused" /\ Standing(r) => \A c \in OwnOuts : spender[c] = r <=> c \in SpendsOf(r)
  /\ made[r] \in TxBuilt /\ ask[r].noSend => named[r] = ChangeVouts(r)
  /\ made[r] \in TxBuilt => TxOK(r, prior[r])
  /\ r \in pending => made[r] \in TxBuilt
  /\ kept[r] # Nil => made[r] \in TxBuilt /\ TxOK(r, kept[r]) /\ OwnSigned(r, kept[r])

\* What a call has taken from the wallet's memory is signed with the wallet's keys,
\* and a give-up behind its back is known.
Flying == {"checked", "recorded", "committed"}
CallOK(x) ==
  /\ {"ref", "pc", "raw"} \subseteq DOMAIN calls[x]
  /\ calls[x].pc \in {"sign", "process"} \cup Flying => calls[x].ref \in Refs /\ made[calls[x].ref] \in TxBuilt
  /\ calls[x].pc = "process" => OwnSigned(calls[x].ref, prior[calls[x].ref])
  /\ calls[x].pc = "checked" => TxOK(calls[x].ref, calls[x].raw) /\ OwnSigned(calls[x].ref, calls[x].raw)
  /\ calls[x].pc \in Flying => state[calls[x].ref] # "failed" \/ calls[x].ref \in overtaken

Domains ==
  /\ DOMAIN ask = Refs /\ DOMAIN made = Refs /\ DOMAIN change = Refs /\ DOMAIN rows = Refs
  /\ DOMAIN listed = Refs /\ DOMAIN prior = Refs /\ DOMAIN kept = Refs /\ DOMAIN state = Refs
  /\ DOMAIN named = Refs /\ DOMAIN calls = Callers

SigningInv ==
  /\ Domains
  /\ pending \subseteq Refs
  /\ \A r \in Refs : RefOK(r)
  /\ \A x \in Callers : CallOK(x)

-----------------------------------------------------------------------------
(* Positions.                                                              *)

\* A list of inputs: those given, then the change.
LEMMA ListedFacts ==
  ASSUME NEW r, AskOK(ask[r]), ChangeOK(change[r])
  PROVE  /\ \E n \in Nat : DOMAIN Listed(r) = 1..n
         /\ Len(ask[r].ins) \in Nat /\ DOMAIN ask[r].ins = 1..Len(ask[r].ins)
         /\ Range(Listed(r)) = Range(Coins(r)) \cup Range(change[r].coins)
         /\ \A v \in DOMAIN Listed(r) :
              /\ v > Len(ask[r].ins) => Listed(r)[v] \in ChangeOuts
              /\ v <= Len(ask[r].ins) => Listed(r)[v] \notin ChangeOuts
<1> DEFINE q == ask[r]  a == Coins(r)  b == change[r].coins  All == Tracked \cup Foreign \cup ChangeOuts
<1>1. q.ins \in Seq(Input) /\ \A k \in DOMAIN q.ins : q.ins[k].coin \in All \ ChangeOuts
  <2>1. q.ins \in Seq(Input)
    BY DEF AskOK, Args
  <2>2. \A k \in DOMAIN q.ins : q.ins[k] \in Input
    BY <2>1
  <2>3. QED
    BY <2>1, <2>2 DEF AskOK, Input
<1>2. a \in Seq(All) /\ Len(a) = Len(q.ins) /\ DOMAIN q.ins = 1..Len(q.ins) /\ Len(q.ins) \in Nat
  <2>1. DOMAIN q.ins = 1..Len(q.ins) /\ Len(q.ins) \in Nat
    BY <1>1
  <2>2. a = [k \in 1..Len(q.ins) |-> q.ins[k].coin]
    BY <2>1 DEF Coins
  <2>3. QED
    BY <1>1, <2>1, <2>2
<1>3. b \in Seq(All) /\ b \in Seq(ChangeOuts)
  BY DEF ChangeOK
<1>4. \A k \in DOMAIN a : a[k] \notin ChangeOuts
  BY <1>1 DEF Coins
<1> HIDE DEF a, b, All, q
<1>5. a \o b \in Seq(All) /\ Len(a \o b) = Len(a) + Len(b)
      /\ \A v \in 1..Len(a) + Len(b) : (a \o b)[v] = IF v <= Len(a) THEN a[v] ELSE b[v - Len(a)]
  BY <1>2, <1>3, ConcatProperties
<1>6. Range(a \o b) = Range(a) \cup Range(b)
  <2>1. ASSUME NEW k \in DOMAIN a PROVE a[k] = (a \o b)[k] /\ k \in DOMAIN (a \o b)
    BY <1>2, <1>3, <1>5
  <2>2. ASSUME NEW k \in DOMAIN b PROVE b[k] = (a \o b)[k + Len(a)] /\ k + Len(a) \in DOMAIN (a \o b)
    BY <1>2, <1>3, <1>5
  <2>3. ASSUME NEW k \in DOMAIN (a \o b)
        PROVE  (k \in DOMAIN a /\ (a \o b)[k] = a[k]) \/ (k - Len(a) \in DOMAIN b /\ (a \o b)[k] = b[k - Len(a)])
    BY <1>2, <1>3, <1>5
  <2>4. QED
    BY <2>1, <2>2, <2>3 DEF Range
<1>7. \A v \in DOMAIN (a \o b) :
         /\ v > Len(a) => (a \o b)[v] \in ChangeOuts
         /\ v <= Len(a) => (a \o b)[v] \notin ChangeOuts
  <2>1. SUFFICES ASSUME NEW v \in DOMAIN (a \o b)
                 PROVE  /\ v > Len(a) => (a \o b)[v] \in ChangeOuts
                        /\ v <= Len(a) => (a \o b)[v] \notin ChangeOuts
    OBVIOUS
  <2>2. v \in 1..Len(a) + Len(b) /\ Len(a) \in Nat /\ Len(b) \in Nat
    BY <1>2, <1>3, <1>5
  <2>3. CASE v <= Len(a)
    BY <2>2, <2>3, <1>2, <1>4, <1>5
  <2>4. CASE v > Len(a)
    <3>1. v - Len(a) \in DOMAIN b
      BY <2>2, <2>4, <1>3
    <3>2. QED
      BY <2>2, <2>4, <3>1, <1>3, <1>5
  <2>5. QED
    BY <2>2, <2>3, <2>4
<1>8. Listed(r) = a \o b
  BY DEF Listed, a, b
<1>9. DOMAIN (a \o b) = 1..(Len(a) + Len(b)) /\ Len(a) + Len(b) \in Nat
  BY <1>2, <1>3, <1>5
<1>10. Len(ask[r].ins) = Len(a) /\ DOMAIN ask[r].ins = 1..Len(a) /\ Len(a) \in Nat
  BY <1>2 DEF q
<1>11. Range(a) = Range(Coins(r)) /\ Range(b) = Range(change[r].coins)
  BY DEF a, b
<1>12. Range(Listed(r)) = Range(Coins(r)) \cup Range(change[r].coins)
  BY <1>6, <1>8, <1>11
<1>13. \A v \in DOMAIN Listed(r) :
              /\ v > Len(ask[r].ins) => Listed(r)[v] \in ChangeOuts
              /\ v <= Len(ask[r].ins) => Listed(r)[v] \notin ChangeOuts
  BY <1>7, <1>8, <1>10
<1>14. \E m \in Nat : DOMAIN Listed(r) = 1..m
  BY <1>8, <1>9
<1>15. QED
  BY <1>10, <1>12, <1>13, <1>14

\* The script of a row is where the row says, and nothing else is there.
LEMMA BuiltFacts ==
  ASSUME NEW r, RowsOK(rows[r])
  PROVE  /\ \A k \in DOMAIN rows[r] : BuiltOuts(r)[rows[r][k].vout] = rows[r][k].script
         /\ rows[r] # <<>> => Len(BuiltOuts(r)) = Len(rows[r])
         /\ {BuiltOuts(r)[v] : v \in ChangeVouts(r)} = {o \in Range(BuiltOuts(r)) : o[1] = "change"}
<1> DEFINE w == rows[r]
<1>1. CASE w = <<>>
  <2>1. DOMAIN w = {}
    BY <1>1
  <2>2. ChangeVouts(r) = {}
    BY <2>1 DEF ChangeVouts
  <2>3. BuiltOuts(r) = <<<<"dummy", 0>>>>
    BY <1>1 DEF BuiltOuts
  <2>4. DOMAIN BuiltOuts(r) = {1} /\ BuiltOuts(r)[1] = <<"dummy", 0>>
    BY <2>3
  <2>5. Range(BuiltOuts(r)) = {<<"dummy", 0>>}
    BY <2>4 DEF Range
  <2>6. {o \in Range(BuiltOuts(r)) : o[1] = "change"} = {}
    BY <2>5
  <2>7. QED
    BY <1>1, <2>1, <2>2, <2>6
<1>2. CASE w # <<>>
  <2>1. BuiltOuts(r) = [v \in DOMAIN w |-> RowAt(r, v).script]
    BY <1>2 DEF BuiltOuts
  <2>2. ASSUME NEW k \in DOMAIN w PROVE RowAt(r, w[k].vout) = w[k] /\ w[k].vout \in DOMAIN w
    BY DEF RowAt, RowsOK
  <2>3. \A k \in DOMAIN w : w[k].vout \in DOMAIN w /\ BuiltOuts(r)[w[k].vout] = w[k].script
    BY <2>1, <2>2
  <2>4. Len(BuiltOuts(r)) = Len(w)
    <3>1. PICK n \in Nat : DOMAIN w = 1..n
      BY DEF RowsOK
    <3>2. DOMAIN BuiltOuts(r) = DOMAIN w
      BY <2>1
    <3>3. QED
      BY <3>1, <3>2
  <2>5. {BuiltOuts(r)[v] : v \in ChangeVouts(r)} = {o \in Range(BuiltOuts(r)) : o[1] = "change"}
    <3>1. ASSUME NEW v \in ChangeVouts(r)
          PROVE  BuiltOuts(r)[v] \in Range(BuiltOuts(r)) /\ BuiltOuts(r)[v][1] = "change"
      <4>1. PICK k \in DOMAIN w : v = w[k].vout /\ IsChange(w[k])
        BY DEF ChangeVouts
      <4>2. QED
        BY <4>1, <2>1, <2>3 DEF IsChange, Range
    <3>2. ASSUME NEW o \in Range(BuiltOuts(r)), o[1] = "change"
          PROVE  \E v \in ChangeVouts(r) : o = BuiltOuts(r)[v]
      <4>1. PICK v \in DOMAIN w : o = BuiltOuts(r)[v]
        BY <2>1 DEF Range
      <4>2. PICK k \in DOMAIN w : w[k].vout = v
        BY DEF RowsOK
      <4>3. IsChange(w[k])
        BY <4>1, <4>2, <2>3, <3>2 DEF IsChange
      <4>4. v \in ChangeVouts(r)
        BY <4>2, <4>3 DEF ChangeVouts
      <4>5. QED
        BY <4>1, <4>4
    <3>3. QED
      BY <3>1, <3>2
  <2>6. QED
    BY <2>3, <2>4, <2>5
<1>3. QED
  BY <1>1, <1>2

LEMMA UpTo ==
  ASSUME NEW n \in Nat PROVE IsFiniteSet(1..n) /\ Cardinality(1..n) = n
BY FS_Interval

\* Drawing an order of the outputs.
LEMMA OrderFacts ==
  ASSUME NEW n \in Nat, NEW p \in [1..n -> 1..n], p \in Orders(1..n) \/ p = [k \in 1..n |-> k]
  PROVE  /\ \A k, l \in 1..n : p[k] = p[l] => k = l
         /\ \A v \in 1..n : \E k \in 1..n : p[k] = v
<1>1. CASE p = [k \in 1..n |-> k]
  BY <1>1
<1>2. CASE p \in Orders(1..n)
  <2>1. IsFiniteSet(1..n) /\ Cardinality(1..n) = n
    BY UpTo
  <2>2. \A v \in 1..n : \E k \in 1..n : p[k] = v
    BY <1>2 DEF Orders, Range
  <2>3. p \in Surjection(1..n, 1..n)
    BY <2>2 DEF Surjection
  <2>4. p \in Injection(1..n, 1..n)
    BY <2>1, <2>3, FS_SurjSameCardinalityImpliesInj
  <2>5. QED
    BY <2>2, <2>4 DEF Injection, IsInjective
<1>3. QED
  BY <1>1, <1>2

\* The rows as createAction inserts them.
LEMMA InsertedFacts ==
  ASSUME NEW r, ask[r] \in Args, ChangeOK(change[r]), NEW p \in Vouts(r, Len(Wanted(r)))
  PROVE  RowsOK(InsertRows(Wanted(r), p))
<1> DEFINE want == Wanted(r)  n == Len(want)
           S == {"asked", "commission", "change"} \X Nat
           one == [k \in 1..ask[r].outs |-> <<"asked", k>>]
           two == IF ask[r].charged THEN <<<<"commission", 0>>>> ELSE <<>>
           three == [k \in 1..change[r].outs |-> <<"change", k>>]
<1>1. ask[r].outs \in Nat /\ change[r].outs \in Nat
  BY DEF Args, ChangeOK
<1>2. one \in Seq(S) /\ two \in Seq(S) /\ three \in Seq(S)
  <2>1. one \in [1..ask[r].outs -> S] /\ three \in [1..change[r].outs -> S]
    BY <1>1
  <2>2. one \in Seq(S) /\ three \in Seq(S)
    BY <1>1, <2>1, SeqDef
  <2>3. <<"commission", 0>> \in S
    OBVIOUS
  <2>4. <<<<"commission", 0>>>> \in Seq(S) /\ <<>> \in Seq(S)
    <3> HIDE DEF S
    <3>1. QED
      BY <2>3
  <2>5. QED
    BY <2>2, <2>4
<1>3. want = (one \o two) \o three
  BY DEF Wanted
<1>4. want \in Seq(S)
  <2> HIDE DEF one, two, three, want, S
  <2>1. one \o two \in Seq(S)
    BY <1>2, ConcatProperties
  <2>2. QED
    BY <1>2, <1>3, <2>1, ConcatProperties
<1> HIDE DEF want, S
<1>5. n \in Nat /\ DOMAIN want = 1..n
  BY <1>4, LenProperties
<1>6. p \in [1..n -> 1..n] /\ (p \in Orders(1..n) \/ p = [k \in 1..n |-> k])
  <2>1. p \in Vouts(r, n)
    BY DEF want
  <2>2. Cardinality(1..n) = n
    BY <1>5, UpTo
  <2>3. QED
    BY <2>1, <2>2, <1>5 DEF Vouts, Orders
<1> DEFINE w == InsertRows(want, p)
<1>7. DOMAIN w = 1..n /\ \A k \in 1..n : w[k].vout = p[k]
  BY <1>5 DEF InsertRows, NewRow
<1> HIDE DEF w, n
<1>8. /\ \A k, l \in 1..n : p[k] = p[l] => k = l
      /\ \A v \in 1..n : \E k \in 1..n : p[k] = v
  BY <1>5, <1>6, OrderFacts
<1>9. \A k \in 1..n : p[k] \in 1..n
  BY <1>6
<1>10. RowsOK(w)
  <2>1. \E m \in Nat : DOMAIN w = 1..m
    BY <1>5, <1>7
  <2>2. \A k \in DOMAIN w : w[k].vout \in DOMAIN w
    BY <1>7, <1>9
  <2>3. \A k, l \in DOMAIN w : w[k].vout = w[l].vout => k = l
    BY <1>7, <1>8
  <2>4. ASSUME NEW v \in DOMAIN w PROVE \E k \in DOMAIN w : w[k].vout = v
    <3>1. PICK k \in 1..n : p[k] = v
      BY <1>7, <1>8
    <3>2. QED
      BY <3>1, <1>7
  <2>5. QED
    BY <2>1, <2>2, <2>3, <2>4 DEF RowsOK
<1>11. QED
  BY <1>10 DEF w, want

-----------------------------------------------------------------------------
(* What a step leaves alone.                                               *)

\* A step that does not touch the action q.
Same(q) ==
  /\ ask'[q] = ask[q] /\ made'[q] = made[q] /\ change'[q] = change[q] /\ rows'[q] = rows[q]
  /\ listed'[q] = listed[q] /\ prior'[q] = prior[q] /\ kept'[q] = kept[q] /\ state'[q] = state[q]
  /\ named'[q] = named[q]
  /\ q \in pending' <=> q \in pending
  /\ q \in overtaken' <=> q \in overtaken
  /\ \A c \in OwnOuts : spender'[c] = q <=> spender[c] = q

LEMMA SameKeeps ==
  ASSUME NEW q, RefOK(q), Same(q)
  PROVE  RefOK(q)'
<1>1. OwnVins(q)' = OwnVins(q) /\ BuiltOuts(q)' = BuiltOuts(q) /\ Listed(q)' = Listed(q)
      /\ ChangeVouts(q)' = ChangeVouts(q) /\ SpendsOf(q)' = SpendsOf(q)
  BY DEF Same, OwnVins, BuiltOuts, RowAt, Listed, Coins, ChangeVouts, SpendsOf
<1>2. TxOK(q, prior[q])' <=> TxOK(q, prior[q])
  BY <1>1 DEF Same, TxOK, UnlockOK
<1>3. TxOK(q, kept[q])' <=> TxOK(q, kept[q])
  BY <1>1 DEF Same, TxOK, UnlockOK
<1>4. OwnSigned(q, kept[q])' <=> OwnSigned(q, kept[q])
  BY <1>1 DEF Same, OwnSigned
<1>5. Standing(q)' <=> Standing(q)
  BY DEF Same, Standing
<1>6. QED
  BY <1>1, <1>2, <1>3, <1>4, <1>5 DEF RefOK, Same

\* A step that what a call on r relies on survives.
Safe(r) ==
  made[r] \in TxBuilt =>
    /\ made'[r] \in TxBuilt /\ ask'[r] = ask[r] /\ listed'[r] = listed[r] /\ rows'[r] = rows[r]
    /\ OwnSigned(r, prior[r]) => OwnSigned(r, prior[r])'
    /\ state'[r] = "failed" /\ r \notin overtaken' => (state[r] = "failed" /\ r \notin overtaken) \/ ~InFlight(r)

LEMMA SameIsSafe ==
  ASSUME NEW q, Same(q) PROVE Safe(q)
<1>1. OwnVins(q)' = OwnVins(q)
  BY DEF Same, OwnVins
<1>2. QED
  BY <1>1 DEF Same, Safe, OwnSigned

LEMMA CallKeeps ==
  ASSUME NEW x \in Callers, CallOK(x), calls'[x] = calls[x], \A r \in Refs : Safe(r)
  PROVE  CallOK(x)'
<1>1. CASE calls[x].pc \notin {"sign", "process"} \cup Flying
  BY <1>1 DEF CallOK, Flying
<1>2. CASE calls[x].pc \in {"sign", "process"} \cup Flying
  <2>1. PICK r \in Refs : r = calls[x].ref /\ made[r] \in TxBuilt /\ Safe(r)
    BY <1>2 DEF CallOK
  <2>2. OwnVins(r)' = OwnVins(r) /\ BuiltOuts(r)' = BuiltOuts(r) /\ listed'[r] = listed[r]
    <3>1. ask'[r] = ask[r] /\ listed'[r] = listed[r] /\ rows'[r] = rows[r]
      BY <2>1 DEF Safe
    <3>2. QED
      BY <3>1 DEF OwnVins, BuiltOuts, RowAt
  <2>3. calls[x].pc = "checked" => TxOK(r, calls[x].raw)' /\ OwnSigned(r, calls[x].raw)'
    BY <2>1, <2>2 DEF CallOK, TxOK, UnlockOK, OwnSigned
  <2>4. calls[x].pc \in Flying => InFlight(r)
    BY <2>1 DEF InFlight, Flying
  <2>5. calls[x].pc \in Flying => state'[r] # "failed" \/ r \in overtaken'
    BY <2>1, <2>4 DEF CallOK, Safe
  <2>6. QED
    BY <2>1, <2>3, <2>5 DEF CallOK, Safe
<1>3. QED
  BY <1>1, <1>2

\* A step of the action r, and perhaps of one call.
LEMMA RefStep ==
  ASSUME SigningInv, NEW r \in Refs, Domains', pending' \subseteq Refs,
         \A q \in Refs \ {r} : Same(q), RefOK(r)', Safe(r),
         \A x \in Callers : calls'[x] = calls[x] \/ CallOK(x)'
  PROVE  SigningInv'
<1>1. \A q \in Refs : RefOK(q)' /\ Safe(q)
  BY SameKeeps, SameIsSafe DEF SigningInv
<1>2. \A x \in Callers : CallOK(x)'
  BY <1>1, CallKeeps DEF SigningInv
<1>3. QED
  BY <1>1, <1>2 DEF SigningInv

-----------------------------------------------------------------------------
(* createAction in storage.                                                *)

LEMMA ValidateStep ==
  ASSUME SigningInv, NEW r \in Refs, Validate(r)
  PROVE  SigningInv'
<1>1. PICK q \in Asks[r] :
        /\ ask' = [ask EXCEPT ![r] = q]
        /\ made' = [made EXCEPT ![r] = IF ValidInputs(q) THEN "valid" ELSE "refused"]
  BY DEF Validate
<1>2. q \in Args /\ (ValidInputs(q) => AskOK(q))
  BY SigningAssumption DEF ValidInputs, AskOK
<1>3. Domains /\ RefOK(r) /\ made[r] = "no"
  BY DEF SigningInv, Validate
<1>4. Domains' /\ \A p \in Refs \ {r} : Same(p)
  BY <1>1, <1>3 DEF Domains, Validate, Same
<1>5. ask'[r] = q /\ made'[r] \in {"valid", "refused"} /\ (made'[r] = "valid" => AskOK(q))
  BY <1>1, <1>2, <1>3 DEF Domains
<1>6. r \notin pending /\ ~(kept[r] # Nil) /\ (Standing(r) => \A c \in OwnOuts : spender[c] # r)
  BY <1>3 DEF RefOK, TxBuilt, SpendsOf, InputsListed, Funded
<1>7. UNCHANGED <<spender, pending, kept, state, calls, overtaken>>
  BY DEF Validate
<1>8. RefOK(r)'
  BY <1>5, <1>6, <1>7 DEF RefOK, Standing, SpendsOf, Asked, Funded, Written, InputsListed, TxBuilt
<1>9. Safe(r)
  BY <1>3 DEF Safe, TxBuilt
<1>10. QED
  BY <1>4, <1>6, <1>7, <1>8, <1>9, RefStep DEF SigningInv

LEMMA FundStep ==
  ASSUME SigningInv, NEW r \in Refs, Fund(r)
  PROVE  SigningInv'
<1>1. PICK S \in SUBSET FreeChange, n \in 0..MaxOuts[r] : \E p \in Orders(S) :
        /\ change' = [change EXCEPT ![r] = Allocated(p, n)]
        /\ spender' = [c \in OwnOuts |-> IF c \in S THEN r ELSE spender[c]]
  BY DEF Fund
<1>2. PICK p \in Orders(S) :
        /\ change' = [change EXCEPT ![r] = Allocated(p, n)]
        /\ spender' = [c \in OwnOuts |-> IF c \in S THEN r ELSE spender[c]]
  BY <1>1
<1>3. Domains /\ RefOK(r) /\ made[r] = "valid" /\ state[r] = "none"
  BY DEF SigningInv, Fund, Created
<1>4. r # Nil /\ \A c \in S : spender[c] = Nil /\ c \in OwnOuts
  BY SigningAssumption DEF FreeChange, OwnOuts
<1>5. ChangeOK(Allocated(p, n)) /\ Range(p) = S
  <2>1. IsFiniteSet(S) /\ S \subseteq ChangeOuts
    BY SigningAssumption, FS_Subset DEF FreeChange
  <2>2. Cardinality(S) \in Nat
    BY <2>1, FS_CardinalityType
  <2>3. p \in [1..Cardinality(S) -> ChangeOuts] /\ Range(p) = S
    BY <2>1 DEF Orders
  <2>4. p \in Seq(ChangeOuts)
    BY <2>2, <2>3, SeqDef
  <2>5. n \in Nat
    BY SigningAssumption
  <2>6. QED
    BY <2>3, <2>4, <2>5 DEF ChangeOK, Allocated
<1>6. /\ change'[r] = Allocated(p, n) /\ made'[r] = "funded" /\ state'[r] = "unsigned"
      /\ UNCHANGED <<ask, rows, listed, prior, pending, kept, named, calls, overtaken>>
  BY <1>2, <1>3 DEF Domains, Fund
<1>7. Domains' /\ \A q \in Refs \ {r} : Same(q)
  <2>1. Domains'
    BY <1>2, <1>3, <1>6 DEF Domains, Fund
  <2>2. ASSUME NEW q \in Refs \ {r} PROVE Same(q)
    <3>1. q # Nil /\ q # r
      BY SigningAssumption
    <3>2. \A c \in OwnOuts : spender'[c] = q <=> spender[c] = q
      BY <1>2, <1>4, <3>1
    <3>3. change'[q] = change[q] /\ made'[q] = made[q] /\ state'[q] = state[q]
      BY <1>2, <1>3, <3>1 DEF Domains, Fund
    <3>4. QED
      BY <1>6, <3>2, <3>3 DEF Same
  <2>3. QED
    BY <2>1, <2>2
<1>8. r \notin pending /\ ~(kept[r] # Nil) /\ AskOK(ask[r]) /\ (Standing(r) => \A c \in OwnOuts : spender[c] # r)
  BY <1>3 DEF RefOK, TxBuilt, SpendsOf, InputsListed, Funded, Asked
<1>9. Range(Allocated(p, n).coins) = S
  BY <1>5 DEF Allocated
<1>10. Standing(r)' => \A c \in OwnOuts : spender'[c] = r <=> c \in S
  BY <1>2, <1>3, <1>6, <1>8 DEF Standing
<1>11. RefOK(r)'
  BY <1>5, <1>6, <1>8, <1>9, <1>10 DEF RefOK, Standing, SpendsOf, Asked, Funded, Written, InputsListed, TxBuilt
<1>12. Safe(r)
  BY <1>3 DEF Safe, TxBuilt
<1>13. QED
  BY <1>6, <1>7, <1>8, <1>11, <1>12, RefStep DEF SigningInv

LEMMA StarveStep ==
  ASSUME SigningInv, NEW r \in Refs, Starve(r)
  PROVE  SigningInv'
<1>1. Domains /\ RefOK(r) /\ made[r] = "valid"
  BY DEF SigningInv, Starve, Created
<1>2. made'[r] = "refused" /\ UNCHANGED <<ask, prior, listed, pending, kept, calls, overtaken>>
  BY <1>1 DEF Starve, Domains
<1>3. Domains' /\ \A q \in Refs \ {r} : Same(q)
  BY <1>1 DEF Domains, Same, Starve
<1>4. r \notin pending /\ ~(kept[r] # Nil)
  BY <1>1 DEF RefOK, TxBuilt
<1>5. RefOK(r)'
  BY <1>2, <1>4 DEF RefOK, Standing, Asked, Funded, Written, InputsListed, TxBuilt
<1>6. Safe(r)
  BY <1>1 DEF Safe, TxBuilt
<1>7. QED
  BY <1>2, <1>3, <1>4, <1>5, <1>6, RefStep DEF SigningInv

LEMMA WriteOutputsStep ==
  ASSUME SigningInv, NEW r \in Refs, WriteOutputs(r)
  PROVE  SigningInv'
<1>1. PICK p \in Vouts(r, Len(Wanted(r))) : rows' = [rows EXCEPT ![r] = InsertRows(Wanted(r), p)]
  BY DEF WriteOutputs
<1>2. Domains /\ RefOK(r) /\ made[r] = "funded"
  BY DEF SigningInv, WriteOutputs
<1>3. AskOK(ask[r]) /\ ask[r] \in Args /\ ChangeOK(change[r])
  BY <1>2 DEF RefOK, Asked, Funded, AskOK
<1>4. RowsOK(InsertRows(Wanted(r), p))
  BY <1>3, InsertedFacts
<1>5. /\ made'[r] = "written" /\ rows'[r] = InsertRows(Wanted(r), p)
      /\ UNCHANGED <<ask, change, spender, listed, prior, pending, kept, state, calls, overtaken>>
  BY <1>1, <1>2 DEF WriteOutputs, Domains
<1>6. Domains' /\ \A q \in Refs \ {r} : Same(q)
  BY <1>1, <1>2 DEF Domains, Same, WriteOutputs
<1>7. r \notin pending /\ ~(kept[r] # Nil)
      /\ (Standing(r) => \A c \in OwnOuts : spender[c] = r <=> c \in Range(change[r].coins))
  BY <1>2 DEF RefOK, TxBuilt, SpendsOf, InputsListed, Funded
<1>8. RefOK(r)'
  BY <1>3, <1>4, <1>5, <1>7 DEF RefOK, Standing, SpendsOf, Asked, Funded, Written, InputsListed, TxBuilt
<1>9. Safe(r)
  BY <1>2 DEF Safe, TxBuilt
<1>10. QED
  BY <1>5, <1>6, <1>7, <1>8, <1>9, RefStep DEF SigningInv

LEMMA WriteInputsStep ==
  ASSUME SigningInv, NEW r \in Refs, WriteInputs(r)
  PROVE  SigningInv'
<1>1. Domains /\ RefOK(r) /\ made[r] = "written"
  BY DEF SigningInv, WriteInputs
<1>2. /\ spender' = [c \in OwnOuts |-> IF c \in Marked(r) THEN r ELSE spender[c]]
      /\ UNCHANGED <<ask, change, rows, prior, pending, kept, state, named, calls, overtaken>>
  BY DEF WriteInputs
<1>3. ASSUME NEW c \in Marked(r) PROVE spender[c] = Nil
  <2>1. CASE Taken(r) = {}
    BY <1>3, <2>1 DEF Marked, Taken
  <2>2. CASE Taken(r) # {}
    <3>1. c \in Before(Coins(r), Taken(r)) /\ c \in OwnOuts
      BY <1>3, <2>2 DEF Marked
    <3>2. PICK k \in DOMAIN Coins(r) : c = Coins(r)[k] /\ \A j \in 1..k : Coins(r)[j] \notin Taken(r)
      BY <3>1 DEF Before
    <3>3. AskOK(ask[r]) /\ ChangeOK(change[r])
      BY <1>1 DEF RefOK, Asked, Funded
    <3>4. k \in 1..k
      BY <3>3, ListedFacts DEF Coins
    <3>5. c \in KnownIns(r) /\ c \notin Taken(r)
      BY <3>1, <3>2, <3>4 DEF KnownIns, Range
    <3>6. QED
      BY <3>5 DEF Taken
  <2>3. QED
    BY <2>1, <2>2
<1>4. Domains' /\ \A q \in Refs \ {r} : Same(q)
  <2>1. Domains'
    BY <1>1, <1>2 DEF Domains, WriteInputs
  <2>2. ASSUME NEW q \in Refs \ {r} PROVE Same(q)
    <3>1. q # Nil /\ q # r
      BY SigningAssumption
    <3>2. \A c \in OwnOuts : spender'[c] = q <=> spender[c] = q
      BY <1>2, <1>3, <3>1
    <3>3. made'[q] = made[q] /\ listed'[q] = listed[q]
      BY <1>1, <3>1 DEF WriteInputs, Domains
    <3>4. QED
      BY <1>2, <3>2, <3>3 DEF Same
  <2>3. QED
    BY <2>1, <2>2
<1>5. /\ r \notin pending /\ ~(kept[r] # Nil) /\ AskOK(ask[r]) /\ ChangeOK(change[r]) /\ RowsOK(rows[r])
      /\ Standing(r) => \A c \in OwnOuts : spender[c] = r <=> c \in Range(change[r].coins)
  BY <1>1 DEF RefOK, TxBuilt, SpendsOf, Asked, InputsListed, Funded, Written
<1>6. CASE Taken(r) # {}
  <2>1. made'[r] = "refused"
    BY <1>1, <1>6 DEF WriteInputs, Domains
  <2>2. RefOK(r)'
    BY <1>2, <1>5, <2>1 DEF RefOK, Standing, Asked, Funded, Written, InputsListed, TxBuilt
  <2>3. Safe(r)
    BY <1>1 DEF Safe, TxBuilt
  <2>4. QED
    BY <1>2, <1>4, <1>5, <2>2, <2>3, RefStep DEF SigningInv
<1>7. CASE Taken(r) = {}
  <2>1. made'[r] = "listed" /\ listed'[r] = Listed(r) /\ Listed(r)' = Listed(r)
    BY <1>1, <1>2, <1>7 DEF WriteInputs, Domains, Listed, Coins
  <2>2. Range(Listed(r)) = Range(Coins(r)) \cup Range(change[r].coins)
    BY <1>5, ListedFacts
  <2>3. \A c \in OwnOuts : c \in Marked(r) <=> c \in Range(Coins(r))
    BY <1>7 DEF Marked, KnownIns
  <2>4. Standing(r) => \A c \in OwnOuts : spender'[c] = r <=> c \in Range(Listed(r))
    BY <1>2, <1>5, <2>2, <2>3
  <2>5. RefOK(r)'
    BY <1>2, <1>5, <2>1, <2>4 DEF RefOK, Standing, SpendsOf, Asked, Funded, Written, InputsListed, TxBuilt
  <2>6. Safe(r)
    BY <1>1 DEF Safe, TxBuilt
  <2>7. QED
    BY <1>2, <1>4, <1>5, <2>5, <2>6, RefStep DEF SigningInv
<1>8. QED
  BY <1>6, <1>7

-----------------------------------------------------------------------------
(* createAction and signAction in the Wallet.                              *)

\* A transaction as it is built has the positions of its rows.
LEMMA BuildFacts ==
  ASSUME NEW r, listed[r] = Listed(r), AskOK(ask[r]), ChangeOK(change[r])
  PROVE  TxOK(r, [ins |-> BuiltIns(r), outs |-> BuiltOuts(r)])
<1> DEFINE tx == [ins |-> BuiltIns(r), outs |-> BuiltOuts(r)]
<1>1. tx.ins = BuiltIns(r) /\ tx.outs = BuiltOuts(r) /\ {"ins", "outs"} \subseteq DOMAIN tx
  OBVIOUS
<1>2. DOMAIN BuiltIns(r) = DOMAIN listed[r]
  BY DEF BuiltIns
<1>3. ASSUME NEW v \in DOMAIN listed[r]
      PROVE  /\ {"coin", "unlock"} \subseteq DOMAIN BuiltIns(r)[v]
             /\ BuiltIns(r)[v].coin = listed[r][v]
             /\ UnlockOK(r, v, BuiltIns(r)[v].unlock)
  BY DEF BuiltIns, UnlockOK
<1> HIDE DEF tx
<1>4. TxOK(r, tx)
  BY <1>1, <1>2, <1>3 DEF TxOK
<1>5. QED
  BY <1>4 DEF tx

\* The wallet's own signatures.
LEMMA SignedFacts ==
  ASSUME NEW r, NEW tx, TxOK(r, tx)
  PROVE  TxOK(r, Signed(r, tx)) /\ OwnSigned(r, Signed(r, tx))
<1> DEFINE new == Signed(r, tx)
<1>1. /\ {"ins", "outs"} \subseteq DOMAIN new /\ new.outs = tx.outs
      /\ new.ins = [v \in DOMAIN tx.ins |-> IF v \in OwnVins(r) THEN [tx.ins[v] EXCEPT !.unlock = <<"wallet", listed[r][v]>>] ELSE tx.ins[v]]
  BY DEF Signed, TxOK
<1> HIDE DEF new
<1>2. DOMAIN new.ins = DOMAIN listed[r]
  BY <1>1 DEF TxOK
<1>3. ASSUME NEW v \in DOMAIN listed[r]
      PROVE  /\ {"coin", "unlock"} \subseteq DOMAIN new.ins[v]
             /\ new.ins[v].coin = listed[r][v]
             /\ v \in OwnVins(r) => new.ins[v].unlock = <<"wallet", listed[r][v]>>
             /\ v \notin OwnVins(r) => new.ins[v].unlock = tx.ins[v].unlock
  BY <1>1 DEF TxOK
<1>4. \A v \in DOMAIN listed[r] : UnlockOK(r, v, tx.ins[v].unlock)
  BY DEF TxOK
<1>5. \A v \in DOMAIN listed[r] : UnlockOK(r, v, new.ins[v].unlock)
  BY <1>3, <1>4 DEF UnlockOK
<1>6. TxOK(r, new)
  BY <1>1, <1>2, <1>3, <1>5 DEF TxOK
<1>7. OwnSigned(r, new)
  BY <1>3 DEF OwnSigned, OwnVins
<1>8. QED
  BY <1>6, <1>7 DEF new

\* The application's scripts reach none of the wallet's inputs.
LEMMA SpendsFacts ==
  ASSUME NEW r, NEW S, TxOK(r, prior[r]), AskOK(ask[r]), ChangeOK(change[r]), listed[r] = Listed(r)
  PROVE  TxOK(r, WithSpends(r, S)) /\ (OwnSigned(r, prior[r]) => OwnSigned(r, WithSpends(r, S)))
<1> DEFINE new == WithSpends(r, S)  tx == prior[r]
           Put(v) == v \in S /\ \A w \in S : w <= v => Spendable(r, w)
<1>1. /\ {"ins", "outs"} \subseteq DOMAIN new /\ new.outs = tx.outs
      /\ new.ins = [v \in DOMAIN tx.ins |-> IF Put(v) THEN [tx.ins[v] EXCEPT !.unlock = <<"spend", tx.ins[v].coin>>] ELSE tx.ins[v]]
  BY DEF WithSpends, TxOK
<1> HIDE DEF new
<1>2. DOMAIN new.ins = DOMAIN listed[r]
  BY <1>1 DEF TxOK
<1>3. ASSUME NEW v \in DOMAIN listed[r], Put(v) PROVE v \notin OwnVins(r)
  <2>1. PICK n \in Nat : DOMAIN listed[r] = 1..n
    BY ListedFacts
  <2>2. v \in Nat /\ Len(ask[r].ins) \in Nat
    BY <2>1, ListedFacts
  <2>3. Spendable(r, v)
    BY <1>3, <2>2
  <2>4. QED
    BY <2>2, <2>3 DEF Spendable, OwnVins
<1> HIDE DEF Put
<1>4. ASSUME NEW v \in DOMAIN listed[r]
      PROVE  /\ {"coin", "unlock"} \subseteq DOMAIN new.ins[v]
             /\ new.ins[v].coin = listed[r][v]
             /\ Put(v) => new.ins[v].unlock = <<"spend", listed[r][v]>>
             /\ ~Put(v) => new.ins[v].unlock = tx.ins[v].unlock
  BY <1>1 DEF TxOK
<1>5. \A v \in DOMAIN listed[r] : UnlockOK(r, v, tx.ins[v].unlock)
  BY DEF TxOK
<1>6. \A v \in DOMAIN listed[r] : UnlockOK(r, v, new.ins[v].unlock)
  BY <1>3, <1>4, <1>5 DEF UnlockOK
<1>7. TxOK(r, new)
  BY <1>1, <1>2, <1>4, <1>6 DEF TxOK
<1>8. OwnSigned(r, tx) => OwnSigned(r, new)
  BY <1>3, <1>4 DEF OwnSigned, OwnVins
<1>9. QED
  BY <1>7, <1>8 DEF new

LEMMA BuildStep ==
  ASSUME SigningInv, NEW r \in Refs, Build(r)
  PROVE  SigningInv'
<1> DEFINE tx == [ins |-> BuiltIns(r), outs |-> BuiltOuts(r)]
<1>1. Domains /\ RefOK(r) /\ made[r] = "listed" /\ pending \subseteq Refs
  BY DEF SigningInv, Build
<1>2. /\ UNCHANGED <<ask, change, spender, rows, listed, kept, state, overtaken>>
      /\ named' = IF ask[r].noSend /\ made'[r] # "refused" THEN [named EXCEPT ![r] = ChangeVouts(r)] ELSE named
  BY DEF Build
<1>3. \/ /\ made' = [made EXCEPT ![r] = "built"] /\ prior' = [prior EXCEPT ![r] = Signed(r, tx)] /\ UNCHANGED pending
         /\ calls' = [calls EXCEPT ![r] = Call(r, "process", Nil)]
      \/ /\ made' = [made EXCEPT ![r] = "built"] /\ prior' = [prior EXCEPT ![r] = tx] /\ pending' = pending \cup {r}
         /\ UNCHANGED calls
      \/ made' = [made EXCEPT ![r] = "refused"] /\ UNCHANGED <<prior, pending, calls>>
  BY DEF Build
<1>4. TxOK(r, tx) /\ listed[r] = Listed(r) /\ AskOK(ask[r]) /\ ChangeOK(change[r]) /\ RowsOK(rows[r])
  BY <1>1, BuildFacts DEF RefOK, Asked, Funded, Written, InputsListed
<1>5. TxOK(r, Signed(r, tx)) /\ OwnSigned(r, Signed(r, tx))
  BY <1>4, SignedFacts
<1> HIDE DEF tx
<1>6. r \notin pending /\ ~(kept[r] # Nil)
      /\ (Standing(r) => \A c \in OwnOuts : spender[c] = r <=> c \in Range(listed[r]))
  BY <1>1 DEF RefOK, SpendsOf, InputsListed, TxBuilt
<1>7. Domains' /\ pending' \subseteq Refs
  BY <1>1, <1>2, <1>3 DEF Domains, Callers
<1>8. ASSUME NEW q \in Refs \ {r} PROVE Same(q)
  BY <1>1, <1>2, <1>3, <1>8 DEF Domains, Same
<1>9. OwnVins(r)' = OwnVins(r) /\ BuiltOuts(r)' = BuiltOuts(r) /\ Listed(r)' = Listed(r)
      /\ ChangeVouts(r)' = ChangeVouts(r) /\ (Standing(r)' <=> Standing(r))
  BY <1>2 DEF OwnVins, BuiltOuts, RowAt, Listed, Coins, ChangeVouts, Standing
<1>10. made'[r] # "refused" /\ ask'[r].noSend => named'[r] = ChangeVouts(r)'
  BY <1>1, <1>2, <1>9 DEF Domains
<1>11. \/ made'[r] = "built" /\ prior'[r] = Signed(r, tx)
       \/ made'[r] = "built" /\ prior'[r] = tx
       \/ made'[r] = "refused" /\ r \notin pending'
  BY <1>1, <1>3, <1>6 DEF Domains
<1>12. made'[r] # "refused" => TxOK(r, prior[r])'
  BY <1>2, <1>4, <1>5, <1>9, <1>11 DEF TxOK, UnlockOK
<1>13. RefOK(r)'
  BY <1>2, <1>4, <1>6, <1>9, <1>10, <1>11, <1>12 DEF RefOK, SpendsOf, Asked, Funded, Written, InputsListed, TxBuilt
<1>14. Safe(r)
  BY <1>1 DEF Safe, TxBuilt
<1>15. ASSUME NEW x \in Callers, calls'[x] # calls[x] PROVE CallOK(x)'
  <2>1. calls' = [calls EXCEPT ![r] = Call(r, "process", Nil)] /\ made'[r] = "built" /\ prior'[r] = Signed(r, tx)
    BY <1>1, <1>3, <1>15 DEF Domains
  <2>2. x = r /\ calls'[x] = Call(r, "process", Nil)
    BY <1>1, <1>15, <2>1 DEF Domains
  <2>3. OwnSigned(r, prior[r])'
    BY <1>2, <1>5, <1>9, <2>1 DEF OwnSigned
  <2>4. QED
    BY <2>1, <2>2, <2>3 DEF CallOK, Call, Flying, TxBuilt
<1>16. QED
  BY <1>7, <1>8, <1>13, <1>14, <1>15, RefStep

-----------------------------------------------------------------------------
(* Calls of signAction and processAction.                                  *)

LEMMA BuiltRef ==
  ASSUME SigningInv, NEW r \in Refs, made[r] \in TxBuilt
  PROVE  TxOK(r, prior[r]) /\ AskOK(ask[r]) /\ ChangeOK(change[r]) /\ listed[r] = Listed(r)
BY DEF SigningInv, RefOK, TxBuilt, Asked, Funded, InputsListed

\* A call of signAction changes the transaction it shares with other calls.
LEMMA PriorStep ==
  ASSUME SigningInv, NEW s \in SignCalls, NEW r \in Refs, made[r] \in TxBuilt, NEW tx, NEW p \in {"process", "sign", "refused"},
         TxOK(r, tx), OwnSigned(r, prior[r]) => OwnSigned(r, tx), p = "process" => OwnSigned(r, tx),
         prior' = [prior EXCEPT ![r] = tx], DOMAIN calls' = Callers,
         \A x \in Callers \ {s} : calls'[x] = calls[x],
         {"ref", "pc", "raw"} \subseteq DOMAIN calls'[s], calls'[s].ref = r, calls'[s].pc = p,
         UNCHANGED <<ask, made, change, spender, rows, listed, pending, kept, state, named, overtaken>>
  PROVE  SigningInv'
<1>1. Domains /\ RefOK(r) /\ pending \subseteq Refs
  BY DEF SigningInv
<1>2. Domains' /\ prior'[r] = tx /\ \A q \in Refs \ {r} : Same(q)
  BY <1>1 DEF Domains, Same
<1>3. OwnVins(r)' = OwnVins(r) /\ BuiltOuts(r)' = BuiltOuts(r) /\ Listed(r)' = Listed(r)
      /\ ChangeVouts(r)' = ChangeVouts(r) /\ SpendsOf(r)' = SpendsOf(r) /\ (Standing(r)' <=> Standing(r))
  BY DEF OwnVins, BuiltOuts, RowAt, Listed, Coins, ChangeVouts, SpendsOf, Standing
<1>4. TxOK(r, prior[r])'
  BY <1>2, <1>3 DEF TxOK, UnlockOK
<1>5. /\ TxOK(r, kept[r])' <=> TxOK(r, kept[r])
      /\ OwnSigned(r, kept[r])' <=> OwnSigned(r, kept[r])
      /\ OwnSigned(r, tx) => OwnSigned(r, prior[r])'
  BY <1>2, <1>3 DEF TxOK, UnlockOK, OwnSigned
<1>6. RefOK(r)'
  BY <1>1, <1>3, <1>4, <1>5 DEF RefOK
<1>7. Safe(r)
  BY <1>5 DEF Safe
<1>8. CallOK(s)'
  BY <1>5 DEF CallOK, Flying
<1>9. QED
  BY <1>1, <1>2, <1>6, <1>7, <1>8, RefStep

LEMMA SignStep ==
  ASSUME SigningInv, NEW s \in SignCalls, Sign(s)
  PROVE  SigningInv'
<1>1. PICK r \in pending : \E S \in SUBSET DOMAIN prior[r].ins, p \in {"process", "sign", "refused"} :
        /\ prior' = [prior EXCEPT ![r] = WithSpends(r, S)]
        /\ calls' = [calls EXCEPT ![s] = Call(r, p, Nil)] /\ p # "process"
  BY DEF Sign
<1>2. PICK S \in SUBSET DOMAIN prior[r].ins, p \in {"process", "sign", "refused"} :
        /\ prior' = [prior EXCEPT ![r] = WithSpends(r, S)]
        /\ calls' = [calls EXCEPT ![s] = Call(r, p, Nil)] /\ p # "process"
  BY <1>1
<1>3. DOMAIN calls = Callers /\ s \in Callers /\ r \in Refs /\ made[r] \in TxBuilt
  BY DEF SigningInv, Domains, Callers, RefOK
<1>4. /\ UNCHANGED <<ask, made, change, spender, rows, listed, pending, kept, state, named, overtaken>>
      /\ TxOK(r, WithSpends(r, S)) /\ (OwnSigned(r, prior[r]) => OwnSigned(r, WithSpends(r, S)))
  BY <1>3, BuiltRef, SpendsFacts DEF Sign
<1>5. calls'[s] = Call(r, p, Nil) /\ DOMAIN calls' = Callers
      /\ \A x \in Callers \ {s} : calls'[x] = calls[x]
  BY <1>2, <1>3
<1>6. {"ref", "pc", "raw"} \subseteq DOMAIN calls'[s] /\ calls'[s].ref = r /\ calls'[s].pc = p
  BY <1>5 DEF Call
<1>7. QED
  BY <1>2, <1>3, <1>4, <1>5, <1>6, PriorStep

LEMMA SignOwnStep ==
  ASSUME SigningInv, NEW s \in SignCalls, SignOwn(s)
  PROVE  SigningInv'
<1>1. s \in Callers /\ DOMAIN calls = Callers /\ CallOK(s)
  BY DEF SigningInv, Domains, Callers
<1>2. PICK r \in Refs : r = calls[s].ref /\ made[r] \in TxBuilt
  BY <1>1 DEF CallOK, SignOwn
<1>3. /\ UNCHANGED <<ask, made, change, spender, rows, listed, pending, kept, state, named, overtaken>>
      /\ prior' = [prior EXCEPT ![r] = Signed(r, prior[r])]
      /\ calls' = [calls EXCEPT ![s].pc = "process"]
  BY <1>2 DEF SignOwn
<1>4. TxOK(r, Signed(r, prior[r])) /\ OwnSigned(r, Signed(r, prior[r]))
  BY <1>2, BuiltRef, SignedFacts
<1>5. /\ {"ref", "pc", "raw"} \subseteq DOMAIN calls'[s] /\ calls'[s].ref = r /\ calls'[s].pc = "process"
      /\ DOMAIN calls' = Callers /\ \A x \in Callers \ {s} : calls'[x] = calls[x]
  BY <1>1, <1>2, <1>3 DEF CallOK
<1>6. QED
  BY <1>2, <1>3, <1>4, <1>5, PriorStep

\* A step of processAction, once its call is fine.
LEMMA ProcessStep ==
  ASSUME SigningInv, NEW x \in Callers, NEW r \in Refs, made[r] \in TxBuilt, r = calls[x].ref, NEW y, NEW z,
         calls' = [calls EXCEPT ![x] = z], CallOK(x)',
         \/ UNCHANGED <<kept, state>>
         \/ /\ kept' = [kept EXCEPT ![r] = y] /\ UNCHANGED state
            /\ TxOK(r, y) /\ OwnSigned(r, y)
         \/ /\ state' = [state EXCEPT ![r] = y] /\ UNCHANGED kept
            /\ state[r] # "failed" \/ r \in overtaken
            /\ y # "failed" \/ r \in overtaken,
         UNCHANGED <<ask, made, change, spender, rows, listed, prior, pending, named, overtaken>>
  PROVE  SigningInv'
<1>1. Domains /\ RefOK(r) /\ pending \subseteq Refs
  BY DEF SigningInv
<1>2. Domains' /\ \A q \in Refs \ {r} : Same(q)
  BY <1>1 DEF Domains, Same
<1>3. OwnVins(r)' = OwnVins(r) /\ BuiltOuts(r)' = BuiltOuts(r) /\ Listed(r)' = Listed(r)
      /\ ChangeVouts(r)' = ChangeVouts(r) /\ SpendsOf(r)' = SpendsOf(r)
  BY DEF OwnVins, BuiltOuts, RowAt, Listed, Coins, ChangeVouts, SpendsOf
<1>4. TxOK(r, prior[r])'
  <2>1. TxOK(r, prior[r])
    BY BuiltRef
  <2>2. QED
    BY <1>3, <2>1 DEF TxOK, UnlockOK
<1>5. kept'[r] # Nil => TxOK(r, kept[r])' /\ OwnSigned(r, kept[r])'
  <2>1. kept'[r] # Nil => TxOK(r, kept'[r]) /\ OwnSigned(r, kept'[r])
    BY <1>1 DEF RefOK, Domains
  <2>2. QED
    BY <1>3, <2>1 DEF TxOK, UnlockOK, OwnSigned
<1>6. Standing(r)' => Standing(r)
  BY <1>1 DEF Standing, Domains
<1>7. RefOK(r)'
  BY <1>1, <1>3, <1>4, <1>5, <1>6 DEF RefOK
<1>8. Safe(r)
  BY <1>1, <1>3 DEF Safe, OwnSigned, Domains
<1>9. ASSUME NEW u \in Callers PROVE calls'[u] = calls[u] \/ CallOK(u)'
  BY <1>1 DEF Domains
<1>10. QED
  BY <1>1, <1>2, <1>7, <1>8, <1>9, RefStep

LEMMA CheckStep ==
  ASSUME SigningInv, NEW x \in Callers, Check(x)
  PROVE  SigningInv'
<1>1. DOMAIN calls = Callers /\ CallOK(x) /\ calls[x].pc = "process"
  BY DEF SigningInv, Domains, Check
<1>2. PICK r \in Refs : r = calls[x].ref /\ made[r] \in TxBuilt /\ OwnSigned(r, prior[r])
  BY <1>1 DEF CallOK
<1>3. PICK p \in {"checked", "refused"} :
        calls' = [calls EXCEPT ![x] = Call(r, p, prior[r])] /\ (p = "checked" => state[r] # "failed")
  BY <1>2 DEF Check, Processable
<1>4. UNCHANGED <<ask, made, change, spender, rows, listed, prior, pending, kept, state, named, overtaken>>
  BY DEF Check
<1>5. calls'[x] = Call(r, p, prior[r])
  BY <1>1, <1>3
<1>6. TxOK(r, prior[r])' /\ OwnSigned(r, prior[r])'
  <2>1. OwnVins(r)' = OwnVins(r) /\ BuiltOuts(r)' = BuiltOuts(r)
    BY <1>4 DEF OwnVins, BuiltOuts, RowAt
  <2>2. QED
    BY <1>2, <1>4, <2>1, BuiltRef DEF TxOK, UnlockOK, OwnSigned
<1>7. CallOK(x)'
  BY <1>2, <1>3, <1>4, <1>5, <1>6 DEF CallOK, Call, Flying
<1>8. QED
  BY <1>2, <1>3, <1>4, <1>7, ProcessStep

LEMMA RecordStep ==
  ASSUME SigningInv, NEW x \in Callers, Record(x)
  PROVE  SigningInv'
<1>1. DOMAIN calls = Callers /\ CallOK(x) /\ calls[x].pc = "checked"
  BY DEF SigningInv, Domains, Record
<1>2. PICK r \in Refs : r = calls[x].ref /\ made[r] \in TxBuilt
  BY <1>1 DEF CallOK, Flying
<1>3. /\ kept' = [kept EXCEPT ![r] = calls[x].raw] /\ UNCHANGED state
      /\ calls' = [calls EXCEPT ![x].pc = "recorded"]
      /\ UNCHANGED <<ask, made, change, spender, rows, listed, prior, pending, named, overtaken>>
  BY <1>2 DEF Record
<1>4. calls' = [calls EXCEPT ![x] = [calls[x] EXCEPT !.pc = "recorded"]]
  BY <1>3
<1>5. TxOK(r, calls[x].raw) /\ OwnSigned(r, calls[x].raw) /\ (state[r] # "failed" \/ r \in overtaken)
  BY <1>1, <1>2 DEF CallOK, Flying
<1>6. /\ {"ref", "pc", "raw"} \subseteq DOMAIN calls'[x]
      /\ calls'[x].ref = r /\ calls'[x].pc = "recorded"
  BY <1>1, <1>2, <1>3 DEF CallOK
<1>7. CallOK(x)'
  BY <1>2, <1>3, <1>5, <1>6 DEF CallOK, Flying
<1>8. QED
  BY <1>2, <1>3, <1>4, <1>5, <1>7, ProcessStep

\* The two writes of the status.
LEMMA WriteStep ==
  ASSUME SigningInv, NEW x \in Callers, Commit(x) \/ Share(x)
  PROVE  SigningInv'
<1>1. DOMAIN calls = Callers /\ CallOK(x) /\ calls[x].pc \in Flying
  BY DEF SigningInv, Domains, Commit, Share, Flying
<1>2. PICK r \in Refs : r = calls[x].ref /\ made[r] \in TxBuilt
  BY <1>1 DEF CallOK
<1>3. state[r] # "failed" \/ r \in overtaken
  BY <1>1, <1>2 DEF CallOK
<1>4. PICK y \in {"nosend", "unprocessed", "sending", state[r]}, p \in {"done", "committed"} :
        /\ state' = [state EXCEPT ![r] = y] /\ UNCHANGED kept
        /\ calls' = [calls EXCEPT ![x].pc = p]
        /\ UNCHANGED <<ask, made, change, spender, rows, listed, prior, pending, named, overtaken>>
  <2>1. CASE Commit(x)
    BY <1>2, <2>1 DEF Commit
  <2>2. CASE Share(x)
    BY <1>2, <2>2 DEF Share
  <2>3. QED
    BY <2>1, <2>2
<1>5. y # "failed" \/ r \in overtaken
  BY <1>3, <1>4
<1>6. calls' = [calls EXCEPT ![x] = [calls[x] EXCEPT !.pc = p]]
  BY <1>4
<1>7. /\ {"ref", "pc", "raw"} \subseteq DOMAIN calls'[x]
      /\ calls'[x].ref = r /\ calls'[x].pc = p
  BY <1>1, <1>2, <1>4 DEF CallOK
<1>8. state'[r] # "failed" \/ r \in overtaken'
  BY <1>4, <1>5 DEF SigningInv, Domains
<1>9. CallOK(x)'
  BY <1>2, <1>4, <1>7, <1>8 DEF CallOK, Flying
<1>10. QED
  BY <1>2, <1>3, <1>4, <1>5, <1>6, <1>9, ProcessStep

LEMMA GiveUpStep ==
  ASSUME SigningInv, NEW r \in Refs, GiveUp(r)
  PROVE  SigningInv'
<1>1. Domains /\ RefOK(r) /\ pending \subseteq Refs
  BY DEF SigningInv
<1>2. /\ state' = [state EXCEPT ![r] = "failed"]
      /\ spender' = [c \in OwnOuts |-> IF spender[c] = r THEN Nil ELSE spender[c]]
      /\ overtaken' = IF InFlight(r) THEN overtaken \cup {r} ELSE overtaken
      /\ UNCHANGED <<ask, made, change, rows, listed, prior, pending, kept, named, calls>>
  BY DEF GiveUp
<1>3. Domains'
  BY <1>1, <1>2 DEF Domains
<1>4. ASSUME NEW q \in Refs \ {r} PROVE Same(q)
  <2>1. q # Nil /\ q # r /\ state'[q] = state[q] /\ (q \in overtaken' <=> q \in overtaken)
    BY <1>1, <1>2, SigningAssumption DEF Domains
  <2>2. \A c \in OwnOuts : spender'[c] = q <=> spender[c] = q
    BY <1>2, <2>1
  <2>3. QED
    BY <1>2, <2>1, <2>2 DEF Same
<1>5. state'[r] = "failed" /\ ~Standing(r)'
  BY <1>1, <1>2 DEF Domains, Standing
<1>6. OwnVins(r)' = OwnVins(r) /\ BuiltOuts(r)' = BuiltOuts(r) /\ Listed(r)' = Listed(r)
      /\ ChangeVouts(r)' = ChangeVouts(r)
  BY <1>2 DEF OwnVins, BuiltOuts, RowAt, Listed, Coins, ChangeVouts
<1>7. /\ TxOK(r, prior[r])' <=> TxOK(r, prior[r])
      /\ TxOK(r, kept[r])' <=> TxOK(r, kept[r])
      /\ OwnSigned(r, prior[r])' <=> OwnSigned(r, prior[r])
      /\ OwnSigned(r, kept[r])' <=> OwnSigned(r, kept[r])
  BY <1>2, <1>6 DEF TxOK, UnlockOK, OwnSigned
<1>8. RefOK(r)'
  BY <1>1, <1>2, <1>5, <1>6, <1>7 DEF RefOK
<1>9. Safe(r)
  BY <1>2, <1>7 DEF Safe
<1>10. \A x \in Callers : calls'[x] = calls[x]
  BY <1>2
<1>11. QED
  BY <1>1, <1>2, <1>3, <1>4, <1>8, <1>9, <1>10, RefStep

LEMMA StartAgainStep ==
  ASSUME SigningInv, StartAgain
  PROVE  SigningInv'
<1>1. /\ pending' = {}
      /\ made' = [r \in Refs |-> IF made[r] \in {"no", "built"} THEN made[r] ELSE "refused"]
      /\ calls' = [x \in Callers |-> IF calls[x].pc \in Ended THEN calls[x] ELSE Call(calls[x].ref, "refused", Nil)]
      /\ UNCHANGED <<ask, change, spender, rows, listed, prior, kept, state, named, overtaken>>
  BY DEF StartAgain
<1>2. Domains' /\ pending' \subseteq Refs
  BY <1>1 DEF SigningInv, Domains
<1>3. ASSUME NEW r \in Refs PROVE RefOK(r)'
  <2>1. RefOK(r)
    BY DEF SigningInv
  <2>2. OwnVins(r)' = OwnVins(r) /\ BuiltOuts(r)' = BuiltOuts(r) /\ Listed(r)' = Listed(r)
        /\ ChangeVouts(r)' = ChangeVouts(r) /\ (Standing(r)' <=> Standing(r))
    BY <1>1 DEF OwnVins, BuiltOuts, RowAt, Listed, Coins, ChangeVouts, Standing
  <2>3. /\ TxOK(r, kept[r])' <=> TxOK(r, kept[r])
        /\ TxOK(r, prior[r])' <=> TxOK(r, prior[r])
        /\ OwnSigned(r, kept[r])' <=> OwnSigned(r, kept[r])
    BY <1>1, <2>2 DEF TxOK, UnlockOK, OwnSigned
  <2>4. CASE made[r] \in {"no", "built"}
    <3>1. made'[r] = made[r] /\ SpendsOf(r)' = SpendsOf(r)
      BY <1>1, <2>4 DEF SpendsOf
    <3>2. QED
      BY <1>1, <2>1, <2>2, <2>3, <2>4, <3>1 DEF RefOK
  <2>5. CASE made[r] \notin {"no", "built"}
    <3>1. made'[r] = "refused" /\ ~(kept[r] # Nil)
      BY <1>1, <2>1, <2>5 DEF RefOK, TxBuilt
    <3>2. QED
      BY <1>1, <3>1 DEF RefOK, Asked, Funded, Written, InputsListed, TxBuilt
  <2>6. QED
    BY <2>4, <2>5
<1>4. ASSUME NEW x \in Callers PROVE CallOK(x)'
  <2>1. CallOK(x)
    BY DEF SigningInv
  <2>2. {"ref", "pc", "raw"} \subseteq DOMAIN calls'[x] /\ calls'[x].pc \in Ended
    BY <1>1, <2>1 DEF CallOK, Call, Ended
  <2>3. QED
    BY <2>2 DEF CallOK, Ended, Flying
<1>5. QED
  BY <1>2, <1>3, <1>4 DEF SigningInv

LEMMA InitSigningInv == SgInit => SigningInv
<1> SUFFICES ASSUME SgInit PROVE SigningInv
  OBVIOUS
<1>1. Domains /\ pending = {}
  BY DEF SgInit, Domains
<1>2. ASSUME NEW r \in Refs PROVE RefOK(r)
  <2>1. made[r] = "no" /\ kept[r] = Nil /\ \A c \in OwnOuts : spender[c] # r
    BY SigningAssumption DEF SgInit
  <2>2. QED
    BY <1>1, <2>1 DEF RefOK, SpendsOf, Asked, Funded, Written, InputsListed, TxBuilt
<1>3. ASSUME NEW x \in Callers PROVE CallOK(x)
  BY DEF SgInit, CallOK, NoCall, Call, Flying
<1>4. QED
  BY <1>1, <1>2, <1>3 DEF SigningInv

LEMMA NextSigningInv == SigningInv /\ [SgNext]_sgVars => SigningInv'
<1> SUFFICES ASSUME SigningInv, [SgNext]_sgVars PROVE SigningInv'
  OBVIOUS
<1>1. ASSUME NEW r \in Refs, \/ Validate(r) \/ Fund(r) \/ Starve(r) \/ WriteOutputs(r) \/ WriteInputs(r)
                             \/ Build(r) \/ GiveUp(r)
      PROVE  SigningInv'
  BY <1>1, ValidateStep, FundStep, StarveStep, WriteOutputsStep, WriteInputsStep, BuildStep, GiveUpStep
<1>2. ASSUME NEW s \in SignCalls, Sign(s) \/ SignOwn(s) PROVE SigningInv'
  BY <1>2, SignStep, SignOwnStep
<1>3. ASSUME NEW x \in Callers, Check(x) \/ Record(x) \/ Commit(x) \/ Share(x) PROVE SigningInv'
  BY <1>3, CheckStep, RecordStep, WriteStep
<1>4. CASE StartAgain
  BY <1>4, StartAgainStep
<1>5. CASE UNCHANGED sgVars
  <2>1. Domains' /\ pending' \subseteq Refs
    BY <1>5 DEF SigningInv, Domains, sgVars
  <2>2. ASSUME NEW r \in Refs PROVE Same(r)
    BY <1>5 DEF Same, sgVars
  <2>3. \A r \in Refs : RefOK(r)' /\ Safe(r)
    BY <2>2, SameKeeps, SameIsSafe DEF SigningInv
  <2>4. \A x \in Callers : calls'[x] = calls[x]
    BY <1>5 DEF sgVars
  <2>5. \A x \in Callers : CallOK(x)'
    BY <2>3, <2>4, CallKeeps DEF SigningInv
  <2>6. QED
    BY <2>1, <2>3, <2>5 DEF SigningInv
<1>6. QED
  BY <1>1, <1>2, <1>3, <1>4, <1>5 DEF SgNext

LEMMA SigningImplies == SigningInv => PositionsAgree
<1> SUFFICES ASSUME SigningInv, NEW r \in Refs, kept[r] # Nil PROVE Agree(r)
  BY DEF PositionsAgree
<1> DEFINE tx == kept[r]  coins == [v \in DOMAIN tx.ins |-> tx.ins[v].coin]
<1>1. RefOK(r) /\ made[r] = "built" /\ TxOK(r, tx) /\ OwnSigned(r, tx)
  BY DEF SigningInv, RefOK, TxBuilt
<1>2. AskOK(ask[r]) /\ ChangeOK(change[r]) /\ listed[r] = Listed(r) /\ RowsOK(rows[r])
  BY <1>1 DEF RefOK, Asked, Funded, Written, InputsListed
<1>3. DOMAIN coins = DOMAIN listed[r] /\ \A v \in DOMAIN listed[r] : coins[v] = listed[r][v]
  BY <1>1 DEF TxOK
<1>4. Standing(r) => Range(coins) \cap OwnOuts = {c \in OwnOuts : spender[c] = r}
  <2>1. Range(coins) = Range(listed[r])
    BY <1>3 DEF Range
  <2>2. Standing(r) => \A c \in OwnOuts : spender[c] = r <=> c \in Range(listed[r])
    BY <1>1 DEF RefOK, SpendsOf, InputsListed
  <2> HIDE DEF coins
  <2>3. QED
    BY <2>1, <2>2
<1>5. ASSUME NEW v \in DOMAIN tx.ins
      PROVE  /\ tx.ins[v].unlock # <<"none", Nil>> => tx.ins[v].unlock[2] = coins[v]
             /\ coins[v] \in ChangeOuts <=> tx.ins[v].unlock[1] = "wallet"
  <2>1. v \in DOMAIN listed[r] /\ coins[v] = listed[r][v] /\ UnlockOK(r, v, tx.ins[v].unlock)
    BY <1>1, <1>3 DEF TxOK
  <2>2. PICK n \in Nat : DOMAIN listed[r] = 1..n
    BY <1>2, ListedFacts
  <2>3. v \in Nat /\ Len(ask[r].ins) \in Nat
    BY <1>2, <2>1, <2>2, ListedFacts
  <2> HIDE DEF coins
  <2>4. CASE v \in OwnVins(r)
    <3>1. listed[r][v] \in ChangeOuts
      BY <1>2, <2>1, <2>3, <2>4, ListedFacts DEF OwnVins
    <3>2. tx.ins[v].unlock = <<"wallet", listed[r][v]>>
      BY <1>1, <2>4 DEF OwnSigned
    <3>3. QED
      BY <2>1, <3>1, <3>2
  <2>5. CASE v \notin OwnVins(r)
    <3>1. listed[r][v] \notin ChangeOuts
      BY <1>2, <2>1, <2>3, <2>5, ListedFacts DEF OwnVins
    <3>2. \/ tx.ins[v].unlock = <<"none", Nil>>
          \/ tx.ins[v].unlock[1] \in {"given", "spend"} /\ tx.ins[v].unlock[2] = listed[r][v]
      BY <2>1, <2>5 DEF UnlockOK
    <3>3. QED
      BY <2>1, <3>1, <3>2
  <2>6. QED
    BY <2>4, <2>5
<1>6. /\ tx.outs = BuiltOuts(r)
      /\ ask[r].noSend => named[r] = ChangeVouts(r)
  BY <1>1 DEF TxOK, RefOK, TxBuilt
<1>7. /\ \A k \in DOMAIN rows[r] : tx.outs[rows[r][k].vout] = rows[r][k].script
      /\ rows[r] # <<>> => Len(tx.outs) = Len(rows[r])
      /\ ask[r].noSend => {tx.outs[v] : v \in named[r]} = {o \in Range(tx.outs) : o[1] = "change"}
  BY <1>2, <1>6, BuiltFacts
<1>8. QED
  BY <1>4, <1>5, <1>7 DEF Agree, Standing

\* createAction stores its outputs in an order it draws, the wallet builds the
\* transaction from the rows, and calls of signAction fill it in: what processAction
\* keeps has every script where its row says, is signed with the key of each input,
\* names its own noSendChange, and spends what is reserved for it, unless it was
\* given up: before processAction, or in between its look at the status and its last
\* write, which puts back a status over 'failed'.
THEOREM SignedAsStored == SgSpec => []PositionsAgree
<1>1. SigningInv => PositionsAgree
  BY SigningImplies
<1>2. QED
  BY <1>1, InitSigningInv, NextSigningInv, PTL DEF SgSpec

==============================================================================
