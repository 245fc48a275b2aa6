------------------------------ MODULE UmpWallet ------------------------------
(***************************************************************************)
(* CWIStyleWalletManager: the user's keys in a UMP token on the chain, any *)
(* two of password, presentation key and recovery key opening it, several  *)
(* devices of one user, profiles, snapshots and restarts.                  *)
(*                                                                         *)
(* Cryptography is symbolic: a password key is the password and the salt   *)
(* it was derived with, and a token opens to who holds two of its keys.    *)
(* Keys, salts and roots are numbers drawn from `fresh`.                   *)
(***************************************************************************)
EXTENDS Naturals, Sequences, FiniteSets

CONSTANTS
  Devices,     \* managers, each on a device of the same user
  Slots,       \* operations one manager runs at the same time
  Passwords,
  PresKeys,    \* presentation keys
  Profiles,    \* profiles the user adds
  Default,     \* DEFAULT_PROFILE_ID
  None,
  MaxOps,      \* bound: operations started
  MaxFaults    \* bound: failed calls, restarts and logouts

ASSUME UmpAssumption ==
  /\ Default \notin Profiles /\ None \notin Profiles \cup {Default}
  /\ {MaxOps, MaxFaults} \subseteq Nat

VARIABLES
  dev,      \* each manager's fields
  op,       \* operations under way, by device and slot
  tokens,   \* every token published; its place is its outpoint
  unspent,     \* outpoints not spent
  snap,     \* the snapshot each device has stored
  fresh, ops, faults,
  saved,    \* history: recovery keys the user has saved
  typed,    \* history: keys given to each manager, or to an operation it still runs
  deleted,  \* history: profiles the user asked to delete
  crossed   \* history: see Crosses

chain == <<tokens, unspent>>
counts == <<fresh, ops, faults>>
history == <<saved, typed, deleted>>
umpVars == <<dev, op, chain, snap, counts, history, crossed>>

Modes == {"presentation-key-and-password", "presentation-key-and-recovery-key", "recovery-key-and-password"}

\* destroy: the state of a manager that was just built, too.
Blank == [auth |-> FALSE, mode |-> "presentation-key-and-password", flow |-> "new-user",
          token |-> None, pres |-> None, rec |-> None, root |-> None,
          profiles |-> {}, active |-> Default, wallet |-> None]

\* An operation keeps what it has read: factors, then the token to publish, the
\* outpoint that one is to spend and the profile to come back to.
NoOp == [pc |-> "idle", kind |-> "none", salt |-> 0, key |-> None, pres |-> None, rec |-> None,
         token |-> None, old |-> 0, from |-> Default]

PasswordKey(w, salt) == [password |-> w, salt |-> salt]
NewId == fresh + 1
Draw(n) == fresh' = fresh + n
Ask == ops < MaxOps /\ ops' = ops + 1
Fails == faults < MaxFaults /\ faults' = faults + 1

Set(d, r) == dev' = [dev EXCEPT ![d] = r]
Become(d, s, r) == op' = [op EXCEPT ![d][s] = r]
To(d, s, pc) == op' = [op EXCEPT ![d][s].pc = pc]
At(d, s, pc) == op[d][s].pc = pc
End(d, s) == Become(d, s, NoOp)
Give(d, k) == typed' = [typed EXCEPT ![d] = @ \cup {k}]

-----------------------------------------------------------------------------
(* Authentication.                                                         *)

\* setupRootInfrastructure: the root keys and the profiles of the token.
Setup(r, root, token) ==
  [r EXCEPT !.token = token, !.root = root, !.profiles = token.profiles, !.auth = TRUE]

\* switchProfile, up to the await of walletBuilder.
CanSwitch(r, p) == r.auth /\ r.root # None /\ p \in r.profiles \cup {Default}
Switched(r, p) == [r EXCEPT !.active = p]
BuildOp(p) == [NoOp EXCEPT !.pc = "build", !.from = p]

\* The application sets the public field authenticationMode, before the first key.
SetMode(d, m) ==
  /\ dev[d] = Blank /\ m # Blank.mode
  /\ Set(d, [dev[d] EXCEPT !.mode = m])
  /\ UNCHANGED <<op, chain, snap, counts, history>>

\* The overlay's answer: any token not spent that has the hash.
ByPresentationKey(k) == {i \in unspent : tokens[i].pres = k}
ByRecoveryKey(k) == {i \in unspent : tokens[i].rec = k}

\* providePresentationKey: a token tells an existing user.
ProvidePresentationKey(d, k) ==
  /\ ~dev[d].auth /\ dev[d].mode # "recovery-key-and-password"
  /\ LET found == ByPresentationKey(k) IN
       \/ /\ found = {}
          /\ Set(d, [dev[d] EXCEPT !.flow = "new-user", !.pres = k])
       \/ \E i \in found :
            Set(d, [dev[d] EXCEPT !.flow = "existing-user", !.pres = k, !.token = tokens[i]])
  /\ Give(d, k)
  /\ Ask
  /\ UNCHANGED <<op, chain, snap, fresh, faults, saved, deleted>>

\* provideRecoveryKey with a password to follow.
FindByRecoveryKey(d, k) ==
  /\ ~dev[d].auth /\ dev[d].mode = "recovery-key-and-password"
  /\ \E i \in ByRecoveryKey(k) :
       Set(d, [dev[d] EXCEPT !.flow = "existing-user", !.rec = k, !.token = tokens[i]])
  /\ Give(d, k)
  /\ Ask
  /\ UNCHANGED <<op, chain, snap, fresh, faults, saved, deleted>>

\* presentationRecoveryPrimary decrypts with these two keys only.
RecoveryOpens(r, k) == r.pres # None /\ r.token # None /\ r.token.pres = r.pres /\ r.token.rec = k

\* provideRecoveryKey after the presentation key.
ProvideRecoveryKey(d, s, k) ==
  /\ At(d, s, "idle") /\ ~dev[d].auth
  /\ dev[d].flow = "existing-user" /\ dev[d].mode = "presentation-key-and-recovery-key"
  /\ RecoveryOpens(dev[d], k)
  /\ Set(d, Setup(dev[d], dev[d].token.root, dev[d].token))
  /\ Become(d, s, BuildOp(dev[d].active))
  /\ Give(d, k)
  /\ Ask
  /\ UNCHANGED <<chain, snap, fresh, faults, saved, deleted>>

\* handleExistingUserPassword: the password and the key of the mode decrypt.
PasswordOpens(r, w) ==
  /\ r.token # None /\ r.token.key = PasswordKey(w, r.token.salt)
  /\ \/ r.mode = "presentation-key-and-password" /\ r.pres = r.token.pres
     \/ r.mode = "recovery-key-and-password" /\ r.rec = r.token.rec

ProvidePassword(d, s, w) ==
  /\ At(d, s, "idle") /\ ~dev[d].auth /\ dev[d].flow = "existing-user"
  /\ PasswordOpens(dev[d], w)
  /\ Set(d, Setup(dev[d], dev[d].token.root, dev[d].token))
  /\ Become(d, s, BuildOp(dev[d].active))
  /\ Give(d, w)
  /\ Ask
  /\ UNCHANGED <<chain, snap, fresh, faults, saved, deleted>>

\* handleNewUserPassword: a recovery key goes to recoveryKeySaver first.
Register(d, s, w) ==
  /\ At(d, s, "idle") /\ ~dev[d].auth /\ dev[d].flow = "new-user"
  /\ dev[d].mode = "presentation-key-and-password" /\ dev[d].pres # None
  /\ Draw(1)
  /\ Become(d, s, [NoOp EXCEPT !.pc = "save", !.kind = "register", !.key = w, !.rec = NewId])
  /\ Give(d, w)
  /\ Ask
  /\ UNCHANGED <<dev, chain, snap, faults, saved, deleted>>

\* recoveryKeySaver ends; the new keys make the token and the default wallet.
RegisterSaved(d, s) ==
  LET o == op[d][s]
      token == [salt |-> NewId, key |-> PasswordKey(o.key, NewId), pres |-> dev[d].pres,
                rec |-> o.rec, root |-> fresh + 2, profiles |-> {}, at |-> 0]
  IN
  /\ At(d, s, "save") /\ o.kind = "register" /\ dev[d].pres # None
  /\ Draw(2)
  /\ Set(d, Switched(Setup(dev[d], token.root, token), Default))
  /\ Become(d, s, [NoOp EXCEPT !.pc = "registerBuild", !.kind = "register", !.token = token])
  /\ saved' = saved \cup {o.rec}
  /\ UNCHANGED <<chain, snap, ops, faults, typed, deleted>>

\* The wallet is built and newWalletFunder has paid for the token.
RegisterFunded(d, s) ==
  /\ At(d, s, "registerBuild")
  /\ Set(d, [dev[d] EXCEPT !.wallet = Default])
  /\ To(d, s, "registerSend")
  /\ UNCHANGED <<chain, snap, counts, history>>

Publish(t) == tokens' = Append(tokens, [t EXCEPT !.at = Len(tokens) + 1])

\* buildAndSend publishes the token, and its outpoint is set on that token but
\* for an error after signAction.
RegisterSend(d, s) ==
  LET new == op[d][s].token IN
  /\ At(d, s, "registerSend")
  /\ Publish(new)
  /\ unspent' = unspent \cup {Len(tokens) + 1}
  /\ \/ Set(d, [dev[d] EXCEPT !.token = IF @ = new THEN tokens'[Len(tokens) + 1] ELSE @]) /\ UNCHANGED faults
     \/ Fails /\ UNCHANGED dev
  /\ End(d, s)
  /\ UNCHANGED <<snap, fresh, ops, history>>

\* switchProfile, on the user's wish or after a login: walletBuilder ends.
SwitchProfile(d, s, p) ==
  /\ At(d, s, "idle") /\ CanSwitch(dev[d], p) /\ dev[d].active # p
  /\ Set(d, Switched(dev[d], p))
  /\ Become(d, s, BuildOp(p))
  /\ Ask
  /\ UNCHANGED <<chain, snap, fresh, faults, history>>

Built(d, s) ==
  /\ At(d, s, "build")
  /\ Set(d, [dev[d] EXCEPT !.wallet = op[d][s].from])
  /\ IF op[d][s].kind = "delete" THEN To(d, s, "gather") ELSE End(d, s)
  /\ UNCHANGED <<chain, snap, counts, history>>

-----------------------------------------------------------------------------
(* changePassword, changeRecoveryKey, changePresentationKey, addProfile,   *)
(* deleteProfile and updateAuthFactors.                                    *)

Ready(d, s) == At(d, s, "idle") /\ dev[d].auth /\ dev[d].token # None /\ dev[d].root # None

ChangePassword(d, s, w) ==
  /\ Ready(d, s) /\ Draw(1)
  /\ Become(d, s, [NoOp EXCEPT !.pc = "gather", !.kind = "password",
                               !.salt = NewId, !.key = PasswordKey(w, NewId)])
  /\ Give(d, w)
  /\ Ask
  /\ UNCHANGED <<dev, chain, snap, faults, saved, deleted>>

ChangePresentationKey(d, s, k) ==
  /\ Ready(d, s)
  /\ Become(d, s, [NoOp EXCEPT !.pc = "gather", !.kind = "presentation", !.pres = k])
  /\ Give(d, k)
  /\ Ask
  /\ UNCHANGED <<dev, chain, snap, fresh, faults, saved, deleted>>

ChangeRecoveryKey(d, s) ==
  /\ Ready(d, s) /\ Draw(1)
  /\ Become(d, s, [NoOp EXCEPT !.pc = "gather", !.kind = "recovery", !.rec = NewId])
  /\ Ask
  /\ UNCHANGED <<dev, chain, snap, faults, history>>

AddProfile(d, s, p) ==
  /\ Ready(d, s) /\ p \notin dev[d].profiles
  /\ Set(d, [dev[d] EXCEPT !.profiles = @ \cup {p}])
  /\ Become(d, s, [NoOp EXCEPT !.pc = "gather", !.kind = "add", !.salt = dev[d].token.salt])
  /\ Ask
  /\ UNCHANGED <<chain, snap, fresh, faults, history>>

\* A deleted profile that was active makes way for the default one.
DeleteProfile(d, s, p) ==
  LET r == [dev[d] EXCEPT !.profiles = @ \ {p}]
      o == [NoOp EXCEPT !.kind = "delete", !.salt = dev[d].token.salt]
  IN
  /\ Ready(d, s) /\ p \in dev[d].profiles
  /\ IF dev[d].active = p
     THEN Set(d, Switched(r, Default)) /\ Become(d, s, [o EXCEPT !.pc = "build"])
     ELSE Set(d, r) /\ Become(d, s, [o EXCEPT !.pc = "gather"])
  /\ deleted' = deleted \cup {p}
  /\ Ask
  /\ UNCHANGED <<chain, snap, fresh, faults, saved, typed>>

\* getFactor needs the privileged key, so the user gives the password of the token.
Unlocked(r) == r.auth /\ r.token # None /\ r.token.root = r.root /\ r.token.key.salt = r.token.salt

\* Mutant: only addProfile passes the profiles on.
NewToken_NoProfiles(o, r) ==
  [salt |-> o.salt, key |-> o.key, pres |-> o.pres, rec |-> o.rec, root |-> r.root,
   profiles |-> IF o.kind = "add" THEN r.profiles ELSE {}, at |-> 0]

NewToken(o, r) ==
  [salt |-> o.salt, key |-> o.key, pres |-> o.pres, rec |-> o.rec, root |-> r.root,
   profiles |-> r.profiles, at |-> 0]

\* updateAuthFactors up to its first switch or to buildAndSend.  The wallet of the
\* default profile publishes, so that profile is switched to first.
CanUpdate(r) ==
  /\ r.auth /\ r.token # None /\ r.root # None /\ r.token.at # 0
  /\ r.active = Default => r.wallet # None
Updating(o, r) ==
  [NoOp EXCEPT !.pc = IF r.active = Default THEN "send" ELSE "toDefault", !.kind = o.kind,
               !.token = NewToken(o, r), !.old = r.token.at, !.from = r.active]

\* The factors that do not change, from the current token; and, but for addProfile,
\* deleteProfile and changePassword, its salt after them.
Gathered(o, t) ==
  [o EXCEPT !.key = IF o.kind = "password" THEN @ ELSE t.key,
            !.pres = IF o.kind = "presentation" THEN @ ELSE t.pres,
            !.rec = IF o.kind = "recovery" THEN @ ELSE t.rec,
            !.salt = IF o.kind = "presentation" THEN t.salt ELSE @]

\* Mutant: the new recovery key is published before the user saves it.
AfterGather_Unsaved(o, r) ==
  IF o.kind = "recovery" THEN Updating([o EXCEPT !.salt = r.token.salt], r) ELSE Updating(o, r)

AfterGather(o, r) == IF o.kind = "recovery" THEN [o EXCEPT !.pc = "save"] ELSE Updating(o, r)

Gather(d, s) ==
  LET o == op[d][s] r == dev[d] IN
  /\ At(d, s, "gather") /\ Unlocked(r) /\ (o.kind # "recovery" => CanUpdate(r))
  /\ Become(d, s, AfterGather(Gathered(o, r.token), r))
  /\ UNCHANGED <<dev, chain, snap, counts, history>>

\* recoveryKeySaver ends, and the salt is read.
RecoverySaved(d, s) ==
  LET o == op[d][s] r == dev[d] IN
  /\ At(d, s, "save") /\ o.kind = "recovery"
  /\ saved' = saved \cup {o.rec}
  /\ Become(d, s, IF CanUpdate(r) THEN Updating([o EXCEPT !.salt = r.token.salt], r) ELSE NoOp)
  /\ UNCHANGED <<dev, chain, snap, counts, typed, deleted>>

\* switchProfile to the default profile.
ToDefault(d, s) ==
  /\ At(d, s, "toDefault") /\ CanSwitch(dev[d], Default)
  /\ Set(d, [Switched(dev[d], Default) EXCEPT !.wallet = Default])
  /\ To(d, s, "send")
  /\ UNCHANGED <<chain, snap, counts, history>>

AfterSend(o) == IF o.from = Default THEN NoOp ELSE [NoOp EXCEPT !.pc = "back", !.from = o.from]

\* The manager has the outpoint of the token it published.
Learned(d, o) ==
  Set(d, [dev[d] EXCEPT !.token = tokens'[Len(tokens) + 1],
                        !.pres = IF o.kind = "presentation" /\ @ # None THEN o.token.pres ELSE @])

\* buildAndSend: the old token is an input if the overlay still has it, and not
\* in the last-ditch effort after an error.  An error after signAction leaves a
\* published token the manager does not know.
Send(d, s) ==
  LET o == op[d][s]
      spent == unspent \ {o.old}
  IN
  /\ At(d, s, "send")
  /\ Publish(o.token)
  /\ \/ unspent' = spent \cup {Len(tokens) + 1} /\ Learned(d, o) /\ UNCHANGED faults
     \/ Fails /\ unspent' = unspent \cup {Len(tokens) + 1} /\ Learned(d, o)
     \/ Fails /\ unspent' = spent \cup {Len(tokens) + 1} /\ UNCHANGED dev
  /\ Become(d, s, AfterSend(o))
  /\ UNCHANGED <<snap, fresh, ops, history>>

\* The finally block: back to the profile the user was in, if it is still there.
Back(d, s) ==
  /\ At(d, s, "back")
  /\ IF CanSwitch(dev[d], op[d][s].from)
     THEN Set(d, Switched(dev[d], op[d][s].from)) /\ Become(d, s, BuildOp(op[d][s].from))
     ELSE End(d, s) /\ UNCHANGED dev
  /\ UNCHANGED <<chain, snap, counts, history>>

\* A check after an await finds the manager destroyed, or not ready.
Refused(o, r) ==
  \/ o.pc = "gather" /\ (~r.auth \/ (o.kind # "recovery" /\ ~CanUpdate(r)))
  \/ o.pc \in {"toDefault", "registerBuild"} /\ ~r.auth
  \/ o.pc = "save" /\ o.kind = "register" /\ r.pres = None

\* Or a callback, the overlay, the funder or the broadcast fails.
Throw(d, s) ==
  /\ ~At(d, s, "idle") /\ ~At(d, s, "back")
  /\ Fails \/ (Refused(op[d][s], dev[d]) /\ UNCHANGED faults)
  /\ Become(d, s, IF At(d, s, "send") THEN AfterSend(op[d][s]) ELSE NoOp)
  /\ UNCHANGED <<dev, chain, snap, fresh, ops, history>>

-----------------------------------------------------------------------------
(* Synchronisation, snapshots, logout and restart.                         *)

\* syncUMPToken: the token the overlay has now, by presentation or recovery key.
Refreshed(t) ==
  IF ByPresentationKey(t.pres) # {} THEN ByPresentationKey(t.pres) ELSE ByRecoveryKey(t.rec)

\* A root key decrypts the profiles of its own tokens, and reads no profiles from none.
Decrypts(root, t) == t.root = root \/ t.profiles = {}

SyncUMPToken(d, s) ==
  /\ Ready(d, s)
  /\ \E i \in Refreshed(dev[d].token) :
       /\ i # dev[d].token.at
       /\ IF Decrypts(dev[d].root, tokens[i])
          THEN Set(d, Setup(dev[d], dev[d].root, tokens[i]))
          ELSE Set(d, [dev[d] EXCEPT !.token = tokens[i], !.profiles = {}]) \* decryption throws
  /\ Ask
  /\ UNCHANGED <<op, chain, snap, fresh, faults, history>>

SaveSnapshot(d) ==
  /\ dev[d].root # None /\ dev[d].token # None /\ dev[d].token.at # 0
  /\ snap[d] # [root |-> dev[d].root, token |-> dev[d].token, active |-> dev[d].active]
  /\ snap' = [snap EXCEPT ![d] =
                [root |-> dev[d].root, token |-> dev[d].token, active |-> dev[d].active]]
  /\ Ask
  /\ UNCHANGED <<dev, op, chain, fresh, faults, history>>

\* loadSnapshot: any error on the way destroys the state again.
LoadSnapshot(d, s) ==
  LET r == [Setup(dev[d], snap[d].root, snap[d].token) EXCEPT !.flow = "existing-user"] IN
  /\ At(d, s, "idle") /\ snap[d] # None /\ ~dev[d].auth
  /\ IF Decrypts(snap[d].root, snap[d].token) /\ CanSwitch(r, snap[d].active)
     THEN Set(d, Switched(r, snap[d].active)) /\ Become(d, s, BuildOp(snap[d].active))
     ELSE Set(d, Blank) /\ UNCHANGED op
  /\ typed' = [typed EXCEPT ![d] = @ \cup {None}]
  /\ Ask
  /\ UNCHANGED <<chain, snap, fresh, faults, saved, deleted>>

\* destroy, while operations go on; or a restart, which ends them.
Destroy(d) ==
  /\ Fails
  /\ Set(d, Blank)
  /\ op' \in {op, [op EXCEPT ![d] = [s \in Slots |-> NoOp]]}
  /\ typed' = [typed EXCEPT ![d] = IF \A s \in Slots : op'[d][s] = NoOp THEN {} ELSE @]
  /\ UNCHANGED <<chain, snap, fresh, ops, saved, deleted>>

-----------------------------------------------------------------------------
UmpInit ==
  /\ dev = [d \in Devices |-> Blank]
  /\ op = [d \in Devices |-> [s \in Slots |-> NoOp]]
  /\ tokens = <<>> /\ unspent = {}
  /\ snap = [d \in Devices |-> None]
  /\ fresh = 0 /\ ops = 0 /\ faults = 0
  /\ saved = {} /\ typed = [d \in Devices |-> {}] /\ deleted = {} /\ crossed = FALSE

Start(d, s) ==
  \/ \E w \in Passwords : ProvidePassword(d, s, w) \/ Register(d, s, w) \/ ChangePassword(d, s, w)
  \/ \E k \in saved : ProvideRecoveryKey(d, s, k)
  \/ \E k \in PresKeys : ChangePresentationKey(d, s, k)
  \/ \E p \in Profiles \cup {Default} : SwitchProfile(d, s, p)
  \/ \E p \in Profiles : AddProfile(d, s, p) \/ DeleteProfile(d, s, p)
  \/ ChangeRecoveryKey(d, s) \/ SyncUMPToken(d, s) \/ LoadSnapshot(d, s)

Continue(d, s) ==
  \/ RegisterSaved(d, s) \/ RegisterFunded(d, s) \/ RegisterSend(d, s) \/ Built(d, s)
  \/ Gather(d, s) \/ RecoverySaved(d, s) \/ ToDefault(d, s) \/ Send(d, s) \/ Back(d, s)

UmpStep == \E d \in Devices :
  \/ \E m \in Modes : SetMode(d, m)
  \/ \E k \in PresKeys : ProvidePresentationKey(d, k)
  \/ \E k \in saved : FindByRecoveryKey(d, k)
  \/ \E s \in Slots : Start(d, s) \/ Continue(d, s) \/ Throw(d, s)
  \/ SaveSnapshot(d) \/ Destroy(d)

\* What the operations of a manager read of it.
Account(r) == <<r.auth, r.token, r.root, r.profiles>>

\* No lock keeps two operations of one manager apart: a step of one changes the
\* account that another, under way and not moving, has read.
Crosses ==
  \E d \in Devices, s \in Slots :
    /\ op[d][s].pc # "idle" /\ op'[d][s] = op[d][s]
    /\ dev'[d].auth /\ Account(dev'[d]) # Account(dev[d])

UmpNext == UmpStep /\ crossed' = (crossed \/ Crosses)

-----------------------------------------------------------------------------
(* Properties.                                                             *)

\* The user can open every token ever published, however the operations of two
\* devices and of one manager interleave: its recovery key is one the user has
\* saved, and its salt (UMPToken.passwordSalt) is the one its password key was
\* derived with.  The salt only if no two operations of one manager crossed: a new
\* password after the salt was read publishes the old salt with the new key.
FactorsOpen ==
  \A i \in 1..Len(tokens) :
    /\ tokens[i].rec \in saved
    /\ ~crossed => tokens[i].key.salt = tokens[i].salt

\* Whatever a stale device publishes, whatever fails and whichever token it
\* consumes: root keys once published are in a token that is not spent, and so is
\* every profile with them unless the user asked to delete it.  Not if operations
\* of one manager crossed: the profiles in memory are then those of another token.
KeysSurvive == ~crossed =>
  \A i \in 1..Len(tokens) : \A p \in (tokens[i].profiles \ deleted) \cup {Default} :
    \E j \in unspent : tokens[j].root = tokens[i].root /\ p \in tokens[j].profiles \cup {Default}

\* A manager becomes authenticated only for a user who gave two of the three
\* factors of the token, registered, or has a snapshot.
FactorsGiven(d, t) ==
  {f \in {"password", "presentation", "recovery"} :
     CASE f = "password" -> \E w \in Passwords \cap typed'[d] : t.key = PasswordKey(w, t.salt)
       [] f = "presentation" -> t.pres \in typed'[d]
       [] f = "recovery" -> t.rec \in typed'[d]}

TwoFactors ==
  [][\A d \in Devices : ~dev[d].auth /\ dev'[d].auth =>
       \/ Cardinality(FactorsGiven(d, dev'[d].token)) >= 2
       \/ None \in typed'[d]]_umpVars
=============================================================================
