----------------------------- MODULE Permissions -----------------------------
(***************************************************************************)
(* WalletPermissionsManager for one application (originator): calls of the *)
(* wallet interface that need permissions, the prompts they share, the     *)
(* user's answers, the tokens written for them and the caches.             *)
(*                                                                         *)
(* Each await of the code ends a step.  Time is left to chance: a token    *)
(* expires, a cache entry or a recent grant ages, a month begins.          *)
(***************************************************************************)
EXTENDS Naturals, Sequences, FiniteSets

CONSTANTS
  Callers,      \* calls of the application that are under way together
  Level1,       \* protocols of level 1: action labels, certificate types, ...
  Level2,       \* protocols of level 2, all with the same counterparty
  Baskets,      \* baskets and certificates
  Spend,        \* the spending authorization
  Manifest,     \* groupPermissions of manifest.json, without a spending authorization
  PeerManifest, \* its level 2 protocols without a counterparty
  Pact,         \* counterpartyPermissions of manifest.json
  PactFirst,    \* the first protocol they name
  None,
  MaxTokens,    \* bound: tokens of one permission
  Expired,      \* permissions with an expired token from before
  MaxCalls,     \* bound: calls of the application
  MaxTimes,     \* bound: revocations and events of time
  MaxSpend      \* bound: actions of one month, and the user's limit for it

Protocols == Level1 \cup Level2
Perms == Protocols \cup Baskets \cup {Spend}
Tokens == Perms \ {Spend}

ASSUME PermsAssumption ==
  /\ Manifest \subseteq Protocols \cup Baskets
  /\ PeerManifest \subseteq Level2 /\ Pact \subseteq Level2
  /\ Pact # {} => PactFirst \in Pact
  /\ Expired \subseteq Tokens
  /\ MaxTokens \in Nat \ {0} /\ MaxCalls \in Nat /\ MaxTimes \in Nat /\ MaxSpend \in Nat \ {0}
  /\ {"pact", "peer", "group"} \cap Perms = {}

VARIABLES
  caller, \* what each call does and waits for
  active, \* activeRequests: prompts and the callers pending on them
  mint,   \* the token a caller's prompt led to, while it is written
  token,  \* unspent permission outputs: how many live and expired ones
  cache,  \* permissionCache, entries that count
  recent, \* recentGrants
  pact,   \* pactEstablishedCache has the counterparty
  tail,   \* groupedPermissionFlowTail: callers in the order of their turn
  limit,  \* authorizedAmount of the spending token, 0 without one
  spent,  \* actions of this month (querySpentSince)
  calls,  \* calls so far
  times,  \* revocations and events of time so far
  consent, \* history: permissions the user ever granted for more than once
  ended   \* history: actions of this month by how their calls ended

vars == <<caller, active, mint, token, cache, recent, pact, tail, limit, spent, calls, times, consent, ended>>

GroupKeys == {"pact", "peer", "group"}
Idle == [pc |-> "idle", todo |-> <<>>, found |-> "none", answer |-> "none",
         had |-> FALSE, open |-> FALSE]
NoTokens == [live |-> 0, expired |-> 0]
\* Actions signed, handed to the application unsigned, left behind by an error.
Nothing == [signed |-> 0, handed |-> 0, left |-> 0]

perm(c) == Head(caller[c].todo)
Goto(c, pc) == caller' = [caller EXCEPT ![c].pc = pc]
At(c, pc) == caller[c].pc = pc

-----------------------------------------------------------------------------
(* What the wallet interface asks permission for, in order.                *)

\* createAction: every basket and label, then the money it spends.
NeedsCreateAction == {<<b, Spend>> : b \in Baskets} \cup {<<l, Spend>> : l \in Level1} \cup {<<Spend>>}

\* internalizeAction: every basket and label.
NeedsInternalize == {<<b, l>> : b \in Baskets, l \in Level1}

\* listActions: every label.
NeedsListActions == {<<l>> : l \in Level1}

\* listOutputs, relinquishOutput: the basket.
NeedsOutputs == {<<b>> : b \in Baskets}

\* getPublicKey and the key linkage calls: the protocol, the identity key.
NeedsKeys == {<<p>> : p \in Protocols}

\* encrypt, decrypt, createHmac, verifyHmac, createSignature, verifySignature.
NeedsCrypto == {<<p>> : p \in Protocols}

\* acquire-, list-, prove-, relinquishCertificate and discovery.
NeedsCertificate == {<<p>> : p \in Level1 \cup Baskets}

Needs == NeedsCreateAction \cup NeedsInternalize \cup NeedsListActions \cup NeedsOutputs
           \cup NeedsKeys \cup NeedsCrypto \cup NeedsCertificate

\* Actions of this month with those that calls under way will create.
Bound == spent + Cardinality({c \in Callers : ~caller[c].open /\ \E i \in DOMAIN caller[c].todo : caller[c].todo[i] = Spend})

Call(c) ==
  /\ At(c, "idle") /\ calls < MaxCalls /\ calls' = calls + 1
  /\ \E todo \in Needs :
       /\ todo[Len(todo)] = Spend => Bound < MaxSpend
       /\ caller' = [caller EXCEPT ![c] = [Idle EXCEPT !.pc = "ensure", !.todo = todo]]
  /\ UNCHANGED <<active, mint, token, cache, recent, pact, tail, limit, spent, times, consent, ended>>

\* createAction asks the underlying wallet for an unsigned action, with the
\* label of the month, before it asks for the money.
CreateUnderlying(c) ==
  /\ At(c, "ensure") /\ caller[c].todo # <<>> /\ perm(c) = Spend
  /\ ~caller[c].open
  /\ caller' = [caller EXCEPT ![c].open = TRUE]
  /\ spent' = spent + 1
  /\ UNCHANGED <<active, mint, token, cache, recent, pact, tail, limit, calls, times, consent, ended>>

\* The underlying call.  createAction signs its action, or hands it to an
\* application that signs itself (isSignAction), or signAction throws.
Finish(c) ==
  /\ At(c, "ensure") /\ caller[c].todo = <<>>
  /\ caller' = [caller EXCEPT ![c] = Idle]
  /\ IF caller[c].open
     THEN \/ ended' = [ended EXCEPT !.signed = @ + 1]
          \/ ended' = [ended EXCEPT !.handed = @ + 1]
          \/ ended' = [ended EXCEPT !.left = @ + 1]
     ELSE UNCHANGED ended
  /\ UNCHANGED <<active, mint, token, cache, recent, pact, tail, limit, spent, calls, times, consent>>

\* What the underlying wallet returned cannot be read (computeNetSpend): nothing
\* is caught before the spending check.
Unreadable(c) ==
  /\ At(c, "ensure") /\ caller[c].open /\ caller[c].todo # <<>>
  /\ caller' = [caller EXCEPT ![c] = Idle]
  /\ ended' = [ended EXCEPT !.left = @ + 1]
  /\ UNCHANGED <<active, mint, token, cache, recent, pact, tail, limit, spent, calls, times, consent>>

\* signAction or abortAction of the application for what it was handed.
Later ==
  /\ ended.handed > 0
  /\ \/ ended' = [ended EXCEPT !.handed = @ - 1, !.signed = @ + 1] /\ UNCHANGED spent
     \/ ended' = [ended EXCEPT !.handed = @ - 1] /\ spent' = spent - 1
  /\ UNCHANGED <<caller, active, mint, token, cache, recent, pact, tail, limit, calls, times, consent>>

\* The permission is there: on to the next one.
Passed(c) == [caller EXCEPT ![c] = [Idle EXCEPT !.pc = "ensure", !.todo = Tail(caller[c].todo),
                                           !.open = caller[c].open]]

\* Mutant: createAction does not abort what it created.
Fail_KeepAction(c) ==
  /\ caller' = [caller EXCEPT ![c] = Idle]
  /\ UNCHANGED <<spent, ended>>

\* An error of the spending check leaves through createAction, which aborts its
\* action; abortAction may throw in its turn.
Fail(c) ==
  /\ caller' = [caller EXCEPT ![c] = Idle]
  /\ IF caller[c].open
     THEN \/ spent' = spent - 1 /\ UNCHANGED ended
          \/ ended' = [ended EXCEPT !.left = @ + 1] /\ UNCHANGED spent
     ELSE UNCHANGED <<spent, ended>>

-----------------------------------------------------------------------------
(* ensureProtocolPermission, ensureBasketAccess, ensureCertificateAccess,  *)
(* ensureSpendingAuthorization.                                            *)

Supported(p) == p \in cache \cup recent

\* findSpendingToken and querySpentSince: too little left is a renewal.
FoundSpending == IF limit = 0 THEN "none" ELSE IF spent + 1 <= limit THEN "live" ELSE "expired"

\* The first token found may be a live or an expired one.
FoundToken(p) ==
  {s \in {"live"} : token[p].live > 0} \cup {s \in {"expired"} : token[p].expired > 0}
    \cup {s \in {"none"} : token[p] = NoTokens}

FoundIn(p) == IF p = Spend THEN {FoundSpending} ELSE FoundToken(p)

\* The caches answer, or the tokens are listed.
Ensure(c) ==
  /\ At(c, "ensure") /\ caller[c].todo # <<>>
  /\ perm(c) = Spend => caller[c].open
  /\ IF Supported(perm(c))
     THEN caller' = Passed(c)
     ELSE \E f \in FoundIn(perm(c)) :
            caller' = [caller EXCEPT ![c].pc = "decide", ![c].found = f]
  /\ UNCHANGED <<active, mint, token, cache, recent, pact, tail, limit, spent, calls, times, consent, ended>>

\* has...Permission for every permission of S: H is what it may answer; live
\* tokens are cached on the way.
HasIn(S) ==
  {H \in SUBSET S :
     \A p \in S : IF p \in H THEN Supported(p) \/ "live" \in FoundIn(p)
                             ELSE ~Supported(p) /\ FoundIn(p) # {"live"}}

-----------------------------------------------------------------------------
(* requestPermissionFlow.                                                  *)

Pending(k) == IF active[k] = None THEN {} ELSE active[k].pending

\* A caller waits on the prompt there is, adding the protocols it still needs,
\* or opens it.  The key of a protocol's prompt has the usageType too: the calls
\* here are of one usage.
JoinOrCreate(c, k, S) ==
  active' = [active EXCEPT ![k] =
    IF active[k] = None
    THEN [perms |-> S, pending |-> {c}, granted |-> None,
          by |-> c, renewal |-> caller[c].found = "expired", thrown |-> FALSE]
    ELSE [active[k] EXCEPT !.pending = @ \cup {c},
                           !.perms = IF k \in GroupKeys THEN @ \cup (S \cap Protocols) ELSE @]]

\* The peer prompt, or the turn for the grouped one.
AfterPact(c) == IF perm(c) \in PeerManifest THEN "peer" ELSE "turn"

\* A live token is cached.  Otherwise the caller joins the prompt there is
\* (piggybackOnExistingQueue) or goes through what the manifest offers.
Decide(c) ==
  /\ At(c, "decide")
  /\ \/ /\ caller[c].found = "live"
        /\ caller' = Passed(c) /\ cache' = cache \cup {perm(c)}
        /\ UNCHANGED active
     \/ /\ caller[c].found # "live" /\ Pending(perm(c)) # {}
        /\ JoinOrCreate(c, perm(c), {perm(c)}) /\ Goto(c, "single")
        /\ UNCHANGED cache
     \/ /\ caller[c].found # "live" /\ Pending(perm(c)) = {}
        /\ Goto(c, IF perm(c) \in Pact /\ ~pact THEN "pact" ELSE AfterPact(c))
        /\ UNCHANGED <<active, cache>>
  /\ UNCHANGED <<mint, token, recent, pact, tail, limit, spent, calls, times, consent, ended>>

\* maybeRequestPact, maybeRequestPeerGroupedLevel2ProtocolPermissions and
\* maybeRequestGroupedPermissions: what the manifest offers with this permission,
\* less what is granted.
Offer(c) ==
  CASE At(c, "pact") -> Pact
    [] At(c, "peer") -> PeerManifest
    [] caller[c].pc \in {"group", "auth"} -> Manifest

KeyOf(c) == IF At(c, "auth") THEN "group" ELSE caller[c].pc
Waiting(c) == IF At(c, "auth") THEN "authWait"
              ELSE IF At(c, "pact") THEN "pactWait" ELSE IF At(c, "peer") THEN "peerWait" ELSE "groupWait"

\* null: the next flow; after the grouped one the lock is given back.
Onward(c) == IF At(c, "pact") THEN AfterPact(c) ELSE IF At(c, "peer") THEN "turn" ELSE "recheck"

\* hasPactEstablished looks the first protocol up and, with it, no other.
PactSeen(c, H) == At(c, "pact") /\ PactFirst \in H
Seen(c, H) == IF PactSeen(c, H) THEN {PactFirst} ELSE H

AskGroup(c) ==
  /\ caller[c].pc \in {"pact", "peer", "group"}
  /\ \E H \in HasIn(Offer(c)) :
       /\ cache' = cache \cup {p \in Seen(c, H) : p \notin recent}
       /\ IF Offer(c) \subseteq H \/ PactSeen(c, H)
          THEN /\ Goto(c, Onward(c))
               /\ pact' = (pact \/ At(c, "pact"))
               /\ tail' = IF At(c, "group") THEN Tail(tail) ELSE tail
               /\ UNCHANGED active
          ELSE /\ JoinOrCreate(c, KeyOf(c), Offer(c) \ H)
               /\ Goto(c, Waiting(c))
               /\ UNCHANGED <<pact, tail>>
  /\ UNCHANGED <<mint, token, recent, limit, spent, calls, times, consent, ended>>

\* withGroupedPermissionFlowLock: callers take turns.
TakeTurn(c) ==
  /\ At(c, "turn")
  /\ tail' = Append(tail, c)
  /\ caller' = [caller EXCEPT ![c].pc = "queued", ![c].had = tail # <<>>]
  /\ UNCHANGED <<active, mint, token, cache, recent, pact, limit, spent, calls, times, consent, ended>>

\* Into the grouped flow; a permission the manifest does not name leaves it at once.
GroupFlow(c) ==
  \/ caller[c].todo = <<>> /\ Goto(c, "auth") /\ UNCHANGED tail
  \/ caller[c].todo # <<>> /\ perm(c) \in Manifest /\ Goto(c, "group") /\ UNCHANGED tail
  \/ caller[c].todo # <<>> /\ perm(c) \notin Manifest /\ Goto(c, "recheck") /\ tail' = Tail(tail)

Turn(c) ==
  /\ At(c, "queued") /\ Head(tail) = c
  /\ GroupFlow(c)
  /\ UNCHANGED <<active, mint, token, cache, recent, pact, limit, spent, calls, times, consent, ended>>

\* A group prompt was granted or dismissed: is this permission among the granted?
\* Mutant: a closed prompt counts as granted.
AfterGroup_Trusting(c) ==
  /\ caller[c].pc \in {"pactWait", "peerWait", "groupWait"} /\ caller[c].answer = "yes"
  /\ caller' = Passed(c)
  /\ pact' = (pact \/ At(c, "pactWait"))
  /\ tail' = IF At(c, "groupWait") THEN Tail(tail) ELSE tail
  /\ UNCHANGED <<active, mint, token, cache, recent, limit, spent, calls, times, consent, ended>>

AfterGroup(c) ==
  /\ caller[c].pc \in {"pactWait", "peerWait", "groupWait"} /\ caller[c].answer = "yes"
  /\ \E H \in HasIn({perm(c)}) :
       /\ cache' = cache \cup (H \ recent)
       /\ caller' = IF H # {} THEN Passed(c)
                    ELSE [caller EXCEPT ![c].answer = "none",
                            ![c].pc = CASE At(c, "pactWait") -> AfterPact(c)
                                        [] At(c, "peerWait") -> "turn"
                                        [] OTHER -> "recheck"]
  /\ pact' = (pact \/ At(c, "pactWait"))
  /\ tail' = IF At(c, "groupWait") THEN Tail(tail) ELSE tail
  /\ UNCHANGED <<active, mint, token, recent, limit, spent, calls, times, consent, ended>>

\* Another turn of the grouped flow may have granted it; else the caller joins or
\* opens the prompt of this permission.
OpenPrompt(c) ==
  /\ At(c, "recheck")
  /\ \/ /\ caller[c].had
        /\ {perm(c)} \in HasIn({perm(c)})
        /\ cache' = cache \cup ({perm(c)} \ recent)
        /\ caller' = Passed(c)
        /\ UNCHANGED active
     \/ /\ caller[c].had => {} \in HasIn({perm(c)})
        /\ JoinOrCreate(c, perm(c), {perm(c)})
        /\ Goto(c, "single")
        /\ UNCHANGED cache
  /\ UNCHANGED <<mint, token, recent, pact, tail, limit, spent, calls, times, consent, ended>>

\* A prompt of one permission was granted.
Granted(c) ==
  /\ At(c, "single") /\ caller[c].answer = "yes"
  /\ caller' = Passed(c)
  /\ UNCHANGED <<active, mint, token, cache, recent, pact, tail, limit, spent, calls, times, consent, ended>>

HasTurn(c) == caller[c].pc \in {"group", "groupWait", "auth", "authWait"}

\* Mutant: the lock is kept when the prompt is denied.
Denied_KeepTurn(c) ==
  /\ caller[c].answer = "no"
  /\ Fail(c)
  /\ UNCHANGED <<active, mint, token, cache, recent, pact, tail, limit, calls, times, consent>>

\* Any prompt was denied: the call fails, its turn ends.
Denied(c) ==
  /\ caller[c].answer = "no"
  /\ Fail(c)
  /\ tail' = IF HasTurn(c) THEN Tail(tail) ELSE tail
  /\ UNCHANGED <<active, mint, token, cache, recent, pact, limit, calls, times, consent>>

\* Where a call looks tokens up, or has the underlying wallet make its action.
Asks(c) ==
  \/ At(c, "ensure") /\ caller[c].todo # <<>>
       /\ (~Supported(perm(c)) \/ (perm(c) = Spend /\ ~caller[c].open))
  \/ caller[c].pc \in {"pact", "peer", "group", "auth"}
  \/ caller[c].pc \in {"pactWait", "peerWait", "groupWait"} /\ caller[c].answer = "yes"
  \/ At(c, "recheck") /\ caller[c].had

\* That fails: so does the call, and withGroupedPermissionFlowLock ends its turn.
Throw(c) ==
  /\ Asks(c)
  /\ Fail(c)
  /\ tail' = IF HasTurn(c) THEN Tail(tail) ELSE tail
  /\ UNCHANGED <<active, mint, token, cache, recent, pact, limit, calls, times, consent>>

\* waitForAuthentication asks for the whole manifest, in its turn.
Authenticate(c) ==
  /\ At(c, "idle") /\ calls < MaxCalls /\ calls' = calls + 1
  /\ tail' = Append(tail, c)
  /\ caller' = [caller EXCEPT ![c].pc = "queued"]
  /\ UNCHANGED <<active, mint, token, cache, recent, pact, limit, spent, times, consent, ended>>

AuthenticateAsk(c) ==
  /\ At(c, "auth")
  /\ \E H \in HasIn(Offer(c)) :
       /\ cache' = cache \cup {p \in H : p \notin recent}
       /\ IF Offer(c) \subseteq H
          THEN caller' = [caller EXCEPT ![c] = Idle] /\ tail' = Tail(tail) /\ UNCHANGED active
          ELSE JoinOrCreate(c, "group", Offer(c) \ H) /\ Goto(c, "authWait") /\ UNCHANGED tail
  /\ UNCHANGED <<mint, token, recent, pact, limit, spent, calls, times, consent, ended>>

Authenticated(c) ==
  /\ At(c, "authWait") /\ caller[c].answer = "yes"
  /\ caller' = [caller EXCEPT ![c] = Idle]
  /\ tail' = Tail(tail)
  /\ UNCHANGED <<active, mint, token, cache, recent, pact, limit, spent, calls, times, consent, ended>>

-----------------------------------------------------------------------------
(* The user answers.  A prompt is answered once, unless its grant threw.   *)

\* Every promise of the prompt is settled and the entry deleted.
Settle(k, answer) ==
  /\ caller' = [c \in Callers |->
       IF c \in active[k].pending THEN [caller[c] EXCEPT !.answer = answer] ELSE caller[c]]
  /\ active' = [active EXCEPT ![k] = None]

\* denyPermission, denyGroupedPermission, denyCounterpartyPermission.
Deny(k) ==
  /\ active[k] # None /\ active[k].granted = None
  /\ Settle(k, "no")
  /\ UNCHANGED <<mint, token, cache, recent, pact, tail, limit, spent, calls, times, consent, ended>>

\* dismissGroupedPermission: the callers go on to ask one by one.
Dismiss ==
  /\ active["group"] # None /\ active["group"].granted = None
  /\ Settle("group", "yes")
  /\ UNCHANGED <<mint, token, cache, recent, pact, tail, limit, spent, calls, times, consent, ended>>

\* grantPermission: the callers go on while the token is still written.
GrantOnce(p) ==
  /\ active[p] # None
  /\ Settle(p, "yes")
  /\ UNCHANGED <<mint, token, cache, recent, pact, tail, limit, spent, calls, times, consent, ended>>

Grant(p) ==
  /\ active[p] # None /\ mint[active[p].by] = None
  /\ Settle(p, "yes")
  /\ mint' = [mint EXCEPT ![active[p].by] = [perm |-> p, renewal |-> active[p].renewal, done |-> FALSE]]
  /\ consent' = consent \cup {p}
  /\ UNCHANGED <<token, cache, recent, pact, tail, limit, spent, calls, times, ended>>

\* createPermissionOnChain.
CreateToken(c) ==
  /\ mint[c] # None /\ ~mint[c].done /\ mint[c].perm # Spend /\ ~mint[c].renewal
  /\ LET p == mint[c].perm IN
       /\ token[p].live + token[p].expired < MaxTokens
       /\ token' = [token EXCEPT ![p].live = @ + 1]
  /\ mint' = [mint EXCEPT ![c].done = TRUE]
  /\ UNCHANGED <<caller, active, cache, recent, pact, tail, limit, spent, calls, times, consent, ended>>

\* coalescePermissionTokens: several tokens of a protocol become one.
Renewed(p, t) ==
  IF p \in Protocols /\ t.live + t.expired > 1 THEN [live |-> 1, expired |-> 0]
  ELSE [live |-> t.live + 1, expired |-> t.expired - 1]

\* renewPermissionOnChain spends the old token.
RenewToken(c) ==
  /\ mint[c] # None /\ ~mint[c].done /\ mint[c].perm # Spend /\ mint[c].renewal
  /\ token[mint[c].perm].expired > 0
  /\ token' = [token EXCEPT ![mint[c].perm] = Renewed(mint[c].perm, @)]
  /\ mint' = [mint EXCEPT ![c].done = TRUE]
  /\ UNCHANGED <<caller, active, cache, recent, pact, tail, limit, spent, calls, times, consent, ended>>

\* The spending authorization, for the amount the user set.
WriteSpending(c) ==
  /\ mint[c] # None /\ ~mint[c].done /\ mint[c].perm = Spend
  /\ \E amount \in 1..MaxSpend : limit' = amount
  /\ mint' = [mint EXCEPT ![c].done = TRUE]
  /\ UNCHANGED <<caller, active, token, cache, recent, pact, tail, spent, calls, times, consent, ended>>

\* The transaction of the token fails: grantPermission throws to the user.
WriteFails(c) ==
  /\ mint[c] # None /\ ~mint[c].done
  /\ mint' = [mint EXCEPT ![c] = None]
  /\ UNCHANGED <<caller, active, token, cache, recent, pact, tail, limit, spent, calls, times, consent, ended>>

\* cachePermission and markRecentGrant, after the token is written.
CacheGrant(c) ==
  /\ mint[c] # None /\ mint[c].done
  /\ cache' = cache \cup {mint[c].perm}
  /\ recent' = recent \cup ({mint[c].perm} \ {Spend})
  /\ mint' = [mint EXCEPT ![c] = None]
  /\ UNCHANGED <<caller, active, token, pact, tail, limit, spent, calls, times, consent, ended>>

\* grantGroupedPermission, grantCounterpartyPermission: a part of what was asked.
GrantGroup(k) ==
  /\ active[k] # None /\ active[k].granted = None
  /\ \E S \in SUBSET active[k].perms :
       /\ active' = [active EXCEPT ![k].granted = S]
       /\ consent' = consent \cup S
  /\ UNCHANGED <<caller, mint, token, cache, recent, pact, tail, limit, spent, calls, times, ended>>

\* The tokens are written as far as that succeeds (runBestEffortBatches); callers
\* that joined in the meantime are settled with the others.
GroupWritten(k) ==
  /\ \E made \in SUBSET active[k].granted :
       /\ token' = [p \in Tokens |->
            IF p \notin made THEN token[p]
            ELSE IF p \in Protocols /\ token[p].expired > 0
                 THEN [live |-> token[p].live + 1, expired |-> token[p].expired - 1]
                 ELSE IF token[p].live + token[p].expired < MaxTokens
                      THEN [token[p] EXCEPT !.live = @ + 1] ELSE token[p]]
       /\ recent' = recent \cup made
  /\ Settle(k, "yes")

\* The subset is not one of what was asked, or the lookup of the old tokens fails:
\* grantGroupedPermission rejects its callers, grantCounterpartyPermission settles
\* nobody and keeps the prompt.
GroupFails(k) ==
  /\ IF k = "pact"
     THEN active' = [active EXCEPT ![k].granted = None, ![k].thrown = TRUE] /\ UNCHANGED caller
     ELSE Settle(k, "no")
  /\ UNCHANGED <<token, recent>>

WriteGroup(k) ==
  /\ active[k] # None /\ active[k].granted # None
  /\ GroupWritten(k) \/ GroupFails(k)
  /\ UNCHANGED <<mint, cache, pact, tail, limit, spent, calls, times, consent, ended>>

-----------------------------------------------------------------------------
(* Revocation and time.                                                    *)

\* revokePermission, revokeAllForOriginator: tokens are spent, nothing is removed
\* from the caches.
Revoke(p) ==
  /\ p \in Tokens /\ token[p] # NoTokens
  /\ token' = [token EXCEPT ![p] = NoTokens]
  /\ UNCHANGED <<caller, active, mint, cache, recent, pact, tail, limit, spent, calls, consent, ended>>

RevokeSpending ==
  /\ limit > 0
  /\ limit' = 0
  /\ UNCHANGED <<caller, active, mint, token, cache, recent, pact, tail, spent, calls, consent, ended>>

\* The expiry of a token passes, and with it that of its cache entry.
Expire(p) ==
  /\ p \in Tokens /\ token[p].live > 0
  /\ \A c \in Callers : mint[c] # None => mint[c].perm # p
  /\ token' = [token EXCEPT ![p] = [live |-> 0, expired |-> @.live + @.expired]]
  /\ cache' = cache \ {p}
  /\ UNCHANGED <<caller, active, mint, recent, pact, tail, limit, spent, calls, consent, ended>>

\* CACHE_TTL_MS and RECENT_GRANT_COVER_MS.
Age(p) ==
  /\ Supported(p)
  /\ \/ cache' = cache \ {p} /\ UNCHANGED recent
     \/ recent' = recent \ {p} /\ UNCHANGED cache
  /\ UNCHANGED <<caller, active, mint, token, pact, tail, limit, spent, calls, consent, ended>>

\* A month begins: getCurrentMonthYearUTC.
NewMonth ==
  /\ spent > 0 /\ \A c \in Callers : ~caller[c].open
  /\ spent' = 0 /\ ended' = Nothing
  /\ UNCHANGED <<caller, active, mint, token, cache, recent, pact, tail, limit, calls, consent>>

-----------------------------------------------------------------------------
Init ==
  /\ caller = [c \in Callers |-> Idle]
  /\ active = [k \in Perms \cup GroupKeys |-> None]
  /\ mint = [c \in Callers |-> None]
  /\ token = [p \in Tokens |-> [live |-> 0, expired |-> IF p \in Expired THEN 1 ELSE 0]]
  /\ cache = {} /\ recent = {} /\ pact = FALSE /\ tail = <<>>
  /\ limit = 0 /\ spent = 0 /\ calls = 0 /\ times = 0 /\ consent = Expired /\ ended = Nothing

Run(c) ==
  \/ CreateUnderlying(c) \/ Unreadable(c) \/ Finish(c) \/ Throw(c) \/ Ensure(c) \/ Decide(c)
  \/ AskGroup(c) \/ TakeTurn(c) \/ Turn(c) \/ AfterGroup(c) \/ OpenPrompt(c)
  \/ Granted(c) \/ Denied(c) \/ AuthenticateAsk(c) \/ Authenticated(c)

Answer(k) ==
  \/ Deny(k) \/ (k = "group" /\ Dismiss)
  \/ (k \in Perms /\ (GrantOnce(k) \/ Grant(k)))
  \/ (k \in GroupKeys /\ (GrantGroup(k) \/ WriteGroup(k)))

Write(c) == CreateToken(c) \/ RenewToken(c) \/ WriteSpending(c) \/ WriteFails(c) \/ CacheGrant(c)

Time ==
  /\ times < MaxTimes /\ times' = times + 1
  /\ NewMonth \/ RevokeSpending \/ \E p \in Perms : Revoke(p) \/ Expire(p) \/ Age(p)

Next ==
  \/ \E c \in Callers : Call(c) \/ Authenticate(c) \/ Run(c) \/ Write(c)
  \/ \E k \in Perms \cup GroupKeys : Answer(k)
  \/ Later \/ Time

Spec == Init /\ [][Next]_vars

\* The counterparty prompt a failed grant left behind.
Thrown(k) == active[k] # None /\ active[k].thrown

\* Awaits end, writes of tokens end, and the user answers every prompt, one whose
\* grant threw perhaps not again.
Fairness ==
  /\ \A c \in Callers : WF_vars(Run(c)) /\ WF_vars(Write(c))
  /\ \A k \in Perms \cup GroupKeys : WF_vars(~Thrown(k) /\ Answer(k))

FairSpec == Spec /\ Fairness

-----------------------------------------------------------------------------
(* Properties.                                                             *)

\* A call never goes past a permission the user did not grant: neither a dismissed
\* prompt, nor a partial grant, nor somebody else's grant for once is enough.
AccessIsConsented ==
  [][\A c \in Callers : caller'[c].todo # caller[c].todo /\ caller[c].todo # <<>> /\ caller'[c].pc = "ensure"
       => perm(c) \in consent \/ (At(c, "single") /\ caller[c].answer = "yes")]_vars

\* createAction makes its action before it asks for the money: however the spending
\* check ends (granted, denied, thrown), the month counts no action of a finished call
\* but those signed, those handed to the application unsigned, and those that an
\* error outside of the check, or of abortAction, left behind.
NoOrphanAction ==
  spent = ended.signed + ended.handed + ended.left + Cardinality({c \in Callers : caller[c].open})

\* A caller of the counterparty prompt whose grant threw.
Stuck(c) == Thrown("pact") /\ c \in active["pact"].pending

\* Nobody waits for ever, whatever the user answers and whatever fails, except for
\* the callers that grantCounterpartyPermission neither settles nor forgets when it
\* throws.
Answered == \A c \in Callers : []<>(At(c, "idle") \/ Stuck(c))
=============================================================================
