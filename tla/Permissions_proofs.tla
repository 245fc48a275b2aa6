-------------------------- MODULE Permissions_proofs --------------------------
(***************************************************************************)
(* WalletPermissionsManager lets no call past a permission that the user   *)
(* did not grant and counts the actions of the month rightly, for any      *)
(* number of concurrent calls, permissions, prompts and tokens.            *)
(***************************************************************************)
EXTENDS Permissions, SequenceTheorems, FiniteSetTheorems, TLAPS

Pcs == {"idle", "ensure", "decide", "pact", "peer", "turn", "queued", "group", "auth", "recheck", "single",
        "pactWait", "peerWait", "groupWait", "authWait"}
Keys == Perms \cup GroupKeys

CallerRec == [pc: Pcs, todo: Seq(Perms), found: {"none", "live", "expired"},
              answer: {"none", "yes", "no"}, had: BOOLEAN, open: BOOLEAN]

PromptRec == [perms: SUBSET Perms, pending: SUBSET Callers, granted: {None} \cup SUBSET Perms,
              by: Callers, renewal: BOOLEAN, thrown: BOOLEAN]
MintRec == [perm: Perms, renewal: BOOLEAN, done: BOOLEAN]
EndedRec == [signed: Int, handed: Int, left: Int]

TypesOK ==
  /\ caller \in [Callers -> CallerRec]
  /\ active \in [Keys -> {None} \cup PromptRec]
  /\ mint \in [Callers -> {None} \cup MintRec]
  /\ token \in [Tokens -> [live: Nat, expired: Nat]]
  /\ limit \in Nat /\ spent \in Int /\ ended \in EndedRec
  /\ consent \subseteq Perms

\* What a caller can be doing: outside of "ensure" it has a permission to ask for,
\* unless it authenticates, and has no action open then.
CallerOK(c) ==
  /\ At(c, "idle") => caller[c].todo = <<>> /\ ~caller[c].open
  /\ caller[c].pc \notin {"idle", "ensure", "queued", "auth", "authWait"} => caller[c].todo # <<>>
  /\ caller[c].todo = <<>> /\ caller[c].pc # "ensure" => ~caller[c].open
  /\ caller[c].pc \in {"auth", "authWait"} => caller[c].todo = <<>>

\* Whatever may stand for a permission later on is there because the user granted
\* it: cached entries, recent grants, tokens, the spending limit, tokens that are
\* still written, and answers that are still carried out.
ConsentOK ==
  /\ cache \subseteq consent /\ recent \subseteq consent
  /\ \A p \in Tokens : token[p].live # 0 \/ token[p].expired # 0 => p \in consent
  /\ limit # 0 => Spend \in consent
  /\ \A c \in Callers : mint[c] # None => mint[c].perm \in consent
  /\ \A k \in Keys : active[k] # None /\ active[k].granted # None => active[k].granted \subseteq consent
  /\ \A c \in Callers : At(c, "decide") /\ caller[c].found = "live" => perm(c) \in consent

\* The inductive invariant.
PermsInv == TypesOK /\ (\A c \in Callers : CallerOK(c)) /\ ConsentOK

-----------------------------------------------------------------------------
(* Sequences of permissions, and what is found for one.                    *)

LEMMA TodoFacts ==
  ASSUME NEW s \in Seq(Perms), s # <<>>
  PROVE  Head(s) \in Perms /\ Tail(s) \in Seq(Perms)
BY HeadTailProperties

LEMMA NeedsFacts == \A todo \in Needs : todo \in Seq(Perms) /\ todo # <<>>
<1>1. \A a \in Perms : <<a>> \in Seq(Perms) /\ <<a>> # <<>>
  OBVIOUS
<1>2. \A a, b \in Perms : <<a, b>> \in Seq(Perms) /\ <<a, b>> # <<>>
  OBVIOUS
<1>3. Level1 \subseteq Perms /\ Level2 \subseteq Perms /\ Baskets \subseteq Perms /\ Spend \in Perms
  BY DEF Perms, Protocols
<1>4. ASSUME NEW todo \in NeedsCreateAction PROVE todo \in Seq(Perms) /\ todo # <<>>
  <2>1. CASE \E x \in Baskets \cup Level1 : todo = <<x, Spend>>
    BY <1>2, <1>3, <2>1
  <2>2. CASE todo = <<Spend>>
    BY <1>1, <1>3, <2>2
  <2>3. QED
    BY <2>1, <2>2 DEF NeedsCreateAction
<1>5. ASSUME NEW todo \in NeedsInternalize PROVE todo \in Seq(Perms) /\ todo # <<>>
  <2>1. PICK x \in Baskets, y \in Level1 : todo = <<x, y>>
    BY DEF NeedsInternalize
  <2>2. QED
    BY <1>2, <1>3, <2>1
<1>6. ASSUME NEW todo \in NeedsListActions \cup NeedsOutputs \cup NeedsKeys \cup NeedsCrypto \cup NeedsCertificate
      PROVE  todo \in Seq(Perms) /\ todo # <<>>
  <2>1. PICK x \in Perms : todo = <<x>>
    BY <1>3 DEF NeedsListActions, NeedsOutputs, NeedsKeys, NeedsCrypto, NeedsCertificate, Protocols
  <2>2. QED
    BY <1>1, <2>1
<1>7. QED
  BY <1>4, <1>5, <1>6 DEF Needs

LEMMA IdleRec == Idle \in CallerRec /\ Idle.pc = "idle" /\ Idle.todo = <<>> /\ Idle.open = FALSE
BY EmptySeq DEF Idle, CallerRec, Pcs

\* A live token or a spending limit that is left is one the user granted.
LEMMA LiveIsConsented ==
  ASSUME PermsInv, NEW p \in Perms, "live" \in FoundIn(p) \/ Supported(p)
  PROVE  p \in consent
<1>1. CASE Supported(p)
  BY <1>1 DEF Supported, PermsInv, ConsentOK
<1>2. CASE "live" \in FoundIn(p) /\ p = Spend
  BY <1>2 DEF FoundIn, FoundSpending, PermsInv, ConsentOK
<1>3. CASE "live" \in FoundIn(p) /\ p # Spend
  <2>1. p \in Tokens /\ token[p].live > 0 /\ token[p] \in [live: Nat, expired: Nat]
    BY <1>3 DEF FoundIn, FoundToken, Tokens, PermsInv, TypesOK
  <2>2. QED
    BY <2>1 DEF PermsInv, ConsentOK
<1>4. QED
  BY <1>1, <1>2, <1>3

\* How calls end: one action more is signed, handed on or left.
LEMMA EndedMoves ==
  ASSUME ended \in EndedRec,
         NEW n \in {[ended EXCEPT !.signed = @ + 1], [ended EXCEPT !.handed = @ + 1], [ended EXCEPT !.left = @ + 1]}
  PROVE  n \in EndedRec /\ n.signed + n.handed + n.left = ended.signed + ended.handed + ended.left + 1
<1>1. PICK s \in Int, h \in Int, l \in Int : ended = [signed |-> s, handed |-> h, left |-> l]
  BY DEF EndedRec
<1>2. \/ n = [signed |-> s + 1, handed |-> h, left |-> l]
      \/ n = [signed |-> s, handed |-> h + 1, left |-> l]
      \/ n = [signed |-> s, handed |-> h, left |-> l + 1]
  BY <1>1
<1>3. n \in EndedRec
  BY <1>2 DEF EndedRec
<1>4. QED
  BY <1>1, <1>2, <1>3

LEMMA NothingEnded == Nothing \in EndedRec /\ Nothing.signed + Nothing.handed + Nothing.left = 0
BY DEF Nothing, EndedRec

LEMMA FoundType == \A p : FoundIn(p) \subseteq {"none", "live", "expired"}
BY DEF FoundIn, FoundToken, FoundSpending

LEMMA HasIsConsented ==
  ASSUME PermsInv, NEW S \in SUBSET Perms, NEW H \in HasIn(S)
  PROVE  H \subseteq consent /\ H \subseteq S
BY LiveIsConsented DEF HasIn

-----------------------------------------------------------------------------
(* The invariant is kept.                                                  *)

\* CallerOK of a caller whose record is r.
RecordOK(r) ==
  /\ r \in CallerRec
  /\ r.pc = "idle" => r.todo = <<>> /\ ~r.open
  /\ r.pc \notin {"idle", "ensure", "queued", "auth", "authWait"} => r.todo # <<>>
  /\ r.todo = <<>> /\ r.pc # "ensure" => ~r.open
  /\ r.pc \in {"auth", "authWait"} => r.todo = <<>>
  /\ r.pc = "decide" /\ r.found = "live" => Head(r.todo) \in consent

\* What active holds keeps to what the user granted.
PromptsOK(a) ==
  /\ a \in [Keys -> {None} \cup PromptRec]
  /\ \A k \in Keys : a[k] # None /\ a[k].granted # None => a[k].granted \subseteq consent

\* A step of one caller, with nothing granted.
LEMMA CallerStep ==
  ASSUME PermsInv, NEW c \in Callers, NEW r, RecordOK(r), caller' = [caller EXCEPT ![c] = r],
         UNCHANGED <<mint, token, recent, limit, consent>>,
         cache' \subseteq consent, PromptsOK(active'), spent' \in Int, ended' \in EndedRec
  PROVE  PermsInv'
<1> USE DEF PermsInv
<1>1. caller'[c] = r /\ r \in CallerRec /\ \A d \in Callers \ {c} : caller'[d] = caller[d]
  BY DEF TypesOK, RecordOK
<1>2. TypesOK'
  BY <1>1 DEF TypesOK, PromptsOK
<1>3. \A d \in Callers : CallerOK(d)'
  BY <1>1 DEF CallerOK, At, RecordOK
<1>4. ConsentOK'
  <2>1. \A d \in Callers : caller'[d].pc = "decide" /\ caller'[d].found = "live" => Head(caller'[d].todo) \in consent
    BY <1>1 DEF RecordOK, ConsentOK, At, perm
  <2>2. QED
    BY <2>1 DEF ConsentOK, PromptsOK, At, perm
<1>5. QED
  BY <1>2, <1>3, <1>4

LEMMA CallerRecord ==
  ASSUME PermsInv, NEW c \in Callers
  PROVE  /\ caller[c] \in CallerRec /\ caller[c].todo \in Seq(Perms)
         /\ CallerOK(c) /\ cache \subseteq consent /\ PromptsOK(active) /\ spent \in Int /\ ended \in EndedRec
         /\ caller[c].todo # <<>> => perm(c) \in Perms
BY TodoFacts DEF PermsInv, TypesOK, CallerRec, ConsentOK, PromptsOK, perm

\* A caller only changes its place.
LEMMA GotoStep ==
  ASSUME PermsInv, NEW c \in Callers, NEW p \in Pcs, Goto(c, p), caller[c].todo # <<>>,
         p \notin {"idle", "decide", "auth", "authWait"},
         UNCHANGED <<mint, token, recent, limit, consent>>,
         cache' \subseteq consent, PromptsOK(active'), spent' \in Int, ended' \in EndedRec
  PROVE  PermsInv'
<1> DEFINE r == [caller[c] EXCEPT !.pc = p]
<1>1. RecordOK(r)
  BY CallerRecord DEF RecordOK, CallerRec
<1>2. caller' = [caller EXCEPT ![c] = r]
  BY DEF Goto
<1> HIDE DEF r
<1>3. QED
  BY <1>1, <1>2, CallerStep

LEMMA PassedStep ==
  ASSUME PermsInv, NEW c \in Callers, caller' = Passed(c), caller[c].todo # <<>>,
         UNCHANGED <<mint, token, recent, limit, consent>>,
         cache' \subseteq consent, PromptsOK(active'), spent' \in Int, ended' \in EndedRec
  PROVE  PermsInv'
<1> DEFINE r == [Idle EXCEPT !.pc = "ensure", !.todo = Tail(caller[c].todo), !.open = caller[c].open]
<1>1. RecordOK(r)
  BY CallerRecord, TodoFacts, IdleRec DEF RecordOK, CallerRec, Pcs
<1>2. caller' = [caller EXCEPT ![c] = r]
  BY DEF Passed
<1> HIDE DEF r
<1>3. QED
  BY <1>1, <1>2, CallerStep

LEMMA IdleStep ==
  ASSUME PermsInv, NEW c \in Callers, caller' = [caller EXCEPT ![c] = Idle],
         UNCHANGED <<mint, token, recent, limit, consent>>,
         cache' \subseteq consent, PromptsOK(active'), spent' \in Int, ended' \in EndedRec
  PROVE  PermsInv'
<1>1. RecordOK(Idle)
  BY IdleRec DEF RecordOK
<1>2. QED
  BY <1>1, CallerStep

\* Who joins a prompt, or opens it, grants nothing.
LEMMA JoinFacts ==
  ASSUME PermsInv, NEW c \in Callers, NEW k \in Keys, NEW S \in SUBSET Perms, JoinOrCreate(c, k, S)
  PROVE  PromptsOK(active')
<1> DEFINE new == [perms |-> S, pending |-> {c}, granted |-> None, by |-> c,
                   renewal |-> caller[c].found = "expired", thrown |-> FALSE]
           joined == [active[k] EXCEPT !.pending = @ \cup {c},
                        !.perms = IF k \in GroupKeys THEN @ \cup (S \cap Protocols) ELSE @]
<1>1. active' = [active EXCEPT ![k] = IF active[k] = None THEN new ELSE joined]
  BY DEF JoinOrCreate
<1>2. active \in [Keys -> {None} \cup PromptRec]
  BY DEF PermsInv, TypesOK
<1>3. new \in PromptRec /\ new.granted = None
  BY DEF PromptRec
<1>4. active[k] # None => joined \in PromptRec /\ joined.granted = active[k].granted
  BY <1>2 DEF PromptRec, Protocols, Perms
<1> HIDE DEF new, joined
<1>5. \A j \in Keys \ {k} : active'[j] = active[j]
  BY <1>1, <1>2
<1>6. CASE active[k] = None
  BY <1>1, <1>2, <1>3, <1>5, <1>6 DEF PromptsOK, PermsInv, ConsentOK
<1>7. CASE active[k] # None
  BY <1>1, <1>2, <1>4, <1>5, <1>7 DEF PromptsOK, PermsInv, ConsentOK
<1>8. QED
  BY <1>6, <1>7

-----------------------------------------------------------------------------
(* The steps of a caller.                                                  *)

LEMMA CallStep ==
  ASSUME PermsInv, NEW c \in Callers, Call(c) \/ Authenticate(c)
  PROVE  PermsInv'
<1>1. CASE Call(c)
  <2>1. PICK todo \in Needs : caller' = [caller EXCEPT ![c] = [Idle EXCEPT !.pc = "ensure", !.todo = todo]]
    BY <1>1 DEF Call
  <2> DEFINE r == [Idle EXCEPT !.pc = "ensure", !.todo = todo]
  <2>2. RecordOK(r)
    BY IdleRec, NeedsFacts DEF RecordOK, CallerRec, Pcs
  <2>3. caller' = [caller EXCEPT ![c] = r]
        /\ UNCHANGED <<active, mint, token, cache, recent, limit, spent, consent, ended>>
    BY <1>1, <2>1 DEF Call
  <2> HIDE DEF r
  <2>4. QED
    BY <2>2, <2>3, CallerRecord, CallerStep
<1>2. CASE Authenticate(c)
  <2> DEFINE r == [caller[c] EXCEPT !.pc = "queued"]
  <2>1. RecordOK(r)
    BY <1>2, CallerRecord DEF Authenticate, At, CallerOK, RecordOK, CallerRec, Pcs
  <2>2. caller' = [caller EXCEPT ![c] = r]
        /\ UNCHANGED <<active, mint, token, cache, recent, limit, spent, consent, ended>>
    BY <1>2 DEF Authenticate
  <2> HIDE DEF r
  <2>3. QED
    BY <2>1, <2>2, CallerRecord, CallerStep
<1>3. QED
  BY <1>1, <1>2

\* createAction: the underlying action, and the end of a call.
LEMMA UnderlyingStep ==
  ASSUME PermsInv, NEW c \in Callers, CreateUnderlying(c) \/ Finish(c) \/ Unreadable(c)
  PROVE  PermsInv'
<1>1. CASE CreateUnderlying(c)
  <2> DEFINE r == [caller[c] EXCEPT !.open = TRUE]
  <2>1. RecordOK(r)
    BY <1>1, CallerRecord DEF CreateUnderlying, At, CallerOK, RecordOK, CallerRec
  <2>2. caller' = [caller EXCEPT ![c] = r] /\ spent' = spent + 1
        /\ UNCHANGED <<active, mint, token, cache, recent, limit, consent, ended>>
    BY <1>1 DEF CreateUnderlying
  <2> HIDE DEF r
  <2>3. spent' \in Int /\ ended' \in EndedRec /\ cache' \subseteq consent /\ PromptsOK(active')
    <3>1. spent \in Int /\ ended \in EndedRec /\ cache \subseteq consent /\ PromptsOK(active)
      BY CallerRecord
    <3>2. QED
      BY <2>2, <3>1
  <2>4. QED
    BY <2>1, <2>2, <2>3, CallerStep
<1>2. CASE Finish(c) \/ Unreadable(c)
  <2>1. caller' = [caller EXCEPT ![c] = Idle]
        /\ UNCHANGED <<active, mint, token, cache, recent, limit, consent, spent>>
    BY <1>2 DEF Finish, Unreadable
  <2>2. ended \in EndedRec /\ spent \in Int /\ cache \subseteq consent /\ PromptsOK(active)
    BY CallerRecord
  <2>3. \/ ended' = ended
        \/ ended' \in {[ended EXCEPT !.signed = @ + 1], [ended EXCEPT !.handed = @ + 1], [ended EXCEPT !.left = @ + 1]}
    BY <1>2 DEF Finish, Unreadable
  <2>4. ended' \in EndedRec
    BY <2>2, <2>3, EndedMoves
  <2>5. QED
    BY <2>1, <2>2, <2>4, IdleStep
<1>3. QED
  BY <1>1, <1>2

LEMMA EnsureStep ==
  ASSUME PermsInv, NEW c \in Callers, Ensure(c)
  PROVE  PermsInv'
<1>1. caller[c].todo # <<>> /\ perm(c) \in Perms
      /\ UNCHANGED <<active, mint, token, cache, recent, limit, spent, consent, ended>>
  BY CallerRecord DEF Ensure
<1>2. CASE caller' = Passed(c)
  BY <1>1, <1>2, CallerRecord, PassedStep
<1>3. CASE \E f \in FoundIn(perm(c)) : caller' = [caller EXCEPT ![c].pc = "decide", ![c].found = f]
  <2>1. PICK f \in FoundIn(perm(c)) : caller' = [caller EXCEPT ![c].pc = "decide", ![c].found = f]
    BY <1>3
  <2> DEFINE r == [caller[c] EXCEPT !.pc = "decide", !.found = f]
  <2>2. f = "live" => perm(c) \in consent
    BY <1>1, LiveIsConsented
  <2>3. RecordOK(r)
    BY <1>1, <2>2, CallerRecord, FoundType DEF RecordOK, CallerRec, Pcs, perm
  <2>4. caller' = [caller EXCEPT ![c] = r]
    BY <2>1, CallerRecord DEF PermsInv, TypesOK
  <2> HIDE DEF r
  <2>5. QED
    BY <1>1, <2>3, <2>4, CallerRecord, CallerStep
<1>4. QED
  BY <1>2, <1>3 DEF Ensure

LEMMA DecideStep ==
  ASSUME PermsInv, NEW c \in Callers, Decide(c)
  PROVE  PermsInv'
<1>1. /\ caller[c].todo # <<>> /\ perm(c) \in Perms /\ perm(c) \in Keys
      /\ UNCHANGED <<mint, token, recent, limit, spent, consent, ended>>
      /\ spent \in Int /\ ended \in EndedRec /\ cache \subseteq consent /\ PromptsOK(active)
  BY CallerRecord DEF Decide, CallerOK, At, Keys
<1>2. CASE caller[c].found = "live" /\ caller' = Passed(c) /\ cache' = cache \cup {perm(c)} /\ active' = active
  <2>1. perm(c) \in consent
    BY <1>2 DEF Decide, PermsInv, ConsentOK
  <2>2. QED
    BY <1>1, <1>2, <2>1, PassedStep
<1>3. CASE JoinOrCreate(c, perm(c), {perm(c)}) /\ Goto(c, "single") /\ cache' = cache
  <2>1. PromptsOK(active')
    BY <1>1, <1>3, JoinFacts
  <2>2. QED
    BY <1>1, <1>3, <2>1, GotoStep DEF Pcs
<1>4. CASE Goto(c, IF perm(c) \in Pact /\ ~pact THEN "pact" ELSE AfterPact(c)) /\ UNCHANGED <<active, cache>>
  <2> DEFINE p == IF perm(c) \in Pact /\ ~pact THEN "pact" ELSE AfterPact(c)
  <2>1. p \in {"pact", "peer", "turn"}
    BY DEF AfterPact
  <2> HIDE DEF p
  <2>2. Goto(c, p)
    BY <1>4 DEF p
  <2>3. QED
    BY <1>1, <1>4, <2>1, <2>2, GotoStep DEF Pcs
<1>5. QED
  BY <1>2, <1>3, <1>4 DEF Decide

\* The permissions the manifest offers with this one.
LEMMA OfferFacts ==
  ASSUME NEW c, caller[c].pc \in {"pact", "peer", "group", "auth"}
  PROVE  Offer(c) \in SUBSET Perms /\ KeyOf(c) \in Keys
<1>1. Manifest \subseteq Perms /\ PeerManifest \subseteq Perms /\ Pact \subseteq Perms
  BY PermsAssumption DEF Perms, Protocols
<1>2. Offer(c) \in {Manifest, PeerManifest, Pact}
  BY DEF Offer, At
<1>3. KeyOf(c) \in GroupKeys
  BY DEF KeyOf, At, GroupKeys
<1>4. QED
  BY <1>1, <1>2, <1>3 DEF Keys

LEMMA AskGroupStep ==
  ASSUME PermsInv, NEW c \in Callers, AskGroup(c)
  PROVE  PermsInv'
<1>1. /\ caller[c].todo # <<>> /\ caller[c].pc \in {"pact", "peer", "group"}
      /\ UNCHANGED <<mint, token, recent, limit, spent, consent, ended>>
      /\ spent \in Int /\ ended \in EndedRec /\ cache \subseteq consent /\ PromptsOK(active)
  BY CallerRecord DEF AskGroup, CallerOK, Pcs
<1>2. Offer(c) \in SUBSET Perms /\ KeyOf(c) \in Keys
  BY <1>1, OfferFacts
<1>3. PICK H \in HasIn(Offer(c)) :
        /\ cache' = cache \cup {p \in Seen(c, H) : p \notin recent}
        /\ \/ Goto(c, Onward(c)) /\ UNCHANGED active
           \/ JoinOrCreate(c, KeyOf(c), Offer(c) \ H) /\ Goto(c, Waiting(c))
  BY DEF AskGroup
<1>4. cache' \subseteq consent
  <2>1. Seen(c, H) \subseteq H
    BY DEF Seen, PactSeen
  <2>2. QED
    BY <1>1, <1>2, <1>3, <2>1, HasIsConsented
<1>5. CASE Goto(c, Onward(c)) /\ UNCHANGED active
  <2>1. Onward(c) \in {"peer", "turn", "recheck"}
    BY DEF Onward, AfterPact
  <2>2. QED
    BY <1>1, <1>4, <1>5, <2>1, GotoStep DEF Pcs
<1>6. CASE JoinOrCreate(c, KeyOf(c), Offer(c) \ H) /\ Goto(c, Waiting(c))
  <2>1. Waiting(c) \in {"pactWait", "peerWait", "groupWait"}
    BY <1>1 DEF Waiting, At
  <2>2. PromptsOK(active')
    BY <1>2, <1>6, JoinFacts
  <2>3. QED
    BY <1>1, <1>4, <1>6, <2>1, <2>2, GotoStep DEF Pcs
<1>7. QED
  BY <1>3, <1>5, <1>6

LEMMA TurnStep ==
  ASSUME PermsInv, NEW c \in Callers, TakeTurn(c) \/ Turn(c)
  PROVE  PermsInv'
<1>1. /\ UNCHANGED <<active, mint, token, cache, recent, limit, spent, consent, ended>>
      /\ spent \in Int /\ ended \in EndedRec /\ cache \subseteq consent /\ PromptsOK(active) /\ CallerOK(c)
  BY CallerRecord DEF TakeTurn, Turn
<1>2. CASE TakeTurn(c)
  <2> DEFINE r == [caller[c] EXCEPT !.pc = "queued", !.had = tail # <<>>]
  <2>1. caller[c].todo # <<>>
    BY <1>1, <1>2 DEF TakeTurn, At, CallerOK
  <2>2. RecordOK(r)
    BY <2>1, CallerRecord DEF RecordOK, CallerRec, Pcs
  <2>3. caller' = [caller EXCEPT ![c] = r]
    BY <1>2, CallerRecord DEF TakeTurn, PermsInv, TypesOK
  <2> HIDE DEF r
  <2>4. QED
    BY <1>1, <2>2, <2>3, CallerStep
<1>3. CASE Turn(c) /\ caller[c].todo # <<>>
  <2>1. Goto(c, "group") \/ Goto(c, "recheck")
    BY <1>3 DEF Turn, GroupFlow
  <2>2. QED
    BY <1>1, <1>3, <2>1, GotoStep DEF Pcs
<1>4. CASE Turn(c) /\ caller[c].todo = <<>>
  <2> DEFINE r == [caller[c] EXCEPT !.pc = "auth"]
  <2>1. RecordOK(r)
    BY <1>1, <1>4, CallerRecord DEF Turn, At, CallerOK, RecordOK, CallerRec, Pcs
  <2>2. caller' = [caller EXCEPT ![c] = r]
    BY <1>4 DEF Turn, GroupFlow, Goto
  <2> HIDE DEF r
  <2>3. QED
    BY <1>1, <2>1, <2>2, CallerStep
<1>5. QED
  BY <1>2, <1>3, <1>4

\* What passes here was asked for again and is covered.
LEMMA AfterGroupStep ==
  ASSUME PermsInv, NEW c \in Callers, AfterGroup(c)
  PROVE  PermsInv'
<1>1. /\ caller[c].todo # <<>> /\ perm(c) \in Perms
      /\ UNCHANGED <<active, mint, token, recent, limit, spent, consent, ended>>
      /\ spent \in Int /\ ended \in EndedRec /\ cache \subseteq consent /\ PromptsOK(active)
  BY CallerRecord DEF AfterGroup, CallerOK
<1> DEFINE p == CASE At(c, "pactWait") -> AfterPact(c) [] At(c, "peerWait") -> "turn" [] OTHER -> "recheck"
<1>2. PICK H \in HasIn({perm(c)}) :
        /\ cache' = cache \cup (H \ recent)
        /\ caller' = IF H # {} THEN Passed(c) ELSE [caller EXCEPT ![c].answer = "none", ![c].pc = p]
  BY DEF AfterGroup
<1>3. cache' \subseteq consent
  BY <1>1, <1>2, HasIsConsented
<1>4. CASE H # {}
  BY <1>1, <1>2, <1>3, <1>4, PassedStep
<1>5. CASE H = {}
  <2>1. p \in {"peer", "turn", "recheck"}
    BY DEF AfterPact, At
  <2> HIDE DEF p
  <2> DEFINE r == [caller[c] EXCEPT !.answer = "none", !.pc = p]
  <2>2. RecordOK(r)
    BY <1>1, <2>1, CallerRecord DEF RecordOK, CallerRec, Pcs
  <2>3. caller' = [caller EXCEPT ![c] = r]
    BY <1>2, <1>5, CallerRecord DEF PermsInv, TypesOK
  <2> HIDE DEF r
  <2>4. QED
    BY <1>1, <1>3, <2>2, <2>3, CallerStep
<1>6. QED
  BY <1>4, <1>5

LEMMA OpenPromptStep ==
  ASSUME PermsInv, NEW c \in Callers, OpenPrompt(c)
  PROVE  PermsInv'
<1>1. /\ caller[c].todo # <<>> /\ perm(c) \in Perms /\ perm(c) \in Keys
      /\ UNCHANGED <<mint, token, recent, limit, spent, consent, ended>>
      /\ spent \in Int /\ ended \in EndedRec /\ cache \subseteq consent /\ PromptsOK(active)
  BY CallerRecord DEF OpenPrompt, At, CallerOK, Keys
<1>2. CASE /\ {perm(c)} \in HasIn({perm(c)})
           /\ cache' = cache \cup ({perm(c)} \ recent) /\ caller' = Passed(c) /\ active' = active
  <2>1. cache' \subseteq consent
    BY <1>1, <1>2, HasIsConsented
  <2>2. QED
    BY <1>1, <1>2, <2>1, PassedStep
<1>3. CASE JoinOrCreate(c, perm(c), {perm(c)}) /\ Goto(c, "single") /\ cache' = cache
  <2>1. PromptsOK(active')
    BY <1>1, <1>3, JoinFacts
  <2>2. QED
    BY <1>1, <1>3, <2>1, GotoStep DEF Pcs
<1>4. QED
  BY <1>2, <1>3 DEF OpenPrompt

LEMMA GrantedStep ==
  ASSUME PermsInv, NEW c \in Callers, Granted(c)
  PROVE  PermsInv'
<1>1. /\ caller[c].todo # <<>> /\ caller' = Passed(c)
      /\ UNCHANGED <<active, mint, token, cache, recent, limit, spent, consent, ended>>
      /\ spent \in Int /\ ended \in EndedRec /\ cache \subseteq consent /\ PromptsOK(active)
  BY CallerRecord DEF Granted, At, CallerOK
<1>2. QED
  BY <1>1, PassedStep

\* A prompt was denied, or a lookup failed.
LEMMA DeniedStep ==
  ASSUME PermsInv, NEW c \in Callers, Denied(c) \/ Throw(c)
  PROVE  PermsInv'
<1>1. /\ caller' = [caller EXCEPT ![c] = Idle] /\ (spent' = spent \/ spent' = spent - 1)
      /\ ended' = ended \/ ended' = [ended EXCEPT !.left = @ + 1]
      /\ UNCHANGED <<active, mint, token, cache, recent, limit, consent>>
  BY DEF Denied, Throw, Fail
<1>2. spent \in Int /\ ended \in EndedRec /\ cache \subseteq consent /\ PromptsOK(active)
  BY CallerRecord
<1>3. spent' \in Int
  BY <1>1, <1>2
<1>4. ended' \in EndedRec
  BY <1>1, <1>2, EndedMoves
<1>5. QED
  BY <1>1, <1>2, <1>3, <1>4, IdleStep

LEMMA AuthenticateAskStep ==
  ASSUME PermsInv, NEW c \in Callers, AuthenticateAsk(c)
  PROVE  PermsInv'
<1>1. /\ At(c, "auth") /\ caller[c].todo = <<>> /\ ~caller[c].open
      /\ UNCHANGED <<mint, token, recent, limit, spent, consent, ended>>
      /\ spent \in Int /\ ended \in EndedRec /\ cache \subseteq consent /\ PromptsOK(active)
  BY CallerRecord DEF AuthenticateAsk, At, CallerOK
<1>2. Offer(c) \in SUBSET Perms
  BY <1>1, OfferFacts DEF At
<1>3. PICK H \in HasIn(Offer(c)) :
        /\ cache' = cache \cup {p \in H : p \notin recent}
        /\ \/ caller' = [caller EXCEPT ![c] = Idle] /\ UNCHANGED active
           \/ JoinOrCreate(c, "group", Offer(c) \ H) /\ Goto(c, "authWait")
  BY DEF AuthenticateAsk
<1>4. cache' \subseteq consent
  BY <1>1, <1>2, <1>3, HasIsConsented
<1>5. CASE caller' = [caller EXCEPT ![c] = Idle] /\ UNCHANGED active
  BY <1>1, <1>4, <1>5, IdleStep
<1>6. CASE JoinOrCreate(c, "group", Offer(c) \ H) /\ Goto(c, "authWait")
  <2>1. "group" \in Keys
    BY DEF Keys, GroupKeys
  <2>2. PromptsOK(active')
    BY <1>2, <1>6, <2>1, JoinFacts
  <2> DEFINE r == [caller[c] EXCEPT !.pc = "authWait"]
  <2>3. RecordOK(r)
    BY <1>1, CallerRecord DEF RecordOK, CallerRec, Pcs
  <2>4. caller' = [caller EXCEPT ![c] = r]
    BY <1>6 DEF Goto
  <2> HIDE DEF r
  <2>5. QED
    BY <1>1, <1>4, <2>2, <2>3, <2>4, CallerStep
<1>7. QED
  BY <1>3, <1>5, <1>6

LEMMA AuthenticatedStep ==
  ASSUME PermsInv, NEW c \in Callers, Authenticated(c)
  PROVE  PermsInv'
<1>1. /\ caller' = [caller EXCEPT ![c] = Idle]
      /\ UNCHANGED <<active, mint, token, cache, recent, limit, spent, consent, ended>>
      /\ spent \in Int /\ ended \in EndedRec /\ cache \subseteq consent /\ PromptsOK(active)
  BY CallerRecord DEF Authenticated
<1>2. QED
  BY <1>1, IdleStep

-----------------------------------------------------------------------------
(* The user's answers, tokens and time.                                    *)

\* The callers of a prompt are told; nothing is taken from what was granted.
LEMMA SettleStep ==
  ASSUME PermsInv, NEW k \in Keys, active[k] # None, NEW a \in {"yes", "no"}, Settle(k, a),
         cache' = cache, limit' = limit, UNCHANGED <<spent, ended>>,
         consent \subseteq consent', consent' \subseteq Perms,
         mint' \in [Callers -> {None} \cup MintRec],
         \A c \in Callers : mint'[c] # None => mint'[c].perm \in consent',
         token' \in [Tokens -> [live: Nat, expired: Nat]],
         \A p \in Tokens : token'[p].live # 0 \/ token'[p].expired # 0 => p \in consent',
         recent' \subseteq consent'
  PROVE  PermsInv'
<1> USE DEF PermsInv
<1>1. /\ caller' = [c \in Callers |->
             IF c \in active[k].pending THEN [caller[c] EXCEPT !.answer = a] ELSE caller[c]]
      /\ active' = [active EXCEPT ![k] = None]
  BY DEF Settle
<1>2. \A c \in Callers : /\ caller'[c] \in CallerRec /\ caller'[c].pc = caller[c].pc /\ caller'[c].todo = caller[c].todo
                         /\ caller'[c].found = caller[c].found /\ caller'[c].open = caller[c].open
  BY <1>1 DEF TypesOK, CallerRec
<1>3. TypesOK'
  BY <1>1, <1>2 DEF TypesOK
<1>4. \A c \in Callers : CallerOK(c)'
  BY <1>2 DEF CallerOK, At
<1>5. ConsentOK'
  <2>1. \A j \in Keys : active'[j] # None /\ active'[j].granted # None => active'[j].granted \subseteq consent'
    BY <1>1 DEF TypesOK, ConsentOK
  <2>2. \A c \in Callers : At(c, "decide")' /\ caller'[c].found = "live" => perm(c)' \in consent'
    BY <1>2 DEF ConsentOK, At, perm
  <2>3. QED
    BY <2>1, <2>2 DEF ConsentOK
<1>6. QED
  BY <1>3, <1>4, <1>5

\* What is written changes; the callers and the prompts stay.
LEMMA WrittenStep ==
  ASSUME PermsInv, UNCHANGED <<caller, active, consent>>,
         mint' \in [Callers -> {None} \cup MintRec],
         \A c \in Callers : mint'[c] # None => mint'[c].perm \in consent,
         token' \in [Tokens -> [live: Nat, expired: Nat]],
         \A p \in Tokens : token'[p].live # 0 \/ token'[p].expired # 0 => p \in consent,
         limit' \in Nat, limit' # 0 => Spend \in consent,
         cache' \subseteq consent, recent' \subseteq consent, spent' \in Int, ended' \in EndedRec
  PROVE  PermsInv'
<1>1. TypesOK' /\ \A c \in Callers : CallerOK(c)'
  BY DEF PermsInv, TypesOK, CallerOK, At
<1>2. ConsentOK'
  BY DEF PermsInv, ConsentOK, At, perm
<1>3. QED
  BY <1>1, <1>2 DEF PermsInv

\* What stands unchanged in a step that settles a prompt or writes a token.
LEMMA Standing ==
  ASSUME PermsInv
  PROVE  /\ mint \in [Callers -> {None} \cup MintRec]
         /\ \A c \in Callers : mint[c] # None => mint[c] \in MintRec /\ mint[c].perm \in consent
         /\ token \in [Tokens -> [live: Nat, expired: Nat]]
         /\ \A p \in Tokens : token[p].live # 0 \/ token[p].expired # 0 => p \in consent
         /\ recent \subseteq consent /\ cache \subseteq consent /\ consent \subseteq Perms
         /\ limit \in Nat /\ (limit # 0 => Spend \in consent)
         /\ spent \in Int /\ ended \in EndedRec
         /\ \A k \in Keys : active[k] # None => active[k] \in PromptRec
BY DEF PermsInv, TypesOK, ConsentOK

LEMMA SettledStep ==
  ASSUME PermsInv, NEW k \in Keys, Deny(k) \/ (k = "group" /\ Dismiss) \/ GrantOnce(k)
  PROVE  PermsInv'
<1>1. /\ active[k] # None /\ (Settle(k, "yes") \/ Settle(k, "no"))
      /\ UNCHANGED <<mint, token, cache, recent, limit, spent, consent, ended>>
  BY DEF Deny, Dismiss, GrantOnce
<1>2. /\ mint' \in [Callers -> {None} \cup MintRec]
      /\ \A c \in Callers : mint'[c] # None => mint'[c].perm \in consent'
      /\ token' \in [Tokens -> [live: Nat, expired: Nat]]
      /\ \A p \in Tokens : token'[p].live # 0 \/ token'[p].expired # 0 => p \in consent'
      /\ recent' \subseteq consent' /\ consent' \subseteq Perms /\ consent \subseteq consent'
  BY <1>1, Standing
<1>3. QED
  BY <1>1, <1>2, SettleStep

LEMMA GrantStep ==
  ASSUME PermsInv, NEW p \in Perms, Grant(p)
  PROVE  PermsInv'
<1> DEFINE m == [perm |-> p, renewal |-> active[p].renewal, done |-> FALSE]
<1>1. /\ active[p] # None /\ p \in Keys /\ Settle(p, "yes")
      /\ mint' = [mint EXCEPT ![active[p].by] = m] /\ consent' = consent \cup {p}
      /\ UNCHANGED <<token, cache, recent, limit, spent, ended>>
  BY DEF Grant, Keys
<1>2. active[p] \in PromptRec
  BY <1>1, Standing
<1>3. m \in MintRec /\ m.perm = p /\ active[p].by \in Callers
  BY <1>2 DEF MintRec, PromptRec
<1> HIDE DEF m
<1>4. consent \subseteq consent' /\ consent' \subseteq Perms /\ recent' \subseteq consent' /\ p \in consent'
  BY <1>1, Standing
<1>5. mint' \in [Callers -> {None} \cup MintRec]
  BY <1>1, <1>3, Standing
<1>6. \A c \in Callers : mint'[c] # None => mint'[c].perm \in consent'
  BY <1>1, <1>3, <1>4, Standing
<1>7. /\ token' \in [Tokens -> [live: Nat, expired: Nat]]
      /\ \A q \in Tokens : token'[q].live # 0 \/ token'[q].expired # 0 => q \in consent'
  BY <1>1, <1>4, Standing
<1>8. QED
  BY <1>1, <1>4, <1>5, <1>6, <1>7, SettleStep

LEMMA GrantGroupStep ==
  ASSUME PermsInv, NEW k \in Keys, GrantGroup(k)
  PROVE  PermsInv'
<1>1. PICK S \in SUBSET active[k].perms :
        active' = [active EXCEPT ![k].granted = S] /\ consent' = consent \cup S
  BY DEF GrantGroup
<1>2. /\ active[k] # None /\ active[k] \in PromptRec
      /\ UNCHANGED <<caller, mint, token, cache, recent, limit, spent, ended>>
  BY Standing DEF GrantGroup
<1>3. S \subseteq Perms
  BY <1>2 DEF PromptRec
<1> DEFINE a == [active[k] EXCEPT !.granted = S]
<1>4. a \in PromptRec /\ a.granted = S
  BY <1>2, <1>3 DEF PromptRec
<1>5. active' = [active EXCEPT ![k] = a]
  BY <1>1
<1> HIDE DEF a
<1>6. active' \in [Keys -> {None} \cup PromptRec]
  BY <1>4, <1>5 DEF PermsInv, TypesOK
<1>7. \A j \in Keys : active'[j] # None /\ active'[j].granted # None => active'[j].granted \subseteq consent'
  BY <1>1, <1>4, <1>5 DEF PermsInv, TypesOK, ConsentOK
<1>8. TypesOK'
  BY <1>1, <1>2, <1>3, <1>6 DEF PermsInv, TypesOK
<1>9. \A c \in Callers : CallerOK(c)'
  BY <1>2 DEF PermsInv, CallerOK, At
<1>10. ConsentOK'
  BY <1>1, <1>2, <1>7 DEF PermsInv, ConsentOK, At, perm
<1>11. QED
  BY <1>8, <1>9, <1>10 DEF PermsInv

\* Only what was granted is written.
LEMMA GroupWrittenStep ==
  ASSUME PermsInv, NEW k \in Keys, WriteGroup(k), GroupWritten(k)
  PROVE  PermsInv'
<1> DEFINE new(made, p) ==
      IF p \notin made THEN token[p]
      ELSE IF p \in Protocols /\ token[p].expired > 0
           THEN [live |-> token[p].live + 1, expired |-> token[p].expired - 1]
           ELSE IF token[p].live + token[p].expired < MaxTokens
                THEN [token[p] EXCEPT !.live = @ + 1] ELSE token[p]
<1>1. PICK made \in SUBSET active[k].granted :
        token' = [p \in Tokens |-> new(made, p)] /\ recent' = recent \cup made
  BY DEF GroupWritten
<1>2. /\ active[k] # None /\ active[k].granted # None /\ Settle(k, "yes")
      /\ UNCHANGED <<mint, cache, limit, spent, consent, ended>>
  BY DEF WriteGroup, GroupWritten
<1>3. made \subseteq consent
  BY <1>2 DEF PermsInv, ConsentOK
<1>4. \A p \in Tokens : /\ new(made, p) \in [live: Nat, expired: Nat]
                        /\ p \notin made => new(made, p) = token[p]
  <2>1. SUFFICES ASSUME NEW p \in Tokens PROVE new(made, p) \in [live: Nat, expired: Nat]
    OBVIOUS
  <2>2. PICK l \in Nat, e \in Nat : token[p] = [live |-> l, expired |-> e]
    BY Standing
  <2>3. e > 0 => e - 1 \in Nat
    OBVIOUS
  <2>4. QED
    BY <2>2, <2>3
<1>5. token' \in [Tokens -> [live: Nat, expired: Nat]]
  BY <1>1, <1>4
<1>6. \A p \in Tokens : token'[p].live # 0 \/ token'[p].expired # 0 => p \in consent
  BY <1>1, <1>3, <1>4, Standing
<1>7. /\ mint' \in [Callers -> {None} \cup MintRec]
      /\ \A c \in Callers : mint'[c] # None => mint'[c].perm \in consent'
      /\ recent' \subseteq consent' /\ consent' \subseteq Perms /\ consent \subseteq consent'
  BY <1>1, <1>2, <1>3, Standing
<1>8. QED
  BY <1>2, <1>5, <1>6, <1>7, SettleStep

\* A grant that fails rejects its callers, or leaves the prompt as it was asked.
LEMMA GroupFailsStep ==
  ASSUME PermsInv, NEW k \in Keys, WriteGroup(k), GroupFails(k)
  PROVE  PermsInv'
<1>1. /\ active[k] # None /\ active[k] \in PromptRec
      /\ UNCHANGED <<mint, token, recent, cache, limit, spent, consent, ended>>
  BY Standing DEF WriteGroup, GroupFails
<1>2. CASE Settle(k, "no")
  <2>1. /\ mint' \in [Callers -> {None} \cup MintRec]
        /\ \A c \in Callers : mint'[c] # None => mint'[c].perm \in consent'
        /\ token' \in [Tokens -> [live: Nat, expired: Nat]]
        /\ \A p \in Tokens : token'[p].live # 0 \/ token'[p].expired # 0 => p \in consent'
        /\ recent' \subseteq consent' /\ consent' \subseteq Perms /\ consent \subseteq consent'
    BY <1>1, Standing
  <2>2. QED
    BY <1>1, <1>2, <2>1, SettleStep
<1>3. CASE active' = [active EXCEPT ![k].granted = None, ![k].thrown = TRUE] /\ caller' = caller
  <2> DEFINE a == [active[k] EXCEPT !.granted = None, !.thrown = TRUE]
  <2>1. a \in PromptRec /\ a.granted = None
    BY <1>1 DEF PromptRec
  <2>2. active' = [active EXCEPT ![k] = a]
    BY <1>3 DEF PermsInv, TypesOK
  <2> HIDE DEF a
  <2>3. active' \in [Keys -> {None} \cup PromptRec]
    BY <2>1, <2>2 DEF PermsInv, TypesOK
  <2>4. \A j \in Keys : active'[j] # None /\ active'[j].granted # None => active'[j].granted \subseteq consent'
    BY <1>1, <2>1, <2>2 DEF PermsInv, TypesOK, ConsentOK
  <2>5. TypesOK' /\ \A c \in Callers : CallerOK(c)'
    BY <1>1, <1>3, <2>3 DEF PermsInv, TypesOK, CallerOK, At
  <2>6. ConsentOK'
    BY <1>1, <1>3, <2>4 DEF PermsInv, ConsentOK, At, perm
  <2>7. QED
    BY <2>5, <2>6 DEF PermsInv
<1>4. QED
  BY <1>2, <1>3 DEF GroupFails

LEMMA WriteGroupStep ==
  ASSUME PermsInv, NEW k \in Keys, WriteGroup(k)
  PROVE  PermsInv'
BY GroupWrittenStep, GroupFailsStep DEF WriteGroup

\* A caller's token is written, or it fails, or is cached.
LEMMA MintFacts ==
  ASSUME PermsInv, NEW c \in Callers, mint[c] # None,
         NEW m \in {[mint[c] EXCEPT !.done = TRUE], None}, mint' = [mint EXCEPT ![c] = m]
  PROVE  /\ mint' \in [Callers -> {None} \cup MintRec]
         /\ \A d \in Callers : mint'[d] # None => mint'[d].perm \in consent
<1>1. mint[c] \in MintRec /\ mint[c].perm \in consent
  BY Standing
<1>2. m # None => m \in MintRec /\ m.perm = mint[c].perm
  BY <1>1 DEF MintRec
<1>3. m \in {None} \cup MintRec
  BY <1>2
<1>4. QED
  BY <1>1, <1>2, <1>3, Standing

LEMMA WriteStep ==
  ASSUME PermsInv, NEW c \in Callers, Write(c)
  PROVE  PermsInv'
<1> DEFINE done == [mint[c] EXCEPT !.done = TRUE]
<1>1. mint[c] # None /\ mint[c] \in MintRec /\ mint[c].perm \in consent /\ mint[c].perm \in Perms
  BY Standing DEF Write, CreateToken, RenewToken, WriteSpending, WriteFails, CacheGrant, MintRec
<1>2. UNCHANGED <<caller, active, consent, spent, ended>>
  BY DEF Write, CreateToken, RenewToken, WriteSpending, WriteFails, CacheGrant
<1>3. mint' = [mint EXCEPT ![c] = done] \/ mint' = [mint EXCEPT ![c] = None]
  BY DEF Write, CreateToken, RenewToken, WriteSpending, WriteFails, CacheGrant
<1>4. /\ mint' \in [Callers -> {None} \cup MintRec]
      /\ \A d \in Callers : mint'[d] # None => mint'[d].perm \in consent
  BY <1>1, <1>3, MintFacts
<1>5. spent' \in Int /\ ended' \in EndedRec
  BY <1>2, Standing
<1>6. CASE CreateToken(c) \/ RenewToken(c)
  <2> DEFINE p == mint[c].perm
  <2>1. p \in Tokens /\ UNCHANGED <<cache, recent, limit>>
    BY <1>1, <1>6 DEF CreateToken, RenewToken, Tokens
  <2>2. PICK l \in Nat, e \in Nat : token[p] = [live |-> l, expired |-> e]
    BY <2>1, Standing
  <2>3. PICK t \in [live: Nat, expired: Nat] : token' = [token EXCEPT ![p] = t]
    <3>1. CASE CreateToken(c)
      <4>1. token' = [token EXCEPT ![p] = [token[p] EXCEPT !.live = token[p].live + 1]]
        BY <2>1, <3>1 DEF CreateToken
      <4>2. [token[p] EXCEPT !.live = token[p].live + 1] \in [live: Nat, expired: Nat]
        BY <2>2
      <4>3. QED
        BY <4>1, <4>2
    <3>2. CASE RenewToken(c)
      <4>1. token' = [token EXCEPT ![p] = Renewed(p, token[p])] /\ e > 0
        BY <2>1, <2>2, <3>2, Standing DEF RenewToken
      <4>2. e - 1 \in Nat
        BY <4>1
      <4>3. Renewed(p, token[p]) \in [live: Nat, expired: Nat]
        BY <2>2, <4>2 DEF Renewed
      <4>4. QED
        BY <4>1, <4>3
    <3>3. QED
      BY <1>6, <3>1, <3>2
  <2>4. token' \in [Tokens -> [live: Nat, expired: Nat]]
    BY <2>3, Standing
  <2>5. \A q \in Tokens : token'[q].live # 0 \/ token'[q].expired # 0 => q \in consent
    BY <1>1, <2>3, Standing
  <2>6. limit' \in Nat /\ (limit' # 0 => Spend \in consent) /\ cache' \subseteq consent /\ recent' \subseteq consent
    BY <2>1, Standing
  <2>7. QED
    BY <1>2, <1>4, <1>5, <2>4, <2>5, <2>6, WrittenStep
<1>7. CASE WriteSpending(c)
  <2>1. limit' \in Nat /\ Spend \in consent /\ UNCHANGED <<token, cache, recent>>
    BY <1>1, <1>7, PermsAssumption DEF WriteSpending
  <2>2. QED
    BY <1>2, <1>4, <1>5, <2>1, WrittenStep, Standing
<1>8. CASE WriteFails(c) \/ CacheGrant(c)
  <2>1. UNCHANGED <<token, limit>> /\ cache' \subseteq consent /\ recent' \subseteq consent
    BY <1>1, <1>8, Standing DEF WriteFails, CacheGrant
  <2>2. QED
    BY <1>2, <1>4, <1>5, <2>1, WrittenStep, Standing
<1>9. QED
  BY <1>6, <1>7, <1>8 DEF Write

LEMMA TimeStep ==
  ASSUME PermsInv, Time
  PROVE  PermsInv'
<1>1. UNCHANGED <<caller, active, mint, consent>>
  BY DEF Time, NewMonth, RevokeSpending, Revoke, Expire, Age
<1>2. mint' \in [Callers -> {None} \cup MintRec] /\ \A d \in Callers : mint'[d] # None => mint'[d].perm \in consent
  BY <1>1, Standing
<1>3. CASE NewMonth \/ RevokeSpending \/ \E p \in Perms : Age(p)
  <2>1. /\ token' = token /\ (limit' = limit \/ limit' = 0)
        /\ cache' \subseteq consent /\ recent' \subseteq consent
    BY <1>3, Standing DEF NewMonth, RevokeSpending, Age
  <2>2. spent' \in Int /\ ended' \in EndedRec
    BY <1>3, Standing, NothingEnded DEF NewMonth, RevokeSpending, Age
  <2>3. QED
    BY <1>1, <1>2, <2>1, <2>2, WrittenStep, Standing
<1>4. CASE \E p \in Perms : Revoke(p) \/ Expire(p)
  <2>1. PICK p \in Perms : Revoke(p) \/ Expire(p)
    BY <1>4
  <2>2. p \in Tokens /\ UNCHANGED <<limit, recent, spent, ended>> /\ cache' \subseteq cache
    BY <2>1 DEF Revoke, Expire
  <2>3. PICK l \in Nat, e \in Nat : token[p] = [live |-> l, expired |-> e]
    BY <2>2, Standing
  <2>4. PICK t \in [live: Nat, expired: Nat] :
          token' = [token EXCEPT ![p] = t] /\ (t.live # 0 \/ t.expired # 0 => p \in consent)
    <3>1. CASE Revoke(p)
      <4>1. token' = [token EXCEPT ![p] = NoTokens]
        BY <3>1 DEF Revoke
      <4>2. NoTokens \in [live: Nat, expired: Nat] /\ NoTokens.live = 0 /\ NoTokens.expired = 0
        BY DEF NoTokens
      <4>3. QED
        BY <4>1, <4>2
    <3>2. CASE Expire(p)
      <4>1. token' = [token EXCEPT ![p] = [live |-> 0, expired |-> l + e]] /\ l > 0
        BY <2>2, <2>3, <3>2, Standing DEF Expire
      <4>2. p \in consent
        BY <2>2, <2>3, <4>1, Standing
      <4>3. [live |-> 0, expired |-> l + e] \in [live: Nat, expired: Nat]
        OBVIOUS
      <4>4. QED
        BY <4>1, <4>2, <4>3
    <3>3. QED
      BY <2>1, <3>1, <3>2
  <2>5. token' \in [Tokens -> [live: Nat, expired: Nat]]
    BY <2>4, Standing
  <2>6. \A q \in Tokens : token'[q].live # 0 \/ token'[q].expired # 0 => q \in consent
    BY <2>4, Standing
  <2>7. QED
    BY <1>1, <1>2, <2>2, <2>5, <2>6, WrittenStep, Standing
<1>5. QED
  BY <1>3, <1>4 DEF Time

\* The application signs or aborts what it was handed.
LEMMA LaterStep ==
  ASSUME PermsInv, Later
  PROVE  PermsInv'
<1>1. PICK s \in Int, h \in Int, l \in Int : ended = [signed |-> s, handed |-> h, left |-> l]
  BY Standing DEF EndedRec
<1>2. /\ UNCHANGED <<caller, active, mint, token, cache, recent, limit, consent>>
      /\ \/ ended' = [signed |-> s + 1, handed |-> h - 1, left |-> l]
         \/ ended' = [signed |-> s, handed |-> h - 1, left |-> l]
      /\ spent' \in {spent, spent - 1}
  BY <1>1 DEF Later
<1>3. ended' \in EndedRec
  BY <1>2 DEF EndedRec
<1>4. spent' \in Int
  BY <1>2, Standing
<1>5. QED
  BY <1>2, <1>3, <1>4, Standing, WrittenStep

-----------------------------------------------------------------------------
LEMMA InitPermsInv == Init => PermsInv
<1> SUFFICES ASSUME Init PROVE PermsInv
  OBVIOUS
<1> USE IdleRec, NothingEnded DEF Init
<1>1. Expired \subseteq Tokens /\ Tokens \subseteq Perms
  BY PermsAssumption DEF Tokens
<1>2. TypesOK
  BY <1>1 DEF TypesOK, Keys
<1>3. \A c \in Callers : CallerOK(c)
  BY DEF CallerOK, At
<1>4. ConsentOK
  BY DEF ConsentOK, At, Keys
<1>5. QED
  BY <1>2, <1>3, <1>4 DEF PermsInv

LEMMA NextPermsInv == PermsInv /\ [Next]_vars => PermsInv'
<1> SUFFICES ASSUME PermsInv, [Next]_vars PROVE PermsInv'
  OBVIOUS
<1>1. CASE \E c \in Callers : Call(c) \/ Authenticate(c) \/ Write(c)
  BY <1>1, CallStep, WriteStep
<1>2. ASSUME NEW c \in Callers, Run(c) PROVE PermsInv'
  BY <1>2, UnderlyingStep, EnsureStep, DecideStep, AskGroupStep, TurnStep, AfterGroupStep, OpenPromptStep,
     GrantedStep, DeniedStep, AuthenticateAskStep, AuthenticatedStep DEF Run
<1>3. ASSUME NEW k \in Keys, Answer(k) PROVE PermsInv'
  BY <1>3, SettledStep, GrantStep, GrantGroupStep, WriteGroupStep DEF Answer
<1>4. CASE UNCHANGED vars
  BY <1>4 DEF vars, PermsInv, TypesOK, CallerOK, ConsentOK, At, perm
<1>5. QED
  BY <1>1, <1>2, <1>3, <1>4, TimeStep, LaterStep DEF Next, Keys

-----------------------------------------------------------------------------
(* No call goes past a permission the user did not grant.                  *)

\* A caller is moved by its own steps and, when a prompt of its ends, by its answer.
LEMMA OtherCallers ==
  ASSUME PermsInv, NEW d \in Callers, Call(d) \/ Authenticate(d) \/ Run(d), NEW c \in Callers \ {d}
  PROVE  caller'[c] = caller[c]
<1>1. caller \in [Callers -> CallerRec]
  BY DEF PermsInv, TypesOK
<1>2. CASE Call(d) \/ Authenticate(d) \/ CreateUnderlying(d) \/ Finish(d) \/ Unreadable(d) \/ TakeTurn(d)
         \/ Turn(d) \/ Denied(d) \/ Throw(d)
  BY <1>1, <1>2 DEF Call, Authenticate, CreateUnderlying, Finish, Unreadable, Throw, TakeTurn, Turn, GroupFlow, Denied, Fail, Goto
<1>3. CASE Ensure(d) \/ Decide(d) \/ Granted(d)
  BY <1>1, <1>3 DEF Ensure, Decide, Granted, Passed, Goto
<1>4. CASE AskGroup(d) \/ AuthenticateAsk(d) \/ Authenticated(d)
  BY <1>1, <1>4 DEF AskGroup, AuthenticateAsk, Authenticated, Goto
<1>5. CASE AfterGroup(d) \/ OpenPrompt(d)
  BY <1>1, <1>5 DEF AfterGroup, OpenPrompt, Passed, Goto
<1>6. QED
  BY <1>2, <1>3, <1>4, <1>5 DEF Run

LEMMA AnswersKeepTodo ==
  ASSUME PermsInv, NEW c \in Callers,
         (\E d \in Callers : Write(d)) \/ (\E k \in Keys : Answer(k)) \/ Later \/ Time \/ UNCHANGED vars
  PROVE  caller'[c].todo = caller[c].todo /\ caller'[c].open = caller[c].open
<1>1. CASE \E k \in Keys : Answer(k)
  <2>1. PICK k \in Keys : Answer(k)
    BY <1>1
  <2>2. caller[c] \in CallerRec
    BY CallerRecord
  <2>3. caller' = caller \/ Settle(k, "yes") \/ Settle(k, "no")
    BY <2>1 DEF Answer, Deny, Dismiss, GrantOnce, Grant, GrantGroup, WriteGroup, GroupWritten, GroupFails
  <2>4. QED
    BY <2>2, <2>3 DEF Settle, CallerRec
<1>2. QED
  BY <1>1 DEF Write, CreateToken, RenewToken, WriteSpending, WriteFails, CacheGrant,
              Later, Time, NewMonth, RevokeSpending, Revoke, Expire, Age, vars

LEMMA PassedIsConsented ==
  ASSUME PermsInv, [Next]_vars, NEW c \in Callers,
         caller'[c].todo # caller[c].todo, caller[c].todo # <<>>, caller'[c].pc = "ensure"
  PROVE  perm(c) \in consent \/ (At(c, "single") /\ caller[c].answer = "yes")
<1>1. Call(c) \/ Authenticate(c) \/ Run(c)
  BY OtherCallers, AnswersKeepTodo DEF Next, Keys
<1>2. caller[c] \in CallerRec /\ caller \in [Callers -> CallerRec] /\ CallerOK(c) /\ perm(c) \in Perms
  BY CallerRecord DEF PermsInv, TypesOK
<1>3. ASSUME NEW p, Goto(c, p) PROVE FALSE
  BY <1>2, <1>3 DEF Goto, CallerRec
<1>4. ASSUME caller' = [caller EXCEPT ![c] = Idle] PROVE FALSE
  BY <1>2, <1>4, IdleRec
<1>5. CASE Call(c) \/ Authenticate(c)
  BY <1>2, <1>5 DEF Call, Authenticate, CallerOK, At
<1>6. CASE Finish(c) \/ Unreadable(c) \/ Denied(c) \/ Throw(c) \/ Authenticated(c)
  BY <1>4, <1>6 DEF Finish, Unreadable, Denied, Throw, Fail, Authenticated
<1>7. CASE CreateUnderlying(c) \/ TakeTurn(c)
  BY <1>2, <1>7 DEF CreateUnderlying, TakeTurn, CallerRec
<1>8. CASE Turn(c) \/ AskGroup(c) \/ AuthenticateAsk(c)
  BY <1>3, <1>4, <1>8 DEF Turn, GroupFlow, AskGroup, AuthenticateAsk
<1>9. CASE Ensure(c)
  <2>1. CASE Supported(perm(c))
    BY <1>2, <2>1, LiveIsConsented
  <2>2. CASE ~Supported(perm(c))
    BY <1>2, <1>9, <2>2 DEF Ensure, CallerRec
  <2>3. QED
    BY <2>1, <2>2
<1>10. CASE Decide(c)
  <2>1. CASE caller[c].found = "live"
    BY <1>10, <2>1 DEF Decide, PermsInv, ConsentOK
  <2>2. CASE caller[c].found # "live"
    BY <1>3, <1>10, <2>2 DEF Decide
  <2>3. QED
    BY <2>1, <2>2
<1>11. CASE AfterGroup(c)
  <2>1. PICK H \in HasIn({perm(c)}) : \E p :
          caller' = IF H # {} THEN Passed(c) ELSE [caller EXCEPT ![c].answer = "none", ![c].pc = p]
    BY <1>11 DEF AfterGroup
  <2>2. CASE H # {}
    BY <1>2, <2>2, HasIsConsented
  <2>3. CASE H = {}
    BY <1>2, <2>1, <2>3 DEF CallerRec
  <2>4. QED
    BY <2>2, <2>3
<1>12. CASE OpenPrompt(c)
  <2>1. CASE {perm(c)} \in HasIn({perm(c)})
    BY <1>2, <2>1, HasIsConsented
  <2>2. CASE {perm(c)} \notin HasIn({perm(c)})
    BY <1>3, <1>12, <2>2 DEF OpenPrompt
  <2>3. QED
    BY <2>1, <2>2
<1>13. CASE Granted(c)
  BY <1>13 DEF Granted
<1>14. QED
  BY <1>1, <1>5, <1>6, <1>7, <1>8, <1>9, <1>10, <1>11, <1>12, <1>13 DEF Run

\* However calls, prompts, partial grants, dismissals, failed writes, revocations and
\* expiries interleave, ensureProtocolPermission and its like let a call go on only
\* with a permission the user granted before, or with the user's answer to the very
\* prompt this call is pending on.
THEOREM ConsentComesFirst == Spec => AccessIsConsented
<1>1. PermsInv /\ [Next]_vars =>
        [\A c \in Callers : caller'[c].todo # caller[c].todo /\ caller[c].todo # <<>> /\ caller'[c].pc = "ensure"
           => perm(c) \in consent \/ (At(c, "single") /\ caller[c].answer = "yes")]_vars
  BY PassedIsConsented
<1>2. QED
  BY <1>1, InitPermsInv, NextPermsInv, PTL DEF Spec, AccessIsConsented

-----------------------------------------------------------------------------
(* The month counts signed actions and those of calls under way.           *)

Open == {c \in Callers : caller[c].open}
Ended == ended.signed + ended.handed + ended.left

\* A step that leaves the callers' actions alone.
LEMMA OpenStays ==
  ASSUME NoOrphanAction, UNCHANGED <<spent, ended>>, \A c \in Callers : caller'[c].open = caller[c].open
  PROVE  NoOrphanAction'
<1>1. Open' = Open
  BY DEF Open
<1>2. QED
  BY <1>1 DEF NoOrphanAction, Open

\* A call creates its action, or ends it.
LEMMA OpenChanges ==
  ASSUME IsFiniteSet(Callers), PermsInv, NEW c \in Callers,
         \A d \in Callers \ {c} : caller'[d].open = caller[d].open
  PROVE  /\ caller[c].open /\ ~caller'[c].open => Cardinality(Open) = Cardinality(Open') + 1
         /\ ~caller[c].open /\ caller'[c].open => Cardinality(Open') = Cardinality(Open) + 1
         /\ Cardinality(Open) \in Nat /\ Cardinality(Open') \in Nat
<1>1. IsFiniteSet(Open) /\ IsFiniteSet(Open')
  BY FS_Subset DEF Open
<1>2. Cardinality(Open) \in Nat /\ Cardinality(Open') \in Nat
  BY <1>1, FS_CardinalityType
<1>3. ASSUME caller[c].open, ~caller'[c].open PROVE Cardinality(Open) = Cardinality(Open') + 1
  <2>1. Open = Open' \cup {c} /\ c \notin Open'
    BY <1>3 DEF Open
  <2>2. QED
    BY <1>1, <2>1, FS_AddElement
<1>4. ASSUME ~caller[c].open, caller'[c].open PROVE Cardinality(Open') = Cardinality(Open) + 1
  <2>1. Open' = Open \cup {c} /\ c \notin Open
    BY <1>4 DEF Open
  <2>2. QED
    BY <1>1, <2>1, FS_AddElement
<1>5. QED
  BY <1>2, <1>3, <1>4

LEMMA OrphanStep ==
  ASSUME IsFiniteSet(Callers), PermsInv, NoOrphanAction, [Next]_vars
  PROVE  NoOrphanAction'
<1>1. caller \in [Callers -> CallerRec] /\ spent \in Int /\ ended \in EndedRec
  BY DEF PermsInv, TypesOK
<1>2. CASE NewMonth
  <2>1. spent' = 0 /\ ended' = Nothing /\ {c \in Callers : caller'[c].open} = {}
    BY <1>2 DEF NewMonth
  <2>2. ended'.signed + ended'.handed + ended'.left = 0
    BY <2>1, NothingEnded
  <2>3. Cardinality({c \in Callers : caller'[c].open}) = 0
    BY <2>1, FS_EmptySet
  <2>4. QED
    BY <2>1, <2>2, <2>3 DEF NoOrphanAction
<1>3. CASE (\E d \in Callers : Write(d)) \/ (\E k \in Keys : Answer(k)) \/ (Time /\ ~NewMonth) \/ UNCHANGED vars
  <2>1. UNCHANGED <<spent, ended>>
    BY <1>3 DEF Write, CreateToken, RenewToken, WriteSpending, WriteFails, CacheGrant,
                Time, RevokeSpending, Revoke, Expire, Age, vars,
                Answer, Deny, Dismiss, GrantOnce, Grant, GrantGroup, WriteGroup, GroupWritten, GroupFails
  <2>2. QED
    BY <1>3, <2>1, AnswersKeepTodo, OpenStays
<1>4. ASSUME NEW c \in Callers, Call(c) \/ Authenticate(c) \/ Run(c) PROVE NoOrphanAction'
  <2>1. \A d \in Callers \ {c} : caller'[d].open = caller[d].open
    BY <1>4, OtherCallers
  <2>2. caller[c] \in CallerRec /\ CallerOK(c)
    BY CallerRecord
  <2>3. spent = Ended + Cardinality(Open) /\ Ended \in Int
    BY <1>1 DEF NoOrphanAction, Open, Ended, EndedRec
  <2>4. CASE CreateUnderlying(c)
    <3>1. ~caller[c].open /\ caller'[c].open /\ spent' = spent + 1 /\ ended' = ended
      BY <1>1, <2>2, <2>4 DEF CreateUnderlying, CallerRec
    <3>2. spent' = Ended + Cardinality(Open')
      BY <1>1, <2>1, <2>3, <3>1, OpenChanges
    <3>3. QED
      BY <3>1, <3>2 DEF NoOrphanAction, Open, Ended
  <2>5. CASE Finish(c) \/ Unreadable(c) \/ Denied(c) \/ Throw(c)
    <3>1. /\ caller'[c].open = FALSE
          /\ caller[c].open =>
               \/ /\ ended' \in {[ended EXCEPT !.signed = @ + 1], [ended EXCEPT !.handed = @ + 1],
                                 [ended EXCEPT !.left = @ + 1]}
                  /\ spent' = spent
               \/ ended' = ended /\ spent' = spent - 1
          /\ ~caller[c].open => ended' = ended /\ spent' = spent
      BY <1>1, <2>5, IdleRec DEF Finish, Unreadable, Denied, Throw, Fail
    <3>2. CASE caller[c].open
      <4>1. (Ended' = Ended + 1 /\ spent' = spent) \/ (Ended' = Ended /\ spent' = spent - 1)
        BY <1>1, <3>1, <3>2, EndedMoves DEF Ended
      <4>2. spent' = Ended' + Cardinality(Open')
        BY <1>1, <2>1, <2>3, <3>1, <3>2, <4>1, OpenChanges
      <4>3. QED
        BY <4>2 DEF NoOrphanAction, Open, Ended
    <3>3. CASE ~caller[c].open
      <4>1. caller'[c].open = caller[c].open
        BY <2>2, <3>1, <3>3 DEF CallerRec
      <4>2. QED
        BY <2>1, <3>1, <3>3, <4>1, OpenStays
    <3>4. QED
      BY <3>2, <3>3
  <2>6. CASE ~(CreateUnderlying(c) \/ Finish(c) \/ Unreadable(c) \/ Denied(c) \/ Throw(c))
    <3>1. UNCHANGED <<spent, ended>>
      BY <1>4, <2>6 DEF Call, Authenticate, Run, Ensure, Decide, AskGroup, TakeTurn, Turn, AfterGroup,
                        OpenPrompt, Granted, AuthenticateAsk, Authenticated
    <3>2. caller'[c].open = caller[c].open
      <4>1. ASSUME NEW p, Goto(c, p) PROVE caller'[c].open = caller[c].open
        BY <1>1, <4>1 DEF Goto, CallerRec
      <4>2. ASSUME caller' = Passed(c) PROVE caller'[c].open = caller[c].open
        BY <1>1, <4>2 DEF Passed, Idle
      <4>3. ASSUME caller' = [caller EXCEPT ![c] = Idle], ~caller[c].open PROVE caller'[c].open = caller[c].open
        BY <1>1, <2>2, <4>3, IdleRec DEF CallerRec
      <4>4. CASE Ensure(c)
        BY <1>1, <4>2, <4>4 DEF Ensure, CallerRec
      <4>5. CASE Decide(c) \/ Granted(c) \/ OpenPrompt(c)
        BY <4>1, <4>2, <4>5 DEF Decide, Granted, OpenPrompt
      <4>6. CASE AskGroup(c) \/ Turn(c)
        BY <4>1, <4>6 DEF AskGroup, Turn, GroupFlow
      <4>7. CASE TakeTurn(c) \/ Authenticate(c)
        BY <1>1, <4>7 DEF TakeTurn, Authenticate, CallerRec
      <4>8. CASE AfterGroup(c)
        <5>1. PICK H, p :
                caller' = IF H # {} THEN Passed(c) ELSE [caller EXCEPT ![c].answer = "none", ![c].pc = p]
          BY <4>8 DEF AfterGroup
        <5>2. QED
          BY <1>1, <4>2, <5>1 DEF CallerRec
      <4>9. CASE AuthenticateAsk(c) \/ Authenticated(c)
        BY <2>2, <4>1, <4>3, <4>9 DEF AuthenticateAsk, Authenticated, CallerOK, At
      <4>10. CASE Call(c)
        <5>1. PICK todo : caller' = [caller EXCEPT ![c] = [Idle EXCEPT !.pc = "ensure", !.todo = todo]]
          BY <4>10 DEF Call
        <5>2. ~caller[c].open /\ caller[c].open \in BOOLEAN
          BY <2>2, <4>10 DEF Call, CallerOK, At, CallerRec
        <5>3. caller'[c].open = FALSE
          BY <1>1, <5>1 DEF Idle
        <5>4. QED
          BY <5>2, <5>3
      <4>11. QED
        BY <1>4, <2>6, <4>4, <4>5, <4>6, <4>7, <4>8, <4>9, <4>10 DEF Run
    <3>3. QED
      BY <2>1, <3>1, <3>2, OpenStays
  <2>7. QED
    BY <2>4, <2>5, <2>6
<1>5. CASE Later
  <2>1. \A c \in Callers : caller'[c].open = caller[c].open
    BY <1>5 DEF Later
  <2>2. Open' = Open
    BY <2>1 DEF Open
  <2>3. spent' - spent = Ended' - Ended /\ Ended \in Int /\ Ended' \in Int /\ spent' \in Int
    <3>1. PICK s \in Int, h \in Int, l \in Int : ended = [signed |-> s, handed |-> h, left |-> l]
      BY <1>1 DEF EndedRec
    <3>2. \/ ended' = [signed |-> s + 1, handed |-> h - 1, left |-> l] /\ spent' = spent
          \/ ended' = [signed |-> s, handed |-> h - 1, left |-> l] /\ spent' = spent - 1
      BY <1>5, <3>1 DEF Later
    <3>3. Ended = s + h + l /\ spent \in Int
      BY <1>1, <3>1 DEF Ended
    <3>4. CASE ended' = [signed |-> s + 1, handed |-> h - 1, left |-> l] /\ spent' = spent
      <4>1. Ended' = (s + 1) + (h - 1) + l
        BY <3>4 DEF Ended
      <4>2. QED
        BY <3>3, <3>4, <4>1
    <3>5. CASE ended' = [signed |-> s, handed |-> h - 1, left |-> l] /\ spent' = spent - 1
      <4>1. Ended' = s + (h - 1) + l
        BY <3>5 DEF Ended
      <4>2. QED
        BY <3>3, <3>5, <4>1
    <3>6. QED
      BY <3>2, <3>4, <3>5
  <2>4. IsFiniteSet(Open) /\ spent = Ended + Cardinality(Open)
    BY FS_Subset DEF NoOrphanAction, Open, Ended
  <2>5. Cardinality(Open) \in Nat
    BY <2>4, FS_CardinalityType
  <2>6. spent' = Ended' + Cardinality(Open)
    BY <1>1, <2>3, <2>4, <2>5
  <2>7. QED
    BY <2>2, <2>6 DEF NoOrphanAction, Open, Ended
<1>6. QED
  BY <1>2, <1>3, <1>4, <1>5 DEF Next, Keys

\* createAction has its action made by the underlying wallet before the spending check.
\* However that check ends, denied, granted or thrown, querySpentSince counts of the
\* finished calls only the actions that were signed, that were handed to the application
\* unsigned, and that an error outside of the check, or of abortAction, left behind.
THEOREM NothingIsOrphaned ==
  ASSUME IsFiniteSet(Callers)
  PROVE  Spec => []NoOrphanAction
<1>1. Init => NoOrphanAction
  <2> SUFFICES ASSUME Init PROVE NoOrphanAction
    OBVIOUS
  <2>1. spent = 0 /\ ended = Nothing /\ {c \in Callers : caller[c].open} = {}
    BY IdleRec DEF Init
  <2>2. ended.signed + ended.handed + ended.left = 0
    BY <2>1, NothingEnded
  <2>3. Cardinality({c \in Callers : caller[c].open}) = 0
    BY <2>1, FS_EmptySet
  <2>4. QED
    BY <2>1, <2>2, <2>3 DEF NoOrphanAction
<1>2. PermsInv /\ NoOrphanAction /\ [Next]_vars => NoOrphanAction'
  BY OrphanStep
<1>3. QED
  BY <1>1, <1>2, InitPermsInv, NextPermsInv, PTL DEF Spec

================================================================================
