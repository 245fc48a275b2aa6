------------------------------ MODULE Services ------------------------------
(***************************************************************************)
(* Services: transactions are posted to a list of providers, one after the *)
(* other until one succeeds or all at once, and every answer is tallied by *)
(* txid.  Posts run concurrently and move a failing provider to the end of *)
(* the list they share.  Lookups (merkle path, utxo status, raw tx, ...)   *)
(* go round a list whose position they share as well.                      *)
(***************************************************************************)
EXTENDS Naturals, Sequences, FiniteSets, Functions, SequencesExt

CONSTANTS PostList,   \* postBeefServices as the constructor fills it
          Arcs,       \* the providers among them that are ARC
          PostTxs,    \* the txids of a post, in the order of the beef
          Posts, Lookups,
          MaxPosts, MaxLookups   \* bounds: posts and lookups started

Providers == Range(PostList)
PostTxids == Range(PostTxs)
ASSUME PostAssumption ==
    /\ PostList \in Seq(Providers) /\ IsInjective(PostList)
    /\ "Bitails" \in Providers \ Arcs /\ PostTxs # <<>>

VARIABLES
    mode,       \* postBeefMode, an option of the constructor
    order,      \* postBeefServices.services
    posting,    \* what each post has asked and got
    closing,    \* "open" until close, "waiting" for posts, then "closed"
    position,   \* _index of each list of lookup providers
    looking,    \* the lookups
    posted, looked   \* how many were started

svVars == <<mode, order, posting, closing, position, looking, posted, looked>>

-----------------------------------------------------------------------------
(* What a provider makes of the answers it gets: a class for each txid, as  *)
(* tallyTxidResults counts it, and the txids the network did accept.        *)

Results(classOf, taken) == [class |-> classOf, taken |-> taken, broke |-> FALSE]

\* callService made the result itself: an exception, or the soft timeout.
ServiceFailed == [class |-> [t \in PostTxids |-> "service"], taken |-> {}, broke |-> TRUE]

Succeeded(r) == \A t \in PostTxids : r.class[t] = "success"

\* ARC is posted the whole beef and answers for the last txid; it is asked for
\* each of the others, and throws when that request fails.
ArcResults ==
    LET main == PostTxs[Len(PostTxs)]
        Reply == [seen |-> "success", spent |-> "doubleSpend", refused |-> "service", broken |-> "service"]
    IN  {Results([t \in PostTxids |-> IF t = main THEN Reply[a] ELSE IF t \in found THEN "success" ELSE "status"],
                 found \cup IF a = "seen" THEN {main} ELSE {}) :
            a \in DOMAIN Reply, found \in SUBSET (PostTxids \ {main})}

\* Bitails presumes success and corrects it from the results; without them
\* (an error status, a wrong count or txid, an exception) only the status of the
\* whole becomes "error".
Presumed == [Results([t \in PostTxids |-> "success"], {}) EXCEPT !.broke = TRUE]

BitailsResults ==
    LET Reply == [ok |-> "success", known |-> "success", missing |-> "doubleSpend", other |-> "status"]
    IN  {Presumed} \cup
        {Results([t \in PostTxids |-> Reply[a[t]]], {t \in PostTxids : a[t] \in {"ok", "known"}}) :
            a \in [PostTxids -> DOMAIN Reply]}

\* WhatsOnChain is posted one transaction after the other.  A third "Too Many
\* Requests" in a row is an answer like any other error.
WhatsOnChainResults ==
    LET Reply == [ok |-> "success", known |-> "success", conflict |-> "doubleSpend",
                  missing |-> "doubleSpend", other |-> "status", limited |-> "status", broken |-> "service"]
    IN  {Results([t \in PostTxids |-> Reply[a[t]]], {t \in PostTxids : a[t] \in {"ok", "known"}}) :
            a \in [PostTxids -> DOMAIN Reply]}

ResultsOf(s) ==
    {ServiceFailed} \cup
    IF s \in Arcs THEN ArcResults ELSE IF s = "Bitails" THEN BitailsResults ELSE WhatsOnChainResults

-----------------------------------------------------------------------------
(* runPostBeef.  A post records the providers asked, the classes counted for *)
(* each txid, what the network accepted of it and whether a provider had     *)
(* status "success".                                                         *)

PostIdle == [stage |-> "idle", list |-> <<>>, at |-> 1, asked |-> {}, won |-> FALSE,
             tally |-> [t \in PostTxids |-> {}], taken |-> {}]

\* tallyTxidResults
Tallied(p, s, r) ==
    [p EXCEPT !.asked = @ \cup {s}, !.taken = @ \cup r.taken, !.won = @ \/ (Succeeded(r) /\ ~r.broke),
              !.tally = [t \in PostTxids |-> @[t] \cup {r.class[t]}]]

\* aggregatePostBeefResultsByTxid
Aggregate(p, t) ==
    IF "doubleSpend" \in p.tally[t] THEN "doubleSpend"
    ELSE IF "success" \in p.tally[t] THEN "success"
    ELSE IF "status" \in p.tally[t] THEN "invalidTx"
    ELSE "serviceError"

\* The entries of allServicesToCall, a copy of the list when the post began;
\* mutant: the shared list as it is now.
ToCall_Shared(p) == order[posting[p].at]
ToCall(p) == posting[p].list[posting[p].at]

\* postBeef
StartPostBeef(p) ==
    /\ closing = "open" /\ posting[p].stage \in {"idle", "done"} /\ posted < MaxPosts
    /\ posting' = [posting EXCEPT ![p] = [PostIdle EXCEPT !.stage = "asking", !.list = order]]
    /\ posted' = posted + 1
    /\ UNCHANGED <<mode, order, closing, position, looking, looked>>

\* moveServiceToLast: the provider of that name is cut out and pushed.
MovedToLast(list, s) ==
    LET i == CHOOSE k \in DOMAIN list : list[k] = s
    IN  IF s \in Range(list)
        THEN [k \in 1..Len(list) |-> IF k < i THEN list[k] ELSE IF k < Len(list) THEN list[k + 1] ELSE s]
        ELSE list

\* One provider answered, threw or used up the soft timeout, UntilSuccess: stop
\* at a success, else go on, and a provider that failed as a service, without a
\* timeout, moves to the end.
AskNext(p) ==
    /\ mode = "UntilSuccess" /\ posting[p].stage = "asking"
    /\ LET s == ToCall(p)
       IN  \E r \in ResultsOf(s), timedOut \in BOOLEAN :
             LET q == Tallied(posting[p], s, r)
                 failed == \A t \in PostTxids : r.class[t] = "service"
             IN  /\ timedOut => r = ServiceFailed
                 /\ posting' = [posting EXCEPT ![p] =
                        [q EXCEPT !.at = @ + 1, !.stage = IF q.won \/ q.at = Len(q.list) THEN "done" ELSE @]]
                 /\ order' = IF failed /\ ~timedOut THEN MovedToLast(order, s) ELSE order
    /\ UNCHANGED <<mode, closing, position, looking, posted, looked>>

\* PromiseAll: any of the providers still out answers.
AskAll(p) ==
    /\ mode = "PromiseAll" /\ posting[p].stage = "asking"
    /\ \E s \in Providers \ posting[p].asked : \E r \in ResultsOf(s) :
         LET q == Tallied(posting[p], s, r)
         IN  posting' = [posting EXCEPT ![p] = [q EXCEPT !.stage = IF q.asked = Providers THEN "done" ELSE @]]
    /\ UNCHANGED <<mode, order, closing, position, looking, posted, looked>>

\* close: no new posts; the caches and the http client close after the last one.
Close ==
    /\ \/ closing = "open" /\ closing' = "waiting"
       \/ closing = "waiting" /\ (\A p \in Posts : posting[p].stage # "asking") /\ closing' = "closed"
    /\ UNCHANGED <<mode, order, posting, position, looking, posted, looked>>

-----------------------------------------------------------------------------
(* Lookups: getMerklePath asks WhatsOnChain and Bitails, the others have one *)
(* provider.  getUtxoStatus goes round twice, and isUtxo reads no answer as  *)
(* "no".                                                                     *)

\* What a provider can answer.  Each repeats a rate-limited or reset request a
\* few times; a proof whose block header nobody knows is no answer.
MerklePathAnswers == {"found", "none", "error"}
UtxoStatusAnswers == {"found", "error"}
RawTxAnswers      == {"found", "none", "error"}   \* another txid's bytes are an error
TxStatusAnswers   == {"found", "error"}           \* one failing batch fails all
HistoryAnswers    == {"found", "error"}           \* "not found" is an empty history

LookupKinds == [merklePath |-> [count |-> 2, rounds |-> 1, answers |-> MerklePathAnswers],
                utxoStatus |-> [count |-> 1, rounds |-> 2, answers |-> UtxoStatusAnswers],
                rawTx      |-> [count |-> 1, rounds |-> 1, answers |-> RawTxAnswers],
                txStatus   |-> [count |-> 1, rounds |-> 1, answers |-> TxStatusAnswers],
                history    |-> [count |-> 1, rounds |-> 1, answers |-> HistoryAnswers]]

LookIdle == [kind |-> "rawTx", stage |-> "idle", tries |-> 0, asked |-> {}, error |-> FALSE]
Moved(k) == [position EXCEPT ![k] = (@ + 1) % LookupKinds[k].count]

StartLookup(l) ==
    /\ looking[l].stage \in {"idle", "found", "none"} /\ looked < MaxLookups /\ looked' = looked + 1
    /\ \E k \in DOMAIN LookupKinds, useNext \in BOOLEAN :
         /\ looking' = [looking EXCEPT ![l] = [LookIdle EXCEPT !.kind = k, !.stage = "asking"]]
         /\ position' = IF useNext THEN Moved(k) ELSE position
    /\ UNCHANGED <<mode, order, posting, closing, posted>>

\* The call is made to the provider at the position, which others may move
\* until the answer comes.
LookupAsk(l) ==
    /\ looking[l].stage = "asking"
    /\ looking' = [looking EXCEPT ![l].stage = "waiting", ![l].asked = @ \cup {position[looking[l].kind]}]
    /\ UNCHANGED <<mode, order, posting, closing, position, posted, looked>>

LookupAnswered(l) ==
    /\ looking[l].stage = "waiting"
    /\ LET k == looking[l].kind
           tries == looking[l].tries + 1
       IN  \E answer \in LookupKinds[k].answers :
             /\ looking' = [looking EXCEPT ![l].tries = tries, ![l].error = answer # "found" /\ (@ \/ answer = "error"),
                    ![l].stage = IF answer = "found" THEN "found"
                                 ELSE IF tries = LookupKinds[k].count * LookupKinds[k].rounds THEN "none"
                                 ELSE "asking"]
             /\ position' = IF answer = "found" THEN position ELSE Moved(k)
    /\ UNCHANGED <<mode, order, posting, closing, posted, looked>>

-----------------------------------------------------------------------------
SvInit ==
    /\ mode \in {"UntilSuccess", "PromiseAll"}
    /\ order = PostList /\ posting = [p \in Posts |-> PostIdle] /\ closing = "open" /\ posted = 0
    /\ position = [k \in DOMAIN LookupKinds |-> 0] /\ looking = [l \in Lookups |-> LookIdle] /\ looked = 0

PostNext == Close \/ \E p \in Posts : StartPostBeef(p) \/ AskNext(p) \/ AskAll(p)
LookupNext == \E l \in Lookups : StartLookup(l) \/ LookupAsk(l) \/ LookupAnswered(l)
SvNext == PostNext \/ LookupNext

SvSpec == SvInit /\ [][SvNext]_svVars

-----------------------------------------------------------------------------
\* A post that ends without a success has asked every provider, although it
\* and other posts reorder the list while it goes through it.
AllAsked == \A p \in Posts : posting[p].stage = "done" /\ ~posting[p].won => posting[p].asked = Providers

\* The claim of the comment on aggregatePostBeefResultsByTxid: a txid counts as
\* broadcast only if some provider took it, and not when every call failed.
SuccessWasTaken ==
    \A p \in Posts, t \in PostTxids :
        posting[p].stage = "done" /\ Aggregate(posting[p], t) = "success" => t \in posting[p].taken
=============================================================================
