------------------------------- MODULE MCParts --------------------------------
\* Parts of the toolbox that share no state, for TLC: each behaviour runs one of
\* UmpWallet, ShamirWallet, HeaderStore, BulkFiles, Caches, Signing
\* and the posts or the lookups of Services.
EXTENDS UmpWallet, ShamirWallet, HeaderStore, BulkFiles, Caches, Services, Signing, TLC

CONSTANTS a1, a2, a3, a4, a5, b3, b4, b5, c4, u1, q1, q2, m1, m2, o1, o2, o3, o4

\* Headers in three branches above a2; a4 and b5 are the heavy ones.
MCBlock == {a1, a2, a3, a4, a5, b3, b4, b5, c4}
MCParent == [x \in MCBlock |->
    CASE x = a1 -> Genesis [] x \in {a3, b3} -> a2 [] x \in {b4, c4} -> b3
      [] x = a2 -> a1 [] x = a4 -> a3 [] x = a5 -> a4 [] x = b5 -> b4]
MCWork == [x \in MCBlock |-> IF x = a4 THEN 2 ELSE IF x = b5 THEN 3 ELSE 1]
\* The tree is one that the network's rules allow (the hypotheses of ChainIsOne).
ASSUME MCRules == SiblingsAlike /\ HeavierIsHigher

\* Two queries of one outpoint.
MCOutOf == q1 :> u1 @@ q2 :> u1

MCPostList == <<"TaalArcBeef", "Bitails", "WhatsOnChain">>
MCPostTxs == <<"y1">>

\* The first transaction has an input its application signs later, or none; the
\* second trusts the store's tracked outputs o1 and o2, or is refused.
GivenIn(c, script, source) == [coin |-> c, script |-> script, source |-> source]
Plain == [ins |-> <<>>, outs |-> 1, random |-> FALSE, noSend |-> FALSE,
          trust |-> FALSE, txidOnly |-> FALSE, later |-> FALSE, charged |-> FALSE]
MCAsks ==
    m1 :> {[Plain EXCEPT !.ins = <<GivenIn(o1, TRUE, "whole"), GivenIn(o3, FALSE, "whole")>>, !.random = TRUE, !.noSend = TRUE],
           [Plain EXCEPT !.outs = 0, !.random = TRUE, !.later = TRUE]}
    @@ m2 :> {[Plain EXCEPT !.ins = <<GivenIn(o2, TRUE, "txid"), GivenIn(o1, TRUE, "none")>>,
                            !.trust = TRUE, !.noSend = TRUE, !.charged = TRUE],
              [Plain EXCEPT !.later = TRUE, !.txidOnly = TRUE], [Plain EXCEPT !.ins = <<GivenIn(o4, TRUE, "whole")>>]}
MCMaxOuts == m1 :> 2 @@ m2 :> 0

VARIABLE part

PartsVars == <<umpVars, shVars, vars, bvars, caVars, svVars, sgVars, part>>

PartsInit ==
    /\ part \in {"ump", "shamir", "store", "files", "caches", "posts", "lookups", "signing"}
    /\ UmpInit /\ ShInit /\ Init /\ CaInit /\ SvInit /\ SgInit /\ (part # "posts" => mode = "UntilSuccess")
    /\ IF part = "files" THEN BulkInit ELSE BulkInit /\ backed

PartsNext ==
    \/ part = "ump" /\ UmpNext /\ UNCHANGED <<shVars, vars, bvars, caVars, svVars, sgVars, part>>
    \/ part = "shamir" /\ ShNext /\ UNCHANGED <<umpVars, vars, bvars, caVars, svVars, sgVars, part>>
    \/ part = "store" /\ Next /\ UNCHANGED <<umpVars, shVars, bvars, caVars, svVars, sgVars, part>>
    \/ part = "files" /\ BulkNext /\ UNCHANGED <<umpVars, shVars, vars, caVars, svVars, sgVars, part>>
    \/ part = "caches" /\ CaNext /\ UNCHANGED <<umpVars, shVars, vars, bvars, svVars, sgVars, part>>
    \/ part = "posts" /\ PostNext /\ UNCHANGED <<umpVars, shVars, vars, bvars, caVars, sgVars, part>>
    \/ part = "lookups" /\ LookupNext /\ UNCHANGED <<umpVars, shVars, vars, bvars, caVars, sgVars, part>>
    \/ part = "signing" /\ SgNext /\ UNCHANGED <<umpVars, shVars, vars, bvars, caVars, svVars, part>>

PartsSpec == PartsInit /\ [][PartsNext]_PartsVars

Symmetry == Permutations(Devices) \cup Permutations(Slots) \cup Permutations(SignCalls)
================================================================================
