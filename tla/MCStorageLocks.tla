---------------------------- MODULE MCStorageLocks ----------------------------
\* StorageLocks, Chaintracks and Reproving for TLC: each behaviour runs one of
\* them, to whose processes its fairness belongs.  Liveness is checked, so no symmetry
\* is used.
EXTENDS StorageLocks, Chaintracks, Reproving, TLC

\* The transaction moves to another height when the branch changes.
CONSTANT x1
MCMinedAt == x1 :> [a |-> 2, b |-> 3]

VARIABLE part

both == <<vars, ctVars, rpVars, part>>
Locks == part = "locks"
Tracks == part = "tracks"
Proofs == part = "proofs"

BothInit == part \in {"locks", "tracks", "proofs"} /\ Init /\ CtInit /\ RpInit /\ (~Locks => concurrent)

BothNext ==
  \/ Locks /\ Next /\ UNCHANGED <<ctVars, rpVars, part>>
  \/ Tracks /\ CtNext /\ UNCHANGED <<vars, rpVars, part>>
  \/ Proofs /\ RpNext /\ UNCHANGED <<vars, ctVars, part>>

BothSpec ==
  /\ BothInit /\ [][BothNext]_both
  /\ \A c \in Callers :
      /\ WF_both(Locks /\ Resume(c) /\ UNCHANGED <<ctVars, rpVars, part>>)
      /\ WF_both(Locks /\ Exit(c) /\ UNCHANGED <<ctVars, rpVars, part>>)
  /\ WF_both(Tracks /\ (\E c \in Clients : ClientStep(c)) /\ UNCHANGED <<vars, rpVars, part>>)
  /\ \A t \in Threads : WF_both(Tracks /\ ThreadStep(t) /\ UNCHANGED <<vars, rpVars, part>>)
  /\ WF_both(Proofs /\ RpProgress /\ UNCHANGED <<vars, ctVars, part>>)
=============================================================================
