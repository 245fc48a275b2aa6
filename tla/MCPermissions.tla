---------------------------- MODULE MCPermissions ----------------------------
\* Permissions and Broadcast for TLC: each behaviour runs one of them, and the
\* other is where none of its fair actions can be taken.  Liveness is checked, so
\* no symmetry is used.
EXTENDS Permissions, Broadcast

VARIABLE part

twoVars == <<vars, bcVars, part>>

\* The transaction was sent: nothing of Broadcast is left to be done.
Sent ==
  /\ stored = [status |-> "unmined", attempts |-> 1, notes |-> [k \in Attempts |-> IF k = 1 THEN 1 ELSE 0]]
  /\ txRow = "unproven" /\ managed = TRUE /\ stream = {} /\ sent = {1}
  /\ mon = Stopped /\ work = [w \in Workers |-> Stopped] /\ torn = FALSE /\ troubles = 0

TwoInit ==
  /\ part \in {"permissions", "broadcast"}
  /\ Init
  /\ IF part = "broadcast" THEN BcInit ELSE Sent

TwoNext ==
  \/ part = "permissions" /\ Next /\ UNCHANGED <<bcVars, part>>
  \/ part = "broadcast" /\ BcNext /\ UNCHANGED <<vars, part>>

TwoSpec == TwoInit /\ [][TwoNext]_twoVars /\ Fairness /\ BcFairness
=============================================================================
