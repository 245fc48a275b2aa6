------------------------------ MODULE MCIncoming ------------------------------
\* Incoming alone.
EXTENDS Incoming, TLC

CONSTANTS u1, u2

MCSatoshis == 1 :> 3 @@ 2 :> 5
MCWants == u1 :> [{1, 2} -> {"change", "custom"}]
           @@ u2 :> {[v \in {1, 2} |-> IF v = 1 THEN "change" ELSE "none"]}
MCMaxTries == u1 :> 2 @@ u2 :> 1
================================================================================
