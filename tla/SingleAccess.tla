----------------------------- MODULE SingleAccess -----------------------------
(***************************************************************************)
(* What the rest of the wallet expects of WalletStorageManager when its    *)
(* store cannot run action writers concurrently: a caller asks, is let in  *)
(* when nobody is inside, and leaves.  TxLifecycle takes this for granted  *)
(* when it makes one step of a section of code inside one runAs... call.   *)
(***************************************************************************)
CONSTANT Callers

VARIABLES
  waiting, \* callers that asked for access
  inside   \* callers that have it

vars == <<waiting, inside>>

Init == waiting = {} /\ inside = {}

Ask(c) ==
  /\ c \notin waiting \cup inside
  /\ waiting' = waiting \cup {c}
  /\ UNCHANGED inside

Enter(c) ==
  /\ c \in waiting /\ inside = {}
  /\ waiting' = waiting \ {c}
  /\ inside' = {c}

Exit(c) ==
  /\ c \in inside
  /\ inside' = inside \ {c}
  /\ UNCHANGED waiting

Next == \E c \in Callers : Ask(c) \/ Enter(c) \/ Exit(c)

\* Nobody who asked is passed over for ever.
Spec == Init /\ [][Next]_vars /\ \A c \in Callers : SF_vars(Enter(c)) /\ WF_vars(Exit(c))
=============================================================================
