--------------------------- MODULE MCTxLifecycle ---------------------------
(* Small instances of TxLifecycle.                                          *)
EXTENDS TxLifecycle, TLC

Symmetry == Permutations(Txs) \cup Permutations(Outs)
=============================================================================
