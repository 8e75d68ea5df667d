--------------------------- MODULE MCTxExecutor ---------------------------
(***************************************************************************)
(* Instances of TxExecutor for TLC.                                        *)
(***************************************************************************)
EXTENDS TxExecutor, TLC

Symmetry == Permutations(Tx)
=============================================================================
