---------------------------- MODULE MCTxRuntime ----------------------------
(* TxRuntime on small instances.                                           *)
EXTENDS TxRuntime, TLC

RunSymmetry == Permutations(Runs)
=============================================================================
