---------------------------- MODULE MCLifecycle ----------------------------
(* Small instances of Lifecycle for TLC.                                   *)
EXTENDS Lifecycle, TLC

LoneSymmetry == Permutations(Tasks) \cup Permutations(Instances)
=============================================================================
