------------------------------ MODULE MCRunner ------------------------------
(* Small instances of Runner for TLC.                                      *)
EXTENDS Runner, TLC

CONSTANT t1
OneThread == [r \in Runs |-> t1]
Symmetry == Permutations(Invocations) \cup Permutations(Cancellers) \cup Permutations(Runs)
=============================================================================
