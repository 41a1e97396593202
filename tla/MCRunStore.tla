----------------------------- MODULE MCRunStore -----------------------------
(* Small instances of RunStore for TLC. *)
EXTENDS RunStore, TLC

Symmetry == Permutations(Runs) \cup Permutations(Threads) \cup Permutations(LeaseIds)
OpsSymmetry ==
  Permutations(Runs) \cup Permutations(Threads) \cup Permutations(Payloads) \cup Permutations(EntryKeys)
=============================================================================
