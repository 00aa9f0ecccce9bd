----------------------------- MODULE MCContracts -----------------------------
(* Small instances of Contracts. *)
EXTENDS Contracts, TLC

Symmetry == Permutations(Sessions) \cup Permutations(Roles) \cup Permutations(Principals)
=============================================================================
