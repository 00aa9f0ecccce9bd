--------------------------- MODULE MCCommandResults ---------------------------
(* Small instances of CommandResults.  Symmetry is for runs that check safety
   only: TLC's liveness checking does not support it. *)
EXTENDS CommandResults, TLC

Symmetry == Permutations(Sessions) \cup Permutations(Keys)
=============================================================================
