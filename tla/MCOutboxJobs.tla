---------------------------- MODULE MCOutboxJobs ----------------------------
(* Small instances of OutboxJobs.  Symmetry is for runs that check safety
   only: TLC's liveness checking does not support it. *)
EXTENDS OutboxJobs, TLC

Symmetry == Permutations(Jobs) \cup Permutations(Workers)
=============================================================================
