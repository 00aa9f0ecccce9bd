---------------------------- MODULE MCOperations ----------------------------
(* A small instance of Operations: an upload, a replay and two calls for a
   reconciliation. *)
EXTENDS Operations, TLC

CONSTANTS u1, p1, q1, q2

MCUploads == {u1}
MCReplayCalls == {p1}
MCReconcileCalls == {q1, q2}
MCBodies == {<<"valid", "long">>, <<"valid", "split">>}
MCJobs == MCUploads \cup (MCUploads \X {1, 2}) \cup MCReplayCalls \cup MCReconcileCalls
Symmetry == Permutations(MCReconcileCalls)
=============================================================================
