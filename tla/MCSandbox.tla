----------------------------- MODULE MCSandbox -----------------------------
(* A small instance of Sandbox: a second approval, and one webhook of each kind. *)
EXTENDS Sandbox, TLC

CONSTANT e1

MCReceipts == {<<"delivery", e1>>, <<"cod", e1>>}
Symmetry == Permutations(ApprovalKeys)
=============================================================================
