------------------------- MODULE MCWebhookIngestion -------------------------
(* Small instances of WebhookIngestion.  Symmetry is for runs that check safety
   only: TLC's liveness checking does not support it. *)
EXTENDS WebhookIngestion, TLC

Symmetry == Permutations(Servers) \cup Permutations(Bodies)
=============================================================================
