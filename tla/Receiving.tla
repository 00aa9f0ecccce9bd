----------------------------- MODULE Receiving -----------------------------
(***************************************************************************)
(* What senders of webhooks are promised for one provider identity,        *)
(* without processes, locks or transactions: the first body recorded under *)
(* the identity is the one it stands for, whoever asks is told so at one   *)
(* instant or hears of a conflict, and only the delivery that was recorded *)
(* is told that it was the first.  The object store takes no part in the   *)
(* database transaction: evidence is stored before there is a receipt,     *)
(* never under another body than the receipt's, and may be lost at any     *)
(* time.  WebhookIngestion implements it.                                  *)
(***************************************************************************)
CONSTANTS
  Bodies,
  Deliveries,
  None        \* no receipt, no object

VARIABLES
  receipt,    \* what is recorded: the body and the delivery that brought it
  evidence,   \* the body stored as evidence
  accepted,   \* what accepted deliveries were told
  conflicts   \* bodies that were refused

receivingVars == <<receipt, evidence, accepted, conflicts>>

ReceivingInit ==
  /\ receipt = None
  /\ evidence = None
  /\ accepted = {}
  /\ conflicts = {}

StoreEvidence(b) ==
  /\ receipt = None
  /\ evidence = None
  /\ evidence' = b
  /\ UNCHANGED <<receipt, accepted, conflicts>>

LoseEvidence ==
  /\ evidence' = None
  /\ UNCHANGED <<receipt, accepted, conflicts>>

Record(d, b) ==
  /\ receipt = None
  /\ evidence \in {None, b}
  /\ receipt' = [body |-> b, by |-> d]
  /\ UNCHANGED <<evidence, accepted, conflicts>>

(* Only the delivery that was recorded hears that it was the first. *)
Accept(d) ==
  /\ receipt # None
  /\ accepted' = accepted \cup
       {[body |-> receipt.body, by |-> receipt.by, duplicate |-> d # receipt.by, asked |-> d]}
  /\ UNCHANGED <<receipt, evidence, conflicts>>

Refuse(b) ==
  /\ receipt # None /\ receipt.body # b
  /\ conflicts' = conflicts \cup {b}
  /\ UNCHANGED <<receipt, evidence, accepted>>

ReceivingNext ==
  \/ \E b \in Bodies : StoreEvidence(b) \/ Refuse(b) \/ \E d \in Deliveries : Record(d, b)
  \/ \E d \in Deliveries : Accept(d)
  \/ LoseEvidence

ReceivingSpec == ReceivingInit /\ [][ReceivingNext]_receivingVars
=============================================================================
