-------------------------- MODULE WebhookIngestion --------------------------
(***************************************************************************)
(* Public webhook ingress: the receive handler, the evidence object it     *)
(* stores with a conditional put, and the transaction that inserts the     *)
(* receipt, the canonical event and the outbox job.  The handler blocks    *)
(* its event loop, so the concurrent actors are API processes, each        *)
(* serving one delivery at a time.                                         *)
(*                                                                         *)
(* One provider identity (tenant, endpoint, provider_event_id) is          *)
(* modelled: the advisory lock, the object key, the lookup and the unique  *)
(* constraint all depend on it alone.  Deliveries of that identity carry   *)
(* one of several bodies, all of which pass authentication and validation. *)
(* A delivery is numbered; the number stands for the uuids it drew.        *)
(***************************************************************************)
EXTENDS Naturals

CONSTANTS
  Servers,        \* API processes
  Bodies,         \* exact raw bodies deliveries of the identity may carry
  MaxDeliveries,  \* bound: deliveries received
  MaxFaults,      \* bound: storage errors, failed commits and process crashes
  None            \* no row, no object, nobody

Steps == {"idle", "lookup", "put", "head", "insert", "respond", "cleanup"}
Deliveries == 1 .. MaxDeliveries
Receipts == [body: Bodies, by: Deliveries]
FaultKinds == {"put", "delete", "commit", "crash"}

ASSUME IngestionAssumption ==
  /\ MaxDeliveries \in Nat
  /\ MaxFaults \in Nat
  /\ None \notin Bodies
  /\ None \notin Servers
  /\ None \notin Receipts

VARIABLES
  step,      \* per process: where its delivery stands
  body,      \* per process: the delivery's raw body
  delivery,  \* per process: the delivery's number
  lock,      \* the process holding pg_advisory_xact_lock of the identity
  receipt,   \* webhook_receipts row, with its canonical_events and outbox_jobs rows
  evidence,  \* content of the object under the identity's key
  accepted,  \* history: what the 202 answers said
  conflicts, \* history: bodies answered 409
  received,  \* deliveries so far
  faults     \* history: the faults so far, by kind

vars == <<step, body, delivery, lock, receipt, evidence, accepted, conflicts,
          received, faults>>

Answers == [body: Bodies, by: Deliveries, duplicate: BOOLEAN, asked: Deliveries]

TypeOK ==
  /\ step \in [Servers -> Steps]
  /\ body \in [Servers -> Bodies \cup {None}]
  /\ delivery \in [Servers -> 0 .. MaxDeliveries]
  /\ lock \in Servers \cup {None}
  /\ receipt \in Receipts \cup {None}
  /\ evidence \in Bodies \cup {None}
  /\ accepted \subseteq Answers
  /\ conflicts \subseteq Bodies
  /\ received \in 0 .. MaxDeliveries
  /\ faults \in [FaultKinds -> Nat]

Init ==
  /\ step = [s \in Servers |-> "idle"]
  /\ body = [s \in Servers |-> None]
  /\ delivery = [s \in Servers |-> 0]
  /\ lock = None
  /\ receipt = None
  /\ evidence = None
  /\ accepted = {}
  /\ conflicts = {}
  /\ received = 0
  /\ faults = [k \in FaultKinds |-> 0]

-----------------------------------------------------------------------------
Goto(s, next) == step' = [step EXCEPT ![s] = next]

(* A slip: a lock of the session, which the end of a transaction keeps. *)
KeepLock(s) == UNCHANGED lock

(* The end of a transaction releases its advisory lock. *)
Unlock(s) == lock' = IF lock = s THEN None ELSE lock

(* A slip: no lock is taken before the lookup. *)
NoLock(s) == TRUE

(* pg_advisory_xact_lock returns. *)
LockGranted(s) == lock = None

FaultBudget ==
  faults["put"] + faults["delete"] + faults["commit"] + faults["crash"] < MaxFaults

Fault(kind) ==
  /\ FaultBudget
  /\ faults' = [faults EXCEPT ![kind] = @ + 1]

(* The delivery is authenticated and validated; fresh uuids are drawn. *)
Receive(s) ==
  /\ step[s] = "idle"
  /\ received < MaxDeliveries
  /\ received' = received + 1
  /\ delivery' = [delivery EXCEPT ![s] = received + 1]
  /\ \E b \in Bodies : body' = [body EXCEPT ![s] = b]
  /\ Goto(s, "lookup")
  /\ UNCHANGED <<lock, receipt, evidence, accepted, conflicts, faults>>

(* Slips: digests never compared; one that covers the delivery's own uuid. *)
AnyDigest(s) == TRUE
DigestOfDelivery(s) == receipt.body = body[s] /\ receipt.by = delivery[s]

(* hmac.compare_digest of the stored and the received body digest. *)
SameDigest(s) == receipt.body = body[s]

(* The advisory lock, then the lookup of an existing receipt.  A hit ends   *)
(* the transaction: 409 if the digests differ, else the original ids.      *)
LockAndLookup(s) ==
  /\ step[s] = "lookup"
  /\ LockGranted(s)
  /\ \/ /\ receipt = None
        /\ lock' = s
        /\ Goto(s, "put")
        /\ UNCHANGED <<accepted, conflicts>>
     \/ /\ receipt # None /\ ~SameDigest(s)
        /\ conflicts' = conflicts \cup {body[s]}
        /\ Goto(s, "idle")
        /\ UNCHANGED <<lock, accepted>>
     \/ /\ receipt # None /\ SameDigest(s)
        /\ accepted' = accepted \cup
             {[body |-> body[s], by |-> receipt.by, duplicate |-> TRUE,
               asked |-> delivery[s]]}
        /\ Goto(s, "idle")
        /\ UNCHANGED <<lock, conflicts>>
  /\ UNCHANGED <<body, delivery, receipt, evidence, received, faults>>

(* put_object with If-None-Match: created, or refused because the key      *)
(* exists (storage then compares with a HEAD of its own).                  *)
Put(s) ==
  /\ step[s] = "put"
  /\ \/ evidence = None /\ evidence' = body[s] /\ Goto(s, "insert")
     \/ evidence # None /\ UNCHANGED evidence /\ Goto(s, "head")
  /\ UNCHANGED <<body, delivery, lock, receipt, accepted, conflicts, received, faults>>

(* A slip: any existing object is taken for this delivery's. *)
AnyObject(s) == evidence # None

(* The HEAD of put_if_absent reports the body's size and digest. *)
SameObject(s) == evidence = body[s]

(* The object the put collided with: its digest matches, it differs, or it *)
(* is gone again.  The last two raise with uploaded still false: the       *)
(* transaction rolls back and nothing is deleted (500).                    *)
Head(s) ==
  /\ step[s] = "head"
  /\ \/ SameObject(s) /\ Goto(s, "insert") /\ UNCHANGED lock
     \/ ~SameObject(s) /\ Goto(s, "idle") /\ Unlock(s)
  /\ UNCHANGED <<body, delivery, receipt, evidence, accepted, conflicts, received,
                 faults>>

(* The put fails for another reason, before or after the object is stored, *)
(* or the HEAD does; uploaded is still false.                              *)
PutFails(s) ==
  /\ step[s] \in {"put", "head"}
  /\ Fault("put")
  /\ \/ UNCHANGED evidence
     \/ step[s] = "put" /\ evidence = None /\ evidence' = body[s]
  /\ Goto(s, "idle")
  /\ Unlock(s)
  /\ UNCHANGED <<body, delivery, receipt, accepted, conflicts, received>>

(* A slip: the receipt describes what storage holds at that moment. *)
InsertStored(s) ==
  receipt = None /\ receipt' = [body |-> evidence, by |-> delivery[s]]

(* The inserts, under the unique constraint of the provider identity. *)
Insert(s) ==
  receipt = None /\ receipt' = [body |-> body[s], by |-> delivery[s]]

(* The three inserts and the commit, which releases the lock. *)
Commit(s) ==
  /\ step[s] = "insert"
  /\ Insert(s)
  /\ Unlock(s)
  /\ Goto(s, "respond")
  /\ UNCHANGED <<body, delivery, evidence, accepted, conflicts, received, faults>>

(* An insert or the commit raises: the transaction is rolled back, or it   *)
(* was committed and only the acknowledgement is lost.  Either way the     *)
(* lock is free before the except clause runs.                             *)
CommitFails(s) ==
  /\ step[s] = "insert"
  /\ Fault("commit")
  /\ \/ UNCHANGED receipt
     \/ Insert(s)
  /\ Unlock(s)
  /\ Goto(s, "cleanup")
  /\ UNCHANGED <<body, delivery, evidence, accepted, conflicts, received>>

Respond(s) ==
  /\ step[s] = "respond"
  /\ accepted' = accepted \cup
       {[body |-> body[s], by |-> delivery[s], duplicate |-> FALSE,
         asked |-> delivery[s]]}
  /\ Goto(s, "idle")
  /\ UNCHANGED <<body, delivery, lock, receipt, evidence, conflicts, received, faults>>

(* Slips: a failed delivery that deletes nothing, one that deletes the row. *)
CleanupSkipped(s) ==
  /\ step[s] = "cleanup"
  /\ Goto(s, "idle")
  /\ UNCHANGED <<body, delivery, lock, receipt, evidence, accepted, conflicts,
                 received, faults>>

CleanupOfReceipt(s) ==
  /\ step[s] = "cleanup"
  /\ evidence' = None
  /\ receipt' = None
  /\ Goto(s, "idle")
  /\ UNCHANGED <<body, delivery, lock, accepted, conflicts, received, faults>>

(* except Exception: if uploaded: storage.delete(...); raise  (500) *)
Cleanup(s) ==
  /\ step[s] = "cleanup"
  /\ \/ evidence' = None /\ UNCHANGED faults
     \/ Fault("delete") /\ UNCHANGED evidence
  /\ Goto(s, "idle")
  /\ UNCHANGED <<body, delivery, lock, receipt, accepted, conflicts, received>>

(* The process dies; PostgreSQL rolls its open transaction back. *)
Crash(s) ==
  /\ step[s] # "idle"
  /\ Fault("crash")
  /\ Goto(s, "idle")
  /\ Unlock(s)
  /\ UNCHANGED <<body, delivery, receipt, evidence, accepted, conflicts, received>>

Handler(s) ==
  \/ LockAndLookup(s) \/ Put(s) \/ Head(s) \/ PutFails(s) \/ Commit(s)
  \/ CommitFails(s) \/ Respond(s) \/ Cleanup(s)

Next == \E s \in Servers : Receive(s) \/ Handler(s) \/ Crash(s)

Spec == Init /\ [][Next]_vars

(* A process that serves a delivery goes on with it. *)
FairSpec == Spec /\ \A s \in Servers : WF_vars(Handler(s))

-----------------------------------------------------------------------------
(***************************************************************************)
(* The lookup stays true until the commit: from the moment a delivery has  *)
(* found no receipt until it inserts one it holds the lock and there is    *)
(* none, so the unique constraint of webhook_receipts is never hit.        *)
(***************************************************************************)
LookupStaysTrue ==
  \A s \in Servers : step[s] \in {"put", "head", "insert"} => lock = s /\ receipt = None

(***************************************************************************)
(* All accepted deliveries of one identity were told about one receipt,    *)
(* which is stored and was made from the body they sent; the delivery that *)
(* created it is the only one told so.                                     *)
(***************************************************************************)
AcceptedAgree ==
  \A a \in accepted :
    /\ receipt # None /\ receipt.body = a.body /\ receipt.by = a.by
    /\ a.duplicate <=> a.asked # receipt.by

(***************************************************************************)
(* A delivery is refused as a conflict only when another body was stored.  *)
(***************************************************************************)
ConflictsAreReal ==
  \A b \in conflicts : receipt # None /\ receipt.body # b

(***************************************************************************)
(* Evidence never contradicts the receipt: whatever late cleanups do, the  *)
(* object of a received identity is the receipt's body or is missing.      *)
(***************************************************************************)
EvidenceMatchesReceipt ==
  receipt # None /\ evidence # None => evidence = receipt.body

(***************************************************************************)
(* At rest, evidence without a receipt is left by crashes and storage      *)
(* errors only: a transaction that rolled back cleans up after itself.     *)
(***************************************************************************)
OrphansNeedStorageFaults ==
  (\A s \in Servers : step[s] = "idle") /\ evidence # None /\ receipt = None
    => faults["put"] + faults["delete"] + faults["crash"] > 0

(* What deliveries under way know: their numbers are their own, no receipt  *)
(* carries the number of one that has not committed, the object is missing  *)
(* or theirs once the put is done, and a response states what is stored.    *)
DeliveryInv ==
  /\ \A s \in Servers : step[s] # "idle" =>
       delivery[s] \in 1 .. received /\ body[s] \in Bodies
  /\ \A s, t \in Servers :
       s # t /\ step[s] # "idle" /\ step[t] # "idle" => delivery[s] # delivery[t]
  /\ receipt # None => receipt.by <= received
  /\ \A s \in Servers : step[s] \in {"lookup", "put", "head", "insert"} /\ receipt # None
       => receipt.by # delivery[s]
  /\ \A s \in Servers : step[s] = "insert" => evidence \in {None, body[s]}
  /\ \A s \in Servers : step[s] = "respond" =>
       receipt = [body |-> body[s], by |-> delivery[s]]

(***************************************************************************)
(* The inductive invariant behind the properties above.                    *)
(***************************************************************************)
IndInv ==
  /\ TypeOK /\ DeliveryInv /\ LookupStaysTrue /\ AcceptedAgree
  /\ ConflictsAreReal /\ EvidenceMatchesReceipt

(***************************************************************************)
(* A receipt is stored once and never replaced.                            *)
(***************************************************************************)
KeepsReceipt == receipt # None => receipt' = receipt
ReceiptIsImmutable == [][KeepsReceipt]_vars

(***************************************************************************)
(* What senders see is what Receiving promises: an answer is true when it  *)
(* is given, although its transaction read the receipt before and others   *)
(* failed, cleaned up or died since; no process stores evidence once there *)
(* is a receipt.                                                           *)
(***************************************************************************)
Received == INSTANCE Receiving
ImplementsReceiving == Received!ReceivingSpec

(***************************************************************************)
(* Every delivery ends and leaves its process idle: nobody waits for ever  *)
(* for the advisory lock.                                                  *)
(***************************************************************************)
EveryDeliveryEnds ==
  \A s \in Servers : []<>(step[s] = "idle")

(***************************************************************************)
(* The architecture notes say evidence storage precedes the receipt, and a *)
(* test reads the evidence of an accepted delivery back: at rest, the      *)
(* delivery that was told it created the receipt has its evidence.  See    *)
(* README for the cleanup of another process that deletes it.              *)
(***************************************************************************)
AcceptedHasEvidence ==
  (\A s \in Servers : step[s] = "idle") /\ (\E a \in accepted : ~a.duplicate)
    => evidence = receipt.body
=============================================================================
