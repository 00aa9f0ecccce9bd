----------------------- MODULE WebhookIngestionProofs -----------------------
(***************************************************************************)
(* Theorems about WebhookIngestion, for any number of API processes,       *)
(* bodies, deliveries and faults.                                          *)
(***************************************************************************)
EXTENDS WebhookIngestion, TLAPS

LEMMA InitInv == Init => IndInv
BY IngestionAssumption
   DEF Init, IndInv, TypeOK, DeliveryInv, LookupStaysTrue, AcceptedAgree,
       ConflictsAreReal, EvidenceMatchesReceipt, Steps, FaultKinds

LEMMA FaultType ==
  ASSUME TypeOK, NEW k \in FaultKinds, Fault(k)
  PROVE  faults' \in [FaultKinds -> Nat]
BY DEF Fault, TypeOK

LEMMA ReceiveStep ==
  ASSUME IndInv, NEW s \in Servers, Receive(s)
  PROVE  IndInv'
<1> USE DEF IndInv
<1>1. PICK b \in Bodies : body' = [body EXCEPT ![s] = b]
  BY DEF Receive
<1>2. TypeOK'
  BY <1>1, IngestionAssumption DEF TypeOK, Receive, Goto, Steps
<1>3. DeliveryInv'
  <2>1. received \in Nat /\ received' = received + 1
        /\ delivery' = [delivery EXCEPT ![s] = received + 1]
        /\ step' = [step EXCEPT ![s] = "lookup"] /\ step[s] = "idle"
        /\ UNCHANGED <<receipt, evidence>>
    BY DEF Receive, Goto, TypeOK
  <2>2. \A t \in Servers : t # s => delivery'[t] = delivery[t] /\ step'[t] = step[t]
                                    /\ body'[t] = body[t]
    BY <1>1, <2>1 DEF TypeOK
  <2>3. delivery'[s] = received + 1 /\ step'[s] = "lookup" /\ body'[s] = b
    BY <1>1, <2>1 DEF TypeOK
  <2>4. \A t \in Servers : step'[t] # "idle" =>
          delivery'[t] \in 1 .. received' /\ body'[t] \in Bodies
    BY <2>1, <2>2, <2>3 DEF DeliveryInv
  <2>5. \A u, v \in Servers :
          u # v /\ step'[u] # "idle" /\ step'[v] # "idle" => delivery'[u] # delivery'[v]
    BY <2>1, <2>2, <2>3 DEF DeliveryInv
  <2>6. receipt # None => receipt.by \in Nat /\ receipt.by <= received
    BY DEF DeliveryInv, TypeOK, Receipts, Deliveries
  <2>7. \A t \in Servers : step'[t] \in {"lookup", "put", "head", "insert"}
          /\ receipt' # None => receipt'.by # delivery'[t]
    BY <2>1, <2>2, <2>3, <2>6 DEF DeliveryInv
  <2>8. \A t \in Servers : step'[t] = "insert" => evidence' \in {None, body'[t]}
    BY <2>1, <2>2, <2>3 DEF DeliveryInv
  <2>9. \A t \in Servers : step'[t] = "respond" =>
          receipt' = [body |-> body'[t], by |-> delivery'[t]]
    BY <2>1, <2>2, <2>3 DEF DeliveryInv
  <2> QED
    BY <2>1, <2>4, <2>5, <2>6, <2>7, <2>8, <2>9 DEF DeliveryInv
<1>4. LookupStaysTrue'
  BY DEF Receive, Goto, LookupStaysTrue, TypeOK
<1>5. AcceptedAgree' /\ ConflictsAreReal' /\ EvidenceMatchesReceipt'
  BY DEF Receive, AcceptedAgree, ConflictsAreReal, EvidenceMatchesReceipt
<1> QED
  BY <1>2, <1>3, <1>4, <1>5

(* A step of process s that leaves receipts, evidence, bodies and numbers    *)
(* alone and sends s somewhere it may be.                                    *)
LEMMA QuietStep ==
  ASSUME IndInv, NEW s \in Servers, NEW next \in Steps, Goto(s, next),
         UNCHANGED <<body, delivery, receipt, received>>,
         step[s] # "idle",
         next # "respond",
         evidence' = evidence \/ evidence' = None,
         next = "lookup" => step[s] = "lookup",
         next \in {"put", "head", "insert"} => lock' = s /\ receipt = None,
         next = "insert" => evidence' = body[s],
         \A t \in Servers : t # s /\ lock = t => lock' = t
  PROVE  DeliveryInv' /\ LookupStaysTrue' /\ EvidenceMatchesReceipt'
<1> USE DEF IndInv, Goto
<1>1. /\ step'[s] = next
      /\ \A t \in Servers : t # s => step'[t] = step[t]
  BY DEF TypeOK
<1>2. DeliveryInv'
  <2>1. \A t \in Servers : step'[t] # "idle" => step[t] # "idle"
    BY <1>1
  <2>2. \A t \in Servers : step'[t] \in {"lookup", "put", "head", "insert"}
          /\ receipt # None => receipt.by # delivery[t]
    BY <1>1 DEF DeliveryInv
  <2>3. \A t \in Servers : step'[t] = "insert" => evidence' \in {None, body[t]}
    BY <1>1 DEF DeliveryInv
  <2>4. \A t \in Servers : step'[t] = "respond" =>
          receipt = [body |-> body[t], by |-> delivery[t]]
    BY <1>1 DEF DeliveryInv
  <2> QED
    BY <2>1, <2>2, <2>3, <2>4 DEF DeliveryInv
<1>3. LookupStaysTrue'
  BY <1>1 DEF LookupStaysTrue
<1>4. EvidenceMatchesReceipt'
  BY DEF EvidenceMatchesReceipt
<1> QED
  BY <1>2, <1>3, <1>4

LEMMA LookupStep ==
  ASSUME IndInv, NEW s \in Servers, LockAndLookup(s)
  PROVE  IndInv'
<1> USE DEF IndInv
<1>1. /\ step[s] = "lookup" /\ lock = None
      /\ UNCHANGED <<body, delivery, receipt, evidence, received, faults>>
  BY DEF LockAndLookup, LockGranted, SameDigest
<1>2. body[s] \in Bodies /\ delivery[s] \in Deliveries
  BY <1>1 DEF TypeOK, DeliveryInv, Deliveries
<1>3. CASE receipt = None
  <2>1. lock' = s /\ Goto(s, "put") /\ UNCHANGED <<accepted, conflicts>>
    BY <1>3 DEF LockAndLookup, LockGranted, SameDigest
  <2>2. TypeOK'
    BY <1>1, <2>1 DEF TypeOK, Goto, Steps
  <2>3. DeliveryInv' /\ LookupStaysTrue' /\ EvidenceMatchesReceipt'
    BY <1>1, <1>3, <2>1, QuietStep, IngestionAssumption DEF Steps
  <2>4. AcceptedAgree' /\ ConflictsAreReal'
    BY <1>1, <2>1 DEF AcceptedAgree, ConflictsAreReal
  <2> QED
    BY <2>2, <2>3, <2>4
<1>4. CASE receipt # None /\ receipt.body # body[s]
  <2>1. lock' = lock /\ Goto(s, "idle") /\ UNCHANGED accepted
        /\ conflicts' = conflicts \cup {body[s]}
    BY <1>4 DEF LockAndLookup, LockGranted, SameDigest
  <2>2. TypeOK'
    BY <1>1, <1>2, <2>1 DEF TypeOK, Goto, Steps
  <2>3. DeliveryInv' /\ LookupStaysTrue' /\ EvidenceMatchesReceipt'
    BY <1>1, <2>1, QuietStep DEF Steps
  <2>4. AcceptedAgree' /\ ConflictsAreReal'
    BY <1>1, <1>4, <2>1 DEF AcceptedAgree, ConflictsAreReal
  <2> QED
    BY <2>2, <2>3, <2>4
<1>5. CASE receipt # None /\ receipt.body = body[s]
  <2> DEFINE a == [body |-> body[s], by |-> receipt.by, duplicate |-> TRUE,
                   asked |-> delivery[s]]
  <2>1. lock' = lock /\ Goto(s, "idle") /\ UNCHANGED conflicts
        /\ accepted' = accepted \cup {a}
    BY <1>5 DEF LockAndLookup, LockGranted, SameDigest
  <2>2. receipt \in Receipts /\ receipt.by # delivery[s]
    BY <1>1, <1>5 DEF TypeOK, DeliveryInv
  <2>3. a \in Answers
    BY <1>2, <2>2 DEF Answers, Receipts
  <2>4. TypeOK'
    BY <1>1, <2>1, <2>3 DEF TypeOK, Goto, Steps
  <2>5. DeliveryInv' /\ LookupStaysTrue' /\ EvidenceMatchesReceipt'
    BY <1>1, <2>1, QuietStep DEF Steps
  <2>6. AcceptedAgree' /\ ConflictsAreReal'
    BY <1>1, <1>5, <2>1, <2>2 DEF AcceptedAgree, ConflictsAreReal
  <2> QED
    BY <2>4, <2>5, <2>6
<1> QED
  BY <1>3, <1>4, <1>5

(* Steps before the commit, by the holder of the lock: no receipt yet, so    *)
(* nothing has been answered and the object may change.                      *)
LEMMA UploadStep ==
  ASSUME IndInv, NEW s \in Servers, Put(s) \/ Head(s) \/ PutFails(s)
  PROVE  IndInv'
<1> USE DEF IndInv
<1>1. /\ lock = s /\ receipt = None
      /\ step[s] \in {"put", "head"}
      /\ body[s] \in Bodies
      /\ UNCHANGED <<body, delivery, receipt, accepted, conflicts, received>>
  BY DEF Put, Head, PutFails, LookupStaysTrue, DeliveryInv
<1>2. /\ evidence' \in Bodies \cup {None}
      /\ lock' \in {s, None}
      /\ faults' \in [FaultKinds -> Nat]
  BY <1>1, FaultType DEF Put, Head, PutFails, Unlock, TypeOK, FaultKinds
<1>3. PICK next \in {"insert", "head", "idle"} :
        /\ Goto(s, next)
        /\ next \in {"insert", "head"} => lock' = s
        /\ next = "insert" => evidence' = body[s]
  BY <1>1 DEF SameObject, Put, Head, PutFails
<1>4. TypeOK'
  BY <1>1, <1>2, <1>3 DEF TypeOK, Goto, Steps
<1>5. /\ step'[s] = next
      /\ \A t \in Servers : t # s => step'[t] = step[t]
      /\ \A t \in Servers : t # s => step[t] \notin {"put", "head", "insert"}
  BY <1>1, <1>3 DEF TypeOK, Goto, LookupStaysTrue
<1>6. DeliveryInv'
  <2>1. \A t \in Servers : step'[t] # "idle" => step[t] # "idle"
    BY <1>1, <1>5
  <2>2. \A t \in Servers : step'[t] = "insert" => evidence' \in {None, body[t]}
    BY <1>3, <1>5
  <2>3. \A t \in Servers : step'[t] # "respond"
    <3> SUFFICES ASSUME NEW t \in Servers, step'[t] = "respond" PROVE FALSE
      OBVIOUS
    <3>1. step[t] = "respond"
      BY <1>1, <1>5
    <3>2. receipt = [body |-> body[t], by |-> delivery[t]] /\ body[t] \in Bodies
          /\ delivery[t] \in 1 .. received /\ received \in 0 .. MaxDeliveries
      BY <3>1 DEF DeliveryInv, TypeOK
    <3>3. delivery[t] \in Deliveries
      BY <3>2, IngestionAssumption DEF Deliveries
    <3>4. receipt \in Receipts
      BY <3>2, <3>3 DEF Receipts
    <3> QED
      BY <1>1, <3>4, IngestionAssumption
  <2> QED
    BY <1>1, <2>1, <2>2, <2>3 DEF DeliveryInv
<1>7. LookupStaysTrue'
  BY <1>1, <1>3, <1>5 DEF LookupStaysTrue
<1>8. AcceptedAgree' /\ ConflictsAreReal' /\ EvidenceMatchesReceipt'
  BY <1>1 DEF AcceptedAgree, ConflictsAreReal, EvidenceMatchesReceipt
<1> QED
  BY <1>4, <1>6, <1>7, <1>8

LEMMA CommitStep ==
  ASSUME IndInv, NEW s \in Servers, Commit(s) \/ CommitFails(s)
  PROVE  IndInv'
<1> USE DEF IndInv
<1> DEFINE row == [body |-> body[s], by |-> delivery[s]]
<1>1. /\ lock = s /\ receipt = None /\ step[s] = "insert"
      /\ body[s] \in Bodies /\ delivery[s] \in 1 .. received
      /\ received \in 0 .. MaxDeliveries
      /\ lock' = None
      /\ UNCHANGED <<body, delivery, evidence, accepted, conflicts, received>>
  BY DEF Commit, CommitFails, LookupStaysTrue, DeliveryInv, Unlock, TypeOK
<1>2. /\ receipt' \in {None, row}
      /\ faults' \in [FaultKinds -> Nat]
      /\ \/ Goto(s, "respond") /\ receipt' = row
         \/ Goto(s, "cleanup")
  BY <1>1, FaultType DEF Insert, Commit, CommitFails, TypeOK, FaultKinds
<1>3. row \in Receipts /\ row # None
  BY <1>1, IngestionAssumption DEF Receipts, Deliveries
<1>4. TypeOK'
  BY <1>1, <1>2, <1>3 DEF TypeOK, Goto, Steps
<1>5. /\ step'[s] \in {"respond", "cleanup"}
      /\ step'[s] = "respond" => receipt' = row
      /\ \A t \in Servers : t # s => step'[t] = step[t]
      /\ \A t \in Servers : t # s => step[t] \notin {"put", "head", "insert"}
  BY <1>1, <1>2 DEF TypeOK, Goto, LookupStaysTrue
<1>6. \A t \in Servers : t # s => step[t] # "respond"
  <2> SUFFICES ASSUME NEW t \in Servers, step[t] = "respond" PROVE FALSE
    BY <1>1
  <2>1. receipt = [body |-> body[t], by |-> delivery[t]] /\ body[t] \in Bodies
        /\ delivery[t] \in 1 .. received
    BY DEF DeliveryInv
  <2>2. receipt \in Receipts
    BY <1>1, <2>1, IngestionAssumption DEF Receipts, Deliveries
  <2> QED
    BY <1>1, <2>2, IngestionAssumption
<1>7. DeliveryInv'
  <2>1. \A t \in Servers : step'[t] # "idle" => step[t] # "idle"
    BY <1>1, <1>5
  <2>2. receipt' # None => receipt'.by = delivery[s] /\ receipt'.by \in 1 .. received
    BY <1>1, <1>2
  <2>3. \A t \in Servers : step'[t] \in {"lookup", "put", "head", "insert"}
          /\ receipt' # None => receipt'.by # delivery[t]
    BY <1>1, <1>5, <2>2 DEF DeliveryInv
  <2>4. \A t \in Servers : step'[t] # "insert"
    BY <1>5
  <2>5. \A t \in Servers : step'[t] = "respond" => receipt' = [body |-> body[t], by |-> delivery[t]]
    BY <1>5, <1>6
  <2> QED
    BY <1>1, <2>1, <2>2, <2>3, <2>4, <2>5 DEF DeliveryInv, TypeOK
<1>8. LookupStaysTrue'
  BY <1>5 DEF LookupStaysTrue
<1>9. AcceptedAgree' /\ ConflictsAreReal'
  BY <1>1 DEF AcceptedAgree, ConflictsAreReal
<1>10. EvidenceMatchesReceipt'
  BY <1>1, <1>2 DEF EvidenceMatchesReceipt, DeliveryInv
<1> QED
  BY <1>4, <1>7, <1>8, <1>9, <1>10

LEMMA RespondStep ==
  ASSUME IndInv, NEW s \in Servers, Respond(s)
  PROVE  IndInv'
<1> USE DEF IndInv
<1> DEFINE a == [body |-> body[s], by |-> delivery[s], duplicate |-> FALSE,
                 asked |-> delivery[s]]
<1>1. /\ step[s] = "respond" /\ Goto(s, "idle") /\ accepted' = accepted \cup {a}
      /\ UNCHANGED <<body, delivery, lock, receipt, evidence, conflicts, received, faults>>
  BY DEF Respond
<1>2. /\ receipt = [body |-> body[s], by |-> delivery[s]]
      /\ body[s] \in Bodies /\ delivery[s] \in 1 .. received
      /\ received \in 0 .. MaxDeliveries
  BY <1>1 DEF DeliveryInv, TypeOK
<1>3. a \in Answers /\ receipt # None
  BY <1>2, IngestionAssumption DEF Answers, Deliveries, Receipts
<1>4. TypeOK'
  BY <1>1, <1>3 DEF TypeOK, Goto, Steps
<1>5. DeliveryInv' /\ LookupStaysTrue' /\ EvidenceMatchesReceipt'
  BY <1>1, QuietStep DEF Steps
<1>6. AcceptedAgree' /\ ConflictsAreReal'
  BY <1>1, <1>2, <1>3 DEF AcceptedAgree, ConflictsAreReal
<1> QED
  BY <1>4, <1>5, <1>6

LEMMA EndStep ==
  ASSUME IndInv, NEW s \in Servers, Cleanup(s) \/ Crash(s)
  PROVE  IndInv'
<1> USE DEF IndInv
<1>1. /\ step[s] # "idle" /\ Goto(s, "idle")
      /\ evidence' = evidence \/ evidence' = None
      /\ lock' = lock \/ (lock = s /\ lock' = None)
      /\ faults' \in [FaultKinds -> Nat]
      /\ UNCHANGED <<body, delivery, receipt, accepted, conflicts, received>>
  BY FaultType DEF Cleanup, Crash, Unlock, TypeOK, FaultKinds
<1>2. TypeOK'
  BY <1>1 DEF TypeOK, Goto, Steps
<1>3. DeliveryInv' /\ LookupStaysTrue' /\ EvidenceMatchesReceipt'
  BY <1>1, QuietStep DEF Steps
<1>4. AcceptedAgree' /\ ConflictsAreReal'
  BY <1>1 DEF AcceptedAgree, ConflictsAreReal
<1> QED
  BY <1>2, <1>3, <1>4

LEMMA NextInv == IndInv /\ [Next]_vars => IndInv'
<1> SUFFICES ASSUME IndInv, [Next]_vars PROVE IndInv'
  OBVIOUS
<1>1. CASE Next
  BY <1>1, ReceiveStep, LookupStep, UploadStep, CommitStep, RespondStep, EndStep
     DEF Next, Handler
<1>2. CASE UNCHANGED vars
  BY <1>2 DEF vars, IndInv, TypeOK, DeliveryInv, LookupStaysTrue, AcceptedAgree,
              ConflictsAreReal, EvidenceMatchesReceipt
<1> QED
  BY <1>1, <1>2

(* The inductive invariant holds of every reachable state. *)
THEOREM Inductive == Spec => []IndInv
BY InitInv, NextInv, PTL DEF Spec

(* Every variable keeps its type. *)
THEOREM TypeCorrect == Spec => []TypeOK
<1>1. IndInv => TypeOK
  BY DEF IndInv
<1> QED
  BY <1>1, Inductive, PTL

(* The check under the advisory lock is still true when the receipt is inserted. *)
THEOREM LookupIsProtected == Spec => []LookupStaysTrue
<1>1. IndInv => LookupStaysTrue
  BY DEF IndInv
<1> QED
  BY <1>1, Inductive, PTL

(* All 202 answers of an identity name one stored receipt of their own body. *)
THEOREM AcceptedAgreement == Spec => []AcceptedAgree
<1>1. IndInv => AcceptedAgree
  BY DEF IndInv
<1> QED
  BY <1>1, Inductive, PTL

(* Evidence never contradicts the receipt it belongs to. *)
THEOREM EvidenceAgreement == Spec => []EvidenceMatchesReceipt
<1>1. IndInv => EvidenceMatchesReceipt
  BY DEF IndInv
<1> QED
  BY <1>1, Inductive, PTL

(* A committed receipt is never replaced, whatever is retried. *)
THEOREM ReceiptStays == Spec => ReceiptIsImmutable
<1>1. IndInv /\ [Next]_vars => [KeepsReceipt]_vars
  BY DEF IndInv, Next, Handler, KeepsReceipt, LookupStaysTrue, Receive, LockAndLookup, Put,
         Head, PutFails, Commit, CommitFails, Respond, Cleanup, Crash, vars
<1> QED
  BY <1>1, Inductive, PTL DEF Spec, ReceiptIsImmutable

(* A conflict is only ever answered to a body that differs from the stored one. *)
THEOREM ConflictsAgreement == Spec => []ConflictsAreReal
<1>1. IndInv => ConflictsAreReal
  BY DEF IndInv
<1> QED
  BY <1>1, Inductive, PTL

-----------------------------------------------------------------------------
(* Evidence without a receipt has somebody who answers for it: a delivery   *)
(* that will commit the receipt or delete the object, or a storage error or *)
(* crash that cost it that delivery.                                        *)
EvidenceIsOwned ==
  evidence # None /\ receipt = None =>
    \/ \E s \in Servers : step[s] \in {"insert", "cleanup"}
    \/ faults["put"] + faults["delete"] + faults["crash"] > 0

(* A fault is counted under its kind, and the counts only grow. *)
LEMMA FaultsAreCounted ==
  ASSUME TypeOK, NEW k \in FaultKinds, Fault(k)
  PROVE  /\ \A l \in FaultKinds : faults[l] \in Nat /\ faults'[l] \in Nat
         /\ \A l \in FaultKinds : faults'[l] >= faults[l]
         /\ faults'[k] > 0
BY DEF Fault, TypeOK

(* A failed commit leaves its delivery to clean up; every other way to end a *)
(* delivery that owns an object stores the receipt, deletes the object or is *)
(* a counted fault.                                                          *)
LEMMA OwnerStep ==
  ASSUME IndInv, EvidenceIsOwned, NEW s \in Servers, Receive(s) \/ Handler(s) \/ Crash(s)
  PROVE  EvidenceIsOwned'
<1> DEFINE storage == faults["put"] + faults["delete"] + faults["crash"]
<1>1. /\ TypeOK
      /\ {"put", "delete", "commit", "crash"} = FaultKinds
      /\ \A k \in FaultKinds : faults[k] \in Nat
  BY DEF IndInv, TypeOK, FaultKinds
<1>2. ASSUME UNCHANGED <<faults, receipt>>, evidence' = evidence \/ evidence' = None,
             step[s] \notin {"insert", "cleanup"} \/ evidence' = None,
             NEW next \in Steps, Goto(s, next)
      PROVE  EvidenceIsOwned'
  <2>1. \A t \in Servers : t # s => step'[t] = step[t]
    BY <1>1, <1>2 DEF Goto, TypeOK
  <2> QED
    BY <1>2, <2>1 DEF EvidenceIsOwned
<1>3. ASSUME NEW k \in {"put", "delete", "crash"}, Fault(k) PROVE EvidenceIsOwned'
  BY <1>1, <1>3, FaultsAreCounted DEF EvidenceIsOwned
<1>4. ASSUME NEW next \in {"insert", "cleanup"}, Goto(s, next) PROVE EvidenceIsOwned'
  BY <1>1, <1>4 DEF EvidenceIsOwned, Goto, TypeOK
<1>5. CASE Receive(s)
  BY <1>2, <1>5 DEF Receive, Steps
<1>6. CASE LockAndLookup(s)
  BY <1>2, <1>6 DEF LockAndLookup, Steps
<1>7. CASE Put(s) \/ Head(s)
  BY <1>2, <1>4, <1>7 DEF Put, Head, Steps
<1>8. CASE PutFails(s) \/ Crash(s)
  BY <1>3, <1>8 DEF PutFails, Crash
<1>9. CASE Commit(s)
  <2>1. /\ receipt' = [body |-> body[s], by |-> delivery[s]]
        /\ body[s] \in Bodies /\ delivery[s] \in 1 .. received
        /\ received \in 0 .. MaxDeliveries
    BY <1>9 DEF Commit, Insert, IndInv, TypeOK, DeliveryInv
  <2>2. receipt' \in Receipts
    BY <2>1, IngestionAssumption DEF Receipts, Deliveries
  <2> QED
    BY <2>2, IngestionAssumption DEF EvidenceIsOwned
<1>10. CASE CommitFails(s)
  BY <1>4, <1>10 DEF CommitFails
<1>11. CASE Respond(s)
  BY <1>2, <1>11 DEF Respond, Steps
<1>12. CASE Cleanup(s)
  BY <1>2, <1>3, <1>12 DEF Cleanup, Steps
<1> QED
  BY <1>5, <1>6, <1>7, <1>8, <1>9, <1>10, <1>11, <1>12 DEF Handler

(***************************************************************************)
(* At rest, evidence without a receipt is the work of a storage error or a *)
(* crash: a failed commit alone always cleans up after itself, whichever   *)
(* deliveries of the identity are retried meanwhile.                       *)
(***************************************************************************)
THEOREM OrphansHaveACause == Spec => []OrphansNeedStorageFaults
<1>1. Init => EvidenceIsOwned
  BY DEF Init, EvidenceIsOwned
<1>2. IndInv /\ EvidenceIsOwned /\ [Next]_vars => EvidenceIsOwned'
  <2>1. IndInv /\ EvidenceIsOwned /\ Next => EvidenceIsOwned'
    BY OwnerStep DEF Next
  <2>2. EvidenceIsOwned /\ UNCHANGED vars => EvidenceIsOwned'
    BY DEF EvidenceIsOwned, vars
  <2> QED
    BY <2>1, <2>2
<1>3. EvidenceIsOwned => OrphansNeedStorageFaults
  BY DEF EvidenceIsOwned, OrphansNeedStorageFaults
<1> QED
  BY <1>1, <1>2, <1>3, Inductive, PTL DEF Spec
-----------------------------------------------------------------------------
(***************************************************************************)
(* Deliveries implement the one-step promises of Receiving: what a lookup  *)
(* found is still so when its answer is given, a commit that takes hold,   *)
(* acknowledged or not, is the one instant a delivery is recorded, and no  *)
(* process stores evidence beside an existing receipt.                     *)
(***************************************************************************)
THEOREM ImplementsOneStep == Spec => ImplementsReceiving
<1>1. Init => Received!ReceivingInit
  BY DEF Init, Received!ReceivingInit
<1>2. IndInv /\ [Next]_vars => [Received!ReceivingNext]_(Received!receivingVars)
  <2> SUFFICES ASSUME IndInv, [Next]_vars
               PROVE  \/ Received!ReceivingNext
                      \/ UNCHANGED <<receipt, evidence, accepted, conflicts>>
    BY DEF Received!receivingVars
  <2>1. TypeOK /\ DeliveryInv /\ LookupStaysTrue
    BY DEF IndInv
  <2>2. ASSUME NEW s \in Servers, step[s] # "idle"
        PROVE  body[s] \in Bodies /\ delivery[s] \in Deliveries
    <3>1. delivery[s] \in 1 .. received /\ body[s] \in Bodies /\ received \in 0 .. MaxDeliveries
      BY <2>1, <2>2 DEF DeliveryInv, TypeOK
    <3> QED
      BY <3>1, IngestionAssumption DEF Deliveries
  <2>3. ASSUME NEW s \in Servers, LockAndLookup(s), receipt # None
        PROVE  Received!ReceivingNext
    <3>1. body[s] \in Bodies /\ delivery[s] \in Deliveries /\ receipt.by # delivery[s]
      BY <2>1, <2>2, <2>3 DEF LockAndLookup, DeliveryInv
    <3>2. CASE SameDigest(s)
      <4>1. Received!Accept(delivery[s])
        BY <2>3, <3>1, <3>2 DEF LockAndLookup, SameDigest, Received!Accept
      <4> QED
        BY <3>1, <4>1 DEF Received!ReceivingNext
    <3>3. CASE ~SameDigest(s)
      <4>1. Received!Refuse(body[s])
        BY <2>3, <3>3 DEF LockAndLookup, SameDigest, Received!Refuse
      <4> QED
        BY <3>1, <4>1 DEF Received!ReceivingNext
    <3> QED
      BY <3>2, <3>3
  <2>4. ASSUME NEW s \in Servers, Put(s) \/ PutFails(s), evidence' # evidence
        PROVE  Received!ReceivingNext
    <3>1. body[s] \in Bodies /\ receipt = None
      BY <2>1, <2>2, <2>4 DEF Put, PutFails, LookupStaysTrue
    <3>2. Received!StoreEvidence(body[s])
      BY <2>4, <3>1 DEF Put, PutFails, Received!StoreEvidence
    <3> QED
      BY <3>1, <3>2 DEF Received!ReceivingNext
  <2>5. ASSUME NEW s \in Servers, Commit(s) \/ CommitFails(s), receipt' # receipt
        PROVE  Received!ReceivingNext
    <3>1. body[s] \in Bodies /\ delivery[s] \in Deliveries /\ evidence \in {None, body[s]}
      BY <2>1, <2>2, <2>5 DEF Commit, CommitFails, DeliveryInv
    <3>2. Received!Record(delivery[s], body[s])
      BY <2>5, <3>1 DEF Commit, CommitFails, Insert, Received!Record
    <3> QED
      BY <3>1, <3>2 DEF Received!ReceivingNext
  <2>6. ASSUME NEW s \in Servers, Respond(s) PROVE Received!ReceivingNext
    <3>1. /\ body[s] \in Bodies /\ delivery[s] \in Deliveries
          /\ receipt = [body |-> body[s], by |-> delivery[s]]
      BY <2>1, <2>2, <2>6 DEF Respond, DeliveryInv
    <3>2. receipt # None
      BY <3>1, IngestionAssumption DEF Receipts
    <3>3. Received!Accept(delivery[s])
      BY <2>6, <3>1, <3>2 DEF Respond, Received!Accept
    <3> QED
      BY <3>1, <3>3 DEF Received!ReceivingNext
  <2>7. ASSUME NEW s \in Servers, Cleanup(s), evidence' # evidence
        PROVE  Received!ReceivingNext
    <3>1. Received!LoseEvidence
      BY <2>7 DEF Cleanup, Received!LoseEvidence
    <3> QED
      BY <3>1 DEF Received!ReceivingNext
  <2>8. ASSUME NEW s \in Servers, LockAndLookup(s), receipt = None
        PROVE  UNCHANGED <<receipt, evidence, accepted, conflicts>>
    BY <2>8 DEF LockAndLookup
  <2>9. ASSUME NEW s \in Servers, Put(s) \/ PutFails(s) \/ Cleanup(s), evidence' = evidence
        PROVE  UNCHANGED <<receipt, evidence, accepted, conflicts>>
    BY <2>9 DEF Put, PutFails, Cleanup
  <2>10. ASSUME NEW s \in Servers, Commit(s) \/ CommitFails(s), receipt' = receipt
         PROVE  UNCHANGED <<receipt, evidence, accepted, conflicts>>
    BY <2>10 DEF Commit, CommitFails
  <2>11. ASSUME NEW s \in Servers, Receive(s) \/ Head(s) \/ Crash(s)
         PROVE  UNCHANGED <<receipt, evidence, accepted, conflicts>>
    BY <2>11 DEF Receive, Head, Crash
  <2> QED
    BY <2>3, <2>4, <2>5, <2>6, <2>7, <2>8, <2>9, <2>10, <2>11 DEF Next, Handler, vars
<1> QED
  BY <1>1, <1>2, Inductive, PTL DEF Spec, ImplementsReceiving, Received!ReceivingSpec
=============================================================================
