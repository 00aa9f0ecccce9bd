------------------------------ MODULE Sandbox ------------------------------
(***************************************************************************)
(* The sandbox store: one process keeps a tenant's whole document in       *)
(* memory, changes it under one lock and rewrites one file after every     *)
(* change.  The process crashes between the change and the end of the      *)
(* write, writes fail, and requests are repeated under the same key.       *)
(***************************************************************************)
EXTENDS Integers, Sequences, FiniteSets

CONSTANTS
  ApprovalKeys, \* Idempotency-Key headers of approvals
  Receipts,     \* sandbox webhooks: their kind and event id
  MaxFaults,    \* bound: failed writes
  Nothing,      \* an absent value
  Torn          \* a file that is not a whole document

Approvals == {"approve"} \X ApprovalKeys
Keys == Approvals \cup Receipts
Events == {r[2] : r \in Receipts}

Fact(what) == <<what, Nothing>>

Checklist == {"customer_verified", "attribution_eligible", "order_confirmed",
              "delivery_received", "cod_settled", "contract_eligible"}

Outcomes == [ready: SUBSET Checklist]
Stages == {Nothing, "pending_verification", "verified"}
Writes == [write: {"to_start", "started"},
           answer: SUBSET (Keys \cup {Fact("billed"), Fact("disputed")})]
Stored == [lead: Stages, outcome: Outcomes]
Documents ==
  [order: Approvals \cup {Nothing}, lead: Stages, checks: BOOLEAN,
   delivery: Events \cup {Nothing}, cod: Events \cup {Nothing}, contract: {"active"},
   outcome: Outcomes \cup {Nothing}, billable: BOOLEAN,
   ledger: Seq({"debit", "credit"}), disputed: BOOLEAN,
   receipts: [Receipts -> Nat],
   answers: [Keys -> Stored \cup {Nothing}]]

ASSUME SandboxAssumption ==
  /\ Receipts \subseteq {"delivery", "cod"} \X Events
  /\ MaxFaults \in Nat
  /\ Nothing \notin Approvals \cup Events \cup Outcomes \cup Stored
  /\ Nothing \notin Writes \cup Documents
  /\ Torn \notin Documents \cup {Nothing}

VARIABLES
  tenant,  \* the document in memory
  shared,  \* approvals whose stored answer holds the very lead of the document
  file,    \* what the file holds: a document, Nothing (no file) or Torn
  writer,  \* the request in the lock: how far its write is, what it answers
  process, \* "down", "starting" (load seeds the file) or "running"
  told,    \* what clients were answered since the last reset
  faults

vars == <<tenant, shared, file, writer, process, told, faults>>

(* tenant_seed: the conversation, the audit log and what is only shown are *)
(* left out; receipts counts the webhook receipts of an event.             *)
Seed ==
  [order |-> Nothing, lead |-> Nothing, checks |-> FALSE,
   delivery |-> Nothing, cod |-> Nothing, contract |-> "active",
   outcome |-> Nothing, billable |-> FALSE, ledger |-> <<>>,
   disputed |-> FALSE, receipts |-> [r \in Receipts |-> 0],
   answers |-> [key \in Keys |-> Nothing]]

Answered(t) == {key \in Keys : t.answers[key] # Nothing}

Readiness(t) ==
  {c \in Checklist :
     CASE c = "customer_verified"    -> t.checks
       [] c = "attribution_eligible" -> t.order # Nothing
       [] c = "order_confirmed"      -> t.order # Nothing
       [] c = "delivery_received"    -> t.delivery # Nothing
       [] c = "cod_settled"          -> t.cod # Nothing
       [] c = "contract_eligible"    -> t.contract = "active"}

(* A slip: every billable evaluation creates the fee. *)
BillEveryTime(t) ==
  [t EXCEPT !.billable = TRUE, !.ledger = Append(@, "debit")]

(* The billable result and its debit, once. *)
Bill(t) ==
  IF t.billable THEN t
  ELSE [t EXCEPT !.billable = TRUE, !.ledger = Append(@, "debit")]

Evaluate(t) ==
  LET ready == Readiness(t)
      evaluated == [t EXCEPT !.outcome = [ready |-> ready]]
  IN  IF ready = Checklist THEN Bill(evaluated) ELSE evaluated

(* What an answer tells besides its key. *)
Billed(outcome) == IF outcome.ready = Checklist THEN {Fact("billed")} ELSE {}

(* The answer kept for the key of a request. *)
Remember(t, key) ==
  [t EXCEPT !.answers[key] = [lead |-> t.lead, outcome |-> t.outcome]]

-----------------------------------------------------------------------------
Init ==
  /\ tenant = Seed /\ shared = {} /\ told = {}
  /\ file = Nothing
  /\ writer = Nothing
  /\ process = "down"
  /\ faults = 0

(* The lock is free; the request changes the document and starts to save.  *)
Change(t, answer) ==
  /\ process = "running" /\ writer = Nothing
  /\ tenant' = t
  /\ writer' = [write |-> "to_start", answer |-> answer]
  /\ UNCHANGED <<file, process, faults>>

(* The conversation is left out, the rewriting of the file is not. *)
ReceiveMessage ==
  /\ Change(tenant, {})
  /\ UNCHANGED <<shared, told>>

(* A key already in the document: the stored answer, and nothing saved. *)
Replay(key) ==
  /\ process = "running" /\ writer = Nothing
  /\ key \in Answered(tenant)
  /\ told' = told \cup {key} \cup Billed(tenant.answers[key].outcome)
  /\ UNCHANGED <<tenant, shared, file, writer, process, faults>>

(* approve_proposal: lead, order and attribution are replaced. *)
ApproveProposal(key) ==
  /\ key \notin Answered(tenant)
  /\ LET t == Evaluate([tenant EXCEPT !.order = key, !.lead = "pending_verification"])
     IN  Change(Remember(t, key), {key} \cup Billed(t.outcome))
  /\ shared' = {key}
  /\ UNCHANGED told

(* complete_verification: the stage of the lead changes in the stored      *)
(* answer too when that is the same object.                                *)
CompleteVerification ==
  /\ LET staged == [tenant EXCEPT
                      !.checks = TRUE,
                      !.lead = IF @ = Nothing THEN Nothing ELSE "verified",
                      !.answers = [k \in Keys |->
                        IF k \in shared THEN [@[k] EXCEPT !.lead = "verified"] ELSE @[k]]]
         t == Evaluate(staged)
     IN  Change(t, Billed(t.outcome))
  /\ UNCHANGED <<shared, told>>

(* A slip: what was received before is not looked up. *)
NeverSeen(receipt) == TRUE

NotSeen(receipt) == receipt \notin Answered(tenant)

(* record_evidence: the latest delivery or settlement replaces the last. *)
RecordEvidence(receipt) ==
  /\ NotSeen(receipt)
  /\ LET recorded == IF receipt[1] = "delivery"
                     THEN [tenant EXCEPT !.delivery = receipt[2]]
                     ELSE [tenant EXCEPT !.cod = receipt[2]]
         t == Evaluate([recorded EXCEPT !.receipts[receipt] = @ + 1])
     IN  Change(Remember(t, receipt), {receipt} \cup Billed(t.outcome))
  /\ UNCHANGED <<shared, told>>

(* dispute_reverse: a credit, whether or not its debit exists. *)
DisputeReverse ==
  /\ IF tenant.disputed
     THEN /\ process = "running" /\ writer = Nothing
          /\ told' = told \cup {Fact("disputed")}
          /\ UNCHANGED <<tenant, file, writer, process, faults>>
     ELSE /\ Change([tenant EXCEPT !.disputed = TRUE,
                                          !.ledger = Append(@, "credit")],
                    {Fact("disputed")})
          /\ UNCHANGED told
  /\ UNCHANGED shared

Reset == Change(Seed, {}) /\ shared' = {} /\ told' = {}

-----------------------------------------------------------------------------
(* write_text truncates the file, then writes it. *)
Truncate ==
  /\ writer # Nothing /\ writer.write = "to_start"
  /\ file' = Torn
  /\ writer' = [writer EXCEPT !.write = "started"]
  /\ UNCHANGED <<tenant, shared, process, told, faults>>

(* A slip: stored answers are kept in memory only. *)
SavedWithoutAnswers == [tenant EXCEPT !.answers = Seed.answers]

Saved == tenant

Written ==
  /\ writer # Nothing /\ writer.write = "started"
  /\ file' = Saved
  /\ writer' = Nothing
  /\ process' = "running"
  /\ told' = told \cup writer.answer
  /\ UNCHANGED <<tenant, shared, faults>>

(* The write raises: the request fails and its change stays in memory; at  *)
(* the start of the process it ends the process.                           *)
WriteFails ==
  /\ writer # Nothing
  /\ faults < MaxFaults
  /\ faults' = faults + 1
  /\ writer' = Nothing
  /\ process' = IF process = "starting" THEN "down" ELSE process
  /\ UNCHANGED <<tenant, shared, file, told>>

Crash ==
  /\ process # "down"
  /\ process' = "down"
  /\ tenant' = Seed /\ shared' = {} /\ writer' = Nothing
  /\ UNCHANGED <<file, told, faults>>

(* load: a torn file cannot be parsed, and the process does not start. *)
Load ==
  /\ process = "down" /\ file # Torn
  /\ IF file = Nothing
     THEN /\ process' = "starting" /\ tenant' = Seed
          /\ writer' = [write |-> "to_start", answer |-> {}]
     ELSE process' = "running" /\ tenant' = file /\ writer' = Nothing
  /\ shared' = {}
  /\ UNCHANGED <<file, told, faults>>

Next ==
  \/ ReceiveMessage \/ CompleteVerification \/ DisputeReverse \/ Reset
  \/ \E key \in Keys : Replay(key)
  \/ \E key \in Approvals : ApproveProposal(key)
  \/ \E receipt \in Receipts : RecordEvidence(receipt)
  \/ Truncate \/ Written \/ WriteFails \/ Crash \/ Load

Spec == Init /\ [][Next]_vars

-----------------------------------------------------------------------------
HasDocument == file \notin {Nothing, Torn}

(* A document's outcome says what its evidence says, its fee is charged    *)
(* once and exactly if the outcome is billable, its credit once and exactly*)
(* if it is disputed, and no webhook is recorded twice.                    *)
Consistent(t) ==
  LET entries(direction) == Cardinality({n \in DOMAIN t.ledger : t.ledger[n] = direction})
  IN  /\ IF t.outcome = Nothing
         THEN t.order = Nothing /\ ~t.checks /\ t.delivery = Nothing /\ t.cod = Nothing
         ELSE t.outcome.ready = Readiness(t)
      /\ t.billable <=> t.outcome # Nothing /\ t.outcome.ready = Checklist
      /\ entries("debit") = IF t.billable THEN 1 ELSE 0
      /\ entries("credit") = IF t.disputed THEN 1 ELSE 0
      /\ \A r \in Receipts : t.receipts[r] = IF r \in Answered(t) THEN 1 ELSE 0

(***************************************************************************)
(* The documents in memory and in the file are consistent at every step of *)
(* every request, write, crash and start, and between requests the file    *)
(* holds the memory as long as no write has failed.                        *)
(***************************************************************************)
SandboxInv ==
  /\ Consistent(tenant)
  /\ HasDocument => Consistent(file)
  /\ process = "running" /\ writer = Nothing /\ faults = 0 => file = tenant
  /\ process = "starting" => writer # Nothing /\ tenant = Seed

HeldBy(t) ==
  Answered(t) \cup (IF t.billable THEN {Fact("billed")} ELSE {})
              \cup (IF t.disputed THEN {Fact("disputed")} ELSE {})

(***************************************************************************)
(* What a command answered (its key, that the outcome is billed, that the  *)
(* fee is reversed) is in memory and in the file, through crashes and      *)
(* restarts, as long as no write has failed and the file is not torn.      *)
(* Reads do not take the lock and may tell of a change not yet saved; they *)
(* are not modelled.                                                       *)
(***************************************************************************)
ToldStaysTrue ==
  faults = 0 => /\ process = "running" => told \subseteq HeldBy(tenant)
                /\ HasDocument => told \subseteq HeldBy(file)

(***************************************************************************)
(* While the process runs and is not reset, no step takes back a ledger    *)
(* entry or a billable result, or changes the outcome a stored answer      *)
(* tells.                                                                  *)
(***************************************************************************)
FeesAreFinal ==
  [][process = "running" /\ process' = "running" /\ tenant' # Seed =>
       /\ SubSeq(tenant'.ledger, 1, Len(tenant.ledger)) = tenant.ledger
       /\ tenant.billable => tenant'.billable
       /\ \A key \in Answered(tenant) :
            /\ key \in Answered(tenant')
            /\ tenant'.answers[key].outcome = tenant.answers[key].outcome]_vars

SandboxTypeOK ==
  /\ tenant \in Documents
  /\ shared \subseteq Answered(tenant)
  /\ file \in Documents \cup {Nothing, Torn}
  /\ writer \in Writes \cup {Nothing}
  /\ process \in {"down", "starting", "running"}
  /\ faults \in Nat

(* A stored answer tells of a fee only when the document has it. *)
AnswersAreBacked(t) ==
  \A key \in Answered(t) : t.answers[key].outcome.ready = Checklist => t.billable

(* A request tells only what its document holds, and nothing is told before *)
(* there has been a file.                                                   *)
WriterInv ==
  /\ writer # Nothing => process # "down" /\ writer.answer \subseteq HeldBy(tenant)
  /\ process = "starting" => writer.answer = {}
  /\ process = "starting" \/ file = Nothing => told = {}
  /\ process = "running" => file # Nothing

(***************************************************************************)
(* The inductive invariant behind the properties of the sandbox.           *)
(***************************************************************************)
IndInv ==
  /\ SandboxTypeOK /\ SandboxInv /\ WriterInv /\ ToldStaysTrue
  /\ AnswersAreBacked(tenant)
  /\ HasDocument => AnswersAreBacked(file)

(***************************************************************************)
(* A dispute is credited only what was debited (docs/IMPLEMENTATION_PLAN.md*)
(* speaks of a credit linked to a debit that remains present).  See README *)
(* for dispute_reverse, which does not look.                               *)
(***************************************************************************)
CreditsHaveDebits == tenant.disputed => tenant.billable
=============================================================================
