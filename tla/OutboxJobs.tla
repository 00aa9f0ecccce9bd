----------------------------- MODULE OutboxJobs -----------------------------
(***************************************************************************)
(* The durable outbox: the PostgreSQL tables outbox_jobs and job_attempts, *)
(* the claim and finish functions of the migrations, and the workers that  *)
(* call them (JobRunner.run_once).  Any number of worker processes polls   *)
(* the same tables.  A claim leases a batch and opens one attempt row per  *)
(* job; the batch is then processed one job at a time, outside any lock;   *)
(* each finish is fenced by the lease token the claim drew.                *)
(*                                                                         *)
(* Time is relative: due[j] is available_at minus now and leaseLeft[j] is  *)
(* lease_expires_at minus now, both lowered by Tick.  A lease token is a   *)
(* fresh uuid per claim; it is named here by the number of the attempt it  *)
(* was drawn for, and 0 is SQL NULL.                                       *)
(***************************************************************************)
EXTENDS Integers, Sequences, FiniteSets

CONSTANTS
  Jobs,         \* rows that may be inserted in outbox_jobs
  Workers,      \* worker processes
  MaxAttempts,  \* settings.worker_max_attempts
  LeaseSeconds, \* settings.worker_lease_seconds, within the 1..3600 of the claim
  BatchSize,    \* settings.worker_batch_size
  BackoffBase,  \* settings.worker_backoff_base_seconds
  BackoffMax,   \* settings.worker_backoff_max_seconds
  MaxLate,      \* bound: an overdue available_at is not told apart past this age
  MaxMishaps,   \* bound: worker crashes plus leases that run out under a live worker
  NoResult      \* "no handler result is waiting to be recorded"

\* config.py refuses settings below one and a base above the maximum.
ASSUME SettingsAssumption ==
  /\ MaxAttempts \in Nat \ {0}
  /\ LeaseSeconds \in Nat \ {0}
  /\ BatchSize \in Nat \ {0}
  /\ BackoffBase \in Nat \ {0}
  /\ BackoffMax \in Nat \ {0}
  /\ BackoffBase <= BackoffMax

ASSUME BoundsAssumption ==
  /\ MaxLate \in Nat
  /\ MaxMishaps \in Nat

JobStates == {"absent", "pending", "leased", "retry", "completed", "dead"}
FinalOutcomes == {"succeeded", "retry", "dead", "lease_lost"}
AttemptRows == FinalOutcomes \cup {"open"}
Claims == [job: Jobs, attempt: Nat]
Results == [job: Jobs, attempt: Nat, outcome: {"succeeded", "retry", "dead"}]

ASSUME NoResultAssumption == NoResult \notin Results

VARIABLES
  state,        \* outbox_jobs.state, "absent" before the row is inserted
  due,          \* outbox_jobs.available_at - now
  lease,        \* outbox_jobs.lease_token
  leaseLeft,    \* outbox_jobs.lease_expires_at - now
  attemptCount, \* outbox_jobs.attempt_count
  attempts,     \* job_attempts.outcome by attempt_number, "open" while unfinished
  applied,      \* attempts under which the handler's own transaction committed
  batch,        \* per worker: claimed jobs run_once has not reached yet
  hand,         \* per worker: the handled job whose finish call is next
  mishaps       \* how much of MaxMishaps is used

jobVars == <<state, due, lease, leaseLeft, attemptCount, attempts>>
vars == <<state, due, lease, leaseLeft, attemptCount, attempts, applied, batch,
          hand, mishaps>>

TypeOK ==
  /\ state \in [Jobs -> JobStates]
  /\ due \in [Jobs -> Int]
  /\ lease \in [Jobs -> Nat]
  /\ leaseLeft \in [Jobs -> Nat]
  /\ attemptCount \in [Jobs -> Nat]
  /\ attempts \in [Jobs -> Seq(AttemptRows)]
  /\ applied \in [Jobs -> SUBSET Nat]
  /\ batch \in [Workers -> SUBSET Claims]
  /\ hand \in [Workers -> Results \cup {NoResult}]
  /\ mishaps \in Nat

Init ==
  /\ state = [j \in Jobs |-> "absent"]
  /\ due = [j \in Jobs |-> 0]
  /\ lease = [j \in Jobs |-> 0]
  /\ leaseLeft = [j \in Jobs |-> 0]
  /\ attemptCount = [j \in Jobs |-> 0]
  /\ attempts = [j \in Jobs |-> <<>>]
  /\ applied = [j \in Jobs |-> {}]
  /\ batch = [w \in Workers |-> {}]
  /\ hand = [w \in Workers |-> NoResult]
  /\ mishaps = 0

-----------------------------------------------------------------------------
(* Deterministic bounded exponential delay; the product is never negative. *)
backoff(attempt) ==
  LET delay == BackoffBase * 2 ^ (attempt - 1)
  IN  IF delay \in 0 .. BackoffMax THEN delay ELSE BackoffMax

(* A slip the properties must notice: one retry too many. *)
OutcomeOffByOne(how, attempt) ==
  CASE how = "returned"  -> "succeeded"
    [] how = "permanent" -> "dead"
    [] how = "raised"    -> IF attempt > MaxAttempts THEN "dead" ELSE "retry"

(* How run_once classifies what the handler did. *)
Outcome(how, attempt) ==
  CASE how = "returned"  -> "succeeded"
    [] how = "permanent" -> "dead"
    [] how = "raised"    -> IF attempt >= MaxAttempts THEN "dead" ELSE "retry"

(* A slip: leases of dead workers are never reclaimed. *)
ClaimableUnleased == {j \in Jobs : state[j] \in {"pending", "retry"} /\ due[j] <= 0}

(* The WHERE clause of the claim: due, or leased with an expired lease. *)
Claimable ==
  {j \in Jobs : \/ state[j] \in {"pending", "retry"} /\ due[j] <= 0
                \/ state[j] = "leased" /\ leaseLeft[j] = 0}

(* ORDER BY available_at, id LIMIT batch; the ids are random uuids, so jobs *)
(* available at the same time come in any order.                            *)
EarliestBatches ==
  {S \in SUBSET Claimable :
     /\ Cardinality(S) = IF Cardinality(Claimable) < BatchSize
                         THEN Cardinality(Claimable) ELSE BatchSize
     /\ \A j \in S, k \in Claimable \ S : due[j] <= due[k]}

(* A slip: the update does not look at the token. *)
CloseEveryAttempt(rows, token, outcome) == [n \in DOMAIN rows |-> outcome]

(* UPDATE job_attempts ... WHERE lease_token = token AND finished_at IS NULL *)
CloseAttempt(rows, token, outcome) ==
  [n \in DOMAIN rows |-> IF n = token /\ rows[n] = "open" THEN outcome ELSE rows[n]]

(* A slip: the claim of migration 0006, which left a lost attempt open. *)
RowsWithLostAttemptOpen(j) == Append(attempts[j], "open")

(* The attempt rows of j once the claim has closed a lost attempt and opened *)
(* the next one.                                                             *)
RowsAfterClaim(j) ==
  Append(IF state[j] = "leased"
         THEN CloseAttempt(attempts[j], lease[j], "lease_lost")
         ELSE attempts[j],
         "open")

(* A slip: an expired lease is taken over under the attempt it was for. *)
ContinuedAttempt(j) ==
  IF state[j] = "leased" THEN attemptCount[j] ELSE attemptCount[j] + 1

(* attempt_count = attempt_count + 1, and with it a fresh lease token. *)
NextAttempt(j) == attemptCount[j] + 1

(* The claims a worker has not finished with. *)
Held(w) ==
  batch[w] \cup IF hand[w] = NoResult THEN {}
                ELSE {[job |-> hand[w].job, attempt |-> hand[w].attempt]}

-----------------------------------------------------------------------------
(* A producer's transaction inserts the job, available at once. *)
Enqueue(j) ==
  /\ state[j] = "absent"
  /\ state' = [state EXCEPT ![j] = "pending"]
  /\ due' = [due EXCEPT ![j] = 0]
  /\ UNCHANGED <<lease, leaseLeft, attemptCount, attempts, applied, batch, hand,
                 mishaps>>

(* One poll: outcomeos_claim_jobs, a single statement over locked rows. *)
Claim(w) ==
  /\ Held(w) = {}
  /\ \E S \in EarliestBatches \ {{}} :
       /\ state' = [j \in Jobs |-> IF j \in S THEN "leased" ELSE state[j]]
       /\ lease' = [j \in Jobs |-> IF j \in S THEN NextAttempt(j) ELSE lease[j]]
       /\ leaseLeft' = [j \in Jobs |-> IF j \in S THEN LeaseSeconds ELSE leaseLeft[j]]
       /\ attemptCount' = [j \in Jobs |-> IF j \in S THEN NextAttempt(j)
                                                     ELSE attemptCount[j]]
       /\ attempts' = [j \in Jobs |-> IF j \in S THEN RowsAfterClaim(j) ELSE attempts[j]]
       /\ batch' = [batch EXCEPT ![w] =
                      {[job |-> j, attempt |-> NextAttempt(j)] : j \in S}]
  /\ UNCHANGED <<due, applied, hand, mishaps>>

(* The handler of the next job of the batch runs in a transaction of its   *)
(* own.  A permanent error rolls it back; any other error may come before  *)
(* its commit or, when only the acknowledgement is lost, after it.         *)
RunHandler(w) ==
  /\ hand[w] = NoResult
  /\ \E c \in batch[w], how \in {"returned", "permanent", "raised"},
        committed \in BOOLEAN :
       /\ how = "returned" => committed
       /\ how = "permanent" => ~committed
       /\ batch' = [batch EXCEPT ![w] = @ \ {c}]
       /\ hand' = [hand EXCEPT ![w] = [job |-> c.job, attempt |-> c.attempt,
                                       outcome |-> Outcome(how, c.attempt)]]
       /\ applied' = IF committed
                     THEN [applied EXCEPT ![c.job] = @ \cup {c.attempt}]
                     ELSE applied
  /\ UNCHANGED <<jobVars, mishaps>>

(* Slips: a finish that does not compare tokens, one that finds any row. *)
FenceWithoutToken(r) == state[r.job] = "leased"
NoFence(r) == TRUE

(* outcomeos_finish_job changes the row only under the caller's own lease;  *)
(* an expired lease nobody has reclaimed still counts.                      *)
FenceHolds(r) == state[r.job] = "leased" /\ lease[r.job] = r.attempt

(* A slip: the job takes the name of the attempt's outcome. *)
StateNamedByOutcome(outcome) == outcome

(* The state column after a finish with this outcome. *)
StateAfter(outcome) ==
  CASE outcome = "succeeded" -> "completed"
    [] outcome = "retry"     -> "retry"
    [] outcome = "dead"      -> "dead"

Finish(w) ==
  /\ hand[w] # NoResult
  /\ hand' = [hand EXCEPT ![w] = NoResult]
  /\ LET r == hand[w] IN
       \/ /\ FenceHolds(r)
          /\ state' = [state EXCEPT ![r.job] = StateAfter(r.outcome)]
          /\ due' = IF r.outcome = "retry"
                    THEN [due EXCEPT ![r.job] = backoff(r.attempt)] ELSE due
          /\ lease' = [lease EXCEPT ![r.job] = 0]
          /\ leaseLeft' = [leaseLeft EXCEPT ![r.job] = 0]
          /\ attempts' = [attempts EXCEPT ![r.job] =
                            CloseAttempt(@, r.attempt, r.outcome)]
          /\ UNCHANGED attemptCount
       \/ ~FenceHolds(r) /\ UNCHANGED jobVars
  /\ UNCHANGED <<applied, batch, mishaps>>

(* The process dies and is started again: what it held is forgotten. *)
Crash(w) ==
  /\ Held(w) # {}
  /\ mishaps < MaxMishaps
  /\ mishaps' = mishaps + 1
  /\ batch' = [batch EXCEPT ![w] = {}]
  /\ hand' = [hand EXCEPT ![w] = NoResult]
  /\ UNCHANGED <<jobVars, applied>>

(* The lease of a claim a live worker still works on is about to run out. *)
Overrun ==
  \E w \in Workers : \E c \in Held(w) :
    /\ state[c.job] = "leased"
    /\ lease[c.job] = c.attempt
    /\ leaseLeft[c.job] = 1

Tick ==
  /\ \/ Overrun /\ mishaps < MaxMishaps /\ mishaps' = mishaps + 1
     \/ ~Overrun /\ UNCHANGED mishaps
  /\ due' = [j \in Jobs |-> IF state[j] # "absent" /\ due[j] > -MaxLate
                            THEN due[j] - 1 ELSE due[j]]
  /\ leaseLeft' = [j \in Jobs |-> IF leaseLeft[j] > 0 THEN leaseLeft[j] - 1
                                                      ELSE leaseLeft[j]]
  /\ UNCHANGED <<state, lease, attemptCount, attempts, applied, batch, hand>>

Next ==
  \/ \E j \in Jobs : Enqueue(j)
  \/ \E w \in Workers : Claim(w) \/ RunHandler(w) \/ Finish(w) \/ Crash(w)
  \/ Tick

Spec == Init /\ [][Next]_vars

(* Each worker keeps polling and working (the while loop of worker.main),  *)
(* and time passes.                                                        *)
Fairness ==
  /\ \A w \in Workers : WF_vars(Claim(w)) /\ WF_vars(RunHandler(w)) /\ WF_vars(Finish(w))
  /\ WF_vars(Tick)

FairSpec == Spec /\ Fairness

-----------------------------------------------------------------------------
Terminal(j) == state[j] \in {"completed", "dead"}

(***************************************************************************)
(* The attempt table and the lease agree: an attempt is unfinished exactly *)
(* when it is the one the job is leased for.  Every path that ends a lease *)
(* (finish, reclaim) must close its row, whatever a superseded worker does *)
(* meanwhile; it is what reconciliation calls an inconsistent attempt.     *)
(***************************************************************************)
OpenAttemptIsCurrentLease ==
  \A j \in Jobs : \A n \in DOMAIN attempts[j] :
    attempts[j][n] = "open" <=> state[j] = "leased" /\ lease[j] = n

(***************************************************************************)
(* The attempt history explains the job's state: completed, dead and retry *)
(* jobs end in the attempt that made them so, a leased job in an open one, *)
(* and no earlier attempt has a final outcome: nothing ran after it.       *)
(***************************************************************************)
HistoryExplainsState ==
  \A j \in Jobs :
    LET rows == attempts[j]
    IN  /\ state[j] \in {"absent", "pending"} <=> rows = <<>>
        /\ rows # <<>> =>
             rows[Len(rows)] = CASE state[j] = "leased"    -> "open"
                                 [] state[j] = "retry"     -> "retry"
                                 [] state[j] = "completed" -> "succeeded"
                                 [] state[j] = "dead"      -> "dead"
        /\ \A n \in 1 .. Len(rows) - 1 : rows[n] \in {"retry", "lease_lost"}

(***************************************************************************)
(* A completed job was handled: the handler's transaction committed under  *)
(* the very attempt that is recorded as successful.                        *)
(***************************************************************************)
CompletedWasApplied ==
  \A j \in Jobs : state[j] = "completed" => attemptCount[j] \in applied[j]

(***************************************************************************)
(* A retryable failure is only retried below worker_max_attempts.          *)
(***************************************************************************)
RetriesStayUnderLimit ==
  \A j \in Jobs : \A n \in DOMAIN attempts[j] :
    attempts[j][n] = "retry" => n < MaxAttempts

(***************************************************************************)
(* No attempt is executed by two workers: what two workers hold at once    *)
(* may be the same job (after an expired lease) but never the same claim.  *)
(***************************************************************************)
AttemptHasOneExecutor ==
  \A v, w \in Workers : v # w => Held(v) \cap Held(w) = {}

(* The row of a job, its attempt rows and its lease token, in one formula. *)
RowInv ==
  \A j \in Jobs :
    /\ Len(attempts[j]) = attemptCount[j]
    /\ state[j] = "leased" <=> lease[j] # 0
    /\ state[j] = "leased" => lease[j] = attemptCount[j]
    /\ state[j] \in {"absent", "pending"} <=> attemptCount[j] = 0
    /\ state[j] = "retry" => attempts[j][attemptCount[j]] = "retry"
    /\ state[j] = "completed" => attempts[j][attemptCount[j]] = "succeeded"
    /\ state[j] = "dead" => attempts[j][attemptCount[j]] = "dead"
    /\ state[j] = "leased" => attempts[j][attemptCount[j]] = "open"
    /\ \A n \in 1 .. attemptCount[j] - 1 : attempts[j][n] \in {"retry", "lease_lost"}

(* What a worker remembers of its claims was true when it claimed. *)
HeldInv ==
  /\ \A w \in Workers : \A c \in batch[w] : c.attempt \in 1 .. attemptCount[c.job]
  /\ \A w \in Workers : hand[w] # NoResult =>
       /\ hand[w].attempt \in 1 .. attemptCount[hand[w].job]
       /\ hand[w].outcome = "retry" => hand[w].attempt < MaxAttempts
       /\ hand[w].outcome = "succeeded" => hand[w].attempt \in applied[hand[w].job]

(***************************************************************************)
(* The inductive invariant behind the properties below: the three tables'  *)
(* rows, lease tokens and the workers' memories of them fit together.      *)
(***************************************************************************)
IndInv == TypeOK /\ RowInv /\ HeldInv /\ CompletedWasApplied /\ RetriesStayUnderLimit

(***************************************************************************)
(* A completed or dead job never changes again, whichever late finish or   *)
(* expired lease is still around.                                          *)
(***************************************************************************)
KeepsTerminalJobs ==
  \A j \in Jobs : Terminal(j) =>
    /\ state'[j] = state[j]
    /\ attemptCount'[j] = attemptCount[j]
    /\ attempts'[j] = attempts[j]

TerminalIsFinal == [][KeepsTerminalJobs]_vars

(***************************************************************************)
(* History is append-only (the trigger on job_attempts): a finished        *)
(* attempt keeps its outcome and no attempt disappears.                    *)
(***************************************************************************)
KeepsFinishedAttempts ==
  \A j \in Jobs : \A n \in DOMAIN attempts[j] :
    /\ n \in DOMAIN attempts'[j]
    /\ attempts[j][n] # "open" => attempts'[j][n] = attempts[j][n]

AttemptsFinalizeOnce == [][KeepsFinishedAttempts]_vars

(***************************************************************************)
(* Crash recovery works: with finitely many crashes and overrun leases,    *)
(* every enqueued job ends completed or dead.                              *)
(***************************************************************************)
EveryJobSettles ==
  \A j \in Jobs : state[j] = "pending" ~> Terminal(j)

(* The three open states of the row are one to the producers and handlers. *)
OpenStatus == [j \in Jobs |-> IF state[j] \in {"pending", "leased", "retry"}
                              THEN "open" ELSE state[j]]

Queue == INSTANCE JobQueue WITH
           status <- OpenStatus, tries <- attemptCount, worked <- applied

(***************************************************************************)
(* Leases, fencing and retries implement the abstract queue: whatever      *)
(* workers do late, a job is settled once, completed only under the        *)
(* attempt that took effect last, and no attempt takes effect twice.       *)
(***************************************************************************)
ImplementsQueue == Queue!QueueSpec

(***************************************************************************)
(* The plan of the durable pipeline gives claims "maximum attempts".  The  *)
(* claim itself has no such limit: see README.                             *)
(***************************************************************************)
AttemptsWithinMaximum ==
  \A j \in Jobs : attemptCount[j] <= MaxAttempts
=============================================================================
