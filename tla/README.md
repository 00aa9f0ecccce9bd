# TLA+ models of OutcomeOS

Specifications of the stateful core of OutcomeOS, the TLC configurations that
check them on small instances, and proofs that TLAPS checks for all instances.
Paths are relative to the repository; `api/` stands for
`apps/api/src/outcomeos_api/`.

## 1. The system

OutcomeOS records business events of tenants (merchants), keeps the performance
contracts under which outcomes are billed, and evaluates outcomes. The durable
part is a FastAPI application, a worker process, PostgreSQL and an S3 bucket. A
JSON-file sandbox serves the demo.

| component | state | operations | depends on |
|---|---|---|---|
| Durable queue: `api/jobs/service.py` (JobRunner), functions of migrations 0006 and 0007, tables of 0003 | `outbox_jobs`, `job_attempts`; a worker's claimed batch | enqueue, claim, run handler, finish, retry, reclaim | handlers, worker loop |
| Worker process: `api/worker.py`, `api/main.py` (worker-health) | `worker_heartbeats` | poll, heartbeat, drain | queue |
| Job handlers: `api/jobs/service.py:123-414` | `csv_imports`, `canonical_events`, `reconciliation_*` | canonical event, CSV import, reconciliation | queue, storage |
| Webhook ingestion: `api/ingestion/` | `webhook_receipts`, `canonical_events`, `outbox_jobs`, evidence objects, advisory lock | receive | endpoints, storage, queue |
| Evidence storage: `api/storage/objects.py` | S3 objects | put_if_absent, head, read, delete, list_page | - |
| CSV upload: `api/imports/` | `csv_imports`, objects | upload, status | storage, queue |
| Replay and reconciliation requests: `api/events/operations.py` | `event_replays`, `reconciliation_runs` | replay, start, get | queue |
| Contracts: `api/contracts/`, migrations 0008 and 0009 | contracts, versions, rules, acceptances, authorities, bindings | create, propose, accept, activate, suspend, resume, terminate, publish, retire, bind | command results |
| Command idempotency: `ContractService._run`, `ContractRepository` | `contract_command_results`, `contract_domain_outbox`, audit rows | lookup, remember, record | contracts |
| Outcome evaluator: `api/outcomes/` | none (pure) | evaluate, progress state machine | templates |
| Integration endpoints: `api/integrations/`, migration 0005 | `integration_endpoints`, `integration_secret_versions` | create, rotate, disable, revoke, resolve | secrets |
| Sandbox: `api/mvp.py`, routes in `api/main.py` | one JSON document under a lock | approve, verify, record evidence, evaluate, dispute | - |
| In-memory store: `api/domain.py` (no caller in the application) | dictionaries and lists | orders, events, credit, dispute | - |
| Authentication, tenancy, row level security: `api/auth/`, `api/tenancy.py`, `api/db.py` | users, keys, memberships | checks of one request | - |

How they interact: ingestion, CSV upload, replay and reconciliation requests
insert an event and a job in one transaction; workers claim jobs, run the handler
of the job's kind in a transaction of its own, and report the outcome in a third
one, fenced by the lease token. Contract commands run in one transaction that
also stores their response under the caller's idempotency key.

What is hard: two workers on one job after a lease has run out; a worker that
dies between claim, handler and finish; several API processes receiving the same
delivery; a store (S3) that takes no part in the database transaction; an
ambiguous commit; commands that read before they lock, or never lock; retries
that overlap the call they repeat. `hazards` in PROJECT.json lists them at their
lines, with the property that covers each or the reason none does yet.

What makes each component correct:

- queue: open attempt = current lease; the history explains the state; completed
  means handled; terminal is final; every job settles;
- ingestion: one receipt per identity; accepted answers agree with it; conflicts
  are real; evidence and receipt do not contradict each other;
- command idempotency: a key takes effect once; every success answered under it
  is the original response; no circular waiting;
- contracts: one active version, accepted by exactly the required parties;
  agreed history never changes; terminated contracts are final;
- CSV imports: an import is whole or not there, however often its handler runs; a
  key's answers and its file agree with it; readable files are imported;
- replay and reconciliation: a key's answers agree; a report is that of one
  execution and calls nothing an orphan that has its row;
- evaluator: the verdict depends on the set of events and not on their order, is
  the documented one, and is not contradicted by later evidence;
- endpoints: a key that was issued works until it has been replaced for the overlap
  or twice; no instant is without a key; nothing is resolved after the endpoint was
  disabled;
- sandbox: one debit per billable result; what was answered survives a restart.

## 2. Modules

| module | models | runs | proofs |
|---|---|---|---|
| OutboxJobs | durable queue, workers | outbox | OutboxJobsProofs |
| JobQueue | what the queue promises, abstractly | implemented in outbox, used in imports and operations | OutboxJobsProofs, PipelineProofs |
| WebhookIngestion | receive, evidence, receipt | ingestion, ingestion_evidence | WebhookIngestionProofs |
| Receiving | what senders of webhooks are promised, abstractly | implemented in ingestion | WebhookIngestionProofs |
| CommandResults | `_run` for any command | commands, commands_retry, commands_publish | CommandResultsProofs |
| KeyedCommands | what callers are promised of commands with keys, abstractly | implemented in commands | CommandResultsProofs |
| Contracts | every contract and rule command on its rows | contracts | ContractsProofs |
| Agreements | what the parties of a contract are promised, abstractly | implemented in contracts | ContractsProofs |
| JobRuns | executions of handlers on JobQueue | imports, operations | PipelineProofs |
| CsvImports | upload route and import handler | imports, operations | PipelineProofs |
| Operations | replay and reconciliation routes, the other handlers | operations | PipelineProofs |
| Evaluator | `evaluate`, templates, state machine | evaluator | EvaluatorProofs |
| Endpoints | endpoint, secret rotation, resolver | endpoints | EndpointsProofs |
| Sandbox | MVPStore and its file | sandbox | SandboxProofs |

Composition: OutboxJobs implements JobQueue under the refinement mapping `Queue`
(pending, leased and retry are one open state; `applied` is `worked`). JobRuns
EXTENDS JobQueue with runs of handlers; CsvImports EXTENDS JobRuns, and Operations
EXTENDS CsvImports: the two share queue, tables and object store, and the steps of
the one leave the variables of the other alone unless the code touches both. So
the handlers are checked on what the queue was shown to promise and not on its
leases and clocks again. CommandResults implements KeyedCommands in the same way
(`Keyed`): sessions, locks, transactions and lost acknowledgements are its detail.
Contracts implements Agreements (`Agreed`), whose commands are one step each, and
WebhookIngestion implements Receiving (`Received`).

`MCxxx` modules extend the specification with the symmetry sets of the runs.
Operators commented as "a slip" are deliberate mistakes next to the definition
they would replace; no action uses them. They are the mutants under which each
property must fail.

### OutboxJobs

`state`, `due`, `lease`, `leaseLeft`, `attemptCount` are the columns of
`outbox_jobs`; `attempts` the outcomes of `job_attempts` by attempt number;
`batch` and `hand` what `run_once` holds in memory; `applied` records under which
attempts a handler's own transaction committed. Times are relative to now, and
`Tick` lowers them. A lease token is a fresh uuid per claim, named by the attempt
it was drawn for.

- `Enqueue`: the `INSERT INTO outbox_jobs` of a producer.
- `Claim`: `outcomeos_claim_jobs` as of migration 0007, one statement with
  `FOR UPDATE SKIP LOCKED`, hence one step: due jobs and expired leases, oldest
  `available_at` first, at most a batch, closing a lost attempt and opening the next.
- `RunHandler`: one round of the loop in `run_once`. A handler returns, raises
  `PermanentJobError` (its transaction is rolled back) or raises anything else,
  before or after its commit took effect.
- `Finish`: `outcomeos_finish_job`, with effect only while the row is leased under
  the caller's token. An expired lease nobody has reclaimed still counts, as in
  the code.
- `Crash`: the process dies (or a claim or finish fails, which ends `main`) and is
  restarted. It forgets its batch.

### WebhookIngestion

All of a delivery's shared state (advisory lock, object key, receipt, unique
constraint) depends on its provider identity, so one identity is modelled. Each
server is an API process: `receive` blocks its event loop, so a process serves
one delivery at a time. Bodies are abstract, a digest is the body itself, a
delivery's number stands for the uuids it drew. `Put` and `Head` are the two
requests of `put_if_absent`; `PutFails`, `CommitFails` (rolled back, or committed
with the acknowledgement lost) and `Crash` are the faults; `Cleanup` is the
`except` clause, which runs after the transaction, and with it the advisory lock,
is gone.

### Receiving

The same identity for its senders: a body is recorded once (`Record`), whoever asks
is told of it (`Accept`, which tells the recorded delivery from its repetitions) or
refused (`Refuse`), and evidence is stored only before there is a receipt and lost
at any time (`LoseEvidence` is the clean-up of any failed delivery). So the
promise about evidence that the code keeps is stated beside the one it does not
keep (`AcceptedHasEvidence`, section 3).

### CommandResults

One tenant and one contract. A request stands for the digest of a command and
its arguments; constants say which requests lock the contract row (`Locking`),
which are transitions that cannot be repeated (`Once`), and which have a response
`json.dumps` refuses (`Unstorable`: source bindings). A session goes through
`Lookup`, `Lock`, `Check`, `Insert`, `Commit`. Waiting for the row lock and for an
uncommitted unique key are guards. Domain writes, audit and outbox rows commit
together: one effect. A call is answered once (`AnsweredInv`).

### KeyedCommands

What a caller may rely on: the results stored under keys, the effects on the
contract and the answers given. A call takes effect in one step, under a free key
that then holds its result, and whether or not the caller hears of it
(`TakeEffect`); or it is answered in one step (`Turn`): with the stored result of
its key if that is for the same request, with a conflict if it is for another, with
a refusal if the transition was made before, with an error if the key has been
taken or the response cannot be stored. Sessions, waits, rollbacks and ambiguous
commits are gone. That CommandResults implements it says that what a transaction
read before it waited is never the reason of an answer that is no longer true.

### Contracts

`contract`, `lockVersion`, `versions`, `acceptances`, `authorities` and `rule` are
the tables. A command on a contract takes the row lock, reads and checks (the
`Check...` actions) and then writes and commits; between the two it sits in
`doing`, and other sessions may do anything that does not need the lock.
Transitions of rule versions read without a lock (`CheckRule`) and write later
(`TransitionRule`). Writes a trigger or a unique index refuses are disabled, and
only `Abort` is left. Idempotency keys are fresh here, because CommandResults
covers them. A digest is the version it was computed from: from the proposal on
the trigger keeps terms and digest. `create_binding` is left out because it always
rolls back (section 6), and `withdrawn` because no command leads
to it.

### Agreements

Contracts without sessions: a command finds the rows as they are and changes them
in one step. A version is draft, proposed or agreed, and at most one is in force;
active and superseded are told apart by that. The mapping (`terms`, `stage`,
`inForce`) reads both off the version rows. The state machine of contracts and the
conditions of an agreement are each stated in one place here, where the code
spreads them over service, triggers and unique indexes. That a version may be
drafted under a rule retired meanwhile, and that any authorized role may accept, is
what the code does (section 6).

### JobQueue and JobRuns

A job is `absent`, `open`, `completed` or `dead`; `tries` is `attempt_count`;
`worked` the attempts whose handler transaction committed, which may happen after
a later attempt has begun or settled the job (`Work` has no guard on the latest
attempt: a superseded handler still commits). `Settle` is fenced, and `completed`
needs the last attempt to have taken effect. In JobRuns a run is a record per
claimed attempt; `StartRun` on a job that still has a live run is a lease that ran
out; a handler is a sequence of steps of its run; `Report` is the second half of
`run_once` with `outcomeos_finish_job`; `LoseRun` is the death of a worker.

### CsvImports

An upload call goes through `Lookup`, `PutObject`, `Persist` inside one
transaction at read committed, so two calls under one key may both find nothing,
and the unique index decides at `Persist`. `PersistFails` is a commit that is
rolled back or is done without acknowledgement; `Cleanup` is the `except` clause.
The import handler holds the row lock of its import from its read to its commit,
so `Import` is one step. Its outcome depends on what a line is to the two parsers:
the upload parses the file as a whole, the worker header and line one by one. A
quoted line break is one row to the first and two broken lines to the second, whose
`csv.Error` is not among the exceptions it turns into a rejected row: the job
raises, is retried, goes dead, and the import stays `uploaded`
(`ReadableImportsComplete` therefore speaks of files without such rows). Rows are
`rejected` only when the limits of worker and API process differ.

### Operations

Replay and reconciliation requests are a lookup and an insert in one transaction,
like uploads, without an object and without cleaning up. A payload is the set of
its fields and the fields its digest was computed over. A reconciliation execution
reads the evidence (`CheckEvidence`), lists a page of objects (`ListObjects`) and
then reads the rows and commits (`RecordAnomalies`); uploads go on in between. The
four queries on the pipeline's tables find nothing, because the rows they join are
inserted together (ingestion, uploads, requests) and an open attempt belongs to a
leased job (`RowInv` of OutboxJobs); stale leases are not told apart.

What the run shows beyond its properties: an object of an upload that is under way
has no row yet and is reported; only one page of objects is looked at; a run
executed twice keeps both executions' anomalies while its summary is that of the
last.

### Evaluator

`Evaluate` is `evaluate` over a sequence of events and a request (`Request`: the
rule's template and anchor type, and the instant), with the checks of its first
loop, the duplicate dictionary, the stable sort and the windows. `Unique` are the
first places of the events; `Ordered` puts at place p the event that p - 1 of them
come before, which is what a stable sort does; a digest is what it is computed
from, so "the same digest" is "the same input". Around it one
outcome lives: events occur and are received later (`Receive`) or read twice
(`ReadAgain`), evaluations are made as of the present or an earlier instant
(`Decide`) and move the state through `AllowedTransitions`. The code has no caller
of `evaluate` and no table of outcomes yet, so how events reach it is external.
`VerdictsAsDocumented` states the verdicts of docs/OUTCOME_EVALUATION.md on the set
of evidence, independently of the algorithm's order. `FinalVerdictsHold` leaves out
evidence received at the very instant of the reading, after it: `received_at <=
as_of`, `received_at <= finalization` and `as_of < finalization` include that
instant on both sides, and such evidence can change the verdict.

### Endpoints

One endpoint. A rotation takes its time from its own host before its transaction
begins, chooses the newest version (`ChooseLatest`), waits for that row
(`LockLatest`) and commits; a second rotation that chose the same row before the
first committed then numbers its version like the first and is refused by
`uq_secret_versions` (`CommitRotation` disabled, `RotationFails` left). A key is
named by the rotation that drew it, and the answer that tells it may be lost. The
resolver runs in a transaction of its own, so a delivery resolved before a
revocation may be accepted after it: `EndpointInv` says that this is the only way.
An endpoint that is disabled cannot be revoked any more (404).

### Sandbox

The document in memory, the file, the request in the lock with how far its write
is, and what clients were told since the last reset. `write_text` truncates and
then writes (`Truncate`, `Written`); a crash in between leaves a torn file, and the
process does not start again until somebody removes it. A write that fails leaves
the change in memory only, so the repeated request is answered from memory: the
properties say "as long as no write has failed" where they need it, and promise
nothing of a change whose save failed. Told is what commands answered: the reads
that do not take the lock (`api/main.py:205-224`) may tell of a change before it is
saved, and are left out. The stored
answers (`idempotency`) are a function from keys to what an answer tells, with
`Nothing` for a key that was not answered. The answer
stored for an approval holds the lead object itself, so its stage changes with the
document until a restart parts the two (`shared`).

## 3. Runs, bounds and what they show

| run | instance | distinct states | shows |
|---|---|---|---|
| outbox | 2 jobs, 2 workers, batch 2, lease 2, 2 attempts, 2 mishaps | 780 309 | leases, history and fencing agree; OutboxJobs implements JobQueue; every job is completed or dead in the end |
| ingestion | 3 processes, 2 bodies, 4 deliveries, 3 faults | 953 089 | answers, receipt and evidence agree; WebhookIngestion implements Receiving; every delivery ends |
| commands | 3 sessions, 2 keys, 4 kinds of request, 3 calls, 1 fault | 520 010 | keys, answers and transitions; CommandResults implements KeyedCommands; every call ends |
| contracts | 2 sessions, 1 contract, 2 versions, 2 roles, 2 principals, 3 state changes | 335 334 (with symmetry) | contract, versions, acceptances and history agree; Contracts implements Agreements |
| imports | 3 uploads, 1 key, 2 files, 2 attempts, 2 faults | 224 530 | imports are whole; answers and files agree with them; readable ones complete |
| operations | 1 upload, 1 replay, 2 reconciliations, page of 1, 1 fault | 1 093 180 (with symmetry) | requests under one key agree; what reconciliation reports |
| evaluator | 2 templates with 8 and 6 occurrences, 3 deliveries, clock to 4 | 141 680 | verdicts as documented, in any order, not contradicted later |
| sandbox | 2 approvals, 2 webhooks, 1 failing write, any number of crashes | 1 527 824 (with symmetry) | memory, file, answers and ledger agree |
| endpoints | 3 rotations, 1 delivery, skew 1, clock to 4 | 4 406 491 (with symmetry) | which key works when |

Why the bounds are enough for the interesting cases:

- Queue: two workers are what an expired lease needs (the old holder and the
  new); batch 2 gives the second job of a batch whose lease ran out before it was
  reached; two attempts reach both sides of the maximum; two mishaps allow a
  crash on top of an overrun lease. `MaxLate` only limits how long overdue times
  are told apart.
- Ingestion: three processes give a committing, a colliding and a cleaning-up
  delivery at once; four deliveries add a retry after the race; three faults
  allow an ambiguous commit, a failed delete and a crash in one history.
- Commands: three calls under two keys contain a retry, a race and a reuse with
  another request; one fault is a lost answer or a rollback.
- Contracts: two versions are needed to supersede one; two sessions for every
  race between a check and a write; three changes allow activate, suspend,
  resume or terminate, and a version activated on a suspended contract. Contracts
  share no rows, and the proofs cover any number.
- Imports: keys share nothing but the queue, so one key is enough for races; the
  third upload looks after the race of two. Two faults exhaust two attempts, or
  combine an ambiguous commit with a superseded run.
- Operations: two calls under one key give a duplicate and a race; one fault is a
  superseded run or a lost acknowledgement, which is a second execution. The file
  of the upload is stored by a call under way, by one that failed, or belongs to a
  row. With one upload the page is never cut short here: that files left out of a
  page make no false orphan is left to the proof, which covers any page size.
- Evaluator: the windows are 2 and 1, so every event has a place before, on and
  after each boundary; three deliveries are an anchor, a required and a
  disqualifying, conflicting, altered or second anchor event. A template with
  conflicting types and one with money are used; the other two differ in names.
  What may be received depends on the rule (`Occurrences`): the types it names and
  one event of a type it does not name, since all such events are read alike.
- Sandbox: the second approval replaces order and lead of the first; one webhook
  of each kind makes an outcome billable; crashes are not bounded.
- Endpoints: two rotations overlap, the third comes while the overlap of the
  first lasts; the clock reaches beyond a lifetime of 3.

`CHECK_DEADLOCK FALSE` stands where requests, deliveries, faults or clocks are
bounded, so that the model stops when all have been used. The queue ticks for ever
and a contract can always be locked, so deadlock is checked there.

Three runs must fail. Each checks one sentence of the documents, or one
assertion of the tests, that the code does not keep:

- `ingestion_evidence`: A stores the object and its commit fails; B finds the
  same object, commits its receipt and answers 202; A's `except` clause then
  deletes the object. The accepted event has no evidence. The same clause of the
  CSV upload deletes the file of an import whose commit was not acknowledged
  (`FilesMatchImports` names that case).
- `commands_retry`: the stored result is read before the contract lock. A retry
  that was waiting is refused (409) although the original result is stored.
- `commands_publish`: two publishers both read `draft`; both commit and both
  record a publication.

## 4. Fairness

- Queue: weak fairness of `Claim`, `RunHandler` and `Finish` per worker is the
  `while` loop of `worker.main` together with a supervisor that restarts a dead
  process; time passes (`Tick`). Crashes and overrun leases are finitely many:
  with infinitely many the queue does not settle, because claims know no maximum
  (section 6).
- Imports: a job no live worker holds is claimed again, and a claimed run goes on
  to its report: the two sides of the same loop. Nothing is assumed of uploads.
- Ingestion and commands: a process that serves a request goes on with it (weak
  fairness of its next step); nothing is assumed of arriving requests. The locks
  are granted one holder at a time, and with finitely many requests weak fairness
  is enough.

The other specifications are checked for safety only and state no fairness.

## 5. Proofs

For any number of jobs, workers, processes, deliveries, bodies, sessions, keys,
contracts, rules, roles, principals, uploads, files, rotations, webhooks and events,
any number of faults, any windows and evidence, and any admissible settings:

| module | theorems |
|---|---|
| OutboxJobsProofs | TypeCorrect, LeaseAgreement, HistoryAgreement, CompletedMeansApplied, RetryLimit, OneExecutor, TerminalJobsStay, AttemptsAreImmutable, ImplementsAbstractQueue |
| WebhookIngestionProofs | TypeCorrect, LookupIsProtected, AcceptedAgreement, EvidenceAgreement, ConflictsAgreement, OrphansHaveACause, ReceiptStays, ImplementsOneStep |
| CommandResultsProofs | TypeCorrect, KeysApplyOnce, AnswerAgreement, LockedTransitions, ImplementsKeyed |
| ContractsProofs | TypeCorrect, OneActiveVersion, ActivationNeedsAcceptance, IfMatchHolds, HistoryStays, TerminationIsFinal, RetirementIsFinal, ImplementsAtomic |
| PipelineProofs | of the imports: ImportsCorrect, UploadAgreement, FilesAgreement, ImportsUseTheQueue; of the whole pipeline: PipelineCorrect, OrphansAreReal, SummariesAreWhole, PipelineUsesTheQueue |
| EvaluatorProofs | DocumentedVerdicts, OrderNeverMatters, VerdictsAreFinal |
| EndpointsProofs | EndpointsCorrect, NoGap, IssuedKeysWork |
| SandboxProofs | DocumentsAreConsistent, AnswersSurvive, FeesStay |

Each of them also proves its inductive invariant (`Inductive`; for the pipeline
`PipelineInductive`, for the evaluator `EvaluatorInductive`), which the safety
run of the module checks with TLC: `IndInv`, and `ImportIndInv` for the imports.
Some of the properties (TypeOK, OpenAttemptIsCurrentLease, CompletedWasApplied,
RetriesStayUnderLimit, TerminalIsFinal; AppliedOncePerKey; LookupStaysTrue,
ReceiptIsImmutable; TerminatedIsFinal, RetiredIsFinal; EndpointInv, ImportInv,
PipelineInv, SandboxInv, QueueSpec) are not checked by a run of their own: they
are proved, and the inductive invariants the runs check contain or imply the
state properties among them.

Assumptions are the named ones on the constants: bounds are naturals, settings
are at least one with base <= maximum (`config.py` enforces it), an overlap is
shorter than the lifetime of a key, requests of different kinds are different, and
the model values `None`, `Nothing` and `Torn` are not data. TLC evaluates them in
the run of each module.

The arguments:

- Queue. The properties alone do not say what a worker remembers. `RowInv` ties
  state, token, count and history of a row together (the token of a leased row is
  its last attempt, the only open one), and `HeldInv` says that what workers hold
  was claimed under an attempt number already counted. A superseded worker then
  holds a smaller number than the row's token, and the fence rejects it.
  OneExecutor needs an invariant of its own on top: no claim is held twice. It is
  also what the refinement needs: a handler run is a `Work` step of an attempt
  that has not worked yet only because nobody else holds the claim.
- Ingestion. `DeliveryInv` says what each step of a delivery knows; the core is
  that between lookup and insert the process holds the lock and there is no
  receipt, so a commit never meets the unique constraint. OrphansHaveACause needs
  one invariant more, `EvidenceIsOwned`: while no store has failed and no process
  has died, an object without a receipt belongs to a delivery that is still going
  to insert the receipt or to delete the object.
  ImplementsOneStep maps the commit that takes hold, acknowledged or not, to
  `Record` and each answer to `Accept` or `Refuse`; `DeliveryInv` says that the
  receipt a response speaks of is the stored one.
- Commands. `SessionInv` adds the exclusion of the two waits (row lock, unique
  key) and that a transition checked under the lock is still possible. For
  ImplementsKeyed, a commit that takes hold maps to `TakeEffect` and a step that
  answers without one to `Turn`; every other step is a stutter. `SessionInv`
  gives the reasons (the key a session writes is still free, the transition it
  checked has not been made) and `AnsweredInv` that the call is still fresh: a call
  in progress has neither been answered nor taken effect.
- Contracts. `ChecksHold` says that what a command checked is true until it
  writes, and `OneHolder` is why: no other command holds the contract. One lemma
  (`WriteStep`) shows for all writes that rows of other contracts, and commands on
  them, are undisturbed, so each write only has to restore agreement on its own
  contract. `TerminatedIsFinal` and `RetiredIsFinal` follow from the triggers.
  ImplementsAtomic maps every write to the one command of Agreements it carries out
  and every other step to a stutter, the second of two publications included. It
  needs `ChecksHold` for what was checked under the lock, and `BasesHold` for what
  was read without it: a rule version that was published is published or retired
  from then on, and an authority is never taken back.
- Imports. `RowInv` says that a row is that of the one call it names, which has
  committed whatever it was answered, and that its job has taken effect only by
  completing it; `RowEventsInv` that rows and errors of a file are those of a
  completed import. A run that commits an import therefore finds none of its
  lines handled, and what it counts is what it inserts (`EveryLineCounted` and
  `RowsCounted` count the lines of any file); a superseded run finds the import
  completed and inserts nothing. `RunsInv` is what the queue's fence needs of runs.
  `RunStepQueue` shows once that everything workers do with claims, reports and
  deaths is a step of JobQueue that keeps what others rely on.
- Operations. Its state is added to that of the imports, so the proof shows for
  every step of the one that it leaves the invariant of the other alone
  (`Bystander`, `UploadLeavesRequests`, `ImportLeavesRequests`, ...). `RowsFit`
  is `RowInv` for the two request tables. `ReportsInv` carries the reports: a file
  that an execution saw with its row still has it, so it is not among the orphans;
  anomalies are those of attempts that took effect, so the anomalies of the
  attempt that commits are exactly the ones its summary counts.
- The two refinements ImportsUseTheQueue and PipelineUsesTheQueue close the circle
  with ImplementsAbstractQueue: the workers implement JobQueue, and the handlers
  rely on nothing of a job beyond it.
- Endpoints. The core is `CommitsOnNewest`: a rotation that chose its version
  before another one committed numbers its row like the other's, so the unique key
  admits only the rotation of the newest version. `SecretsInv` then knows the end
  of every version but the newest from its successor's start. IssuedKeyWorks
  holds of every issued key, whether or not the answer that told it arrived.
- Evaluator. The loop, the sort and the windows need no induction, because the sort
  is stated by rank. In a finite set under a strict total order the numbers of
  predecessors are a bijection onto the places (`Ranking`), and only one sequence
  enumerates the set in order (`InOrderEnumerates`). A reading that passes the
  checks has one event per id, so its order is total, and what the sort returns is
  the one enumeration of its set of evidence (`OrderedIsInOrder`), however it was
  read. Verdict and input are then functions of that set (`EvaluateOfSet`), which
  gives OrderNeverMatters, and the documented conditions follow from it
  (DocumentedVerdicts). For VerdictsAreFinal, `DecidedInv` says that the recorded
  evaluation is the one of the first deliveries read; what is received after the
  finalization instant is not admissible (`LaterEvidence`), so the larger set has
  the same verdict unless the reading is refused (`CountedLater`).
- Sandbox. The proof speaks of documents: a request takes a sound document to a
  sound one that extends it (it holds all answers, facts and ledger entries the
  old one held), which the lemmas `...IsSound` show for each request, and the steps
  of the write and the process only move documents between memory and file.
  `WriterInv` says that a request under way tells only what its document holds.
  FeesStay and AnswersSurvive are both consequences: a save never takes back what
  the file held when it was answered.

Only model-checked:

- liveness under fairness (EveryJobSettles, EveryDeliveryEnds, EveryCallEnds,
  ReadableImportsComplete), which the provers do not reach;
- what the failing runs show.

## 6. Where code and documents disagree

Three disagreements are the failing runs of section 3. Seven more are stated as
definitions that no configuration lists and no property relies on; added as an
invariant or property to the run named, TLC finds them violated.

- `AttemptsWithinMaximum` (outbox). The limit is applied only when a handler
  raises (`api/jobs/service.py:101,105`); `outcomeos_claim_jobs` reclaims an
  expired lease whatever `attempt_count` is, so a job whose worker dies each time
  is attempted without end. The plan of the durable pipeline
  (docs/superpowers/plans/2026-08-15-milestone-2-part-3-durable-pipeline.md:20-22)
  lists "maximum attempts" among what claims use.
- `NoErrorUnderUnusedKey` (commands, with `bind` among the requests).
  `create_binding` returns its body, whose dates are datetimes, and `remember`
  serialises the result with `json.dumps` without a default
  (`api/contracts/repositories.py:119`): no source binding can be created.
  docs/CONTRACTS.md:72-73 describes the retry of one.
- `RetirementPreventsUse` (contracts). Only `create_contract_version` checks that
  the rule version is published; a version created before its rule was retired is
  activated afterwards. docs/CONTRACTS.md:31: "Retirement prevents new use without
  changing history."
- `OnlyRequiredRolesAccept` (contracts). The service records the acceptance of any
  authorized role, required or not, and activation wants exactly the required ones,
  so one such acceptance blocks the version for good. `api/contracts/domain.py:217`
  refuses it.
- `ReplaysAreHandled` (operations). A replay copies the payload, adds
  `replay_source_event_id` and keeps the `payload_digest` field
  (`api/events/operations.py:100-101`), so the handler's digests never match and
  the job of every replay goes dead on its first report. docs/EVENT_CATALOG.md:7-8
  counts replay among what is implemented. With the lineage field left out of the
  recomputed digest, the definition holds in the same run.
- `ValidKeysResolve` (endpoints). A rotation leaves the previous key valid for the
  overlap, but the resolver returns two keys: after a second rotation within the
  overlap, whose answers may both have been lost, the key the caller still uses is
  valid by its row and refused. docs/INTEGRATIONS.md:31 speaks of "a configured
  bounded overlap". `IssuedKeyWorks` promises what remains, the newest two.
- `CreditsHaveDebits` (sandbox). `dispute_reverse` credits a fee that was never
  debited (`api/mvp.py:287`), and a later evaluation debits it.
  docs/IMPLEMENTATION_PLAN.md:26 speaks of a credit linked to a debit that remains
  present. `Consistent` counts one of each, whether or not the other is there.

Others were met while modelling and are part of the models:

- A row with a quoted line break is accepted at upload and kills the import
  (section 2, CsvImports).
- A second anchor event, however late, turns the next evaluation of a decided
  outcome into a refusal, although late evidence "cannot rewrite" a finalized
  result (docs/OUTCOME_EVALUATION.md:43-44); the stored verdict is not reversed.

## 7. Not modelled, and next steps

Signature, schema and configuration checks decide about one request and keep no
state; authentication and row level security restrict a transaction to one tenant,
which the models take as given; money and regional values are validated constants;
the AI gateway and the web application keep no state of the system. Heartbeats and
worker health are observation only: nothing reads them but the health route. Reads
of the sandbox without its lock, its conversation and audit log are left out. The
in-memory store of `api/domain.py` is used by unit tests only.

Next: abstract specifications of uploads and of key rotation; source bindings and
selection as the schema intends them; the in-memory store.
