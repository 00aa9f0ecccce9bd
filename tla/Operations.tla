----------------------------- MODULE Operations -----------------------------
(***************************************************************************)
(* The durable pipeline around the queue: CSV imports together with the    *)
(* replay and reconciliation requests of events/operations.py and the      *)
(* handlers of their jobs.  Uploads, requests and handlers share the       *)
(* tables and the object store.                                            *)
(*                                                                         *)
(* A request names the event, run and job it draws.  An event is there     *)
(* when its job is, because both are inserted by one transaction.          *)
(***************************************************************************)
EXTENDS CsvImports

CONSTANTS
  ReplayCalls,     \* calls of the replay route
  ReconcileCalls,  \* calls of the reconciliation route
  Kinds,           \* kinds of reconciliation a caller may ask for
  PageSize         \* objects list_page returns at most (100 in the code)

Requests == ReplayCalls \cup ReconcileCalls

Codes == {"evidence_missing", "orphan_evidence"}
ReplayRows == [id: ReplayCalls, asked: Jobs]
RunRows == [id: ReconcileCalls, asked: Kinds, state: {"running", "completed"},
            summary: [Codes -> Nat]]

ASSUME OperationsAssumption ==
  /\ Jobs = Uploads \cup RowJobs \cup Requests
  /\ ReplayCalls \cap ReconcileCalls = {}
  /\ Requests \cap (Uploads \cup RowJobs) = {}
  /\ PageSize \in Nat \ {0}
  /\ None \notin Requests \cup ReplayRows \cup RunRows

VARIABLES
  ask,             \* per call: the step it is at, its key, what it asks, its answer
  replays,         \* event_replays by idempotency key
  content,         \* payloads of the replay events
  reconciliations, \* reconciliation_runs by idempotency key
  anomalies,       \* reconciliation_anomalies
  evidence         \* evidence of a webhook receipt, as WebhookIngestion leaves it

opVars == <<ask, replays, content, reconciliations, anomalies, evidence>>
vars == <<runVars, csvVars, opVars>>

Asked == Jobs \cup Kinds
Fields == {"envelope", "control", "replay_source_event_id"}
OpTypeOK ==
  /\ ask \in [Requests -> [step: {"idle", "lookup", "persist"} \cup Answers,
                           key: Keys \cup {None}, asked: Asked \cup {None},
                           id: Requests \cup {None}]]
  /\ replays \in [Keys -> {None} \cup ReplayRows]
  /\ content \in [ReplayCalls -> [fields: SUBSET Fields, sealed: SUBSET Fields]]
  /\ reconciliations \in [Keys -> {None} \cup RunRows]
  /\ \A a \in anomalies : a.run \in ReconcileCalls /\ a.by \in 1 .. tries[a.run]

NoSummary == [code \in Codes |-> 0]

Init ==
  /\ RunInit
  /\ CsvInit
  /\ ask = [c \in Requests |-> [step |-> "idle", key |-> None, asked |-> None,
                                id |-> None]]
  /\ replays = [k \in Keys |-> None]
  /\ content = [c \in ReplayCalls |-> [fields |-> {}, sealed |-> {}]]
  /\ reconciliations = [k \in Keys |-> None]
  /\ anomalies = {}
  /\ evidence \in {"none", "intact", "missing"}

-----------------------------------------------------------------------------
AnswerAsk(c, what, id) == ask' = [ask EXCEPT ![c].step = what, ![c].id = id]

(* The row of an earlier request under the key, if there is one, answers.  *)
LookupIn(table, c) ==
  LET old == table[ask[c].key] IN
    \/ old = None /\ ask' = [ask EXCEPT ![c].step = "persist"]
    \/ old # None /\ old.asked = ask[c].asked /\ AnswerAsk(c, "duplicate", old.id)
    \/ old # None /\ old.asked # ask[c].asked /\ AnswerAsk(c, "conflict", None)

Ask(c) ==
  /\ ask[c].step = "idle"
  /\ \E k \in Keys, a \in IF c \in ReplayCalls
                           THEN {e \in Jobs : status[e] # "absent"} ELSE Kinds :
       ask' = [ask EXCEPT ![c] = [step |-> "lookup", key |-> k, asked |-> a,
                                  id |-> None]]
  /\ UNCHANGED <<runVars, csvVars, replays, content, reconciliations, anomalies,
                 evidence>>

LookupReplay(c) ==
  /\ ask[c].step = "lookup"
  /\ LookupIn(replays, c)
  /\ UNCHANGED <<runVars, csvVars, replays, content, reconciliations, anomalies,
                 evidence>>

LookupReconciliation(c) ==
  /\ ask[c].step = "lookup"
  /\ LookupIn(reconciliations, c)
  /\ UNCHANGED <<runVars, csvVars, replays, content, reconciliations, anomalies,
                 evidence>>

(* A transaction that inserts a row under the key with its event and job:  *)
(* it commits, is refused by the unique key, is rolled back, or commits    *)
(* with its answer lost.  An error is never followed by cleaning up.       *)
CommitAsk(table, c) ==
  \/ table[ask[c].key] = None /\ Enqueue(c) /\ AnswerAsk(c, "created", c)
       /\ UNCHANGED faults
  \/ table[ask[c].key] = None /\ Fault /\ Enqueue(c) /\ AnswerAsk(c, "error", None)

RefuseAsk(table, c) ==
  /\ AnswerAsk(c, "error", None)
  /\ \/ table[ask[c].key] # None /\ UNCHANGED faults
     \/ Fault
  /\ UNCHANGED queueVars

(* What a row event, a control event or a replay holds, and the fields its *)
(* payload_digest was computed over (control events have none).            *)
Content(e) ==
  CASE e \in ReplayCalls -> content[e]
    [] e \in RowJobs     -> [fields |-> {"envelope"}, sealed |-> {"envelope"}]
    [] OTHER             -> [fields |-> {"control"}, sealed |-> {}]

(* A replay adds its source to the payload and keeps the digest in it. *)
Replayed(e) ==
  [Content(e) EXCEPT !.fields = @ \cup {"replay_source_event_id"}]

PersistReplay(c) ==
  /\ ask[c].step = "persist"
  /\ \/ /\ CommitAsk(replays, c)
        /\ replays' = [replays EXCEPT ![ask[c].key] = [id |-> c, asked |-> ask[c].asked]]
        /\ content' = [content EXCEPT ![c] = Replayed(ask[c].asked)]
     \/ RefuseAsk(replays, c) /\ UNCHANGED <<replays, content>>
  /\ UNCHANGED <<runs, csvVars, reconciliations, anomalies, evidence>>

PersistReconciliation(c) ==
  /\ ask[c].step = "persist"
  /\ \/ /\ CommitAsk(reconciliations, c)
        /\ reconciliations' = [reconciliations EXCEPT ![ask[c].key] =
             [id |-> c, asked |-> ask[c].asked, state |-> "running",
              summary |-> NoSummary]]
     \/ RefuseAsk(reconciliations, c) /\ UNCHANGED reconciliations
  /\ UNCHANGED <<runs, csvVars, replays, content, anomalies, evidence>>

-----------------------------------------------------------------------------
DigestHolds(e) == Content(e).sealed = Content(e).fields

(* The canonical event handler only reads. *)
CheckCanonical(r) ==
  /\ r.step = "start"
  /\ r.job \in RowJobs \cup ReplayCalls
  /\ \/ DigestHolds(r.job) /\ Work(r.job, r.attempt, {}) /\ EndRun(r, "returned")
     \/ ~DigestHolds(r.job) /\ EndRun(r, "permanent") /\ UNCHANGED queueVars
  /\ UNCHANGED <<faults, csvVars, opVars>>

(* The evidence loop.  An error of the store counts as missing evidence.   *)
(* The checks before it find nothing: event, job and receipt are inserted  *)
(* together and attempts are closed with their leases (OutboxJobs); stale  *)
(* leases are not told apart here.                                         *)
CheckEvidence(r) ==
  /\ r.step = "start"
  /\ r.job \in ReconcileCalls
  /\ \/ /\ UNCHANGED faults
        /\ AtStep(r, "list", IF evidence = "missing" THEN {<<"evidence_missing", None>>} ELSE {})
     \/ Fault /\ evidence = "intact" /\ AtStep(r, "list", {<<"evidence_missing", None>>})
  /\ UNCHANGED <<queueVars, csvVars, opVars>>

(* One page of the tenant's objects; their keys are random uuids.  The     *)
(* uploads that had a row at this moment are remembered for OrphansHadNoRow*)
(* only.                                                                   *)
ListObjects(r) ==
  /\ r.step = "list"
  /\ \E page \in SUBSET objects :
       /\ Cardinality(page) = IF Cardinality(objects) < PageSize
                              THEN Cardinality(objects) ELSE PageSize
       /\ AtStep(r, "known", r.seen \cup {<<"listed", u>> : u \in page}
                                    \cup {<<"rowed", u>> : u \in Rowed})
  /\ UNCHANGED <<faults, queueVars, csvVars, opVars>>

(* A slip: the keys of csv_imports are not among the known ones. *)
OrphansOfReceipts(r) == {u \in Uploads : <<"listed", u>> \in r.seen}

(* Objects of the page without a row when the rows are read, after it. *)
Orphans(r) == {u \in Uploads : <<"listed", u>> \in r.seen} \ Rowed

Found(r, code, resource) ==
  [run |-> r.job, by |-> r.attempt, code |-> code, resource |-> resource,
   rowed |-> <<"rowed", resource>> \in r.seen]

NewAnomalies(r) ==
  {Found(r, "evidence_missing", None) :
     x \in r.seen \cap {<<"evidence_missing", None>>}}
  \cup {Found(r, "orphan_evidence", u) : u \in Orphans(r)}

(* A slip: the summary counts the rows of every execution. *)
SummaryOfAll(r) ==
  [code \in Codes |->
     Cardinality({a \in anomalies \cup NewAnomalies(r) : a.run = r.job /\ a.code = code})]

Summary(r) ==
  [code \in Codes |->
     Cardinality({a \in NewAnomalies(r) : a.code = code})]

(* Anomalies get fresh ids: another execution of the run adds its own.  The *)
(* state of the run is not looked at.                                       *)
RecordAnomalies(r) ==
  /\ r.step = "known"
  /\ Work(r.job, r.attempt, {})
  /\ anomalies' = anomalies \cup NewAnomalies(r)
  /\ \E k \in Keys :
       /\ reconciliations[k] # None
       /\ reconciliations[k].id = r.job
       /\ reconciliations' = [reconciliations EXCEPT ![k].state = "completed",
                                                     ![k].summary = Summary(r)]
  /\ \/ EndRun(r, "returned") /\ UNCHANGED faults
     \/ Fault /\ EndRun(r, "raised")
  /\ UNCHANGED <<csvVars, ask, replays, content, evidence>>

Handle(r) ==
  \/ ImportCsv(r) /\ UNCHANGED opVars
  \/ CheckCanonical(r) \/ CheckEvidence(r) \/ ListObjects(r) \/ RecordAnomalies(r)

Next ==
  \/ UploadStep /\ UNCHANGED opVars
  \/ \E c \in Requests : Ask(c)
  \/ \E c \in ReplayCalls : LookupReplay(c) \/ PersistReplay(c)
  \/ \E c \in ReconcileCalls : LookupReconciliation(c) \/ PersistReconciliation(c)
  \/ \E r \in runs : Handle(r) \/ (HandlerFails(r) /\ UNCHANGED opVars)
  \/ RunStep(Jobs) /\ UNCHANGED <<csvVars, opVars>>

Spec == Init /\ [][Next]_vars

-----------------------------------------------------------------------------
(***************************************************************************)
(* Requests under one key agree: whoever is answered "created" or          *)
(* "duplicate" is given the one row of the key, which is what was asked.   *)
(***************************************************************************)
RequestsAgree ==
  \A c \in Requests : ask[c].id # None =>
    LET row == IF c \in ReplayCalls THEN replays[ask[c].key]
                                    ELSE reconciliations[ask[c].key]
    IN  row # None /\ row.id = ask[c].id /\ row.asked = ask[c].asked

PipelineInv == QueueTypeOK /\ CsvTypeOK /\ OpTypeOK /\ ImportsAreWhole /\ RequestsAgree

(***************************************************************************)
(* A reconciliation never calls a file an orphan that already had its row  *)
(* when the files were listed, although uploads commit at any time: the    *)
(* rows are read after the list.                                           *)
(***************************************************************************)
OrphansHadNoRow == \A a \in anomalies : a.code = "orphan_evidence" => ~a.rowed

(***************************************************************************)
(* A completed run's summary counts the anomalies of one whole execution,  *)
(* also when executions overlap or are repeated.  (Their anomalies are all *)
(* kept, so the table may hold more than the summary: see README.)         *)
(***************************************************************************)
SummaryIsOneExecution ==
  \A k \in Keys : reconciliations[k] # None =>
    LET run == reconciliations[k]
    IN  /\ run.state = "completed" <=> worked[run.id] # {}
        /\ run.state = "completed" =>
             \E n \in worked[run.id] : \A code \in Codes :
               run.summary[code] = Cardinality({a \in anomalies :
                 a.run = run.id /\ a.by = n /\ a.code = code})

(***************************************************************************)
(* The replay of a business event is handled like the event: its job is    *)
(* given up only after all its attempts (docs/EVENT_CATALOG.md counts      *)
(* replay as implemented).  See README for the digest that refuses it.     *)
(***************************************************************************)
ReplaysAreHandled ==
  \A c \in ReplayCalls :
    "envelope" \in content[c].fields /\ status[c] = "dead" => tries[c] >= MaxAttempts

(* A row is that of the one call it names, which has committed. *)
RowsFit(table) ==
  \A k \in Keys : table[k] # None =>
    LET call == ask[table[k].id]
    IN  /\ call.key = k /\ call.asked = table[k].asked
        /\ call.step \in {"created", "error"}
        /\ status[table[k].id] # "absent"

(* A request asks what the route lets it ask, and its row is its own. *)
RequestsInv ==
  /\ \A c \in Requests : IF ask[c].step = "idle" THEN ask[c].id = None ELSE
       /\ ask[c].key \in Keys
       /\ ask[c].asked \in IF c \in ReplayCalls THEN Jobs ELSE Kinds
  /\ RowsFit(replays) /\ RowsFit(reconciliations)

(* A reconciliation that saw a file with its row still finds the row, and   *)
(* anomalies are those of executions that have taken effect.                *)
ReportsInv ==
  /\ IsFiniteSet(objects)
  /\ \A r \in runs : /\ IsFiniteSet({u \in Uploads : <<"listed", u>> \in r.seen})
                     /\ {u \in Uploads : <<"rowed", u>> \in r.seen} \subseteq Rowed
  /\ \A a \in anomalies : a.by \in worked[a.run]

(***************************************************************************)
(* The inductive invariant behind the properties of requests and reports.  *)
(***************************************************************************)
OpInv == /\ OpTypeOK /\ RequestsAgree /\ RequestsInv /\ ReportsInv
         /\ OrphansHadNoRow /\ SummaryIsOneExecution
IndInv == ImportIndInv /\ OpInv
=============================================================================
