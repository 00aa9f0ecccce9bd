----------------------------- MODULE CsvImports -----------------------------
(***************************************************************************)
(* CSV imports: the upload route, which stores the file and inserts the    *)
(* import, its control event and its job under an idempotency key, and the *)
(* import handler, which turns the file's lines into canonical events and  *)
(* jobs of their own.                                                      *)
(*                                                                         *)
(* An upload call names the import id, the object key and the event it     *)
(* draws, so the job of upload u is u and the job of its row n is <<u, n>>.*)
(* A body is the sequence of its lines, each told apart by what the two    *)
(* parsers make of it: "valid"; "long", within the limits of the API       *)
(* process and beyond those of a worker with other settings; "split", one  *)
(* of the pieces of a row with a quoted line break, which upload parses as *)
(* one row and the worker line by line.                                    *)
(***************************************************************************)
EXTENDS JobRuns, Sequences, FiniteSets

CONSTANTS
  Uploads,  \* calls of the upload route
  Keys,     \* Idempotency-Key values
  Bodies,   \* files the route accepts
  None      \* no row

RowJobs == {<<u, n>> : u \in Uploads, n \in UNION {DOMAIN b : b \in Bodies}}

ImportRows == [id: Uploads, body: Bodies, state: {"uploaded", "completed"},
               accepted: Nat, rejected: Nat]

ASSUME CsvAssumption ==
  /\ Bodies \subseteq Seq({"valid", "long", "split"})
  /\ Uploads \cup RowJobs \subseteq Jobs
  /\ Uploads \cap RowJobs = {}
  /\ None \notin Uploads /\ None \notin ImportRows

VARIABLES
  upload,    \* per call: the step it is at, its key and body, its answer
  imports,   \* csv_imports by idempotency key
  objects,   \* uploads whose object is stored
  rowEvents, \* canonical_events of import rows
  rowErrors  \* csv_import_errors

csvVars == <<upload, imports, objects, rowEvents, rowErrors>>

Waiting == {"idle", "lookup", "put", "persist", "cleanup"}
Answers == {"created", "duplicate", "conflict", "error", "lost"}
CsvTypeOK ==
  /\ upload \in [Uploads -> [step: Waiting \cup Answers, key: Keys \cup {None},
                             body: Bodies \cup {None}, id: Uploads \cup {None}]]
  /\ imports \in [Keys -> {None} \cup ImportRows]
  /\ objects \subseteq Uploads
  /\ rowEvents \cup rowErrors \subseteq RowJobs

CsvInit ==
  /\ upload = [u \in Uploads |-> [step |-> "idle", key |-> None, body |-> None,
                                  id |-> None]]
  /\ imports = [k \in Keys |-> None]
  /\ objects = {}
  /\ rowEvents = {}
  /\ rowErrors = {}

-----------------------------------------------------------------------------
Goto(u, step) == upload' = [upload EXCEPT ![u].step = step]
Answer(u, what, id) ==
  upload' = [upload EXCEPT ![u].step = what, ![u].id = id]

(* A file the route parses; any other is refused before the transaction. *)
Receive(u) ==
  /\ upload[u].step = "idle"
  /\ \E k \in Keys, b \in Bodies :
       upload' = [upload EXCEPT ![u] = [step |-> "lookup", key |-> k, body |-> b,
                                        id |-> None]]
  /\ UNCHANGED <<runVars, imports, objects, rowEvents, rowErrors>>

(* A slip: the digest of the stored request is not compared. *)
AnyRequest(old, u) == TRUE
SameRequest(old, u) == old.body = upload[u].body

(* The row stored under the key answers the call. *)
Lookup(u) ==
  /\ upload[u].step = "lookup"
  /\ LET old == imports[upload[u].key] IN
       \/ old = None /\ Goto(u, "put")
       \/ old # None /\ SameRequest(old, u) /\ Answer(u, "duplicate", old.id)
       \/ old # None /\ ~SameRequest(old, u) /\ Answer(u, "conflict", None)
  /\ UNCHANGED <<runVars, imports, objects, rowEvents, rowErrors>>

(* put_if_absent under a key nobody else uses.  When it raises, the object *)
(* may be stored all the same, and uploaded is still false.                *)
PutObject(u) ==
  /\ upload[u].step = "put"
  /\ \/ objects' = objects \cup {u} /\ Goto(u, "persist") /\ UNCHANGED faults
     \/ /\ Fault
        /\ \E stored \in SUBSET {u} : objects' = objects \cup stored
        /\ Answer(u, "error", None)
  /\ UNCHANGED <<queueVars, runs, imports, rowEvents, rowErrors>>

Uploaded(u) == [id |-> u, body |-> upload[u].body, state |-> "uploaded",
                accepted |-> 0, rejected |-> 0]

(* The import, its control event and its job, or the unique key refuses    *)
(* them because another call committed since the lookup.                   *)
Persist(u) ==
  /\ upload[u].step = "persist"
  /\ \/ /\ imports[upload[u].key] = None
        /\ imports' = [imports EXCEPT ![upload[u].key] = Uploaded(u)]
        /\ Enqueue(u)
        /\ Answer(u, "created", u)
     \/ /\ imports[upload[u].key] # None
        /\ Goto(u, "cleanup")
        /\ UNCHANGED <<queueVars, imports>>
  /\ UNCHANGED <<runs, faults, objects, rowEvents, rowErrors>>

(* The commit raises: rolled back, or done with the acknowledgement lost. *)
PersistFails(u) ==
  /\ upload[u].step = "persist"
  /\ Fault
  /\ Goto(u, "cleanup")
  /\ \/ UNCHANGED <<queueVars, imports>>
     \/ /\ imports[upload[u].key] = None
        /\ imports' = [imports EXCEPT ![upload[u].key] = Uploaded(u)]
        /\ Enqueue(u)
  /\ UNCHANGED <<runs, objects, rowEvents, rowErrors>>

(* A slip: the object stored by the call stays. *)
DiscardNothing(u) == objects
Discard(u) == objects \ {u}

(* except Exception: the object goes, unless deleting it fails as well. *)
Cleanup(u) ==
  /\ upload[u].step = "cleanup"
  /\ Answer(u, "error", None)
  /\ \/ objects' = Discard(u) /\ UNCHANGED faults
     \/ Fault /\ UNCHANGED objects
  /\ UNCHANGED <<queueVars, runs, imports, rowEvents, rowErrors>>

CrashUpload(u) ==
  /\ upload[u].step \in Waiting \ {"idle"}
  /\ Fault
  /\ Answer(u, "lost", None)
  /\ UNCHANGED <<queueVars, runs, imports, objects, rowEvents, rowErrors>>

-----------------------------------------------------------------------------
Lines(b, kind) == {n \in DOMAIN b : b[n] = kind}
RowsOf(u, S) == {<<u, n>> : n \in S}

(* A slip: the counts are those of the upload's parse, which accepts all. *)
CountsOfUpload(i) == [i EXCEPT !.state = "completed", !.accepted = Len(i.body)]

(* The import row when every line has been handled. *)
Counted(i) ==
  [i EXCEPT !.state = "completed",
            !.accepted = Cardinality(Lines(i.body, "valid")),
            !.rejected = Cardinality(Lines(i.body, "long"))]

Fresh(i) == i.state # "completed"

(* One transaction under the lock of the import's row (FOR UPDATE), so two *)
(* runs do not overlap; only the object is read from outside.  An error in *)
(* reading the object or, for a split row, in parsing rolls it back, with  *)
(* the update of state to 'processing'.                                    *)
Import(r, k) ==
  LET i == imports[k]
      events == RowsOf(i.id, Lines(i.body, "valid"))
  IN  \/ /\ ~Fresh(i)
         /\ Work(r.job, r.attempt, {})
         /\ EndRun(r, "returned")
         /\ UNCHANGED <<faults, csvVars>>
      \/ /\ Fresh(i)
         /\ i.id \notin objects \/ Lines(i.body, "split") # {}
         /\ EndRun(r, "raised")
         /\ UNCHANGED <<queueVars, faults, csvVars>>
      \/ /\ Fresh(i)
         /\ i.id \in objects
         /\ Lines(i.body, "split") = {}
         /\ Work(r.job, r.attempt, {e \in events : status[e] = "absent"})
         /\ imports' = [imports EXCEPT ![k] = Counted(i)]
         /\ rowEvents' = rowEvents \cup events
         /\ rowErrors' = rowErrors \cup RowsOf(i.id, Lines(i.body, "long"))
         /\ \/ EndRun(r, "returned") /\ UNCHANGED faults
            \/ Fault /\ EndRun(r, "raised")    \* the acknowledgement is lost
         /\ UNCHANGED <<upload, objects>>

ImportCsv(r) ==
  /\ r.step = "start"
  /\ r.job \in Uploads
  /\ \E k \in Keys : imports[k] # None /\ imports[k].id = r.job /\ Import(r, k)

(* The database or the store fails before the commit. *)
HandlerFails(r) ==
  /\ r.step \notin Ends
  /\ Fault
  /\ EndRun(r, "raised")
  /\ UNCHANGED <<queueVars, csvVars>>

UploadStep ==
  \E u \in Uploads : \/ Receive(u) \/ Lookup(u) \/ PutObject(u) \/ Persist(u)
                     \/ PersistFails(u) \/ Cleanup(u) \/ CrashUpload(u)

(* Imports alone; the jobs of rows wait for their handler in Operations. *)
ImportNext ==
  \/ UploadStep
  \/ \E r \in runs : ImportCsv(r) \/ HandlerFails(r)
  \/ RunStep(Uploads) /\ UNCHANGED csvVars

importVars == <<runVars, csvVars>>
ImportInit == RunInit /\ CsvInit
ImportSpec == ImportInit /\ [][ImportNext]_importVars

(* Workers keep claiming and handling (worker.main, restarted when it dies). *)
ImportFairness ==
  \A u \in Uploads :
    /\ WF_importVars(Unheld(u) /\ StartRun(u) /\ UNCHANGED csvVars)
    /\ WF_importVars(\E r \in runs : r.job = u /\
         (ImportCsv(r) \/ (Report(r) /\ UNCHANGED csvVars)))

ImportFairSpec == ImportSpec /\ ImportFairness

-----------------------------------------------------------------------------
(* The uploads that have a row in csv_imports. *)
Rowed == {imports[k].id : k \in {l \in Keys : imports[l] # None}}

Imported(i) == i.state = "completed"
RowsFrom(u, rows) == {x \in rows : x[1] = u}

WholeImport(i) ==
  /\ i.accepted = Cardinality(RowsFrom(i.id, rowEvents))
  /\ i.rejected = Cardinality(RowsFrom(i.id, rowErrors))
  /\ i.accepted + i.rejected = IF Imported(i) THEN Len(i.body) ELSE 0
  /\ status[i.id] = "completed" => Imported(i)

(***************************************************************************)
(* An import is all or nothing, however many attempts its job takes and    *)
(* whichever of them are superseded: completed with one event and job per  *)
(* valid line, one error per refused line and counts that agree with them, *)
(* or without any; and a completed job means a completed import.           *)
(***************************************************************************)
ImportsAreWhole ==
  /\ \A k \in Keys : imports[k] # None => WholeImport(imports[k])
  /\ \A x \in RowJobs : x \in rowEvents <=> status[x] # "absent"

ImportInv == QueueTypeOK /\ CsvTypeOK /\ ImportsAreWhole

(***************************************************************************)
(* Calls under one key agree: whoever is answered "created" or "duplicate" *)
(* is given the one row of the key, which holds what the caller asked for. *)
(***************************************************************************)
UploadsAgree ==
  \A u \in Uploads : upload[u].id # None =>
    LET i == imports[upload[u].key]
    IN  i # None /\ i.id = upload[u].id /\ i.body = upload[u].body

(***************************************************************************)
(* Files and rows go together: an import has its file unless its own call  *)
(* was answered with an error (its commit was done but not acknowledged,   *)
(* and the except clause deleted the file), and a file without an import   *)
(* is one of a call under way or left by a failure.                        *)
(***************************************************************************)
FilesMatchImports ==
  /\ \A u \in Rowed \ objects : upload[u].step = "error" /\ faults > 0
  /\ \A u \in objects \ Rowed : upload[u].step \in {"persist", "cleanup"} \/ faults > 0

(* A call has its object stored before its row, and an object without a row *)
(* is one of a call that will insert the row or delete it, or of a failure. *)
UploadInv ==
  \A u \in Uploads :
    /\ upload[u].step # "idle" => upload[u].key \in Keys /\ upload[u].body \in Bodies
    /\ upload[u].step = "idle" => upload[u].id = None
    /\ upload[u].step = "persist" => u \in objects
    /\ u \in objects \ Rowed => upload[u].step \in {"persist", "cleanup"} \/ faults > 0

(* A row is that of the one call it names, which has committed whatever it  *)
(* was answered, its job is there, and the job takes effect by completing   *)
(* the import.                                                              *)
RowInv ==
  \A k \in Keys : imports[k] # None =>
    LET i == imports[k]
        call == upload[i.id]
    IN  /\ call.key = k /\ call.body = i.body
        /\ \/ call.step = "created" /\ i.id \in objects
           \/ call.step \in {"cleanup", "lost"} /\ i.id \in objects /\ faults > 0
           \/ call.step = "error" /\ faults > 0
        /\ status[i.id] # "absent"
        /\ worked[i.id] # {} => Imported(i)
        /\ Imported(i) => Lines(i.body, "split") = {}

(* The rows and errors of a file are those of a completed import. *)
RowEventsInv ==
  \A x \in rowEvents \cup rowErrors :
    \E k \in Keys : imports[k] # None /\ imports[k].id = x[1] /\ Imported(imports[k])

(***************************************************************************)
(* The inductive invariant behind the properties of uploads and imports.   *)
(* CsvInv is the part that speaks of them and their jobs only.             *)
(***************************************************************************)
CsvInv == /\ CsvTypeOK /\ ImportsAreWhole /\ UploadsAgree
          /\ UploadInv /\ RowInv /\ RowEventsInv
ImportIndInv == QueueInv /\ RunsInv /\ CsvInv

(***************************************************************************)
(* Every import whose lines the worker can parse is completed, unless it   *)
(* loses its file or fails as often as a job may be attempted.             *)
(***************************************************************************)
ReadableImportsComplete ==
  \A u \in Uploads :
    status[u] = "open" /\ Lines(upload[u].body, "split") = {}
      ~> \/ \E k \in Keys : imports[k] # None /\ imports[k].id = u /\ Imported(imports[k])
         \/ u \notin objects
         \/ faults >= MaxAttempts
=============================================================================
