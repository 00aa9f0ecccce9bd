--------------------------- MODULE PipelineProofs ---------------------------
(***************************************************************************)
(* Theorems about JobRuns, CsvImports and Operations, for any number of    *)
(* uploads, requests, keys, files, attempts and faults and any page size.  *)
(* The first part is about imports alone, and states its lemmas on the     *)
(* queue and on uploads for single steps; the second part adds requests    *)
(* and reports, and proves what the steps of either leave alone of the     *)
(* other.                                                                  *)
(***************************************************************************)
EXTENDS Operations, FiniteSetTheorems, TLAPS

-----------------------------------------------------------------------------
(* What the steps of the queue do to the facts other components rely on:   *)
(* no job vanishes or appears, attempts stay, a job is completed only if    *)
(* one of them has taken effect.                                            *)
QueueKept ==
  /\ worked' = worked
  /\ status' \in [Jobs -> {"absent", "open", "completed", "dead"}]
  /\ \A j \in Jobs : /\ status'[j] = "absent" <=> status[j] = "absent"
                     /\ status'[j] = "completed" => worked[j] # {}

LEMMA EnqueueQueue ==
  ASSUME QueueInv, NEW j \in Jobs, Enqueue(j)
  PROVE  /\ QueueInv'
         /\ UNCHANGED <<tries, worked>>
         /\ worked[j] = {}
         /\ \A k \in Jobs : status'[k] = IF k = j THEN "open" ELSE status[k]
<1>1. /\ status[j] = "absent" /\ UNCHANGED <<tries, worked>>
      /\ status' = [status EXCEPT ![j] = "open"]
  BY DEF Enqueue
<1>2. \A k \in Jobs : status'[k] = IF k = j THEN "open" ELSE status[k]
  BY <1>1 DEF QueueInv, QueueTypeOK
<1>3. QueueTypeOK'
  BY <1>1 DEF QueueInv, QueueTypeOK
<1>4. worked[j] = {}
  BY <1>1 DEF QueueInv
<1> QED
  BY <1>1, <1>2, <1>3, <1>4 DEF QueueInv

LEMMA AttemptQueue ==
  ASSUME QueueInv, NEW j \in Jobs, Attempt({j})
  PROVE  /\ QueueInv' /\ QueueKept
         /\ status[j] = "open" /\ UNCHANGED status
         /\ \A k \in Jobs : tries'[k] = IF k = j THEN tries[k] + 1 ELSE tries[k]
<1>1. /\ status[j] = "open" /\ UNCHANGED <<status, worked>>
      /\ tries' = [k \in Jobs |-> IF k \in {j} THEN tries[k] + 1 ELSE tries[k]]
  BY DEF Attempt
<1>2. \A k \in Jobs : tries'[k] = IF k = j THEN tries[k] + 1 ELSE tries[k]
  BY <1>1
<1>3. QueueTypeOK'
  BY <1>1 DEF QueueInv, QueueTypeOK
<1>4. QueueInv'
  BY <1>1, <1>2, <1>3 DEF QueueInv, QueueTypeOK
<1> QED
  BY <1>1, <1>2, <1>4 DEF QueueKept, QueueInv, QueueTypeOK

LEMMA WorkQueue ==
  ASSUME QueueInv, NEW j \in Jobs, NEW n, NEW S \in SUBSET Jobs, Work(j, n, S)
  PROVE  /\ QueueInv' /\ UNCHANGED tries
         /\ n \in 1 .. tries[j]
         /\ \A k \in Jobs : worked'[k] = IF k = j THEN worked[k] \cup {n} ELSE worked[k]
         /\ \A k \in Jobs : status'[k] = IF k \in S THEN "open" ELSE status[k]
<1>1. /\ n \in 1 .. tries[j] \ worked[j] /\ UNCHANGED tries
      /\ \A k \in S : status[k] = "absent"
      /\ worked' = [worked EXCEPT ![j] = @ \cup {n}]
      /\ status' = [k \in Jobs |-> IF k \in S THEN "open" ELSE status[k]]
  BY DEF Work
<1>2. /\ \A k \in Jobs : worked'[k] = IF k = j THEN worked[k] \cup {n} ELSE worked[k]
      /\ \A k \in Jobs : status'[k] = IF k \in S THEN "open" ELSE status[k]
  BY <1>1 DEF QueueInv, QueueTypeOK
<1>3. QueueTypeOK'
  BY <1>1 DEF QueueInv, QueueTypeOK
<1> QED
  BY <1>1, <1>2, <1>3 DEF QueueInv

LEMMA SettleQueue ==
  ASSUME QueueInv, NEW j \in Jobs, NEW s \in {"completed", "dead"}, Settle(j, s)
  PROVE  QueueInv' /\ QueueKept /\ UNCHANGED tries
<1>1. /\ status[j] = "open" /\ UNCHANGED <<tries, worked>>
      /\ s = "completed" => worked[j] # {}
      /\ status' = [status EXCEPT ![j] = s]
  BY DEF Settle
<1>2. \A k \in Jobs : status'[k] = IF k = j THEN s ELSE status[k]
  BY <1>1 DEF QueueInv, QueueTypeOK
<1>3. QueueTypeOK'
  BY <1>1 DEF QueueInv, QueueTypeOK
<1> QED
  BY <1>1, <1>2, <1>3 DEF QueueInv, QueueKept, QueueTypeOK

-----------------------------------------------------------------------------
LEMMA FaultGrows ==
  ASSUME RunsInv, Fault
  PROVE  faults' \in Nat /\ faults' > 0 /\ faults' > faults
BY DEF RunsInv, Fault

(* The runs stay well formed when the queue only moves forward and a run    *)
(* that says so has taken effect.                                           *)
LEMMA RunsStay ==
  ASSUME RunsInv, faults' \in Nat,
         \A j \in Jobs : tries[j] \in Nat /\ tries'[j] \in Nat /\ tries'[j] >= tries[j],
         \A j \in Jobs : worked[j] \subseteq worked'[j],
         \A q \in runs' : q \in runs \/
           /\ q = [job |-> q.job, attempt |-> q.attempt, step |-> q.step, seen |-> q.seen]
           /\ q.job \in Jobs /\ q.attempt \in 1 .. tries'[q.job]
           /\ q.step = "returned" => q.attempt \in worked'[q.job]
  PROVE  RunsInv'
<1> SUFFICES ASSUME NEW q \in runs', q \in runs
             PROVE  /\ q = [job |-> q.job, attempt |-> q.attempt, step |-> q.step,
                            seen |-> q.seen]
                    /\ q.job \in Jobs /\ q.attempt \in 1 .. tries'[q.job]
                    /\ q.step = "returned" => q.attempt \in worked'[q.job]
  BY DEF RunsInv
<1>1. /\ q = [job |-> q.job, attempt |-> q.attempt, step |-> q.step, seen |-> q.seen]
      /\ q.job \in Jobs /\ q.attempt \in 1 .. tries[q.job]
      /\ q.step = "returned" => q.attempt \in worked[q.job]
  BY DEF RunsInv
<1> QED
  BY <1>1

(* A handler step keeps the job and the attempt of its run. *)
LEMMA RunMoves ==
  ASSUME RunsInv, NEW r \in runs, NEW step, NEW seen, AtStep(r, step, seen)
  PROVE  \A q \in runs' : q \in runs \/
           /\ q = [job |-> q.job, attempt |-> q.attempt, step |-> q.step, seen |-> q.seen]
           /\ q.job = r.job /\ q.attempt = r.attempt /\ q.step = step /\ q.seen = seen
<1>1. r = [job |-> r.job, attempt |-> r.attempt, step |-> r.step, seen |-> r.seen]
  BY DEF RunsInv
<1>2. PICK j, n, st, e : r = [job |-> j, attempt |-> n, step |-> st, seen |-> e]
  BY <1>1, Zenon
<1> DEFINE stepped == [r EXCEPT !.step = step]
           next == [stepped EXCEPT !.seen = seen]
<1>3. stepped = [job |-> j, attempt |-> n, step |-> step, seen |-> e]
  BY <1>2
<1>4. \A q \in runs' : q \in runs \/ q = next
  BY DEF AtStep
<1> HIDE DEF stepped
<1>5. next = [job |-> j, attempt |-> n, step |-> step, seen |-> seen]
  BY <1>3
<1> HIDE DEF next
<1>6. /\ next = [job |-> next.job, attempt |-> next.attempt, step |-> next.step,
                 seen |-> next.seen]
      /\ next.job = r.job /\ next.attempt = r.attempt /\ next.step = step
      /\ next.seen = seen
  BY <1>2, <1>5
<1> QED
  BY <1>4, <1>6

(* The step of a handler that does not commit, or fails. *)
LEMMA QuietRun ==
  ASSUME QueueInv, RunsInv, NEW r \in runs, NEW step, NEW seen, AtStep(r, step, seen),
         step # "returned", UNCHANGED queueVars, faults' \in Nat
  PROVE  QueueInv' /\ RunsInv'
<1>1. UNCHANGED <<status, tries, worked>>
  BY DEF queueVars
<1>2. QueueInv' /\ \A j \in Jobs : tries[j] \in Nat
  BY <1>1 DEF QueueInv, QueueTypeOK
<1>3. r.job \in Jobs /\ r.attempt \in 1 .. tries[r.job]
  BY DEF RunsInv
<1> QED
  BY <1>1, <1>2, <1>3, RunMoves, RunsStay

(* The step of a handler that commits its transaction. *)
LEMMA WorkRun ==
  ASSUME QueueInv, RunsInv, NEW r \in runs, NEW S \in SUBSET Jobs,
         Work(r.job, r.attempt, S), NEW how, EndRun(r, how), faults' \in Nat
  PROVE  QueueInv' /\ RunsInv'
<1>1. r.job \in Jobs /\ r.attempt \in 1 .. tries[r.job]
  BY DEF RunsInv
<1>2. /\ QueueInv' /\ UNCHANGED tries
      /\ \A k \in Jobs : worked'[k] = IF k = r.job THEN worked[k] \cup {r.attempt}
                                                   ELSE worked[k]
  BY <1>1, WorkQueue
<1>3. \A j \in Jobs : /\ tries[j] \in Nat /\ tries'[j] \in Nat /\ tries'[j] >= tries[j]
                     /\ worked[j] \subseteq worked'[j]
  BY <1>2 DEF QueueInv, QueueTypeOK
<1>4. \A q \in runs' : q \in runs \/
        /\ q = [job |-> q.job, attempt |-> q.attempt, step |-> q.step, seen |-> q.seen]
        /\ q.job = r.job /\ q.attempt = r.attempt
  BY RunMoves DEF EndRun
<1>5. r.attempt \in 1 .. tries'[r.job] /\ r.attempt \in worked'[r.job]
  BY <1>1, <1>2
<1>6. \A q \in runs' : q \in runs \/
        /\ q = [job |-> q.job, attempt |-> q.attempt, step |-> q.step, seen |-> q.seen]
        /\ q.job \in Jobs /\ q.attempt \in 1 .. tries'[q.job]
        /\ q.step = "returned" => q.attempt \in worked'[q.job]
  BY <1>1, <1>4, <1>5
<1> QED
  BY <1>2, <1>3, <1>6, RunsStay

LEMMA AttemptsAreCounted ==
  ASSUME QueueInv
  PROVE  tries \in [Jobs -> Nat]
BY DEF QueueInv, QueueTypeOK

LEMMA RunStepFaults ==
  ASSUME RunsInv, NEW S, RunStep(S)
  PROVE  faults' \in Nat /\ faults' >= faults
<1>1. faults' = faults \/ Fault
  BY DEF RunStep, StartRun, Report, LoseRun
<1> QED
  BY <1>1, FaultGrows DEF RunsInv

(* Whatever workers do with claims, reports and deaths is a step of the     *)
(* queue that keeps what others rely on.                                    *)
LEMMA RunStepQueue ==
  ASSUME QueueInv, RunsInv, NEW S \in SUBSET Jobs, RunStep(S)
  PROVE  QueueInv' /\ RunsInv' /\ QueueKept /\ faults' >= faults
<1>1. tries \in [Jobs -> Nat]
  BY AttemptsAreCounted
<1>2. faults' \in Nat /\ faults' >= faults
  BY RunStepFaults
<1>3. ASSUME NEW j \in S, StartRun(j) PROVE QueueInv' /\ RunsInv' /\ QueueKept
  <2> DEFINE new == [job |-> j, attempt |-> tries[j] + 1, step |-> "start", seen |-> {}]
  <2>1. Attempt({j}) /\ runs' = runs \cup {new} /\ j \in Jobs
    BY <1>3 DEF StartRun
  <2>2. /\ QueueInv' /\ QueueKept
        /\ \A k \in Jobs : tries'[k] = IF k = j THEN tries[k] + 1 ELSE tries[k]
    BY <2>1, AttemptQueue
  <2>3. \A q \in runs' : q \in runs \/
          /\ q = [job |-> q.job, attempt |-> q.attempt, step |-> q.step, seen |-> q.seen]
          /\ q.job \in Jobs /\ q.attempt \in 1 .. tries'[q.job]
          /\ q.step = "returned" => q.attempt \in worked'[q.job]
    BY <1>1, <2>1, <2>2
  <2> QED
    BY <1>1, <1>2, <2>2, <2>3, RunsStay DEF QueueKept
<1>4. ASSUME NEW r \in runs, Report(r) PROVE QueueInv' /\ RunsInv' /\ QueueKept
  <2>1. runs' \subseteq runs
    BY <1>4 DEF Report
  <2>2. r.job \in Jobs
    BY DEF RunsInv
  <2>3. QueueInv' /\ QueueKept /\ UNCHANGED tries
    <3>1. CASE \E s \in {"completed", "dead"} : Settle(r.job, s)
      BY <2>2, <3>1, SettleQueue
    <3>2. CASE UNCHANGED queueVars
      BY <3>2 DEF queueVars, QueueInv, QueueTypeOK, QueueKept
    <3> QED
      BY <1>4, <3>1, <3>2 DEF Report
  <2> QED
    BY <1>1, <1>2, <2>1, <2>3, RunsStay DEF QueueKept
<1>5. ASSUME NEW r \in runs, LoseRun(r) PROVE QueueInv' /\ RunsInv' /\ QueueKept
  <2>1. runs' \subseteq runs /\ UNCHANGED <<status, tries, worked>>
    BY <1>5 DEF LoseRun, queueVars
  <2>2. QueueInv' /\ QueueKept
    BY <2>1 DEF QueueInv, QueueTypeOK, QueueKept
  <2> QED
    BY <1>1, <1>2, <2>1, <2>2, RunsStay
<1> QED
  BY <1>2, <1>3, <1>4, <1>5 DEF RunStep

-----------------------------------------------------------------------------
(* The lines of a file, counted by kind. *)
LEMMA LinesOfFile ==
  ASSUME NEW b \in Bodies, NEW kind
  PROVE  /\ IsFiniteSet(Lines(b, kind)) /\ Cardinality(Lines(b, kind)) \in Nat
         /\ \A u \in Uploads : RowsOf(u, Lines(b, kind)) \subseteq RowJobs
<1>1. b \in Seq({"valid", "long", "split"})
  BY CsvAssumption
<1>2. DOMAIN b = 1 .. Len(b) /\ Len(b) \in Nat
  BY <1>1
<1>3. Lines(b, kind) \subseteq 1 .. Len(b)
  BY <1>2 DEF Lines
<1>4. IsFiniteSet(1 .. Len(b))
  BY <1>2, FS_Interval
<1>5. IsFiniteSet(Lines(b, kind))
  BY <1>3, <1>4, FS_Subset
<1>6. ASSUME NEW u \in Uploads PROVE RowsOf(u, Lines(b, kind)) \subseteq RowJobs
  BY DEF RowsOf, RowJobs, Lines
<1> QED
  BY <1>5, <1>6, FS_CardinalityType

LEMMA SplitInterval ==
  ASSUME NEW n \in Nat, NEW V, NEW L, V \cup L = 1 .. n, V \cap L = {}
  PROVE  Cardinality(V) + Cardinality(L) = n
<1>1. IsFiniteSet(1 .. n) /\ Cardinality(1 .. n) = n
  BY FS_Interval
<1>2. IsFiniteSet(V) /\ IsFiniteSet(L)
  BY <1>1, FS_Subset
<1>3. Cardinality(V) \in Nat /\ Cardinality(L) \in Nat
  BY <1>2, FS_CardinalityType
<1>4. n = Cardinality(V) + Cardinality(L) - Cardinality({})
  BY <1>1, <1>2, FS_Union
<1>5. Cardinality({}) = 0
  BY FS_EmptySet
<1> QED
  BY <1>3, <1>4, <1>5

LEMMA EveryLineCounted ==
  ASSUME NEW b \in Bodies, Lines(b, "split") = {}
  PROVE  Cardinality(Lines(b, "valid")) + Cardinality(Lines(b, "long")) = Len(b)
<1>1. b \in Seq({"valid", "long", "split"})
  BY CsvAssumption
<1>2. /\ DOMAIN b = 1 .. Len(b) /\ Len(b) \in Nat
      /\ \A n \in DOMAIN b : b[n] \in {"valid", "long", "split"}
  BY <1>1
<1>3. /\ Lines(b, "valid") \cup Lines(b, "long") = 1 .. Len(b)
      /\ Lines(b, "valid") \cap Lines(b, "long") = {}
  BY <1>2 DEF Lines
<1> QED
  BY <1>2, <1>3, SplitInterval

(* There are as many rows of an upload as lines they come from. *)
LEMMA RowsCounted ==
  ASSUME NEW u, NEW S, IsFiniteSet(S)
  PROVE  Cardinality(RowsOf(u, S)) = Cardinality(S)
<1> DEFINE f == [n \in S |-> <<u, n>>]
           T == RowsOf(u, S)
<1>1. f \in [S -> T]
  BY DEF RowsOf
<1>2. \A m, n \in S : f[m] = f[n] => m = n
  OBVIOUS
<1>3. \A x \in T : \E n \in S : f[n] = x
  BY DEF RowsOf
<1>4. f \in Bijection(S, T)
  BY <1>1, <1>2, <1>3 DEF Bijection, Injection, IsInjective, Surjection
<1>5. ExistsBijection(S, T)
  BY <1>4 DEF ExistsBijection
<1> QED
  BY <1>5, FS_Bijection

-----------------------------------------------------------------------------
(* The row of an upload is stored under one key only. *)
LEMMA OneRow ==
  ASSUME CsvInv, NEW k \in Keys, NEW l \in Keys, imports[k] # None, imports[l] # None,
         imports[k].id = imports[l].id
  PROVE  k = l
BY DEF CsvInv, RowInv

LEMMA RowsHaveTypes ==
  ASSUME CsvInv, NEW k \in Keys, imports[k] # None
  PROVE  imports[k] \in ImportRows /\ imports[k].id \in Uploads /\ imports[k].body \in Bodies
<1>1. imports[k] \in ImportRows
  BY DEF CsvInv, CsvTypeOK
<1> QED
  BY <1>1 DEF ImportRows

(* A step that leaves uploads, imports and their rows alone, attempts no    *)
(* import but a completed one, and neither adds nor drops one of their      *)
(* jobs.                                                                    *)
LEMMA Bystander ==
  ASSUME CsvInv, RunsInv, QueueInv', UNCHANGED csvVars, faults' \in Nat, faults' >= faults,
         \A k \in Keys : imports[k] # None /\ worked'[imports[k].id] # {} =>
           worked[imports[k].id] # {} \/ Imported(imports[k]),
         \A j \in Uploads \cup RowJobs : status'[j] = "absent" <=> status[j] = "absent"
  PROVE  CsvInv'
<1>1. UNCHANGED <<upload, imports, objects, rowEvents, rowErrors>>
  BY DEF csvVars
<1>2. faults > 0 => faults' > 0
  BY DEF RunsInv
<1>3. CsvTypeOK' /\ UploadsAgree' /\ RowEventsInv'
  BY <1>1 DEF CsvInv, CsvTypeOK, UploadsAgree, RowEventsInv
<1>4. UploadInv'
  BY <1>1, <1>2 DEF CsvInv, UploadInv, Rowed
<1>5. ASSUME NEW k \in Keys, imports[k] # None
      PROVE  /\ status'[imports[k].id] # "absent"
             /\ worked'[imports[k].id] # {} => Imported(imports[k])
             /\ status'[imports[k].id] = "completed" => Imported(imports[k])
  <2>1. imports[k].id \in Uploads /\ imports[k].id \in Jobs
    BY <1>5, RowsHaveTypes, CsvAssumption
  <2>2. /\ status[imports[k].id] # "absent"
        /\ worked[imports[k].id] # {} => Imported(imports[k])
    BY <1>5 DEF CsvInv, RowInv
  <2>3. worked'[imports[k].id] # {} => Imported(imports[k])
    BY <1>5, <2>2
  <2> QED
    BY <2>1, <2>2, <2>3 DEF QueueInv
<1>6. RowInv'
  BY <1>1, <1>2, <1>5 DEF CsvInv, RowInv, Imported
<1>7. ImportsAreWhole'
  BY <1>1, <1>5 DEF CsvInv, ImportsAreWhole, WholeImport, Imported
<1> QED
  BY <1>3, <1>4, <1>6, <1>7 DEF CsvInv

-----------------------------------------------------------------------------
(* What may become of the call u when no row is written: the answer it got  *)
(* and the state of its object stay in step with the row it may have.       *)
CallFits(u, c) ==
  /\ c.step # "idle" => c.key \in Keys /\ c.body \in Bodies
  /\ c.step = "idle" => c.id = None
  /\ c.step = "persist" => u \in objects'
  /\ u \in objects' \ Rowed => c.step \in {"persist", "cleanup"} \/ faults' > 0
  /\ c.id # None => /\ imports[c.key] # None /\ imports[c.key].id = c.id
                    /\ imports[c.key].body = c.body
  /\ \A k \in Keys : imports[k] # None /\ imports[k].id = u =>
       /\ c.key = k /\ c.body = imports[k].body
       /\ \/ c.step = "created" /\ u \in objects'
          \/ c.step \in {"cleanup", "lost"} /\ u \in objects' /\ faults' > 0
          \/ c.step = "error" /\ faults' > 0

CallType == [step: Waiting \cup Answers, key: Keys \cup {None}, body: Bodies \cup {None},
             id: Uploads \cup {None}]

LEMMA CallMoves ==
  ASSUME CsvInv, RunsInv, NEW u \in Uploads, NEW c \in CallType,
         upload' = [upload EXCEPT ![u] = c], CallFits(u, c),
         objects' \subseteq objects \cup {u}, objects \subseteq objects' \cup {u},
         UNCHANGED <<imports, rowEvents, rowErrors, status, worked>>,
         faults' \in Nat, faults' >= faults
  PROVE  CsvInv'
<1>1. upload \in [Uploads -> CallType]
  BY DEF CsvInv, CsvTypeOK, CallType
<1>2. upload' \in [Uploads -> CallType]
  BY <1>1
<1>3. \A v \in Uploads : upload'[v] = IF v = u THEN c ELSE upload[v]
  BY <1>1
<1>4. /\ faults > 0 => faults' > 0
      /\ \A v \in Uploads \ {u} : v \in objects <=> v \in objects'
      /\ Rowed' = Rowed
  BY DEF RunsInv, Rowed
<1>5. CsvTypeOK'
  BY <1>2 DEF CsvInv, CsvTypeOK, CallType
<1>6. ImportsAreWhole'
  BY DEF CsvInv, ImportsAreWhole, WholeImport, Imported
<1>7. RowEventsInv'
  BY DEF CsvInv, RowEventsInv, Imported
<1>8. UploadsAgree'
  BY <1>3 DEF CsvInv, UploadsAgree, CallFits
<1>9. UploadInv'
  BY <1>3, <1>4 DEF CsvInv, UploadInv, CallFits
<1>10. RowInv'
  <2> SUFFICES ASSUME NEW k \in Keys, imports[k] # None
      PROVE  LET i == imports[k]
                 call == upload'[i.id]
             IN  /\ call.key = k /\ call.body = i.body
                 /\ \/ call.step = "created" /\ i.id \in objects'
                    \/ call.step \in {"cleanup", "lost"} /\ i.id \in objects' /\ faults' > 0
                    \/ call.step = "error" /\ faults' > 0
                 /\ status[i.id] # "absent"
                 /\ worked[i.id] # {} => Imported(i)
                 /\ Imported(i) => Lines(i.body, "split") = {}
    BY DEF RowInv, Imported
  <2>1. imports[k].id \in Uploads
    BY RowsHaveTypes
  <2>2. CASE imports[k].id = u
    BY <1>3, <2>2 DEF CsvInv, RowInv, CallFits
  <2>3. CASE imports[k].id # u
    BY <1>3, <1>4, <2>1, <2>3 DEF CsvInv, RowInv
  <2> QED
    BY <2>2, <2>3
<1> QED
  BY <1>5, <1>6, <1>7, <1>8, <1>9, <1>10 DEF CsvInv

(* A call that has not come to its commit has no row. *)
LEMMA NoRowYet ==
  ASSUME CsvInv, NEW u \in Uploads, upload[u].step \in Waiting \ {"cleanup"}
  PROVE  \A k \in Keys : imports[k] # None => imports[k].id # u
BY DEF CsvInv, RowInv, Waiting

LEMMA CallFields ==
  ASSUME NEW c \in CallType, NEW step, NEW id
  PROVE  /\ [c EXCEPT !.step = step]
              = [step |-> step, key |-> c.key, body |-> c.body, id |-> c.id]
         /\ [c EXCEPT !.step = step, !.id = id]
              = [step |-> step, key |-> c.key, body |-> c.body, id |-> id]
<1> DEFINE moved == [c EXCEPT !.step = step]
<1>1. moved = [step |-> step, key |-> c.key, body |-> c.body, id |-> c.id]
  BY DEF CallType
<1> HIDE DEF moved
<1>2. [moved EXCEPT !.id = id] = [step |-> step, key |-> c.key, body |-> c.body, id |-> id]
  BY <1>1
<1> QED
  BY <1>1, <1>2 DEF moved

(* How the call's record changes when it goes to another step or ends. *)
LEMMA CallChanges ==
  ASSUME CsvTypeOK, NEW u \in Uploads
  PROVE  /\ \A step \in Waiting \cup Answers : Goto(u, step) =>
              upload' = [upload EXCEPT ![u] = [step |-> step, key |-> upload[u].key,
                                               body |-> upload[u].body, id |-> upload[u].id]]
         /\ \A step \in Waiting \cup Answers, id \in Uploads \cup {None} :
              Answer(u, step, id) =>
                upload' = [upload EXCEPT ![u] = [step |-> step, key |-> upload[u].key,
                                                 body |-> upload[u].body, id |-> id]]
         /\ \A step \in Waiting \cup Answers, id \in Uploads \cup {None} :
              [step |-> step, key |-> upload[u].key, body |-> upload[u].body, id |-> id]
                \in CallType
<1>1. upload \in [Uploads -> CallType]
  BY DEF CsvTypeOK, CallType
<1>2. upload[u] \in CallType
  BY <1>1
<1>3. ASSUME NEW step \in Waiting \cup Answers, Goto(u, step)
      PROVE  upload' = [upload EXCEPT ![u] = [step |-> step, key |-> upload[u].key,
                                              body |-> upload[u].body, id |-> upload[u].id]]
  <2>1. upload' = [upload EXCEPT ![u] = [upload[u] EXCEPT !.step = step]]
    BY <1>3 DEF Goto
  <2>2. [upload[u] EXCEPT !.step = step] = [step |-> step, key |-> upload[u].key,
                                            body |-> upload[u].body, id |-> upload[u].id]
    BY <1>2, CallFields, Zenon
  <2> QED
    BY <2>1, <2>2
<1>4. ASSUME NEW step \in Waiting \cup Answers, NEW id \in Uploads \cup {None},
             Answer(u, step, id)
      PROVE  upload' = [upload EXCEPT ![u] = [step |-> step, key |-> upload[u].key,
                                              body |-> upload[u].body, id |-> id]]
  <2>1. upload' = [upload EXCEPT ![u] = [upload[u] EXCEPT !.step = step, !.id = id]]
    BY <1>4 DEF Answer
  <2>2. [upload[u] EXCEPT !.step = step, !.id = id]
          = [step |-> step, key |-> upload[u].key, body |-> upload[u].body, id |-> id]
    BY <1>2, CallFields, Zenon
  <2> QED
    BY <2>1, <2>2
<1>5. \A step \in Waiting \cup Answers, id \in Uploads \cup {None} :
        [step |-> step, key |-> upload[u].key, body |-> upload[u].body, id |-> id] \in CallType
  BY <1>2 DEF CallType
<1> QED
  BY <1>3, <1>4, <1>5

-----------------------------------------------------------------------------
LEMMA QuietQueue ==
  ASSUME QueueInv, RunsInv, UNCHANGED <<queueVars, runs>>, faults' = faults \/ Fault
  PROVE  QueueInv' /\ RunsInv' /\ faults' \in Nat /\ faults' >= faults
<1>1. UNCHANGED <<status, tries, worked, runs>>
  BY DEF queueVars
<1>2. faults' \in Nat /\ faults' >= faults
  BY FaultGrows DEF RunsInv
<1>3. QueueInv'
  BY <1>1 DEF QueueInv, QueueTypeOK
<1>4. RunsInv'
  BY <1>1, <1>2 DEF RunsInv
<1> QED
  BY <1>2, <1>3, <1>4

(* The steps of a call that write no row. *)
LEMMA CallStep ==
  ASSUME QueueInv, RunsInv, CsvInv, NEW u \in Uploads,
         \/ Receive(u) \/ Lookup(u) \/ PutObject(u) \/ Cleanup(u) \/ CrashUpload(u)
         \/ upload[u].step = "persist" /\ Goto(u, "cleanup")
              /\ UNCHANGED <<queueVars, runs, imports, objects, rowEvents, rowErrors>>
              /\ (faults' = faults \/ Fault)
  PROVE  QueueInv' /\ RunsInv' /\ CsvInv'
<1> DEFINE c(step, id) == [step |-> step, key |-> upload[u].key, body |-> upload[u].body,
                           id |-> id]
<1>1. UNCHANGED <<queueVars, runs, imports, rowEvents, rowErrors>>
  BY DEF Receive, Lookup, PutObject, Cleanup, CrashUpload, runVars, queueVars
<1>2. faults' = faults \/ Fault
  BY DEF Receive, Lookup, PutObject, Cleanup, CrashUpload, runVars
<1>3. QueueInv' /\ RunsInv' /\ faults' \in Nat /\ faults' >= faults
  BY <1>1, <1>2, QuietQueue
<1>4. UNCHANGED <<status, worked>>
  BY <1>1 DEF queueVars
<1>5. upload[u] \in CallType /\ upload \in [Uploads -> CallType]
  BY DEF CsvInv, CsvTypeOK, CallType
<1>6. upload[u].step \in Waiting \ {"cleanup"} =>
        \A k \in Keys : imports[k] # None => imports[k].id # u
  BY NoRowYet
<1>7. CsvTypeOK /\ UploadsAgree /\ UploadInv /\ RowInv
  BY DEF CsvInv
<1>8. Fault => faults' > 0
  BY FaultGrows
<1>9. ASSUME NEW k \in Keys, NEW b \in Bodies,
             upload[u].step = "idle", UNCHANGED <<objects, faults>>,
             upload' = [upload EXCEPT ![u] = [step |-> "lookup", key |-> k, body |-> b,
                                              id |-> None]]
      PROVE  CsvInv'
  <2> DEFINE d == [step |-> "lookup", key |-> k, body |-> b, id |-> None]
  <2>1. d \in CallType
    BY DEF CallType, Waiting
  <2>2. CallFits(u, d)
    BY <1>6, <1>7, <1>9 DEF CallFits, UploadInv, Waiting
  <2> QED
    BY <1>1, <1>3, <1>4, <1>9, <2>1, <2>2, CallMoves
<1>10. ASSUME NEW step \in Waiting \cup Answers, NEW id \in Uploads \cup {None},
              Answer(u, step, id) \/ (Goto(u, step) /\ id = upload[u].id),
              CallFits(u, c(step, id)),
              objects' \subseteq objects \cup {u}, objects \subseteq objects' \cup {u}
       PROVE  CsvInv'
  <2>1. c(step, id) \in CallType
    BY <1>7, CallChanges, Zenon
  <2>2. CASE Answer(u, step, id)
    <3>1. upload' = [upload EXCEPT ![u] = c(step, id)]
      BY <1>7, <2>2, CallChanges, Zenon
    <3> HIDE DEF c
    <3> QED
      BY <1>1, <1>3, <1>4, <1>10, <2>1, <3>1, CallMoves
  <2>3. CASE Goto(u, step) /\ id = upload[u].id
    <3>1. upload' = [upload EXCEPT ![u] = c(step, upload[u].id)]
      BY <1>7, <2>3, CallChanges, Zenon
    <3> HIDE DEF c
    <3> QED
      BY <1>1, <1>3, <1>4, <1>10, <2>1, <2>3, <3>1, CallMoves
  <2> QED
    BY <1>10, <2>2, <2>3
<1>11. ASSUME Receive(u) PROVE CsvInv'
  BY <1>9, <1>11 DEF Receive, runVars
<1>12. ASSUME Lookup(u) PROVE CsvInv'
  <2> DEFINE old == imports[upload[u].key]
  <2>1. upload[u].step = "lookup" /\ UNCHANGED <<objects, faults>>
    BY <1>12 DEF Lookup, runVars
  <2>2. upload[u].key \in Keys /\ upload[u].body \in Bodies
    BY <1>7, <2>1 DEF UploadInv
  <2>3. CASE old = None /\ Goto(u, "put")
    <3>1. upload[u].id = None
      BY <1>7, <2>3 DEF UploadsAgree
    <3>2. CallFits(u, c("put", upload[u].id))
      BY <1>6, <1>7, <2>1, <2>2, <3>1 DEF CallFits, UploadInv, Waiting
    <3> QED
      BY <1>5, <1>10, <2>1, <2>3, <3>2 DEF CallType, Waiting
  <2>4. CASE old # None /\ SameRequest(old, u) /\ Answer(u, "duplicate", old.id)
    <3>1. old.id \in Uploads /\ old.body = upload[u].body
      BY <2>2, <2>4, RowsHaveTypes DEF SameRequest
    <3>2. CallFits(u, c("duplicate", old.id))
      BY <1>6, <1>7, <2>1, <2>2, <2>4, <3>1 DEF CallFits, UploadInv, Waiting
    <3> QED
      BY <1>10, <2>1, <2>4, <3>1, <3>2 DEF Answers
  <2>5. CASE Answer(u, "conflict", None)
    <3>1. CallFits(u, c("conflict", None))
      BY <1>6, <1>7, <2>1, <2>2 DEF CallFits, UploadInv, Waiting
    <3> QED
      BY <1>10, <2>1, <2>5, <3>1 DEF Answers
  <2> QED
    BY <1>12, <2>3, <2>4, <2>5 DEF Lookup
<1>13. ASSUME PutObject(u) PROVE CsvInv'
  <2>1. upload[u].step = "put"
    BY <1>13 DEF PutObject
  <2>2. upload[u].key \in Keys /\ upload[u].body \in Bodies
    BY <1>7, <2>1 DEF UploadInv
  <2>3. CASE objects' = objects \cup {u} /\ Goto(u, "persist")
    <3>1. CallFits(u, c("persist", upload[u].id))
      BY <1>6, <1>7, <2>1, <2>2, <2>3 DEF CallFits, UploadInv, UploadsAgree, Waiting
    <3> QED
      BY <1>5, <1>10, <2>3, <3>1 DEF CallType, Waiting
  <2>4. CASE Fault /\ (\E stored \in SUBSET {u} : objects' = objects \cup stored)
               /\ Answer(u, "error", None)
    <3>1. CallFits(u, c("error", None))
      BY <1>6, <1>8, <2>1, <2>2, <2>4 DEF CallFits, Waiting
    <3> QED
      BY <1>10, <2>4, <3>1 DEF Answers
  <2> QED
    BY <1>13, <2>3, <2>4 DEF PutObject
<1>14. ASSUME Cleanup(u) PROVE CsvInv'
  <2>1. /\ upload[u].step = "cleanup" /\ Answer(u, "error", None)
        /\ objects' = objects \ {u} \/ (Fault /\ objects' = objects)
    BY <1>14 DEF Cleanup, Discard
  <2>2. upload[u].key \in Keys /\ upload[u].body \in Bodies
    BY <1>7, <2>1 DEF UploadInv
  <2>3. CallFits(u, c("error", None))
    BY <1>3, <1>7, <1>8, <2>1, <2>2 DEF CallFits, RowInv, RunsInv
  <2> QED
    BY <1>10, <2>1, <2>3 DEF Answers
<1>15. ASSUME CrashUpload(u) PROVE CsvInv'
  <2>1. /\ upload[u].step \in Waiting \ {"idle"} /\ Answer(u, "lost", None)
        /\ Fault /\ objects' = objects
    BY <1>15 DEF CrashUpload
  <2>2. upload[u].key \in Keys /\ upload[u].body \in Bodies
    BY <1>7, <2>1 DEF UploadInv, Waiting
  <2>3. CallFits(u, c("lost", None))
    BY <1>6, <1>7, <1>8, <2>1, <2>2 DEF CallFits, RowInv, Waiting
  <2> QED
    BY <1>10, <2>1, <2>3 DEF Answers
<1>16. CASE upload[u].step = "persist" /\ Goto(u, "cleanup") /\ UNCHANGED objects
  <2>1. upload[u].key \in Keys /\ upload[u].body \in Bodies
    BY <1>7, <1>16 DEF UploadInv
  <2>2. CallFits(u, c("cleanup", upload[u].id))
    BY <1>3, <1>6, <1>7, <1>16, <2>1 DEF CallFits, UploadInv, UploadsAgree, Waiting, RunsInv
  <2>3. upload[u].id \in Uploads \cup {None} /\ "cleanup" \in Waiting \cup Answers
    BY <1>5 DEF CallType, Waiting
  <2> QED
    BY <1>3, <1>10, <1>16, <2>2, <2>3
<1> QED
  BY <1>3, <1>11, <1>12, <1>13, <1>14, <1>15, <1>16

(* A commit writes the one row of the key and of the call. *)
LEMMA RowWritten ==
  ASSUME QueueInv, RunsInv, CsvInv, NEW u \in Uploads,
         upload[u].step = "persist", imports[upload[u].key] = None,
         imports' = [imports EXCEPT ![upload[u].key] = Uploaded(u)], Enqueue(u),
         \/ Answer(u, "created", u) /\ faults' = faults
         \/ Goto(u, "cleanup") /\ Fault,
         UNCHANGED <<runs, objects, rowEvents, rowErrors>>
  PROVE  QueueInv' /\ RunsInv' /\ CsvInv'
<1> DEFINE key == upload[u].key
           d(step, id) == [step |-> step, key |-> key, body |-> upload[u].body, id |-> id]
<1>1. CsvTypeOK /\ UploadsAgree /\ UploadInv /\ RowInv /\ RowEventsInv /\ ImportsAreWhole
  BY DEF CsvInv
<1>2. /\ key \in Keys /\ upload[u].body \in Bodies /\ upload[u].id = None
      /\ u \in objects
  BY <1>1 DEF UploadInv, UploadsAgree
<1>3. \A k \in Keys : imports[k] # None => imports[k].id # u
  BY NoRowYet DEF Waiting
<1>4. u \in Jobs /\ u \notin RowJobs /\ RowJobs \subseteq Jobs /\ Uploads \subseteq Jobs
  BY CsvAssumption
<1>5. /\ QueueInv' /\ UNCHANGED <<tries, worked>> /\ worked[u] = {}
      /\ \A k \in Jobs : status'[k] = IF k = u THEN "open" ELSE status[k]
  BY <1>4, EnqueueQueue
<1>6. faults' \in Nat /\ faults' >= faults /\ (Fault => faults' > 0)
  BY FaultGrows DEF RunsInv
<1>7. RunsInv'
  BY <1>5, <1>6 DEF RunsInv
<1>8. PICK c \in CallType :
        /\ upload' = [upload EXCEPT ![u] = c] /\ c.key = key /\ c.body = upload[u].body
        /\ \/ c.step = "created" /\ c.id = u
           \/ c.step = "cleanup" /\ c.id = None /\ faults' > 0
  <2>1. CASE Answer(u, "created", u)
    <3>1. /\ d("created", u) \in CallType
          /\ upload' = [upload EXCEPT ![u] = d("created", u)]
      BY <1>1, <2>1, CallChanges, Zenon DEF Answers
    <3> QED
      BY <3>1
  <2>2. CASE Goto(u, "cleanup") /\ Fault
    <3>1. /\ d("cleanup", upload[u].id) \in CallType
          /\ upload' = [upload EXCEPT ![u] = d("cleanup", upload[u].id)]
      BY <1>1, <1>2, <2>2, CallChanges, Zenon DEF Waiting
    <3> QED
      BY <1>2, <1>6, <2>2, <3>1
  <2> QED
    BY <2>1, <2>2
<1>9. upload \in [Uploads -> CallType] /\ imports \in [Keys -> {None} \cup ImportRows]
  BY <1>1 DEF CsvTypeOK, CallType
<1>10. \A v \in Uploads : upload'[v] = IF v = u THEN c ELSE upload[v]
  BY <1>8, <1>9
<1> DEFINE row == [id |-> u, body |-> upload[u].body, state |-> "uploaded",
                   accepted |-> 0, rejected |-> 0]
<1>11. row \in ImportRows /\ row # None
  BY <1>2, CsvAssumption DEF ImportRows
<1>12. \A k \in Keys : imports'[k] = IF k = key THEN row ELSE imports[k]
  BY <1>2, <1>9 DEF Uploaded
<1>13. imports' \in [Keys -> {None} \cup ImportRows]
  BY <1>2, <1>9, <1>11 DEF Uploaded
<1>14. row.id = u /\ row.body = upload[u].body /\ ~Imported(row)
       /\ row.accepted = 0 /\ row.rejected = 0
  BY DEF Imported
<1> HIDE DEF row, key
<1>15. CsvTypeOK'
  <2>1. upload' \in [Uploads -> CallType]
    BY <1>8, <1>9
  <2> QED
    BY <1>1, <1>13, <2>1 DEF CsvTypeOK, CallType
<1>16. UploadsAgree'
  <2> SUFFICES ASSUME NEW v \in Uploads, upload'[v].id # None
               PROVE  LET i == imports'[upload'[v].key]
                      IN  i # None /\ i.id = upload'[v].id /\ i.body = upload'[v].body
    BY DEF UploadsAgree
  <2>1. CASE v = u
    BY <1>2, <1>8, <1>10, <1>11, <1>12, <1>14, <2>1
  <2>2. CASE v # u
    <3>1. /\ upload'[v] = upload[v] /\ upload[v].id # None /\ upload[v].key \in Keys
          /\ imports[upload[v].key] # None
      BY <1>1, <1>10, <2>2 DEF UploadsAgree, UploadInv
    <3>2. imports'[upload[v].key] = imports[upload[v].key]
      BY <1>12, <3>1 DEF key
    <3> QED
      BY <1>1, <3>1, <3>2 DEF UploadsAgree
  <2> QED
    BY <2>1, <2>2
<1>17. Rowed \subseteq Rowed' /\ u \in Rowed'
  <2>1. \A k \in Keys : imports[k] # None => k # key
    BY DEF key
  <2> QED
    BY <1>2, <1>11, <1>12, <1>14, <2>1 DEF Rowed
<1>18. UploadInv'
  <2>1. faults > 0 => faults' > 0
    BY <1>6 DEF RunsInv
  <2>2. \A v \in Uploads \ {u} : upload'[v] = upload[v]
    BY <1>10
  <2>3. upload'[u] = c
    BY <1>10
  <2> QED
    BY <1>1, <1>2, <1>8, <1>17, <2>1, <2>2, <2>3 DEF UploadInv
<1>19. RowEventsInv'
  BY <1>1, <1>12 DEF RowEventsInv, key
<1>20. RowInv'
  <2> SUFFICES ASSUME NEW k \in Keys, imports'[k] # None
      PROVE  LET i == imports'[k]
                 call == upload'[i.id]
             IN  /\ call.key = k /\ call.body = i.body
                 /\ \/ call.step = "created" /\ i.id \in objects'
                    \/ call.step \in {"cleanup", "lost"} /\ i.id \in objects' /\ faults' > 0
                    \/ call.step = "error" /\ faults' > 0
                 /\ status'[i.id] # "absent"
                 /\ worked'[i.id] # {} => Imported(i)
                 /\ Imported(i) => Lines(i.body, "split") = {}
    BY DEF RowInv, Imported
  <2>1. CASE k = key
    BY <1>2, <1>4, <1>5, <1>8, <1>10, <1>12, <1>14, <2>1
  <2>2. CASE k # key
    <3>1. imports'[k] = imports[k] /\ imports[k] # None
      BY <1>12, <2>2
    <3>2. imports[k].id \in Uploads /\ imports[k].id # u
      BY <1>3, <3>1, RowsHaveTypes
    <3>3. /\ upload'[imports[k].id] = upload[imports[k].id]
          /\ status'[imports[k].id] = status[imports[k].id]
      BY <1>4, <1>5, <1>10, <3>2
    <3>4. faults > 0 => faults' > 0
      BY <1>6 DEF RunsInv
    <3> QED
      BY <1>1, <1>5, <3>1, <3>3, <3>4 DEF RowInv
  <2> QED
    BY <2>1, <2>2
<1>21. ImportsAreWhole'
  <2>1. \A x \in RowJobs : x \in rowEvents' <=> status'[x] # "absent"
    BY <1>1, <1>4, <1>5 DEF ImportsAreWhole
  <2>2. ASSUME NEW k \in Keys, imports'[k] # None
        PROVE  WholeImport(imports[k])'
    <3>1. CASE k = key
      <4>1. RowsFrom(u, rowEvents') = {} /\ RowsFrom(u, rowErrors') = {}
        BY <1>1, <1>3 DEF RowEventsInv, RowsFrom
      <4>2. /\ Cardinality(RowsFrom(u, rowEvents')) = 0
            /\ Cardinality(RowsFrom(u, rowErrors')) = 0
        BY <4>1, FS_EmptySet
      <4>3. imports'[k] = row /\ status'[u] = "open"
        BY <1>4, <1>5, <1>12, <3>1
      <4>4. /\ imports'[k].id = u /\ imports'[k].accepted = 0 /\ imports'[k].rejected = 0
            /\ imports'[k].state # "completed"
        BY <1>14, <4>3 DEF Imported
      <4>5. status'[imports'[k].id] # "completed"
        BY <4>3, <4>4
      <4>6. /\ imports'[k].accepted = Cardinality(RowsFrom(imports'[k].id, rowEvents'))
            /\ imports'[k].rejected = Cardinality(RowsFrom(imports'[k].id, rowErrors'))
        BY <4>2, <4>4
      <4>7. imports'[k].accepted + imports'[k].rejected = 0
        BY <4>4
      <4> QED
        BY <4>4, <4>5, <4>6, <4>7 DEF WholeImport, Imported
    <3>2. CASE k # key
      <4>1. imports'[k] = imports[k] /\ imports[k] # None
        BY <1>12, <2>2, <3>2
      <4>2. imports[k].id \in Uploads /\ imports[k].id # u
        BY <1>3, <4>1, RowsHaveTypes
      <4>3. status'[imports[k].id] = status[imports[k].id]
        BY <1>4, <1>5, <4>2
      <4> QED
        BY <1>1, <4>1, <4>3 DEF ImportsAreWhole, WholeImport, Imported
    <3> QED
      BY <3>1, <3>2
  <2> QED
    BY <2>1, <2>2 DEF ImportsAreWhole
<1> QED
  BY <1>5, <1>7, <1>15, <1>16, <1>18, <1>19, <1>20, <1>21 DEF CsvInv

LEMMA UploadStepKeeps ==
  ASSUME QueueInv, RunsInv, CsvInv, UploadStep
  PROVE  QueueInv' /\ RunsInv' /\ CsvInv'
<1>1. PICK u \in Uploads : \/ Receive(u) \/ Lookup(u) \/ PutObject(u) \/ Persist(u)
                           \/ PersistFails(u) \/ Cleanup(u) \/ CrashUpload(u)
  BY DEF UploadStep
<1>2. CASE Persist(u)
  <2>1. CASE imports[upload[u].key] = None
    BY <1>2, <2>1, RowWritten DEF Persist
  <2>2. CASE imports[upload[u].key] # None
    BY <1>2, <2>2, CallStep DEF Persist
  <2> QED
    BY <2>1, <2>2
<1>3. CASE PersistFails(u)
  <2>1. CASE UNCHANGED <<queueVars, imports>>
    BY <1>3, <2>1, CallStep DEF PersistFails
  <2>2. CASE ~UNCHANGED <<queueVars, imports>>
    BY <1>3, <2>2, RowWritten DEF PersistFails
  <2> QED
    BY <2>1, <2>2
<1> QED
  BY <1>1, <1>2, <1>3, CallStep

-----------------------------------------------------------------------------
LEMMA CountedRow ==
  ASSUME NEW i \in ImportRows
  PROVE  Counted(i) = [id |-> i.id, body |-> i.body, state |-> "completed",
                       accepted |-> Cardinality(Lines(i.body, "valid")),
                       rejected |-> Cardinality(Lines(i.body, "long"))]
<1> DEFINE V == Cardinality(Lines(i.body, "valid"))
           L == Cardinality(Lines(i.body, "long"))
           closed == [i EXCEPT !.state = "completed"]
           accepted == [closed EXCEPT !.accepted = V]
<1>1. Counted(i) = [accepted EXCEPT !.rejected = L]
  BY DEF Counted
<1> HIDE DEF V, L
<1>2. closed = [id |-> i.id, body |-> i.body, state |-> "completed",
                accepted |-> i.accepted, rejected |-> i.rejected]
  BY DEF ImportRows
<1> HIDE DEF closed
<1>3. accepted = [id |-> i.id, body |-> i.body, state |-> "completed",
                  accepted |-> V, rejected |-> i.rejected]
  BY <1>2
<1> HIDE DEF accepted
<1>4. [accepted EXCEPT !.rejected = L]
        = [id |-> i.id, body |-> i.body, state |-> "completed", accepted |-> V,
           rejected |-> L]
  BY <1>3
<1> QED
  BY <1>1, <1>4 DEF V, L

(* The commit of an import: its row was not completed, so none of its lines *)
(* had been handled, and what it counts is what it inserts.                 *)
LEMMA ImportCommits ==
  ASSUME QueueInv, RunsInv, CsvInv, NEW k \in Keys, imports[k] # None, Fresh(imports[k]),
         NEW n, Lines(imports[k].body, "split") = {},
         Work(imports[k].id, n,
              {e \in RowsOf(imports[k].id, Lines(imports[k].body, "valid")) :
                 status[e] = "absent"}),
         imports' = [imports EXCEPT ![k] = Counted(imports[k])],
         rowEvents' = rowEvents \cup
           RowsOf(imports[k].id, Lines(imports[k].body, "valid")),
         rowErrors' = rowErrors \cup
           RowsOf(imports[k].id, Lines(imports[k].body, "long")),
         UNCHANGED <<upload, objects>>, faults' \in Nat, faults' >= faults
  PROVE  CsvInv'
<1> DEFINE i == imports[k]
           u == imports[k].id
           events == RowsOf(u, Lines(i.body, "valid"))
           errors == RowsOf(u, Lines(i.body, "long"))
           fresh == {e \in events : status[e] = "absent"}
           done == Counted(i)
<1>1. CsvTypeOK /\ UploadsAgree /\ UploadInv /\ RowInv /\ RowEventsInv /\ ImportsAreWhole
  BY DEF CsvInv
<1>2. /\ i \in ImportRows /\ u \in Uploads /\ i.body \in Bodies /\ i.state = "uploaded"
      /\ \A l \in Keys : imports[l] # None /\ imports[l].id = u => l = k
  BY RowsHaveTypes, OneRow DEF Fresh, ImportRows
<1>3. events \subseteq RowJobs /\ errors \subseteq RowJobs
  BY <1>2, LinesOfFile
<1>4. u \in Jobs /\ Uploads \subseteq Jobs /\ RowJobs \subseteq Jobs /\ Uploads \cap RowJobs = {}
  BY <1>2, CsvAssumption
<1>5. /\ \A j \in Jobs : worked'[j] = IF j = u THEN worked[j] \cup {n} ELSE worked[j]
      /\ \A j \in Jobs : status'[j] = IF j \in fresh THEN "open" ELSE status[j]
  <2>1. fresh \in SUBSET Jobs /\ Work(u, n, fresh)
    BY <1>3, <1>4
  <2> HIDE DEF fresh, u
  <2> QED
    BY <1>4, <2>1, WorkQueue
<1>6. \A v \in Uploads : status'[v] = status[v]
  BY <1>3, <1>4, <1>5
<1>7. /\ done \in ImportRows /\ done # None /\ done.id = u /\ done.body = i.body
      /\ Imported(done)
      /\ done.accepted = Cardinality(Lines(i.body, "valid"))
      /\ done.rejected = Cardinality(Lines(i.body, "long"))
  <2>1. /\ Cardinality(Lines(i.body, "valid")) \in Nat
        /\ Cardinality(Lines(i.body, "long")) \in Nat
    BY <1>2, LinesOfFile
  <2>2. done = [id |-> u, body |-> i.body, state |-> "completed",
                accepted |-> Cardinality(Lines(i.body, "valid")),
                rejected |-> Cardinality(Lines(i.body, "long"))]
    BY <1>2, CountedRow
  <2> HIDE DEF done
  <2>3. done \in ImportRows
    BY <1>2, <2>1, <2>2 DEF ImportRows
  <2> QED
    BY <2>2, <2>3, CsvAssumption DEF Imported
<1>8. \A l \in Keys : imports'[l] = IF l = k THEN done ELSE imports[l]
  BY <1>1 DEF CsvTypeOK
<1>9. faults > 0 => faults' > 0
  BY DEF RunsInv
<1>10. RowsFrom(u, rowEvents') = events /\ RowsFrom(u, rowErrors') = errors
  <2>1. \A x \in rowEvents \cup rowErrors : x[1] # u
    BY <1>1, <1>2 DEF RowEventsInv, Fresh, Imported
  <2>2. \A x \in events \cup errors : x[1] = u
    BY DEF RowsOf
  <2> QED
    BY <2>1, <2>2 DEF RowsFrom
<1>11. ASSUME NEW v, v # u
       PROVE  RowsFrom(v, rowEvents') = RowsFrom(v, rowEvents)
              /\ RowsFrom(v, rowErrors') = RowsFrom(v, rowErrors)
  <2>1. \A x \in events \cup errors : x[1] = u
    BY DEF RowsOf
  <2> QED
    BY <1>11, <2>1 DEF RowsFrom
<1> HIDE DEF done, i, u
<1>12. CsvTypeOK'
  <2>1. imports' \in [Keys -> {None} \cup ImportRows]
    BY <1>1, <1>7 DEF CsvTypeOK, done, i
  <2> QED
    BY <1>1, <1>3, <2>1 DEF CsvTypeOK, i, u
<1>13. UploadsAgree'
  BY <1>1, <1>7, <1>8 DEF UploadsAgree, UploadInv, i, u
<1>14. UploadInv'
  <2>1. Rowed' = Rowed
    BY <1>7, <1>8 DEF Rowed, i, u
  <2> QED
    BY <1>1, <1>9, <2>1 DEF UploadInv
<1>15. RowInv'
  <2> SUFFICES ASSUME NEW l \in Keys, imports'[l] # None
      PROVE  LET row == imports'[l]
                 call == upload'[row.id]
             IN  /\ call.key = l /\ call.body = row.body
                 /\ \/ call.step = "created" /\ row.id \in objects'
                    \/ call.step \in {"cleanup", "lost"} /\ row.id \in objects' /\ faults' > 0
                    \/ call.step = "error" /\ faults' > 0
                 /\ status'[row.id] # "absent"
                 /\ worked'[row.id] # {} => Imported(row)
                 /\ Imported(row) => Lines(row.body, "split") = {}
    BY DEF RowInv, Imported
  <2>1. CASE l = k
    <3>1. imports'[l] = done /\ status'[u] = status[u]
      BY <1>2, <1>6, <1>8, <2>1
    <3>2. /\ upload[u].key = k /\ upload[u].body = i.body /\ status[u] # "absent"
          /\ \/ upload[u].step = "created" /\ u \in objects
             \/ upload[u].step \in {"cleanup", "lost"} /\ u \in objects /\ faults > 0
             \/ upload[u].step = "error" /\ faults > 0
      BY <1>1 DEF RowInv, i, u
    <3>3. Lines(done.body, "split") = {}
      BY <1>7 DEF i
    <3> QED
      BY <1>7, <1>9, <2>1, <3>1, <3>2, <3>3
  <2>2. CASE l # k
    <3>1. /\ imports'[l] = imports[l] /\ imports[l] # None
          /\ imports[l].id \in Uploads /\ imports[l].id # u
      BY <1>2, <1>8, <2>2, RowsHaveTypes
    <3>2. status'[imports[l].id] = status[imports[l].id]
          /\ worked'[imports[l].id] = worked[imports[l].id]
      BY <1>4, <1>5, <1>6, <3>1
    <3> QED
      BY <1>1, <1>9, <3>1, <3>2 DEF RowInv
  <2> QED
    BY <2>1, <2>2
<1>16. RowEventsInv'
  <2>1. \A x \in events \cup errors : x[1] = u
    BY DEF RowsOf
  <2> SUFFICES ASSUME NEW x \in rowEvents' \cup rowErrors'
               PROVE  \E l \in Keys : imports'[l] # None /\ imports'[l].id = x[1]
                                        /\ Imported(imports'[l])
    BY DEF RowEventsInv, Imported
  <2>2. CASE x[1] = u
    BY <1>7, <1>8, <2>2
  <2>3. CASE x[1] # u
    <3>1. x \in rowEvents \cup rowErrors
      BY <2>1, <2>3 DEF i, u
    <3>2. PICK l \in Keys : imports[l] # None /\ imports[l].id = x[1] /\ Imported(imports[l])
      BY <1>1, <3>1 DEF RowEventsInv
    <3> QED
      BY <1>8, <2>3, <3>2 DEF u
  <2> QED
    BY <2>2, <2>3
<1>17. ImportsAreWhole'
  <2>1. ASSUME NEW x \in RowJobs PROVE x \in rowEvents' <=> status'[x] # "absent"
    <3>1. status'[x] = IF x \in fresh THEN "open" ELSE status[x]
      BY <1>4, <1>5
    <3>2. x \in rowEvents' <=> x \in rowEvents \/ x \in events
      BY DEF i, u
    <3>3. x \in rowEvents <=> status[x] # "absent"
      BY <1>1 DEF ImportsAreWhole
    <3> QED
      BY <3>1, <3>2, <3>3
  <2>2. ASSUME NEW l \in Keys, imports'[l] # None
        PROVE  WholeImport(imports[l])'
    <3>1. CASE l = k
      <4>1. imports'[l] = done /\ done.id = u
        BY <1>7, <1>8, <3>1
      <4>2. /\ imports'[l].accepted = Cardinality(RowsFrom(imports'[l].id, rowEvents'))
            /\ imports'[l].rejected = Cardinality(RowsFrom(imports'[l].id, rowErrors'))
        <5>1. /\ Cardinality(events) = Cardinality(Lines(i.body, "valid"))
              /\ Cardinality(errors) = Cardinality(Lines(i.body, "long"))
          BY <1>2, LinesOfFile, RowsCounted
        <5> QED
          BY <1>7, <1>10, <4>1, <5>1
      <4>3. done.accepted + done.rejected = Len(done.body)
        BY <1>2, <1>7, EveryLineCounted DEF i
      <4> QED
        BY <1>7, <4>1, <4>2, <4>3 DEF WholeImport, Imported
    <3>2. CASE l # k
      <4>1. /\ imports'[l] = imports[l] /\ imports[l] # None
            /\ imports[l].id \in Uploads /\ imports[l].id # u
        BY <1>2, <1>8, <2>2, <3>2, RowsHaveTypes
      <4>2. status'[imports[l].id] = status[imports[l].id]
        BY <1>6, <4>1
      <4>3. /\ RowsFrom(imports[l].id, rowEvents') = RowsFrom(imports[l].id, rowEvents)
            /\ RowsFrom(imports[l].id, rowErrors') = RowsFrom(imports[l].id, rowErrors)
        BY <1>11, <4>1
      <4>4. WholeImport(imports[l])
        BY <1>1, <4>1 DEF ImportsAreWhole
      <4> QED
        BY <4>1, <4>2, <4>3, <4>4 DEF WholeImport, Imported
    <3> QED
      BY <3>1, <3>2
  <2> QED
    BY <2>1, <2>2 DEF ImportsAreWhole
<1> QED
  BY <1>12, <1>13, <1>14, <1>15, <1>16, <1>17 DEF CsvInv

LEMMA ImportKeeps ==
  ASSUME QueueInv, RunsInv, CsvInv, NEW r \in runs, ImportCsv(r)
  PROVE  QueueInv' /\ RunsInv' /\ CsvInv'
<1>1. PICK k \in Keys : imports[k] # None /\ imports[k].id = r.job /\ Import(r, k)
  BY DEF ImportCsv
<1> DEFINE i == imports[k]
           events == RowsOf(i.id, Lines(i.body, "valid"))
           fresh == {e \in events : status[e] = "absent"}
<1>2. i.id \in Uploads /\ i.body \in Bodies /\ events \subseteq RowJobs
  BY <1>1, RowsHaveTypes, LinesOfFile
<1>3. r.job \in Jobs /\ Uploads \subseteq Jobs /\ RowJobs \subseteq Jobs
  BY CsvAssumption DEF RunsInv
<1>4. faults \in Nat /\ (Fault => faults' \in Nat /\ faults' >= faults)
  BY FaultGrows DEF RunsInv
<1>5. CASE ~Fresh(i) /\ Work(r.job, r.attempt, {}) /\ EndRun(r, "returned")
             /\ UNCHANGED <<faults, csvVars>>
  <2>1. QueueInv' /\ RunsInv'
    <3>1. {} \in SUBSET Jobs /\ faults' \in Nat
      BY <1>4, <1>5
    <3> QED
      BY <1>5, <3>1, WorkRun
  <2>2. /\ \A j \in Jobs : worked'[j] = IF j = r.job THEN worked[j] \cup {r.attempt}
                                                    ELSE worked[j]
        /\ \A j \in Jobs : status'[j] = status[j]
    <3>1. {} \in SUBSET Jobs
      OBVIOUS
    <3> QED
      BY <1>3, <1>5, <3>1, WorkQueue, ZenonT(60)
  <2>3. ASSUME NEW l \in Keys, imports[l] # None, worked'[imports[l].id] # {}
        PROVE  worked[imports[l].id] # {} \/ Imported(imports[l])
    <3>1. imports[l].id \in Jobs
      BY <1>3, <2>3, RowsHaveTypes
    <3>2. CASE imports[l].id = r.job
      BY <1>1, <1>5, <2>3, <3>2, OneRow DEF Fresh, Imported
    <3> QED
      BY <2>2, <2>3, <3>1, <3>2
  <2>4. \A j \in Uploads \cup RowJobs : status'[j] = "absent" <=> status[j] = "absent"
    BY <1>3, <2>2
  <2> QED
    BY <1>4, <1>5, <2>1, <2>3, <2>4, Bystander
<1>6. CASE EndRun(r, "raised") /\ UNCHANGED <<queueVars, faults, csvVars>>
  <2>1. QueueInv' /\ RunsInv'
    BY <1>4, <1>6, QuietRun DEF EndRun
  <2> QED
    BY <1>4, <1>6, <2>1, Bystander DEF queueVars
<1>7. CASE /\ Fresh(i) /\ Lines(i.body, "split") = {}
           /\ Work(r.job, r.attempt, fresh)
           /\ imports' = [imports EXCEPT ![k] = Counted(i)]
           /\ rowEvents' = rowEvents \cup events
           /\ rowErrors' = rowErrors \cup RowsOf(i.id, Lines(i.body, "long"))
           /\ \/ EndRun(r, "returned") /\ UNCHANGED faults
              \/ Fault /\ EndRun(r, "raised")
           /\ UNCHANGED <<upload, objects>>
  <2>1. faults' \in Nat /\ faults' >= faults
    BY <1>4, <1>7
  <2>2. CsvInv'
    BY <1>1, <1>7, <2>1, ImportCommits
  <2>3. fresh \in SUBSET Jobs
    BY <1>2, <1>3
  <2>4. QueueInv' /\ RunsInv'
    <3> HIDE DEF fresh
    <3> QED
      BY <1>7, <2>1, <2>3, WorkRun
  <2> QED
    BY <2>2, <2>4
<1> QED
  BY <1>1, <1>5, <1>6, <1>7 DEF Import

LEMMA HandlerFailureKeeps ==
  ASSUME QueueInv, RunsInv, CsvInv, NEW r \in runs, HandlerFails(r)
  PROVE  QueueInv' /\ RunsInv' /\ CsvInv'
<1>1. faults' \in Nat /\ faults' >= faults
  BY FaultGrows DEF HandlerFails, RunsInv
<1>2. QueueInv' /\ RunsInv'
  BY <1>1, QuietRun DEF HandlerFails, EndRun
<1> QED
  BY <1>1, <1>2, Bystander DEF HandlerFails, queueVars

LEMMA RunStepKeeps ==
  ASSUME QueueInv, RunsInv, CsvInv, NEW S \in SUBSET Jobs, RunStep(S), UNCHANGED csvVars
  PROVE  QueueInv' /\ RunsInv' /\ CsvInv'
<1>1. QueueInv' /\ RunsInv' /\ QueueKept /\ faults' >= faults
  BY RunStepQueue
<1>2. faults' \in Nat
  BY <1>1 DEF RunsInv
<1>3. Uploads \cup RowJobs \subseteq Jobs
  BY CsvAssumption
<1> QED
  BY <1>1, <1>2, <1>3, Bystander DEF QueueKept

-----------------------------------------------------------------------------
LEMMA InitInv == ImportInit => ImportIndInv
<1> SUFFICES ASSUME ImportInit PROVE ImportIndInv
  OBVIOUS
<1> USE DEF ImportInit, RunInit, QueueInit, CsvInit
<1>1. QueueInv
  BY DEF QueueInv, QueueTypeOK
<1>2. RunsInv
  BY DEF RunsInv
<1>3. CsvTypeOK /\ RowEventsInv
  BY DEF CsvTypeOK, Waiting, RowEventsInv
<1>4. ImportsAreWhole
  <2>1. RowJobs \subseteq Jobs
    BY CsvAssumption
  <2> QED
    BY <2>1 DEF ImportsAreWhole
<1>5. UploadsAgree /\ UploadInv /\ RowInv
  BY DEF UploadsAgree, UploadInv, RowInv
<1> QED
  BY <1>1, <1>2, <1>3, <1>4, <1>5 DEF ImportIndInv, CsvInv

LEMMA NextInv == ImportIndInv /\ [ImportNext]_importVars => ImportIndInv'
<1> SUFFICES ASSUME ImportIndInv, [ImportNext]_importVars PROVE ImportIndInv'
  OBVIOUS
<1>1. QueueInv /\ RunsInv /\ CsvInv
  BY DEF ImportIndInv
<1>2. CASE UploadStep
  BY <1>1, <1>2, UploadStepKeeps DEF ImportIndInv
<1>3. ASSUME NEW r \in runs, ImportCsv(r) \/ HandlerFails(r) PROVE ImportIndInv'
  BY <1>1, <1>3, ImportKeeps, HandlerFailureKeeps DEF ImportIndInv
<1>4. CASE RunStep(Uploads) /\ UNCHANGED csvVars
  <2>1. Uploads \in SUBSET Jobs
    BY CsvAssumption
  <2> QED
    BY <1>1, <1>4, <2>1, RunStepKeeps DEF ImportIndInv
<1>5. CASE UNCHANGED importVars
  <2>1. UNCHANGED <<queueVars, runs, faults, csvVars, status, worked>>
    BY <1>5 DEF importVars, runVars, queueVars
  <2>2. QueueInv' /\ RunsInv' /\ faults' \in Nat /\ faults' >= faults
    BY <1>1, <2>1, QuietQueue
  <2> QED
    BY <1>1, <2>1, <2>2, Bystander DEF ImportIndInv
<1> QED
  BY <1>2, <1>3, <1>4, <1>5 DEF ImportNext

(***************************************************************************)
(* The invariant holds in every state of the uploads, their imports and    *)
(* their jobs.                                                             *)
(***************************************************************************)
THEOREM Inductive == ImportSpec => []ImportIndInv
<1>1. ImportInit => ImportIndInv
  BY InitInv
<1>2. ImportIndInv /\ [ImportNext]_importVars => ImportIndInv'
  BY NextInv
<1> QED
  BY <1>1, <1>2, PTL DEF ImportSpec

(***************************************************************************)
(* Whatever the number of attempts, crashes and lost acknowledgements, an  *)
(* import is completed with all its lines counted or has left nothing, and *)
(* its job is completed only if the import is.                             *)
(***************************************************************************)
THEOREM ImportsCorrect == ImportSpec => []ImportInv
<1>1. ImportIndInv => ImportInv
  BY DEF ImportIndInv, QueueInv, CsvInv, ImportInv
<1> QED
  BY <1>1, Inductive, PTL

(***************************************************************************)
(* Two calls under one key that both succeed are given one import, of the  *)
(* file both have sent.                                                    *)
(***************************************************************************)
THEOREM UploadAgreement == ImportSpec => []UploadsAgree
<1>1. ImportIndInv => UploadsAgree
  BY DEF ImportIndInv, CsvInv
<1> QED
  BY <1>1, Inductive, PTL

(***************************************************************************)
(* Only a failure parts a file from its import, and the import that has    *)
(* lost its file is one whose caller was told of an error.                 *)
(***************************************************************************)
THEOREM FilesAgreement == ImportSpec => []FilesMatchImports
<1>1. ASSUME ImportIndInv PROVE FilesMatchImports
  <2>1. UploadInv /\ RowInv /\ CsvInv
    BY <1>1 DEF ImportIndInv, CsvInv
  <2>2. ASSUME NEW u \in Rowed \ objects PROVE upload[u].step = "error" /\ faults > 0
    BY <2>1, <2>2 DEF RowInv, Rowed
  <2>3. ASSUME NEW u \in objects \ Rowed
        PROVE  upload[u].step \in {"persist", "cleanup"} \/ faults > 0
    <3>1. u \in Uploads
      BY <2>1 DEF CsvInv, CsvTypeOK
    <3> QED
      BY <2>1, <3>1 DEF UploadInv
  <2> QED
    BY <2>2, <2>3 DEF FilesMatchImports
<1> QED
  BY <1>1, Inductive, PTL

-----------------------------------------------------------------------------
(* Each step of the workers is one of the abstract queue or leaves it alone. *)
LEMMA RunStepIsQueueStep ==
  ASSUME RunsInv, NEW S \in SUBSET Jobs, RunStep(S)
  PROVE  [QueueNext]_queueVars
<1>1. ASSUME NEW j \in S, StartRun(j) PROVE QueueNext
  <2>1. {j} \in SUBSET Jobs /\ Attempt({j})
    BY <1>1 DEF StartRun
  <2> QED
    BY <2>1 DEF QueueNext
<1>2. ASSUME NEW r \in runs, Report(r) PROVE [QueueNext]_queueVars
  BY <1>2 DEF Report, QueueNext, RunsInv
<1>3. ASSUME NEW r \in runs, LoseRun(r) PROVE UNCHANGED queueVars
  BY <1>3 DEF LoseRun
<1> QED
  BY <1>1, <1>2, <1>3 DEF RunStep

LEMMA WorkIsQueueStep ==
  ASSUME RunsInv, NEW r \in runs, NEW S \in SUBSET Jobs, Work(r.job, r.attempt, S)
  PROVE  QueueNext
<1>1. r.job \in Jobs /\ r.attempt \in 1 .. tries[r.job]
  BY DEF RunsInv
<1> QED
  BY <1>1 DEF QueueNext

LEMMA UploadIsQueueStep == UploadStep => [QueueNext]_queueVars
<1> SUFFICES ASSUME NEW u \in Uploads,
                    \/ Receive(u) \/ Lookup(u) \/ PutObject(u) \/ Persist(u)
                    \/ PersistFails(u) \/ Cleanup(u) \/ CrashUpload(u)
             PROVE  [QueueNext]_queueVars
  BY DEF UploadStep
<1>1. u \in Jobs
  BY CsvAssumption
<1>2. Enqueue(u) \/ UNCHANGED queueVars
  BY DEF Receive, Lookup, PutObject, Persist, PersistFails, Cleanup, CrashUpload, runVars,
         queueVars
<1> QED
  BY <1>1, <1>2 DEF QueueNext

LEMMA ImportIsQueueStep ==
  ASSUME RunsInv, CsvInv, NEW r \in runs, ImportCsv(r)
  PROVE  [QueueNext]_queueVars
<1>1. PICK k \in Keys : imports[k] # None /\ imports[k].id = r.job /\ Import(r, k)
  BY DEF ImportCsv
<1> DEFINE events == RowsOf(imports[k].id, Lines(imports[k].body, "valid"))
           fresh == {e \in events : status[e] = "absent"}
<1>2. events \subseteq RowJobs
  BY <1>1, RowsHaveTypes, LinesOfFile
<1>3. fresh \in SUBSET Jobs /\ {} \in SUBSET Jobs
  BY <1>2, CsvAssumption
<1>4. Work(r.job, r.attempt, {}) \/ Work(r.job, r.attempt, fresh) \/ UNCHANGED queueVars
  BY <1>1 DEF Import
<1> HIDE DEF fresh
<1> QED
  BY <1>3, <1>4, WorkIsQueueStep

(***************************************************************************)
(* Uploads and imports use the queue as JobQueue says: whatever they and   *)
(* the workers do, a job is attempted, takes effect at most once per       *)
(* attempt and is settled once.                                            *)
(***************************************************************************)
THEOREM ImportsUseTheQueue == ImportSpec => QueueSpec
<1>1. ImportInit => QueueInit
  BY DEF ImportInit, RunInit
<1>2. ImportIndInv /\ [ImportNext]_importVars => [QueueNext]_queueVars
  <2> SUFFICES ASSUME RunsInv, CsvInv, [ImportNext]_importVars
               PROVE  [QueueNext]_queueVars
    BY DEF ImportIndInv
  <2>1. Uploads \in SUBSET Jobs
    BY CsvAssumption
  <2>2. ASSUME NEW r \in runs, HandlerFails(r) PROVE UNCHANGED queueVars
    BY <2>2 DEF HandlerFails
  <2>3. UNCHANGED importVars => UNCHANGED queueVars
    BY DEF importVars, runVars, queueVars
  <2> QED
    BY <2>1, <2>2, <2>3, UploadIsQueueStep, ImportIsQueueStep, RunStepIsQueueStep
       DEF ImportNext
<1> QED
  BY <1>1, <1>2, Inductive, PTL DEF ImportSpec, QueueSpec

-----------------------------------------------------------------------------
(* What a run has seen: finitely many files, and rows that are still there. *)
SeenFits(q) ==
  /\ IsFiniteSet({u \in Uploads : <<"listed", u>> \in q.seen})
  /\ {u \in Uploads : <<"rowed", u>> \in q.seen} \subseteq Rowed'

(* What requests and reports rely on when others take a step.              *)
RequestsKept ==
  /\ \A c \in ReconcileCalls : worked'[c] = worked[c]
  /\ \A c \in Requests : status'[c] = "absent" <=> status[c] = "absent"
  /\ Rowed \subseteq Rowed'
  /\ IsFiniteSet(objects')
  /\ \A q \in runs' : q \in runs \/ q.seen = {} \/ SeenFits(q)

LEMMA NothingSeen ==
  ASSUME NEW q, q.seen = {}
  PROVE  /\ IsFiniteSet({u \in Uploads : <<"listed", u>> \in q.seen})
         /\ {u \in Uploads : <<"rowed", u>> \in q.seen} = {}
<1>1. {u \in Uploads : <<"listed", u>> \in q.seen} = {}
  OBVIOUS
<1>2. {u \in Uploads : <<"rowed", u>> \in q.seen} = {}
  OBVIOUS
<1> QED
  BY <1>1, <1>2, FS_EmptySet

LEMMA OtherSteps ==
  ASSUME OpInv, QueueInv', UNCHANGED opVars, RequestsKept
  PROVE  OpInv'
<1>1. UNCHANGED <<ask, replays, content, reconciliations, anomalies, evidence>>
  BY DEF opVars
<1>2. /\ \A c \in ReconcileCalls : worked'[c] = worked[c] /\ c \in Jobs
      /\ \A c \in Requests : status'[c] = "absent" <=> status[c] = "absent"
  BY OperationsAssumption DEF RequestsKept, Requests
<1>3. \A a \in anomalies : a.run \in ReconcileCalls /\ a.by \in worked[a.run]
  BY DEF OpInv, OpTypeOK, ReportsInv
<1>4. OpTypeOK'
  <2>1. \A a \in anomalies : a.by \in 1 .. tries'[a.run]
    BY <1>2, <1>3 DEF QueueInv
  <2> QED
    BY <1>1, <2>1 DEF OpInv, OpTypeOK
<1>5. RequestsAgree'
  BY <1>1 DEF OpInv, RequestsAgree
<1>6. RowsFit(replays)' /\ RowsFit(reconciliations)'
  <2>1. \A k \in Keys : /\ replays[k] # None => replays[k].id \in Requests
                        /\ reconciliations[k] # None => reconciliations[k].id \in Requests
    BY DEF OpInv, OpTypeOK, ReplayRows, RunRows, Requests
  <2> QED
    BY <1>1, <1>2, <2>1 DEF OpInv, RequestsInv, RowsFit
<1>7. RequestsInv'
  BY <1>1, <1>2, <1>6 DEF OpInv, RequestsInv, Requests
<1>8. ReportsInv'
  <2>1. ASSUME NEW q \in runs'
        PROVE  /\ IsFiniteSet({u \in Uploads : <<"listed", u>> \in q.seen})
               /\ {u \in Uploads : <<"rowed", u>> \in q.seen} \subseteq Rowed'
    <3>1. CASE q \in runs
      BY <3>1 DEF OpInv, ReportsInv, RequestsKept
    <3>2. CASE q.seen = {}
      BY <3>2, NothingSeen
    <3>3. CASE SeenFits(q)
      BY <3>3 DEF SeenFits
    <3> QED
      BY <3>1, <3>2, <3>3 DEF RequestsKept
  <2> QED
    BY <1>1, <1>2, <1>3, <2>1 DEF ReportsInv, RequestsKept
<1>9. OrphansHadNoRow'
  BY <1>1 DEF OpInv, OrphansHadNoRow
<1>10. SummaryIsOneExecution'
  <2>1. \A k \in Keys : reconciliations[k] # None =>
          worked'[reconciliations[k].id] = worked[reconciliations[k].id]
    BY <1>2 DEF OpInv, OpTypeOK, RunRows, Requests
  <2> QED
    BY <1>1, <2>1 DEF OpInv, SummaryIsOneExecution
<1> QED
  BY <1>4, <1>5, <1>7, <1>8, <1>9, <1>10 DEF OpInv

-----------------------------------------------------------------------------
(* A row once written keeps its id. *)
LEMMA RowsStay ==
  ASSUME \A k \in Keys : imports[k] # None =>
           imports'[k] # None /\ imports'[k].id = imports[k].id
  PROVE  Rowed \subseteq Rowed'
BY DEF Rowed

(* A transaction changes its own job and those it inserts. *)
LEMMA WorkElsewhere ==
  ASSUME QueueInv, NEW j \in Jobs, NEW n, NEW S \in SUBSET Jobs, Work(j, n, S),
         NEW c \in Jobs, c # j, c \notin S
  PROVE  worked'[c] = worked[c] /\ status'[c] = status[c]
<1>1. /\ worked' = [worked EXCEPT ![j] = @ \cup {n}]
      /\ status' = [k \in Jobs |-> IF k \in S THEN "open" ELSE status[k]]
  BY DEF Work
<1> QED
  BY <1>1 DEF QueueInv, QueueTypeOK

LEMMA UploadLeavesRequests ==
  ASSUME QueueInv, CsvInv, IsFiniteSet(objects), UploadStep
  PROVE  RequestsKept
<1>1. PICK u \in Uploads : \/ Receive(u) \/ Lookup(u) \/ PutObject(u) \/ Persist(u)
                           \/ PersistFails(u) \/ Cleanup(u) \/ CrashUpload(u)
  BY DEF UploadStep
<1>2. u \in Jobs /\ u \notin Requests /\ Requests \subseteq Jobs
  BY OperationsAssumption
<1>3. runs' = runs
  BY <1>1 DEF Receive, Lookup, PutObject, Persist, PersistFails, Cleanup, CrashUpload, runVars
<1>4. \A c \in Requests : worked'[c] = worked[c] /\ status'[c] = status[c]
  <2>1. Enqueue(u) \/ UNCHANGED <<status, worked>>
    BY <1>1 DEF Receive, Lookup, PutObject, Persist, PersistFails, Cleanup, CrashUpload,
                runVars, queueVars
  <2> QED
    BY <1>2, <2>1, EnqueueQueue
<1>5. Rowed \subseteq Rowed'
  <2>1. CASE UNCHANGED imports
    BY <2>1 DEF Rowed
  <2>2. CASE /\ imports[upload[u].key] = None
             /\ imports' = [imports EXCEPT ![upload[u].key] = Uploaded(u)]
    <3>1. \A k \in Keys : imports[k] # None => imports'[k] = imports[k]
      BY <2>2 DEF CsvInv, CsvTypeOK
    <3> QED
      BY <3>1, RowsStay
  <2> QED
    BY <1>1, <2>1, <2>2
       DEF Receive, Lookup, PutObject, Persist, PersistFails, Cleanup, CrashUpload
<1>6. IsFiniteSet(objects')
  <2>1. objects' \subseteq objects \cup {u}
    BY <1>1 DEF Receive, Lookup, PutObject, Persist, PersistFails, Cleanup, CrashUpload, Discard
  <2>2. IsFiniteSet(objects \cup {u})
    BY FS_AddElement
  <2> QED
    BY <2>1, <2>2, FS_Subset
<1> QED
  BY <1>3, <1>4, <1>5, <1>6 DEF RequestsKept, Requests

LEMMA ImportLeavesRequests ==
  ASSUME QueueInv, RunsInv, CsvInv, IsFiniteSet(objects), NEW r \in runs, ImportCsv(r)
  PROVE  RequestsKept
<1>1. PICK k \in Keys : imports[k] # None /\ imports[k].id = r.job /\ Import(r, k)
  BY DEF ImportCsv
<1> DEFINE events == RowsOf(imports[k].id, Lines(imports[k].body, "valid"))
           fresh == {e \in events : status[e] = "absent"}
<1>2. /\ r.job \in Uploads /\ r.job \in Jobs /\ fresh \in SUBSET Jobs /\ {} \in SUBSET Jobs
      /\ \A c \in Requests : c \in Jobs /\ c # r.job /\ c \notin fresh
  <2>1. events \subseteq RowJobs /\ r.job \in Uploads
    BY <1>1, RowsHaveTypes, LinesOfFile
  <2> QED
    BY <2>1, OperationsAssumption
<1>3. \A c \in Requests : worked'[c] = worked[c] /\ status'[c] = status[c]
  <2>1. Work(r.job, r.attempt, {}) \/ Work(r.job, r.attempt, fresh) \/ UNCHANGED queueVars
    BY <1>1 DEF Import
  <2> HIDE DEF fresh
  <2>2. CASE Work(r.job, r.attempt, {})
    <3>1. ASSUME NEW c \in Requests PROVE c \in Jobs /\ c # r.job /\ c \notin {}
      BY <1>2
    <3> QED
      BY <1>2, <2>2, <3>1, WorkElsewhere
  <2>3. CASE Work(r.job, r.attempt, fresh)
    BY <1>2, <2>3, WorkElsewhere
  <2> QED
    BY <2>1, <2>2, <2>3 DEF queueVars
<1>4. \A q \in runs' : q \in runs \/ q.seen = {}
  <2>1. EndRun(r, "returned") \/ EndRun(r, "raised")
    BY <1>1 DEF Import
  <2> QED
    BY <2>1, RunMoves DEF EndRun
<1>5. Rowed \subseteq Rowed'
  <2>1. CASE UNCHANGED csvVars
    BY <2>1 DEF Rowed, csvVars
  <2>2. CASE imports' = [imports EXCEPT ![k] = Counted(imports[k])]
    <3>1. imports[k] \in ImportRows
      BY <1>1, RowsHaveTypes
    <3>2. Counted(imports[k]).id = imports[k].id /\ Counted(imports[k]) # None
      <4>1. imports[k].id \in Uploads /\ imports[k].body \in Bodies
        BY <3>1 DEF ImportRows
      <4>2. /\ Cardinality(Lines(imports[k].body, "valid")) \in Nat
            /\ Cardinality(Lines(imports[k].body, "long")) \in Nat
        BY <4>1, LinesOfFile
      <4>3. Counted(imports[k]) =
              [id |-> imports[k].id, body |-> imports[k].body, state |-> "completed",
               accepted |-> Cardinality(Lines(imports[k].body, "valid")),
               rejected |-> Cardinality(Lines(imports[k].body, "long"))]
        BY <3>1, CountedRow
      <4>4. Counted(imports[k]) \in ImportRows
        BY <4>1, <4>2, <4>3 DEF ImportRows
      <4> QED
        BY <4>3, <4>4, CsvAssumption
    <3>3. \A l \in Keys : imports'[l] = IF l = k THEN Counted(imports[k]) ELSE imports[l]
      BY <2>2 DEF CsvInv, CsvTypeOK
    <3> QED
      BY <3>2, <3>3, RowsStay
  <2> QED
    BY <1>1, <2>1, <2>2 DEF Import
<1>6. objects' = objects
  BY <1>1 DEF Import, csvVars
<1> QED
  BY <1>3, <1>4, <1>5, <1>6 DEF RequestsKept, Requests

LEMMA FailureLeavesRequests ==
  ASSUME RunsInv, IsFiniteSet(objects), NEW r \in runs, HandlerFails(r)
  PROVE  RequestsKept
<1>1. /\ UNCHANGED <<status, worked, imports, objects>>
      /\ EndRun(r, "raised")
  BY DEF HandlerFails, queueVars, csvVars
<1>2. \A q \in runs' : q \in runs \/ q.seen = {}
  BY <1>1, RunMoves DEF EndRun
<1> QED
  BY <1>1, <1>2 DEF RequestsKept, Rowed

LEMMA RunStepLeavesRequests ==
  ASSUME QueueInv, RunsInv, IsFiniteSet(objects), NEW S \in SUBSET Jobs, RunStep(S),
         UNCHANGED csvVars
  PROVE  RequestsKept
<1>1. QueueKept
  BY RunStepQueue
<1>2. \A q \in runs' : q \in runs \/ q.seen = {}
  <2>1. ASSUME NEW j \in S, StartRun(j) PROVE \A q \in runs' : q \in runs \/ q.seen = {}
    BY <2>1 DEF StartRun
  <2>2. ASSUME NEW r \in runs, Report(r) \/ LoseRun(r) PROVE runs' \subseteq runs
    BY <2>2 DEF Report, LoseRun
  <2> QED
    BY <2>1, <2>2 DEF RunStep
<1>3. UNCHANGED <<imports, objects>>
  BY DEF csvVars
<1> QED
  BY <1>1, <1>2, <1>3, OperationsAssumption DEF RequestsKept, QueueKept, Rowed

-----------------------------------------------------------------------------
AskType == [step: {"idle", "lookup", "persist"} \cup Answers, key: Keys \cup {None},
            asked: Asked \cup {None}, id: Requests \cup {None}]

LEMMA AskFields ==
  ASSUME NEW d \in AskType, NEW step, NEW id
  PROVE  /\ [d EXCEPT !.step = step]
              = [step |-> step, key |-> d.key, asked |-> d.asked, id |-> d.id]
         /\ [d EXCEPT !.step = step, !.id = id]
              = [step |-> step, key |-> d.key, asked |-> d.asked, id |-> id]
<1> DEFINE moved == [d EXCEPT !.step = step]
<1>1. moved = [step |-> step, key |-> d.key, asked |-> d.asked, id |-> d.id]
  BY DEF AskType
<1> HIDE DEF moved
<1>2. [moved EXCEPT !.id = id] = [step |-> step, key |-> d.key, asked |-> d.asked, id |-> id]
  BY <1>1
<1> QED
  BY <1>1, <1>2 DEF moved

LEMMA AskChanges ==
  ASSUME OpTypeOK, NEW c \in Requests
  PROVE  /\ \A step, id : AnswerAsk(c, step, id) =>
              ask' = [ask EXCEPT ![c] = [step |-> step, key |-> ask[c].key,
                                         asked |-> ask[c].asked, id |-> id]]
         /\ ask' = [ask EXCEPT ![c].step = "persist"] =>
              ask' = [ask EXCEPT ![c] = [step |-> "persist", key |-> ask[c].key,
                                         asked |-> ask[c].asked, id |-> ask[c].id]]
         /\ \A step \in {"idle", "lookup", "persist"} \cup Answers, id \in Requests \cup {None} :
              [step |-> step, key |-> ask[c].key, asked |-> ask[c].asked, id |-> id] \in AskType
<1>1. ask \in [Requests -> AskType]
  BY DEF OpTypeOK, AskType
<1>2. ask[c] \in AskType
  BY <1>1
<1>3. ASSUME NEW step, NEW id, AnswerAsk(c, step, id)
      PROVE  ask' = [ask EXCEPT ![c] = [step |-> step, key |-> ask[c].key,
                                        asked |-> ask[c].asked, id |-> id]]
  <2>1. ask' = [ask EXCEPT ![c] = [ask[c] EXCEPT !.step = step, !.id = id]]
    BY <1>3 DEF AnswerAsk
  <2>2. [ask[c] EXCEPT !.step = step, !.id = id]
          = [step |-> step, key |-> ask[c].key, asked |-> ask[c].asked, id |-> id]
    BY <1>2, AskFields, Zenon
  <2> QED
    BY <2>1, <2>2
<1>4. ASSUME ask' = [ask EXCEPT ![c].step = "persist"]
      PROVE  ask' = [ask EXCEPT ![c] = [step |-> "persist", key |-> ask[c].key,
                                        asked |-> ask[c].asked, id |-> ask[c].id]]
  <2>1. ask' = [ask EXCEPT ![c] = [ask[c] EXCEPT !.step = "persist"]]
    BY <1>4
  <2>2. [ask[c] EXCEPT !.step = "persist"]
          = [step |-> "persist", key |-> ask[c].key, asked |-> ask[c].asked, id |-> ask[c].id]
    BY <1>2, AskFields, Zenon
  <2> QED
    BY <2>1, <2>2
<1>5. \A step \in {"idle", "lookup", "persist"} \cup Answers, id \in Requests \cup {None} :
        [step |-> step, key |-> ask[c].key, asked |-> ask[c].asked, id |-> id] \in AskType
  BY <1>2 DEF AskType
<1> QED
  BY <1>3, <1>4, <1>5

(* A call that has not come to its commit has no row. *)
LEMMA NoRequestRowYet ==
  ASSUME OpInv, NEW c \in Requests, ask[c].step \in {"idle", "lookup", "persist"}
  PROVE  \A k \in Keys : /\ replays[k] # None => replays[k].id # c
                         /\ reconciliations[k] # None => reconciliations[k].id # c
BY DEF OpInv, RequestsInv, RowsFit

LEMMA RequestRows ==
  ASSUME OpInv, NEW k \in Keys
  PROVE  /\ replays[k] # None =>
              replays[k] \in ReplayRows /\ replays[k].id \in ReplayCalls /\ replays[k].id # None
         /\ reconciliations[k] # None =>
              /\ reconciliations[k] \in RunRows /\ reconciliations[k].id \in ReconcileCalls
              /\ reconciliations[k].id # None
BY OperationsAssumption DEF OpInv, OpTypeOK, ReplayRows, RunRows, Requests

(* The steps of a request that write no row. *)
LEMMA AskMoves ==
  ASSUME QueueInv, OpInv, NEW c \in Requests, NEW d \in AskType,
         ask[c].step \in {"idle", "lookup", "persist"},
         ask' = [ask EXCEPT ![c] = d],
         d.step # "idle", d.key \in Keys,
         d.asked \in IF c \in ReplayCalls THEN Jobs ELSE Kinds,
         d.id # None =>
           LET row == IF c \in ReplayCalls THEN replays[d.key] ELSE reconciliations[d.key]
           IN  row # None /\ row.id = d.id /\ row.asked = d.asked,
         UNCHANGED <<queueVars, runs, csvVars, replays, content, reconciliations, anomalies,
                     evidence>>
  PROVE  OpInv'
<1>1. UNCHANGED <<status, tries, worked, imports, objects>>
  BY DEF queueVars, csvVars
<1>2. ask \in [Requests -> AskType] /\ ask' \in [Requests -> AskType]
  BY DEF OpInv, OpTypeOK, AskType
<1>3. \A e \in Requests : ask'[e] = IF e = c THEN d ELSE ask[e]
  BY <1>2
<1>4. OpTypeOK'
  BY <1>1, <1>2 DEF OpInv, OpTypeOK, AskType
<1>5. RequestsAgree'
  BY <1>3 DEF OpInv, RequestsAgree
<1>6. RowsFit(replays)' /\ RowsFit(reconciliations)'
  <2>1. \A k \in Keys : /\ replays[k] # None => /\ replays[k].id \in Requests
                                                /\ replays[k].id # c
                        /\ reconciliations[k] # None => /\ reconciliations[k].id \in Requests
                                                        /\ reconciliations[k].id # c
    BY NoRequestRowYet, RequestRows DEF Requests
  <2> QED
    BY <1>1, <1>3, <2>1 DEF OpInv, RequestsInv, RowsFit
<1>7. RequestsInv'
  BY <1>1, <1>3, <1>6 DEF OpInv, RequestsInv
<1>8. ReportsInv'
  BY <1>1 DEF OpInv, ReportsInv, Rowed
<1>9. OrphansHadNoRow' /\ SummaryIsOneExecution'
  BY <1>1 DEF OpInv, OrphansHadNoRow, SummaryIsOneExecution
<1> QED
  BY <1>4, <1>5, <1>7, <1>8, <1>9 DEF OpInv

LEMMA QuietSteps ==
  ASSUME QueueInv, RunsInv, CsvInv, UNCHANGED <<queueVars, runs, csvVars>>,
         faults' = faults \/ Fault
  PROVE  QueueInv' /\ RunsInv' /\ CsvInv'
<1>1. QueueInv' /\ RunsInv' /\ faults' \in Nat /\ faults' >= faults
  BY QuietQueue
<1> QED
  BY <1>1, Bystander DEF queueVars

LEMMA QuietRequests ==
  ASSUME QueueInv, RunsInv, CsvInv, OpInv, NEW c \in Requests,
         \/ Ask(c)
         \/ c \in ReplayCalls /\ LookupReplay(c)
         \/ c \in ReconcileCalls /\ LookupReconciliation(c)
         \/ /\ ask[c].step = "persist" /\ AnswerAsk(c, "error", None)
            /\ (faults' = faults \/ Fault)
            /\ UNCHANGED <<queueVars, runs, csvVars, replays, content, reconciliations,
                           anomalies, evidence>>
  PROVE  QueueInv' /\ RunsInv' /\ CsvInv' /\ OpInv'
<1> DEFINE d(step, id) == [step |-> step, key |-> ask[c].key, asked |-> ask[c].asked,
                           id |-> id]
<1>1. UNCHANGED <<queueVars, runs, csvVars, replays, content, reconciliations, anomalies,
                  evidence>>
  BY DEF Ask, LookupReplay, LookupReconciliation, runVars, queueVars
<1>2. faults' = faults \/ Fault
  BY DEF Ask, LookupReplay, LookupReconciliation, runVars
<1>3. QueueInv' /\ RunsInv' /\ CsvInv'
  BY <1>1, <1>2, QuietSteps
<1>4. OpTypeOK /\ RequestsInv /\ RequestsAgree /\ ask[c] \in AskType
  BY DEF OpInv, OpTypeOK, AskType
<1>5. ask[c].step # "idle" => /\ ask[c].key \in Keys
                              /\ ask[c].asked \in IF c \in ReplayCalls THEN Jobs ELSE Kinds
  BY <1>4 DEF RequestsInv
<1>6. ASSUME NEW step \in {"lookup", "persist"} \cup Answers, NEW id \in Requests \cup {None},
             ask[c].step \in {"lookup", "persist"},
             \/ AnswerAsk(c, step, id)
             \/ step = "persist" /\ ask' = [ask EXCEPT ![c].step = "persist"] /\ id = ask[c].id,
             id # None =>
               LET row == IF c \in ReplayCalls THEN replays[ask[c].key]
                                               ELSE reconciliations[ask[c].key]
               IN  row # None /\ row.id = id /\ row.asked = ask[c].asked
      PROVE  OpInv'
  <2>1. d(step, id) \in AskType
    BY <1>4, AskChanges, Zenon
  <2>2. ask' = [ask EXCEPT ![c] = d(step, id)]
    <3>1. CASE AnswerAsk(c, step, id)
      BY <1>4, <3>1, AskChanges, Zenon
    <3>2. CASE step = "persist" /\ ask' = [ask EXCEPT ![c].step = "persist"] /\ id = ask[c].id
      <4>1. ask' = [ask EXCEPT ![c] = d("persist", ask[c].id)]
        BY <1>4, <3>2, AskChanges, Zenon
      <4> QED
        BY <3>2, <4>1, Zenon
    <3> QED
      BY <1>6, <3>1, <3>2
  <2>3. /\ d(step, id).key = ask[c].key /\ d(step, id).asked = ask[c].asked
        /\ d(step, id).id = id /\ d(step, id).step # "idle"
    BY <1>6 DEF Answers
  <2> HIDE DEF d
  <2> QED
    BY <1>1, <1>5, <1>6, <2>1, <2>2, <2>3, AskMoves, ZenonT(60)
<1>7. CASE Ask(c)
  <2>1. /\ ask[c].step = "idle"
        /\ \E k \in Keys, a \in IF c \in ReplayCalls THEN Jobs ELSE Kinds :
             ask' = [ask EXCEPT ![c] = [step |-> "lookup", key |-> k, asked |-> a,
                                        id |-> None]]
    BY <1>7 DEF Ask
  <2>2. PICK k \in Keys, a \in IF c \in ReplayCalls THEN Jobs ELSE Kinds :
          ask' = [ask EXCEPT ![c] = [step |-> "lookup", key |-> k, asked |-> a, id |-> None]]
    BY <2>1
  <2> DEFINE e == [step |-> "lookup", key |-> k, asked |-> a, id |-> None]
  <2>3. e \in AskType
    BY DEF AskType, Asked
  <2>4. e.key = k /\ e.asked = a /\ e.id = None /\ e.step # "idle"
    OBVIOUS
  <2>5. ask' = [ask EXCEPT ![c] = e]
    BY <2>2
  <2> HIDE DEF e
  <2>6. OpInv'
    BY <1>1, <2>1, <2>3, <2>4, <2>5, AskMoves
  <2> QED
    BY <1>3, <2>6
<1>8. ASSUME NEW table, table = IF c \in ReplayCalls THEN replays ELSE reconciliations,
             ask[c].step = "lookup", LookupIn(table, c)
      PROVE  OpInv'
  <2> DEFINE old == table[ask[c].key]
  <2>1. CASE old = None /\ ask' = [ask EXCEPT ![c].step = "persist"]
    <3>1. ask[c].id = None /\ ask[c].id \in Requests \cup {None}
      BY <1>4, <1>8, <2>1 DEF RequestsAgree
    <3> QED
      BY <1>6, <1>8, <2>1, <3>1
  <2>2. CASE old # None /\ old.asked = ask[c].asked /\ AnswerAsk(c, "duplicate", old.id)
    <3>1. old.id \in Requests
      BY <1>5, <1>8, <2>2, RequestRows DEF Requests
    <3> QED
      BY <1>6, <1>8, <2>2, <3>1 DEF Answers
  <2>3. CASE AnswerAsk(c, "conflict", None)
    BY <1>6, <1>8, <2>3 DEF Answers
  <2> QED
    BY <1>8, <2>1, <2>2, <2>3 DEF LookupIn
<1>9. CASE c \in ReplayCalls /\ LookupReplay(c)
  BY <1>3, <1>8, <1>9 DEF LookupReplay
<1>10. CASE c \in ReconcileCalls /\ LookupReconciliation(c)
  BY <1>3, <1>8, <1>10, OperationsAssumption DEF LookupReconciliation
<1>11. CASE ask[c].step = "persist" /\ AnswerAsk(c, "error", None)
  BY <1>3, <1>6, <1>11 DEF Answers
<1> QED
  BY <1>7, <1>9, <1>10, <1>11

-----------------------------------------------------------------------------
ContentType == [fields: SUBSET Fields, sealed: SUBSET Fields]

LEMMA ContentTyped ==
  ASSUME OpInv, NEW e
  PROVE  Content(e) \in ContentType
<1>1. CASE e \in ReplayCalls
  <2>1. e \notin RowJobs
    BY <1>1, OperationsAssumption DEF Requests
  <2>2. Content(e) = content[e]
    BY <1>1, <2>1 DEF Content
  <2> QED
    BY <1>1, <2>2 DEF OpInv, OpTypeOK, ContentType
<1>2. CASE e \notin ReplayCalls /\ e \in RowJobs
  <2>1. Content(e) = [fields |-> {"envelope"}, sealed |-> {"envelope"}]
    BY <1>2 DEF Content
  <2> QED
    BY <2>1 DEF ContentType, Fields
<1>3. CASE e \notin ReplayCalls /\ e \notin RowJobs
  <2>1. Content(e) = [fields |-> {"control"}, sealed |-> {}]
    BY <1>3 DEF Content
  <2> QED
    BY <2>1 DEF ContentType, Fields
<1> QED
  BY <1>1, <1>2, <1>3

(* A replay's payload is that of its source with one more field. *)
LEMMA ReplayedTyped ==
  ASSUME OpInv, NEW e
  PROVE  Replayed(e) \in ContentType
<1> DEFINE x == Content(e)
<1>1. x \in ContentType
  BY ContentTyped
<1>2. Replayed(e) = [x EXCEPT !.fields = x.fields \cup {"replay_source_event_id"}]
  BY DEF Replayed
<1> HIDE DEF x
<1>3. Replayed(e) = [fields |-> x.fields \cup {"replay_source_event_id"}, sealed |-> x.sealed]
  BY <1>1, <1>2 DEF ContentType
<1> QED
  BY <1>1, <1>3 DEF ContentType, Fields

(* What a request's commit does to queue and imports. *)
LEMMA CommitQueue ==
  ASSUME QueueInv, RunsInv, CsvInv, NEW c \in Requests, Enqueue(c),
         UNCHANGED <<runs, csvVars>>, faults' = faults \/ Fault
  PROVE  /\ QueueInv' /\ RunsInv' /\ CsvInv'
         /\ UNCHANGED <<tries, worked>> /\ worked[c] = {}
         /\ \A e \in Requests : status'[e] = IF e = c THEN "open" ELSE status[e]
<1>1. c \in Jobs /\ c \notin Uploads \cup RowJobs /\ Requests \cup Uploads \cup RowJobs \subseteq Jobs
  BY OperationsAssumption
<1>2. /\ QueueInv' /\ UNCHANGED <<tries, worked>> /\ worked[c] = {}
      /\ \A k \in Jobs : status'[k] = IF k = c THEN "open" ELSE status[k]
  BY <1>1, EnqueueQueue
<1>3. faults' \in Nat /\ faults' >= faults
  BY FaultGrows DEF RunsInv
<1>4. RunsInv'
  BY <1>2, <1>3 DEF RunsInv
<1>5. CsvInv'
  BY <1>1, <1>2, <1>3, Bystander
<1> QED
  BY <1>1, <1>2, <1>4, <1>5

(* The record of a call that commits, acknowledged or not. *)
LEMMA CommitAnswer ==
  ASSUME OpInv, RunsInv, NEW c \in Requests,
         \/ AnswerAsk(c, "created", c) /\ UNCHANGED faults
         \/ Fault /\ AnswerAsk(c, "error", None)
  PROVE  \E d \in AskType :
           /\ ask' = [ask EXCEPT ![c] = d]
           /\ d.key = ask[c].key /\ d.asked = ask[c].asked
           /\ d.step \in {"created", "error"} /\ d.id \in {c, None}
<1>1. OpTypeOK
  BY DEF OpInv
<1> DEFINE d(step, id) == [step |-> step, key |-> ask[c].key, asked |-> ask[c].asked,
                           id |-> id]
<1>2. ASSUME NEW step \in {"created", "error"}, NEW id \in {c, None}, AnswerAsk(c, step, id)
      PROVE  \E e \in AskType :
               /\ ask' = [ask EXCEPT ![c] = e]
               /\ e.key = ask[c].key /\ e.asked = ask[c].asked
               /\ e.step \in {"created", "error"} /\ e.id \in {c, None}
  <2>1. step \in {"idle", "lookup", "persist"} \cup Answers /\ id \in Requests \cup {None}
    BY DEF Answers
  <2>2. d(step, id) \in AskType
    BY <1>1, <2>1, AskChanges, Zenon
  <2>3. ask' = [ask EXCEPT ![c] = d(step, id)]
    BY <1>1, <1>2, AskChanges, Zenon
  <2>4. /\ d(step, id).key = ask[c].key /\ d(step, id).asked = ask[c].asked
        /\ d(step, id).step = step /\ d(step, id).id = id
    OBVIOUS
  <2> HIDE DEF d
  <2> QED
    BY <2>2, <2>3, <2>4
<1> QED
  BY <1>2

(* A replay commits: its row is the key's, and its job is there. *)
LEMMA ReplayCommits ==
  ASSUME QueueInv, RunsInv, CsvInv, OpInv, NEW c \in ReplayCalls, ask[c].step = "persist",
         CommitAsk(replays, c),
         replays' = [replays EXCEPT ![ask[c].key] = [id |-> c, asked |-> ask[c].asked]],
         content' = [content EXCEPT ![c] = Replayed(ask[c].asked)],
         UNCHANGED <<runs, csvVars, reconciliations, anomalies, evidence>>
  PROVE  QueueInv' /\ RunsInv' /\ CsvInv' /\ OpInv'
<1> DEFINE key == ask[c].key
           row == [id |-> c, asked |-> ask[c].asked]
<1>1. /\ replays[key] = None /\ Enqueue(c) /\ (faults' = faults \/ Fault)
      /\ \/ AnswerAsk(c, "created", c) /\ UNCHANGED faults
         \/ Fault /\ AnswerAsk(c, "error", None)
  BY DEF CommitAsk
<1>2. c \in Requests /\ c \notin ReconcileCalls /\ c # None
  BY OperationsAssumption DEF Requests
<1>3. /\ QueueInv' /\ RunsInv' /\ CsvInv'
      /\ UNCHANGED <<tries, worked>> /\ worked[c] = {}
      /\ \A e \in Requests : status'[e] = IF e = c THEN "open" ELSE status[e]
  BY <1>1, <1>2, CommitQueue
<1>4. PICK d \in AskType :
        /\ ask' = [ask EXCEPT ![c] = d]
        /\ d.key = key /\ d.asked = ask[c].asked
        /\ d.step \in {"created", "error"} /\ d.id \in {c, None}
  BY <1>1, <1>2, CommitAnswer
<1>5. /\ OpTypeOK /\ RequestsAgree /\ RequestsInv /\ ReportsInv
      /\ RowsFit(replays) /\ RowsFit(reconciliations)
      /\ key \in Keys /\ ask[c].asked \in Jobs
  BY <1>2 DEF OpInv, RequestsInv
<1>6. ask \in [Requests -> AskType] /\ ask' \in [Requests -> AskType]
  BY <1>4, <1>5 DEF OpTypeOK, AskType
<1>7. \A e \in Requests : ask'[e] = IF e = c THEN d ELSE ask[e]
  BY <1>4, <1>6
<1>8. row \in ReplayRows /\ row # None /\ row.id = c /\ row.asked = ask[c].asked
  BY <1>5, OperationsAssumption DEF ReplayRows
<1>9. /\ replays' \in [Keys -> {None} \cup ReplayRows]
      /\ \A k \in Keys : replays'[k] = IF k = key THEN row ELSE replays[k]
  BY <1>5, <1>8 DEF OpTypeOK
<1>10. /\ content' \in [ReplayCalls -> ContentType]
       /\ \A e \in ReplayCalls : content'[e] = IF e = c THEN Replayed(ask[c].asked)
                                                        ELSE content[e]
  BY <1>5, ReplayedTyped DEF OpTypeOK, ContentType, OpInv
<1>11. UNCHANGED <<imports, objects>>
  BY DEF csvVars
<1>12. \A k \in Keys : /\ replays[k] # None => replays[k].id # c /\ replays[k].id \in Requests
                       /\ reconciliations[k] # None => /\ reconciliations[k].id # c
                                                       /\ reconciliations[k].id \in Requests
  BY <1>2, NoRequestRowYet, RequestRows DEF Requests
<1> HIDE DEF row, key
<1>13. OpTypeOK'
  BY <1>3, <1>5, <1>6, <1>9, <1>10 DEF OpTypeOK, AskType, ContentType
<1>14. RequestsAgree'
  <2> SUFFICES ASSUME NEW e \in Requests, ask'[e].id # None
               PROVE  LET x == IF e \in ReplayCalls THEN replays'[ask'[e].key]
                                                    ELSE reconciliations'[ask'[e].key]
                      IN  x # None /\ x.id = ask'[e].id /\ x.asked = ask'[e].asked
    BY DEF RequestsAgree
  <2>1. CASE e = c
    BY <1>4, <1>5, <1>7, <1>8, <1>9, <2>1
  <2>2. CASE e # c /\ e \in ReplayCalls
    <3>1. /\ ask'[e] = ask[e] /\ replays[ask[e].key] # None
          /\ replays[ask[e].key].id = ask[e].id /\ replays[ask[e].key].asked = ask[e].asked
      BY <1>5, <1>7, <2>2 DEF RequestsAgree
    <3>2. replays'[ask[e].key] = replays[ask[e].key]
      BY <1>1, <1>5, <3>1 DEF key, OpTypeOK
    <3> QED
      BY <2>2, <3>1, <3>2
  <2>3. CASE e # c /\ e \notin ReplayCalls
    BY <1>5, <1>7, <2>3 DEF RequestsAgree
  <2> QED
    BY <2>1, <2>2, <2>3
<1>15. RowsFit(replays)' /\ RowsFit(reconciliations)'
  <2>1. RowsFit(reconciliations)'
    BY <1>3, <1>5, <1>7, <1>12 DEF RowsFit
  <2>2. ASSUME NEW k \in Keys, replays'[k] # None
        PROVE  /\ ask'[replays'[k].id].key = k /\ ask'[replays'[k].id].asked = replays'[k].asked
               /\ ask'[replays'[k].id].step \in {"created", "error"}
               /\ status'[replays'[k].id] # "absent"
    <3>1. CASE k = key
      BY <1>2, <1>3, <1>4, <1>7, <1>8, <1>9, <3>1
    <3>2. CASE k # key
      <4>1. replays'[k] = replays[k] /\ replays[k] # None
        BY <1>9, <2>2, <3>2
      <4>2. /\ ask'[replays[k].id] = ask[replays[k].id]
            /\ status'[replays[k].id] = status[replays[k].id]
        BY <1>3, <1>7, <1>12, <4>1
      <4> QED
        BY <1>5, <4>1, <4>2 DEF RowsFit
    <3> QED
      BY <3>1, <3>2
  <2> QED
    BY <2>1, <2>2 DEF RowsFit
<1>16. RequestsInv'
  <2>1. \A e \in Requests : IF ask'[e].step = "idle" THEN ask'[e].id = None ELSE
          /\ ask'[e].key \in Keys
          /\ ask'[e].asked \in IF e \in ReplayCalls THEN Jobs ELSE Kinds
    BY <1>4, <1>5, <1>7 DEF RequestsInv
  <2> QED
    BY <1>15, <2>1 DEF RequestsInv
<1>17. ReportsInv'
  BY <1>3, <1>5, <1>11 DEF ReportsInv, Rowed
<1>18. OrphansHadNoRow' /\ SummaryIsOneExecution'
  BY <1>3 DEF OpInv, OrphansHadNoRow, SummaryIsOneExecution
<1> QED
  BY <1>3, <1>13, <1>14, <1>16, <1>17, <1>18 DEF OpInv

(* A reconciliation commits: its run is not completed and its job has not   *)
(* taken effect.                                                            *)
LEMMA ReconciliationCommits ==
  ASSUME QueueInv, RunsInv, CsvInv, OpInv, NEW c \in ReconcileCalls, ask[c].step = "persist",
         CommitAsk(reconciliations, c),
         reconciliations' = [reconciliations EXCEPT ![ask[c].key] =
           [id |-> c, asked |-> ask[c].asked, state |-> "running", summary |-> NoSummary]],
         UNCHANGED <<runs, csvVars, replays, content, anomalies, evidence>>
  PROVE  QueueInv' /\ RunsInv' /\ CsvInv' /\ OpInv'
<1> DEFINE key == ask[c].key
           row == [id |-> c, asked |-> ask[c].asked, state |-> "running",
                   summary |-> NoSummary]
<1>1. /\ reconciliations[key] = None /\ Enqueue(c) /\ (faults' = faults \/ Fault)
      /\ \/ AnswerAsk(c, "created", c) /\ UNCHANGED faults
         \/ Fault /\ AnswerAsk(c, "error", None)
  BY DEF CommitAsk
<1>2. c \in Requests /\ c \notin ReplayCalls /\ c # None
  BY OperationsAssumption DEF Requests
<1>3. /\ QueueInv' /\ RunsInv' /\ CsvInv'
      /\ UNCHANGED <<tries, worked>> /\ worked[c] = {}
      /\ \A e \in Requests : status'[e] = IF e = c THEN "open" ELSE status[e]
  BY <1>1, <1>2, CommitQueue
<1>4. PICK d \in AskType :
        /\ ask' = [ask EXCEPT ![c] = d]
        /\ d.key = key /\ d.asked = ask[c].asked
        /\ d.step \in {"created", "error"} /\ d.id \in {c, None}
  BY <1>1, <1>2, CommitAnswer
<1>5. /\ OpTypeOK /\ RequestsAgree /\ RequestsInv /\ ReportsInv /\ SummaryIsOneExecution
      /\ RowsFit(replays) /\ RowsFit(reconciliations)
      /\ key \in Keys /\ ask[c].asked \in Kinds
  BY <1>2 DEF OpInv, RequestsInv
<1>6. ask \in [Requests -> AskType] /\ ask' \in [Requests -> AskType]
  BY <1>4, <1>5 DEF OpTypeOK, AskType
<1>7. \A e \in Requests : ask'[e] = IF e = c THEN d ELSE ask[e]
  BY <1>4, <1>6
<1>8. /\ row \in RunRows /\ row # None /\ row.id = c /\ row.asked = ask[c].asked
      /\ row.state = "running"
  <2>1. NoSummary \in [Codes -> Nat]
    BY DEF NoSummary
  <2> QED
    BY <1>5, <2>1, OperationsAssumption DEF RunRows
<1>9. /\ reconciliations' \in [Keys -> {None} \cup RunRows]
      /\ \A k \in Keys : reconciliations'[k] = IF k = key THEN row ELSE reconciliations[k]
  BY <1>5, <1>8 DEF OpTypeOK
<1>10. UNCHANGED <<imports, objects>>
  BY DEF csvVars
<1>11. \A k \in Keys : /\ replays[k] # None => replays[k].id # c /\ replays[k].id \in Requests
                       /\ reconciliations[k] # None => /\ reconciliations[k].id # c
                                                       /\ reconciliations[k].id \in Requests
  BY <1>2, NoRequestRowYet, RequestRows DEF Requests
<1> HIDE DEF row, key
<1>12. OpTypeOK'
  BY <1>3, <1>5, <1>6, <1>9 DEF OpTypeOK, AskType
<1>13. RequestsAgree'
  <2> SUFFICES ASSUME NEW e \in Requests, ask'[e].id # None
               PROVE  LET x == IF e \in ReplayCalls THEN replays'[ask'[e].key]
                                                    ELSE reconciliations'[ask'[e].key]
                      IN  x # None /\ x.id = ask'[e].id /\ x.asked = ask'[e].asked
    BY DEF RequestsAgree
  <2>1. CASE e = c
    BY <1>2, <1>4, <1>5, <1>7, <1>8, <1>9, <2>1
  <2>2. CASE e # c /\ e \notin ReplayCalls
    <3>1. /\ ask'[e] = ask[e] /\ reconciliations[ask[e].key] # None
          /\ reconciliations[ask[e].key].id = ask[e].id
          /\ reconciliations[ask[e].key].asked = ask[e].asked
      BY <1>5, <1>7, <2>2 DEF RequestsAgree
    <3>2. reconciliations'[ask[e].key] = reconciliations[ask[e].key]
      BY <1>1, <1>5, <3>1 DEF key, OpTypeOK
    <3> QED
      BY <2>2, <3>1, <3>2
  <2>3. CASE e # c /\ e \in ReplayCalls
    BY <1>5, <1>7, <2>3 DEF RequestsAgree
  <2> QED
    BY <2>1, <2>2, <2>3
<1>14. RowsFit(replays)' /\ RowsFit(reconciliations)'
  <2>1. RowsFit(replays)'
    BY <1>3, <1>5, <1>7, <1>11 DEF RowsFit
  <2>2. ASSUME NEW k \in Keys, reconciliations'[k] # None
        PROVE  /\ ask'[reconciliations'[k].id].key = k
               /\ ask'[reconciliations'[k].id].asked = reconciliations'[k].asked
               /\ ask'[reconciliations'[k].id].step \in {"created", "error"}
               /\ status'[reconciliations'[k].id] # "absent"
    <3>1. CASE k = key
      BY <1>2, <1>3, <1>4, <1>7, <1>8, <1>9, <3>1
    <3>2. CASE k # key
      <4>1. reconciliations'[k] = reconciliations[k] /\ reconciliations[k] # None
        BY <1>9, <2>2, <3>2
      <4>2. /\ ask'[reconciliations[k].id] = ask[reconciliations[k].id]
            /\ status'[reconciliations[k].id] = status[reconciliations[k].id]
        BY <1>3, <1>7, <1>11, <4>1
      <4> QED
        BY <1>5, <4>1, <4>2 DEF RowsFit
    <3> QED
      BY <3>1, <3>2
  <2> QED
    BY <2>1, <2>2 DEF RowsFit
<1>15. RequestsInv'
  <2>1. \A e \in Requests : IF ask'[e].step = "idle" THEN ask'[e].id = None ELSE
          /\ ask'[e].key \in Keys
          /\ ask'[e].asked \in IF e \in ReplayCalls THEN Jobs ELSE Kinds
    BY <1>2, <1>4, <1>5, <1>7 DEF RequestsInv
  <2> QED
    BY <1>14, <2>1 DEF RequestsInv
<1>16. ReportsInv'
  BY <1>3, <1>5, <1>10 DEF ReportsInv, Rowed
<1>17. OrphansHadNoRow'
  BY <1>3 DEF OpInv, OrphansHadNoRow
<1>18. SummaryIsOneExecution'
  <2> SUFFICES ASSUME NEW k \in Keys, reconciliations'[k] # None
      PROVE  LET run == reconciliations'[k]
             IN  /\ run.state = "completed" <=> worked'[run.id] # {}
                 /\ run.state = "completed" =>
                      \E n \in worked'[run.id] : \A code \in Codes :
                        run.summary[code] = Cardinality({a \in anomalies :
                          a.run = run.id /\ a.by = n /\ a.code = code})
    BY DEF SummaryIsOneExecution
  <2>1. CASE k = key
    BY <1>3, <1>8, <1>9, <2>1
  <2>2. CASE k # key
    <3>1. reconciliations'[k] = reconciliations[k] /\ reconciliations[k] # None
      BY <1>9, <2>2
    <3> QED
      BY <1>3, <1>5, <3>1 DEF SummaryIsOneExecution
  <2> QED
    BY <2>1, <2>2
<1> QED
  BY <1>3, <1>12, <1>13, <1>15, <1>16, <1>17, <1>18 DEF OpInv

-----------------------------------------------------------------------------
(* A step of a handler that is not an import's, and that commits nothing.   *)
LEMMA QuietHandler ==
  ASSUME QueueInv, RunsInv, CsvInv, OpInv, NEW r \in runs, NEW step, NEW seen,
         AtStep(r, step, seen), step # "returned",
         UNCHANGED <<queueVars, csvVars, opVars>>, faults' = faults \/ Fault,
         \A q : q.seen = seen => SeenFits(q)
  PROVE  QueueInv' /\ RunsInv' /\ CsvInv' /\ OpInv'
<1>1. faults' \in Nat /\ faults' >= faults
  BY FaultGrows DEF RunsInv
<1>2. QueueInv' /\ RunsInv'
  BY <1>1, QuietRun
<1>3. UNCHANGED <<status, worked, imports, objects>>
  BY DEF queueVars, csvVars
<1>4. CsvInv'
  BY <1>1, <1>2, <1>3, Bystander
<1>5. \A q \in runs' : q \in runs \/ SeenFits(q)
  BY RunMoves
<1>6. RequestsKept
  BY <1>3, <1>5 DEF RequestsKept, OpInv, ReportsInv, Rowed
<1> QED
  BY <1>2, <1>4, <1>6, OtherSteps

LEMMA CanonicalKeeps ==
  ASSUME QueueInv, RunsInv, CsvInv, OpInv, NEW r \in runs, CheckCanonical(r)
  PROVE  QueueInv' /\ RunsInv' /\ CsvInv' /\ OpInv'
<1>1. UNCHANGED <<faults, csvVars, opVars>> /\ r.job \in RowJobs \cup ReplayCalls
  BY DEF CheckCanonical
<1>2. faults' \in Nat /\ faults' >= faults
  BY <1>1 DEF RunsInv
<1>3. CASE DigestHolds(r.job) /\ Work(r.job, r.attempt, {}) /\ EndRun(r, "returned")
  <2>1. r.job \in Jobs
    BY DEF RunsInv
  <2>2. {} \in SUBSET Jobs
    OBVIOUS
  <2>3. QueueInv' /\ RunsInv'
    BY <1>2, <1>3, <2>2, WorkRun
  <2>4. ASSUME NEW j \in Jobs, j # r.job PROVE worked'[j] = worked[j] /\ status'[j] = status[j]
    <3>1. j \notin {}
      OBVIOUS
    <3> QED
      BY <1>3, <2>1, <2>2, <2>4, <3>1, WorkElsewhere
  <2>5. status' = status
    BY <1>3 DEF Work, QueueInv, QueueTypeOK
  <2>6. /\ \A u \in Uploads : u \in Jobs /\ u # r.job
        /\ \A c \in ReconcileCalls : c \in Jobs /\ c # r.job
    BY <1>1, CsvAssumption, OperationsAssumption DEF Requests
  <2>7. CsvInv'
    <3>1. \A k \in Keys : imports[k] # None => worked'[imports[k].id] = worked[imports[k].id]
      BY <2>4, <2>6, RowsHaveTypes
    <3> QED
      BY <1>1, <1>2, <2>3, <2>5, <3>1, Bystander
  <2>8. \A q \in runs' : q \in runs \/ q.seen = {}
    BY <1>3, RunMoves DEF EndRun
  <2>9. RequestsKept
    BY <1>1, <2>4, <2>5, <2>6, <2>8 DEF RequestsKept, OpInv, ReportsInv, Rowed, csvVars
  <2> QED
    BY <1>1, <2>3, <2>7, <2>9, OtherSteps
<1>4. CASE EndRun(r, "permanent") /\ UNCHANGED queueVars
  <2>1. \A q : q.seen = {} => SeenFits(q)
    BY NothingSeen DEF SeenFits
  <2> QED
    BY <1>1, <1>4, <2>1, QuietHandler DEF EndRun
<1> QED
  BY <1>3, <1>4 DEF CheckCanonical

LEMMA EvidenceKeeps ==
  ASSUME QueueInv, RunsInv, CsvInv, OpInv, NEW r \in runs, CheckEvidence(r)
  PROVE  QueueInv' /\ RunsInv' /\ CsvInv' /\ OpInv'
<1>1. PICK seen \in SUBSET {<<"evidence_missing", None>>} :
        /\ AtStep(r, "list", seen) /\ (faults' = faults \/ Fault)
        /\ UNCHANGED <<queueVars, csvVars, opVars>>
  BY DEF CheckEvidence
<1>2. ASSUME NEW q, q.seen = seen PROVE SeenFits(q)
  <2>1. /\ {u \in Uploads : <<"listed", u>> \in q.seen} = {}
        /\ {u \in Uploads : <<"rowed", u>> \in q.seen} = {}
    BY <1>2
  <2> QED
    BY <2>1, FS_EmptySet DEF SeenFits
<1> QED
  BY <1>1, <1>2, QuietHandler

LEMMA ListKeeps ==
  ASSUME QueueInv, RunsInv, CsvInv, OpInv, NEW r \in runs, ListObjects(r)
  PROVE  QueueInv' /\ RunsInv' /\ CsvInv' /\ OpInv'
<1>1. PICK page \in SUBSET objects :
        /\ AtStep(r, "known", r.seen \cup {<<"listed", u>> : u \in page}
                                     \cup {<<"rowed", u>> : u \in Rowed})
        /\ UNCHANGED <<faults, queueVars, csvVars, opVars>>
  BY DEF ListObjects
<1> DEFINE seen == r.seen \cup {<<"listed", u>> : u \in page} \cup {<<"rowed", u>> : u \in Rowed}
           listed == {u \in Uploads : <<"listed", u>> \in r.seen}
<1>2. IsFiniteSet(listed \cup page)
  <2>1. IsFiniteSet(listed) /\ IsFiniteSet(page)
    BY FS_Subset DEF OpInv, ReportsInv
  <2> HIDE DEF listed
  <2> QED
    BY <2>1, FS_Union
<1>3. Rowed' = Rowed
  BY <1>1 DEF Rowed, csvVars
<1>4. ASSUME NEW q, q.seen = seen PROVE SeenFits(q)
  <2>1. {u \in Uploads : <<"listed", u>> \in q.seen} \subseteq listed \cup page
    BY <1>4
  <2>2. IsFiniteSet({u \in Uploads : <<"listed", u>> \in q.seen})
    BY <1>2, <2>1, FS_Subset
  <2>3. {u \in Uploads : <<"rowed", u>> \in r.seen} \subseteq Rowed
    BY DEF OpInv, ReportsInv
  <2>4. {u \in Uploads : <<"rowed", u>> \in q.seen} \subseteq Rowed
    BY <1>4, <2>3
  <2> QED
    BY <1>3, <2>2, <2>4 DEF SeenFits
<1> HIDE DEF seen
<1>5. AtStep(r, "known", seen)
  BY <1>1 DEF seen
<1> QED
  BY <1>1, <1>4, <1>5, QuietHandler

(* What an execution reports: anomalies of its own, finitely many, and no   *)
(* orphan it had seen with a row.                                           *)
LEMMA FindingsFit ==
  ASSUME OpInv, NEW r \in runs
  PROVE  /\ IsFiniteSet(NewAnomalies(r))
         /\ \A a \in NewAnomalies(r) :
              /\ a.run = r.job /\ a.by = r.attempt
              /\ a.code = "orphan_evidence" => ~a.rowed
<1> DEFINE missing == {Found(r, "evidence_missing", None) :
                         x \in r.seen \cap {<<"evidence_missing", None>>}}
           orphans == {Found(r, "orphan_evidence", u) : u \in Orphans(r)}
           f == [u \in Orphans(r) |-> Found(r, "orphan_evidence", u)]
<1>1. IsFiniteSet(missing)
  <2>1. missing \subseteq {} \cup {Found(r, "evidence_missing", None)}
    OBVIOUS
  <2>2. IsFiniteSet({} \cup {Found(r, "evidence_missing", None)})
    BY FS_EmptySet, FS_AddElement
  <2> QED
    BY <2>1, <2>2, FS_Subset
<1>2. IsFiniteSet(orphans)
  <2>1. Orphans(r) \subseteq {u \in Uploads : <<"listed", u>> \in r.seen}
    BY DEF Orphans
  <2>2. IsFiniteSet({u \in Uploads : <<"listed", u>> \in r.seen})
    BY DEF OpInv, ReportsInv
  <2>3. IsFiniteSet(Orphans(r))
    BY <2>1, <2>2, FS_Subset
  <2>4. f \in Surjection(Orphans(r), orphans)
    BY DEF Surjection
  <2> QED
    BY <2>3, <2>4, FS_Surjection
<1>3. NewAnomalies(r) = missing \cup orphans
  BY DEF NewAnomalies
<1>4. ASSUME NEW a \in NewAnomalies(r)
      PROVE  /\ a.run = r.job /\ a.by = r.attempt
             /\ a.code = "orphan_evidence" => ~a.rowed
  <2>1. CASE a \in missing
    BY <2>1 DEF Found
  <2>2. CASE a \in orphans
    <3>1. PICK u \in Orphans(r) : a = Found(r, "orphan_evidence", u)
      BY <2>2
    <3>2. u \in Uploads /\ u \notin Rowed
      BY DEF Orphans
    <3>3. <<"rowed", u>> \notin r.seen
      BY <3>2 DEF OpInv, ReportsInv
    <3> QED
      BY <3>1, <3>3 DEF Found
  <2> QED
    BY <1>3, <2>1, <2>2
<1> HIDE DEF missing, orphans
<1> QED
  BY <1>1, <1>2, <1>3, <1>4, FS_Union

LEMMA SummaryTyped ==
  ASSUME OpInv, NEW r \in runs
  PROVE  /\ Summary(r) \in [Codes -> Nat]
         /\ \A code \in Codes :
              Summary(r)[code] = Cardinality({a \in NewAnomalies(r) : a.code = code})
<1>1. ASSUME NEW code \in Codes
      PROVE  Cardinality({a \in NewAnomalies(r) : a.code = code}) \in Nat
  <2>1. IsFiniteSet(NewAnomalies(r))
    BY FindingsFit
  <2>2. IsFiniteSet({a \in NewAnomalies(r) : a.code = code})
    BY <2>1, FS_Subset
  <2> QED
    BY <2>2, FS_CardinalityType
<1> QED
  BY <1>1 DEF Summary

LEMMA CompletedRow ==
  ASSUME NEW run \in RunRows, NEW summary
  PROVE  [run EXCEPT !.state = "completed", !.summary = summary]
           = [id |-> run.id, asked |-> run.asked, state |-> "completed", summary |-> summary]
<1> DEFINE closed == [run EXCEPT !.state = "completed"]
<1>1. closed = [id |-> run.id, asked |-> run.asked, state |-> "completed",
                summary |-> run.summary]
  BY DEF RunRows
<1> HIDE DEF closed
<1>2. [closed EXCEPT !.summary = summary]
        = [id |-> run.id, asked |-> run.asked, state |-> "completed", summary |-> summary]
  BY <1>1
<1> QED
  BY <1>2 DEF closed

(* The commit of a reconciliation: it is the first of its attempt, so the   *)
(* anomalies of this attempt are exactly those the summary counts.          *)
LEMMA ReportKeeps ==
  ASSUME QueueInv, RunsInv, CsvInv, OpInv, NEW r \in runs, RecordAnomalies(r)
  PROVE  QueueInv' /\ RunsInv' /\ CsvInv' /\ OpInv'
<1>1. PICK k \in Keys :
        /\ reconciliations[k] # None /\ reconciliations[k].id = r.job
        /\ reconciliations' = [reconciliations EXCEPT ![k].state = "completed",
                                                      ![k].summary = Summary(r)]
  BY DEF RecordAnomalies
<1>2. /\ Work(r.job, r.attempt, {}) /\ anomalies' = anomalies \cup NewAnomalies(r)
      /\ UNCHANGED <<csvVars, ask, replays, content, evidence>>
      /\ EndRun(r, "returned") \/ EndRun(r, "raised")
      /\ faults' = faults \/ Fault
  BY DEF RecordAnomalies
<1> DEFINE j == r.job
           n == r.attempt
           old == reconciliations[k]
           row == [id |-> j, asked |-> old.asked, state |-> "completed", summary |-> Summary(r)]
<1>3. /\ old \in RunRows /\ j \in ReconcileCalls /\ j \in Requests /\ j \in Jobs
      /\ n \in 1 .. tries[j] /\ n \notin worked[j]
  <2>1. old \in RunRows
    BY <1>1, RequestRows
  <2> QED
    BY <1>1, <1>2, <2>1, OperationsAssumption DEF Work, RunRows, Requests
<1>4. faults' \in Nat /\ faults' >= faults
  BY <1>2, FaultGrows DEF RunsInv
<1>5. {} \in SUBSET Jobs /\ \A c \in Jobs : c \notin {}
  OBVIOUS
<1>6. QueueInv' /\ RunsInv'
  BY <1>2, <1>4, <1>5, WorkRun
<1>7. /\ UNCHANGED <<tries, status>>
      /\ \A c \in Jobs : worked'[c] = IF c = j THEN worked[c] \cup {n} ELSE worked[c]
  BY <1>2, <1>3 DEF Work, QueueInv, QueueTypeOK
<1>8. CsvInv'
  <2>1. \A u \in Uploads : u \in Jobs /\ u # j
    BY <1>3, OperationsAssumption
  <2>2. \A l \in Keys : imports[l] # None => worked'[imports[l].id] = worked[imports[l].id]
    BY <1>7, <2>1, RowsHaveTypes
  <2> QED
    BY <1>2, <1>4, <1>6, <1>7, <2>2, Bystander
<1>9. /\ OpTypeOK /\ RequestsAgree /\ RequestsInv /\ ReportsInv /\ SummaryIsOneExecution
      /\ RowsFit(replays) /\ RowsFit(reconciliations)
  BY DEF OpInv, RequestsInv
<1>10. row \in RunRows /\ row # None
  BY <1>3, SummaryTyped, OperationsAssumption DEF RunRows
<1>11. /\ reconciliations' \in [Keys -> {None} \cup RunRows]
       /\ \A l \in Keys : reconciliations'[l] = IF l = k THEN row ELSE reconciliations[l]
  <2>1. reconciliations' = [reconciliations EXCEPT ![k] =
           [old EXCEPT !.state = "completed", !.summary = Summary(r)]]
    BY <1>1
  <2>2. [old EXCEPT !.state = "completed", !.summary = Summary(r)] = row
    BY <1>1, <1>3, CompletedRow, Zenon
  <2>3. reconciliations' = [reconciliations EXCEPT ![k] = row]
    BY <2>1, <2>2
  <2> HIDE DEF row
  <2> QED
    BY <1>9, <1>10, <2>3 DEF OpTypeOK
<1>12. \A l \in Keys : reconciliations[l] # None /\ l # k =>
         reconciliations[l].id # j /\ reconciliations[l].id \in Jobs
  BY <1>1, <1>9, RequestRows, OperationsAssumption DEF RowsFit, Requests
<1>13. \A a \in NewAnomalies(r) : a.run = j /\ a.by = n /\ (a.code = "orphan_evidence" => ~a.rowed)
  BY FindingsFit
<1>14. \A a \in anomalies : a.run \in ReconcileCalls /\ a.run \in Jobs /\ a.by \in worked[a.run]
  BY <1>9, OperationsAssumption DEF OpTypeOK, ReportsInv, Requests
<1>15. row.id = j /\ row.asked = old.asked /\ row.state = "completed" /\ row.summary = Summary(r)
  OBVIOUS
<1> HIDE DEF row, j, n
<1>16. \A a \in anomalies' : /\ a.run \in ReconcileCalls /\ a.by \in worked'[a.run]
                             /\ a.by \in 1 .. tries'[a.run]
  <2>1. ASSUME NEW a \in NewAnomalies(r)
        PROVE  a.run \in ReconcileCalls /\ a.by \in worked'[a.run] /\ a.by \in 1 .. tries'[a.run]
    BY <1>3, <1>7, <1>13
  <2>2. ASSUME NEW a \in anomalies
        PROVE  a.run \in ReconcileCalls /\ a.by \in worked'[a.run] /\ a.by \in 1 .. tries'[a.run]
    BY <1>7, <1>9, <1>14 DEF OpTypeOK
  <2> QED
    BY <1>2, <2>1, <2>2
<1>17. OpTypeOK'
  BY <1>2, <1>9, <1>11, <1>16 DEF OpTypeOK
<1>18. RequestsAgree'
  <2>1. \A l \in Keys : reconciliations[l] # None =>
          /\ reconciliations'[l] # None /\ reconciliations'[l].id = reconciliations[l].id
          /\ reconciliations'[l].asked = reconciliations[l].asked
    BY <1>1, <1>10, <1>11, <1>15 DEF j
  <2>2. \A c \in Requests : ask[c].id # None => ask[c].key \in Keys
    BY <1>9 DEF RequestsInv
  <2>3. ask' = ask /\ replays' = replays
    BY <1>2
  <2> SUFFICES ASSUME NEW c \in Requests, ask[c].id # None
               PROVE  LET x == IF c \in ReplayCalls THEN replays'[ask[c].key]
                                                    ELSE reconciliations'[ask[c].key]
                      IN  x # None /\ x.id = ask[c].id /\ x.asked = ask[c].asked
    BY <2>3 DEF RequestsAgree
  <2>4. CASE c \in ReplayCalls
    BY <1>9, <2>3, <2>4 DEF RequestsAgree
  <2>5. CASE c \notin ReplayCalls
    BY <1>9, <2>1, <2>2, <2>5 DEF RequestsAgree
  <2> QED
    BY <2>4, <2>5
<1>19. RowsFit(replays)' /\ RowsFit(reconciliations)'
  <2>1. \A l \in Keys : reconciliations'[l] # None =>
          /\ reconciliations[l] # None /\ reconciliations'[l].id = reconciliations[l].id
          /\ reconciliations'[l].asked = reconciliations[l].asked
    BY <1>1, <1>11, <1>15 DEF j
  <2> QED
    BY <1>2, <1>7, <1>9, <2>1 DEF RowsFit
<1>20. RequestsInv'
  BY <1>2, <1>7, <1>9, <1>19 DEF RequestsInv
<1>21. ReportsInv'
  <2>1. UNCHANGED <<imports, objects>>
    BY <1>2 DEF csvVars
  <2>2. ASSUME NEW q \in runs'
        PROVE  /\ IsFiniteSet({u \in Uploads : <<"listed", u>> \in q.seen})
               /\ {u \in Uploads : <<"rowed", u>> \in q.seen} \subseteq Rowed
    <3>1. q \in runs \/ q.seen = {}
      BY <1>2, RunMoves DEF EndRun
    <3>2. CASE q \in runs
      BY <1>9, <3>2 DEF ReportsInv
    <3>3. CASE q.seen = {}
      BY <3>3, NothingSeen
    <3> QED
      BY <3>1, <3>2, <3>3
  <2> QED
    BY <1>9, <1>16, <2>1, <2>2 DEF ReportsInv, Rowed
<1>22. OrphansHadNoRow'
  BY <1>2, <1>13 DEF OpInv, OrphansHadNoRow
<1>23. SummaryIsOneExecution'
  <2> DEFINE Of(A, id, m, code) == {a \in A : a.run = id /\ a.by = m /\ a.code = code}
  <2>1. ASSUME NEW l \in Keys, reconciliations'[l] # None
        PROVE  /\ reconciliations'[l].state = "completed" <=> worked'[reconciliations'[l].id] # {}
               /\ reconciliations'[l].state = "completed" =>
                    \E m \in worked'[reconciliations'[l].id] : \A code \in Codes :
                      reconciliations'[l].summary[code] =
                        Cardinality(Of(anomalies', reconciliations'[l].id, m, code))
    <3>1. CASE l = k
      <4>1. reconciliations'[l] = row /\ n \in worked'[j]
        BY <1>3, <1>7, <1>11, <3>1
      <4>2. ASSUME NEW code \in Codes
            PROVE  Of(anomalies', j, n, code) = {a \in NewAnomalies(r) : a.code = code}
        BY <1>2, <1>3, <1>13, <1>14
      <4>3. \A code \in Codes : row.summary[code] = Cardinality(Of(anomalies', j, n, code))
        BY <1>15, <4>2, SummaryTyped
      <4> HIDE DEF Of
      <4> QED
        BY <1>15, <4>1, <4>3
    <3>2. CASE l # k
      <4>1. /\ reconciliations'[l] = reconciliations[l] /\ reconciliations[l] # None
            /\ reconciliations[l].id # j /\ reconciliations[l].id \in Jobs
        BY <1>11, <1>12, <2>1, <3>2
      <4>2. worked'[reconciliations[l].id] = worked[reconciliations[l].id]
        BY <1>7, <4>1
      <4>3. \A m, code : Of(anomalies', reconciliations[l].id, m, code)
                           = Of(anomalies, reconciliations[l].id, m, code)
        BY <1>2, <1>13, <4>1
      <4>4. /\ reconciliations[l].state = "completed" <=> worked[reconciliations[l].id] # {}
            /\ reconciliations[l].state = "completed" =>
                 \E m \in worked[reconciliations[l].id] : \A code \in Codes :
                   reconciliations[l].summary[code] =
                     Cardinality(Of(anomalies, reconciliations[l].id, m, code))
        BY <1>9, <4>1 DEF SummaryIsOneExecution
      <4> HIDE DEF Of
      <4> QED
        BY <4>1, <4>2, <4>3, <4>4
    <3> QED
      BY <3>1, <3>2
  <2> QED
    BY <2>1 DEF SummaryIsOneExecution
<1> QED
  BY <1>6, <1>8, <1>17, <1>18, <1>20, <1>21, <1>22, <1>23 DEF OpInv

-----------------------------------------------------------------------------
LEMMA OpInit == Init => IndInv
<1> SUFFICES ASSUME Init PROVE IndInv
  OBVIOUS
<1>1. ImportIndInv
  BY InitInv DEF Init, ImportInit
<1>2. OpTypeOK
  BY DEF Init, OpTypeOK, Fields
<1>3. RequestsAgree /\ RequestsInv
  <2>1. /\ \A c \in Requests : ask[c].step = "idle" /\ ask[c].id = None
        /\ \A k \in Keys : replays[k] = None /\ reconciliations[k] = None
        /\ \A c \in ReplayCalls : content[c].sealed = {} /\ c \in Jobs
    <3>1. /\ ask = [c \in Requests |-> [step |-> "idle", key |-> None, asked |-> None,
                                        id |-> None]]
          /\ replays = [k \in Keys |-> None] /\ reconciliations = [k \in Keys |-> None]
          /\ content = [c \in ReplayCalls |-> [fields |-> {}, sealed |-> {}]]
      BY DEF Init
    <3> QED
      BY <3>1, OperationsAssumption DEF Requests
  <2>2. \A j \in Jobs : status[j] = "absent"
    <3>1. status = [j \in Jobs |-> "absent"]
      BY DEF Init, RunInit, QueueInit
    <3> QED
      BY <3>1, Zenon
  <2> QED
    <3>1. RequestsAgree
      BY <2>1 DEF RequestsAgree
    <3>2. RowsFit(replays) /\ RowsFit(reconciliations)
      BY <2>1, Zenon DEF RowsFit
    <3> QED
      BY <2>1, <3>1, <3>2 DEF RequestsInv
<1>4. ReportsInv
  BY FS_EmptySet DEF Init, ReportsInv, RunInit, CsvInit
<1>5. OrphansHadNoRow /\ SummaryIsOneExecution
  BY DEF Init, OrphansHadNoRow, SummaryIsOneExecution
<1> QED
  BY <1>1, <1>2, <1>3, <1>4, <1>5 DEF IndInv, OpInv

(* Every commit or refusal of a request. *)
LEMMA PersistKeeps ==
  ASSUME QueueInv, RunsInv, CsvInv, OpInv, NEW c \in Requests,
         \/ c \in ReplayCalls /\ PersistReplay(c)
         \/ c \in ReconcileCalls /\ PersistReconciliation(c)
  PROVE  QueueInv' /\ RunsInv' /\ CsvInv' /\ OpInv'
<1>1. CASE /\ c \in ReplayCalls /\ PersistReplay(c) /\ CommitAsk(replays, c)
           /\ replays' = [replays EXCEPT ![ask[c].key] = [id |-> c, asked |-> ask[c].asked]]
           /\ content' = [content EXCEPT ![c] = Replayed(ask[c].asked)]
  BY <1>1, ReplayCommits DEF PersistReplay
<1>2. CASE /\ c \in ReplayCalls /\ PersistReplay(c) /\ RefuseAsk(replays, c)
           /\ UNCHANGED <<replays, content>>
  BY <1>2, QuietRequests DEF PersistReplay, RefuseAsk
<1>3. CASE /\ c \in ReconcileCalls /\ PersistReconciliation(c) /\ CommitAsk(reconciliations, c)
           /\ reconciliations' = [reconciliations EXCEPT ![ask[c].key] =
                [id |-> c, asked |-> ask[c].asked, state |-> "running", summary |-> NoSummary]]
  BY <1>3, ReconciliationCommits DEF PersistReconciliation
<1>4. CASE /\ c \in ReconcileCalls /\ PersistReconciliation(c) /\ RefuseAsk(reconciliations, c)
           /\ UNCHANGED reconciliations
  BY <1>4, QuietRequests DEF PersistReconciliation, RefuseAsk
<1> QED
  BY <1>1, <1>2, <1>3, <1>4 DEF PersistReplay, PersistReconciliation

LEMMA OpNext == IndInv /\ [Next]_vars => IndInv'
<1> SUFFICES ASSUME IndInv, [Next]_vars PROVE IndInv'
  OBVIOUS
<1>1. QueueInv /\ RunsInv /\ CsvInv /\ OpInv /\ IsFiniteSet(objects)
  BY DEF IndInv, ImportIndInv, OpInv, ReportsInv
<1>2. ASSUME QueueInv' /\ RunsInv' /\ CsvInv', UNCHANGED opVars, RequestsKept PROVE IndInv'
  BY <1>1, <1>2, OtherSteps DEF IndInv, ImportIndInv
<1>3. ASSUME QueueInv' /\ RunsInv' /\ CsvInv' /\ OpInv' PROVE IndInv'
  BY <1>3 DEF IndInv, ImportIndInv
<1>4. CASE UploadStep /\ UNCHANGED opVars
  <2>1. RequestsKept
    BY <1>1, <1>4, UploadLeavesRequests
  <2> QED
    BY <1>1, <1>2, <1>4, <2>1, UploadStepKeeps
<1>5. ASSUME NEW c \in Requests, Ask(c) PROVE IndInv'
  BY <1>1, <1>3, <1>5, QuietRequests
<1>6. ASSUME NEW c \in ReplayCalls, LookupReplay(c) \/ PersistReplay(c) PROVE IndInv'
  BY <1>1, <1>3, <1>6, QuietRequests, PersistKeeps DEF Requests
<1>7. ASSUME NEW c \in ReconcileCalls, LookupReconciliation(c) \/ PersistReconciliation(c)
      PROVE  IndInv'
  BY <1>1, <1>3, <1>7, QuietRequests, PersistKeeps DEF Requests
<1>8. ASSUME NEW r \in runs, ImportCsv(r), UNCHANGED opVars PROVE IndInv'
  <2>1. RequestsKept
    BY <1>1, <1>8, ImportLeavesRequests
  <2> QED
    BY <1>1, <1>2, <1>8, <2>1, ImportKeeps
<1>9. ASSUME NEW r \in runs,
             CheckCanonical(r) \/ CheckEvidence(r) \/ ListObjects(r) \/ RecordAnomalies(r)
      PROVE  IndInv'
  BY <1>1, <1>3, <1>9, CanonicalKeeps, EvidenceKeeps, ListKeeps, ReportKeeps
<1>10. ASSUME NEW r \in runs, HandlerFails(r), UNCHANGED opVars PROVE IndInv'
  <2>1. RequestsKept
    BY <1>1, <1>10, FailureLeavesRequests
  <2> QED
    BY <1>1, <1>2, <1>10, <2>1, HandlerFailureKeeps
<1>11. CASE RunStep(Jobs) /\ UNCHANGED <<csvVars, opVars>>
  <2>1. Jobs \in SUBSET Jobs /\ UNCHANGED csvVars /\ UNCHANGED opVars
    BY <1>11
  <2>2. RequestsKept
    BY <1>1, <1>11, <2>1, RunStepLeavesRequests
  <2> QED
    BY <1>1, <1>2, <1>11, <2>1, <2>2, RunStepKeeps
<1>12. CASE UNCHANGED vars
  <2>1. /\ UNCHANGED <<queueVars, runs, csvVars>> /\ faults' = faults /\ UNCHANGED opVars
        /\ UNCHANGED <<status, worked, runs, imports, objects>>
    BY <1>12 DEF vars, runVars, queueVars, csvVars
  <2>2. QueueInv' /\ RunsInv' /\ CsvInv'
    BY <1>1, <2>1, QuietSteps
  <2>3. RequestsKept
    BY <1>1, <2>1 DEF RequestsKept, Rowed
  <2> QED
    BY <1>2, <2>1, <2>2, <2>3
<1> QED
  BY <1>4, <1>5, <1>6, <1>7, <1>8, <1>9, <1>10, <1>11, <1>12 DEF Next, Handle

(***************************************************************************)
(* The invariant of the whole pipeline is inductive: uploads, requests,    *)
(* handlers, their failures and any number of superseded attempts preserve *)
(* it together.                                                            *)
(***************************************************************************)
THEOREM PipelineInductive == Spec => []IndInv
<1>1. Init => IndInv
  BY OpInit
<1>2. IndInv /\ [Next]_vars => IndInv'
  BY OpNext
<1> QED
  BY <1>1, <1>2, PTL DEF Spec

(***************************************************************************)
(* With requests and reconciliations beside them imports stay whole, and   *)
(* requests under one key agree on the row they are given.                 *)
(***************************************************************************)
THEOREM PipelineCorrect == Spec => []PipelineInv
<1>1. IndInv => PipelineInv
  BY DEF IndInv, ImportIndInv, QueueInv, CsvInv, OpInv, PipelineInv
<1> QED
  BY <1>1, PipelineInductive, PTL

(***************************************************************************)
(* Reading the rows after the list is enough: whatever uploads commit, and *)
(* however large the page, no file that had its row when the files were    *)
(* listed is reported as an orphan.                                        *)
(***************************************************************************)
THEOREM OrphansAreReal == Spec => []OrphansHadNoRow
<1>1. IndInv => OrphansHadNoRow
  BY DEF IndInv, OpInv
<1> QED
  BY <1>1, PipelineInductive, PTL

(***************************************************************************)
(* The summary of a completed run is that of one of its executions, and a  *)
(* run is completed exactly when an execution of it has taken effect.      *)
(***************************************************************************)
THEOREM SummariesAreWhole == Spec => []SummaryIsOneExecution
<1>1. IndInv => SummaryIsOneExecution
  BY DEF IndInv, OpInv
<1> QED
  BY <1>1, PipelineInductive, PTL

(***************************************************************************)
(* The pipeline uses the queue as JobQueue describes it: no upload,        *)
(* request or handler does to a job what the queue does not promise.       *)
(***************************************************************************)
THEOREM PipelineUsesTheQueue == Spec => QueueSpec
<1>1. Init => QueueInit
  BY DEF Init, RunInit
<1>2. IndInv /\ [Next]_vars => [QueueNext]_queueVars
  <2> SUFFICES ASSUME RunsInv, CsvInv, [Next]_vars PROVE [QueueNext]_queueVars
    BY DEF IndInv, ImportIndInv
  <2>1. CASE UploadStep
    BY <2>1, UploadIsQueueStep
  <2>2. ASSUME NEW c \in Requests,
               \/ Ask(c) \/ LookupReplay(c) \/ LookupReconciliation(c)
               \/ PersistReplay(c) \/ PersistReconciliation(c)
        PROVE  [QueueNext]_queueVars
    <3>1. Enqueue(c) \/ UNCHANGED queueVars
      BY <2>2 DEF Ask, LookupReplay, LookupReconciliation, PersistReplay,
                  PersistReconciliation, CommitAsk, RefuseAsk, runVars, queueVars
    <3>2. c \in Jobs
      BY OperationsAssumption
    <3> QED
      BY <3>1, <3>2 DEF QueueNext
  <2>3. ASSUME NEW r \in runs, ImportCsv(r) PROVE [QueueNext]_queueVars
    BY <2>3, ImportIsQueueStep
  <2>4. ASSUME NEW r \in runs,
               CheckCanonical(r) \/ CheckEvidence(r) \/ ListObjects(r) \/ RecordAnomalies(r)
        PROVE  [QueueNext]_queueVars
    <3>1. Work(r.job, r.attempt, {}) \/ UNCHANGED queueVars
      BY <2>4 DEF CheckCanonical, CheckEvidence, ListObjects, RecordAnomalies
    <3>2. {} \in SUBSET Jobs
      OBVIOUS
    <3>3. CASE Work(r.job, r.attempt, {})
      BY <3>2, <3>3, WorkIsQueueStep
    <3> QED
      BY <3>1, <3>3
  <2>5. ASSUME NEW r \in runs, HandlerFails(r) PROVE UNCHANGED queueVars
    BY <2>5 DEF HandlerFails
  <2>6. CASE RunStep(Jobs)
    <3>1. Jobs \in SUBSET Jobs
      OBVIOUS
    <3> QED
      BY <2>6, <3>1, RunStepIsQueueStep
  <2>7. UNCHANGED vars => UNCHANGED queueVars
    BY DEF vars, runVars, queueVars
  <2> QED
    BY <2>1, <2>2, <2>3, <2>4, <2>5, <2>6, <2>7 DEF Next, Handle, Requests
<1> QED
  BY <1>1, <1>2, PipelineInductive, PTL DEF Spec, QueueSpec
=============================================================================
