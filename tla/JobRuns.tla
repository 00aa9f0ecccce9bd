------------------------------ MODULE JobRuns ------------------------------
(***************************************************************************)
(* The executions of handlers by JobRunner.run_once on the abstract queue: *)
(* a claimed attempt is a run, a run ends in a report or in the death of   *)
(* its worker, and a job whose lease has run out gets another run beside   *)
(* the first.  The handlers themselves are in CsvImports and Operations.   *)
(***************************************************************************)
EXTENDS JobQueue

CONSTANTS
  MaxAttempts,  \* settings.worker_max_attempts
  MaxFaults     \* bound: crashes, leases that run out, failures of store or database

ASSUME RunAssumption == MaxAttempts \in Nat \ {0} /\ MaxFaults \in Nat

VARIABLES
  runs,   \* handler executions under way, a record per claimed attempt
  faults  \* how much of MaxFaults is used

runVars == <<status, tries, worked, runs, faults>>

(* How a handler ended: it returned, raised PermanentJobError or raised     *)
(* anything else.                                                           *)
Ends == {"returned", "permanent", "raised"}

RunInit == QueueInit /\ runs = {} /\ faults = 0

Fault == faults < MaxFaults /\ faults' = faults + 1

(* What a run learned so far is kept in seen. *)
AtStep(r, step, seen) ==
  runs' = (runs \ {r}) \cup {[r EXCEPT !.step = step, !.seen = seen]}

EndRun(r, how) == AtStep(r, how, {})

(* No run of the job holds its lease: it has reported or died. *)
Unheld(j) == \A r \in runs : r.job = j => r.attempt # tries[j]

StartRun(j) ==
  /\ Attempt({j})
  /\ \/ Unheld(j) /\ UNCHANGED faults
     \/ ~Unheld(j) /\ Fault
  /\ runs' = runs \cup
       {[job |-> j, attempt |-> tries[j] + 1, step |-> "start", seen |-> {}]}

(* A slip: one attempt too few. *)
ExhaustedEarly(n) == n + 1 >= MaxAttempts

(* The error path of run_once gives up. *)
Exhausted(n) == n >= MaxAttempts

(* A slip: the report of a superseded attempt settles the job. *)
HoldsLeaseUnfenced(r) == status[r.job] = "open"

(* The fence of outcomeos_finish_job. *)
HoldsLease(r) == status[r.job] = "open" /\ r.attempt = tries[r.job]

Report(r) ==
  /\ r.step \in Ends
  /\ runs' = runs \ {r}
  /\ \/ HoldsLease(r) /\ r.step = "returned" /\ Settle(r.job, "completed")
     \/ /\ HoldsLease(r)
        /\ r.step = "permanent" \/ (r.step = "raised" /\ Exhausted(r.attempt))
        /\ Settle(r.job, "dead")
     \/ HoldsLease(r) /\ r.step = "raised" /\ ~Exhausted(r.attempt)
          /\ UNCHANGED queueVars
     \/ ~HoldsLease(r) /\ UNCHANGED queueVars
  /\ UNCHANGED faults

(* The worker dies; its transaction is rolled back. *)
LoseRun(r) ==
  /\ Fault
  /\ runs' = runs \ {r}
  /\ UNCHANGED queueVars

(* The workers, as far as the jobs of S are concerned. *)
RunStep(S) ==
  \/ \E j \in S : StartRun(j)
  \/ \E r \in runs : Report(r) \/ LoseRun(r)
-----------------------------------------------------------------------------
(* A run is of an attempt that has begun, and one that returned has taken   *)
(* effect: its report never meets a job it may not complete.                *)
RunsInv ==
  /\ faults \in Nat
  /\ \A r \in runs :
       /\ r = [job |-> r.job, attempt |-> r.attempt, step |-> r.step, seen |-> r.seen]
       /\ r.job \in Jobs /\ r.attempt \in 1 .. tries[r.job]
       /\ r.step = "returned" => r.attempt \in worked[r.job]
=============================================================================
