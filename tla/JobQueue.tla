------------------------------ MODULE JobQueue ------------------------------
(***************************************************************************)
(* What the durable outbox promises, without leases, batches or clocks: a  *)
(* job is attempted one or more times, the handler's own transaction takes *)
(* effect at most once per attempt and at any time after the attempt has   *)
(* begun, even when a later attempt has settled the job, and the job is    *)
(* settled once, as completed only under an attempt that took effect.      *)
(* OutboxJobs implements it; the handlers (CsvImports, Operations) run on  *)
(* it.                                                                     *)
(***************************************************************************)
EXTENDS Naturals

CONSTANT Jobs  \* rows that may be inserted in outbox_jobs

VARIABLES
  status,  \* "open" stands for the states pending, leased and retry
  tries,   \* outbox_jobs.attempt_count
  worked   \* attempts under which the handler's transaction committed

queueVars == <<status, tries, worked>>

Settled(j) == status[j] \in {"completed", "dead"}

QueueTypeOK ==
  /\ status \in [Jobs -> {"absent", "open", "completed", "dead"}]
  /\ tries \in [Jobs -> Nat]
  /\ worked \in [Jobs -> SUBSET Nat]

(* A job is attempted when it is there, an attempt takes effect once it has *)
(* begun, and no job is completed without an attempt that took effect.      *)
QueueInv ==
  /\ QueueTypeOK
  /\ \A j \in Jobs : /\ status[j] = "absent" => tries[j] = 0
                     /\ worked[j] \subseteq 1 .. tries[j]
                     /\ status[j] = "completed" => worked[j] # {}

QueueInit ==
  /\ status = [j \in Jobs |-> "absent"]
  /\ tries = [j \in Jobs |-> 0]
  /\ worked = [j \in Jobs |-> {}]

(* A producer's transaction inserts the row. *)
Enqueue(j) ==
  /\ status[j] = "absent"
  /\ status' = [status EXCEPT ![j] = "open"]
  /\ UNCHANGED <<tries, worked>>

(* One claim starts the next attempt of each job of its batch. *)
Attempt(S) ==
  /\ S # {}
  /\ \A j \in S : status[j] = "open"
  /\ tries' = [j \in Jobs |-> IF j \in S THEN tries[j] + 1 ELSE tries[j]]
  /\ UNCHANGED <<status, worked>>

(* The handler run of attempt n commits, superseded or not; the jobs of S *)
(* are inserted by the same transaction.                                  *)
Work(j, n, S) ==
  /\ n \in 1 .. tries[j] \ worked[j]
  /\ \A k \in S : status[k] = "absent"
  /\ worked' = [worked EXCEPT ![j] = @ \cup {n}]
  /\ status' = [k \in Jobs |-> IF k \in S THEN "open" ELSE status[k]]
  /\ UNCHANGED tries

(* The last attempt reports, and the job never changes again. *)
Settle(j, s) ==
  /\ status[j] = "open"
  /\ tries[j] > 0
  /\ s = "completed" => tries[j] \in worked[j]
  /\ status' = [status EXCEPT ![j] = s]
  /\ UNCHANGED <<tries, worked>>

QueueNext ==
  \/ \E j \in Jobs : Enqueue(j)
  \/ \E S \in SUBSET Jobs : Attempt(S)
  \/ \E j \in Jobs : \E n \in 1 .. tries[j], S \in SUBSET Jobs : Work(j, n, S)
  \/ \E j \in Jobs, s \in {"completed", "dead"} : Settle(j, s)

QueueSpec == QueueInit /\ [][QueueNext]_queueVars
=============================================================================
