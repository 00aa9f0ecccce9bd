-------------------------- MODULE OutboxJobsProofs --------------------------
(***************************************************************************)
(* Theorems about OutboxJobs, for any set of jobs and workers, any         *)
(* settings and any number of crashes.  The safety invariants follow from  *)
(* the inductive invariant IndInv of OutboxJobs, which the run outbox      *)
(* checks on an instance.                                                  *)
(***************************************************************************)
EXTENDS OutboxJobs, TLAPS

-----------------------------------------------------------------------------
(* The delay is a natural number whatever the power of two comes to. *)
LEMMA BackoffType ==
  ASSUME NEW n \in Nat
  PROVE  backoff(n) \in Nat
BY SettingsAssumption DEF backoff

(* Closing an attempt keeps the rows a sequence of the same length, changes *)
(* only an unfinished row with the caller's token, and gives it the outcome.*)
LEMMA CloseAttemptRows ==
  ASSUME NEW rows \in Seq(AttemptRows), NEW t \in Nat, NEW o \in FinalOutcomes
  PROVE  /\ CloseAttempt(rows, t, o) \in Seq(AttemptRows)
         /\ Len(CloseAttempt(rows, t, o)) = Len(rows)
         /\ \A n \in 1 .. Len(rows) :
              CloseAttempt(rows, t, o)[n] =
                IF n = t /\ rows[n] = "open" THEN o ELSE rows[n]
<1> DEFINE c == CloseAttempt(rows, t, o)
<1>1. Len(rows) \in Nat /\ DOMAIN rows = 1 .. Len(rows)
  OBVIOUS
<1>2. c = [n \in 1 .. Len(rows) |-> IF n = t /\ rows[n] = "open" THEN o ELSE rows[n]]
  BY <1>1 DEF CloseAttempt
<1>3. \A n \in 1 .. Len(rows) : rows[n] \in AttemptRows
  OBVIOUS
<1>4. c \in [1 .. Len(rows) -> AttemptRows]
  BY <1>2, <1>3 DEF AttemptRows
<1>5. c \in Seq(AttemptRows) /\ Len(c) = Len(rows)
  BY <1>1, <1>4
<1> QED
  BY <1>2, <1>5

(* A claim closes the attempt of a lost lease, if any, and adds one open row. *)
LEMMA ClaimRows ==
  ASSUME TypeOK, RowInv, NEW j \in Jobs
  PROVE  /\ RowsAfterClaim(j) \in Seq(AttemptRows)
         /\ Len(RowsAfterClaim(j)) = attemptCount[j] + 1
         /\ RowsAfterClaim(j)[attemptCount[j] + 1] = "open"
         /\ \A n \in 1 .. attemptCount[j] :
              RowsAfterClaim(j)[n] =
                IF state[j] = "leased" /\ n = lease[j] /\ attempts[j][n] = "open"
                THEN "lease_lost" ELSE attempts[j][n]
<1> DEFINE closed == CloseAttempt(attempts[j], lease[j], "lease_lost")
           before == IF state[j] = "leased" THEN closed ELSE attempts[j]
<1>1. /\ attempts[j] \in Seq(AttemptRows)
      /\ lease[j] \in Nat
      /\ Len(attempts[j]) = attemptCount[j]
      /\ attemptCount[j] \in Nat
  BY DEF TypeOK, RowInv
<1>2. /\ closed \in Seq(AttemptRows)
      /\ Len(closed) = attemptCount[j]
      /\ \A n \in 1 .. attemptCount[j] :
           closed[n] = IF n = lease[j] /\ attempts[j][n] = "open"
                       THEN "lease_lost" ELSE attempts[j][n]
  BY <1>1, CloseAttemptRows DEF FinalOutcomes
<1>3. before \in Seq(AttemptRows) /\ Len(before) = attemptCount[j]
  BY <1>1, <1>2
<1>4. "open" \in AttemptRows
  BY DEF AttemptRows
<1> HIDE DEF before
<1>5. /\ Append(before, "open") \in Seq(AttemptRows)
      /\ Len(Append(before, "open")) = attemptCount[j] + 1
      /\ Append(before, "open")[attemptCount[j] + 1] = "open"
      /\ \A n \in 1 .. attemptCount[j] : Append(before, "open")[n] = before[n]
  BY <1>1, <1>3, <1>4
<1>6. RowsAfterClaim(j) = Append(before, "open")
  BY DEF RowsAfterClaim, before
<1>7. \A n \in 1 .. attemptCount[j] :
        before[n] = IF state[j] = "leased" /\ n = lease[j] /\ attempts[j][n] = "open"
                    THEN "lease_lost" ELSE attempts[j][n]
  BY <1>2 DEF before
<1> QED
  BY <1>5, <1>6, <1>7

(* The settings' types, for steps that need nothing else of them. *)
LEMMA SettingsTypes ==
  /\ MaxAttempts \in Nat \ {0}
  /\ LeaseSeconds \in Nat
  /\ MaxLate \in Nat
  /\ NoResult \notin Results
BY SettingsAssumption, BoundsAssumption, NoResultAssumption

-----------------------------------------------------------------------------
LEMMA InitIndInv == Init => IndInv
BY DEF Init, IndInv, TypeOK, JobStates, RowInv, HeldInv, CompletedWasApplied,
       RetriesStayUnderLimit

LEMMA EnqueueStep ==
  ASSUME IndInv, NEW j \in Jobs, Enqueue(j)
  PROVE  IndInv'
<1> USE DEF IndInv, Enqueue
<1>1. TypeOK'
  BY DEF TypeOK, JobStates
<1>2. RowInv'
  BY DEF TypeOK, RowInv
<1>3. HeldInv'
  BY DEF HeldInv
<1>4. CompletedWasApplied' /\ RetriesStayUnderLimit'
  BY DEF TypeOK, CompletedWasApplied, RetriesStayUnderLimit
<1> QED
  BY <1>1, <1>2, <1>3, <1>4

LEMMA ClaimStep ==
  ASSUME IndInv, NEW w \in Workers, Claim(w)
  PROVE  IndInv'
<1>1. PICK S \in EarliestBatches \ {{}} : Claim(w)!2!(S)
  BY DEF Claim
<1>2. UNCHANGED <<due, applied, hand, mishaps>>
  BY DEF Claim
<1>3. S \subseteq Jobs
  BY <1>1 DEF EarliestBatches, Claimable
<1>4. TypeOK /\ RowInv /\ HeldInv /\ CompletedWasApplied /\ RetriesStayUnderLimit
  BY DEF IndInv
<1>5. \A j \in Jobs : j \in S => state[j] \in {"pending", "retry", "leased"}
  BY <1>1 DEF EarliestBatches, Claimable
<1>6. \A j \in Jobs :
        /\ state'[j] = IF j \in S THEN "leased" ELSE state[j]
        /\ lease'[j] = IF j \in S THEN attemptCount[j] + 1 ELSE lease[j]
        /\ attemptCount'[j] = IF j \in S THEN attemptCount[j] + 1 ELSE attemptCount[j]
        /\ attempts'[j] = IF j \in S THEN RowsAfterClaim(j) ELSE attempts[j]
  BY <1>1 DEF NextAttempt
<1>7. \A j \in Jobs :
        /\ RowsAfterClaim(j) \in Seq(AttemptRows)
        /\ Len(RowsAfterClaim(j)) = attemptCount[j] + 1
        /\ RowsAfterClaim(j)[attemptCount[j] + 1] = "open"
        /\ \A n \in 1 .. attemptCount[j] :
             RowsAfterClaim(j)[n] =
               IF state[j] = "leased" /\ n = lease[j] /\ attempts[j][n] = "open"
               THEN "lease_lost" ELSE attempts[j][n]
  BY <1>4, ClaimRows
<1>8. TypeOK'
  <2>1. state' \in [Jobs -> JobStates] /\ lease' \in [Jobs -> Nat]
        /\ leaseLeft' \in [Jobs -> Nat] /\ attemptCount' \in [Jobs -> Nat]
    BY <1>1, <1>4, SettingsTypes DEF TypeOK, JobStates, NextAttempt
  <2>2. attempts' \in [Jobs -> Seq(AttemptRows)]
    BY <1>1, <1>4, <1>7 DEF TypeOK
  <2>3. batch' \in [Workers -> SUBSET Claims]
    BY <1>1, <1>3, <1>4 DEF TypeOK, Claims, NextAttempt
  <2> QED
    BY <1>2, <1>4, <2>1, <2>2, <2>3 DEF TypeOK
<1>9. RowInv'
  <2> SUFFICES ASSUME NEW j \in Jobs PROVE RowInv!(j)'
    BY DEF RowInv
  <2>1. RowInv!(j) /\ attemptCount[j] \in Nat
    BY <1>4 DEF RowInv, TypeOK
  <2>2. CASE j \notin S
    BY <1>6, <2>1, <2>2
  <2>3. CASE j \in S
    <3>1. \A n \in 1 .. attemptCount[j] :
            RowsAfterClaim(j)[n] \in {"retry", "lease_lost"}
      BY <1>5, <1>7, <2>1, <2>3
    <3>2. /\ attempts'[j] = RowsAfterClaim(j)
          /\ attemptCount'[j] = attemptCount[j] + 1
          /\ lease'[j] = attemptCount[j] + 1
          /\ state'[j] = "leased"
      BY <1>6, <2>3
    <3>3. /\ Len(attempts'[j]) = attemptCount'[j]
          /\ attempts'[j][attemptCount'[j]] = "open"
      BY <1>7, <3>2
    <3>4. \A n \in 1 .. attemptCount'[j] - 1 : attempts'[j][n] \in {"retry", "lease_lost"}
      BY <2>1, <3>1, <3>2
    <3> QED
      BY <2>1, <3>2, <3>3, <3>4
  <2> QED
    BY <2>2, <2>3
<1>10. HeldInv'
  <2>1. ASSUME NEW j \in Jobs
        PROVE  /\ attemptCount[j] \in Nat /\ attemptCount'[j] \in Nat
               /\ attemptCount[j] <= attemptCount'[j]
    <3>1. attemptCount[j] \in Nat
      BY <1>4 DEF TypeOK
    <3>2. attemptCount'[j] = attemptCount[j] \/ attemptCount'[j] = attemptCount[j] + 1
      BY <1>6
    <3> QED
      BY <3>1, <3>2
  <2>2. ASSUME NEW v \in Workers, NEW c \in batch'[v]
        PROVE  c.attempt \in 1 .. attemptCount'[c.job]
    <3>1. CASE v = w
      <4>1. c \in {[job |-> j, attempt |-> attemptCount[j] + 1] : j \in S}
        BY <1>1, <1>4, <2>2, <3>1 DEF TypeOK, NextAttempt
      <4> QED
        BY <1>3, <1>6, <2>1, <4>1
    <3>2. CASE v # w
      <4>1. c \in batch[v] /\ c \in Claims
        BY <1>1, <1>4, <2>2, <3>2 DEF TypeOK
      <4> QED
        BY <1>4, <2>1, <4>1 DEF HeldInv, Claims
    <3> QED
      BY <3>1, <3>2
  <2>3. ASSUME NEW v \in Workers, hand[v] # NoResult
        PROVE  hand[v].attempt \in 1 .. attemptCount'[hand[v].job]
    <3>1. hand[v] \in Results /\ hand[v].attempt \in 1 .. attemptCount[hand[v].job]
      BY <1>4, <2>3 DEF TypeOK, HeldInv
    <3> QED
      BY <2>1, <3>1 DEF Results
  <2> QED
    BY <1>2, <1>4, <2>2, <2>3 DEF HeldInv
<1>11. CompletedWasApplied'
  BY <1>2, <1>4, <1>6 DEF CompletedWasApplied
<1>12. RetriesStayUnderLimit'
  <2> SUFFICES ASSUME NEW j \in Jobs, NEW n \in DOMAIN attempts'[j],
                      attempts'[j][n] = "retry"
               PROVE  n < MaxAttempts
    BY DEF RetriesStayUnderLimit
  <2>1. Len(attempts[j]) = attemptCount[j] /\ attempts[j] \in Seq(AttemptRows)
        /\ attemptCount[j] \in Nat
    BY <1>4 DEF RowInv, TypeOK
  <2>2. CASE j \notin S
    BY <1>4, <1>6, <2>2 DEF RetriesStayUnderLimit
  <2>3. CASE j \in S
    <3>1. n \in 1 .. attemptCount[j] + 1 /\ RowsAfterClaim(j)[n] = "retry"
      BY <1>6, <1>7, <2>1, <2>3
    <3>2. n \in 1 .. attemptCount[j] /\ attempts[j][n] = "retry"
      BY <1>7, <2>1, <3>1
    <3> QED
      BY <1>4, <2>1, <3>2 DEF RetriesStayUnderLimit
  <2> QED
    BY <2>2, <2>3
<1> QED
  BY <1>8, <1>9, <1>10, <1>11, <1>12 DEF IndInv

LEMMA RunHandlerStep ==
  ASSUME IndInv, NEW w \in Workers, RunHandler(w)
  PROVE  IndInv'
<1>1. PICK c \in batch[w], how \in {"returned", "permanent", "raised"},
           committed \in BOOLEAN : RunHandler(w)!2!(c, how, committed)
  BY DEF RunHandler
<1>2. UNCHANGED <<state, due, lease, leaseLeft, attemptCount, attempts, mishaps>>
  BY DEF RunHandler, jobVars
<1>3. TypeOK /\ RowInv /\ HeldInv /\ CompletedWasApplied /\ RetriesStayUnderLimit
  BY DEF IndInv
<1>4. c \in Claims /\ c.job \in Jobs /\ c.attempt \in Nat
  BY <1>3 DEF TypeOK, Claims
<1> DEFINE r == [job |-> c.job, attempt |-> c.attempt,
                 outcome |-> Outcome(how, c.attempt)]
<1>5. /\ r \in Results
      /\ r.outcome = "retry" => c.attempt < MaxAttempts
      /\ r.outcome = "succeeded" => committed
  BY <1>1, <1>4, SettingsTypes DEF Outcome, Results
<1>6. \A j \in Jobs : applied[j] \subseteq applied'[j]
  BY <1>1, <1>3 DEF TypeOK
<1>7. committed => c.attempt \in applied'[c.job]
  BY <1>1, <1>3, <1>4 DEF TypeOK
<1>8. TypeOK'
  <2>1. applied' \in [Jobs -> SUBSET Nat]
    BY <1>1, <1>3, <1>4 DEF TypeOK
  <2>2. batch' \in [Workers -> SUBSET Claims]
    BY <1>1, <1>3 DEF TypeOK
  <2>3. hand' \in [Workers -> Results \cup {NoResult}]
    BY <1>1, <1>3, <1>5 DEF TypeOK
  <2> QED
    BY <1>2, <1>3, <2>1, <2>2, <2>3 DEF TypeOK
<1>9. RowInv' /\ RetriesStayUnderLimit'
  BY <1>2, <1>3 DEF RowInv, RetriesStayUnderLimit
<1>10. HeldInv'
  <2>1. \A v \in Workers : batch'[v] \subseteq batch[v]
    BY <1>1, <1>3 DEF TypeOK
  <2>2. \A v \in Workers : hand'[v] = IF v = w THEN r ELSE hand[v]
    BY <1>1, <1>3 DEF TypeOK
  <2>3. c.attempt \in 1 .. attemptCount[c.job]
    BY <1>3 DEF HeldInv
  <2>4. ASSUME NEW v \in Workers, hand'[v] # NoResult
        PROVE  /\ hand'[v].attempt \in 1 .. attemptCount[hand'[v].job]
               /\ hand'[v].outcome = "retry" => hand'[v].attempt < MaxAttempts
               /\ hand'[v].outcome = "succeeded" =>
                    hand'[v].attempt \in applied'[hand'[v].job]
    <3>1. CASE v = w
      BY <1>5, <1>7, <2>2, <2>3, <3>1
    <3>2. CASE v # w
      <4>1. hand'[v] = hand[v] /\ hand[v].job \in Jobs
        BY <1>3, <2>2, <2>4, <3>2 DEF TypeOK, Results
      <4> QED
        BY <1>3, <1>6, <2>4, <4>1 DEF HeldInv
    <3> QED
      BY <3>1, <3>2
  <2> QED
    BY <1>2, <1>3, <2>1, <2>4 DEF HeldInv
<1>11. CompletedWasApplied'
  BY <1>2, <1>3, <1>6 DEF CompletedWasApplied
<1> QED
  BY <1>8, <1>9, <1>10, <1>11 DEF IndInv

(* A finish under a lease that has been lost changes no job. *)
LEMMA FinishStep ==
  ASSUME IndInv, NEW w \in Workers, Finish(w)
  PROVE  IndInv'
<1> DEFINE r == hand[w]
<1>1. TypeOK /\ RowInv /\ HeldInv /\ CompletedWasApplied /\ RetriesStayUnderLimit
  BY DEF IndInv
<1>2. /\ r # NoResult
      /\ hand' = [hand EXCEPT ![w] = NoResult]
      /\ UNCHANGED <<applied, batch, mishaps>>
  BY DEF Finish
<1>3. /\ r \in Results /\ r.job \in Jobs /\ r.attempt \in Nat
      /\ r.outcome \in {"succeeded", "retry", "dead"}
      /\ r.attempt \in 1 .. attemptCount[r.job]
      /\ r.outcome = "retry" => r.attempt < MaxAttempts
      /\ r.outcome = "succeeded" => r.attempt \in applied[r.job]
  BY <1>1, <1>2 DEF TypeOK, HeldInv, Results
<1>4. hand' \in [Workers -> Results \cup {NoResult}]
      /\ \A v \in Workers : hand'[v] # NoResult => hand'[v] = hand[v]
  BY <1>1, <1>2 DEF TypeOK
<1>5. CASE ~FenceHolds(r)
  <2>1. UNCHANGED <<state, due, lease, leaseLeft, attemptCount, attempts>>
    BY <1>5 DEF Finish, jobVars
  <2>2. TypeOK'
    BY <1>1, <1>2, <1>4, <2>1 DEF TypeOK
  <2>3. RowInv' /\ RetriesStayUnderLimit' /\ CompletedWasApplied'
    BY <1>1, <1>2, <2>1 DEF RowInv, RetriesStayUnderLimit, CompletedWasApplied
  <2>4. HeldInv'
    BY <1>1, <1>2, <1>4, <2>1 DEF HeldInv
  <2> QED
    BY <2>2, <2>3, <2>4 DEF IndInv
<1>6. CASE FenceHolds(r)
  <2>1. /\ state' = [state EXCEPT ![r.job] = StateAfter(r.outcome)]
        /\ due' = IF r.outcome = "retry"
                  THEN [due EXCEPT ![r.job] = backoff(r.attempt)] ELSE due
        /\ lease' = [lease EXCEPT ![r.job] = 0]
        /\ leaseLeft' = [leaseLeft EXCEPT ![r.job] = 0]
        /\ attempts' = [attempts EXCEPT ![r.job] =
                          CloseAttempt(attempts[r.job], r.attempt, r.outcome)]
        /\ UNCHANGED attemptCount
    BY <1>6 DEF Finish
  <2>2. state[r.job] = "leased" /\ lease[r.job] = r.attempt
        /\ r.attempt = attemptCount[r.job]
    BY <1>1, <1>3, <1>6 DEF FenceHolds, RowInv
  <2> DEFINE rows == CloseAttempt(attempts[r.job], r.attempt, r.outcome)
  <2>3. /\ rows \in Seq(AttemptRows)
        /\ Len(rows) = Len(attempts[r.job])
        /\ \A n \in 1 .. Len(attempts[r.job]) :
             rows[n] = IF n = r.attempt /\ attempts[r.job][n] = "open"
                       THEN r.outcome ELSE attempts[r.job][n]
    <3>1. attempts[r.job] \in Seq(AttemptRows) /\ r.outcome \in FinalOutcomes
      BY <1>1, <1>3 DEF TypeOK, FinalOutcomes
    <3> QED
      BY <1>3, <3>1, CloseAttemptRows
  <2>4. /\ Len(attempts[r.job]) = attemptCount[r.job]
        /\ attempts[r.job][attemptCount[r.job]] = "open"
        /\ attemptCount[r.job] \in Nat \ {0}
        /\ \A n \in 1 .. attemptCount[r.job] - 1 :
             attempts[r.job][n] \in {"retry", "lease_lost"}
    BY <1>1, <1>3, <2>2 DEF RowInv, TypeOK
  <2>5. /\ rows[attemptCount[r.job]] = r.outcome
        /\ \A n \in 1 .. attemptCount[r.job] - 1 : rows[n] = attempts[r.job][n]
    BY <2>2, <2>3, <2>4
  <2> HIDE DEF rows
  <2>6. TypeOK'
    <3>1. state' \in [Jobs -> JobStates]
      BY <1>1, <1>3, <2>1 DEF TypeOK, StateAfter, JobStates
    <3>2. due' \in [Jobs -> Int]
      <4>1. backoff(r.attempt) \in Int
        BY <1>3, BackoffType
      <4> QED
        BY <1>1, <1>3, <2>1, <4>1 DEF TypeOK
    <3>3. lease' \in [Jobs -> Nat] /\ leaseLeft' \in [Jobs -> Nat]
      BY <1>1, <2>1 DEF TypeOK
    <3>4. attempts' \in [Jobs -> Seq(AttemptRows)]
      BY <1>1, <2>1, <2>3 DEF TypeOK, rows
    <3> QED
      BY <1>1, <1>2, <1>4, <2>1, <3>1, <3>2, <3>3, <3>4 DEF TypeOK
  <2>7. RowInv'
    <3> SUFFICES ASSUME NEW j \in Jobs PROVE RowInv!(j)'
      BY DEF RowInv
    <3>1. RowInv!(j)
      BY <1>1 DEF RowInv
    <3>2. CASE j # r.job
      <4>1. state'[j] = state[j] /\ lease'[j] = lease[j] /\ attempts'[j] = attempts[j]
            /\ attemptCount'[j] = attemptCount[j]
        BY <1>1, <2>1, <3>2 DEF TypeOK
      <4> QED
        BY <3>1, <4>1
    <3>3. CASE j = r.job
      <4>1. state'[j] = StateAfter(r.outcome) /\ lease'[j] = 0 /\ attempts'[j] = rows
            /\ attemptCount'[j] = attemptCount[j]
        BY <1>1, <2>1, <3>3 DEF TypeOK, rows
      <4>2. StateAfter(r.outcome) =
              IF r.outcome = "succeeded" THEN "completed" ELSE r.outcome
        BY <1>3 DEF StateAfter
      <4> QED
        BY <1>3, <2>3, <2>4, <2>5, <3>3, <4>1, <4>2
    <3> QED
      BY <3>2, <3>3
  <2>8. HeldInv'
    BY <1>1, <1>2, <1>4, <2>1 DEF HeldInv
  <2>9. CompletedWasApplied'
    <3> SUFFICES ASSUME NEW j \in Jobs, state'[j] = "completed"
                 PROVE  attemptCount[j] \in applied[j]
      BY <1>2, <2>1 DEF CompletedWasApplied
    <3>1. CASE j # r.job
      BY <1>1, <2>1, <3>1 DEF TypeOK, CompletedWasApplied
    <3>2. CASE j = r.job
      BY <1>1, <1>3, <2>1, <2>2, <3>2 DEF TypeOK, StateAfter
    <3> QED
      BY <3>1, <3>2
  <2>10. RetriesStayUnderLimit'
    <3> SUFFICES ASSUME NEW j \in Jobs, NEW n \in DOMAIN attempts'[j],
                        attempts'[j][n] = "retry"
                 PROVE  n < MaxAttempts
      BY DEF RetriesStayUnderLimit
    <3>1. CASE j # r.job
      BY <1>1, <2>1, <3>1 DEF TypeOK, RetriesStayUnderLimit
    <3>2. CASE j = r.job
      <4>1. attempts'[j] = rows /\ n \in 1 .. attemptCount[r.job] /\ rows[n] = "retry"
        BY <1>1, <2>1, <2>3, <2>4, <3>2 DEF TypeOK, rows
      <4>2. CASE n = attemptCount[r.job]
        BY <1>3, <2>2, <2>5, <4>1, <4>2
      <4>3. CASE n # attemptCount[r.job]
        <5>1. n \in 1 .. attemptCount[r.job] - 1
          BY <2>4, <4>1, <4>3
        <5>2. attempts[r.job][n] = "retry" /\ n \in DOMAIN attempts[r.job]
          BY <1>1, <1>3, <2>4, <2>5, <4>1, <5>1 DEF TypeOK
        <5> QED
          BY <1>1, <1>3, <5>2 DEF RetriesStayUnderLimit
      <4> QED
        BY <4>2, <4>3
    <3> QED
      BY <3>1, <3>2
  <2> QED
    BY <2>6, <2>7, <2>8, <2>9, <2>10 DEF IndInv
<1> QED
  BY <1>5, <1>6

LEMMA CrashStep ==
  ASSUME IndInv, NEW w \in Workers, Crash(w)
  PROVE  IndInv'
<1>1. UNCHANGED <<state, due, lease, leaseLeft, attemptCount, attempts, applied>>
      /\ batch' = [batch EXCEPT ![w] = {}] /\ hand' = [hand EXCEPT ![w] = NoResult]
      /\ mishaps' = mishaps + 1
  BY DEF Crash, jobVars
<1>2. TypeOK'
  BY <1>1 DEF IndInv, TypeOK
<1>3. RowInv' /\ CompletedWasApplied' /\ RetriesStayUnderLimit'
  BY <1>1 DEF IndInv, RowInv, CompletedWasApplied, RetriesStayUnderLimit
<1>4. HeldInv'
  BY <1>1 DEF IndInv, TypeOK, HeldInv
<1> QED
  BY <1>2, <1>3, <1>4 DEF IndInv

LEMMA TickStep ==
  ASSUME IndInv, Tick
  PROVE  IndInv'
<1>1. UNCHANGED <<state, lease, attemptCount, attempts, applied, batch, hand>>
      /\ (mishaps' = mishaps + 1 \/ mishaps' = mishaps)
  BY DEF Tick
<1>2. due' \in [Jobs -> Int] /\ leaseLeft' \in [Jobs -> Nat]
  BY SettingsTypes DEF Tick, IndInv, TypeOK
<1>3. TypeOK'
  BY <1>1, <1>2 DEF IndInv, TypeOK
<1>4. RowInv' /\ HeldInv' /\ CompletedWasApplied' /\ RetriesStayUnderLimit'
  BY <1>1 DEF IndInv, RowInv, HeldInv, CompletedWasApplied, RetriesStayUnderLimit
<1> QED
  BY <1>3, <1>4 DEF IndInv

LEMMA NextIndInv == IndInv /\ [Next]_vars => IndInv'
<1> SUFFICES ASSUME IndInv, [Next]_vars PROVE IndInv'
  OBVIOUS
<1>1. CASE Next
  BY <1>1, EnqueueStep, ClaimStep, RunHandlerStep, FinishStep, CrashStep, TickStep
     DEF Next
<1>2. CASE UNCHANGED vars
  BY <1>2 DEF vars, IndInv, TypeOK, RowInv, HeldInv, CompletedWasApplied,
              RetriesStayUnderLimit
<1> QED
  BY <1>1, <1>2

(* The inductive invariant holds of every reachable state. *)
THEOREM Inductive == Spec => []IndInv
<1> QED
  BY InitIndInv, NextIndInv, PTL DEF Spec

(* Every variable keeps its type, for any number of jobs, workers, crashes. *)
THEOREM TypeCorrect == Spec => []TypeOK
<1>1. IndInv => TypeOK
  BY DEF IndInv
<1> QED
  BY <1>1, Inductive, PTL

(***************************************************************************)
(* An attempt row is unfinished exactly while its own lease is the job's:  *)
(* claim and finish leave nothing for reconciliation to report.            *)
(***************************************************************************)
THEOREM LeaseAgreement == Spec => []OpenAttemptIsCurrentLease
<1>1. IndInv => OpenAttemptIsCurrentLease
  <2> SUFFICES ASSUME IndInv, NEW j \in Jobs, NEW n \in DOMAIN attempts[j]
               PROVE  attempts[j][n] = "open" <=> state[j] = "leased" /\ lease[j] = n
    BY DEF OpenAttemptIsCurrentLease
  <2>1. /\ RowInv!(j)
        /\ attempts[j] \in Seq(AttemptRows) /\ attemptCount[j] \in Nat
        /\ state[j] \in JobStates
    BY DEF IndInv, TypeOK, RowInv
  <2>2. n \in 1 .. attemptCount[j]
    BY <2>1
  <2>3. CASE n = attemptCount[j]
    BY <2>1, <2>2, <2>3 DEF JobStates
  <2>4. CASE n # attemptCount[j]
    <3>1. n \in 1 .. attemptCount[j] - 1
      BY <2>1, <2>2, <2>4
    <3> QED
      BY <2>1, <2>4, <3>1
  <2> QED
    BY <2>3, <2>4
<1> QED
  BY <1>1, Inductive, PTL

(* The attempt history of a job always explains its state. *)
THEOREM HistoryAgreement == Spec => []HistoryExplainsState
<1>1. IndInv => HistoryExplainsState
  <2> SUFFICES ASSUME IndInv, NEW j \in Jobs
               PROVE  HistoryExplainsState!(j)
    BY DEF HistoryExplainsState
  <2>1. /\ RowInv!(j)
        /\ attempts[j] \in Seq(AttemptRows) /\ attemptCount[j] \in Nat
        /\ state[j] \in JobStates
    BY DEF IndInv, TypeOK, RowInv
  <2>2. attempts[j] = <<>> <=> attemptCount[j] = 0
    BY <2>1
  <2>3. state[j] \in {"absent", "pending"} <=> attempts[j] = <<>>
    BY <2>1, <2>2
  <2> QED
    BY <2>1, <2>2, <2>3 DEF JobStates
<1> QED
  BY <1>1, Inductive, PTL

(* Completed means handled, under the attempt recorded as successful. *)
THEOREM CompletedMeansApplied == Spec => []CompletedWasApplied
<1>1. IndInv => CompletedWasApplied
  BY DEF IndInv
<1> QED
  BY <1>1, Inductive, PTL

(* Failures are retried only below worker_max_attempts, although the number *)
(* of claims itself has no bound.                                           *)
THEOREM RetryLimit == Spec => []RetriesStayUnderLimit
<1>1. IndInv => RetriesStayUnderLimit
  BY DEF IndInv
<1> QED
  BY <1>1, Inductive, PTL

-----------------------------------------------------------------------------
(* What each kind of step can do to the rows of one job. *)
LEMMA RowSteps ==
  ASSUME IndInv, Next, NEW j \in Jobs
  PROVE  \/ /\ state[j] = "absent"
            /\ UNCHANGED <<attemptCount[j], attempts[j]>>
         \/ /\ state[j] \in {"pending", "retry", "leased"}
            /\ attempts'[j] = RowsAfterClaim(j)
         \/ /\ state[j] = "leased"
            /\ \E t \in Nat, o \in FinalOutcomes :
                 attempts'[j] = CloseAttempt(attempts[j], t, o)
         \/ UNCHANGED <<state[j], attemptCount[j], attempts[j]>>
<1> USE DEF IndInv
<1>1. ASSUME NEW k \in Jobs, Enqueue(k)
      PROVE  \/ state[j] = "absent" /\ UNCHANGED <<attemptCount[j], attempts[j]>>
             \/ UNCHANGED <<state[j], attemptCount[j], attempts[j]>>
  BY <1>1 DEF Enqueue, TypeOK
<1>2. ASSUME NEW w \in Workers, Claim(w)
      PROVE  \/ /\ state[j] \in {"pending", "retry", "leased"}
                /\ attempts'[j] = RowsAfterClaim(j)
             \/ UNCHANGED <<state[j], attemptCount[j], attempts[j]>>
  <2>1. PICK S \in EarliestBatches \ {{}} : Claim(w)!2!(S)
    BY <1>2 DEF Claim
  <2>2. j \in S => state[j] \in {"pending", "retry", "leased"}
    BY <2>1 DEF EarliestBatches, Claimable
  <2> QED
    BY <2>1, <2>2
<1>3. ASSUME NEW w \in Workers, RunHandler(w) \/ Crash(w)
      PROVE  UNCHANGED <<state[j], attemptCount[j], attempts[j]>>
  BY <1>3 DEF RunHandler, Crash, jobVars
<1>4. ASSUME NEW w \in Workers, Finish(w)
      PROVE  \/ /\ state[j] = "leased"
                /\ \E t \in Nat, o \in FinalOutcomes :
                     attempts'[j] = CloseAttempt(attempts[j], t, o)
             \/ UNCHANGED <<state[j], attemptCount[j], attempts[j]>>
  <2>1. hand[w] # NoResult /\ hand[w] \in Results
    BY <1>4 DEF Finish, TypeOK
  <2>2. CASE ~FenceHolds(hand[w]) \/ j # hand[w].job
    BY <1>4, <2>2 DEF Finish, jobVars, TypeOK
  <2>3. CASE FenceHolds(hand[w]) /\ j = hand[w].job
    <3>1. attempts'[j] = CloseAttempt(attempts[j], hand[w].attempt, hand[w].outcome)
      BY <1>4, <2>3 DEF Finish, TypeOK
    <3>2. hand[w].attempt \in Nat /\ hand[w].outcome \in FinalOutcomes
      BY <2>1 DEF Results, FinalOutcomes
    <3> QED
      BY <2>3, <3>1, <3>2 DEF FenceHolds
  <2> QED
    BY <2>2, <2>3
<1>5. Tick => UNCHANGED <<state[j], attemptCount[j], attempts[j]>>
  BY DEF Tick
<1> QED
  BY <1>1, <1>2, <1>3, <1>4, <1>5 DEF Next

(* A completed or dead job is never touched again, by any worker. *)
THEOREM TerminalJobsStay == Spec => TerminalIsFinal
<1>1. IndInv /\ [Next]_vars => [KeepsTerminalJobs]_vars
  <2> SUFFICES ASSUME IndInv, Next PROVE KeepsTerminalJobs
    OBVIOUS
  <2> SUFFICES ASSUME NEW j \in Jobs, Terminal(j)
               PROVE  UNCHANGED <<state[j], attemptCount[j], attempts[j]>>
    BY DEF KeepsTerminalJobs
  <2> QED
    BY RowSteps DEF Terminal
<1> QED
  BY <1>1, Inductive, PTL DEF Spec, TerminalIsFinal

(* A finished attempt keeps its outcome for ever. *)
THEOREM AttemptsAreImmutable == Spec => AttemptsFinalizeOnce
<1>1. IndInv /\ [Next]_vars => [KeepsFinishedAttempts]_vars
  <2> SUFFICES ASSUME IndInv, Next, NEW j \in Jobs, NEW n \in DOMAIN attempts[j]
               PROVE  /\ n \in DOMAIN attempts'[j]
                      /\ attempts[j][n] # "open" => attempts'[j][n] = attempts[j][n]
    BY DEF KeepsFinishedAttempts
  <2>1. /\ attempts[j] \in Seq(AttemptRows)
        /\ attemptCount[j] \in Nat /\ Len(attempts[j]) = attemptCount[j]
        /\ n \in 1 .. Len(attempts[j])
        /\ TypeOK /\ RowInv
    BY DEF IndInv, TypeOK, RowInv
  <2>2. CASE attempts'[j] = attempts[j]
    BY <2>2
  <2>3. CASE attempts'[j] = RowsAfterClaim(j)
    BY <2>1, <2>3, ClaimRows
  <2>4. ASSUME NEW t \in Nat, NEW o \in FinalOutcomes,
               attempts'[j] = CloseAttempt(attempts[j], t, o)
        PROVE  /\ n \in DOMAIN attempts'[j]
               /\ attempts[j][n] # "open" => attempts'[j][n] = attempts[j][n]
    <3>1. /\ CloseAttempt(attempts[j], t, o) \in Seq(AttemptRows)
          /\ Len(CloseAttempt(attempts[j], t, o)) = Len(attempts[j])
          /\ CloseAttempt(attempts[j], t, o)[n] =
               IF n = t /\ attempts[j][n] = "open" THEN o ELSE attempts[j][n]
      BY <2>1, CloseAttemptRows
    <3> QED
      BY <2>1, <2>4, <3>1
  <2> QED
    BY <2>2, <2>3, <2>4, RowSteps
<1> QED
  BY <1>1, Inductive, PTL DEF Spec, AttemptsFinalizeOnce

(***************************************************************************)
(* No attempt is ever held by two workers: a claim draws an attempt number *)
(* above all the numbers any worker can still remember for that job.       *)
(***************************************************************************)
THEOREM OneExecutor == Spec => []AttemptHasOneExecutor
<1>1. Init => AttemptHasOneExecutor
  BY DEF Init, AttemptHasOneExecutor, Held
<1>2. IndInv /\ AttemptHasOneExecutor /\ [Next]_vars => AttemptHasOneExecutor'
  <2> SUFFICES ASSUME IndInv, AttemptHasOneExecutor, [Next]_vars
               PROVE  AttemptHasOneExecutor'
    OBVIOUS
  <2>1. TypeOK
    BY DEF IndInv
  <2>2. ASSUME \A w \in Workers : Held(w)' \subseteq Held(w)
        PROVE  AttemptHasOneExecutor'
    BY <2>2 DEF AttemptHasOneExecutor
  <2>3. ASSUME NEW j \in Jobs, Enqueue(j) PROVE AttemptHasOneExecutor'
    BY <2>2, <2>3 DEF Enqueue, Held
  <2>4. ASSUME NEW w \in Workers, Claim(w) PROVE AttemptHasOneExecutor'
    <3>1. PICK S \in EarliestBatches \ {{}} : Claim(w)!2!(S)
      BY <2>4 DEF Claim
    <3>2. hand' = hand /\ Held(w) = {} /\ hand[w] = NoResult
      BY <2>4 DEF Claim, Held
    <3>3. Held(w)' = {[job |-> j, attempt |-> attemptCount[j] + 1] : j \in S}
      BY <2>1, <3>1, <3>2 DEF Held, TypeOK, NextAttempt
    <3>4. \A v \in Workers : v # w => Held(v)' = Held(v)
      BY <2>1, <3>1, <3>2 DEF Held, TypeOK
    <3>5. \A v \in Workers : \A c \in Held(v) : c.attempt \in 1 .. attemptCount[c.job]
      BY DEF Held, IndInv, HeldInv
    <3>6. \A j \in S : attemptCount[j] \in Nat
      BY <2>1 DEF TypeOK, EarliestBatches, Claimable
    <3>7. \A v \in Workers : v # w => Held(v)' \cap Held(w)' = {}
      BY <3>3, <3>4, <3>5, <3>6
    <3> QED
      BY <3>4, <3>7 DEF AttemptHasOneExecutor
  <2>5. ASSUME NEW w \in Workers, RunHandler(w) PROVE AttemptHasOneExecutor'
    <3>1. PICK c \in batch[w], how \in {"returned", "permanent", "raised"},
               committed \in BOOLEAN : RunHandler(w)!2!(c, how, committed)
      BY <2>5 DEF RunHandler
    <3>2. c = [job |-> c.job, attempt |-> c.attempt]
      BY <2>1 DEF TypeOK, Claims
    <3>3. Held(w)' \subseteq Held(w)
      BY <2>1, <3>1, <3>2 DEF TypeOK, Held
    <3>4. \A v \in Workers : v # w => Held(v)' = Held(v)
      BY <2>1, <3>1 DEF TypeOK, Held
    <3> QED
      BY <2>2, <3>3, <3>4
  <2>6. ASSUME NEW w \in Workers, Finish(w) PROVE AttemptHasOneExecutor'
    BY <2>1, <2>2, <2>6 DEF Finish, Held, TypeOK
  <2>7. ASSUME NEW w \in Workers, Crash(w) PROVE AttemptHasOneExecutor'
    BY <2>1, <2>2, <2>7 DEF Crash, Held, TypeOK
  <2>8. CASE Tick \/ UNCHANGED vars
    BY <2>2, <2>8 DEF Tick, Held, vars
  <2> QED
    BY <2>3, <2>4, <2>5, <2>6, <2>7, <2>8 DEF Next
<1> QED
  BY <1>1, <1>2, Inductive, PTL DEF Spec

-----------------------------------------------------------------------------
(* A claim that has not been handled has not taken effect, and no attempt  *)
(* takes effect before it has been claimed.                                *)
ClaimsUnworked ==
  /\ \A w \in Workers : \A c \in batch[w] : c.attempt \notin applied[c.job]
  /\ \A j \in Jobs : \A n \in applied[j] : n \in 1 .. attemptCount[j]

(* It holds because no two workers hold the same claim. *)
LEMMA UnworkedClaims == Spec => []ClaimsUnworked
<1>1. Init => ClaimsUnworked
  BY DEF Init, ClaimsUnworked
<1>2. /\ IndInv /\ AttemptHasOneExecutor /\ ClaimsUnworked /\ [Next]_vars
      => ClaimsUnworked'
  <2> SUFFICES ASSUME IndInv, AttemptHasOneExecutor, ClaimsUnworked, [Next]_vars
               PROVE  ClaimsUnworked'
    OBVIOUS
  <2>1. TypeOK /\ HeldInv
    BY DEF IndInv
  <2>2. ASSUME applied' = applied, attemptCount' = attemptCount,
               \A w \in Workers : batch'[w] \subseteq batch[w]
        PROVE  ClaimsUnworked'
    BY <2>2 DEF ClaimsUnworked
  <2>3. ASSUME NEW w \in Workers, Claim(w) PROVE ClaimsUnworked'
    <3>1. PICK S \in EarliestBatches \ {{}} : Claim(w)!2!(S)
      BY <2>3 DEF Claim
    <3>2. S \subseteq Jobs /\ applied' = applied
      BY <2>3, <3>1 DEF EarliestBatches, Claimable, Claim
    <3>3. \A j \in Jobs : /\ attemptCount[j] \in Nat
                          /\ attemptCount'[j] = IF j \in S THEN attemptCount[j] + 1
                                                           ELSE attemptCount[j]
      BY <2>1, <3>1 DEF TypeOK, NextAttempt
    <3>4. \A j \in Jobs : \A n \in applied'[j] : n \in 1 .. attemptCount'[j]
      BY <3>2, <3>3 DEF ClaimsUnworked
    <3>5. batch'[w] = {[job |-> j, attempt |-> attemptCount[j] + 1] : j \in S}
      BY <2>1, <3>1 DEF TypeOK, NextAttempt
    <3>6. \A c \in batch'[w] : c.attempt \notin applied'[c.job]
      <4> SUFFICES ASSUME NEW j \in S PROVE attemptCount[j] + 1 \notin applied[j]
        BY <3>2, <3>5
      <4> QED
        BY <3>2, <3>3 DEF ClaimsUnworked
    <3>7. \A v \in Workers : v # w => batch'[v] = batch[v]
      BY <2>1, <3>1 DEF TypeOK
    <3> QED
      BY <3>2, <3>4, <3>6, <3>7 DEF ClaimsUnworked
  <2>4. ASSUME NEW w \in Workers, RunHandler(w) PROVE ClaimsUnworked'
    <3>1. PICK c \in batch[w], how \in {"returned", "permanent", "raised"},
               committed \in BOOLEAN : RunHandler(w)!2!(c, how, committed)
      BY <2>4 DEF RunHandler
    <3>2. attemptCount' = attemptCount /\ c \in Claims
      BY <2>1, <2>4 DEF RunHandler, jobVars, TypeOK
    <3>3. CASE ~committed
      BY <2>1, <2>2, <3>1, <3>2, <3>3 DEF TypeOK
    <3>4. CASE committed
      <4>1. \A j \in Jobs : applied'[j] = IF j = c.job THEN applied[j] \cup {c.attempt}
                                                       ELSE applied[j]
        BY <2>1, <3>1, <3>4 DEF TypeOK
      <4>2. c.attempt \in 1 .. attemptCount[c.job]
        BY <2>1 DEF HeldInv
      <4>3. \A v \in Workers : \A d \in batch'[v] : d \in batch[v] /\ d # c
        <5>1. \A d \in batch'[w] : d \in batch[w] /\ d # c
          BY <2>1, <3>1 DEF TypeOK
        <5>2. \A v \in Workers : v # w => batch'[v] = batch[v] /\ c \notin batch[v]
          BY <2>1, <3>1 DEF TypeOK, AttemptHasOneExecutor, Held
        <5> QED
          BY <5>1, <5>2
      <4>4. \A v \in Workers : \A d \in batch'[v] : d \in Claims
        BY <2>1, <4>3 DEF TypeOK
      <4>5. ASSUME NEW v \in Workers, NEW d \in batch'[v]
            PROVE  d.attempt \notin applied'[d.job]
        <5>1. d.job \in Jobs /\ (d.job # c.job \/ d.attempt # c.attempt)
          BY <3>2, <4>3, <4>4 DEF Claims
        <5>2. d.attempt \notin applied[d.job]
          BY <4>3 DEF ClaimsUnworked
        <5> QED
          BY <4>1, <5>1, <5>2
      <4> QED
        BY <3>2, <4>1, <4>2, <4>5 DEF ClaimsUnworked
    <3> QED
      BY <3>3, <3>4
  <2>5. ASSUME NEW w \in Workers, Finish(w) PROVE ClaimsUnworked'
    BY <2>2, <2>5 DEF Finish, jobVars
  <2>6. ASSUME NEW w \in Workers, Crash(w) PROVE ClaimsUnworked'
    BY <2>1, <2>2, <2>6 DEF Crash, jobVars, TypeOK
  <2>7. CASE (\E j \in Jobs : Enqueue(j)) \/ Tick \/ UNCHANGED vars
    BY <2>2, <2>7 DEF Enqueue, Tick, vars
  <2> QED
    BY <2>3, <2>4, <2>5, <2>6, <2>7 DEF Next
<1> QED
  BY <1>1, <1>2, Inductive, OneExecutor, PTL DEF Spec

(* A handler run is one attempt of the abstract queue taking effect, or     *)
(* nothing at all.                                                          *)
LEMMA RunHandlerWorks ==
  ASSUME TypeOK, HeldInv, ClaimsUnworked, NEW w \in Workers, RunHandler(w)
  PROVE  Queue!QueueNext \/ UNCHANGED Queue!queueVars
<1>1. PICK c \in batch[w], how \in {"returned", "permanent", "raised"},
           committed \in BOOLEAN : RunHandler(w)!2!(c, how, committed)
  BY DEF RunHandler
<1>2. UNCHANGED <<state, attemptCount>> /\ c \in Claims
  BY DEF RunHandler, jobVars, TypeOK
<1>3. UNCHANGED OpenStatus /\ OpenStatus = [k \in Jobs |-> OpenStatus[k]]
  BY <1>2 DEF OpenStatus
<1>4. CASE ~committed
  BY <1>1, <1>2, <1>3, <1>4 DEF Queue!queueVars
<1>5. CASE committed
  <2>1. c.job \in Jobs /\ c.attempt \in 1 .. attemptCount[c.job] \ applied[c.job]
    BY <1>2 DEF HeldInv, ClaimsUnworked, Claims
  <2>2. Queue!Work(c.job, c.attempt, {})
    BY <1>1, <1>2, <1>3, <1>5, <2>1 DEF Queue!Work
  <2> QED
    BY <2>1, <2>2 DEF Queue!QueueNext
<1> QED
  BY <1>4, <1>5

(* A finish settles the job once, or leaves it open for the next attempt. *)
LEMMA FinishSettles ==
  ASSUME IndInv, NEW w \in Workers, Finish(w)
  PROVE  Queue!QueueNext \/ UNCHANGED Queue!queueVars
<1> DEFINE r == hand[w]
<1>1. /\ TypeOK /\ RowInv /\ HeldInv
      /\ r # NoResult /\ r \in Results
  BY DEF IndInv, Finish, TypeOK
<1>2. UNCHANGED <<attemptCount, applied>>
  BY DEF Finish, jobVars
<1>3. CASE ~FenceHolds(r)
  BY <1>2, <1>3 DEF Finish, jobVars, OpenStatus, Queue!queueVars
<1>4. CASE FenceHolds(r)
  <2>1. /\ r.job \in Jobs
        /\ state[r.job] = "leased"
        /\ r.attempt = attemptCount[r.job]
        /\ attemptCount[r.job] > 0
        /\ r.outcome \in {"succeeded", "retry", "dead"}
    BY <1>1, <1>4 DEF FenceHolds, RowInv, Results, TypeOK
  <2>2. state' = [state EXCEPT ![r.job] = StateAfter(r.outcome)]
    BY <1>4 DEF Finish
  <2>3. \A j \in Jobs : state'[j] = IF j = r.job THEN StateAfter(r.outcome) ELSE state[j]
    BY <1>1, <2>2 DEF TypeOK
  <2>4. CASE r.outcome = "retry"
    <3>1. \A j \in Jobs : OpenStatus'[j] = OpenStatus[j]
      BY <2>1, <2>3, <2>4 DEF StateAfter, OpenStatus
    <3>2. UNCHANGED OpenStatus
      BY <3>1 DEF OpenStatus
    <3> QED
      BY <1>2, <3>2 DEF Queue!queueVars
  <2>5. CASE r.outcome \in {"succeeded", "dead"}
    <3>1. StateAfter(r.outcome) \in {"completed", "dead"}
      BY <2>5 DEF StateAfter
    <3>2. StateAfter(r.outcome) = "completed" => r.outcome = "succeeded"
      BY <2>5 DEF StateAfter
    <3>3. r.outcome = "succeeded" => attemptCount[r.job] \in applied[r.job]
      BY <1>1, <2>1 DEF HeldInv
    <3>4. OpenStatus' = [OpenStatus EXCEPT ![r.job] = StateAfter(r.outcome)]
      BY <2>1, <2>3, <3>1 DEF OpenStatus
    <3>5. OpenStatus[r.job] = "open"
      BY <2>1 DEF OpenStatus
    <3>6. Queue!Settle(r.job, StateAfter(r.outcome))
      BY <1>2, <2>1, <3>2, <3>3, <3>4, <3>5 DEF Queue!Settle
    <3> QED
      BY <2>1, <3>1, <3>6 DEF Queue!QueueNext
  <2> QED
    BY <2>1, <2>4, <2>5
<1> QED
  BY <1>3, <1>4

(***************************************************************************)
(* OutboxJobs implements JobQueue: whatever workers do late, each step is  *)
(* a step of the abstract queue or leaves it alone.                        *)
(***************************************************************************)
THEOREM ImplementsAbstractQueue == Spec => ImplementsQueue
<1>1. Init => Queue!QueueInit
  BY DEF Init, OpenStatus, Queue!QueueInit
<1>2. IndInv /\ ClaimsUnworked /\ [Next]_vars => [Queue!QueueNext]_(Queue!queueVars)
  <2> SUFFICES ASSUME IndInv, ClaimsUnworked, [Next]_vars
               PROVE  Queue!QueueNext \/ UNCHANGED Queue!queueVars
    OBVIOUS
  <2>1. TypeOK /\ RowInv /\ HeldInv
    BY DEF IndInv
  <2>2. ASSUME NEW j \in Jobs, Enqueue(j) PROVE Queue!QueueNext
    <3>1. OpenStatus[j] = "absent" /\ OpenStatus' = [OpenStatus EXCEPT ![j] = "open"]
      BY <2>1, <2>2 DEF Enqueue, OpenStatus, TypeOK
    <3>2. Queue!Enqueue(j)
      BY <2>2, <3>1 DEF Enqueue, Queue!Enqueue
    <3> QED
      BY <3>2 DEF Queue!QueueNext
  <2>3. ASSUME NEW w \in Workers, Claim(w) PROVE Queue!QueueNext
    <3>1. PICK S \in EarliestBatches \ {{}} : Claim(w)!2!(S)
      BY <2>3 DEF Claim
    <3>2. /\ S \in SUBSET Jobs /\ S # {} /\ applied' = applied
          /\ \A j \in S : state[j] \in {"pending", "retry", "leased"}
      BY <2>3, <3>1 DEF EarliestBatches, Claimable, Claim
    <3>3. \A j \in S : OpenStatus[j] = "open"
      BY <3>2 DEF OpenStatus
    <3>4. UNCHANGED OpenStatus
      BY <3>1, <3>2 DEF OpenStatus
    <3>5. attemptCount' = [j \in Jobs |-> IF j \in S THEN attemptCount[j] + 1
                                                     ELSE attemptCount[j]]
      BY <3>1 DEF NextAttempt
    <3>6. Queue!Attempt(S)
      BY <3>2, <3>3, <3>4, <3>5 DEF Queue!Attempt
    <3> QED
      BY <3>2, <3>6 DEF Queue!QueueNext
  <2>4. ASSUME NEW w \in Workers, RunHandler(w)
        PROVE  Queue!QueueNext \/ UNCHANGED Queue!queueVars
    BY <2>1, <2>4, RunHandlerWorks
  <2>5. ASSUME NEW w \in Workers, Finish(w)
        PROVE  Queue!QueueNext \/ UNCHANGED Queue!queueVars
    BY <2>5, FinishSettles
  <2>6. CASE (\E w \in Workers : Crash(w)) \/ Tick \/ UNCHANGED vars
    BY <2>6 DEF Crash, Tick, jobVars, vars, OpenStatus, Queue!queueVars
  <2> QED
    BY <2>2, <2>3, <2>4, <2>5, <2>6 DEF Next
<1> QED
  BY <1>1, <1>2, Inductive, UnworkedClaims, PTL DEF Spec, ImplementsQueue, Queue!QueueSpec
=============================================================================
