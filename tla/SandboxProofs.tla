--------------------------- MODULE SandboxProofs ---------------------------
(***************************************************************************)
(* Theorems about Sandbox, for any approvals, webhooks and failing writes. *)
(* A request takes a document to one that holds all the old one held; the  *)
(* steps of the write and of the process only move documents about.        *)
(***************************************************************************)
EXTENDS Sandbox, FiniteSetTheorems, SequenceTheorems, TLAPS

Entries(ledger, direction) == Cardinality({n \in DOMAIN ledger : ledger[n] = direction})

LEMMA EntriesOfAppend ==
  ASSUME NEW D, NEW ledger \in Seq(D), NEW d \in D, NEW x
  PROVE  /\ Entries(ledger, x) \in Nat
         /\ Entries(Append(ledger, d), x) = Entries(ledger, x) + (IF d = x THEN 1 ELSE 0)
<1> DEFINE n == Len(ledger)
           S == {m \in DOMAIN ledger : ledger[m] = x}
           T == {m \in DOMAIN Append(ledger, d) : Append(ledger, d)[m] = x}
<1>1. n \in Nat /\ DOMAIN ledger = 1 .. n
  OBVIOUS
<1>2. IsFiniteSet(S)
  <2>1. IsFiniteSet(1 .. n)
    BY <1>1, FS_Interval
  <2> QED
    BY <1>1, <2>1, FS_Subset
<1>3. T = IF d = x THEN S \cup {n + 1} ELSE S
  BY <1>1
<1>4. n + 1 \notin S
  BY <1>1
<1>5. Cardinality(S) \in Nat
  BY <1>2, FS_CardinalityType
<1>6. Cardinality(S \cup {n + 1}) = Cardinality(S) + 1
  BY <1>2, <1>4, FS_AddElement
<1> HIDE DEF S, T
<1>7. Cardinality(T) = Cardinality(S) + (IF d = x THEN 1 ELSE 0)
  BY <1>3, <1>5, <1>6
<1> QED
  BY <1>5, <1>7 DEF Entries, S, T

LEMMA LedgerGrows ==
  ASSUME NEW D, NEW ledger \in Seq(D), NEW d \in D
  PROVE  /\ SubSeq(ledger, 1, Len(ledger)) = ledger
         /\ SubSeq(Append(ledger, d), 1, Len(ledger)) = ledger
<1>1. SubSeq(ledger, 1, Len(ledger)) = ledger
  BY SubSeqFull
<1>2. /\ Append(ledger, d) \in Seq(D) /\ Len(Append(ledger, d)) = Len(ledger) + 1
      /\ Len(ledger) \in Nat
  OBVIOUS
<1>3. SubSeq(Append(ledger, d), 1, Len(ledger)) = Restrict(Append(ledger, d), 1 .. Len(ledger))
  <2>1. Len(ledger) \in 0 .. Len(Append(ledger, d))
    BY <1>2
  <2> DEFINE longer == Append(ledger, d)
  <2>2. longer \in Seq(D)
    BY <1>2
  <2> HIDE DEF longer
  <2>3. \A n \in 0 .. Len(longer) : SubSeq(longer, 1, n) = Restrict(longer, 1 .. n)
    BY <2>2, SubSeqRestrict
  <2>4. SubSeq(longer, 1, Len(ledger)) = Restrict(longer, 1 .. Len(ledger))
    BY <2>1, <2>3 DEF longer
  <2> QED
    BY <2>4 DEF longer
<1>4. SubSeq(ledger, 1, Len(ledger)) = Restrict(ledger, 1 .. Len(ledger))
  BY <1>2, SubSeqRestrict
<1>5. Restrict(Append(ledger, d), 1 .. Len(ledger)) = Restrict(ledger, 1 .. Len(ledger))
  BY <1>2 DEF Restrict
<1> QED
  BY <1>1, <1>3, <1>4, <1>5

-----------------------------------------------------------------------------
(* What holds of every document, in memory or in the file. *)
Sound(t) == t \in Documents /\ Consistent(t) /\ AnswersAreBacked(t)

(* What no request takes back. *)
Extends(t, d) ==
  /\ SubSeq(d.ledger, 1, Len(t.ledger)) = t.ledger
  /\ t.billable => d.billable
  /\ \A key \in Answered(t) :
       key \in Answered(d) /\ d.answers[key].outcome = t.answers[key].outcome
  /\ HeldBy(t) \subseteq HeldBy(d)

LEMMA SeedIsSound == Sound(Seed)
<1>1. Seed \in Documents
  <2>1. /\ [key \in Keys |-> Nothing] \in [Keys -> Stored \cup {Nothing}]
        /\ [r \in Receipts |-> 0] \in [Receipts -> Nat]
        /\ <<>> \in Seq({"debit", "credit"}) /\ Nothing \in Stages
    BY DEF Stages
  <2> DEFINE answers == [key \in Keys |-> Nothing]
             receipts == [r \in Receipts |-> 0]
  <2>2. Seed = [order |-> Nothing, lead |-> Nothing, checks |-> FALSE,
                delivery |-> Nothing, cod |-> Nothing, contract |-> "active",
                outcome |-> Nothing, billable |-> FALSE, ledger |-> <<>>,
                disputed |-> FALSE, receipts |-> receipts, answers |-> answers]
    BY DEF Seed
  <2>3. /\ answers \in [Keys -> Stored \cup {Nothing}] /\ receipts \in [Receipts -> Nat]
    BY <2>1
  <2> HIDE DEF answers, receipts
  <2> QED
    BY <2>1, <2>2, <2>3 DEF Documents
<1>2. /\ Seed.answers = [key \in Keys |-> Nothing] /\ Seed.outcome = Nothing
      /\ Seed.order = Nothing /\ Seed.checks = FALSE /\ Seed.delivery = Nothing
      /\ Seed.cod = Nothing /\ Seed.billable = FALSE /\ Seed.disputed = FALSE
      /\ Seed.ledger = <<>> /\ Seed.receipts = [r \in Receipts |-> 0]
  BY DEF Seed
<1>3. Answered(Seed) = {}
  BY <1>2 DEF Answered
<1>4. \A x : {n \in DOMAIN Seed.ledger : Seed.ledger[n] = x} = {}
  BY <1>2
<1>5. \A x : Cardinality({n \in DOMAIN Seed.ledger : Seed.ledger[n] = x}) = 0
  BY <1>4, FS_EmptySet
<1>6. \A r \in Receipts : Seed.receipts[r] = 0 /\ r \in Keys
  BY <1>2 DEF Keys
<1>7. Consistent(Seed)
  BY <1>2, <1>3, <1>5, <1>6 DEF Consistent
<1> QED
  BY <1>1, <1>3, <1>7 DEF Sound, AnswersAreBacked

LEMMA SoundFields ==
  ASSUME NEW t, Sound(t)
  PROVE  /\ t.order \in Approvals \cup {Nothing} /\ t.lead \in Stages /\ t.checks \in BOOLEAN
         /\ t.delivery \in Events \cup {Nothing} /\ t.cod \in Events \cup {Nothing}
         /\ t.contract = "active" /\ t.outcome \in Outcomes \cup {Nothing}
         /\ t.billable \in BOOLEAN /\ t.ledger \in Seq({"debit", "credit"})
         /\ t.disputed \in BOOLEAN /\ t.receipts \in [Receipts -> Nat]
         /\ t.answers \in [Keys -> Stored \cup {Nothing}]
         /\ Readiness(t) \subseteq Checklist
BY DEF Sound, Documents, Readiness

(* A request that ends in an evaluation: as long as it takes no evidence    *)
(* back and keeps the answers, the fee is charged when it is due, once.     *)
LEMMA EvaluationIsSound ==
  ASSUME NEW t, Sound(t), NEW d \in Documents,
         Readiness(t) \subseteq Readiness(d),
         d.outcome = [ready |-> Readiness(d)],
         d.billable <=> Readiness(d) = Checklist,
         d.ledger = IF Readiness(d) = Checklist /\ ~t.billable THEN Append(t.ledger, "debit")
                                                              ELSE t.ledger,
         d.disputed = t.disputed,
         \A r \in Receipts : d.receipts[r] = IF r \in Answered(d) THEN 1 ELSE 0,
         \A key \in Answered(t) :
           key \in Answered(d) /\ d.answers[key].outcome = t.answers[key].outcome,
         \A key \in Answered(d) \ Answered(t) : d.answers[key].outcome = d.outcome
  PROVE  Sound(d) /\ Extends(t, d) /\ Billed(d.outcome) \subseteq HeldBy(d)
<1>1. /\ t.ledger \in Seq({"debit", "credit"}) /\ t.billable \in BOOLEAN
      /\ t.disputed \in BOOLEAN /\ Readiness(d) \subseteq Checklist
  BY SoundFields DEF Readiness
<1>2. t.billable => Readiness(d) = Checklist
  BY <1>1 DEF Sound, Consistent
<1>3. d.outcome # Nothing /\ d.outcome.ready = Readiness(d)
  <2>1. [ready |-> Readiness(d)] \in Outcomes
    BY <1>1 DEF Outcomes
  <2> QED
    BY <2>1, SandboxAssumption
<1>4. /\ Entries(t.ledger, "debit") = IF t.billable THEN 1 ELSE 0
      /\ Entries(t.ledger, "credit") = IF t.disputed THEN 1 ELSE 0
  BY DEF Sound, Consistent, Entries
<1>5. /\ Entries(d.ledger, "debit") = IF d.billable THEN 1 ELSE 0
      /\ Entries(d.ledger, "credit") = IF d.disputed THEN 1 ELSE 0
  <2>1. /\ Entries(Append(t.ledger, "debit"), "debit") = Entries(t.ledger, "debit") + 1
        /\ Entries(Append(t.ledger, "debit"), "credit") = Entries(t.ledger, "credit") + 0
    BY <1>1, EntriesOfAppend
  <2> QED
    BY <1>1, <1>2, <1>4, <2>1
<1>6. Consistent(d)
  BY <1>3, <1>5 DEF Consistent, Entries
<1>7. AnswersAreBacked(d)
  BY <1>2, <1>3 DEF Sound, AnswersAreBacked
<1>8. SubSeq(d.ledger, 1, Len(t.ledger)) = t.ledger
  BY <1>1, LedgerGrows
<1>9. HeldBy(t) \subseteq HeldBy(d)
  BY <1>2 DEF HeldBy
<1>10. Billed(d.outcome) \subseteq HeldBy(d)
  BY <1>3 DEF Billed, HeldBy
<1> QED
  BY <1>2, <1>6, <1>7, <1>8, <1>9, <1>10 DEF Sound, Extends

-----------------------------------------------------------------------------
LEMMA SoundType ==
  ASSUME NEW t, Sound(t)
  PROVE  t \in Documents
BY DEF Sound

(* The evaluation of a document that has not been evaluated since its       *)
(* evidence changed.                                                        *)
LEMMA EvaluateFields ==
  ASSUME NEW t \in Documents
  PROVE  /\ Evaluate(t) \in Documents
         /\ Readiness(Evaluate(t)) = Readiness(t)
         /\ Evaluate(t).outcome = [ready |-> Readiness(t)]
         /\ Evaluate(t).billable <=> t.billable \/ Readiness(t) = Checklist
         /\ Evaluate(t).ledger = IF Readiness(t) = Checklist /\ ~t.billable
                                 THEN Append(t.ledger, "debit") ELSE t.ledger
         /\ Evaluate(t).order = t.order /\ Evaluate(t).lead = t.lead
         /\ Evaluate(t).disputed = t.disputed /\ Evaluate(t).receipts = t.receipts
         /\ Evaluate(t).answers = t.answers
<1> DEFINE o == [ready |-> Readiness(t)]
           evaluated == [t EXCEPT !.outcome = o]
           charged == [evaluated EXCEPT !.billable = TRUE]
           billed == [charged EXCEPT !.ledger = Append(t.ledger, "debit")]
<1>1. o \in Outcomes
  BY DEF Readiness, Outcomes
<1> HIDE DEF o
<1>2. /\ evaluated \in Documents /\ evaluated.outcome = o
      /\ evaluated.order = t.order /\ evaluated.lead = t.lead /\ evaluated.checks = t.checks
      /\ evaluated.delivery = t.delivery /\ evaluated.cod = t.cod
      /\ evaluated.contract = t.contract /\ evaluated.billable = t.billable
      /\ evaluated.ledger = t.ledger /\ evaluated.disputed = t.disputed
      /\ evaluated.receipts = t.receipts /\ evaluated.answers = t.answers
  BY <1>1 DEF Documents
<1> HIDE DEF evaluated
<1>3. /\ charged \in Documents /\ charged.outcome = o /\ charged.billable = TRUE
      /\ charged.order = t.order /\ charged.lead = t.lead /\ charged.checks = t.checks
      /\ charged.delivery = t.delivery /\ charged.cod = t.cod
      /\ charged.contract = t.contract
      /\ charged.ledger = t.ledger /\ charged.disputed = t.disputed
      /\ charged.receipts = t.receipts /\ charged.answers = t.answers
  BY <1>2 DEF Documents
<1> HIDE DEF charged
<1>4. Append(t.ledger, "debit") \in Seq({"debit", "credit"})
  BY DEF Documents
<1>5. /\ billed \in Documents /\ billed.outcome = o /\ billed.billable = TRUE
      /\ billed.order = t.order /\ billed.lead = t.lead /\ billed.checks = t.checks
      /\ billed.delivery = t.delivery /\ billed.cod = t.cod
      /\ billed.contract = t.contract
      /\ billed.ledger = Append(t.ledger, "debit") /\ billed.disputed = t.disputed
      /\ billed.receipts = t.receipts /\ billed.answers = t.answers
  BY <1>3, <1>4 DEF Documents
<1>6. Evaluate(t) = IF Readiness(t) = Checklist /\ ~t.billable THEN billed ELSE evaluated
  <2>1. Evaluate(t) = IF Readiness(t) = Checklist THEN Bill(evaluated) ELSE evaluated
    BY DEF Evaluate, evaluated, o
  <2>2. [evaluated EXCEPT !.billable = TRUE, !.ledger = Append(@, "debit")] = billed
    BY <1>2, <1>3 DEF charged
  <2>3. Bill(evaluated) = IF evaluated.billable THEN evaluated ELSE billed
    BY <2>2 DEF Bill
  <2> QED
    BY <1>2, <2>1, <2>3
<1> HIDE DEF billed
<1>7. Readiness(evaluated) = Readiness(t) /\ Readiness(billed) = Readiness(t)
  BY <1>2, <1>5 DEF Readiness
<1> QED
  BY <1>2, <1>5, <1>6, <1>7, ZenonT(60) DEF Documents, o

LEMMA RememberFields ==
  ASSUME NEW t \in Documents, t.outcome \in Outcomes, NEW key \in Keys
  PROVE  /\ Remember(t, key) \in Documents
         /\ Readiness(Remember(t, key)) = Readiness(t)
         /\ Remember(t, key).order = t.order /\ Remember(t, key).outcome = t.outcome
         /\ Remember(t, key).billable = t.billable /\ Remember(t, key).ledger = t.ledger
         /\ Remember(t, key).disputed = t.disputed
         /\ Remember(t, key).receipts = t.receipts
         /\ Answered(Remember(t, key)) = Answered(t) \cup {key}
         /\ \A k \in Keys : Remember(t, key).answers[k].outcome =
              IF k = key THEN t.outcome ELSE t.answers[k].outcome
<1> DEFINE s == [lead |-> t.lead, outcome |-> t.outcome]
           answers == [t.answers EXCEPT ![key] = s]
           d == [t EXCEPT !.answers = answers]
<1>1. s \in Stored /\ s # Nothing /\ s.outcome = t.outcome
  BY SandboxAssumption DEF Stored, Documents
<1> HIDE DEF s
<1>2. /\ answers \in [Keys -> Stored \cup {Nothing}]
      /\ \A k \in Keys : answers[k] = IF k = key THEN s ELSE t.answers[k]
  BY <1>1 DEF Documents
<1> HIDE DEF answers
<1>3. /\ d \in Documents /\ d.answers = answers /\ d.outcome = t.outcome
      /\ d.order = t.order /\ d.lead = t.lead /\ d.checks = t.checks
      /\ d.delivery = t.delivery /\ d.cod = t.cod
      /\ d.contract = t.contract /\ d.billable = t.billable
      /\ d.ledger = t.ledger /\ d.disputed = t.disputed
      /\ d.receipts = t.receipts
  BY <1>2 DEF Documents
<1>4. Remember(t, key) = d
  BY DEF Remember, answers, s
<1> HIDE DEF d
<1>5. Readiness(d) = Readiness(t)
  BY <1>3 DEF Readiness
<1>6. Answered(d) = Answered(t) \cup {key}
  BY <1>1, <1>2, <1>3 DEF Answered
<1> QED
  BY <1>1, <1>2, <1>3, <1>4, <1>5, <1>6

-----------------------------------------------------------------------------
(* approve_proposal *)
Approved(t, key) ==
  Remember(Evaluate([t EXCEPT !.order = key, !.lead = "pending_verification"]), key)

LEMMA ApprovedIsSound ==
  ASSUME NEW t, Sound(t), NEW key \in Approvals, key \notin Answered(t)
  PROVE  LET e == Evaluate([t EXCEPT !.order = key, !.lead = "pending_verification"])
         IN  /\ Sound(Approved(t, key)) /\ Extends(t, Approved(t, key))
             /\ {key} \cup Billed(e.outcome) \subseteq HeldBy(Approved(t, key))
             /\ key \in Answered(Approved(t, key))
<1> DEFINE ordered == [t EXCEPT !.order = key]
           a == [ordered EXCEPT !.lead = "pending_verification"]
           e == Evaluate(a)
           d == Remember(e, key)
<1>1. t \in Documents /\ key \in Keys /\ key # Nothing /\ key \notin Receipts
  BY SandboxAssumption DEF Sound, Keys, Approvals
<1>2. /\ ordered \in Documents /\ ordered.order = key /\ ordered.checks = t.checks
      /\ ordered.delivery = t.delivery /\ ordered.cod = t.cod
      /\ ordered.contract = t.contract /\ ordered.billable = t.billable
      /\ ordered.ledger = t.ledger /\ ordered.disputed = t.disputed
      /\ ordered.receipts = t.receipts /\ ordered.answers = t.answers
  BY <1>1 DEF Documents
<1> HIDE DEF ordered
<1>3. /\ a \in Documents /\ a.order = key /\ a.checks = t.checks
      /\ a.delivery = t.delivery /\ a.cod = t.cod
      /\ a.contract = t.contract /\ a.billable = t.billable
      /\ a.ledger = t.ledger /\ a.disputed = t.disputed
      /\ a.receipts = t.receipts /\ a.answers = t.answers
  BY <1>2 DEF Documents, Stages
<1>4. a = [t EXCEPT !.order = key, !.lead = "pending_verification"]
  BY DEF ordered
<1> HIDE DEF a
<1>5. /\ e \in Documents /\ Readiness(e) = Readiness(a) /\ e.outcome = [ready |-> Readiness(a)]
      /\ e.billable <=> t.billable \/ Readiness(a) = Checklist
      /\ e.ledger = IF Readiness(a) = Checklist /\ ~t.billable THEN Append(t.ledger, "debit")
                                                              ELSE t.ledger
      /\ e.disputed = t.disputed /\ e.receipts = t.receipts /\ e.answers = t.answers
  BY <1>3, EvaluateFields
<1> HIDE DEF e
<1>6. e.outcome \in Outcomes
  <2>1. Readiness(a) \subseteq Checklist
    BY DEF Readiness
  <2> QED
    BY <1>5, <2>1 DEF Outcomes
<1>7. /\ d \in Documents /\ Readiness(d) = Readiness(e)
      /\ d.outcome = e.outcome /\ d.billable = e.billable /\ d.ledger = e.ledger
      /\ d.disputed = e.disputed /\ d.receipts = e.receipts
      /\ Answered(d) = Answered(e) \cup {key}
      /\ \A k \in Keys : d.answers[k].outcome = IF k = key THEN e.outcome
                                                           ELSE e.answers[k].outcome
  BY <1>1, <1>5, <1>6, RememberFields
<1>8. Approved(t, key) = d
  BY <1>4 DEF Approved, e
<1> HIDE DEF d
<1>9. Readiness(t) \subseteq Readiness(a)
  BY <1>1, <1>3 DEF Readiness
<1>10. t.billable => Readiness(a) = Checklist
  BY <1>9 DEF Sound, Consistent, Readiness
<1>11. Answered(e) = Answered(t)
  BY <1>5 DEF Answered
<1>12. \A r \in Receipts : d.receipts[r] = IF r \in Answered(d) THEN 1 ELSE 0
  BY <1>1, <1>5, <1>7, <1>11 DEF Sound, Consistent
<1>13. Sound(d) /\ Extends(t, d) /\ Billed(d.outcome) \subseteq HeldBy(d)
  <2>1. \A k \in Answered(t) : k \in Answered(d) /\ d.answers[k].outcome = t.answers[k].outcome
    BY <1>5, <1>7, <1>11 DEF Answered
  <2>2. \A k \in Answered(d) \ Answered(t) : d.answers[k].outcome = d.outcome
    BY <1>1, <1>7, <1>11
  <2>3. /\ Readiness(t) \subseteq Readiness(d) /\ d.outcome = [ready |-> Readiness(d)]
        /\ d.billable <=> Readiness(d) = Checklist
        /\ d.ledger = IF Readiness(d) = Checklist /\ ~t.billable
                      THEN Append(t.ledger, "debit") ELSE t.ledger
        /\ d.disputed = t.disputed
    BY <1>5, <1>7, <1>9, <1>10
  <2> QED
    BY <1>7, <1>12, <2>1, <2>2, <2>3, EvaluationIsSound
<1> QED
  BY <1>4, <1>7, <1>8, <1>13 DEF HeldBy, e

(* complete_verification *)
Verified(t, S) ==
  Evaluate([t EXCEPT
              !.checks = TRUE,
              !.lead = IF @ = Nothing THEN Nothing ELSE "verified",
              !.answers = [k \in Keys |->
                IF k \in S THEN [@[k] EXCEPT !.lead = "verified"] ELSE @[k]]])

LEMMA StagedAnswers ==
  ASSUME NEW t \in Documents, NEW S \in SUBSET Answered(t)
  PROVE  LET answers == [k \in Keys |-> IF k \in S THEN [t.answers[k] EXCEPT !.lead = "verified"]
                                                   ELSE t.answers[k]]
         IN  /\ answers \in [Keys -> Stored \cup {Nothing}]
             /\ \A k \in Keys : /\ answers[k] # Nothing <=> t.answers[k] # Nothing
                                /\ answers[k].outcome = t.answers[k].outcome
<1> DEFINE answers == [k \in Keys |-> IF k \in S THEN [t.answers[k] EXCEPT !.lead = "verified"]
                                                 ELSE t.answers[k]]
<1>1. t.answers \in [Keys -> Stored \cup {Nothing}]
  BY DEF Documents
<1>2. ASSUME NEW k \in Keys
      PROVE  /\ answers[k] \in Stored \cup {Nothing}
             /\ answers[k] # Nothing <=> t.answers[k] # Nothing
             /\ answers[k].outcome = t.answers[k].outcome
  <2>1. CASE k \in S
    <3> DEFINE s == t.answers[k]
               staged == [s EXCEPT !.lead = "verified"]
    <3>1. s \in Stored /\ s # Nothing
      BY <1>1, <2>1 DEF Answered
    <3> HIDE DEF s
    <3>2. staged \in Stored /\ staged.outcome = s.outcome
      BY <3>1 DEF Stored, Stages
    <3>3. staged # Nothing
      BY <3>2, SandboxAssumption
    <3>4. answers[k] = staged
      BY <2>1 DEF s
    <3> QED
      BY <3>1, <3>2, <3>3, <3>4 DEF s
  <2>2. CASE k \notin S
    BY <1>1, <2>2
  <2> QED
    BY <2>1, <2>2
<1> QED
  BY <1>2

LEMMA VerifiedIsSound ==
  ASSUME NEW t, Sound(t), NEW S \in SUBSET Answered(t)
  PROVE  /\ Sound(Verified(t, S)) /\ Extends(t, Verified(t, S))
         /\ Billed(Verified(t, S).outcome) \subseteq HeldBy(Verified(t, S))
<1> DEFINE answers == [k \in Keys |-> IF k \in S THEN [t.answers[k] EXCEPT !.lead = "verified"]
                                                 ELSE t.answers[k]]
           lead == IF t.lead = Nothing THEN Nothing ELSE "verified"
           checked == [t EXCEPT !.checks = TRUE]
           led == [checked EXCEPT !.lead = lead]
           a == [led EXCEPT !.answers = answers]
           d == Evaluate(a)
<1>1. t \in Documents
  BY DEF Sound
<1>2. /\ checked \in Documents /\ checked.order = t.order /\ checked.checks = TRUE
      /\ checked.delivery = t.delivery /\ checked.cod = t.cod
      /\ checked.contract = t.contract /\ checked.billable = t.billable
      /\ checked.ledger = t.ledger /\ checked.disputed = t.disputed
      /\ checked.receipts = t.receipts /\ checked.answers = t.answers
      /\ checked.lead = t.lead
  BY <1>1 DEF Documents
<1>3. lead \in Stages
  BY DEF Stages
<1> HIDE DEF checked, lead
<1>4. /\ led \in Documents /\ led.order = t.order /\ led.checks = TRUE
      /\ led.delivery = t.delivery /\ led.cod = t.cod
      /\ led.contract = t.contract /\ led.billable = t.billable
      /\ led.ledger = t.ledger /\ led.disputed = t.disputed
      /\ led.receipts = t.receipts /\ led.answers = t.answers
  BY <1>2, <1>3 DEF Documents
<1>5. /\ answers \in [Keys -> Stored \cup {Nothing}]
      /\ \A k \in Keys : /\ answers[k] # Nothing <=> t.answers[k] # Nothing
                         /\ answers[k].outcome = t.answers[k].outcome
  BY <1>1, StagedAnswers, Zenon
<1> HIDE DEF led
<1>6. Verified(t, S) = d
  <2>1. [t EXCEPT
           !.checks = TRUE,
           !.lead = IF @ = Nothing THEN Nothing ELSE "verified",
           !.answers = [k \in Keys |->
             IF k \in S THEN [@[k] EXCEPT !.lead = "verified"] ELSE @[k]]] = a
    BY <1>1, <1>2, <1>4 DEF led, lead, checked
  <2> QED
    BY <2>1 DEF Verified
<1> HIDE DEF answers
<1>7. /\ a \in Documents /\ a.order = t.order /\ a.checks = TRUE
      /\ a.delivery = t.delivery /\ a.cod = t.cod
      /\ a.contract = t.contract /\ a.billable = t.billable
      /\ a.ledger = t.ledger /\ a.disputed = t.disputed
      /\ a.receipts = t.receipts /\ a.answers = answers
  BY <1>4, <1>5 DEF Documents
<1> HIDE DEF a
<1>8. /\ d \in Documents /\ Readiness(d) = Readiness(a) /\ d.outcome = [ready |-> Readiness(a)]
      /\ d.billable <=> t.billable \/ Readiness(a) = Checklist
      /\ d.ledger = IF Readiness(a) = Checklist /\ ~t.billable THEN Append(t.ledger, "debit")
                                                              ELSE t.ledger
      /\ d.disputed = t.disputed /\ d.receipts = t.receipts /\ d.answers = answers
  BY <1>7, EvaluateFields
<1> HIDE DEF d
<1>9. Readiness(t) \subseteq Readiness(a)
  <2>1. a.checks
    BY <1>7
  <2>2. ASSUME NEW c \in Readiness(t) PROVE c \in Readiness(a)
    <3>1. CASE c = "customer_verified"
      BY <2>1, <3>1 DEF Readiness, Checklist
    <3>2. CASE c # "customer_verified"
      BY <1>7, <2>2, <3>2 DEF Readiness, Checklist
    <3> QED
      BY <3>1, <3>2
  <2> QED
    BY <2>2
<1>10. t.billable => Readiness(a) = Checklist
  BY <1>9 DEF Sound, Consistent, Readiness
<1>11. Answered(d) = Answered(t)
  BY <1>5, <1>8 DEF Answered
<1>12. \A r \in Receipts : d.receipts[r] = IF r \in Answered(d) THEN 1 ELSE 0
  BY <1>8, <1>11 DEF Sound, Consistent
<1>13. \A k \in Answered(t) : k \in Answered(d) /\ d.answers[k].outcome = t.answers[k].outcome
  BY <1>5, <1>8, <1>11 DEF Answered
<1>14. /\ Readiness(t) \subseteq Readiness(d) /\ d.outcome = [ready |-> Readiness(d)]
       /\ d.billable <=> Readiness(d) = Checklist
       /\ d.ledger = IF Readiness(d) = Checklist /\ ~t.billable
                     THEN Append(t.ledger, "debit") ELSE t.ledger
       /\ d.disputed = t.disputed
  BY <1>8, <1>9, <1>10
<1>15. \A k \in Answered(d) \ Answered(t) : d.answers[k].outcome = d.outcome
  BY <1>11
<1> QED
  BY <1>6, <1>8, <1>12, <1>13, <1>14, <1>15, EvaluationIsSound

(* record_evidence *)
Recorded(t, receipt) ==
  IF receipt[1] = "delivery" THEN [t EXCEPT !.delivery = receipt[2]]
                             ELSE [t EXCEPT !.cod = receipt[2]]

LEMMA RecordedFields ==
  ASSUME NEW t \in Documents, NEW receipt \in Receipts
  PROVE  LET d == Recorded(t, receipt)
         IN  /\ d \in Documents /\ Readiness(t) \subseteq Readiness(d)
             /\ d.billable = t.billable /\ d.ledger = t.ledger /\ d.disputed = t.disputed
             /\ d.receipts = t.receipts /\ d.answers = t.answers
<1> DEFINE x == receipt[2]
           delivered == [t EXCEPT !.delivery = x]
           settled == [t EXCEPT !.cod = x]
<1>1. x \in Events /\ x # Nothing
  BY SandboxAssumption DEF Events
<1> HIDE DEF x
<1>2. /\ delivered \in Documents /\ delivered.order = t.order /\ delivered.checks = t.checks
      /\ delivered.delivery = x /\ delivered.cod = t.cod /\ delivered.contract = t.contract
      /\ delivered.billable = t.billable /\ delivered.ledger = t.ledger
      /\ delivered.disputed = t.disputed /\ delivered.receipts = t.receipts
      /\ delivered.answers = t.answers
  BY <1>1 DEF Documents
<1>3. /\ settled \in Documents /\ settled.order = t.order /\ settled.checks = t.checks
      /\ settled.delivery = t.delivery /\ settled.cod = x /\ settled.contract = t.contract
      /\ settled.billable = t.billable /\ settled.ledger = t.ledger
      /\ settled.disputed = t.disputed /\ settled.receipts = t.receipts
      /\ settled.answers = t.answers
  BY <1>1 DEF Documents
<1>4. Recorded(t, receipt) = IF receipt[1] = "delivery" THEN delivered ELSE settled
  BY DEF Recorded, x
<1> HIDE DEF delivered, settled
<1>5. Readiness(t) \subseteq Readiness(delivered) /\ Readiness(t) \subseteq Readiness(settled)
  BY <1>1, <1>2, <1>3 DEF Readiness
<1> QED
  BY <1>2, <1>3, <1>4, <1>5

Evidenced(t, receipt) ==
  Remember(Evaluate([Recorded(t, receipt) EXCEPT !.receipts[receipt] = @ + 1]), receipt)

LEMMA EvidencedIsSound ==
  ASSUME NEW t, Sound(t), NEW receipt \in Receipts, receipt \notin Answered(t)
  PROVE  LET e == Evaluate([Recorded(t, receipt) EXCEPT !.receipts[receipt] = @ + 1])
         IN  /\ Sound(Evidenced(t, receipt)) /\ Extends(t, Evidenced(t, receipt))
             /\ {receipt} \cup Billed(e.outcome) \subseteq HeldBy(Evidenced(t, receipt))
<1> DEFINE b == Recorded(t, receipt)
           counts == [t.receipts EXCEPT ![receipt] = @ + 1]
           a == [b EXCEPT !.receipts = counts]
           e == Evaluate(a)
           d == Remember(e, receipt)
<1>1. t \in Documents /\ receipt \in Keys
  BY DEF Sound, Keys
<1>2. /\ b \in Documents /\ Readiness(t) \subseteq Readiness(b)
      /\ b.billable = t.billable /\ b.ledger = t.ledger /\ b.disputed = t.disputed
      /\ b.receipts = t.receipts /\ b.answers = t.answers
  BY <1>1, RecordedFields
<1> HIDE DEF b
<1>3. /\ counts \in [Receipts -> Nat]
      /\ \A r \in Receipts : counts[r] = IF r = receipt THEN t.receipts[r] + 1 ELSE t.receipts[r]
  BY <1>1 DEF Documents
<1>4. a = [b EXCEPT !.receipts[receipt] = @ + 1]
  BY <1>2
<1> HIDE DEF counts
<1>5. /\ a \in Documents /\ a.order = b.order /\ a.checks = b.checks
      /\ a.delivery = b.delivery /\ a.cod = b.cod /\ a.contract = b.contract
      /\ a.billable = t.billable /\ a.ledger = t.ledger /\ a.disputed = t.disputed
      /\ a.receipts = counts /\ a.answers = t.answers
  BY <1>2, <1>3 DEF Documents
<1> HIDE DEF a
<1>6. Readiness(t) \subseteq Readiness(a)
  <2>1. Readiness(a) = Readiness(b)
    BY <1>5 DEF Readiness
  <2> QED
    BY <1>2, <2>1
<1>7. /\ e \in Documents /\ Readiness(e) = Readiness(a) /\ e.outcome = [ready |-> Readiness(a)]
      /\ e.billable <=> t.billable \/ Readiness(a) = Checklist
      /\ e.ledger = IF Readiness(a) = Checklist /\ ~t.billable THEN Append(t.ledger, "debit")
                                                              ELSE t.ledger
      /\ e.disputed = t.disputed /\ e.receipts = counts /\ e.answers = t.answers
  BY <1>5, EvaluateFields
<1> HIDE DEF e
<1>8. e.outcome \in Outcomes
  <2>1. Readiness(a) \subseteq Checklist
    BY DEF Readiness
  <2> QED
    BY <1>7, <2>1 DEF Outcomes
<1>9. /\ d \in Documents /\ Readiness(d) = Readiness(e)
      /\ d.outcome = e.outcome /\ d.billable = e.billable /\ d.ledger = e.ledger
      /\ d.disputed = e.disputed /\ d.receipts = e.receipts
      /\ Answered(d) = Answered(e) \cup {receipt}
      /\ \A k \in Keys : d.answers[k].outcome = IF k = receipt THEN e.outcome
                                                               ELSE e.answers[k].outcome
  BY <1>1, <1>7, <1>8, RememberFields
<1>10. Evidenced(t, receipt) = d
  BY <1>4 DEF Evidenced, e, b
<1> HIDE DEF d
<1>11. t.billable => Readiness(a) = Checklist
  BY <1>6 DEF Sound, Consistent, Readiness
<1>12. Answered(e) = Answered(t)
  BY <1>7 DEF Answered
<1>13. \A r \in Receipts : d.receipts[r] = IF r \in Answered(d) THEN 1 ELSE 0
  <2>1. \A r \in Receipts : t.receipts[r] = IF r \in Answered(t) THEN 1 ELSE 0
    BY DEF Sound, Consistent
  <2> QED
    BY <1>3, <1>7, <1>9, <1>12, <2>1
<1>14. \A k \in Answered(t) : k \in Answered(d) /\ d.answers[k].outcome = t.answers[k].outcome
  BY <1>7, <1>9, <1>12 DEF Answered
<1>15. \A k \in Answered(d) \ Answered(t) : d.answers[k].outcome = d.outcome
  BY <1>1, <1>9, <1>12
<1>16. /\ Readiness(t) \subseteq Readiness(d) /\ d.outcome = [ready |-> Readiness(d)]
       /\ d.billable <=> Readiness(d) = Checklist
       /\ d.ledger = IF Readiness(d) = Checklist /\ ~t.billable
                     THEN Append(t.ledger, "debit") ELSE t.ledger
       /\ d.disputed = t.disputed
  BY <1>6, <1>7, <1>9, <1>11
<1>17. Sound(d) /\ Extends(t, d) /\ Billed(d.outcome) \subseteq HeldBy(d)
  BY <1>9, <1>13, <1>14, <1>15, <1>16, EvaluationIsSound
<1> QED
  BY <1>4, <1>9, <1>10, <1>17 DEF HeldBy, e, b

(* dispute_reverse *)
Reversed(t) == [t EXCEPT !.disputed = TRUE, !.ledger = Append(@, "credit")]

LEMMA ReversedIsSound ==
  ASSUME NEW t, Sound(t), ~t.disputed
  PROVE  /\ Sound(Reversed(t)) /\ Extends(t, Reversed(t))
         /\ {Fact("disputed")} \subseteq HeldBy(Reversed(t))
<1> DEFINE longer == Append(t.ledger, "credit")
           closed == [t EXCEPT !.disputed = TRUE]
           d == [closed EXCEPT !.ledger = longer]
<1>1. t \in Documents /\ t.ledger \in Seq({"debit", "credit"})
  BY SoundFields DEF Sound
<1>2. longer \in Seq({"debit", "credit"})
  BY <1>1
<1>3. /\ closed \in Documents /\ closed.order = t.order /\ closed.checks = t.checks
      /\ closed.delivery = t.delivery /\ closed.cod = t.cod /\ closed.contract = t.contract
      /\ closed.outcome = t.outcome
      /\ closed.billable = t.billable /\ closed.ledger = t.ledger /\ closed.disputed = TRUE
      /\ closed.receipts = t.receipts /\ closed.answers = t.answers
  BY <1>1 DEF Documents
<1>4. Reversed(t) = d
  BY <1>3 DEF Reversed
<1> HIDE DEF closed, longer
<1>5. /\ d \in Documents /\ d.order = t.order /\ d.checks = t.checks
      /\ d.delivery = t.delivery /\ d.cod = t.cod /\ d.contract = t.contract
      /\ d.outcome = t.outcome
      /\ d.billable = t.billable /\ d.ledger = longer /\ d.disputed = TRUE
      /\ d.receipts = t.receipts /\ d.answers = t.answers
  BY <1>2, <1>3 DEF Documents
<1> HIDE DEF d
<1>6. /\ Entries(longer, "debit") = IF t.billable THEN 1 ELSE 0
      /\ Entries(longer, "credit") = 1
  <2>1. /\ Entries(longer, "debit") = Entries(t.ledger, "debit") + 0
        /\ Entries(longer, "credit") = Entries(t.ledger, "credit") + 1
    BY <1>1, EntriesOfAppend DEF longer
  <2>2. /\ Entries(t.ledger, "debit") = IF t.billable THEN 1 ELSE 0
        /\ Entries(t.ledger, "credit") = 0
    BY DEF Sound, Consistent, Entries
  <2> QED
    BY <2>1, <2>2
<1>7. Readiness(d) = Readiness(t) /\ Answered(d) = Answered(t)
  BY <1>5 DEF Readiness, Answered
<1>8. Consistent(d)
  BY <1>5, <1>6, <1>7 DEF Sound, Consistent, Entries
<1>9. AnswersAreBacked(d)
  BY <1>5, <1>7 DEF Sound, AnswersAreBacked
<1>10. SubSeq(longer, 1, Len(t.ledger)) = t.ledger
  BY <1>1, LedgerGrows DEF longer
<1>11. HeldBy(t) \subseteq HeldBy(d) /\ Fact("disputed") \in HeldBy(d)
  BY <1>5, <1>7 DEF HeldBy
<1> QED
  BY <1>4, <1>5, <1>7, <1>8, <1>9, <1>10, <1>11 DEF Sound, Extends

-----------------------------------------------------------------------------
Tellable == Keys \cup {Fact("billed"), Fact("disputed")}

(* The invariant, said of the documents. *)
LEMMA Unfolded ==
  ASSUME IndInv
  PROVE  /\ Sound(tenant) /\ (HasDocument => Sound(file))
         /\ HeldBy(tenant) \subseteq Tellable
BY DEF IndInv, SandboxTypeOK, SandboxInv, HasDocument, Sound, HeldBy, Answered, Tellable

LEMMA FileIsSound ==
  ASSUME file' \in Documents \cup {Nothing, Torn}, file' \in Documents => Sound(file')
  PROVE  HasDocument' => Consistent(file') /\ AnswersAreBacked(file')
BY DEF HasDocument, Sound

(* A request changes the document and begins to save it. *)
LEMMA ChangeKeeps ==
  ASSUME IndInv, NEW d, Sound(d), NEW answer \in SUBSET Tellable, Change(d, answer),
         answer \subseteq HeldBy(d), shared' \subseteq Answered(d),
         \/ told' = told /\ HeldBy(tenant) \subseteq HeldBy(d)
         \/ told' = {}
  PROVE  IndInv'
<1> DEFINE w == [write |-> "to_start", answer |-> answer]
<1>1. /\ process = "running" /\ writer = Nothing /\ tenant' = d /\ writer' = w
      /\ UNCHANGED <<file, process, faults>>
  BY DEF Change
<1>2. w \in Writes /\ w # Nothing /\ w.answer = answer
  BY SandboxAssumption DEF Writes, Tellable
<1> HIDE DEF w
<1>3. told' \subseteq told /\ (process = "running" => file # Nothing)
  BY DEF IndInv, WriterInv
<1>4. SandboxTypeOK'
  BY <1>1, <1>2 DEF IndInv, SandboxTypeOK, Sound
<1>5. SandboxInv'
  BY <1>1, <1>2 DEF IndInv, SandboxInv, HasDocument, Sound
<1>6. WriterInv'
  BY <1>1, <1>2, <1>3 DEF WriterInv
<1>7. ToldStaysTrue'
  BY <1>1, <1>3 DEF IndInv, ToldStaysTrue, HasDocument
<1>8. AnswersAreBacked(tenant)' /\ (HasDocument => AnswersAreBacked(file))'
  BY <1>1 DEF IndInv, Sound, HasDocument, AnswersAreBacked, Answered
<1> QED
  BY <1>4, <1>5, <1>6, <1>7, <1>8 DEF IndInv

(* An answer from the document: something already held is told. *)
LEMMA ToldAgain ==
  ASSUME IndInv, process = "running", writer = Nothing, NEW answer \in SUBSET HeldBy(tenant),
         told' = told \cup answer, UNCHANGED <<tenant, shared, file, writer, process, faults>>
  PROVE  IndInv'
<1>1. SandboxTypeOK'
  BY DEF IndInv, SandboxTypeOK
<1>2. SandboxInv'
  BY DEF IndInv, SandboxInv, HasDocument
<1>3. WriterInv'
  BY DEF IndInv, WriterInv
<1>4. ToldStaysTrue'
  BY DEF IndInv, ToldStaysTrue, SandboxInv, HasDocument
<1>5. AnswersAreBacked(tenant)' /\ (HasDocument => AnswersAreBacked(file))'
  BY DEF IndInv, HasDocument, AnswersAreBacked, Answered
<1> QED
  BY <1>1, <1>2, <1>3, <1>4, <1>5 DEF IndInv

(* The requests, each a document that extends the one before or a reset. *)
Requested(d, answer) ==
  /\ Sound(d) /\ Extends(tenant, d)
  /\ answer \in SUBSET Tellable /\ answer \subseteq HeldBy(d) /\ shared' \subseteq Answered(d)
  /\ Change(d, answer) /\ told' = told

LEMMA RequestsAreSound ==
  ASSUME IndInv
  PROVE  /\ ReceiveMessage => Requested(tenant, {})
         /\ \A key \in Approvals : ApproveProposal(key) =>
              \E answer : Requested(Approved(tenant, key), answer)
         /\ CompleteVerification => \E answer : Requested(Verified(tenant, shared), answer)
         /\ \A receipt \in Receipts : RecordEvidence(receipt) =>
              \E answer : Requested(Evidenced(tenant, receipt), answer)
         /\ DisputeReverse /\ ~tenant.disputed =>
              \E answer : Requested(Reversed(tenant), answer)
<1>1. /\ Sound(tenant) /\ shared \subseteq Answered(tenant)
      /\ \A outcome : Billed(outcome) \subseteq Tellable
  BY Unfolded DEF IndInv, SandboxTypeOK, Billed, Tellable
<1>2. ASSUME ReceiveMessage PROVE Requested(tenant, {})
  <2>1. Extends(tenant, tenant)
    <3>1. tenant.ledger \in Seq({"debit", "credit"})
      BY <1>1, SoundFields
    <3>2. SubSeq(tenant.ledger, 1, Len(tenant.ledger)) = tenant.ledger
      BY <3>1, SubSeqFull
    <3> QED
      BY <3>2 DEF Extends
  <2> QED
    BY <1>1, <1>2, <2>1 DEF ReceiveMessage, Requested
<1>3. ASSUME NEW key \in Approvals, ApproveProposal(key)
      PROVE  \E answer : Requested(Approved(tenant, key), answer)
  <2> DEFINE e == Evaluate([tenant EXCEPT !.order = key, !.lead = "pending_verification"])
             answer == {key} \cup Billed(e.outcome)
  <2>1. /\ key \notin Answered(tenant) /\ shared' = {key} /\ told' = told
        /\ Change(Approved(tenant, key), answer)
    BY <1>3 DEF ApproveProposal, Approved
  <2>2. /\ Sound(Approved(tenant, key)) /\ Extends(tenant, Approved(tenant, key))
        /\ answer \subseteq HeldBy(Approved(tenant, key))
        /\ key \in Answered(Approved(tenant, key))
    BY <1>1, <2>1, ApprovedIsSound, Zenon
  <2>3. answer \in SUBSET Tellable
    BY <1>1 DEF Tellable, Keys
  <2> HIDE DEF answer
  <2> QED
    BY <2>1, <2>2, <2>3 DEF Requested
<1>4. ASSUME CompleteVerification
      PROVE  \E answer : Requested(Verified(tenant, shared), answer)
  <2> DEFINE answer == Billed(Verified(tenant, shared).outcome)
  <2>1. Change(Verified(tenant, shared), answer) /\ shared' = shared /\ told' = told
    BY <1>4 DEF CompleteVerification, Verified
  <2>2. /\ Sound(Verified(tenant, shared)) /\ Extends(tenant, Verified(tenant, shared))
        /\ answer \subseteq HeldBy(Verified(tenant, shared))
    BY <1>1, VerifiedIsSound
  <2>3. shared' \subseteq Answered(Verified(tenant, shared))
    BY <1>1, <2>1, <2>2 DEF Extends
  <2>4. answer \in SUBSET Tellable
    BY <1>1
  <2> HIDE DEF answer
  <2> QED
    BY <2>1, <2>2, <2>3, <2>4 DEF Requested
<1>5. ASSUME NEW receipt \in Receipts, RecordEvidence(receipt)
      PROVE  \E answer : Requested(Evidenced(tenant, receipt), answer)
  <2> DEFINE e == Evaluate([Recorded(tenant, receipt) EXCEPT !.receipts[receipt] = @ + 1])
             answer == {receipt} \cup Billed(e.outcome)
  <2>1. /\ receipt \notin Answered(tenant) /\ shared' = shared /\ told' = told
        /\ Change(Evidenced(tenant, receipt), answer)
    BY <1>5 DEF RecordEvidence, NotSeen, Evidenced, Recorded
  <2>2. /\ Sound(Evidenced(tenant, receipt)) /\ Extends(tenant, Evidenced(tenant, receipt))
        /\ answer \subseteq HeldBy(Evidenced(tenant, receipt))
    BY <1>1, <2>1, EvidencedIsSound
  <2>3. shared' \subseteq Answered(Evidenced(tenant, receipt))
    BY <1>1, <2>1, <2>2 DEF Extends
  <2>4. answer \in SUBSET Tellable
    BY <1>1 DEF Tellable, Keys
  <2> HIDE DEF answer
  <2> QED
    BY <2>1, <2>2, <2>3, <2>4 DEF Requested
<1>6. ASSUME DisputeReverse, ~tenant.disputed
      PROVE  \E answer : Requested(Reversed(tenant), answer)
  <2>1. Change(Reversed(tenant), {Fact("disputed")}) /\ shared' = shared /\ told' = told
    BY <1>6 DEF DisputeReverse, Reversed
  <2>2. /\ Sound(Reversed(tenant)) /\ Extends(tenant, Reversed(tenant))
        /\ {Fact("disputed")} \subseteq HeldBy(Reversed(tenant))
    BY <1>1, <1>6, ReversedIsSound
  <2>3. shared' \subseteq Answered(Reversed(tenant))
    BY <1>1, <2>1, <2>2 DEF Extends
  <2>4. {Fact("disputed")} \in SUBSET Tellable
    BY DEF Tellable
  <2> QED
    BY <2>1, <2>2, <2>3, <2>4 DEF Requested
<1> QED
  BY <1>2, <1>3, <1>4, <1>5, <1>6

LEMMA RequestKeeps ==
  ASSUME IndInv, NEW d, NEW answer, Requested(d, answer)
  PROVE  IndInv'
BY ChangeKeeps DEF Requested, Extends

LEMMA ResetKeeps ==
  ASSUME IndInv, Reset
  PROVE  IndInv'
<1>1. {} \in SUBSET Tellable /\ {} \subseteq HeldBy(Seed) /\ {} \subseteq Answered(Seed)
  OBVIOUS
<1>2. Change(Seed, {}) /\ shared' = {} /\ told' = {}
  BY DEF Reset
<1> QED
  BY <1>1, <1>2, ChangeKeeps, SeedIsSound

LEMMA ReplayKeeps ==
  ASSUME IndInv, NEW key \in Keys, Replay(key)
  PROVE  IndInv'
<1> DEFINE outcome == tenant.answers[key].outcome
           answer == {key} \cup Billed(outcome)
<1>1. /\ process = "running" /\ writer = Nothing /\ key \in Answered(tenant)
      /\ told' = told \cup answer
      /\ UNCHANGED <<tenant, shared, file, writer, process, faults>>
  BY DEF Replay
<1>2. answer \subseteq HeldBy(tenant)
  BY <1>1 DEF IndInv, AnswersAreBacked, HeldBy, Billed
<1> HIDE DEF answer
<1> QED
  BY <1>1, <1>2, ToldAgain

LEMMA RepeatedDisputeKeeps ==
  ASSUME IndInv, DisputeReverse, tenant.disputed
  PROVE  IndInv'
<1>1. {Fact("disputed")} \in SUBSET HeldBy(tenant)
  BY DEF HeldBy
<1>2. /\ process = "running" /\ writer = Nothing /\ told' = told \cup {Fact("disputed")}
      /\ UNCHANGED <<tenant, shared, file, writer, process, faults>>
  BY DEF DisputeReverse
<1> QED
  BY <1>1, <1>2, ToldAgain

LEMMA TruncateKeeps ==
  ASSUME IndInv, Truncate
  PROVE  IndInv'
<1>1. /\ writer # Nothing /\ file' = Torn /\ writer' = [writer EXCEPT !.write = "started"]
      /\ UNCHANGED <<tenant, shared, process, told, faults>>
  BY DEF Truncate
<1>2. writer' \in Writes /\ writer' # Nothing /\ writer'.answer = writer.answer
  <2>1. writer \in Writes
    BY <1>1 DEF IndInv, SandboxTypeOK
  <2>2. writer' \in Writes /\ writer'.answer = writer.answer
    BY <1>1, <2>1 DEF Writes
  <2> QED
    BY <2>2, SandboxAssumption
<1>3. ~HasDocument' /\ file' # Nothing
  BY <1>1, SandboxAssumption DEF HasDocument
<1>4. SandboxTypeOK'
  BY <1>1, <1>2 DEF IndInv, SandboxTypeOK
<1>5. SandboxInv'
  BY <1>1, <1>2, <1>3 DEF IndInv, SandboxInv
<1>6. WriterInv'
  BY <1>1, <1>2, <1>3 DEF IndInv, WriterInv
<1>7. ToldStaysTrue'
  BY <1>1, <1>3 DEF IndInv, ToldStaysTrue
<1> QED
  BY <1>1, <1>3, <1>4, <1>5, <1>6, <1>7 DEF IndInv

LEMMA WrittenKeeps ==
  ASSUME IndInv, Written
  PROVE  IndInv'
<1>1. /\ writer # Nothing /\ file' = tenant /\ writer' = Nothing /\ process' = "running"
      /\ told' = told \cup writer.answer /\ UNCHANGED <<tenant, shared, faults>>
  BY DEF Written, Saved
<1>2. /\ writer.answer \subseteq HeldBy(tenant) /\ process # "down"
      /\ process = "starting" => told = {}
  BY <1>1 DEF IndInv, WriterInv
<1>3. tenant \in Documents /\ file' # Nothing
  BY <1>1, SandboxAssumption DEF IndInv, SandboxTypeOK
<1>4. SandboxTypeOK'
  BY <1>1, <1>3 DEF IndInv, SandboxTypeOK
<1>5. SandboxInv'
  BY <1>1 DEF IndInv, SandboxInv
<1>6. WriterInv'
  BY <1>1, <1>3 DEF WriterInv
<1>7. ToldStaysTrue'
  <2>1. faults = 0 => told \subseteq HeldBy(tenant)
    BY <1>2 DEF IndInv, ToldStaysTrue, SandboxTypeOK
  <2> QED
    BY <1>1, <1>2, <2>1 DEF ToldStaysTrue
<1>8. AnswersAreBacked(tenant)' /\ AnswersAreBacked(file)'
  BY <1>1 DEF IndInv, AnswersAreBacked, Answered
<1> QED
  BY <1>4, <1>5, <1>6, <1>7, <1>8 DEF IndInv

LEMMA WriteFailsKeeps ==
  ASSUME IndInv, WriteFails
  PROVE  IndInv'
<1>1. /\ faults' = faults + 1 /\ writer' = Nothing
      /\ process' = IF process = "starting" THEN "down" ELSE process
      /\ UNCHANGED <<tenant, shared, file, told>>
  BY DEF WriteFails
<1>2. faults' \in Nat /\ faults' # 0
  BY <1>1 DEF IndInv, SandboxTypeOK
<1>3. SandboxTypeOK'
  BY <1>1, <1>2 DEF IndInv, SandboxTypeOK
<1>4. SandboxInv'
  BY <1>1, <1>2 DEF IndInv, SandboxInv, HasDocument
<1>5. WriterInv'
  BY <1>1 DEF IndInv, WriterInv
<1>6. ToldStaysTrue'
  BY <1>2 DEF ToldStaysTrue
<1>7. AnswersAreBacked(tenant)' /\ (HasDocument => AnswersAreBacked(file))'
  BY <1>1 DEF IndInv, HasDocument, AnswersAreBacked, Answered
<1> QED
  BY <1>3, <1>4, <1>5, <1>6, <1>7 DEF IndInv

LEMMA CrashKeeps ==
  ASSUME IndInv, Crash
  PROVE  IndInv'
<1>1. /\ process' = "down" /\ tenant' = Seed /\ shared' = {} /\ writer' = Nothing
      /\ UNCHANGED <<file, told, faults>>
  BY DEF Crash
<1>2. Seed \in Documents /\ Consistent(Seed) /\ AnswersAreBacked(Seed)
  BY SeedIsSound DEF Sound
<1>3. SandboxTypeOK'
  BY <1>1, <1>2 DEF IndInv, SandboxTypeOK
<1>4. SandboxInv'
  BY <1>1, <1>2 DEF IndInv, SandboxInv, HasDocument
<1>5. WriterInv'
  BY <1>1 DEF IndInv, WriterInv
<1>6. ToldStaysTrue'
  BY <1>1 DEF IndInv, ToldStaysTrue, HasDocument
<1>7. AnswersAreBacked(tenant)' /\ (HasDocument => AnswersAreBacked(file))'
  BY <1>1, <1>2 DEF IndInv, HasDocument, AnswersAreBacked, Answered
<1> QED
  BY <1>3, <1>4, <1>5, <1>6, <1>7 DEF IndInv

LEMMA LoadKeeps ==
  ASSUME IndInv, Load
  PROVE  IndInv'
<1> DEFINE w == [write |-> "to_start", answer |-> {}]
<1>1. file # Torn /\ shared' = {} /\ UNCHANGED <<file, told, faults>>
  BY DEF Load
<1>2. CASE /\ file = Nothing /\ process' = "starting" /\ tenant' = Seed /\ writer' = w
  <2>1. w \in Writes /\ w # Nothing /\ w.answer = {}
    BY SandboxAssumption DEF Writes
  <2> HIDE DEF w
  <2>2. Seed \in Documents /\ Consistent(Seed) /\ AnswersAreBacked(Seed)
    BY SeedIsSound DEF Sound
  <2>3. SandboxTypeOK'
    BY <1>1, <1>2, <2>1, <2>2 DEF IndInv, SandboxTypeOK
  <2>4. SandboxInv'
    BY <1>1, <1>2, <2>1, <2>2 DEF SandboxInv, HasDocument
  <2>5. WriterInv'
    BY <1>1, <1>2, <2>1 DEF IndInv, WriterInv
  <2>6. ToldStaysTrue'
    BY <1>1, <1>2 DEF ToldStaysTrue, HasDocument
  <2>7. AnswersAreBacked(tenant)' /\ (HasDocument => AnswersAreBacked(file))'
    BY <1>1, <1>2, <2>2 DEF HasDocument, AnswersAreBacked, Answered
  <2> QED
    BY <2>3, <2>4, <2>5, <2>6, <2>7 DEF IndInv
<1>3. CASE /\ file # Nothing /\ process' = "running" /\ tenant' = file /\ writer' = Nothing
  <2>1. HasDocument /\ Sound(file)
    BY <1>1, <1>3, Unfolded DEF HasDocument
  <2>2. SandboxTypeOK'
    BY <1>1, <1>3, <2>1 DEF IndInv, SandboxTypeOK, Sound
  <2>3. SandboxInv'
    BY <1>1, <1>3, <2>1 DEF SandboxInv, Sound
  <2>4. WriterInv'
    BY <1>1, <1>3 DEF IndInv, WriterInv
  <2>5. ToldStaysTrue'
    BY <1>1, <1>3, <2>1 DEF IndInv, ToldStaysTrue, HasDocument
  <2>6. AnswersAreBacked(tenant)' /\ AnswersAreBacked(file)'
    BY <1>1, <1>3, <2>1 DEF Sound, AnswersAreBacked, Answered
  <2> QED
    BY <2>2, <2>3, <2>4, <2>5, <2>6 DEF IndInv
<1> QED
  BY <1>2, <1>3 DEF Load

-----------------------------------------------------------------------------
LEMMA InitInv == Init => IndInv
<1> SUFFICES ASSUME Init PROVE IndInv
  OBVIOUS
<1>1. /\ tenant = Seed /\ shared = {} /\ told = {} /\ file = Nothing
      /\ writer = Nothing /\ process = "down" /\ faults = 0
  BY DEF Init
<1>2. Seed \in Documents /\ Consistent(Seed) /\ AnswersAreBacked(Seed)
  BY SeedIsSound DEF Sound
<1>3. ~HasDocument
  BY <1>1 DEF HasDocument
<1>4. SandboxTypeOK
  BY <1>1, <1>2 DEF SandboxTypeOK
<1>5. SandboxInv /\ WriterInv /\ ToldStaysTrue
  BY <1>1, <1>2, <1>3 DEF SandboxInv, WriterInv, ToldStaysTrue
<1> QED
  BY <1>1, <1>2, <1>3, <1>4, <1>5 DEF IndInv

LEMMA NextInv == IndInv /\ [Next]_vars => IndInv'
<1> SUFFICES ASSUME IndInv, [Next]_vars PROVE IndInv'
  OBVIOUS
<1>1. CASE ReceiveMessage
  BY <1>1, RequestsAreSound, RequestKeeps
<1>2. ASSUME NEW key \in Approvals, ApproveProposal(key) PROVE IndInv'
  BY <1>2, RequestsAreSound, RequestKeeps
<1>3. CASE CompleteVerification
  BY <1>3, RequestsAreSound, RequestKeeps
<1>4. ASSUME NEW receipt \in Receipts, RecordEvidence(receipt) PROVE IndInv'
  BY <1>4, RequestsAreSound, RequestKeeps
<1>5. CASE DisputeReverse
  BY <1>5, RequestsAreSound, RequestKeeps, RepeatedDisputeKeeps
<1>6. CASE UNCHANGED vars
  BY <1>6 DEF vars, IndInv, SandboxTypeOK, SandboxInv, WriterInv, ToldStaysTrue, HasDocument,
              AnswersAreBacked, Answered
<1> QED
  BY <1>1, <1>2, <1>3, <1>4, <1>5, <1>6, ResetKeeps, ReplayKeeps, TruncateKeeps, WrittenKeeps,
     WriteFailsKeeps, CrashKeeps, LoadKeeps DEF Next

(***************************************************************************)
(* The invariant of the sandbox is inductive.                              *)
(***************************************************************************)
THEOREM Inductive == Spec => []IndInv
<1>1. Init => IndInv
  BY InitInv
<1>2. IndInv /\ [Next]_vars => IndInv'
  BY NextInv
<1> QED
  BY <1>1, <1>2, PTL DEF Spec

(***************************************************************************)
(* However requests are repeated and wherever the process crashes, both    *)
(* documents have one debit for one billable result and one credit for one *)
(* dispute, and the file follows the memory.                               *)
(***************************************************************************)
THEOREM DocumentsAreConsistent == Spec => []SandboxInv
<1>1. IndInv => SandboxInv
  BY DEF IndInv
<1> QED
  BY <1>1, Inductive, PTL

(***************************************************************************)
(* What was answered is in the file after every crash, unless a write has  *)
(* failed or the file is torn.                                             *)
(***************************************************************************)
THEOREM AnswersSurvive == Spec => []ToldStaysTrue
<1>1. IndInv => ToldStaysTrue
  BY DEF IndInv
<1> QED
  BY <1>1, Inductive, PTL

(***************************************************************************)
(* No request takes back a ledger entry, a billable result or the outcome  *)
(* a stored answer tells.                                                  *)
(***************************************************************************)
THEOREM FeesStay == Spec => FeesAreFinal
<1> DEFINE Kept == /\ SubSeq(tenant'.ledger, 1, Len(tenant.ledger)) = tenant.ledger
                   /\ tenant.billable => tenant'.billable
                   /\ \A key \in Answered(tenant) :
                        /\ key \in Answered(tenant')
                        /\ tenant'.answers[key].outcome = tenant.answers[key].outcome
<1>1. ASSUME IndInv, [Next]_vars, process = "running" /\ process' = "running" /\ tenant' # Seed
      PROVE  Kept
  <2>1. ASSUME NEW d, NEW answer, Requested(d, answer) PROVE Kept
    BY <2>1 DEF Requested, Change, Extends
  <2>2. ASSUME tenant' = tenant PROVE Kept
    <3>1. Sound(tenant)
      BY <1>1, Unfolded
    <3>2. tenant.ledger \in Seq({"debit", "credit"})
      BY <3>1, SoundFields
    <3>3. SubSeq(tenant.ledger, 1, Len(tenant.ledger)) = tenant.ledger
      BY <3>2, SubSeqFull
    <3> QED
      BY <2>2, <3>3
  <2>3. ASSUME Next PROVE tenant' = tenant \/ \E d, answer : Requested(d, answer)
    <3>1. ASSUME DisputeReverse, tenant.disputed PROVE tenant' = tenant
      BY <3>1 DEF DisputeReverse
    <3>2. ~Crash /\ ~Load /\ ~Reset
      BY <1>1 DEF Crash, Load, Reset, Change
    <3>3. ASSUME \/ \E key \in Keys : Replay(key)
                 \/ Truncate \/ Written \/ WriteFails
          PROVE  tenant' = tenant
      BY <3>3 DEF Replay, Truncate, Written, WriteFails
    <3> QED
      BY <1>1, <2>3, <3>1, <3>2, <3>3, RequestsAreSound DEF Next
  <2>4. UNCHANGED vars => tenant' = tenant
    BY DEF vars
  <2> HIDE DEF Kept
  <2> QED
    BY <1>1, <2>1, <2>2, <2>3, <2>4
<1>2. IndInv /\ [Next]_vars =>
        [process = "running" /\ process' = "running" /\ tenant' # Seed => Kept]_vars
  BY <1>1
<1> QED
  BY <1>2, Inductive, PTL DEF Spec, FeesAreFinal
=============================================================================
