----------------------------- MODULE Evaluator -----------------------------
(***************************************************************************)
(* The deterministic outcome evaluator: evaluate as a pure function of an  *)
(* instant and the evidence in the order it is read, and the life of one   *)
(* outcome around it: evidence occurs and is received, late, twice or in   *)
(* any order, evaluations are made as of now or of an earlier instant, and *)
(* the progress state follows their verdicts through the state machine.    *)
(* Requests are valid ones of one template and one published rule.         *)
(***************************************************************************)
EXTENDS Integers, Sequences, FiniteSets

CONSTANTS
  Rules,               \* rules evaluated: template and anchor_event_type
  TypeOrder,           \* the event types in the order of their names
  EvaluationWindow,
  FinalizationWindow,
  Occurrences,         \* per rule, what may be received: events without received_at
  MaxTime,             \* bound: the clock
  MaxReceived          \* bound: deliveries

Strategy(required, disqualifying, conflicting, monetary) ==
  [required |-> required, disqualifying |-> disqualifying,
   conflicting |-> conflicting, monetary |-> monetary]

TEMPLATE_REGISTRY ==
  [delivered_paid_order |->
     Strategy({"order.confirmed", "fulfillment.delivered", "payment.succeeded"},
              {"order.returned", "payment.refunded"}, {},
              {"order.confirmed", "payment.succeeded", "payment.refunded"}),
   attended_booking |->
     Strategy({"booking.created", "booking.attended"}, {"booking.no_show"},
              {{"booking.attended", "booking.no_show"}}, {}),
   qualified_lead_accepted |->
     Strategy({"lead.captured", "lead.qualified", "lead.accepted"}, {}, {}, {}),
   paid_activated_subscription |->
     Strategy({"account.activated", "payment.succeeded"}, {"payment.refunded"}, {},
              {"payment.succeeded", "payment.refunded"})]

Types == {TypeOrder[i] : i \in DOMAIN TypeOrder}

(* What may occur, and what has been received of it. *)
Facts == [id: Nat, type: Types, occurred: Nat, currency: STRING,
          of: {"subject", "other_subject", "other_tenant"}]
TrustedEvents == [id: Nat, type: Types, occurred: Nat, currency: STRING,
                  of: {"subject", "other_subject", "other_tenant"}, received: Nat]

(* What _validate_request demands of a request. *)
ASSUME RequestAssumption ==
  /\ \A r \in Rules : /\ r.template \in DOMAIN TEMPLATE_REGISTRY
                      /\ r.anchor \in TEMPLATE_REGISTRY[r.template].required
  /\ EvaluationWindow \in Nat \ {0}
  /\ FinalizationWindow \in Nat
  /\ MaxTime \in Nat /\ MaxReceived \in Nat
  /\ TypeOrder \in Seq(STRING)
  /\ Occurrences \in [Rules -> SUBSET Facts]

VARIABLES
  now,
  rule,      \* what the outcome is evaluated by
  received,  \* the evidence, in the order it was delivered
  progress,  \* OutcomeState of the outcome
  decided    \* the evaluation that moved the outcome to a verdict, and how
             \* many deliveries it had read

vars == <<now, rule, received, progress, decided>>

(* An evaluation request: the rule's part and the instant. *)
Request(asOf) == [template |-> rule.template, anchor |-> rule.anchor, asOf |-> asOf]

strategy(request) == TEMPLATE_REGISTRY[request.template]

-----------------------------------------------------------------------------
(* The checks of the first loop, on the n-th event read: another tenant,   *)
(* another subject, a second projection of an event already seen.          *)
(* A slip: projections are not compared. *)
AlteredUnnoticed(events, n) == FALSE
Altered(events, n) ==
  \E m \in 1 .. n - 1 : events[m].id = events[n].id /\ events[m] # events[n]

Problem(events, n) ==
  CASE events[n].of = "other_tenant"  -> "cross_tenant_evidence"
    [] events[n].of = "other_subject" -> "subject_mismatch"
    [] Altered(events, n)             -> "canonical_event_digest_mismatch"
    [] OTHER                          -> "none"

(* The dictionary of the loop: duplicates are dropped, the first stays in  *)
(* its place.                                                              *)
Unique(events) ==
  {n \in DOMAIN events : \A m \in 1 .. n - 1 : events[m].id # events[n].id}

TypeRank(e) == CHOOSE i \in DOMAIN TypeOrder : TypeOrder[i] = e.type

(* A slip: events of one instant and type keep the order they are read in. *)
PrecedesByTime(d, e) ==
  \/ d.occurred < e.occurred
  \/ d.occurred = e.occurred /\ TypeRank(d) < TypeRank(e)

(* sorted by occurred_at, event_type, event_id *)
Precedes(d, e) ==
  \/ d.occurred < e.occurred
  \/ d.occurred = e.occurred /\ TypeRank(d) < TypeRank(e)
  \/ d.occurred = e.occurred /\ d.type = e.type /\ d.id < e.id

(* Places m and n of a stable sort. *)
Before(events, m, n) ==
  \/ Precedes(events[m], events[n])
  \/ m < n /\ ~Precedes(events[n], events[m])

(* The unique events, each where as many come before it as the sort says.  *)
Ordered(events) ==
  LET earlier(n) == {m \in Unique(events) : Before(events, m, n)}
  IN  [p \in 1 .. Cardinality(Unique(events)) |->
         events[CHOOSE n \in Unique(events) : Cardinality(earlier(n)) = p - 1]]

EvaluationEnd(anchor) == anchor.occurred + EvaluationWindow
Finalization(anchor) == EvaluationEnd(anchor) + FinalizationWindow

(* A slip: the time of receipt is not looked at. *)
AdmissibleWhenever(request, anchor, e) ==
  e = anchor \/ (anchor.occurred <= e.occurred /\ e.occurred < EvaluationEnd(anchor))

(* A slip: the evaluation window includes its end. *)
AdmissibleToTheEnd(request, anchor, e) ==
  \/ e = anchor
  \/ /\ anchor.occurred <= e.occurred /\ e.occurred <= EvaluationEnd(anchor)
     /\ e.received <= request.asOf
     /\ e.received <= Finalization(anchor)

Admissible(request, anchor, e) ==
  \/ e = anchor
  \/ /\ anchor.occurred <= e.occurred /\ e.occurred < EvaluationEnd(anchor)
     /\ e.received <= request.asOf
     /\ e.received <= Finalization(anchor)

Refusal(reason) == [verdict |-> "refused", reason |-> reason, evidence |-> <<>>, input |-> <<>>]

(* The references of the evidence list. *)
References(request, anchor, ordered) ==
  SelectSeq(ordered,
            LAMBDA e : /\ Admissible(request, anchor, e)
                       /\ e.type \in strategy(request).required
                                      \cup strategy(request).disqualifying)

(* The verdict on the admissible ones of the ordered events. *)
Verdict(request, anchor, ordered) ==
  LET s == strategy(request)
      admissible == {n \in DOMAIN ordered : Admissible(request, anchor, ordered[n])}
      present == {ordered[n].type : n \in admissible}
      currencies == {ordered[n].currency : n \in {m \in admissible :
                      ordered[m].type \in s.monetary}} \ {"none"}
      said(verdict, reason) ==
        [verdict |-> verdict, reason |-> reason, input |-> ordered,
         evidence |-> References(request, anchor, ordered)]
  IN  IF \E c \in s.conflicting : c \subseteq present
      THEN Refusal("conflicting_terminal_events")
      ELSE IF \E c, d \in currencies : c # d
      THEN Refusal("currency_mismatch")
      ELSE IF present \cap s.disqualifying # {}
      THEN said("rejected", "disqualifying_event_present")
      ELSE IF s.required \subseteq present
      THEN IF request.asOf < Finalization(anchor) THEN said("pending", "awaiting_finalization")
                                                  ELSE said("verified", "template_satisfied")
      ELSE IF request.asOf < Finalization(anchor)
           THEN said("pending", "awaiting_required_evidence")
           ELSE said("rejected", "required_event_missing")

(* evaluate: input is what the input digest is computed from, the rest is  *)
(* what the decision digest adds.                                          *)
Evaluate(request, events) ==
  LET bad == {n \in DOMAIN events : Problem(events, n) # "none"}
      ordered == Ordered(events)
      anchors == {n \in DOMAIN ordered : ordered[n].type = request.anchor}
  IN  IF bad # {}
      THEN Refusal(Problem(events, CHOOSE n \in bad : \A m \in bad : n <= m))
      ELSE IF Cardinality(anchors) # 1
      THEN Refusal("ambiguous_anchor_event")
      ELSE Verdict(request, ordered[CHOOSE n \in anchors : TRUE], ordered)

ProgressOf(result) ==
  CASE result.verdict = "verified" -> "verified"
    [] result.verdict = "rejected" -> "rejected"
    [] result.verdict = "pending"  -> "converted"

-----------------------------------------------------------------------------
AllowedTransitions(from) ==
  CASE from = "captured"  -> {"qualified", "rejected"}
    [] from = "qualified" -> {"converted", "rejected"}
    [] from = "converted" -> {"verified", "rejected", "failed"}
    [] from = "verified"  -> {"billable"}
    [] from = "billable"  -> {"settled", "disputed"}
    [] from = "disputed"  -> {"settled", "credited"}
    [] OTHER -> {}

(* No evaluation has moved the outcome yet. *)
Nothing == [asOf |-> 0, result |-> Refusal("none"), read |-> 0]

ProgressStates == {"captured", "qualified", "converted", "verified", "billable", "settled",
                   "disputed", "credited", "rejected", "failed"}

Init ==
  /\ now = 0
  /\ rule \in Rules
  /\ received = <<>>
  /\ progress = "captured"
  /\ decided = Nothing

Tick == now < MaxTime /\ now' = now + 1 /\ UNCHANGED <<rule, received, progress, decided>>

Received(e, at) ==
  [id |-> e.id, type |-> e.type, occurred |-> e.occurred, currency |-> e.currency,
   of |-> e.of, received |-> at]

(* An event that has occurred is received now. *)
Receive ==
  /\ Len(received) < MaxReceived
  /\ \E e \in Occurrences[rule] :
       /\ e.occurred <= now
       /\ \A n \in DOMAIN received : received[n] # Received(e, received[n].received)
       /\ received' = Append(received, Received(e, now))
  /\ UNCHANGED <<now, rule, progress, decided>>

(* The same receipt is read twice. *)
ReadAgain ==
  /\ Len(received) < MaxReceived
  /\ \E n \in DOMAIN received : received' = Append(received, received[n])
  /\ UNCHANGED <<now, rule, progress, decided>>

(* transition_outcome without a verdict: the business moves on. *)
Advance ==
  /\ \E next \in AllowedTransitions(progress) \ {"verified", "rejected"} :
       progress' = next
  /\ UNCHANGED <<now, rule, received, decided>>

(* An evaluation as of some instant, and the transition its progress state *)
(* asks for when the state machine allows it.                              *)
Decide ==
  /\ \E asOf \in 0 .. now :
       LET result == Evaluate(Request(asOf), received) IN
         /\ result.verdict \in {"verified", "rejected"}
         /\ ProgressOf(result) \in AllowedTransitions(progress)
         /\ progress' = ProgressOf(result)
         /\ decided' = [asOf |-> asOf, result |-> result, read |-> Len(received)]
  /\ UNCHANGED <<now, rule, received>>

Next == Tick \/ Receive \/ ReadAgain \/ Advance \/ Decide
Spec == Init /\ [][Next]_vars

-----------------------------------------------------------------------------
TypeOK ==
  /\ now \in 0 .. MaxTime
  /\ rule \in Rules
  /\ received \in Seq(TrustedEvents)
  /\ \A n \in DOMAIN received : received[n].received \in received[n].occurred .. now
  /\ decided # Nothing =>
       /\ decided.asOf \in 0 .. now /\ decided.read \in 0 .. Len(received)
       /\ decided.result.verdict \in {"verified", "rejected"}
  /\ progress \in ProgressStates
  /\ progress \in {"verified", "billable", "disputed", "settled", "credited"} <=>
       decided # Nothing /\ decided.result.verdict = "verified"

Malformed == \E n \in DOMAIN received : Problem(received, n) # "none"

(***************************************************************************)
(* The same evidence read in another order, or with a duplicate, gets the  *)
(* same verdict, reason, evidence list and digested input; what            *)
(* is malformed is refused in every order.                                 *)
(***************************************************************************)
OrderDoesNotMatter ==
  LET result == Evaluate(Request(now), received)
  IN  \A p \in {q \in [DOMAIN received -> DOMAIN received] :
                \A n \in DOMAIN received : \E m \in DOMAIN received : q[m] = n} :
        LET other == Evaluate(Request(now), [n \in DOMAIN received |-> received[p[n]]])
        IN  IF Malformed THEN result.verdict = "refused" /\ other.verdict = "refused"
                         ELSE other = result

(* What moved the outcome was the evaluation of what had been read by then. *)
DecidedInv ==
  decided # Nothing =>
    decided.result = Evaluate(Request(decided.asOf),
                              [n \in 1 .. decided.read |-> received[n]])

(* The inductive invariant the properties rest on. *)
IndInv == TypeOK /\ DecidedInv

(***************************************************************************)
(* The time semantics of docs/OUTCOME_EVALUATION.md, stated on the set of  *)
(* evidence: which verdict an instant and the unique anchor call for.      *)
(***************************************************************************)
VerdictsAsDocumented ==
  \A asOf \in 0 .. now :
    LET result == Evaluate(Request(asOf), received)
        s == strategy(Request(asOf))
        evidence == {received[n] : n \in DOMAIN received}
        onTime(t) == \E a, e \in evidence :
          /\ a.type = rule.anchor
          /\ e.type = t
          /\ \/ e = a
             \/ /\ e.occurred \in a.occurred .. a.occurred + EvaluationWindow - 1
                /\ e.received <= asOf
                /\ e.received <= a.occurred + EvaluationWindow + FinalizationWindow
        over == \A a \in evidence : a.type = rule.anchor =>
                  asOf >= a.occurred + EvaluationWindow + FinalizationWindow
    IN  result.verdict # "refused" =>
          result.verdict =
            CASE \E t \in s.disqualifying : onTime(t) -> "rejected"
              [] ~over /\ ~\E t \in s.disqualifying : onTime(t) -> "pending"
              [] over /\ ~\E t \in s.disqualifying : onTime(t) ->
                   IF \A t \in s.required : onTime(t) THEN "verified" ELSE "rejected"

EvaluatorInv == IndInv /\ VerdictsAsDocumented

(***************************************************************************)
(* A verdict that moved the outcome is never contradicted: whatever is     *)
(* received at a later instant than the one decided for, evaluating as of  *)
(* that instant or a later one gives the same verdict or is refused, and a *)
(* verified outcome is refused only for malformed evidence or a second     *)
(* anchor.  What is received at that very instant, after the reading, is   *)
(* left out (LaterReceived has the first event again in its place): both   *)
(* comparisons with the boundary include it.                               *)
(***************************************************************************)
LaterReceived ==
  [n \in DOMAIN received |->
     IF n <= decided.read \/ received[n].received > decided.asOf THEN received[n]
                                                                ELSE received[1]]

FinalVerdictsHold ==
  decided # Nothing => \A asOf \in decided.asOf .. now :
    LET again == Evaluate(Request(asOf), LaterReceived)
    IN  \/ again.verdict = decided.result.verdict
        \/ /\ again.verdict = "refused"
           /\ decided.result.verdict = "verified" =>
                Malformed \/ again.reason = "ambiguous_anchor_event"
=============================================================================
