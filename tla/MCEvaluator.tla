---------------------------- MODULE MCEvaluator ----------------------------
(* A small instance of Evaluator: a booking and a subscription, with evidence
   on both sides of the end of the window, a second anchor, a conflict, events of
   another tenant and subject, an altered projection, two currencies, and for
   each rule an event its template does not name. *)
EXTENDS Evaluator, TLC

Event(id, type, occurred, of, currency) ==
  [id |-> id, type |-> type, occurred |-> occurred, of |-> of, currency |-> currency]

BookingRule == [template |-> "attended_booking", anchor |-> "booking.created"]
SubscriptionRule ==
  [template |-> "paid_activated_subscription", anchor |-> "account.activated"]

MCRules == {BookingRule, SubscriptionRule}

MCTypeOrder == <<"account.activated", "booking.attended", "booking.created",
                 "booking.no_show", "payment.refunded", "payment.succeeded">>

Booking == {Event(1, "booking.created", 0, "subject", "none"),
            Event(2, "booking.attended", 1, "subject", "none"),
            Event(2, "booking.attended", 1, "subject", "EUR"),
            Event(3, "booking.attended", 2, "subject", "none"),
            Event(4, "booking.no_show", 1, "subject", "none"),
            Event(5, "booking.created", 1, "subject", "none"),
            Event(7, "payment.succeeded", 1, "subject", "EUR"),
            Event(10, "booking.no_show", 0, "other_tenant", "none")}
Subscription == {Event(2, "booking.attended", 1, "subject", "none"),
                 Event(6, "account.activated", 0, "subject", "none"),
                 Event(7, "payment.succeeded", 1, "subject", "EUR"),
                 Event(8, "payment.succeeded", 1, "subject", "USD"),
                 Event(9, "payment.refunded", 1, "subject", "EUR"),
                 Event(11, "account.activated", 0, "other_subject", "none")}

MCOccurrences ==
  [r \in MCRules |-> IF r = BookingRule THEN Booking ELSE Subscription]
=============================================================================
