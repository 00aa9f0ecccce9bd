--------------------------- MODULE KeyedCommands ---------------------------
(***************************************************************************)
(* What callers are promised of commands sent under idempotency keys,      *)
(* without sessions, locks or transactions: a call takes effect or is      *)
(* answered at one instant and never again; it takes effect only under an  *)
(* unused key, leaving the result every later success under the key tells; *)
(* a transition made under the contract lock is made once; conflicts,      *)
(* refusals and errors have the causes named here.  A call may also come   *)
(* to nothing, unanswered.  CommandResults implements it.                  *)
(***************************************************************************)
CONSTANTS
  Keys,       \* Idempotency-Key values
  Calls,      \* calls: key, request and number
  Once,       \* requests that are lifecycle transitions
  Exclusive,  \* those made under the contract lock
  Unstorable, \* requests whose response cannot be stored
  None        \* no result

VARIABLES
  results,    \* what is stored under a key
  effects,    \* calls that have taken effect
  answers     \* what callers have heard

keyedVars == <<results, effects, answers>>

KeyedInit ==
  /\ results = [k \in Keys |-> None]
  /\ effects = {}
  /\ answers = {}

(* Neither in effect nor answered. *)
Fresh(c) ==
  /\ \A e \in effects : e.by # c.by
  /\ \A a \in answers : a.call.by # c.by

Made(c) == \E e \in effects : e.request = c.request

Tell(c, what, of) ==
  answers' = answers \cup {[call |-> c, what |-> what, of |-> of,
                            known |-> results[c.key] # None]}

(* The caller may not hear of it. *)
TakeEffect(c) ==
  /\ results[c.key] = None
  /\ Fresh(c)
  /\ c.request \in Exclusive => ~Made(c)
  /\ results' = [results EXCEPT ![c.key] = [request |-> c.request, by |-> c.by]]
  /\ effects' = effects \cup {c}
  /\ \/ Tell(c, "created", c.by)
     \/ UNCHANGED answers

Repeat(c) ==
  /\ results[c.key] # None /\ results[c.key].request = c.request
  /\ Tell(c, "stored", results[c.key].by)

Conflict(c) ==
  /\ results[c.key] # None /\ results[c.key].request # c.request
  /\ Tell(c, "conflict", 0)

Refuse(c) == c.request \in Once /\ Made(c) /\ Tell(c, "refused", 0)

Error(c) ==
  /\ c.request \in Unstorable \/ results[c.key] # None
  /\ Tell(c, "error", 0)

(* Answered without effect. *)
Turn(c) ==
  /\ Repeat(c) \/ Conflict(c) \/ Refuse(c) \/ Error(c)
  /\ Fresh(c)
  /\ UNCHANGED <<results, effects>>

KeyedNext == \E c \in Calls : TakeEffect(c) \/ Turn(c)

KeyedSpec == KeyedInit /\ [][KeyedNext]_keyedVars
=============================================================================
