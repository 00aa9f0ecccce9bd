--------------------------- MODULE CommandResults ---------------------------
(***************************************************************************)
(* How the contract service runs a command (ContractService._run): a read  *)
(* of contract_command_results under the caller's idempotency key, then    *)
(* the operation (most operations lock the contract row first), then an    *)
(* insert of the result under UNIQUE(tenant, key), all in one transaction  *)
(* of READ COMMITTED isolation.  The read of a prior result precedes the   *)
(* lock, so what it found may be old by the time the operation runs.       *)
(*                                                                         *)
(* One tenant and one contract are modelled.  A request stands for the     *)
(* digest of a command with its arguments; a call is numbered and the      *)
(* number stands for the ids and the response it produces.  Domain writes, *)
(* audit and outbox rows share the transaction: one effect is all of them. *)
(***************************************************************************)
EXTENDS Naturals, FiniteSets

CONSTANTS
  Sessions,   \* request handlers, each with a database session
  Keys,       \* Idempotency-Key values
  Requests,   \* commands with their arguments
  Locking,    \* requests whose operation locks the contract row
  Once,       \* lifecycle transitions: invalid once they have happened
  Unstorable, \* source bindings: their response holds datetimes
  MaxCalls,   \* bound: calls
  MaxFaults,  \* bound: failed transactions and lost answers
  None        \* no row, no call

ASSUME CommandAssumption ==
  /\ Locking \subseteq Requests
  /\ Once \subseteq Requests
  /\ Unstorable \subseteq Requests
  /\ MaxCalls \in Nat
  /\ MaxFaults \in Nat
  /\ None \notin [request: Requests, by: 0 .. MaxCalls]
  /\ None \notin [key: Keys, request: Requests, by: 1 .. MaxCalls]

Calls == [key: Keys, request: Requests, by: 1 .. MaxCalls]
Results == [request: Requests, by: 1 .. MaxCalls]
Phases == {"idle", "lookup", "lock", "check", "insert", "commit"}

VARIABLES
  phase,   \* per session: where its transaction stands
  call,    \* per session: the call it serves
  results, \* contract_command_results: request and response by key
  effects, \* committed operations with their audit and outbox rows
  answers, \* history: what calls were answered; "known" if a result existed by then
  calls,   \* calls so far
  faults   \* faults so far

vars == <<phase, call, results, effects, answers, calls, faults>>

Answers == [call: Calls, what: {"created", "stored", "conflict", "refused", "error"},
            of: 0 .. MaxCalls, known: BOOLEAN]

TypeOK ==
  /\ phase \in [Sessions -> Phases]
  /\ call \in [Sessions -> Calls \cup {None}]
  /\ results \in [Keys -> Results \cup {None}]
  /\ effects \subseteq Calls
  /\ answers \subseteq Answers
  /\ calls \in 0 .. MaxCalls
  /\ faults \in 0 .. MaxFaults

Init ==
  /\ phase = [s \in Sessions |-> "idle"]
  /\ call = [s \in Sessions |-> None]
  /\ results = [k \in Keys |-> None]
  /\ effects = {}
  /\ answers = {}
  /\ calls = 0
  /\ faults = 0

-----------------------------------------------------------------------------
Goto(s, next) == phase' = [phase EXCEPT ![s] = next]

(* The call is answered and its session closed. *)
Answer(s, what, of) ==
  /\ answers' = answers \cup {[call |-> call[s], what |-> what, of |-> of,
                               known |-> results[call[s].key] # None]}
  /\ phase' = [phase EXCEPT ![s] = "idle"]
  /\ call' = [call EXCEPT ![s] = None]

(* Slips: FOR UPDATE is forgotten in lock_contract; every waiter already   *)
(* holds a share of the lock it waits for.                                 *)
NotBlocked(s) == {}
SharedThenExclusive(s) ==
  {t \in Sessions \ {s} :
     phase[t] \in {"lock", "check", "insert", "commit"} /\ call[t].request \in Locking}

(* Sessions whose transaction holds the contract row lock s waits for. *)
RowLockHolders(s) ==
  {t \in Sessions \ {s} :
     phase[t] \in {"check", "insert", "commit"} /\ call[t].request \in Locking}

(* A slip: a prior result counts whatever request it was for. *)
AnyRequest(s) == TRUE

(* A slip: the digest covers something of the call itself. *)
SameCall(s) == results[call[s].key] = [request |-> call[s].request, by |-> call[s].by]

(* row["request_digest"] == digest *)
SameRequest(s) == results[call[s].key].request = call[s].request

(* A slip: a check of the key in the code in place of UNIQUE(tenant, key). *)
NoKeyWriter(s) == {}

(* Sessions with an uncommitted result under the same key: an insert waits. *)
KeyWriters(s) ==
  {t \in Sessions \ {s} : phase[t] = "commit" /\ call[t].key = call[s].key}

(* UNIQUE(tenant_id, idempotency_key) rejects the insert. *)
KeyTaken(s) == results[call[s].key] # None

(* A call arrives. *)
Call(s) ==
  /\ phase[s] = "idle"
  /\ calls < MaxCalls
  /\ calls' = calls + 1
  /\ \E k \in Keys, r \in Requests :
       call' = [call EXCEPT ![s] = [key |-> k, request |-> r, by |-> calls + 1]]
  /\ Goto(s, "lookup")
  /\ UNCHANGED <<results, effects, answers, faults>>

(* command_result: a prior response is returned, another request refused. *)
Lookup(s) ==
  /\ phase[s] = "lookup"
  /\ \/ /\ ~KeyTaken(s)
        /\ Goto(s, IF call[s].request \in Locking THEN "lock" ELSE "check")
        /\ UNCHANGED <<call, answers>>
     \/ /\ KeyTaken(s) /\ SameRequest(s)
        /\ Answer(s, "stored", results[call[s].key].by)
     \/ /\ KeyTaken(s) /\ ~SameRequest(s)
        /\ Answer(s, "conflict", 0)
  /\ UNCHANGED <<results, effects, calls, faults>>

(* lock_contract: SELECT ... FOR UPDATE returns. *)
Lock(s) ==
  /\ phase[s] = "lock"
  /\ RowLockHolders(s) = {}
  /\ Goto(s, "check")
  /\ UNCHANGED <<call, results, effects, answers, calls, faults>>

(* The operation reads the aggregate's state: a transition that has        *)
(* happened is refused (invalid_lifecycle).                                *)
Check(s) ==
  /\ phase[s] = "check"
  /\ \/ /\ call[s].request \in Once
        /\ \E e \in effects : e.request = call[s].request
        /\ Answer(s, "refused", 0)
     \/ /\ call[s].request \in Once => \A e \in effects : e.request # call[s].request
        /\ Goto(s, "insert")
        /\ UNCHANGED <<call, answers>>
  /\ UNCHANGED <<results, effects, calls, faults>>

(* remember: the response is serialised and inserted.  A response with a   *)
(* datetime cannot be, a taken key is a unique violation: both roll back.  *)
Insert(s) ==
  /\ phase[s] = "insert"
  /\ \/ /\ call[s].request \in Unstorable
        /\ Answer(s, "error", 0)
     \/ /\ call[s].request \notin Unstorable /\ KeyWriters(s) = {} /\ KeyTaken(s)
        /\ Answer(s, "error", 0)
     \/ /\ call[s].request \notin Unstorable /\ KeyWriters(s) = {} /\ ~KeyTaken(s)
        /\ Goto(s, "commit")
        /\ UNCHANGED <<call, answers>>
  /\ UNCHANGED <<results, effects, calls, faults>>

(* A slip: the whole call is stored as its result. *)
StoreCall(s) ==
  /\ phase[s] = "commit"
  /\ results' = [results EXCEPT ![call[s].key] = call[s]]
  /\ effects' = effects \cup {call[s]}

(* The transaction commits: operation, records and result become visible. *)
Store(s) ==
  /\ phase[s] = "commit"
  /\ results' = [results EXCEPT ![call[s].key] =
                   [request |-> call[s].request, by |-> call[s].by]]
  /\ effects' = effects \cup {call[s]}

Commit(s) ==
  /\ Store(s)
  /\ Answer(s, "created", call[s].by)
  /\ UNCHANGED <<calls, faults>>

Fault == faults < MaxFaults /\ faults' = faults + 1

(* The process or its connection dies: PostgreSQL rolls back. *)
Fail(s) ==
  /\ phase[s] # "idle"
  /\ Fault
  /\ Goto(s, "idle")
  /\ call' = [call EXCEPT ![s] = None]
  /\ UNCHANGED <<results, effects, answers, calls>>

(* The commit succeeds but its answer is lost. *)
CommitUnheard(s) ==
  /\ Store(s)
  /\ Fault
  /\ Goto(s, "idle")
  /\ call' = [call EXCEPT ![s] = None]
  /\ UNCHANGED <<answers, calls>>

Serve(s) == Lookup(s) \/ Lock(s) \/ Check(s) \/ Insert(s) \/ Commit(s)

Next == \E s \in Sessions : Call(s) \/ Serve(s) \/ Fail(s) \/ CommitUnheard(s)

Spec == Init /\ [][Next]_vars

(* A session that serves a call goes on with it. *)
FairSpec == Spec /\ \A s \in Sessions : WF_vars(Serve(s))

-----------------------------------------------------------------------------
Successful(a) == a.what \in {"created", "stored"}

(***************************************************************************)
(* A key takes effect at most once, and what it did is what its stored     *)
(* response says, however its calls are retried, raced or cut off.         *)
(***************************************************************************)
AppliedOncePerKey ==
  \A e \in effects : results[e.key] = [request |-> e.request, by |-> e.by]

(***************************************************************************)
(* Nothing is stored without its effect: the response outlives only a      *)
(* committed operation.                                                    *)
(***************************************************************************)
ResultsHaveEffects ==
  \A k \in Keys : results[k] # None =>
    [key |-> k, request |-> results[k].request, by |-> results[k].by] \in effects

(***************************************************************************)
(* Every success answered under one key names the same request and the     *)
(* same original response.                                                 *)
(***************************************************************************)
AnswersAgree ==
  \A a \in answers : Successful(a) =>
    results[a.call.key] = [request |-> a.call.request, by |-> a.of]

(***************************************************************************)
(* idempotency_conflict is answered only when the key was used for another *)
(* request.                                                                *)
(***************************************************************************)
ConflictsAreReal ==
  \A a \in answers : a.what = "conflict" =>
    results[a.call.key] # None /\ results[a.call.key].request # a.call.request

(***************************************************************************)
(* A transition checked under the contract lock happens once, whatever     *)
(* keys it is sent under: the state it read cannot change before it        *)
(* commits.                                                                *)
(***************************************************************************)
LockedTransitionsOnce ==
  \A d, e \in effects :
    d.request = e.request /\ d.request \in Once \cap Locking => d = e

(* What transactions under way know. *)
SessionInv ==
  /\ \A s \in Sessions : phase[s] = "idle" <=> call[s] = None
  /\ \A s \in Sessions : phase[s] # "idle" => call[s].by <= calls
  /\ \A s, t \in Sessions : s # t /\ phase[s] # "idle" /\ phase[t] # "idle"
       => call[s].by # call[t].by
  /\ \A e \in effects : e.by <= calls
  /\ \A e \in effects, s \in Sessions : phase[s] # "idle" => e.by # call[s].by
  /\ \A s, t \in Sessions : s # t /\ phase[s] = "commit" /\ phase[t] = "commit"
       => call[s].key # call[t].key
  /\ \A s \in Sessions : phase[s] = "commit" => results[call[s].key] = None
  /\ \A s, t \in Sessions :
       /\ s # t
       /\ phase[s] \in {"check", "insert", "commit"} /\ call[s].request \in Locking
       /\ phase[t] \in {"check", "insert", "commit"} /\ call[t].request \in Locking
       => FALSE
  /\ \A s \in Sessions, e \in effects :
       /\ phase[s] \in {"insert", "commit"}
       /\ call[s].request \in Once \cap Locking
       => e.request # call[s].request

(* A call is answered once: what a session still serves has no answer. *)
AnsweredInv ==
  /\ \A a \in answers : a.call.by <= calls
  /\ \A a \in answers, s \in Sessions : phase[s] # "idle" => a.call.by # call[s].by

(***************************************************************************)
(* The inductive invariant behind the properties above.                    *)
(***************************************************************************)
IndInv ==
  /\ TypeOK /\ SessionInv /\ AnsweredInv /\ AppliedOncePerKey /\ ResultsHaveEffects
  /\ AnswersAgree /\ ConflictsAreReal /\ LockedTransitionsOnce

(***************************************************************************)
(* What callers see is what KeyedCommands promises: each call takes effect *)
(* or is answered at one instant, for a reason the stored results and the  *)
(* effects of that instant give, although its transaction read them        *)
(* earlier and other transactions committed in between.                    *)
(***************************************************************************)
Keyed == INSTANCE KeyedCommands WITH Exclusive <- Once \cap Locking
ImplementsKeyedCommands == Keyed!KeyedSpec

(***************************************************************************)
(* Every call ends and leaves its session idle: commands never block each  *)
(* other for good.                                                         *)
(***************************************************************************)
EveryCallEnds == \A s \in Sessions : []<>(phase[s] = "idle")

(***************************************************************************)
(* An identical retry of a command that has committed is given the         *)
(* original response, never a refusal or an error (docs/CONTRACTS.md).     *)
(* See README for the retry that reads before the first one commits.       *)
(***************************************************************************)
RetryGetsOriginal ==
  \A a \in answers :
    a.known /\ results[a.call.key].request = a.call.request
      => a.what \in {"created", "stored"}

(***************************************************************************)
(* A transition happens once, also one without a lock (publishing a rule   *)
(* version): see README for two publishers that both read a draft.         *)
(***************************************************************************)
TransitionsOnce ==
  \A d, e \in effects : d.request = e.request /\ d.request \in Once => d = e

(***************************************************************************)
(* A valid source binding sent under an unused key is created: see README. *)
(***************************************************************************)
NoErrorUnderUnusedKey ==
  \A a \in answers : a.what = "error" => a.known
=============================================================================
