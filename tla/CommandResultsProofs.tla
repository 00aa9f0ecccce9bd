------------------------ MODULE CommandResultsProofs ------------------------
(***************************************************************************)
(* Theorems about CommandResults for any number of sessions, keys and      *)
(* calls: idempotency keys take effect at most once, and answers, stored   *)
(* results and effects agree.                                              *)
(***************************************************************************)
EXTENDS CommandResults, TLAPS

Holds(s) == phase[s] \in {"check", "insert", "commit"} /\ call[s].request \in Locking

LEMMA InitInv == Init => IndInv
<1> SUFFICES ASSUME Init PROVE IndInv
  OBVIOUS
<1>1. TypeOK
  BY CommandAssumption DEF Init, TypeOK, Phases
<1>2. SessionInv
  BY DEF Init, SessionInv
<1> QED
  BY <1>1, <1>2 DEF Init, IndInv, AnsweredInv, AppliedOncePerKey, ResultsHaveEffects, AnswersAgree,
     ConflictsAreReal, LockedTransitionsOnce

(* What a busy session serves is a call. *)
LEMMA BusyCall ==
  ASSUME IndInv, NEW s \in Sessions, phase[s] # "idle"
  PROVE  /\ call[s] \in Calls
         /\ call[s].key \in Keys /\ call[s].request \in Requests
         /\ call[s].by \in 1 .. MaxCalls
         /\ call[s] = [key |-> call[s].key, request |-> call[s].request, by |-> call[s].by]
         /\ results[call[s].key] \in Results \cup {None}
<1>1. call[s] \in Calls
  BY DEF IndInv, TypeOK, SessionInv
<1> QED
  BY <1>1 DEF Calls, IndInv, TypeOK

(* A step that moves one session on, or ends its call, and touches no row.  *)
LEMMA MoveStep ==
  ASSUME IndInv, NEW s \in Sessions, phase[s] # "idle",
         UNCHANGED <<results, effects, calls>>, faults' \in 0 .. MaxFaults,
         NEW next \in Phases, phase' = [phase EXCEPT ![s] = next],
         \/ next # "idle" /\ call' = call
         \/ next = "idle" /\ call' = [call EXCEPT ![s] = None],
         next \in {"check", "insert", "commit"} /\ call[s].request \in Locking
           => \A t \in Sessions \ {s} : ~Holds(t),
         next = "commit" => /\ results[call[s].key] = None
                            /\ KeyWriters(s) = {},
         next \in {"insert", "commit"} /\ call[s].request \in Once \cap Locking
           => \A e \in effects : e.request # call[s].request,
         answers' \subseteq Answers, AnswersAgree', ConflictsAreReal',
         \/ answers' = answers
         \/ next = "idle" /\ \A a \in answers' : a \in answers \/ a.call = call[s]
  PROVE  IndInv'
<1>1. TypeOK'
  BY DEF IndInv, TypeOK
<1>2. \A t \in Sessions : phase'[t] = (IF t = s THEN next ELSE phase[t])
  BY DEF IndInv, TypeOK
<1>3. \A t \in Sessions : phase'[t] # "idle" => call'[t] = call[t] /\ phase[t] # "idle"
  BY <1>2 DEF IndInv, TypeOK
<1>4. SessionInv'
  <2>1. \A t \in Sessions : phase'[t] = "idle" <=> call'[t] = None
    BY <1>2 DEF IndInv, TypeOK, SessionInv
  <2>2. /\ \A t \in Sessions : phase'[t] # "idle" => call'[t].by <= calls
        /\ \A t, u \in Sessions : t # u /\ phase'[t] # "idle" /\ phase'[u] # "idle"
             => call'[t].by # call'[u].by
        /\ \A e \in effects : e.by <= calls
        /\ \A e \in effects, t \in Sessions : phase'[t] # "idle" => e.by # call'[t].by
    BY <1>3 DEF IndInv, SessionInv
  <2>3. \A t, u \in Sessions : t # u /\ phase'[t] = "commit" /\ phase'[u] = "commit"
          => call'[t].key # call'[u].key
    BY <1>2, <1>3 DEF IndInv, SessionInv, KeyWriters
  <2>4. \A t \in Sessions : phase'[t] = "commit" => results[call'[t].key] = None
    BY <1>2, <1>3 DEF IndInv, SessionInv
  <2>5. \A t, u \in Sessions : t # u /\ Holds(t)' /\ Holds(u)' => FALSE
    BY <1>2, <1>3 DEF IndInv, SessionInv, Holds
  <2>6. \A t \in Sessions, e \in effects :
          phase'[t] \in {"insert", "commit"} /\ call'[t].request \in Once \cap Locking
            => e.request # call'[t].request
    BY <1>2, <1>3 DEF IndInv, SessionInv
  <2> QED
    BY <2>1, <2>2, <2>3, <2>4, <2>5, <2>6 DEF SessionInv, Holds
<1>5. AppliedOncePerKey' /\ ResultsHaveEffects' /\ LockedTransitionsOnce'
  BY DEF IndInv, AppliedOncePerKey, ResultsHaveEffects, LockedTransitionsOnce
<1>6. AnsweredInv'
  <2>1. \A a \in answers' : a \in answers \/ (next = "idle" /\ a.call = call[s])
    OBVIOUS
  <2>2. call[s].by <= calls /\ \A t \in Sessions \ {s} : phase[t] # "idle"
          => call[s].by # call[t].by
    BY DEF IndInv, SessionInv
  <2> QED
    BY <1>2, <1>3, <2>1, <2>2 DEF IndInv, AnsweredInv
<1> QED
  BY <1>1, <1>4, <1>5, <1>6 DEF IndInv

(* The answers so far stay true while no row changes. *)
LEMMA AnswersStay ==
  ASSUME IndInv, UNCHANGED <<results, answers>>
  PROVE  answers' \subseteq Answers /\ AnswersAgree' /\ ConflictsAreReal'
BY DEF IndInv, TypeOK, AnswersAgree, ConflictsAreReal

(* A new answer that tells the truth about the stored result. *)
LEMMA AnswerStays ==
  ASSUME IndInv, NEW s \in Sessions, phase[s] # "idle", UNCHANGED results,
         NEW what \in {"created", "stored", "conflict", "refused", "error"},
         NEW of \in 0 .. MaxCalls, Answer(s, what, of),
         what \in {"created", "stored"} =>
           results[call[s].key] = [request |-> call[s].request, by |-> of],
         what = "conflict" => /\ results[call[s].key] # None
                              /\ results[call[s].key].request # call[s].request
  PROVE  /\ answers' \subseteq Answers /\ AnswersAgree' /\ ConflictsAreReal'
         /\ \A a \in answers' : a \in answers \/ a.call = call[s]
<1> DEFINE a == [call |-> call[s], what |-> what, of |-> of,
                 known |-> results[call[s].key] # None]
<1>1. call[s] \in Calls
  BY BusyCall
<1>2. a \in Answers
  BY <1>1 DEF Answers
<1>3. answers' = answers \cup {a}
  BY DEF Answer
<1>4. answers' \subseteq Answers
  BY <1>2, <1>3 DEF IndInv, TypeOK
<1>5. AnswersAgree'
  BY <1>3 DEF IndInv, AnswersAgree, Successful
<1>6. ConflictsAreReal'
  BY <1>3 DEF IndInv, ConflictsAreReal
<1>7. \A b \in answers' : b \in answers \/ b.call = call[s]
  BY <1>3
<1> QED
  BY <1>4, <1>5, <1>6, <1>7

LEMMA CallStep ==
  ASSUME IndInv, NEW s \in Sessions, Call(s)
  PROVE  IndInv'
<1>1. PICK k \in Keys, r \in Requests :
        call' = [call EXCEPT ![s] = [key |-> k, request |-> r, by |-> calls + 1]]
  BY DEF Call
<1>2. /\ phase[s] = "idle" /\ calls < MaxCalls /\ calls' = calls + 1
      /\ phase' = [phase EXCEPT ![s] = "lookup"]
      /\ UNCHANGED <<results, effects, answers, faults>>
  BY DEF Call, Goto
<1>3. TypeOK /\ SessionInv /\ calls \in Nat /\ calls + 1 \in 1 .. MaxCalls
  BY <1>2, CommandAssumption DEF IndInv, TypeOK
<1>4. [key |-> k, request |-> r, by |-> calls + 1] \in Calls
  BY <1>3 DEF Calls
<1>5. TypeOK'
  BY <1>1, <1>2, <1>3, <1>4 DEF TypeOK, Phases
<1>6. \A t \in Sessions :
        /\ phase'[t] = (IF t = s THEN "lookup" ELSE phase[t])
        /\ call'[t] = (IF t = s THEN [key |-> k, request |-> r, by |-> calls + 1]
                                ELSE call[t])
  BY <1>1, <1>2, <1>3 DEF TypeOK
<1>7. [key |-> k, request |-> r, by |-> calls + 1] # None
  BY <1>4, CommandAssumption DEF Calls
<1>8. ASSUME NEW t \in Sessions, phase[t] # "idle" PROVE call[t].by \in Nat
  <2>1. call[t].by \in 1 .. MaxCalls
    BY <1>8, BusyCall
  <2> QED
    BY <2>1, CommandAssumption
<1>9. \A e \in effects : e.by \in Nat
  BY <1>3, CommandAssumption DEF TypeOK, Calls
<1>10. SessionInv'
  <2>1. \A t \in Sessions : phase'[t] = "idle" <=> call'[t] = None
    BY <1>3, <1>6, <1>7 DEF SessionInv
  <2>2. \A t \in Sessions : phase'[t] # "idle" => call'[t].by <= calls'
    BY <1>2, <1>3, <1>6, <1>8 DEF SessionInv
  <2>3. \A t, u \in Sessions : t # u /\ phase'[t] # "idle" /\ phase'[u] # "idle"
          => call'[t].by # call'[u].by
    BY <1>3, <1>6, <1>8 DEF SessionInv
  <2>4. \A e \in effects' : e.by <= calls'
    BY <1>2, <1>3, <1>9 DEF SessionInv
  <2>5. \A e \in effects', t \in Sessions : phase'[t] # "idle" => e.by # call'[t].by
    BY <1>2, <1>3, <1>6, <1>9 DEF SessionInv
  <2>6. \A t \in Sessions : phase'[t] \in {"check", "insert", "commit"}
          => phase[t] = phase'[t] /\ call'[t] = call[t]
    BY <1>6
  <2> QED
    BY <1>2, <1>3, <2>1, <2>2, <2>3, <2>4, <2>5, <2>6 DEF SessionInv
<1>12. AnsweredInv'
  <2>1. \A a \in answers : a.call.by \in Nat
    BY <1>3, CommandAssumption DEF TypeOK, Answers, Calls
  <2>2. \A a \in answers : a.call.by <= calls /\ a.call.by <= calls'
                           /\ a.call.by # calls + 1
    BY <1>2, <1>3, <2>1 DEF IndInv, AnsweredInv
  <2> QED
    BY <1>2, <1>6, <2>2 DEF IndInv, AnsweredInv
<1>11. /\ AppliedOncePerKey' /\ ResultsHaveEffects' /\ LockedTransitionsOnce'
       /\ AnswersAgree' /\ ConflictsAreReal'
  BY <1>2 DEF IndInv, AppliedOncePerKey, ResultsHaveEffects, LockedTransitionsOnce,
     AnswersAgree, ConflictsAreReal
<1> QED
  BY <1>5, <1>10, <1>11, <1>12 DEF IndInv

LEMMA LookupStep ==
  ASSUME IndInv, NEW s \in Sessions, Lookup(s)
  PROVE  IndInv'
<1>1. phase[s] = "lookup" /\ UNCHANGED <<results, effects, calls, faults>>
  BY DEF Lookup
<1>2. faults' \in 0 .. MaxFaults
  BY <1>1 DEF IndInv, TypeOK
<1>3. CASE Goto(s, "lock") /\ UNCHANGED <<call, answers>>
  BY <1>1, <1>2, <1>3, AnswersStay, MoveStep DEF Goto, Phases
<1>4. CASE /\ call[s].request \notin Locking
           /\ Goto(s, "check") /\ UNCHANGED <<call, answers>>
  BY <1>1, <1>2, <1>4, AnswersStay, MoveStep DEF Goto, Phases
<1>5. CASE KeyTaken(s) /\ SameRequest(s) /\ Answer(s, "stored", results[call[s].key].by)
  <2>1. results[call[s].key] \in Results
    BY <1>1, <1>5, BusyCall DEF KeyTaken
  <2>2. /\ results[call[s].key].by \in 0 .. MaxCalls
        /\ results[call[s].key] =
             [request |-> call[s].request, by |-> results[call[s].key].by]
    BY <1>5, <2>1, CommandAssumption DEF Results, SameRequest
  <2>3. /\ answers' \subseteq Answers /\ AnswersAgree' /\ ConflictsAreReal'
        /\ \A a \in answers' : a \in answers \/ a.call = call[s]
    BY <1>1, <1>5, <2>2, AnswerStays
  <2> QED
    BY <1>1, <1>2, <1>5, <2>3, MoveStep DEF Answer, Phases
<1>6. CASE KeyTaken(s) /\ ~SameRequest(s) /\ Answer(s, "conflict", 0)
  <2>1. /\ answers' \subseteq Answers /\ AnswersAgree' /\ ConflictsAreReal'
        /\ \A a \in answers' : a \in answers \/ a.call = call[s]
    BY <1>1, <1>6, AnswerStays, CommandAssumption DEF KeyTaken, SameRequest
  <2> QED
    BY <1>1, <1>2, <1>6, <2>1, MoveStep DEF Answer, Phases
<1> QED
  BY <1>3, <1>4, <1>5, <1>6 DEF Lookup

LEMMA LockStep ==
  ASSUME IndInv, NEW s \in Sessions, Lock(s)
  PROVE  IndInv'
<1>1. /\ phase[s] = "lock" /\ RowLockHolders(s) = {}
      /\ phase' = [phase EXCEPT ![s] = "check"]
      /\ UNCHANGED <<call, results, effects, answers, calls, faults>>
  BY DEF Lock, Goto
<1>2. \A t \in Sessions \ {s} : ~Holds(t)
  BY <1>1 DEF RowLockHolders, Holds
<1>3. faults' \in 0 .. MaxFaults
  BY <1>1 DEF IndInv, TypeOK
<1> QED
  BY <1>1, <1>2, <1>3, AnswersStay, MoveStep DEF Phases

LEMMA CheckStep ==
  ASSUME IndInv, NEW s \in Sessions, Check(s)
  PROVE  IndInv'
<1>1. phase[s] = "check" /\ UNCHANGED <<results, effects, calls, faults>>
  BY DEF Check
<1>2. faults' \in 0 .. MaxFaults
  BY <1>1 DEF IndInv, TypeOK
<1>3. call[s].request \in Locking => \A t \in Sessions \ {s} : ~Holds(t)
  BY <1>1 DEF Holds, IndInv, SessionInv
<1>4. CASE Answer(s, "refused", 0)
  <2>1. /\ answers' \subseteq Answers /\ AnswersAgree' /\ ConflictsAreReal'
        /\ \A a \in answers' : a \in answers \/ a.call = call[s]
    BY <1>1, <1>4, AnswerStays, CommandAssumption
  <2> QED
    BY <1>1, <1>2, <1>4, <2>1, MoveStep DEF Answer, Phases
<1>5. CASE /\ call[s].request \in Once => \A e \in effects : e.request # call[s].request
           /\ Goto(s, "insert") /\ UNCHANGED <<call, answers>>
  BY <1>1, <1>2, <1>3, <1>5, AnswersStay, MoveStep DEF Goto, Phases
<1> QED
  BY <1>4, <1>5 DEF Check

LEMMA InsertStep ==
  ASSUME IndInv, NEW s \in Sessions, Insert(s)
  PROVE  IndInv'
<1>1. phase[s] = "insert" /\ UNCHANGED <<results, effects, calls, faults>>
  BY DEF Insert
<1>2. faults' \in 0 .. MaxFaults
  BY <1>1 DEF IndInv, TypeOK
<1>3. call[s].request \in Locking => \A t \in Sessions \ {s} : ~Holds(t)
  BY <1>1 DEF Holds, IndInv, SessionInv
<1>4. CASE Answer(s, "error", 0)
  <2>1. /\ answers' \subseteq Answers /\ AnswersAgree' /\ ConflictsAreReal'
        /\ \A a \in answers' : a \in answers \/ a.call = call[s]
    BY <1>1, <1>4, AnswerStays, CommandAssumption
  <2> QED
    BY <1>1, <1>2, <1>4, <2>1, MoveStep DEF Answer, Phases
<1>5. CASE /\ KeyWriters(s) = {} /\ ~KeyTaken(s)
           /\ Goto(s, "commit") /\ UNCHANGED <<call, answers>>
  <2>1. call[s].request \in Once \cap Locking =>
          \A e \in effects : e.request # call[s].request
    BY <1>1 DEF IndInv, SessionInv
  <2>2. answers' \subseteq Answers /\ AnswersAgree' /\ ConflictsAreReal'
    BY <1>1, <1>5, AnswersStay
  <2> QED
    BY <1>1, <1>2, <1>3, <1>5, <2>1, <2>2, MoveStep DEF Goto, Phases, KeyTaken
<1> QED
  BY <1>4, <1>5 DEF Insert

(* The commit, heard or not. *)
LEMMA StoreStep ==
  ASSUME IndInv, NEW s \in Sessions, Store(s), UNCHANGED calls,
         faults' \in 0 .. MaxFaults,
         phase' = [phase EXCEPT ![s] = "idle"], call' = [call EXCEPT ![s] = None],
         \/ Answer(s, "created", call[s].by)
         \/ UNCHANGED answers
  PROVE  IndInv'
<1> DEFINE row == [request |-> call[s].request, by |-> call[s].by]
<1>1. /\ phase[s] = "commit"
      /\ results' = [results EXCEPT ![call[s].key] = row]
      /\ effects' = effects \cup {call[s]}
  BY DEF Store
<1>2. /\ call[s] \in Calls /\ call[s].key \in Keys
      /\ call[s] = [key |-> call[s].key, request |-> call[s].request, by |-> call[s].by]
      /\ row \in Results
  BY <1>1, BusyCall DEF Results
<1>3. TypeOK /\ SessionInv /\ results[call[s].key] = None
  BY <1>1 DEF IndInv, SessionInv
<1>4. \A k \in Keys : results'[k] = (IF k = call[s].key THEN row ELSE results[k])
  BY <1>1, <1>2, <1>3 DEF TypeOK
<1>5. row # None
  BY <1>2, CommandAssumption DEF Results
<1>6. answers' \subseteq Answers /\ AnswersAgree' /\ ConflictsAreReal'
  <2> DEFINE a == [call |-> call[s], what |-> "created", of |-> call[s].by,
                   known |-> results[call[s].key] # None]
  <2>1. answers' = answers \/ answers' = answers \cup {a}
    BY DEF Answer
  <2>2. a \in Answers
    BY <1>2, CommandAssumption DEF Answers, Calls
  <2>3. \A b \in answers : b.call.key \in Keys
    BY <1>3 DEF TypeOK, Answers, Calls
  <2>4. \A b \in answers : Successful(b) => b.call.key # call[s].key
    <3> SUFFICES ASSUME NEW b \in answers, Successful(b), b.call.key = call[s].key
                 PROVE  FALSE
      OBVIOUS
    <3>1. results[b.call.key] = [request |-> b.call.request, by |-> b.of]
      BY DEF IndInv, AnswersAgree
    <3>2. [request |-> b.call.request, by |-> b.of] # None
      <4>1. b.of \in 0 .. MaxCalls /\ b.call.request \in Requests
        BY <1>3 DEF TypeOK, Answers, Calls
      <4> QED
        BY <4>1, CommandAssumption
    <3> QED
      BY <1>3, <3>1, <3>2
  <2>5. AnswersAgree'
    BY <1>2, <1>4, <2>1, <2>3, <2>4 DEF IndInv, AnswersAgree, Successful
  <2>6. ConflictsAreReal'
    BY <1>3, <1>4, <2>1, <2>3 DEF IndInv, ConflictsAreReal
  <2> QED
    BY <1>3, <2>1, <2>2, <2>5, <2>6 DEF TypeOK
<1>7. TypeOK'
  BY <1>1, <1>2, <1>3, <1>6 DEF TypeOK, Phases
<1>8. AppliedOncePerKey'
  <2>1. ASSUME NEW e \in effects
        PROVE  e.key \in Keys /\ e.key # call[s].key
    <3>1. e \in Calls /\ results[e.key] = [request |-> e.request, by |-> e.by]
      BY <1>3 DEF IndInv, TypeOK, AppliedOncePerKey
    <3>2. e.key \in Keys /\ [request |-> e.request, by |-> e.by] \in Results
      BY <3>1 DEF Calls, Results
    <3>3. [request |-> e.request, by |-> e.by] # None
      BY <3>2, CommandAssumption DEF Results
    <3> QED
      BY <1>3, <3>1, <3>2, <3>3
  <2>2. ASSUME NEW e \in effects
        PROVE  results'[e.key] = [request |-> e.request, by |-> e.by]
    BY <1>4, <2>1 DEF IndInv, AppliedOncePerKey
  <2>3. results'[call[s].key] = [request |-> call[s].request, by |-> call[s].by]
    BY <1>2, <1>4
  <2> QED
    BY <1>1, <2>2, <2>3 DEF AppliedOncePerKey
<1>9. ResultsHaveEffects'
  BY <1>1, <1>2, <1>4 DEF IndInv, ResultsHaveEffects
<1>10. LockedTransitionsOnce'
  BY <1>1, <1>3 DEF IndInv, LockedTransitionsOnce, SessionInv
<1>11. \A t \in Sessions :
         /\ phase'[t] # "idle" => t # s /\ call'[t] = call[t] /\ phase'[t] = phase[t]
         /\ phase'[t] = "idle" <=> call'[t] = None
  BY <1>3 DEF TypeOK, SessionInv
<1>12. SessionInv'
  <2>1. \A t \in Sessions : phase'[t] # "idle" => call'[t].by <= calls'
    BY <1>3, <1>11 DEF SessionInv
  <2>2. \A e \in effects' : e.by <= calls'
    BY <1>1, <1>3 DEF SessionInv
  <2>3. \A e \in effects', t \in Sessions : phase'[t] # "idle" => e.by # call'[t].by
    BY <1>1, <1>3, <1>11 DEF SessionInv
  <2>4. \A t \in Sessions : phase'[t] = "commit" => results'[call'[t].key] = None
    <3> SUFFICES ASSUME NEW t \in Sessions, phase'[t] = "commit"
                 PROVE  results'[call'[t].key] = None
      OBVIOUS
    <3>1. t # s /\ call'[t] = call[t] /\ phase[t] = "commit"
      BY <1>11
    <3>2. call[t].key # call[s].key /\ results[call[t].key] = None /\ call[t].key \in Keys
      BY <1>1, <1>3, <3>1, BusyCall DEF SessionInv
    <3> QED
      BY <1>4, <3>1, <3>2
  <2>5. \A t \in Sessions, e \in effects' :
          phase'[t] \in {"insert", "commit"} /\ call'[t].request \in Once \cap Locking
            => e.request # call'[t].request
    <3> SUFFICES ASSUME NEW t \in Sessions, NEW e \in effects',
                        phase'[t] \in {"insert", "commit"},
                        call'[t].request \in Once \cap Locking
                 PROVE  e.request # call'[t].request
      OBVIOUS
    <3>1. t # s /\ call'[t] = call[t] /\ phase[t] = phase'[t]
      BY <1>11
    <3>2. CASE e \in effects
      BY <1>3, <3>1, <3>2 DEF SessionInv
    <3>3. CASE e = call[s]
      BY <1>1, <1>3, <3>1, <3>3 DEF SessionInv
    <3> QED
      BY <1>1, <3>2, <3>3
  <2>6. \A t, u \in Sessions : t # u /\ phase'[t] # "idle" /\ phase'[u] # "idle"
          => call'[t].by # call'[u].by
    BY <1>3, <1>11 DEF SessionInv
  <2>7. \A t, u \in Sessions : t # u /\ phase'[t] = "commit" /\ phase'[u] = "commit"
          => call'[t].key # call'[u].key
    BY <1>3, <1>11 DEF SessionInv
  <2>8. \A t, u \in Sessions : t # u /\ Holds(t)' /\ Holds(u)' => FALSE
    BY <1>3, <1>11 DEF SessionInv, Holds
  <2> QED
    BY <1>11, <2>1, <2>2, <2>3, <2>4, <2>5, <2>6, <2>7, <2>8 DEF SessionInv, Holds
<1>13. AnsweredInv'
  <2>1. \A a \in answers' : a \in answers \/ a.call = call[s]
    BY DEF Answer
  <2>2. call[s].by <= calls /\ \A t \in Sessions \ {s} : phase[t] # "idle"
          => call[s].by # call[t].by
    BY <1>1, <1>3 DEF SessionInv
  <2> QED
    BY <1>11, <2>1, <2>2 DEF IndInv, AnsweredInv
<1> QED
  BY <1>6, <1>7, <1>8, <1>9, <1>10, <1>12, <1>13 DEF IndInv

LEMMA NextInv == IndInv /\ [Next]_vars => IndInv'
<1> SUFFICES ASSUME IndInv, [Next]_vars PROVE IndInv'
  OBVIOUS
<1>1. ASSUME NEW s \in Sessions, Commit(s) PROVE IndInv'
  <2>1. faults' \in 0 .. MaxFaults
    BY <1>1 DEF Commit, IndInv, TypeOK
  <2> QED
    BY <1>1, <2>1, StoreStep DEF Commit, Answer
<1>2. ASSUME NEW s \in Sessions, CommitUnheard(s) PROVE IndInv'
  <2>1. faults' \in 0 .. MaxFaults
    BY <1>2, CommandAssumption DEF CommitUnheard, Fault, IndInv, TypeOK
  <2> QED
    BY <1>2, <2>1, StoreStep DEF CommitUnheard, Goto
<1>3. ASSUME NEW s \in Sessions, Fail(s) PROVE IndInv'
  <2>1. faults' \in 0 .. MaxFaults
    BY <1>3, CommandAssumption DEF Fail, Fault, IndInv, TypeOK
  <2> QED
    BY <1>3, <2>1, AnswersStay, MoveStep DEF Fail, Goto, Phases
<1>4. CASE UNCHANGED vars
  <2>1. TypeOK' /\ AnsweredInv' /\ AppliedOncePerKey' /\ ResultsHaveEffects'
    BY <1>4 DEF vars, IndInv, TypeOK, AnsweredInv, AppliedOncePerKey, ResultsHaveEffects
  <2>2. SessionInv'
    BY <1>4 DEF vars, IndInv, SessionInv
  <2>3. AnswersAgree' /\ ConflictsAreReal' /\ LockedTransitionsOnce'
    BY <1>4 DEF vars, IndInv, AnswersAgree, ConflictsAreReal, LockedTransitionsOnce
  <2> QED
    BY <2>1, <2>2, <2>3 DEF IndInv
<1> QED
  BY <1>1, <1>2, <1>3, <1>4, CallStep, LookupStep, LockStep, CheckStep, InsertStep
     DEF Next, Serve

(* The inductive invariant holds in every reachable state. *)
THEOREM Inductive == Spec => []IndInv
BY InitInv, NextInv, PTL DEF Spec

(* Every variable keeps its type. *)
THEOREM TypeCorrect == Spec => []TypeOK
<1>1. IndInv => TypeOK
  BY DEF IndInv
<1> QED
  BY <1>1, Inductive, PTL

(* An idempotency key takes effect at most once. *)
THEOREM KeysApplyOnce == Spec => []AppliedOncePerKey
<1>1. IndInv => AppliedOncePerKey
  BY DEF IndInv
<1> QED
  BY <1>1, Inductive, PTL

(* Successful answers under one key name one original response. *)
THEOREM AnswerAgreement == Spec => []AnswersAgree
<1>1. IndInv => AnswersAgree
  BY DEF IndInv
<1> QED
  BY <1>1, Inductive, PTL

(* A transition made under the contract lock happens once. *)
THEOREM LockedTransitions == Spec => []LockedTransitionsOnce
<1>1. IndInv => LockedTransitionsOnce
  BY DEF IndInv
<1> QED
  BY <1>1, Inductive, PTL

-----------------------------------------------------------------------------
(* The refinement: one step of a session is one step a caller can see, or  *)
(* none.                                                                   *)

LEMMA FreshCall ==
  ASSUME IndInv, NEW s \in Sessions, phase[s] # "idle"
  PROVE  call[s] \in Calls /\ Keyed!Fresh(call[s])
BY BusyCall DEF IndInv, SessionInv, AnsweredInv, Keyed!Fresh

(* The answers without an effect. *)
LEMMA AnswerIsTurn ==
  ASSUME IndInv, NEW s \in Sessions, phase[s] # "idle", UNCHANGED <<results, effects>>,
         \/ KeyTaken(s) /\ SameRequest(s) /\ Answer(s, "stored", results[call[s].key].by)
         \/ KeyTaken(s) /\ ~SameRequest(s) /\ Answer(s, "conflict", 0)
         \/ /\ call[s].request \in Once /\ \E e \in effects : e.request = call[s].request
            /\ Answer(s, "refused", 0)
         \/ (call[s].request \in Unstorable \/ KeyTaken(s)) /\ Answer(s, "error", 0)
  PROVE  Keyed!KeyedNext
<1>1. call[s] \in Calls /\ Keyed!Fresh(call[s])
  BY FreshCall
<1>2. Keyed!Repeat(call[s]) \/ Keyed!Conflict(call[s])
        \/ Keyed!Refuse(call[s]) \/ Keyed!Error(call[s])
  BY DEF KeyTaken, SameRequest, Answer, Keyed!Repeat, Keyed!Conflict, Keyed!Refuse,
     Keyed!Error, Keyed!Made, Keyed!Tell
<1>3. Keyed!Turn(call[s])
  BY <1>1, <1>2 DEF Keyed!Turn
<1> QED
  BY <1>1, <1>3 DEF Keyed!KeyedNext

(* A commit, heard or not. *)
LEMMA StoreIsEffect ==
  ASSUME IndInv, NEW s \in Sessions, Store(s),
         Answer(s, "created", call[s].by) \/ UNCHANGED answers
  PROVE  Keyed!KeyedNext
<1>1. phase[s] = "commit"
  BY DEF Store
<1>2. call[s] \in Calls /\ Keyed!Fresh(call[s])
  BY <1>1, FreshCall
<1>3. results[call[s].key] = None
  BY <1>1 DEF IndInv, SessionInv
<1>4. call[s].request \in Once \cap Locking => ~Keyed!Made(call[s])
  BY <1>1 DEF IndInv, SessionInv, Keyed!Made
<1>5. Keyed!Tell(call[s], "created", call[s].by) \/ UNCHANGED answers
  BY DEF Answer, Keyed!Tell
<1>6. Keyed!TakeEffect(call[s])
  BY <1>2, <1>3, <1>4, <1>5 DEF Store, Keyed!TakeEffect
<1> QED
  BY <1>2, <1>6 DEF Keyed!KeyedNext

(***************************************************************************)
(* Whatever sessions read before they wait, lock and commit, callers see   *)
(* commands that take effect or are answered one at a time.                *)
(***************************************************************************)
THEOREM ImplementsKeyed == Spec => ImplementsKeyedCommands
<1>1. Init => Keyed!KeyedInit
  BY DEF Init, Keyed!KeyedInit
<1>2. IndInv /\ [Next]_vars => [Keyed!KeyedNext]_(Keyed!keyedVars)
  <2> SUFFICES ASSUME IndInv, [Next]_vars
               PROVE  Keyed!KeyedNext \/ UNCHANGED <<results, effects, answers>>
    BY DEF Keyed!keyedVars
  <2>1. CASE UNCHANGED vars
    BY <2>1 DEF vars
  <2>2. ASSUME NEW s \in Sessions, Call(s) \/ Lock(s) \/ Fail(s)
        PROVE  UNCHANGED <<results, effects, answers>>
    BY <2>2 DEF Call, Lock, Fail
  <2>3. ASSUME NEW s \in Sessions, Lookup(s)
        PROVE  Keyed!KeyedNext \/ UNCHANGED <<results, effects, answers>>
    BY <2>3, AnswerIsTurn DEF Lookup
  <2>4. ASSUME NEW s \in Sessions, Check(s)
        PROVE  Keyed!KeyedNext \/ UNCHANGED <<results, effects, answers>>
    BY <2>4, AnswerIsTurn DEF Check
  <2>5. ASSUME NEW s \in Sessions, Insert(s)
        PROVE  Keyed!KeyedNext \/ UNCHANGED <<results, effects, answers>>
    BY <2>5, AnswerIsTurn DEF Insert
  <2>6. ASSUME NEW s \in Sessions, Commit(s) \/ CommitUnheard(s)
        PROVE  Keyed!KeyedNext
    BY <2>6, StoreIsEffect DEF Commit, CommitUnheard
  <2> QED
    BY <2>1, <2>2, <2>3, <2>4, <2>5, <2>6 DEF Next, Serve
<1> QED
  BY <1>1, <1>2, Inductive, PTL DEF Spec, ImplementsKeyedCommands, Keyed!KeyedSpec
=============================================================================
