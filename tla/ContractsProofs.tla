--------------------------- MODULE ContractsProofs ---------------------------
(***************************************************************************)
(* Theorems about Contracts for any number of sessions, contracts, rule    *)
(* versions, roles and principals.                                         *)
(***************************************************************************)
EXTENDS Contracts, TLAPS

LEMMA CommandInit == Init => CommandInv
<1> SUFFICES ASSUME Init PROVE CommandInv
  OBVIOUS
<1>1. TypeOK
  BY DEF Init, TypeOK, ContractStates, RuleStates
<1> QED
  BY <1>1 DEF Init, CommandInv, ChecksHold, OneHolder, StateMatchesVersions, ActiveWasAccepted,
     MatchedVersionHolds, ActiveVersions, Doing

(* What the commands under way hold. *)
LEMMA DoingTypes ==
  ASSUME TypeOK, NEW s \in Sessions, doing[s] # None
  PROVE  /\ doing[s] \in Commands /\ doing[s].contract \in ContractIds
         /\ doing[s].kind = "create" =>
              /\ doing[s].arg.rule \in RuleVersions
              /\ doing[s].arg.required \in (SUBSET Roles) \ {{}}
         /\ doing[s].kind \in {"propose", "activate"} => doing[s].arg \in Nat
         /\ doing[s].kind = "accept" =>
              /\ doing[s].arg.version \in Nat
              /\ doing[s].arg.role \in Roles /\ doing[s].arg.principal \in Principals
         /\ doing[s].kind = "change" =>
              /\ doing[s].arg.target \in {"active", "suspended", "terminated"}
              /\ doing[s].arg.expected \in Nat \cup {None}
         /\ doing[s].kind = "authorize" =>
              doing[s].arg.role \in Roles /\ doing[s].arg.principal \in Principals
<1>1. doing[s] \in Commands
  BY DEF TypeOK
<1> QED
  BY <1>1 DEF Commands

(* A command that passed its checks starts: nothing else holds its contract. *)
LEMMA TakeStep ==
  ASSUME CommandInv, NEW s \in Sessions, NEW c \in ContractIds, NEW kind, NEW arg,
         [kind |-> kind, contract |-> c, arg |-> arg] \in Commands, Take(s, kind, c, arg),
         kind = "propose" => arg \in DOMAIN versions[c] /\ versions[c][arg].state = "draft",
         kind = "accept" => /\ arg.version \in DOMAIN versions[c]
                            /\ versions[c][arg.version].state = "proposed",
         kind = "activate" => /\ arg \in DOMAIN versions[c] /\ AllAccepted(c, arg)
                              /\ versions[c][arg].state = "proposed",
         kind = "change" => /\ <<contract[c], arg.target>> \in Changes
                            /\ arg.expected \in {None, lockVersion[c]}
  PROVE  CommandInv'
<1> DEFINE d == [kind |-> kind, contract |-> c, arg |-> arg]
<1>1. /\ doing' = [doing EXCEPT ![s] = d]
      /\ UNCHANGED <<contract, lockVersion, versions, acceptances, authorities, rule,
                     ruleDoing>>
      /\ contract[c] # "absent"
      /\ \A t \in Sessions : doing[t] # None => doing[t].contract # c
  BY DEF Take, contractVars, Unlocked
<1>2. TypeOK /\ ChecksHold /\ OneHolder /\ MatchedVersionHolds /\ StateMatchesVersions
        /\ ActiveWasAccepted
  BY DEF CommandInv
<1>3. TypeOK'
  BY <1>1, <1>2 DEF TypeOK
<1>4. \A t \in Sessions : doing'[t] = (IF t = s THEN d ELSE doing[t])
  BY <1>1, <1>2 DEF TypeOK
<1>6. ChecksHold'
  <2> SUFFICES ASSUME NEW t \in Sessions, doing'[t] # None PROVE StillTrue(doing[t])'
    BY DEF ChecksHold
  <2>1. CASE t = s
    BY <1>1, <1>4, <2>1 DEF StillTrue, AllAccepted, AcceptedRoles
  <2>2. CASE t # s
    <3>1. doing'[t] = doing[t] /\ doing[t] # None
      BY <1>4, <2>2
    <3>2. StillTrue(doing[t])
      BY <1>2, <3>1 DEF ChecksHold
    <3> QED
      BY <1>1, <3>1, <3>2 DEF StillTrue, AllAccepted, AcceptedRoles
  <2> QED
    BY <2>1, <2>2
<1>9. OneHolder'
  BY <1>1, <1>2, <1>4 DEF OneHolder
<1>7. MatchedVersionHolds'
  BY <1>1, <1>2, <1>4 DEF MatchedVersionHolds, Doing
<1>8. StateMatchesVersions' /\ ActiveWasAccepted'
  BY <1>1, <1>2 DEF StateMatchesVersions, ActiveWasAccepted, ActiveVersions, AllAccepted,
     AcceptedRoles
<1> QED
  BY <1>3, <1>6, <1>7, <1>8, <1>9 DEF CommandInv

LEMMA CheckStep ==
  ASSUME CommandInv, NEW s \in Sessions, NEW c \in ContractIds, Check(s, c)
  PROVE  CommandInv'
<1>1. TypeOK
  BY DEF CommandInv
<1>2. ASSUME NEW n \in DOMAIN versions[c] PROVE n \in Nat
  BY <1>1 DEF TypeOK
<1>3. CASE CheckCreate(s, c)
  <2>1. PICK r \in RuleVersions, required \in (SUBSET Roles) \ {{}} :
          Take(s, "create", c, [rule |-> r, required |-> required])
    BY <1>3 DEF CheckCreate
  <2>2. [kind |-> "create", contract |-> c, arg |-> [rule |-> r, required |-> required]]
          \in Commands
    BY DEF Commands
  <2> QED
    BY <2>1, <2>2, TakeStep
<1>4. CASE CheckPropose(s, c)
  <2>1. PICK n \in DOMAIN versions[c] :
          versions[c][n].state = "draft" /\ Take(s, "propose", c, n)
    BY <1>4 DEF CheckPropose
  <2>2. [kind |-> "propose", contract |-> c, arg |-> n] \in Commands
    BY <1>2 DEF Commands
  <2> QED
    BY <2>1, <2>2, TakeStep
<1>5. CASE CheckAccept(s, c)
  <2>1. PICK n \in DOMAIN versions[c], a \in authorities :
          /\ versions[c][n].state = "proposed"
          /\ Take(s, "accept", c, [version |-> n, role |-> a.role, principal |-> a.principal])
    BY <1>5 DEF CheckAccept
  <2>2. a.role \in Roles /\ a.principal \in Principals /\ n \in Nat
    BY <1>1, <1>2 DEF TypeOK, Authorities
  <2>3. [kind |-> "accept", contract |-> c,
         arg |-> [version |-> n, role |-> a.role, principal |-> a.principal]] \in Commands
    BY <2>2 DEF Commands
  <2> QED
    BY <2>1, <2>3, TakeStep
<1>6. CASE CheckActivate(s, c)
  <2>1. PICK n \in DOMAIN versions[c] :
          versions[c][n].state = "proposed" /\ AllAccepted(c, n) /\ Take(s, "activate", c, n)
    BY <1>6 DEF CheckActivate
  <2>2. [kind |-> "activate", contract |-> c, arg |-> n] \in Commands
    BY <1>2 DEF Commands
  <2> QED
    BY <2>1, <2>2, TakeStep
<1>7. CASE CheckChange(s, c)
  <2>1. PICK target \in {"active", "suspended", "terminated"},
             expected \in {lockVersion[c], None} :
          /\ <<contract[c], target>> \in Changes
          /\ Take(s, "change", c, [target |-> target, expected |-> expected])
    BY <1>7 DEF CheckChange
  <2>2. expected \in Nat \cup {None}
    BY <1>1 DEF TypeOK
  <2>3. [kind |-> "change", contract |-> c,
         arg |-> [target |-> target, expected |-> expected]] \in Commands
    BY <2>2 DEF Commands
  <2> QED
    BY <2>1, <2>3, TakeStep
<1>8. CASE CheckAuthorize(s, c)
  <2>1. PICK role \in Roles, p \in Principals :
          Take(s, "authorize", c, [role |-> role, principal |-> p])
    BY <1>8 DEF CheckAuthorize
  <2>2. [kind |-> "authorize", contract |-> c, arg |-> [role |-> role, principal |-> p]]
          \in Commands
    BY DEF Commands
  <2> QED
    BY <2>1, <2>2, TakeStep
<1> QED
  BY <1>3, <1>4, <1>5, <1>6, <1>7, <1>8 DEF Check

(* What StateMatchesVersions and ActiveWasAccepted say of one contract. *)
RowsAgree(c) ==
  /\ \A m, n \in ActiveVersions(c) : m = n
  /\ contract[c] \in {"active", "suspended"} => ActiveVersions(c) # {}
  /\ contract[c] \in {"absent", "draft"} => ActiveVersions(c) = {}
  /\ \A n \in DOMAIN versions[c] :
       versions[c][n].state \in {"active", "superseded"} => AllAccepted(c, n)

(* A write that touches the rows of its own contract only, and leaves them  *)
(* in agreement, preserves the invariant: the lock kept everyone else out.  *)
LEMMA WriteStep ==
  ASSUME CommandInv, TypeOK', NEW s \in Sessions, NEW c \in ContractIds,
         doing[s] # None, doing[s].contract = c, Done(s),
         \A e \in ContractIds \ {c} :
           contract'[e] = contract[e] /\ lockVersion'[e] = lockVersion[e]
             /\ versions'[e] = versions[e],
         \A a : a.contract # c => (a \in acceptances' <=> a \in acceptances),
         contract'[c] # "absent", RowsAgree(c)'
  PROVE  CommandInv'
<1>1. TypeOK /\ ChecksHold /\ OneHolder /\ MatchedVersionHolds /\ StateMatchesVersions
        /\ ActiveWasAccepted
  BY DEF CommandInv
<1>2. \A t \in Sessions : doing'[t] = (IF t = s THEN None ELSE doing[t])
  BY <1>1 DEF TypeOK, Done
<1>3. \A t \in Sessions : doing'[t] # None =>
        /\ t # s /\ doing'[t] = doing[t]
        /\ doing[t].contract \in ContractIds \ {c}
  BY <1>1, <1>2, DoingTypes DEF OneHolder
<1>4. \A e \in ContractIds \ {c} : \A n : AllAccepted(e, n) <=> AllAccepted(e, n)'
  BY DEF AllAccepted, AcceptedRoles
<1>5. OneHolder'
  BY <1>1, <1>3 DEF OneHolder
<1>6. ChecksHold'
  <2> SUFFICES ASSUME NEW t \in Sessions, doing'[t] # None PROVE StillTrue(doing[t])'
    BY DEF ChecksHold
  <2> QED
    BY <1>1, <1>3 DEF ChecksHold, StillTrue, AllAccepted, AcceptedRoles
<1>7. MatchedVersionHolds'
  BY <1>1, <1>3 DEF MatchedVersionHolds, Doing
<1>8. \A e \in ContractIds : RowsAgree(e)'
  <2> SUFFICES ASSUME NEW e \in ContractIds \ {c} PROVE RowsAgree(e)'
    OBVIOUS
  <2> QED
    BY <1>1, <1>4 DEF RowsAgree, StateMatchesVersions, ActiveWasAccepted, ActiveVersions
<1>9. StateMatchesVersions' /\ ActiveWasAccepted'
  BY <1>8 DEF RowsAgree, StateMatchesVersions, ActiveWasAccepted
<1> QED
  BY <1>5, <1>6, <1>7, <1>9 DEF CommandInv

(* What a write may assume of the command it carries out. *)
LEMMA WriterFacts ==
  ASSUME CommandInv, NEW s \in Sessions, doing[s] # None
  PROVE  /\ TypeOK /\ doing[s].contract \in ContractIds
         /\ StillTrue(doing[s]) /\ RowsAgree(doing[s].contract)
<1>1. TypeOK /\ ChecksHold /\ StateMatchesVersions /\ ActiveWasAccepted
  BY DEF CommandInv
<1>2. doing[s].contract \in ContractIds
  BY <1>1, DoingTypes
<1> QED
  BY <1>1, <1>2 DEF ChecksHold, RowsAgree, StateMatchesVersions, ActiveWasAccepted

LEMMA DoneTypes ==
  ASSUME TypeOK, NEW s \in Sessions, Done(s)
  PROVE  /\ rule' \in [RuleVersions -> RuleStates]
         /\ doing' \in [Sessions -> Commands \cup {None}]
         /\ ruleDoing' \in [Sessions -> RuleCommands \cup {None}]
BY DEF TypeOK, Done

LEMMA CreateStep ==
  ASSUME CommandInv, NEW s \in Sessions, Create(s)
  PROVE  CommandInv'
<1>1. doing[s] # None /\ doing[s].kind = "create" /\ Done(s)
      /\ UNCHANGED <<contract, lockVersion, acceptances, authorities>>
  BY DEF Create, Doing
<1>2. PICK c \in ContractIds : c = doing[s].contract
  BY <1>1, WriterFacts
<1>3. TypeOK /\ StillTrue(doing[s]) /\ RowsAgree(c)
  BY <1>1, <1>2, WriterFacts
<1> DEFINE row == [state |-> "draft", rule |-> doing[s].arg.rule,
                   required |-> doing[s].arg.required]
<1>4. versions' = [versions EXCEPT ![c] = Append(@, row)]
  BY <1>2 DEF Create
<1>5. versions[c] \in Seq(VersionRows) /\ row \in VersionRows
  BY <1>1, <1>3, DoingTypes DEF TypeOK, VersionRows, VersionStates
<1>6. /\ versions'[c] = Append(versions[c], row)
      /\ versions' \in [ContractIds -> Seq(VersionRows)]
      /\ \A e \in ContractIds \ {c} : versions'[e] = versions[e]
  BY <1>3, <1>4, <1>5 DEF TypeOK
<1>7. TypeOK'
  BY <1>1, <1>3, <1>6, DoneTypes DEF TypeOK
<1>8. /\ DOMAIN versions'[c] = 1..(Len(versions[c]) + 1)
      /\ DOMAIN versions[c] = 1..Len(versions[c])
      /\ \A n \in DOMAIN versions[c] : versions'[c][n] = versions[c][n]
      /\ versions'[c][Len(versions[c]) + 1].state = "draft"
      /\ Len(versions[c]) \in Nat
  BY <1>5, <1>6
<1>9. ActiveVersions(c)' = ActiveVersions(c)
  BY <1>8 DEF ActiveVersions
<1>10. \A n \in DOMAIN versions[c] : AllAccepted(c, n) => AllAccepted(c, n)'
  BY <1>1, <1>8 DEF AllAccepted, AcceptedRoles
<1>11. RowsAgree(c)'
  BY <1>1, <1>3, <1>8, <1>9, <1>10 DEF RowsAgree
<1>12. contract'[c] # "absent"
  BY <1>1, <1>2, <1>3 DEF StillTrue
<1> QED
  BY <1>1, <1>2, <1>6, <1>7, <1>11, <1>12, WriteStep

LEMMA ProposeStep ==
  ASSUME CommandInv, NEW s \in Sessions, Propose(s)
  PROVE  CommandInv'
<1>1. doing[s] # None /\ doing[s].kind = "propose" /\ Done(s)
      /\ UNCHANGED <<contract, lockVersion, acceptances, authorities>>
  BY DEF Propose, Doing
<1>2. PICK c \in ContractIds, k \in Nat : c = doing[s].contract /\ k = doing[s].arg
  BY <1>1, WriterFacts, DoingTypes
<1>3. TypeOK /\ StillTrue(doing[s]) /\ RowsAgree(c)
  BY <1>1, <1>2, WriterFacts
<1>4. versions' = [versions EXCEPT ![c][k].state = "proposed"]
  BY <1>2 DEF Propose
<1>5. /\ versions[c] \in Seq(VersionRows)
      /\ k \in DOMAIN versions[c] /\ versions[c][k].state = "draft"
  BY <1>1, <1>2, <1>3 DEF TypeOK, StillTrue
<1>6. versions'[c] = [versions[c] EXCEPT ![k].state = "proposed"]
      /\ \A e \in ContractIds \ {c} : versions'[e] = versions[e]
  BY <1>3, <1>4 DEF TypeOK
<1>7. [versions[c][k] EXCEPT !.state = "proposed"] \in VersionRows
  <2>1. versions[c][k] \in VersionRows
    BY <1>5
  <2> QED
    BY <2>1 DEF VersionRows, VersionStates
<1>8. /\ DOMAIN versions'[c] = DOMAIN versions[c]
      /\ versions'[c] \in Seq(VersionRows)
      /\ versions'[c][k] = [versions[c][k] EXCEPT !.state = "proposed"]
      /\ \A n \in DOMAIN versions[c] : n # k => versions'[c][n] = versions[c][n]
  BY <1>5, <1>6, <1>7
<1>9. TypeOK'
  BY <1>1, <1>3, <1>4, <1>6, <1>8, DoneTypes DEF TypeOK
<1>10. versions'[c][k].state = "proposed"
  BY <1>5, <1>8 DEF VersionRows
<1>11. ActiveVersions(c)' = ActiveVersions(c)
  BY <1>5, <1>8, <1>10, ZenonT(60) DEF ActiveVersions
<1>12. \A n \in DOMAIN versions[c] : n # k => (AllAccepted(c, n) => AllAccepted(c, n)')
  BY <1>1, <1>8 DEF AllAccepted, AcceptedRoles
<1>13. RowsAgree(c)'
  BY <1>1, <1>3, <1>8, <1>10, <1>11, <1>12 DEF RowsAgree
<1>14. contract'[c] # "absent"
  BY <1>1, <1>2, <1>3 DEF StillTrue
<1> QED
  BY <1>1, <1>2, <1>6, <1>9, <1>13, <1>14, WriteStep

LEMMA AcceptStep ==
  ASSUME CommandInv, NEW s \in Sessions, Accept(s)
  PROVE  CommandInv'
<1>1. doing[s] # None /\ doing[s].kind = "accept" /\ Done(s)
      /\ UNCHANGED <<contract, lockVersion, versions, authorities>>
  BY DEF Accept, Doing
<1>2. PICK c \in ContractIds, k \in Nat, r \in Roles, p \in Principals :
        c = doing[s].contract /\ k = doing[s].arg.version /\ r = doing[s].arg.role
          /\ p = doing[s].arg.principal
  BY <1>1, WriterFacts, DoingTypes
<1>3. TypeOK /\ StillTrue(doing[s]) /\ RowsAgree(c)
  BY <1>1, <1>2, WriterFacts
<1> DEFINE a == [contract |-> c, version |-> k, role |-> r, principal |-> p]
<1>4. acceptances' = acceptances \cup {a}
  BY <1>2 DEF Accept
<1>5. k \in DOMAIN versions[c] /\ versions[c][k].state = "proposed"
      /\ contract[c] # "absent"
  BY <1>1, <1>2, <1>3 DEF StillTrue
<1>6. TypeOK'
  BY <1>1, <1>3, <1>4, DoneTypes DEF TypeOK, Acceptances
<1>7. \A n \in DOMAIN versions[c] : n # k => (AllAccepted(c, n) => AllAccepted(c, n)')
  BY <1>1, <1>4 DEF AllAccepted, AcceptedRoles
<1>8. RowsAgree(c)'
  BY <1>1, <1>3, <1>5, <1>7 DEF RowsAgree, ActiveVersions
<1> QED
  BY <1>1, <1>2, <1>4, <1>5, <1>6, <1>8, WriteStep

LEMMA ActivateStep ==
  ASSUME CommandInv, NEW s \in Sessions, Activate(s)
  PROVE  CommandInv'
<1>1. doing[s] # None /\ doing[s].kind = "activate" /\ Done(s)
      /\ UNCHANGED <<acceptances, authorities>>
  BY DEF Activate, Doing
<1>2. PICK c \in ContractIds, k \in Nat : c = doing[s].contract /\ k = doing[s].arg
  BY <1>1, WriterFacts, DoingTypes
<1>3. TypeOK /\ StillTrue(doing[s]) /\ RowsAgree(c)
  BY <1>1, <1>2, WriterFacts
<1>4. /\ versions' = [versions EXCEPT ![c] = Supersede(@, k)]
      /\ contract' = [contract EXCEPT ![c] = "active"]
      /\ lockVersion' = [lockVersion EXCEPT ![c] = @ + 1]
  BY <1>2 DEF Activate
<1>5. /\ versions[c] \in Seq(VersionRows)
      /\ k \in DOMAIN versions[c] /\ versions[c][k].state = "proposed"
      /\ AllAccepted(c, k)
  BY <1>1, <1>2, <1>3 DEF TypeOK, StillTrue
<1>6. /\ versions'[c] = Supersede(versions[c], k)
      /\ contract'[c] = "active"
      /\ \A e \in ContractIds \ {c} :
           contract'[e] = contract[e] /\ lockVersion'[e] = lockVersion[e]
             /\ versions'[e] = versions[e]
  BY <1>3, <1>4 DEF TypeOK
<1>7. \A n \in DOMAIN versions[c] :
        versions[c][n] \in VersionRows /\ Supersede(versions[c], k)[n] \in VersionRows
  <2> SUFFICES ASSUME NEW n \in DOMAIN versions[c]
      PROVE versions[c][n] \in VersionRows /\ Supersede(versions[c], k)[n] \in VersionRows
    OBVIOUS
  <2>1. versions[c][n] \in VersionRows
    BY <1>5
  <2> QED
    BY <2>1 DEF Supersede, VersionRows, VersionStates
<1>8. /\ DOMAIN versions'[c] = DOMAIN versions[c]
      /\ versions'[c] \in Seq(VersionRows)
  <2>1. DOMAIN versions'[c] = 1..Len(versions[c]) /\ Len(versions[c]) \in Nat
    BY <1>5, <1>6 DEF Supersede
  <2>2. versions'[c] = [m \in 1..Len(versions[c]) |-> Supersede(versions[c], k)[m]]
    BY <1>5, <1>6 DEF Supersede
  <2>3. \A m \in 1..Len(versions[c]) : Supersede(versions[c], k)[m] \in VersionRows
    BY <1>5, <1>7
  <2> QED
    BY <1>5, <2>1, <2>2, <2>3
<1>9. \A n \in DOMAIN versions[c] :
        /\ versions'[c][n].required = versions[c][n].required
        /\ versions'[c][n].state = "active" <=> n = k
        /\ versions'[c][n].state = "superseded" =>
             versions[c][n].state \in {"active", "superseded"}
  BY <1>5, <1>6, <1>7, SMTT(30) DEF Supersede, VersionRows
<1>10. TypeOK'
  <2>1. versions' \in [ContractIds -> Seq(VersionRows)]
    BY <1>3, <1>4, <1>6, <1>8 DEF TypeOK
  <2> QED
    BY <1>1, <1>3, <1>4, <2>1, DoneTypes DEF TypeOK, ContractStates
<1>11. \A n \in DOMAIN versions[c] : AllAccepted(c, n) => AllAccepted(c, n)'
  BY <1>1, <1>9 DEF AllAccepted, AcceptedRoles
<1>12. RowsAgree(c)'
  BY <1>3, <1>5, <1>6, <1>8, <1>9, <1>11 DEF RowsAgree, ActiveVersions
<1> QED
  BY <1>1, <1>2, <1>6, <1>10, <1>12, WriteStep

LEMMA ChangeStep ==
  ASSUME CommandInv, NEW s \in Sessions, Change(s)
  PROVE  CommandInv'
<1>1. doing[s] # None /\ doing[s].kind = "change" /\ Done(s)
      /\ UNCHANGED <<versions, acceptances, authorities>>
  BY DEF Change, Doing
<1>2. PICK c \in ContractIds, target \in {"active", "suspended", "terminated"} :
        c = doing[s].contract /\ target = doing[s].arg.target
  BY <1>1, WriterFacts, DoingTypes
<1>3. TypeOK /\ StillTrue(doing[s]) /\ RowsAgree(c)
  BY <1>1, <1>2, WriterFacts
<1>4. /\ contract' = [contract EXCEPT ![c] = target]
      /\ lockVersion' = [lockVersion EXCEPT ![c] = @ + 1]
  BY <1>2 DEF Change
<1>5. <<contract[c], target>> \in Changes
  BY <1>1, <1>2, <1>3 DEF StillTrue
<1>6. /\ contract'[c] = target
      /\ \A e \in ContractIds \ {c} :
           contract'[e] = contract[e] /\ lockVersion'[e] = lockVersion[e]
  BY <1>3, <1>4 DEF TypeOK
<1>7. TypeOK'
  BY <1>1, <1>3, <1>4, DoneTypes DEF TypeOK, ContractStates
<1>8. contract'[c] \in {"active", "suspended"} => contract[c] \in {"active", "suspended"}
  BY <1>5, <1>6 DEF Changes
<1>9. \A n : AllAccepted(c, n) => AllAccepted(c, n)'
  BY <1>1 DEF AllAccepted, AcceptedRoles
<1>10. RowsAgree(c)'
  BY <1>1, <1>3, <1>6, <1>8, <1>9 DEF RowsAgree, ActiveVersions
<1> QED
  BY <1>1, <1>2, <1>6, <1>7, <1>10, WriteStep

LEMMA AuthorizeStep ==
  ASSUME CommandInv, NEW s \in Sessions, Authorize(s)
  PROVE  CommandInv'
<1>1. doing[s] # None /\ doing[s].kind = "authorize" /\ Done(s)
      /\ UNCHANGED <<contract, lockVersion, versions, acceptances>>
  BY DEF Authorize, Doing
<1>2. PICK c \in ContractIds : c = doing[s].contract
  BY <1>1, WriterFacts
<1>3. TypeOK /\ StillTrue(doing[s]) /\ RowsAgree(c)
  BY <1>1, <1>2, WriterFacts
<1>4. [contract |-> doing[s].contract, role |-> doing[s].arg.role,
       principal |-> doing[s].arg.principal] \in Authorities
  BY <1>1, <1>3, DoingTypes DEF Authorities
<1>5. authorities' \subseteq Authorities
  BY <1>3, <1>4 DEF Authorize, TypeOK
<1>6. TypeOK'
  BY <1>1, <1>3, <1>5, DoneTypes DEF TypeOK
<1>7. \A n : AllAccepted(c, n) => AllAccepted(c, n)'
  BY <1>1 DEF AllAccepted, AcceptedRoles
<1>8. RowsAgree(c)'
  BY <1>1, <1>3, <1>7 DEF RowsAgree, ActiveVersions
<1>9. contract'[c] # "absent"
  BY <1>1, <1>2, <1>3 DEF StillTrue
<1> QED
  BY <1>1, <1>2, <1>6, <1>8, <1>9, WriteStep

LEMMA CreateContractStep ==
  ASSUME CommandInv, NEW c \in ContractIds, CreateContract(c)
  PROVE  CommandInv'
<1>1. TypeOK /\ ChecksHold /\ OneHolder /\ MatchedVersionHolds /\ StateMatchesVersions
        /\ ActiveWasAccepted
  BY DEF CommandInv
<1>2. /\ contract[c] = "absent"
      /\ contract' = [contract EXCEPT ![c] = "draft"]
      /\ UNCHANGED <<lockVersion, versions, acceptances, authorities, rule, doing, ruleDoing>>
  BY DEF CreateContract
<1>3. TypeOK'
  BY <1>1, <1>2 DEF TypeOK, ContractStates
<1>4. \A e \in ContractIds : contract'[e] = (IF e = c THEN "draft" ELSE contract[e])
  BY <1>1, <1>2 DEF TypeOK
<1>5. \A t \in Sessions : doing[t] # None =>
        doing[t].contract \in ContractIds \ {c}
  BY <1>1, <1>2, DoingTypes DEF ChecksHold, StillTrue
<1>6. ChecksHold'
  <2> SUFFICES ASSUME NEW t \in Sessions, doing'[t] # None PROVE StillTrue(doing[t])'
    BY DEF ChecksHold
  <2> QED
    BY <1>1, <1>2, <1>4, <1>5 DEF ChecksHold, StillTrue, AllAccepted, AcceptedRoles
<1>7. OneHolder' /\ MatchedVersionHolds'
  BY <1>1, <1>2 DEF OneHolder, MatchedVersionHolds, Doing
<1>8. StateMatchesVersions'
  BY <1>1, <1>2, <1>4 DEF StateMatchesVersions, ActiveVersions
<1>9. ActiveWasAccepted'
  BY <1>1, <1>2 DEF ActiveWasAccepted, AllAccepted, AcceptedRoles
<1> QED
  BY <1>3, <1>6, <1>7, <1>8, <1>9 DEF CommandInv

(* Steps that change no row of a contract and start no command on one. *)
LEMMA RuleStep ==
  ASSUME CommandInv, TypeOK', UNCHANGED contractVars,
         \A t \in Sessions : doing'[t] \in {doing[t], None}
  PROVE  CommandInv'
<1>1. TypeOK /\ ChecksHold /\ OneHolder /\ MatchedVersionHolds /\ StateMatchesVersions
        /\ ActiveWasAccepted
  BY DEF CommandInv
<1>2. UNCHANGED <<contract, lockVersion, versions, acceptances, authorities>>
  BY DEF contractVars
<1>3. ChecksHold'
  <2> SUFFICES ASSUME NEW t \in Sessions, doing'[t] # None PROVE StillTrue(doing[t])'
    BY DEF ChecksHold
  <2> QED
    BY <1>1, <1>2 DEF ChecksHold, StillTrue, AllAccepted, AcceptedRoles
<1>4. OneHolder' /\ MatchedVersionHolds'
  BY <1>1, <1>2 DEF OneHolder, MatchedVersionHolds, Doing
<1>5. StateMatchesVersions' /\ ActiveWasAccepted'
  BY <1>1, <1>2 DEF StateMatchesVersions, ActiveWasAccepted, ActiveVersions, AllAccepted,
     AcceptedRoles
<1> QED
  BY <1>3, <1>4, <1>5 DEF CommandInv

LEMMA CommandNext == CommandInv /\ [Next]_vars => CommandInv'
<1> SUFFICES ASSUME CommandInv, [Next]_vars PROVE CommandInv'
  OBVIOUS
<1>1. TypeOK
  BY DEF CommandInv
<1>2. CASE \E c \in ContractIds : CreateContract(c)
  BY <1>2, CreateContractStep
<1>3. ASSUME NEW r \in RuleVersions, CreateRuleVersion(r) PROVE CommandInv'
  <2>1. TypeOK' /\ UNCHANGED contractVars /\ doing' = doing
    BY <1>1, <1>3 DEF CreateRuleVersion, contractVars, TypeOK, RuleStates
  <2> QED
    BY <2>1, RuleStep
<1>4. ASSUME NEW s \in Sessions, NEW c \in ContractIds, Check(s, c) PROVE CommandInv'
  BY <1>4, CheckStep
<1>5. ASSUME NEW s \in Sessions, NEW r \in RuleVersions, CheckRule(s, r) PROVE CommandInv'
  <2>1. UNCHANGED contractVars /\ doing' = doing /\ rule' = rule
    BY <1>5 DEF CheckRule
  <2>2. ruleDoing' \in [Sessions -> RuleCommands \cup {None}]
    BY <1>1, <1>5 DEF CheckRule, TypeOK, RuleCommands
  <2>3. TypeOK'
    BY <1>1, <2>1, <2>2 DEF TypeOK, contractVars
  <2> QED
    BY <2>1, <2>3, RuleStep
<1>6. ASSUME NEW s \in Sessions, Write(s) PROVE CommandInv'
  BY <1>6, CreateStep, ProposeStep, AcceptStep, ActivateStep, ChangeStep, AuthorizeStep
     DEF Write
<1>7. ASSUME NEW s \in Sessions, TransitionRule(s) PROVE CommandInv'
  <2>1. ruleDoing[s] \in RuleCommands
    BY <1>1, <1>7 DEF TransitionRule, TypeOK
  <2>2. ruleDoing[s].target \in RuleStates
    BY <2>1 DEF RuleCommands, RuleStates
  <2>3. TypeOK' /\ UNCHANGED contractVars /\ doing' = doing
    BY <1>1, <1>7, <2>2 DEF TransitionRule, TypeOK, contractVars
  <2> QED
    BY <2>3, RuleStep
<1>8. ASSUME NEW s \in Sessions, Abort(s) PROVE CommandInv'
  <2>1. TypeOK' /\ UNCHANGED contractVars
    BY <1>1, <1>8 DEF Abort, TypeOK, contractVars
  <2>2. \A t \in Sessions : doing'[t] \in {doing[t], None}
    BY <1>1, <1>8 DEF Abort, TypeOK
  <2> QED
    BY <2>1, <2>2, RuleStep
<1>9. CASE UNCHANGED vars
  <2>1. TypeOK' /\ UNCHANGED contractVars /\ doing' = doing
    BY <1>1, <1>9 DEF vars, contractVars, TypeOK
  <2> QED
    BY <2>1, RuleStep
<1> QED
  BY <1>2, <1>3, <1>4, <1>5, <1>6, <1>7, <1>8, <1>9 DEF Next

-----------------------------------------------------------------------------
(* Checks change no row; writes on contracts change no rule version. *)
LEMMA CheckIsQuiet ==
  ASSUME NEW s \in Sessions, NEW c \in ContractIds, Check(s, c)
  PROVE  UNCHANGED <<contract, lockVersion, versions, acceptances, authorities, rule>>
BY DEF Check, CheckCreate, CheckPropose, CheckAccept, CheckActivate, CheckChange,
   CheckAuthorize, Take, contractVars

LEMMA WriteKeepsRules == ASSUME NEW s \in Sessions, Write(s) PROVE rule' = rule
<1>1. Done(s)
  BY DEF Write, Create, Propose, Accept, Activate, Change, Authorize
<1> QED
  BY <1>1 DEF Done

(* One version's part of KeepsHistory. *)
KeepsVersion(c, n) ==
  /\ n \in DOMAIN versions'[c]
  /\ VersionRank(versions[c][n].state) <= VersionRank(versions'[c][n].state)
  /\ versions'[c][n].rule = versions[c][n].rule
  /\ versions'[c][n].required = versions[c][n].required
  /\ versions[c][n].state \in {"active", "superseded"} =>
       AcceptedRoles(c, n)' = AcceptedRoles(c, n)

LEMMA RowTypes ==
  ASSUME TypeOK, NEW c \in ContractIds, NEW n \in DOMAIN versions[c]
  PROVE  versions[c][n] \in VersionRows /\ VersionRank(versions[c][n].state) \in 0..3
<1>1. versions[c][n] \in VersionRows
  BY DEF TypeOK
<1>2. versions[c][n].state \in VersionStates
  BY <1>1 DEF VersionRows
<1> QED
  BY <1>1, <1>2 DEF VersionStates, VersionRank

LEMMA WriteKeepsHistory ==
  ASSUME CommandInv, NEW s \in Sessions, Write(s)
  PROVE  KeepsHistory
<1>1. TypeOK
  BY DEF CommandInv
<1> SUFFICES ASSUME NEW e \in ContractIds, NEW n \in DOMAIN versions[e]
    PROVE KeepsVersion(e, n)
  BY DEF KeepsHistory, KeepsVersion
<1>2. doing[s] # None
  BY DEF Write, Create, Propose, Accept, Activate, Change, Authorize, Doing
<1>3. StillTrue(doing[s]) /\ doing[s].contract \in ContractIds
  BY <1>2, WriterFacts
<1>4. versions[e][n] \in VersionRows /\ VersionRank(versions[e][n].state) \in 0..3
  BY <1>1, RowTypes
<1>5. CASE Create(s)
  <2>1. acceptances' = acceptances
    BY <1>5 DEF Create
  <2>2. n \in DOMAIN versions'[e] /\ versions'[e][n] = versions[e][n]
    BY <1>1, <1>3, <1>5 DEF Create, TypeOK
  <2> QED
    BY <1>4, <2>1, <2>2 DEF KeepsVersion, AcceptedRoles
<1>6. CASE Propose(s)
  <2>1. acceptances' = acceptances /\ doing[s].kind = "propose"
    BY <1>6 DEF Propose, Doing
  <2>2. versions[doing[s].contract][doing[s].arg].state = "draft"
    BY <1>3, <2>1 DEF StillTrue
  <2>3. CASE e = doing[s].contract /\ n = doing[s].arg
    <3>1. n \in DOMAIN versions'[e]
          /\ versions'[e][n] = [versions[e][n] EXCEPT !.state = "proposed"]
      BY <1>1, <1>3, <1>6, <2>3 DEF Propose, TypeOK
    <3>2. /\ versions'[e][n].state = "proposed"
          /\ versions'[e][n].rule = versions[e][n].rule
          /\ versions'[e][n].required = versions[e][n].required
      BY <1>4, <3>1 DEF VersionRows
    <3> QED
      BY <2>1, <2>2, <2>3, <3>1, <3>2 DEF KeepsVersion, AcceptedRoles, VersionRank
  <2>4. CASE ~(e = doing[s].contract /\ n = doing[s].arg)
    <3>1. n \in DOMAIN versions'[e] /\ versions'[e][n] = versions[e][n]
      BY <1>1, <1>3, <1>6, <2>4 DEF Propose, TypeOK
    <3> QED
      BY <1>4, <2>1, <3>1 DEF KeepsVersion, AcceptedRoles
  <2> QED
    BY <2>3, <2>4
<1>7. CASE Accept(s)
  <2>1. versions' = versions /\ doing[s].kind = "accept"
    BY <1>7 DEF Accept, Doing
  <2>2. versions[doing[s].contract][doing[s].arg.version].state = "proposed"
    BY <1>3, <2>1 DEF StillTrue
  <2>3. ASSUME versions[e][n].state \in {"active", "superseded"}
        PROVE  AcceptedRoles(e, n)' = AcceptedRoles(e, n)
    <3>1. ~(e = doing[s].contract /\ n = doing[s].arg.version)
      BY <2>2, <2>3
    <3> QED
      BY <1>7, <3>1 DEF Accept, AcceptedRoles
  <2> QED
    BY <1>4, <2>1, <2>3 DEF KeepsVersion
<1>8. CASE Activate(s)
  <2>1. acceptances' = acceptances /\ doing[s].kind = "activate"
    BY <1>8 DEF Activate, Doing
  <2>2. versions[doing[s].contract][doing[s].arg].state = "proposed"
    BY <1>3, <2>1 DEF StillTrue
  <2>3. versions' = [versions EXCEPT ![doing[s].contract] = Supersede(@, doing[s].arg)]
    BY <1>8 DEF Activate
  <2>4. CASE e = doing[s].contract
    <3>1. versions'[e] = Supersede(versions[e], doing[s].arg)
      BY <1>1, <1>3, <2>3, <2>4 DEF TypeOK
    <3>2. /\ n \in DOMAIN versions'[e]
          /\ versions'[e][n] = IF n = doing[s].arg
                               THEN [versions[e][n] EXCEPT !.state = "active"]
                               ELSE IF versions[e][n].state = "active"
                               THEN [versions[e][n] EXCEPT !.state = "superseded"]
                               ELSE versions[e][n]
      BY <3>1 DEF Supersede
    <3>3. /\ versions'[e][n].rule = versions[e][n].rule
          /\ versions'[e][n].required = versions[e][n].required
          /\ versions'[e][n].state = IF n = doing[s].arg THEN "active"
                                     ELSE IF versions[e][n].state = "active" THEN "superseded"
                                     ELSE versions[e][n].state
      BY <1>4, <3>2 DEF VersionRows
    <3>4. VersionRank(versions[e][n].state) <= VersionRank(versions'[e][n].state)
      <4>1. CASE n = doing[s].arg
        BY <2>2, <2>4, <3>3, <4>1 DEF VersionRank
      <4>2. CASE n # doing[s].arg /\ versions[e][n].state = "active"
        BY <3>3, <4>2 DEF VersionRank
      <4>3. CASE n # doing[s].arg /\ versions[e][n].state # "active"
        <5>1. versions'[e][n].state = versions[e][n].state
          BY <3>3, <4>3
        <5> QED
          BY <1>4, <5>1
      <4> QED
        BY <4>1, <4>2, <4>3
    <3> QED
      BY <2>1, <3>2, <3>3, <3>4 DEF KeepsVersion, AcceptedRoles
  <2>5. CASE e # doing[s].contract
    <3>1. versions'[e] = versions[e]
      BY <1>1, <2>3, <2>5 DEF TypeOK
    <3> QED
      BY <1>4, <2>1, <3>1 DEF KeepsVersion, AcceptedRoles
  <2> QED
    BY <2>4, <2>5
<1>9. CASE Change(s) \/ Authorize(s)
  <2>1. versions' = versions /\ acceptances' = acceptances
    BY <1>9 DEF Change, Authorize
  <2> QED
    BY <1>4, <2>1 DEF KeepsVersion, AcceptedRoles
<1> QED
  BY <1>5, <1>6, <1>7, <1>8, <1>9 DEF Write

(* Only a creation adds a version. *)
LEMMA SameVersions ==
  ASSUME CommandInv, NEW s \in Sessions, Write(s), NEW c \in ContractIds
  PROVE  \/ DOMAIN versions'[c] = DOMAIN versions[c]
         \/ /\ Create(s) /\ c = doing[s].contract
            /\ DOMAIN versions[c] = 1..Len(versions[c]) /\ Len(versions[c]) \in Nat
            /\ DOMAIN versions'[c] = 1..Len(versions[c]) + 1
            /\ versions'[c][Len(versions[c]) + 1] =
                 [state |-> "draft", rule |-> doing[s].arg.rule,
                  required |-> doing[s].arg.required]
<1>1. TypeOK
  BY DEF CommandInv
<1>2. versions[c] \in Seq(VersionRows)
  BY <1>1 DEF TypeOK
<1>3. CASE Create(s)
  <2> DEFINE row == [state |-> "draft", rule |-> doing[s].arg.rule,
                     required |-> doing[s].arg.required]
  <2>1. versions'[c] = IF c = doing[s].contract THEN Append(versions[c], row)
                                                ELSE versions[c]
    BY <1>1, <1>3 DEF Create, TypeOK
  <2>2. CASE c = doing[s].contract
    <3>1. doing[s] # None /\ doing[s].kind = "create"
      BY <1>3 DEF Create, Doing
    <3>2. row \in VersionRows
      BY <1>1, <3>1, DoingTypes DEF VersionRows, VersionStates
    <3> HIDE DEF row
    <3>3. /\ DOMAIN versions[c] = 1..Len(versions[c]) /\ Len(versions[c]) \in Nat
          /\ DOMAIN Append(versions[c], row) = 1..Len(versions[c]) + 1
          /\ Append(versions[c], row)[Len(versions[c]) + 1] = row
      BY <1>2, <3>2
    <3> QED
      BY <1>3, <2>1, <2>2, <3>3 DEF row
  <2> QED
    BY <2>1, <2>2
<1>4. CASE Propose(s)
  BY <1>1, <1>4 DEF Propose, TypeOK
<1>5. CASE Activate(s)
  <2>1. versions'[c] = IF c = doing[s].contract THEN Supersede(versions[c], doing[s].arg)
                                                ELSE versions[c]
    BY <1>1, <1>5 DEF Activate, TypeOK
  <2> QED
    BY <2>1 DEF Supersede
<1> QED
  BY <1>3, <1>4, <1>5 DEF Write, Accept, Change, Authorize

(* A rule version that was published is published or retired from then on. *)
LEMMA RulesLast ==
  ASSUME TypeOK, [Next]_vars, NEW r \in RuleVersions, rule[r] \in {"published", "retired"}
  PROVE  rule'[r] \in {"published", "retired"}
<1>1. CASE rule' = rule
  BY <1>1
<1>2. ASSUME NEW q \in RuleVersions, CreateRuleVersion(q) PROVE rule'[r] = rule[r]
  BY <1>2 DEF CreateRuleVersion, TypeOK
<1>3. ASSUME NEW s \in Sessions, TransitionRule(s)
      PROVE  rule'[r] \in {"published", "retired"}
  BY <1>3 DEF TransitionRule, RuleMayBecome, TypeOK, RuleCommands
<1> QED
  BY <1>1, <1>2, <1>3, CheckIsQuiet, WriteKeepsRules
     DEF Next, CreateContract, CheckRule, Abort, vars

(* The rules of versions, then those of creations under way, then the      *)
(* authorities of acceptances under way.                                   *)
LEMMA VersionBases ==
  ASSUME IndInv, [Next]_vars, NEW c \in ContractIds, NEW n \in DOMAIN versions'[c]
  PROVE  rule'[versions'[c][n].rule] \in {"published", "retired"}
<1>1. CommandInv /\ TypeOK /\ BasesHold
  BY DEF IndInv, CommandInv
<1>2. CASE n \in DOMAIN versions[c] /\ versions'[c][n].rule = versions[c][n].rule
  <2>1. versions[c][n].rule \in RuleVersions
    BY <1>1, <1>2, RowTypes DEF VersionRows
  <2>2. rule[versions[c][n].rule] \in {"published", "retired"}
    BY <1>1, <1>2 DEF BasesHold
  <2> QED
    BY <1>1, <1>2, <2>1, <2>2, RulesLast
<1>3. CASE versions' = versions
  BY <1>2, <1>3
<1>4. ASSUME NEW s \in Sessions, Write(s)
      PROVE  rule'[versions'[c][n].rule] \in {"published", "retired"}
  <2>1. CASE n \in DOMAIN versions[c]
    <3>1. KeepsHistory
      BY <1>1, <1>4, WriteKeepsHistory
    <3> QED
      BY <1>2, <2>1, <3>1 DEF KeepsHistory
  <2>2. CASE n \notin DOMAIN versions[c]
    <3> DEFINE row == [state |-> "draft", rule |-> doing[s].arg.rule,
                       required |-> doing[s].arg.required]
    <3>1. /\ Create(s)
          /\ DOMAIN versions[c] = 1..Len(versions[c]) /\ Len(versions[c]) \in Nat
          /\ DOMAIN versions'[c] = 1..Len(versions[c]) + 1
          /\ versions'[c][Len(versions[c]) + 1] = row
      BY <1>1, <1>4, <2>2, SameVersions, Zenon
    <3>2. versions'[c][n].rule = doing[s].arg.rule
      BY <2>2, <3>1
    <3>3. doing[s] # None /\ doing[s].kind = "create"
      BY <3>1 DEF Create, Doing
    <3>4. doing[s].arg.rule \in RuleVersions
      BY <1>1, <3>3, DoingTypes
    <3>5. rule[doing[s].arg.rule] \in {"published", "retired"}
      BY <1>1, <3>3 DEF BasesHold, Doing
    <3> QED
      BY <1>1, <3>2, <3>4, <3>5, RulesLast
  <2> QED
    BY <2>1, <2>2
<1> QED
  BY <1>3, <1>4, CheckIsQuiet
     DEF Next, CreateContract, CreateRuleVersion, CheckRule, TransitionRule, Abort,
         contractVars, vars

(* What a session does after a step it did before it, or has just checked. *)
LEMMA WhatIsDone ==
  ASSUME TypeOK, [Next]_vars, NEW t \in Sessions
  PROVE  \/ doing'[t] \in {doing[t], None}
         \/ \E c \in ContractIds : Check(t, c)
<1>1. ASSUME NEW s \in Sessions, NEW c \in ContractIds, Check(s, c), s # t
      PROVE  doing'[t] = doing[t]
  BY <1>1 DEF Check, CheckCreate, CheckPropose, CheckAccept, CheckActivate, CheckChange,
     CheckAuthorize, Take, TypeOK
<1>2. ASSUME NEW s \in Sessions, Write(s) PROVE doing'[t] \in {doing[t], None}
  BY <1>2 DEF Write, Create, Propose, Accept, Activate, Change, Authorize, Done, TypeOK
<1>3. ASSUME NEW s \in Sessions, Abort(s) PROVE doing'[t] \in {doing[t], None}
  BY <1>3 DEF Abort, TypeOK
<1> QED
  BY <1>1, <1>2, <1>3
     DEF Next, CreateContract, CreateRuleVersion, CheckRule, TransitionRule, vars

LEMMA AuthoritiesLast ==
  ASSUME [Next]_vars
  PROVE  authorities \subseteq authorities'
<1>1. ASSUME NEW s \in Sessions, Write(s) PROVE authorities \subseteq authorities'
  BY <1>1 DEF Write, Create, Propose, Accept, Activate, Change, Authorize
<1> QED
  BY <1>1, CheckIsQuiet
     DEF Next, CreateContract, CreateRuleVersion, CheckRule, TransitionRule, Abort,
         contractVars, vars

LEMMA CommandBases ==
  ASSUME IndInv, [Next]_vars, NEW t \in Sessions
  PROVE  /\ Doing(t, "create")' => rule'[doing'[t].arg.rule] \in {"published", "retired"}
         /\ Doing(t, "accept")' =>
              [contract |-> doing'[t].contract, role |-> doing'[t].arg.role,
               principal |-> doing'[t].arg.principal] \in authorities'
<1>1. TypeOK /\ BasesHold
  BY DEF IndInv, CommandInv
<1>2. CASE doing'[t] = None
  BY <1>2 DEF Doing
<1>3. CASE doing'[t] = doing[t] /\ doing[t] # None
  <2>1. ASSUME doing[t].kind = "create"
        PROVE  rule'[doing'[t].arg.rule] \in {"published", "retired"}
    <3>1. doing[t].arg.rule \in RuleVersions
      BY <1>1, <1>3, <2>1, DoingTypes
    <3>2. rule[doing[t].arg.rule] \in {"published", "retired"}
      BY <1>1, <1>3, <2>1 DEF BasesHold, Doing
    <3> QED
      BY <1>1, <1>3, <3>1, <3>2, RulesLast
  <2> QED
    BY <1>1, <1>3, <2>1, AuthoritiesLast DEF BasesHold, Doing
<1>4. ASSUME NEW c \in ContractIds, Check(t, c), doing'[t] # None
      PROVE  /\ doing'[t].kind = "create" =>
                  rule'[doing'[t].arg.rule] \in {"published", "retired"}
             /\ doing'[t].kind = "accept" =>
                  [contract |-> doing'[t].contract, role |-> doing'[t].arg.role,
                   principal |-> doing'[t].arg.principal] \in authorities'
  <2>1. rule' = rule /\ authorities' = authorities
    BY <1>4, CheckIsQuiet
  <2>2. CASE CheckCreate(t, c)
    BY <1>1, <2>1, <2>2 DEF CheckCreate, Take, TypeOK
  <2>3. CASE CheckAccept(t, c)
    <3>1. PICK n \in DOMAIN versions[c], a \in authorities :
            /\ a.contract = c
            /\ Take(t, "accept", c, [version |-> n, role |-> a.role, principal |-> a.principal])
      BY <2>3 DEF CheckAccept
    <3>2. a = [contract |-> c, role |-> a.role, principal |-> a.principal]
      BY <1>1, <3>1 DEF TypeOK, Authorities
    <3>3. doing'[t] = [kind |-> "accept", contract |-> c,
                       arg |-> [version |-> n, role |-> a.role, principal |-> a.principal]]
      BY <1>1, <3>1 DEF Take, TypeOK
    <3> QED
      BY <2>1, <3>2, <3>3
  <2>4. CASE CheckPropose(t, c) \/ CheckActivate(t, c) \/ CheckChange(t, c)
               \/ CheckAuthorize(t, c)
    <3>1. doing'[t].kind \in {"propose", "activate", "change", "authorize"}
      BY <1>1, <2>4 DEF CheckPropose, CheckActivate, CheckChange, CheckAuthorize, Take, TypeOK
    <3> QED
      BY <3>1
  <2> QED
    BY <1>4, <2>2, <2>3, <2>4 DEF Check
<1> QED
  BY <1>1, <1>2, <1>3, <1>4, WhatIsDone DEF Doing

LEMMA BasesLast == IndInv /\ [Next]_vars => BasesHold'
BY VersionBases, CommandBases DEF BasesHold

(***************************************************************************)
(* IndInv is an inductive invariant.                                       *)
(***************************************************************************)
THEOREM Inductive == Spec => []IndInv
<1>1. Init => IndInv
  BY CommandInit DEF Init, IndInv, BasesHold, Doing
<1>2. IndInv /\ [Next]_vars => IndInv'
  BY CommandNext, BasesLast DEF IndInv
<1> QED
  BY <1>1, <1>2, PTL DEF Spec

(***************************************************************************)
(* Rows and commands under way have their types.                           *)
(***************************************************************************)
THEOREM TypeCorrect == Spec => []TypeOK
<1>1. IndInv => TypeOK
  BY DEF IndInv, CommandInv
<1> QED
  BY <1>1, Inductive, PTL

(***************************************************************************)
(* The contract's state agrees with its versions' and no contract has two  *)
(* active versions, with any number of concurrent commands.                *)
(***************************************************************************)
THEOREM OneActiveVersion == Spec => []StateMatchesVersions
<1>1. IndInv => StateMatchesVersions
  BY DEF IndInv, CommandInv
<1> QED
  BY <1>1, Inductive, PTL

(***************************************************************************)
(* What becomes active was accepted for exactly the roles it requires, and *)
(* stays so.                                                               *)
(***************************************************************************)
THEOREM ActivationNeedsAcceptance == Spec => []ActiveWasAccepted
<1>1. IndInv => ActiveWasAccepted
  BY DEF IndInv, CommandInv
<1> QED
  BY <1>1, Inductive, PTL

(***************************************************************************)
(* The lock_version a command named in If-Match is the one it updates.     *)
(***************************************************************************)
THEOREM IfMatchHolds == Spec => []MatchedVersionHolds
<1>1. IndInv => MatchedVersionHolds
  BY DEF IndInv, CommandInv
<1> QED
  BY <1>1, Inductive, PTL

(***************************************************************************)
(* A terminated contract stays terminated: the trigger refuses what the    *)
(* activation does not check.                                              *)
(***************************************************************************)
THEOREM TerminationIsFinal == Spec => TerminatedIsFinal
<1>1. ASSUME NEW s \in Sessions, Write(s), TypeOK PROVE KeepsTerminated
  <2>1. CASE Activate(s)
    BY <1>1, <2>1 DEF Activate, KeepsTerminated, ContractMayBecome, TypeOK
  <2>2. CASE Change(s)
    BY <1>1, <2>2 DEF Change, KeepsTerminated, ContractMayBecome, TypeOK
  <2>3. CASE contract' = contract
    BY <2>3 DEF KeepsTerminated
  <2> QED
    BY <1>1, <2>1, <2>2, <2>3 DEF Write, Create, Propose, Accept, Authorize
<1>2. ASSUME NEW c \in ContractIds, CreateContract(c), TypeOK PROVE KeepsTerminated
  BY <1>2 DEF CreateContract, KeepsTerminated, TypeOK
<1>3. ASSUME [Next]_vars, TypeOK PROVE [KeepsTerminated]_vars
  <2>1. CASE contract' = contract
    BY <2>1 DEF KeepsTerminated
  <2> QED
    BY <1>1, <1>2, <1>3, <2>1, CheckIsQuiet DEF Next, CreateRuleVersion, CheckRule,
       TransitionRule, Abort, contractVars, vars
<1> QED
  BY <1>3, TypeCorrect, PTL DEF Spec, TerminatedIsFinal

(***************************************************************************)
(* A retired rule version stays retired although transitions read its      *)
(* state without a lock.                                                   *)
(***************************************************************************)
THEOREM RetirementIsFinal == Spec => RetiredIsFinal
<1>1. ASSUME NEW s \in Sessions, TransitionRule(s), TypeOK PROVE KeepsRetired
  BY <1>1 DEF TransitionRule, RuleMayBecome, KeepsRetired, TypeOK, RuleCommands
<1>2. ASSUME NEW r \in RuleVersions, CreateRuleVersion(r), TypeOK PROVE KeepsRetired
  BY <1>2 DEF CreateRuleVersion, KeepsRetired, TypeOK
<1>3. ASSUME [Next]_vars, TypeOK PROVE [KeepsRetired]_vars
  <2>1. CASE rule' = rule
    BY <2>1 DEF KeepsRetired
  <2> QED
    BY <1>1, <1>2, <1>3, <2>1, CheckIsQuiet, WriteKeepsRules
       DEF Next, CreateContract, CheckRule, Abort, vars
<1> QED
  BY <1>3, TypeCorrect, PTL DEF Spec, RetiredIsFinal

(***************************************************************************)
(* Commercial history is immutable: no interleaving of commands changes    *)
(* what was agreed, moves a version backwards or adds an acceptance to a   *)
(* version that has been activated.                                        *)
(***************************************************************************)
THEOREM HistoryStays == Spec => HistoryIsImmutable
<1>1. ASSUME [Next]_vars, IndInv PROVE [KeepsHistory]_vars
  <2>1. CASE UNCHANGED <<versions, acceptances>>
    <3>1. TypeOK
      BY <1>1 DEF IndInv, CommandInv
    <3>2. ASSUME NEW e \in ContractIds, NEW n \in DOMAIN versions[e] PROVE KeepsVersion(e, n)
      BY <2>1, <3>1, RowTypes DEF KeepsVersion, AcceptedRoles
    <3> QED
      BY <3>2 DEF KeepsHistory, KeepsVersion
  <2> QED
    BY <1>1, <2>1, CheckIsQuiet, WriteKeepsHistory
       DEF IndInv, Next, CreateContract, CreateRuleVersion, CheckRule, TransitionRule, Abort,
           contractVars, vars
<1> QED
  BY <1>1, Inductive, PTL DEF Spec, HistoryIsImmutable
-----------------------------------------------------------------------------
(* Agreements sees nothing of what leaves the rows of versions alone.      *)
LEMMA SameView ==
  ASSUME versions' = versions
  PROVE  terms' = terms /\ stage' = stage /\ inForce' = inForce
BY DEF terms, stage, inForce, ActiveVersions

LEMMA SameTerms ==
  ASSUME CommandInv, NEW s \in Sessions, Write(s),
         \A c \in ContractIds : DOMAIN versions'[c] = DOMAIN versions[c]
  PROVE  terms' = terms
<1>1. KeepsHistory
  BY WriteKeepsHistory
<1>2. ASSUME NEW c \in ContractIds, NEW n \in DOMAIN versions[c]
      PROVE  TermsOf(versions'[c][n]) = TermsOf(versions[c][n])
  BY <1>1 DEF KeepsHistory, TermsOf
<1> QED
  BY <1>2 DEF terms

LEMMA SameInForce ==
  ASSUME \A c \in ContractIds : ActiveVersions(c)' = ActiveVersions(c)
  PROVE  inForce' = inForce
BY DEF inForce

LEMMA ViewTypes ==
  ASSUME TypeOK, NEW c \in ContractIds
  PROVE  /\ DOMAIN versions[c] = 1..Len(versions[c]) /\ Len(versions[c]) \in Nat
         /\ DOMAIN stage[c] = DOMAIN versions[c]
         /\ stage[c] \in Seq({"draft", "proposed", "agreed"})
         /\ terms[c] \in Seq([rule: RuleVersions, required: (SUBSET Roles) \ {{}}])
         /\ Len(stage[c]) = Len(versions[c]) /\ Len(terms[c]) = Len(versions[c])
<1>1. versions[c] \in Seq(VersionRows)
  BY DEF TypeOK
<1>2. ASSUME NEW n \in DOMAIN versions[c]
      PROVE  /\ StageOf(versions[c][n]) \in {"draft", "proposed", "agreed"}
             /\ TermsOf(versions[c][n]) \in [rule: RuleVersions, required: (SUBSET Roles) \ {{}}]
  <2>1. versions[c][n] \in VersionRows
    BY <1>1
  <2> QED
    BY <2>1 DEF VersionRows, VersionStates, StageOf, TermsOf
<1>3. /\ DOMAIN versions[c] = 1..Len(versions[c]) /\ Len(versions[c]) \in Nat
  BY <1>1
<1>4. /\ stage[c] = [n \in 1..Len(versions[c]) |-> StageOf(versions[c][n])]
      /\ terms[c] = [n \in 1..Len(versions[c]) |-> TermsOf(versions[c][n])]
  BY <1>3 DEF stage, terms
<1> QED
  BY <1>2, <1>3, <1>4

LEMMA CreateIsDraft ==
  ASSUME IndInv, NEW s \in Sessions, Create(s)
  PROVE  Agreed!AgreementNext
<1>1. CommandInv /\ TypeOK /\ BasesHold
  BY DEF IndInv, CommandInv
<1>2. doing[s] # None /\ doing[s].kind = "create" /\ Done(s)
      /\ UNCHANGED <<contract, lockVersion, acceptances, authorities, rule>>
  BY DEF Create, Doing, Done
<1>3. PICK c \in ContractIds : c = doing[s].contract
  BY <1>1, <1>2, DoingTypes
<1>4. /\ doing[s].arg.rule \in RuleVersions
      /\ doing[s].arg.required \in (SUBSET Roles) \ {{}}
      /\ rule[doing[s].arg.rule] \in {"published", "retired"}
      /\ contract[c] # "absent"
  BY <1>1, <1>2, <1>3, DoingTypes, WriterFacts DEF BasesHold, Doing, StillTrue
<1> DEFINE row == [state |-> "draft", rule |-> doing[s].arg.rule,
                   required |-> doing[s].arg.required]
           term == [rule |-> doing[s].arg.rule, required |-> doing[s].arg.required]
<1>5. versions' = [versions EXCEPT ![c] = Append(@, row)]
  BY <1>3 DEF Create
<1>6. row \in VersionRows /\ versions[c] \in Seq(VersionRows)
  BY <1>1, <1>4 DEF VersionRows, VersionStates, TypeOK
<1>7. TermsOf(row) = term /\ StageOf(row) = "draft" /\ row.state = "draft"
  BY DEF TermsOf, StageOf
<1>8. term \in [rule: RuleVersions, required: (SUBSET Roles) \ {{}}]
  BY <1>4
<1> HIDE DEF row, term
<1>9. versions'[c] = Append(versions[c], row)
      /\ \A e \in ContractIds \ {c} : versions'[e] = versions[e]
  BY <1>1, <1>5 DEF TypeOK
<1>10. /\ DOMAIN versions'[c] = 1..Len(versions[c]) + 1 /\ Len(versions[c]) \in Nat
       /\ DOMAIN versions[c] = 1..Len(versions[c])
       /\ \A n \in 1..Len(versions[c]) : versions'[c][n] = versions[c][n]
       /\ versions'[c][Len(versions[c]) + 1] = row
  BY <1>6, <1>9
<1>11. stage'[c] = Append(stage[c], "draft") /\ terms'[c] = Append(terms[c], term)
  <2>1. /\ stage'[c] = [n \in 1..Len(versions[c]) + 1 |-> StageOf(versions'[c][n])]
        /\ terms'[c] = [n \in 1..Len(versions[c]) + 1 |-> TermsOf(versions'[c][n])]
        /\ stage[c] = [n \in 1..Len(versions[c]) |-> StageOf(versions[c][n])]
        /\ terms[c] = [n \in 1..Len(versions[c]) |-> TermsOf(versions[c][n])]
    BY <1>10 DEF stage, terms
  <2>2. /\ stage[c] \in Seq({"draft", "proposed", "agreed"})
        /\ terms[c] \in Seq([rule: RuleVersions, required: (SUBSET Roles) \ {{}}])
        /\ Len(stage[c]) = Len(versions[c]) /\ Len(terms[c]) = Len(versions[c])
    BY <1>1, ViewTypes
  <2>3. /\ Append(stage[c], "draft") =
             [n \in 1..Len(versions[c]) + 1 |->
                IF n <= Len(versions[c]) THEN stage[c][n] ELSE "draft"]
        /\ Append(terms[c], term) =
             [n \in 1..Len(versions[c]) + 1 |->
                IF n <= Len(versions[c]) THEN terms[c][n] ELSE term]
    <3>1. Append(stage[c], "draft") =
            [n \in 1..Len(stage[c]) + 1 |->
               IF n <= Len(stage[c]) THEN stage[c][n] ELSE "draft"]
      BY <2>2, SMTT(30)
    <3>2. Append(terms[c], term) =
            [n \in 1..Len(terms[c]) + 1 |->
               IF n <= Len(terms[c]) THEN terms[c][n] ELSE term]
      BY <1>8, <2>2, SMTT(30)
    <3> QED
      BY <2>2, <3>1, <3>2
  <2>4. \A n \in 1..Len(versions[c]) + 1 :
          /\ n <= Len(versions[c]) => n \in 1..Len(versions[c])
          /\ ~(n <= Len(versions[c])) => n = Len(versions[c]) + 1
    BY <1>10
  <2> QED
    BY <1>7, <1>10, <2>1, <2>3, <2>4
<1>12. /\ stage' = [stage EXCEPT ![c] = Append(@, "draft")]
       /\ terms' = [terms EXCEPT ![c] = Append(@, term)]
  <2>1. \A e \in ContractIds \ {c} : stage'[e] = stage[e] /\ terms'[e] = terms[e]
    BY <1>9 DEF stage, terms
  <2>2. /\ stage' = [e \in ContractIds |-> stage'[e]] /\ terms' = [e \in ContractIds |-> terms'[e]]
        /\ stage = [e \in ContractIds |-> stage[e]] /\ terms = [e \in ContractIds |-> terms[e]]
    BY DEF stage, terms
  <2> QED
    BY <1>11, <2>1, <2>2
<1>13. inForce' = inForce
  <2>1. ActiveVersions(c)' = ActiveVersions(c)
    BY <1>7, <1>10 DEF ActiveVersions
  <2> QED
    BY <1>9, <2>1, SameInForce DEF ActiveVersions
<1>14. Agreed!Draft(c)
  BY <1>2, <1>4, <1>12, <1>13 DEF Agreed!Draft, term
<1> QED
  BY <1>14 DEF Agreed!AgreementNext, Agreed!ContractStep

LEMMA ProposeIsOffer ==
  ASSUME IndInv, NEW s \in Sessions, Propose(s)
  PROVE  Agreed!AgreementNext
<1>1. CommandInv /\ TypeOK
  BY DEF IndInv, CommandInv
<1>2. doing[s] # None /\ doing[s].kind = "propose" /\ Done(s)
      /\ UNCHANGED <<contract, lockVersion, acceptances, authorities, rule>>
  BY DEF Propose, Doing, Done
<1>3. PICK c \in ContractIds, k \in Nat : c = doing[s].contract /\ k = doing[s].arg
  BY <1>1, <1>2, DoingTypes
<1>4. k \in DOMAIN versions[c] /\ versions[c][k].state = "draft"
  BY <1>1, <1>2, <1>3, WriterFacts DEF StillTrue
<1>5. versions' = [versions EXCEPT ![c][k].state = "proposed"]
  BY <1>3 DEF Propose
<1>6. /\ DOMAIN versions'[c] = DOMAIN versions[c]
      /\ \A n \in DOMAIN versions[c] : n # k => versions'[c][n] = versions[c][n]
      /\ \A e \in ContractIds \ {c} : versions'[e] = versions[e]
  BY <1>1, <1>5 DEF TypeOK
<1>7. versions'[c][k].state = "proposed"
  <2>1. versions'[c][k] = [versions[c][k] EXCEPT !.state = "proposed"]
    BY <1>1, <1>4, <1>5 DEF TypeOK
  <2> QED
    BY <1>1, <1>4, <2>1, RowTypes DEF VersionRows
<1>8. terms' = terms
  BY <1>1, <1>6, SameTerms DEF Write
<1>9. inForce' = inForce
  <2>1. ActiveVersions(c)' = ActiveVersions(c)
    BY <1>4, <1>6, <1>7 DEF ActiveVersions
  <2> QED
    BY <1>6, <2>1, SameInForce DEF ActiveVersions
<1>10. stage' = [stage EXCEPT ![c][k] = "proposed"]
  BY <1>4, <1>6, <1>7, ZenonT(60) DEF stage, StageOf
<1>11. k \in DOMAIN stage[c] /\ stage[c][k] = "draft"
  BY <1>4 DEF stage, StageOf
<1>12. Agreed!Offer(c, k)
  BY <1>2, <1>8, <1>9, <1>10, <1>11 DEF Agreed!Offer
<1> QED
  BY <1>11, <1>12 DEF Agreed!AgreementNext, Agreed!ContractStep, Agreed!VersionStep

LEMMA RolesAgree ==
  ASSUME TypeOK, NEW c, NEW n
  PROVE  Agreed!RolesOf(c, n) = AcceptedRoles(c, n)
BY DEF Agreed!RolesOf, AcceptedRoles, TypeOK, Acceptances

LEMMA AcceptIsAccept ==
  ASSUME IndInv, NEW s \in Sessions, Accept(s)
  PROVE  Agreed!AgreementNext
<1>1. CommandInv /\ TypeOK /\ BasesHold
  BY DEF IndInv, CommandInv
<1>2. doing[s] # None /\ doing[s].kind = "accept" /\ Done(s)
      /\ UNCHANGED <<contract, lockVersion, versions, authorities, rule>>
  BY DEF Accept, Doing, Done
<1>3. PICK c \in ContractIds, k \in Nat, r \in Roles, p \in Principals :
        c = doing[s].contract /\ k = doing[s].arg.version /\ r = doing[s].arg.role
          /\ p = doing[s].arg.principal
  BY <1>1, <1>2, DoingTypes
<1>4. k \in DOMAIN versions[c] /\ versions[c][k].state = "proposed"
  BY <1>1, <1>2, <1>3, WriterFacts DEF StillTrue
<1>5. [contract |-> c, role |-> r, principal |-> p] \in authorities
  BY <1>1, <1>2, <1>3 DEF BasesHold, Doing
<1>6. r \notin Agreed!RolesOf(c, k)
  BY <1>1, <1>3, RolesAgree DEF Accept
<1>7. acceptances' = acceptances \cup
        {[contract |-> c, version |-> k, role |-> r, principal |-> p]}
  BY <1>3 DEF Accept
<1>8. k \in DOMAIN stage[c] /\ stage[c][k] = "proposed"
  BY <1>4 DEF stage, StageOf
<1>9. Agreed!AcceptOffer(c, k, r, p)
  BY <1>2, <1>5, <1>6, <1>7, <1>8, SameView DEF Agreed!AcceptOffer
<1> QED
  BY <1>8, <1>9 DEF Agreed!AgreementNext, Agreed!ContractStep, Agreed!VersionStep

LEMMA ActivateIsAgree ==
  ASSUME IndInv, NEW s \in Sessions, Activate(s)
  PROVE  Agreed!AgreementNext
<1>1. CommandInv /\ TypeOK
  BY DEF IndInv, CommandInv
<1>2. doing[s] # None /\ doing[s].kind = "activate" /\ Done(s)
      /\ UNCHANGED <<acceptances, authorities, rule>>
  BY DEF Activate, Doing, Done
<1>3. PICK c \in ContractIds, k \in Nat : c = doing[s].contract /\ k = doing[s].arg
  BY <1>1, <1>2, DoingTypes
<1>4. /\ k \in DOMAIN versions[c] /\ versions[c][k].state = "proposed"
      /\ AllAccepted(c, k) /\ contract[c] # "absent"
  BY <1>1, <1>2, <1>3, WriterFacts DEF StillTrue
<1>5. /\ versions' = [versions EXCEPT ![c] = Supersede(@, k)]
      /\ contract' = [contract EXCEPT ![c] = "active"]
      /\ lockVersion' = [lockVersion EXCEPT ![c] = @ + 1]
      /\ contract[c] \in {"draft", "active", "suspended"}
  BY <1>3, <1>4 DEF Activate, ContractMayBecome
<1>6. /\ versions'[c] = Supersede(versions[c], k)
      /\ \A e \in ContractIds \ {c} : versions'[e] = versions[e]
  BY <1>1, <1>5 DEF TypeOK
<1>7. /\ DOMAIN versions'[c] = DOMAIN versions[c]
      /\ \A n \in DOMAIN versions[c] :
           versions'[c][n].state = IF n = k THEN "active"
                                   ELSE IF versions[c][n].state = "active" THEN "superseded"
                                   ELSE versions[c][n].state
  <2>1. DOMAIN versions'[c] = DOMAIN versions[c]
    BY <1>6 DEF Supersede
  <2>2. ASSUME NEW n \in DOMAIN versions[c]
        PROVE  versions'[c][n].state = IF n = k THEN "active"
                                       ELSE IF versions[c][n].state = "active" THEN "superseded"
                                       ELSE versions[c][n].state
    <3>1. versions[c][n] \in VersionRows
      BY <1>1, RowTypes
    <3> QED
      BY <1>6, <3>1 DEF Supersede, VersionRows
  <2> QED
    BY <2>1, <2>2
<1>8. terms' = terms
  BY <1>1, <1>6, <1>7, SameTerms DEF Write
<1>9. inForce' = [inForce EXCEPT ![c] = k]
  <2>1. ActiveVersions(c)' = {k}
    BY <1>4, <1>7 DEF ActiveVersions
  <2>2. inForce'[c] = k
    BY <2>1 DEF inForce, InForce
  <2>3. \A e \in ContractIds \ {c} : inForce'[e] = inForce[e]
    BY <1>6 DEF inForce, ActiveVersions
  <2>4. inForce' = [e \in ContractIds |-> inForce'[e]]
        /\ inForce = [e \in ContractIds |-> inForce[e]]
    BY DEF inForce
  <2> QED
    BY <2>2, <2>3, <2>4
<1>10. stage' = [stage EXCEPT ![c][k] = "agreed"]
  <2>1. ASSUME NEW n \in DOMAIN versions[c]
        PROVE  StageOf(versions'[c][n]) = IF n = k THEN "agreed" ELSE StageOf(versions[c][n])
    BY <1>7 DEF StageOf
  <2>2. stage'[c] = [stage[c] EXCEPT ![k] = "agreed"]
    BY <1>7, <2>1 DEF stage
  <2>3. \A e \in ContractIds \ {c} : stage'[e] = stage[e]
    BY <1>6 DEF stage
  <2>4. stage' = [e \in ContractIds |-> stage'[e]] /\ stage = [e \in ContractIds |-> stage[e]]
    BY DEF stage
  <2> QED
    BY <2>2, <2>3, <2>4
<1>11. /\ k \in DOMAIN stage[c] /\ stage[c][k] = "proposed"
       /\ terms[c][k].required = versions[c][k].required
  BY <1>4 DEF stage, StageOf, terms, TermsOf
<1>12. Agreed!RolesOf(c, k) = terms[c][k].required
  BY <1>1, <1>4, <1>11, RolesAgree DEF AllAccepted
<1>13. Agreed!Agree(c, k)
  BY <1>2, <1>5, <1>8, <1>9, <1>10, <1>11, <1>12 DEF Agreed!Agree
<1> QED
  BY <1>11, <1>13 DEF Agreed!AgreementNext, Agreed!ContractStep, Agreed!VersionStep

LEMMA ChangeIsMove ==
  ASSUME IndInv, NEW s \in Sessions, Change(s)
  PROVE  Agreed!AgreementNext
<1>1. CommandInv /\ TypeOK
  BY DEF IndInv, CommandInv
<1>2. doing[s] # None /\ doing[s].kind = "change" /\ Done(s)
      /\ UNCHANGED <<versions, acceptances, authorities, rule>>
  BY DEF Change, Doing, Done
<1>3. PICK c \in ContractIds, target \in {"active", "suspended", "terminated"} :
        c = doing[s].contract /\ target = doing[s].arg.target
  BY <1>1, <1>2, DoingTypes
<1>4. <<contract[c], target>> \in Changes
  BY <1>1, <1>2, <1>3, WriterFacts DEF StillTrue
<1>5. /\ contract' = [contract EXCEPT ![c] = target]
      /\ lockVersion' = [lockVersion EXCEPT ![c] = @ + 1]
  BY <1>3 DEF Change
<1>6. Agreed!Suspend(c) \/ Agreed!Resume(c) \/ Agreed!Terminate(c)
  BY <1>2, <1>4, <1>5, SameView
     DEF Changes, Agreed!Suspend, Agreed!Resume, Agreed!Terminate, Agreed!Move
<1> QED
  BY <1>6 DEF Agreed!AgreementNext, Agreed!ContractStep

LEMMA AuthorizeIsGrant ==
  ASSUME IndInv, NEW s \in Sessions, Authorize(s)
  PROVE  Agreed!AgreementNext
<1>1. CommandInv /\ TypeOK
  BY DEF IndInv, CommandInv
<1>2. doing[s] # None /\ doing[s].kind = "authorize" /\ Done(s)
      /\ UNCHANGED <<contract, lockVersion, versions, acceptances, rule>>
  BY DEF Authorize, Doing, Done
<1>3. PICK c \in ContractIds, r \in Roles, p \in Principals :
        c = doing[s].contract /\ r = doing[s].arg.role /\ p = doing[s].arg.principal
  BY <1>1, <1>2, DoingTypes
<1>4. contract[c] # "absent"
  BY <1>1, <1>2, <1>3, WriterFacts DEF StillTrue
<1>5. Agreed!Grant(c, r, p)
  BY <1>2, <1>3, <1>4, SameView DEF Authorize, Agreed!Grant
<1> QED
  BY <1>5 DEF Agreed!AgreementNext, Agreed!ContractStep

LEMMA TransitionIsMove ==
  ASSUME IndInv, NEW s \in Sessions, TransitionRule(s)
  PROVE  Agreed!AgreementNext \/ UNCHANGED rule
<1>1. TypeOK
  BY DEF IndInv, CommandInv
<1>2. PICK r \in RuleVersions, target \in {"published", "retired"} :
        r = ruleDoing[s].rule /\ target = ruleDoing[s].target
  BY <1>1 DEF TransitionRule, TypeOK, RuleCommands
<1>3. /\ rule' = [rule EXCEPT ![r] = target]
      /\ RuleMayBecome(rule[r], target)
      /\ UNCHANGED <<contract, lockVersion, versions, acceptances, authorities>>
  BY <1>2 DEF TransitionRule, contractVars
<1>4. CASE rule[r] = target
  BY <1>1, <1>3, <1>4 DEF TypeOK
<1>5. CASE rule[r] # target
  <2>1. Agreed!RuleStep(r)
    BY <1>3, <1>5, SameView DEF RuleMayBecome, Agreed!RuleStep, Agreed!MoveRule
  <2> QED
    BY <2>1 DEF Agreed!AgreementNext
<1> QED
  BY <1>4, <1>5

(***************************************************************************)
(* Commands that lock, check and write in steps of their own implement     *)
(* commands that are one step: what a session checked is what it writes    *)
(* on, and the only effects unlocked transitions of rules have are those   *)
(* of one transition.                                                      *)
(***************************************************************************)
THEOREM ImplementsAtomic == Spec => ImplementsAgreements
<1>1. Init => Agreed!AgreementInit
  BY DEF Init, Agreed!AgreementInit, terms, stage, inForce, InForce, ActiveVersions
<1>2. IndInv /\ [Next]_vars => [Agreed!AgreementNext]_(Agreed!agreementVars)
  <2> SUFFICES ASSUME IndInv, [Next]_vars
               PROVE  \/ Agreed!AgreementNext
                      \/ UNCHANGED <<contract, lockVersion, terms, stage, inForce,
                                     acceptances, authorities, rule>>
    BY DEF Agreed!agreementVars
  <2>1. ASSUME NEW c \in ContractIds, CreateContract(c) PROVE Agreed!AgreementNext
    <3>1. Agreed!Open(c)
      BY <2>1, SameView DEF CreateContract, Agreed!Open
    <3> QED
      BY <3>1 DEF Agreed!AgreementNext, Agreed!ContractStep
  <2>2. ASSUME NEW r \in RuleVersions, CreateRuleVersion(r) PROVE Agreed!AgreementNext
    <3>1. Agreed!RuleStep(r)
      BY <2>2, SameView
         DEF CreateRuleVersion, contractVars, Agreed!RuleStep, Agreed!MoveRule
    <3> QED
      BY <3>1 DEF Agreed!AgreementNext
  <2>3. ASSUME NEW s \in Sessions, Write(s) PROVE Agreed!AgreementNext
    BY <2>3, CreateIsDraft, ProposeIsOffer, AcceptIsAccept, ActivateIsAgree, ChangeIsMove,
       AuthorizeIsGrant DEF Write
  <2>4. CASE UNCHANGED <<contract, lockVersion, versions, acceptances, authorities, rule>>
    BY <2>4, SameView
  <2>5. ASSUME NEW s \in Sessions, TransitionRule(s)
        PROVE  \/ Agreed!AgreementNext
               \/ UNCHANGED <<contract, lockVersion, versions, acceptances, authorities, rule>>
    BY <2>5, TransitionIsMove DEF TransitionRule, contractVars
  <2> QED
    BY <2>1, <2>2, <2>3, <2>4, <2>5, CheckIsQuiet
       DEF Next, CheckRule, Abort, contractVars, vars
<1> QED
  BY <1>1, <1>2, Inductive, PTL DEF Spec, ImplementsAgreements, Agreed!AgreementSpec
=============================================================================
