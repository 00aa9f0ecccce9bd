----------------------------- MODULE Contracts -----------------------------
(***************************************************************************)
(* Performance contracts and outcome rules: the rows, the commands of      *)
(* ContractService on them and the triggers and unique indexes of the      *)
(* migrations.  Every command is one READ COMMITTED transaction.  Commands *)
(* on a contract lock its row, read and check, then write and commit: two  *)
(* steps here, with a session "doing" the command between them.  Commands  *)
(* on rule versions read and write without a lock.                         *)
(*                                                                         *)
(* A write that a trigger or a unique index refuses raises: its guard is   *)
(* false and the transaction can only roll back (Abort).  Idempotency keys *)
(* are the subject of CommandResults; here every call has a fresh key.  A  *)
(* digest is the version it was computed from, whose terms never change    *)
(* after the proposal.  Source bindings are left out: see README.          *)
(***************************************************************************)
EXTENDS Integers, Sequences, FiniteSets

CONSTANTS
  Sessions,     \* request handlers, each with a database session
  ContractIds,  \* performance_contracts that may be created
  RuleVersions, \* outcome_rule_versions that may be created
  Roles,        \* party roles
  Principals,   \* human principals
  MaxVersions,  \* bound: versions of one contract
  MaxChanges,   \* bound: state changes of one contract
  None          \* nothing under way, no If-Match header

ContractStates == {"absent", "draft", "active", "suspended", "terminated"}
VersionStates == {"draft", "proposed", "active", "superseded"}
RuleStates == {"absent", "draft", "published", "retired"}
VersionRows == [state: VersionStates, rule: RuleVersions, required: (SUBSET Roles) \ {{}}]
Acceptances == [contract: ContractIds, version: Nat, role: Roles, principal: Principals]
Authorities == [contract: ContractIds, role: Roles, principal: Principals]
Commands ==
  [kind: {"create"}, contract: ContractIds,
   arg: [rule: RuleVersions, required: (SUBSET Roles) \ {{}}]] \cup
  [kind: {"propose", "activate"}, contract: ContractIds, arg: Nat] \cup
  [kind: {"accept"}, contract: ContractIds,
   arg: [version: Nat, role: Roles, principal: Principals]] \cup
  [kind: {"change"}, contract: ContractIds,
   arg: [target: {"active", "suspended", "terminated"}, expected: Nat \cup {None}]] \cup
  [kind: {"authorize"}, contract: ContractIds,
   arg: [role: Roles, principal: Principals]]
RuleCommands == [rule: RuleVersions, target: {"published", "retired"}]

ASSUME ContractAssumption ==
  /\ MaxVersions \in Nat
  /\ MaxChanges \in Nat
  /\ None \notin Commands /\ None \notin RuleCommands /\ None \notin Nat

VARIABLES
  contract,    \* performance_contracts.state
  lockVersion, \* performance_contracts.lock_version
  versions,    \* performance_contract_versions by contract and version number
  acceptances, \* contract_party_acceptances
  authorities, \* contract_party_authorities
  rule,        \* outcome_rule_versions.state
  doing,       \* per session: the checked command that holds its contract's lock
  ruleDoing    \* per session: the checked transition of a rule version

contractVars == <<contract, lockVersion, versions, acceptances, authorities>>
vars == <<contract, lockVersion, versions, acceptances, authorities, rule, doing,
          ruleDoing>>

TypeOK ==
  /\ contract \in [ContractIds -> ContractStates]
  /\ lockVersion \in [ContractIds -> Nat]
  /\ versions \in [ContractIds -> Seq(VersionRows)]
  /\ acceptances \subseteq Acceptances
  /\ authorities \subseteq Authorities
  /\ rule \in [RuleVersions -> RuleStates]
  /\ doing \in [Sessions -> Commands \cup {None}]
  /\ ruleDoing \in [Sessions -> RuleCommands \cup {None}]

Init ==
  /\ contract = [c \in ContractIds |-> "absent"]
  /\ lockVersion = [c \in ContractIds |-> 0]
  /\ versions = [c \in ContractIds |-> <<>>]
  /\ acceptances = {}
  /\ authorities = {}
  /\ rule = [r \in RuleVersions |-> "absent"]
  /\ doing = [s \in Sessions |-> None]
  /\ ruleDoing = [s \in Sessions |-> None]

-----------------------------------------------------------------------------
(* The triggers of protect_contract_history. *)
ContractMayBecome(old, new) ==
  \/ old = new
  \/ <<old, new>> \in {<<"draft", "active">>, <<"draft", "terminated">>,
                       <<"active", "suspended">>, <<"active", "terminated">>,
                       <<"suspended", "active">>, <<"suspended", "terminated">>}

RuleMayBecome(old, new) ==
  old = new \/ <<old, new>> \in {<<"draft", "published">>, <<"published", "retired">>}

(* The changes transition_contract allows. *)
Changes == {<<"active", "suspended">>, <<"suspended", "active">>, <<"draft", "terminated">>,
            <<"active", "terminated">>, <<"suspended", "terminated">>}

AcceptedRoles(c, n) ==
  {r \in Roles : \E a \in acceptances : a.contract = c /\ a.version = n /\ a.role = r}

(* A session takes up one request at a time. *)
Free(s) == doing[s] = None /\ ruleDoing[s] = None

(* A slip: the row is read without FOR UPDATE. *)
Exists(c) == contract[c] # "absent"

(* lock_contract: the row exists, and no transaction holds its lock. *)
Unlocked(c) ==
  /\ contract[c] # "absent"
  /\ \A t \in Sessions : doing[t] # None => doing[t].contract # c

(* The command passed its checks; its transaction holds the lock. *)
Take(s, kind, c, arg) ==
  /\ Free(s)
  /\ Unlocked(c)
  /\ doing' = [doing EXCEPT ![s] = [kind |-> kind, contract |-> c, arg |-> arg]]
  /\ UNCHANGED <<contractVars, rule, ruleDoing>>

(* The command's transaction commits. *)
Done(s) == doing' = [doing EXCEPT ![s] = None] /\ UNCHANGED <<rule, ruleDoing>>

Doing(s, kind) == doing[s] # None /\ doing[s].kind = kind

-----------------------------------------------------------------------------
CreateContract(c) ==
  /\ contract[c] = "absent"
  /\ contract' = [contract EXCEPT ![c] = "draft"]
  /\ UNCHANGED <<lockVersion, versions, acceptances, authorities, rule, doing, ruleDoing>>

(* create_contract_version needs a published rule when it reads. *)
CheckCreate(s, c) ==
  /\ Len(versions[c]) < MaxVersions
  /\ \E r \in RuleVersions, required \in (SUBSET Roles) \ {{}} :
       /\ rule[r] = "published"
       /\ Take(s, "create", c, [rule |-> r, required |-> required])

Create(s) ==
  /\ Doing(s, "create")
  /\ LET d == doing[s]
     IN  versions' = [versions EXCEPT ![d.contract] =
           Append(@, [state |-> "draft", rule |-> d.arg.rule, required |-> d.arg.required])]
  /\ UNCHANGED <<contract, lockVersion, acceptances, authorities>>
  /\ Done(s)

CheckPropose(s, c) ==
  \E n \in DOMAIN versions[c] :
    /\ versions[c][n].state = "draft"
    /\ Take(s, "propose", c, n)

Propose(s) ==
  /\ Doing(s, "propose")
  /\ LET d == doing[s]
     IN  versions' = [versions EXCEPT ![d.contract][d.arg].state = "proposed"]
  /\ UNCHANGED <<contract, lockVersion, acceptances, authorities>>
  /\ Done(s)

(* Authority of the principal for the role is checked; that the version     *)
(* requires the role is not.                                                *)
CheckAccept(s, c) ==
  \E n \in DOMAIN versions[c], a \in authorities :
    /\ versions[c][n].state = "proposed"
    /\ a.contract = c
    /\ Take(s, "accept", c, [version |-> n, role |-> a.role, principal |-> a.principal])

(* UNIQUE(contract_version_id, digest, party_role) *)
Accept(s) ==
  /\ Doing(s, "accept")
  /\ LET d == doing[s]
     IN  /\ d.arg.role \notin AcceptedRoles(d.contract, d.arg.version)
         /\ acceptances' = acceptances \cup
              {[contract |-> d.contract, version |-> d.arg.version, role |-> d.arg.role,
                principal |-> d.arg.principal]}
  /\ UNCHANGED <<contract, lockVersion, versions, authorities>>
  /\ Done(s)

(* Every required role, and no other, has accepted. *)
AllAccepted(c, n) == AcceptedRoles(c, n) = versions[c][n].required

CheckActivate(s, c) ==
  \E n \in DOMAIN versions[c] :
    /\ versions[c][n].state = "proposed"
    /\ AllAccepted(c, n)
    /\ Take(s, "activate", c, n)

(* Slips: the active version stays active; it gets a rule version's state. *)
KeepActive(rows, n) == [rows EXCEPT ![n].state = "active"]
RetireActive(rows, n) ==
  [m \in DOMAIN rows |->
     IF m = n THEN [rows[m] EXCEPT !.state = "active"]
     ELSE IF rows[m].state = "active" THEN [rows[m] EXCEPT !.state = "retired"]
     ELSE rows[m]]

(* The active version is superseded, the proposed one becomes active. *)
Supersede(rows, n) ==
  [m \in DOMAIN rows |->
     IF m = n THEN [rows[m] EXCEPT !.state = "active"]
     ELSE IF rows[m].state = "active" THEN [rows[m] EXCEPT !.state = "superseded"]
     ELSE rows[m]]

Activate(s) ==
  /\ Doing(s, "activate")
  /\ LET c == doing[s].contract
     IN  /\ ContractMayBecome(contract[c], "active")
         /\ lockVersion[c] < MaxChanges
         /\ versions' = [versions EXCEPT ![c] = Supersede(@, doing[s].arg)]
         /\ contract' = [contract EXCEPT ![c] = "active"]
         /\ lockVersion' = [lockVersion EXCEPT ![c] = @ + 1]
  /\ UNCHANGED <<acceptances, authorities>>
  /\ Done(s)

(* suspend, resume and terminate, with or without an If-Match header. *)
CheckChange(s, c) ==
  \E target \in {"active", "suspended", "terminated"}, expected \in {lockVersion[c], None} :
    /\ <<contract[c], target>> \in Changes
    /\ Take(s, "change", c, [target |-> target, expected |-> expected])

Change(s) ==
  /\ Doing(s, "change")
  /\ LET c == doing[s].contract
     IN  /\ ContractMayBecome(contract[c], doing[s].arg.target)
         /\ lockVersion[c] < MaxChanges
         /\ contract' = [contract EXCEPT ![c] = doing[s].arg.target]
         /\ lockVersion' = [lockVersion EXCEPT ![c] = @ + 1]
  /\ UNCHANGED <<versions, acceptances, authorities>>
  /\ Done(s)

CheckAuthorize(s, c) ==
  \E role \in Roles, p \in Principals :
    Take(s, "authorize", c, [role |-> role, principal |-> p])

(* UNIQUE(contract_id, party_role, principal_id) *)
Authorize(s) ==
  /\ Doing(s, "authorize")
  /\ LET d == doing[s]
         a == [contract |-> d.contract, role |-> d.arg.role, principal |-> d.arg.principal]
     IN  a \notin authorities /\ authorities' = authorities \cup {a}
  /\ UNCHANGED <<contract, lockVersion, versions, acceptances>>
  /\ Done(s)

CreateRuleVersion(r) ==
  /\ rule[r] = "absent"
  /\ rule' = [rule EXCEPT ![r] = "draft"]
  /\ UNCHANGED <<contractVars, doing, ruleDoing>>

(* transition_rule reads the state without a lock ... *)
CheckRule(s, r) ==
  /\ Free(s)
  /\ \E target \in {"published", "retired"} :
       /\ rule[r] = IF target = "published" THEN "draft" ELSE "published"
       /\ ruleDoing' = [ruleDoing EXCEPT ![s] = [rule |-> r, target |-> target]]
  /\ UNCHANGED <<contractVars, rule, doing>>

(* ... and updates the row as the trigger allows. *)
TransitionRule(s) ==
  /\ ruleDoing[s] # None
  /\ RuleMayBecome(rule[ruleDoing[s].rule], ruleDoing[s].target)
  /\ rule' = [rule EXCEPT ![ruleDoing[s].rule] = ruleDoing[s].target]
  /\ ruleDoing' = [ruleDoing EXCEPT ![s] = None]
  /\ UNCHANGED <<contractVars, doing>>

(* The transaction is rolled back: a refused write, a lost connection. *)
Abort(s) ==
  /\ ~Free(s)
  /\ doing' = [doing EXCEPT ![s] = None]
  /\ ruleDoing' = [ruleDoing EXCEPT ![s] = None]
  /\ UNCHANGED <<contractVars, rule>>

Check(s, c) ==
  \/ CheckCreate(s, c) \/ CheckPropose(s, c) \/ CheckAccept(s, c)
  \/ CheckActivate(s, c) \/ CheckChange(s, c) \/ CheckAuthorize(s, c)

Write(s) ==
  \/ Create(s) \/ Propose(s) \/ Accept(s) \/ Activate(s) \/ Change(s) \/ Authorize(s)

Next ==
  \/ \E c \in ContractIds : CreateContract(c)
  \/ \E r \in RuleVersions : CreateRuleVersion(r)
  \/ \E s \in Sessions :
       \/ \E c \in ContractIds : Check(s, c)
       \/ \E r \in RuleVersions : CheckRule(s, r)
       \/ Write(s) \/ TransitionRule(s) \/ Abort(s)

Spec == Init /\ [][Next]_vars

-----------------------------------------------------------------------------
ActiveVersions(c) == {n \in DOMAIN versions[c] : versions[c][n].state = "active"}

(***************************************************************************)
(* A contract that is active or suspended has one active version, a draft  *)
(* contract has none, and no contract ever has two.                        *)
(***************************************************************************)
StateMatchesVersions ==
  \A c \in ContractIds :
    /\ \A m, n \in ActiveVersions(c) : m = n
    /\ contract[c] \in {"active", "suspended"} => ActiveVersions(c) # {}
    /\ contract[c] \in {"absent", "draft"} => ActiveVersions(c) = {}

(***************************************************************************)
(* A version that is or was active has been accepted for exactly the roles *)
(* it requires: no acceptance slips in once the activation has counted.    *)
(***************************************************************************)
ActiveWasAccepted ==
  \A c \in ContractIds : \A n \in DOMAIN versions[c] :
    versions[c][n].state \in {"active", "superseded"} => AllAccepted(c, n)

(***************************************************************************)
(* A command sent with If-Match still finds the lock_version it named when *)
(* it writes.                                                              *)
(***************************************************************************)
MatchedVersionHolds ==
  \A s \in Sessions : Doing(s, "change") =>
    doing[s].arg.expected \in {None, lockVersion[doing[s].contract]}

(* What a command checked under the lock is still true when it writes. *)
StillTrue(d) ==
  /\ contract[d.contract] # "absent"
  /\ d.kind = "propose" =>
       /\ d.arg \in DOMAIN versions[d.contract]
       /\ versions[d.contract][d.arg].state = "draft"
  /\ d.kind = "accept" =>
       /\ d.arg.version \in DOMAIN versions[d.contract]
       /\ versions[d.contract][d.arg.version].state = "proposed"
  /\ d.kind = "activate" =>
       /\ d.arg \in DOMAIN versions[d.contract]
       /\ versions[d.contract][d.arg].state = "proposed"
       /\ AllAccepted(d.contract, d.arg)
  /\ d.kind = "change" => <<contract[d.contract], d.arg.target>> \in Changes

ChecksHold == \A s \in Sessions : doing[s] # None => StillTrue(doing[s])

OneHolder ==
  \A s, t \in Sessions : s # t /\ doing[s] # None /\ doing[t] # None
    => doing[s].contract # doing[t].contract

(* What a command rests on lasts: a rule version that was published is not *)
(* written again, an authority is never taken back.                        *)
BasesHold ==
  /\ \A c \in ContractIds : \A n \in DOMAIN versions[c] :
       rule[versions[c][n].rule] \in {"published", "retired"}
  /\ \A s \in Sessions :
       /\ Doing(s, "create") => rule[doing[s].arg.rule] \in {"published", "retired"}
       /\ Doing(s, "accept") =>
            [contract |-> doing[s].contract, role |-> doing[s].arg.role,
             principal |-> doing[s].arg.principal] \in authorities

(***************************************************************************)
(* The inductive invariant behind the properties above.                    *)
(***************************************************************************)
CommandInv ==
  /\ TypeOK /\ OneHolder /\ ChecksHold
  /\ StateMatchesVersions /\ ActiveWasAccepted /\ MatchedVersionHolds

IndInv == CommandInv /\ BasesHold

(***************************************************************************)
(* Commands act as if each were one step on the rows, for whoever reads    *)
(* contracts, versions, acceptances and rules: what a command checked,     *)
(* sessions ago, decides about the rows it writes to, whatever committed   *)
(* in between, and a contract has one version in force or none.            *)
(***************************************************************************)
TermsOf(row) == [rule |-> row.rule, required |-> row.required]
StageOf(row) == IF row.state \in {"active", "superseded"} THEN "agreed" ELSE row.state
InForce(active) == IF active = {} THEN 0 ELSE CHOOSE n \in active : TRUE

terms == [c \in ContractIds |-> [n \in DOMAIN versions[c] |-> TermsOf(versions[c][n])]]
stage == [c \in ContractIds |-> [n \in DOMAIN versions[c] |-> StageOf(versions[c][n])]]
inForce == [c \in ContractIds |-> InForce(ActiveVersions(c))]

Agreed == INSTANCE Agreements
            WITH state <- contract, revision <- lockVersion,
                 accepted <- acceptances, authorized <- authorities
ImplementsAgreements == Agreed!AgreementSpec

VersionRank(state) ==
  CASE state = "draft" -> 0 [] state = "proposed" -> 1
    [] state = "active" -> 2 [] state = "superseded" -> 3

(***************************************************************************)
(* Commercial history is immutable: versions stay, their states only move  *)
(* forward, rule and required roles never change, and the acceptances of a *)
(* version are settled once it has been activated.                         *)
(***************************************************************************)
KeepsHistory ==
  \A c \in ContractIds : \A n \in DOMAIN versions[c] :
    /\ n \in DOMAIN versions'[c]
    /\ VersionRank(versions[c][n].state) <= VersionRank(versions'[c][n].state)
    /\ versions'[c][n].rule = versions[c][n].rule
    /\ versions'[c][n].required = versions[c][n].required
    /\ versions[c][n].state \in {"active", "superseded"} =>
         AcceptedRoles(c, n)' = AcceptedRoles(c, n)

HistoryIsImmutable == [][KeepsHistory]_vars

(***************************************************************************)
(* Termination is terminal, also for activations that do not look at the   *)
(* contract's state.                                                       *)
(***************************************************************************)
KeepsTerminated == \A c \in ContractIds : contract[c] = "terminated" => contract'[c] = "terminated"
TerminatedIsFinal == [][KeepsTerminated]_vars

(***************************************************************************)
(* A retired rule version is never published again, whatever transitions   *)
(* had read it before.                                                     *)
(***************************************************************************)
KeepsRetired == \A r \in RuleVersions : rule[r] = "retired" => rule'[r] = "retired"
RetiredIsFinal == [][KeepsRetired]_vars

(***************************************************************************)
(* Retirement of a rule prevents its new use (docs/CONTRACTS.md): see      *)
(* README for versions activated under a rule retired meanwhile.           *)
(***************************************************************************)
ActivatesPublishedRules ==
  \A c \in ContractIds : \A n \in DOMAIN versions[c] :
    versions[c][n].state = "proposed" /\ versions'[c][n].state = "active"
      => rule[versions[c][n].rule] = "published"

RetirementPreventsUse == [][ActivatesPublishedRules]_vars

(***************************************************************************)
(* Only required roles accept (ContractVersion.accept of the domain): see  *)
(* README for the service, which records any authorized role.              *)
(***************************************************************************)
OnlyRequiredRolesAccept ==
  \A c \in ContractIds : \A n \in DOMAIN versions[c] :
    AcceptedRoles(c, n) \subseteq versions[c][n].required
=============================================================================
