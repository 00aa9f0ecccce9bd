----------------------------- MODULE Agreements -----------------------------
(***************************************************************************)
(* What the parties of a contract are promised, without sessions, locks or *)
(* transactions: at any instant a contract is in one state, one of its     *)
(* versions is in force or none, and a command is one step that finds the  *)
(* rows as they are.  A version is written under a published rule, offered *)
(* with terms that never change, accepted by principals with authority,    *)
(* and agreed when exactly the parties it requires have accepted it.       *)
(* Contracts implements it.                                                *)
(***************************************************************************)
EXTENDS Integers, Sequences

CONSTANTS
  ContractIds,
  RuleVersions,
  Roles,
  Principals

VARIABLES
  state,       \* of a contract
  revision,    \* how often a contract has changed its state
  terms,       \* per contract and version: the rule and the parties required
  stage,       \* per contract and version: draft, proposed or agreed
  inForce,     \* per contract: the version in force, 0 before the first
  accepted,    \* acceptances of versions by principals for roles
  authorized,  \* principals who may accept for a role of a contract
  rule         \* the states of rule versions

agreementVars ==
  <<state, revision, terms, stage, inForce, accepted, authorized, rule>>

AgreementInit ==
  /\ state = [c \in ContractIds |-> "absent"]
  /\ revision = [c \in ContractIds |-> 0]
  /\ terms = [c \in ContractIds |-> <<>>]
  /\ stage = [c \in ContractIds |-> <<>>]
  /\ inForce = [c \in ContractIds |-> 0]
  /\ accepted = {}
  /\ authorized = {}
  /\ rule = [r \in RuleVersions |-> "absent"]

Open(c) ==
  /\ state[c] = "absent"
  /\ state' = [state EXCEPT ![c] = "draft"]
  /\ UNCHANGED <<revision, terms, stage, inForce, accepted, authorized, rule>>

(* The rule was published when the version was asked for; it may have been *)
(* retired since.                                                          *)
Draft(c) ==
  /\ state[c] # "absent"
  /\ \E r \in RuleVersions, required \in (SUBSET Roles) \ {{}} :
       /\ rule[r] \in {"published", "retired"}
       /\ terms' = [terms EXCEPT ![c] = Append(@, [rule |-> r, required |-> required])]
  /\ stage' = [stage EXCEPT ![c] = Append(@, "draft")]
  /\ UNCHANGED <<state, revision, inForce, accepted, authorized, rule>>

Offer(c, n) ==
  /\ stage[c][n] = "draft"
  /\ stage' = [stage EXCEPT ![c][n] = "proposed"]
  /\ UNCHANGED <<state, revision, terms, inForce, accepted, authorized, rule>>

RolesOf(c, n) == {a.role : a \in {b \in accepted : b.contract = c /\ b.version = n}}

AcceptOffer(c, n, role, p) ==
  /\ stage[c][n] = "proposed"
  /\ [contract |-> c, role |-> role, principal |-> p] \in authorized
  /\ role \notin RolesOf(c, n)
  /\ accepted' = accepted \cup
       {[contract |-> c, version |-> n, role |-> role, principal |-> p]}
  /\ UNCHANGED <<state, revision, terms, stage, inForce, authorized, rule>>

(* Also what resumes a suspended contract, under the new version. *)
Agree(c, n) ==
  /\ state[c] \in {"draft", "active", "suspended"}
  /\ stage[c][n] = "proposed"
  /\ RolesOf(c, n) = terms[c][n].required
  /\ stage' = [stage EXCEPT ![c][n] = "agreed"]
  /\ inForce' = [inForce EXCEPT ![c] = n]
  /\ state' = [state EXCEPT ![c] = "active"]
  /\ revision' = [revision EXCEPT ![c] = @ + 1]
  /\ UNCHANGED <<terms, accepted, authorized, rule>>

(* Terminated contracts are final; a version stays in force through all of *)
(* this.                                                                   *)
Move(c, from, to) ==
  /\ state[c] \in from
  /\ state' = [state EXCEPT ![c] = to]
  /\ revision' = [revision EXCEPT ![c] = @ + 1]
  /\ UNCHANGED <<terms, stage, inForce, accepted, authorized, rule>>

Suspend(c) == Move(c, {"active"}, "suspended")
Resume(c) == Move(c, {"suspended"}, "active")
Terminate(c) == Move(c, {"draft", "active", "suspended"}, "terminated")

Grant(c, role, p) ==
  /\ state[c] # "absent"
  /\ authorized' = authorized \cup {[contract |-> c, role |-> role, principal |-> p]}
  /\ UNCHANGED <<state, revision, terms, stage, inForce, accepted, rule>>

(* Rule versions are written, published and retired, in this order. *)
MoveRule(r, from, to) ==
  /\ rule[r] = from
  /\ rule' = [rule EXCEPT ![r] = to]
  /\ UNCHANGED <<state, revision, terms, stage, inForce, accepted, authorized>>

RuleStep(r) ==
  \/ MoveRule(r, "absent", "draft")
  \/ MoveRule(r, "draft", "published")
  \/ MoveRule(r, "published", "retired")

VersionStep(c, n) ==
  \/ Offer(c, n)
  \/ \E role \in Roles, p \in Principals : AcceptOffer(c, n, role, p)
  \/ Agree(c, n)

ContractStep(c) ==
  \/ Open(c) \/ Draft(c) \/ Suspend(c) \/ Resume(c) \/ Terminate(c)
  \/ \E n \in DOMAIN stage[c] : VersionStep(c, n)
  \/ \E role \in Roles, p \in Principals : Grant(c, role, p)

AgreementNext ==
  \/ \E c \in ContractIds : ContractStep(c)
  \/ \E r \in RuleVersions : RuleStep(r)

AgreementSpec == AgreementInit /\ [][AgreementNext]_agreementVars
=============================================================================
