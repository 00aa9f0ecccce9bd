----------------------------- MODULE Endpoints -----------------------------
(***************************************************************************)
(* One integration endpoint and its signing secrets: it is created with    *)
(* version 1, administrators rotate the secret, each in a transaction that *)
(* locks the newest version, or disable or revoke the endpoint, answers    *)
(* are lost, and deliveries are authenticated with what the resolver gave  *)
(* them.  The hosts' clocks differ from the database's.                    *)
(***************************************************************************)
EXTENDS Integers, FiniteSets, FiniteSetsExt

CONSTANTS
  Admins,     \* rotation requests
  Deliveries, \* webhook requests
  Lifetime, Overlap,  \* of secrets: settings.integration_secret_*
  Skew,       \* bound: what a host's clock is off
  MaxTime,    \* bound: the clock
  Nothing     \* an absent value

(* What create_endpoint_material and rotation_windows demand. *)
ASSUME WindowAssumption ==
  /\ Lifetime \in Nat \ {0} /\ Overlap \in 0 .. Lifetime - 1
  /\ Skew \in Nat /\ MaxTime \in Nat

ASSUME NothingAssumption == Nothing \notin Admins /\ Nothing \notin Nat

VARIABLES
  now,        \* the database's clock
  status,     \* of the endpoint
  ended,      \* when it was disabled or revoked
  secrets,    \* rows of integration_secret_versions
  rotation,   \* the rotation of each administrator
  delivery    \* what each delivery resolved, and whether it was accepted

vars == <<now, status, ended, secrets, rotation, delivery>>

(* by is the rotation that inserted the row: it stands for its key. *)
Secret(version, from, by) ==
  [version |-> version, from |-> from, until |-> from + Lifetime, by |-> by]

Newest == Max({s.version : s \in secrets})

Rotation(step, from, version) == [step |-> step, from |-> from, version |-> version]

(* create: the endpoint and its first version, in one transaction. *)
Init ==
  /\ now = 0
  /\ status = "active" /\ ended = Nothing
  /\ secrets = {Secret(1, 0, Nothing)}
  /\ rotation = [a \in Admins |-> Rotation("idle", 0, 0)]
  /\ delivery = [d \in Deliveries |-> Nothing]

Tick ==
  /\ now < MaxTime /\ now' = now + 1
  /\ UNCHANGED <<status, ended, secrets, rotation, delivery>>

(* rotate takes the time before its transaction begins. *)
StartRotation(a) ==
  /\ rotation[a].step = "idle"
  /\ \E skew \in -Skew .. Skew :
       /\ now + skew >= 0
       /\ rotation' = [rotation EXCEPT ![a] = Rotation("started", now + skew, 0)]
  /\ UNCHANGED <<now, status, ended, secrets, delivery>>

(* lock_latest_version: the row is chosen by the statement's snapshot, and *)
(* after a wait for its lock it is still that row.                         *)
ChooseLatest(a) ==
  /\ rotation[a].step = "started"
  /\ rotation' = [rotation EXCEPT ![a].step = "waiting", ![a].version = Newest]
  /\ UNCHANGED <<now, status, ended, secrets, delivery>>

LockLatest(a) ==
  /\ rotation[a].step = "waiting"
  /\ \A b \in Admins : rotation[b].step = "locked" => rotation[b].version # rotation[a].version
  /\ rotation' = [rotation EXCEPT ![a].step = "locked"]
  /\ UNCHANGED <<now, status, ended, secrets, delivery>>

(* A slip: the overlap also extends a version. *)
ShortenedAnyway(s, end) == [s EXCEPT !.until = end]

(* shorten_previous_version *)
Shortened(s, end) == [s EXCEPT !.until = IF end < @ THEN end ELSE @]

Rotated(a, from, version) ==
  {IF s.version = version THEN Shortened(s, from + Overlap) ELSE s : s \in secrets}
    \cup {Secret(version + 1, from, a)}

(* A slip: versions are not unique. *)
WindowsOnly(rows) == \A s \in rows : s.until > s.from

(* ck_secret_version_window, uq_secret_versions *)
Constraints(rows) ==
  /\ \A s \in rows : s.until > s.from
  /\ \A s, t \in rows : s.version = t.version => s = t

CommitRotation(a) ==
  /\ rotation[a].step = "locked"
  /\ Constraints(Rotated(a, rotation[a].from, rotation[a].version))
  /\ secrets' = Rotated(a, rotation[a].from, rotation[a].version)
  /\ \E step \in {"answered", "answer_lost"} :
       rotation' = [rotation EXCEPT ![a].step = step, ![a].version = @ + 1]
  /\ UNCHANGED <<now, status, ended, delivery>>

(* The connection breaks, the process dies or a constraint refuses: the    *)
(* transaction is rolled back.                                             *)
RotationFails(a) ==
  /\ rotation[a].step \in {"started", "waiting", "locked"}
  /\ rotation' = [rotation EXCEPT ![a].step = "failed"]
  /\ UNCHANGED <<now, status, ended, secrets, delivery>>

(* disable: an endpoint that is not active is "not found". *)
Disable(to) ==
  /\ status = "active"
  /\ status' = to /\ ended' = now
  /\ UNCHANGED <<now, secrets, rotation, delivery>>

-----------------------------------------------------------------------------
Valid == {s \in secrets : s.from <= now /\ now < s.until}

(* A slip: one version is enough. *)
NewestOne == {s \in Valid : \A t \in Valid : t.version <= s.version}

(* The newest two of the valid versions. *)
NewestTwo == {s \in Valid : Cardinality({t \in Valid : t.version > s.version}) < 2}

(* resolve_integration_endpoint *)
Resolvable == IF status = "active" THEN NewestTwo ELSE {}

(* receive: the secrets are resolved in a session of their own. *)
Resolve(d) ==
  /\ delivery[d] = Nothing
  /\ Resolvable # {}
  /\ delivery' = [delivery EXCEPT ![d] =
       [step |-> "resolved", at |-> now,
        versions |-> {s.version : s \in Resolvable}, signed |-> 0]]
  /\ UNCHANGED <<now, status, ended, secrets, rotation>>

(* authenticate, and the transaction of the receipt: accepted when it is   *)
(* signed with one of the secrets resolved.                                *)
Accept(d) ==
  /\ delivery[d] # Nothing /\ delivery[d].step = "resolved"
  /\ \E v \in delivery[d].versions :
       delivery' = [delivery EXCEPT ![d].step = "accepted", ![d].signed = v]
  /\ UNCHANGED <<now, status, ended, secrets, rotation>>

Next ==
  \/ Tick
  \/ \E a \in Admins : \/ StartRotation(a) \/ ChooseLatest(a) \/ LockLatest(a)
                       \/ CommitRotation(a) \/ RotationFails(a)
  \/ \E to \in {"disabled", "revoked"} : Disable(to)
  \/ \E d \in Deliveries : Resolve(d) \/ Accept(d)

Spec == Init /\ [][Next]_vars

-----------------------------------------------------------------------------
Successor(s) == CHOOSE t \in secrets : t.version = s.version + 1

TypeOK ==
  /\ now \in 0 .. MaxTime
  /\ status \in {"active", "disabled", "revoked"}
  /\ status = "active" <=> ended = Nothing
  /\ \A s \in secrets : s.version \in Nat \ {0} /\ s.from \in 0 .. MaxTime + Skew

(***************************************************************************)
(* Versions are numbered without gap or duplicate, the newest keeps its    *)
(* whole lifetime whatever rotations fail or wait, an administrator was    *)
(* told the version its rotation inserted and nobody else was, and a       *)
(* delivery accepted, however late, was resolved while the endpoint was    *)
(* active.                                                                 *)
(***************************************************************************)
EndpointInv ==
  /\ TypeOK
  /\ {s.version : s \in secrets} = 1 .. Cardinality(secrets)
  /\ \A s \in secrets : s.version = Newest => s.until = s.from + Lifetime
  /\ \A a \in Admins : rotation[a].step = "answered" =>
       \E s \in secrets : /\ s.by = a /\ s.version = rotation[a].version
                          /\ \A t \in secrets : t.version = s.version => t.by = a
  /\ \A d \in Deliveries : delivery[d] # Nothing /\ ended # Nothing =>
       delivery[d].at <= ended

(* What the rows and the rotations under way know of each other: rows are   *)
(* told apart by their version, each version but the newest ends with its   *)
(* lifetime or the overlap after its successor, whichever comes first, and  *)
(* a rotation inserts its row with its commit and not before.               *)
SecretsInv ==
  /\ secrets \subseteq [version: Nat \ {0}, from: 0 .. MaxTime + Skew, until: Int,
                        by: Admins \cup {Nothing}]
  /\ IsFiniteSet(secrets) /\ secrets # {}
  /\ \A s, t \in secrets : s.version = t.version => s = t
  /\ \A s, t \in secrets : t.version = s.version + 1 =>
       s.until = IF t.from + Overlap < s.from + Lifetime
                 THEN t.from + Overlap ELSE s.from + Lifetime
  /\ rotation \in [Admins -> [step: {"idle", "started", "waiting", "locked", "answered",
                                     "answer_lost", "failed"},
                              from: 0 .. MaxTime + Skew, version: Nat]]
  /\ \A s \in secrets : s.by # Nothing => rotation[s.by].step \in {"answered", "answer_lost"}
  /\ \A a \in Admins : rotation[a].step \in {"waiting", "locked"} =>
       rotation[a].version \in 1 .. Cardinality(secrets)

(* Deliveries were resolved in the past, while the endpoint was active. *)
ResolvedInv ==
  /\ delivery \in [Deliveries -> {Nothing} \cup
       [step: {"resolved", "accepted"}, at: Nat, versions: SUBSET Nat, signed: Nat]]
  /\ \A d \in Deliveries : delivery[d] # Nothing => delivery[d].at <= now
  /\ ended \in Nat \cup {Nothing}

(***************************************************************************)
(* The inductive invariant behind the properties of this module.           *)
(***************************************************************************)
IndInv == EndpointInv /\ SecretsInv /\ ResolvedInv

(***************************************************************************)
(* A version ends no later than its lifetime and the overlap after its     *)
(* successor starts, and not before the successor starts unless its own    *)
(* lifetime was over: rotations, also those that took their time before    *)
(* another one committed, leave no instant without a key.                  *)
(***************************************************************************)
HandoverHasNoGap ==
  \A s \in secrets :
    /\ s.until <= s.from + Lifetime
    /\ s.version # Newest =>
         /\ s.until <= Successor(s).from + Overlap
         /\ s.until >= Successor(s).from \/ s.until = s.from + Lifetime

(***************************************************************************)
(* A secret that was issued, whether or not its answer arrived, is         *)
(* accepted by an active endpoint during its lifetime until it has been    *)
(* replaced for the overlap, or been replaced twice: the resolver's limit  *)
(* of two never costs the key in use more.                                 *)
(***************************************************************************)
IssuedKeyWorks ==
  \A s \in secrets :
    /\ status = "active"
    /\ s.from <= now /\ now < s.from + Lifetime
    /\ \/ s.version = Newest
       \/ s.version = Newest - 1 /\ now < Successor(s).from + Overlap
    => s \in Resolvable

(***************************************************************************)
(* Every version whose row says it is valid is accepted, the overlap of an *)
(* earlier rotation included (docs/INTEGRATIONS.md: rotation permits a     *)
(* configured overlap).  See README for the resolver's limit of two.       *)
(***************************************************************************)
ValidKeysResolve == status = "active" => Valid \subseteq Resolvable
=============================================================================
