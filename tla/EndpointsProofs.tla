--------------------------- MODULE EndpointsProofs ---------------------------
(***************************************************************************)
(* Theorems about Endpoints, for any administrators, deliveries, lifetimes *)
(* and overlaps, any clocks and any skew between them.                     *)
(***************************************************************************)
EXTENDS Endpoints, FiniteSetTheorems, TLAPS

(* The newest of n versions numbered without a gap is n. *)
LEMMA MaxOfInterval ==
  ASSUME NEW n \in Nat \ {0}
  PROVE  Max(1 .. n) = n
<1>1. n \in 1 .. n /\ \A y \in 1 .. n : n >= y
  OBVIOUS
<1>2. \A x \in 1 .. n : (\A y \in 1 .. n : x >= y) => x = n
  OBVIOUS
<1> QED
  BY <1>1, <1>2 DEF Max

(* Rows numbered 1 to n, each number once, are n rows. *)
LEMMA CountOfNumbered ==
  ASSUME NEW S, NEW n \in Nat,
         \A s \in S : s.version \in 1 .. n,
         \A s, t \in S : s.version = t.version => s = t,
         \A i \in 1 .. n : \E s \in S : s.version = i
  PROVE  IsFiniteSet(S) /\ Cardinality(S) = n
<1> DEFINE f == [i \in 1 .. n |-> CHOOSE s \in S : s.version = i]
<1>1. \A i \in 1 .. n : f[i] \in S /\ f[i].version = i
  OBVIOUS
<1>2. f \in [1 .. n -> S]
  BY <1>1
<1>3. \A i, j \in 1 .. n : f[i] = f[j] => i = j
  BY <1>1
<1>4. \A s \in S : \E i \in 1 .. n : f[i] = s
  BY <1>1
<1>5. f \in Bijection(1 .. n, S)
  BY <1>2, <1>3, <1>4 DEF Bijection, Injection, IsInjective, Surjection
<1>6. ExistsBijection(1 .. n, S)
  BY <1>5 DEF ExistsBijection
<1>7. IsFiniteSet(1 .. n) /\ Cardinality(1 .. n) = n
  BY FS_Interval
<1> QED
  BY <1>6, <1>7, FS_Bijection

(* What the invariant says of the numbering, with Newest spelt out. *)
LEMMA Numbering ==
  ASSUME EndpointInv, SecretsInv
  PROVE  /\ Cardinality(secrets) \in Nat \ {0}
         /\ Newest = Cardinality(secrets)
         /\ \A s \in secrets : s.version \in 1 .. Newest
         /\ \A i \in 1 .. Newest : \E s \in secrets : s.version = i
<1> DEFINE n == Cardinality(secrets)
<1>1. {s.version : s \in secrets} = 1 .. n
  BY DEF EndpointInv
<1>2. n \in Nat /\ n # 0
  BY FS_CardinalityType, FS_EmptySet DEF SecretsInv
<1>3. Newest = n
  BY <1>1, <1>2, MaxOfInterval DEF Newest
<1> QED
  BY <1>1, <1>2, <1>3

LEMMA InitInv == Init => IndInv
<1> SUFFICES ASSUME Init PROVE IndInv
  OBVIOUS
<1> DEFINE first == Secret(1, 0, Nothing)
<1>1. /\ secrets = {first} /\ now = 0 /\ status = "active" /\ ended = Nothing
      /\ rotation = [a \in Admins |-> Rotation("idle", 0, 0)]
      /\ delivery = [d \in Deliveries |-> Nothing]
  BY DEF Init
<1>2. /\ first.version = 1 /\ first.from = 0 /\ first.by = Nothing
      /\ first.until = 0 + Lifetime
      /\ first \in [version: Nat \ {0}, from: 0 .. MaxTime + Skew, until: Int,
                    by: Admins \cup {Nothing}]
  BY WindowAssumption DEF Secret
<1>3. IsFiniteSet(secrets) /\ Cardinality(secrets) = 1
  BY <1>1, FS_Singleton
<1>4. {s.version : s \in secrets} = 1 .. 1 /\ Newest = 1
  <2>1. {s.version : s \in secrets} = 1 .. 1
    BY <1>1, <1>2
  <2>2. Max(1 .. 1) = 1
    BY MaxOfInterval
  <2> QED
    BY <2>1, <2>2 DEF Newest
<1>5. \A a \in Admins : rotation[a].step = "idle" /\ rotation[a].from = 0
                        /\ rotation[a].version = 0
  BY <1>1 DEF Rotation
<1>6. rotation \in [Admins -> [step: {"idle", "started", "waiting", "locked", "answered",
                                      "answer_lost", "failed"},
                               from: 0 .. MaxTime + Skew, version: Nat]]
  BY <1>1, WindowAssumption DEF Rotation
<1>7. TypeOK
  BY <1>1, <1>2, WindowAssumption DEF TypeOK
<1>8. EndpointInv
  BY <1>1, <1>2, <1>3, <1>4, <1>5, <1>7 DEF EndpointInv
<1>9. SecretsInv
  BY <1>1, <1>2, <1>3, <1>5, <1>6 DEF SecretsInv
<1>10. ResolvedInv
  BY <1>1 DEF ResolvedInv
<1> QED
  BY <1>8, <1>9, <1>10 DEF IndInv

(* A step of one rotation before its commit, or its failure. *)
LEMMA WaitingStep ==
  ASSUME IndInv, NEW a \in Admins,
         StartRotation(a) \/ ChooseLatest(a) \/ LockLatest(a) \/ RotationFails(a)
  PROVE  IndInv'
<1> USE DEF IndInv
<1>1. /\ UNCHANGED <<now, status, ended, secrets, delivery>>
      /\ rotation[a].step \in {"idle", "started", "waiting", "locked"}
  BY DEF StartRotation, ChooseLatest, LockLatest, RotationFails
<1>2. PICK r \in [step: {"started", "waiting", "locked", "failed"},
                  from: 0 .. MaxTime + Skew, version: Nat] :
        /\ rotation' = [rotation EXCEPT ![a] = r]
        /\ r.step \in {"waiting", "locked"} => r.version \in 1 .. Cardinality(secrets)
  <2>1. rotation[a] \in [step: {"idle", "started", "waiting", "locked", "answered",
                                "answer_lost", "failed"},
                         from: 0 .. MaxTime + Skew, version: Nat]
    BY DEF SecretsInv
  <2>2. CASE StartRotation(a)
    <3>1. PICK skew \in -Skew .. Skew :
            /\ now + skew >= 0
            /\ rotation' = [rotation EXCEPT ![a] = Rotation("started", now + skew, 0)]
      BY <2>2 DEF StartRotation
    <3>2. now + skew \in 0 .. MaxTime + Skew
      BY <3>1, WindowAssumption DEF EndpointInv, TypeOK
    <3> DEFINE r == Rotation("started", now + skew, 0)
    <3>3. r.step = "started"
          /\ r \in [step: {"started", "waiting", "locked", "failed"},
                    from: 0 .. MaxTime + Skew, version: Nat]
      BY <3>2 DEF Rotation
    <3> QED
      BY <3>1, <3>3
  <2>3. CASE ChooseLatest(a)
    <3> DEFINE r == [rotation[a] EXCEPT !.step = "waiting", !.version = Newest]
    <3>1. rotation' = [rotation EXCEPT ![a] = r]
      BY <2>3 DEF ChooseLatest
    <3>2. r.step = "waiting" /\ r.version = Newest
          /\ r \in [step: {"started", "waiting", "locked", "failed"},
                    from: 0 .. MaxTime + Skew, version: Nat]
      BY <2>1, Numbering
    <3>3. Newest \in 1 .. Cardinality(secrets)
      BY Numbering
    <3> QED
      BY <3>1, <3>2, <3>3
  <2>4. CASE LockLatest(a)
    <3> DEFINE r == [rotation[a] EXCEPT !.step = "locked"]
    <3>1. rotation' = [rotation EXCEPT ![a] = r]
      BY <2>4 DEF LockLatest
    <3>2. r.step = "locked" /\ r.version = rotation[a].version
          /\ r \in [step: {"started", "waiting", "locked", "failed"},
                    from: 0 .. MaxTime + Skew, version: Nat]
      BY <2>1
    <3>3. rotation[a].version \in 1 .. Cardinality(secrets)
      BY <2>4 DEF LockLatest, SecretsInv
    <3> QED
      BY <3>1, <3>2, <3>3
  <2>5. CASE RotationFails(a)
    <3> DEFINE r == [rotation[a] EXCEPT !.step = "failed"]
    <3>1. rotation' = [rotation EXCEPT ![a] = r]
      BY <2>5 DEF RotationFails
    <3>2. r.step = "failed"
          /\ r \in [step: {"started", "waiting", "locked", "failed"},
                    from: 0 .. MaxTime + Skew, version: Nat]
      BY <2>1
    <3> QED
      BY <3>1, <3>2
  <2> QED
    BY <2>2, <2>3, <2>4, <2>5
<1>3. \A b \in Admins : rotation'[b] = IF b = a THEN r ELSE rotation[b]
  BY <1>2 DEF SecretsInv
<1>4. Newest' = Newest
  BY <1>1 DEF Newest
<1>5. EndpointInv'
  BY <1>1, <1>2, <1>3, <1>4 DEF EndpointInv, TypeOK
<1>6. SecretsInv'
  <2>1. \A s \in secrets : s.by # Nothing => s.by # a
    BY <1>1 DEF SecretsInv
  <2>2. \A s \in secrets : s.by # Nothing => s.by \in Admins
    BY DEF SecretsInv
  <2> QED
    BY <1>1, <1>2, <1>3, <2>1, <2>2 DEF SecretsInv
<1>7. ResolvedInv'
  BY <1>1 DEF ResolvedInv
<1> QED
  BY <1>5, <1>6, <1>7

(* The clock, deliveries and the end of the endpoint leave secrets alone. *)
LEMMA OtherStep ==
  ASSUME IndInv,
         \/ Tick \/ \E to \in {"disabled", "revoked"} : Disable(to)
         \/ \E d \in Deliveries : Resolve(d) \/ Accept(d)
  PROVE  IndInv'
<1> USE DEF IndInv
<1>1. UNCHANGED <<secrets, rotation>> /\ Newest' = Newest
  BY DEF Tick, Disable, Resolve, Accept, Newest
<1>2. SecretsInv'
  BY <1>1 DEF SecretsInv
<1>3. now \in Nat /\ MaxTime \in Nat
  BY WindowAssumption DEF EndpointInv, TypeOK
<1>4. ASSUME TypeOK', ResolvedInv',
             \A d \in Deliveries : delivery'[d] # Nothing /\ ended' # Nothing =>
               delivery'[d].at <= ended'
      PROVE  IndInv'
  BY <1>1, <1>2, <1>4 DEF EndpointInv
<1>5. CASE Tick
  <2>1. /\ now' \in 0 .. MaxTime /\ now' = now + 1
        /\ UNCHANGED <<status, ended, secrets, rotation, delivery>>
    BY <1>3, <1>5 DEF Tick, EndpointInv, TypeOK
  <2>2. TypeOK'
    BY <2>1 DEF EndpointInv, TypeOK
  <2>3. \A d \in Deliveries : delivery[d] # Nothing =>
          delivery[d].at \in Nat /\ delivery[d].at <= now
    BY DEF ResolvedInv
  <2>4. ResolvedInv'
    BY <1>3, <2>1, <2>3 DEF ResolvedInv
  <2> QED
    BY <1>4, <2>1, <2>2, <2>4 DEF EndpointInv
<1>6. ASSUME NEW to \in {"disabled", "revoked"}, Disable(to) PROVE IndInv'
  <2>1. status' = to /\ ended' = now /\ UNCHANGED <<now, delivery>>
    BY <1>6 DEF Disable
  <2>2. TypeOK'
    BY <1>1, <1>3, <2>1, NothingAssumption DEF EndpointInv, TypeOK
  <2>3. ResolvedInv'
    BY <1>3, <2>1 DEF ResolvedInv
  <2> QED
    BY <1>4, <2>1, <2>2, <2>3 DEF ResolvedInv
<1>7. ASSUME NEW d \in Deliveries, Resolve(d) PROVE IndInv'
  <2> DEFINE row == [step |-> "resolved", at |-> now,
                     versions |-> {s.version : s \in Resolvable}, signed |-> 0]
  <2>1. /\ delivery' = [delivery EXCEPT ![d] = row]
        /\ UNCHANGED <<now, status, ended>>
        /\ status = "active" /\ ended = Nothing
    BY <1>7 DEF Resolve, Resolvable, EndpointInv, TypeOK
  <2>2. Resolvable \subseteq secrets
    BY DEF Resolvable, NewestTwo, Valid
  <2>3. row \in [step: {"resolved", "accepted"}, at: Nat, versions: SUBSET Nat, signed: Nat]
    BY <1>3, <2>2 DEF SecretsInv
  <2>4. \A c \in Deliveries : delivery'[c] = IF c = d THEN row ELSE delivery[c]
    BY <2>1 DEF ResolvedInv
  <2>5. TypeOK'
    BY <1>1, <2>1 DEF EndpointInv, TypeOK
  <2>6. ResolvedInv'
    BY <1>3, <2>1, <2>3, <2>4 DEF ResolvedInv
  <2> QED
    BY <1>4, <2>1, <2>5, <2>6
<1>8. ASSUME NEW d \in Deliveries, Accept(d) PROVE IndInv'
  <2>1. PICK v \in delivery[d].versions :
          delivery' = [delivery EXCEPT ![d].step = "accepted", ![d].signed = v]
    BY <1>8 DEF Accept
  <2>2. delivery[d] \in [step: {"resolved", "accepted"}, at: Nat, versions: SUBSET Nat,
                         signed: Nat]
    BY <1>8 DEF Accept, ResolvedInv
  <2> DEFINE row == [delivery[d] EXCEPT !.step = "accepted", !.signed = v]
  <2>3. /\ row \in [step: {"resolved", "accepted"}, at: Nat, versions: SUBSET Nat, signed: Nat]
        /\ row.at = delivery[d].at
    BY <2>1, <2>2
  <2>4. delivery' = [delivery EXCEPT ![d] = row] /\ UNCHANGED <<now, status, ended>>
    BY <1>8, <2>1, ZenonT(60) DEF Accept
  <2>5. \A c \in Deliveries : delivery'[c] = IF c = d THEN row ELSE delivery[c]
    BY <2>4, SMTT(30) DEF ResolvedInv
  <2>6. delivery[d] # Nothing
    BY <1>8 DEF Accept
  <2>7. TypeOK'
    BY <1>1, <2>4 DEF EndpointInv, TypeOK
  <2>8. ResolvedInv'
    BY <2>3, <2>4, <2>5, <2>6 DEF ResolvedInv
  <2> QED
    BY <1>4, <2>3, <2>4, <2>5, <2>6, <2>7, <2>8 DEF EndpointInv
<1> QED
  BY <1>5, <1>6, <1>7, <1>8
(* The row of the version that a rotation replaces, and the others. *)
LEMMA ShortenedRow ==
  ASSUME NEW s \in [version: Nat \ {0}, from: 0 .. MaxTime + Skew, until: Int,
                    by: Admins \cup {Nothing}],
         NEW end \in Int
  PROVE  /\ Shortened(s, end) \in [version: Nat \ {0}, from: 0 .. MaxTime + Skew, until: Int,
                                   by: Admins \cup {Nothing}]
         /\ Shortened(s, end).version = s.version
         /\ Shortened(s, end).from = s.from
         /\ Shortened(s, end).by = s.by
         /\ Shortened(s, end).until = IF end < s.until THEN end ELSE s.until
BY DEF Shortened

(* The unique key admits a rotation only of the newest version: one that    *)
(* chose its version before another rotation committed numbers its row like *)
(* the other and is refused.                                                *)
LEMMA CommitsOnNewest ==
  ASSUME IndInv, NEW a \in Admins, CommitRotation(a)
  PROVE  rotation[a].version = Newest
<1> DEFINE v == rotation[a].version
           row == Secret(v + 1, rotation[a].from, a)
<1>1. v \in 1 .. Newest /\ Newest \in Nat
  BY Numbering DEF IndInv, SecretsInv, CommitRotation
<1>2. SUFFICES ASSUME v # Newest PROVE FALSE
  OBVIOUS
<1>3. PICK t \in secrets : t.version = v + 1
  BY <1>1, <1>2, Numbering DEF IndInv
<1>4. t \in Rotated(a, rotation[a].from, v) /\ row \in Rotated(a, rotation[a].from, v)
  BY <1>1, <1>3 DEF Rotated
<1>5. row.version = v + 1 /\ row.by = a
  BY DEF Secret
<1>6. t = row
  BY <1>3, <1>4, <1>5 DEF CommitRotation, Constraints
<1>7. t.by = a /\ rotation[a].step = "locked"
  BY <1>5, <1>6 DEF CommitRotation
<1> QED
  BY <1>3, <1>7, NothingAssumption DEF IndInv, SecretsInv

(* The rows after a rotation: the former newest one is shortened, the new   *)
(* one has the next number, and all others are what they were.              *)
LEMMA RotatedRows ==
  ASSUME IndInv, NEW a \in Admins, CommitRotation(a), NEW last \in secrets,
         last.version = Newest
  PROVE  LET new == Secret(Newest + 1, rotation[a].from, a)
             short == Shortened(last, rotation[a].from + Overlap)
         IN  /\ secrets' = (secrets \ {last}) \cup {short, new}
             /\ \A s \in secrets \ {last} : s.version \in 1 .. Newest - 1
<1>1. rotation[a].version = Newest
  BY CommitsOnNewest
<1>2. \A s \in secrets : s.version = Newest <=> s = last
  BY DEF IndInv, SecretsInv
<1>3. secrets' = Rotated(a, rotation[a].from, Newest)
  BY <1>1 DEF CommitRotation
<1>4. \A s \in secrets \ {last} : s.version \in 1 .. Newest - 1
  BY <1>2, Numbering DEF IndInv
<1> QED
  BY <1>2, <1>3, <1>4 DEF Rotated

LEMMA CommitStep ==
  ASSUME IndInv, NEW a \in Admins, CommitRotation(a)
  PROVE  IndInv'
<1> USE DEF IndInv
<1> DEFINE n == Cardinality(secrets)
           f == rotation[a].from
           Rows == [version: Nat \ {0}, from: 0 .. MaxTime + Skew, until: Int,
                    by: Admins \cup {Nothing}]
<1>1. /\ n \in Nat \ {0} /\ Newest = n
      /\ \A s \in secrets : s.version \in 1 .. n
      /\ \A i \in 1 .. n : \E s \in secrets : s.version = i
  BY Numbering
<1>2. PICK last \in secrets : last.version = n
  BY <1>1
<1> DEFINE new == Secret(n + 1, f, a)
           short == Shortened(last, f + Overlap)
           others == secrets \ {last}
<1>3. /\ secrets' = others \cup {short, new}
      /\ \A s \in others : s.version \in 1 .. n - 1
  BY <1>1, <1>2, RotatedRows
<1>4. f \in 0 .. MaxTime + Skew /\ f + Overlap \in Int /\ MaxTime + Skew \in Nat
  BY WindowAssumption DEF SecretsInv
<1>5. /\ new \in Rows /\ new.version = n + 1 /\ new.from = f /\ new.by = a
      /\ new.until = f + Lifetime
  BY <1>1, <1>4, WindowAssumption DEF Secret
<1>6. last \in Rows /\ last.until = last.from + Lifetime
  BY <1>1, <1>2 DEF SecretsInv, EndpointInv
<1>7. /\ short \in Rows /\ short.version = n /\ short.from = last.from
      /\ short.by = last.by
      /\ short.until = IF f + Overlap < last.from + Lifetime
                       THEN f + Overlap ELSE last.from + Lifetime
  BY <1>2, <1>4, <1>6, ShortenedRow
<1>8. secrets' \subseteq Rows
  BY <1>3, <1>5, <1>7 DEF SecretsInv
<1>9. \A s, t \in secrets' : s.version = t.version => s = t
  BY <1>1, <1>3, <1>5, <1>7 DEF SecretsInv
<1>10. /\ \A s \in secrets' : s.version \in 1 .. n + 1
       /\ \A i \in 1 .. n + 1 : \E s \in secrets' : s.version = i
  <2>1. \A s \in secrets' : s.version \in 1 .. n + 1
    BY <1>1, <1>3, <1>5, <1>7
  <2>2. \A i \in 1 .. n + 1 : \E s \in secrets' : s.version = i
    <3> TAKE i \in 1 .. n + 1
    <3>1. CASE i \in 1 .. n - 1
      BY <1>1, <1>2, <1>3, <3>1
    <3>2. CASE i = n \/ i = n + 1
      BY <1>3, <1>5, <1>7, <3>2
    <3> QED
      BY <1>1, <3>1, <3>2
  <2> QED
    BY <2>1, <2>2
<1>11. IsFiniteSet(secrets') /\ Cardinality(secrets') = n + 1
  BY <1>1, <1>9, <1>10, CountOfNumbered
<1>12. {s.version : s \in secrets'} = 1 .. n + 1 /\ Newest' = n + 1
  <2>1. {s.version : s \in secrets'} = 1 .. n + 1
    BY <1>10
  <2>2. Max(1 .. n + 1) = n + 1
    BY <1>1, MaxOfInterval
  <2> QED
    BY <2>1, <2>2 DEF Newest
<1>13. PICK step \in {"answered", "answer_lost"} :
         rotation' = [rotation EXCEPT ![a].step = step, ![a].version = @ + 1]
  BY DEF CommitRotation
<1>14. rotation[a].version = n /\ rotation[a].step = "locked"
  BY <1>1, CommitsOnNewest DEF CommitRotation
<1>15. \A b \in Admins :
         /\ rotation'[b] \in [step: {"idle", "started", "waiting", "locked", "answered",
                                    "answer_lost", "failed"},
                             from: 0 .. MaxTime + Skew, version: Nat]
         /\ b # a => rotation'[b] = rotation[b]
  BY <1>1, <1>13, <1>14 DEF SecretsInv
<1>16. rotation'[a].step = step /\ rotation'[a].version = n + 1
  BY <1>13, <1>14 DEF SecretsInv
<1>17. UNCHANGED <<now, status, ended, delivery>>
  BY DEF CommitRotation
<1>18. \A s \in others \cup {short} : s.by # a
  BY <1>7, <1>14, NothingAssumption DEF SecretsInv
<1>19. SecretsInv'
  <2>1. \A s, t \in secrets' : t.version = s.version + 1 =>
          s.until = IF t.from + Overlap < s.from + Lifetime
                    THEN t.from + Overlap ELSE s.from + Lifetime
    <3> SUFFICES ASSUME NEW s \in secrets', NEW t \in secrets', t.version = s.version + 1
                 PROVE  s.until = IF t.from + Overlap < s.from + Lifetime
                                  THEN t.from + Overlap ELSE s.from + Lifetime
      OBVIOUS
    <3>1. CASE t = new
      <4>1. s.version = n
        BY <1>1, <1>5, <1>8, <3>1
      <4>2. s = short
        BY <1>3, <1>7, <1>9, <4>1
      <4> QED
        BY <1>5, <1>7, <3>1, <4>2
    <3>2. CASE t = short
      <4>1. s \in others
        BY <1>1, <1>3, <1>5, <1>7, <3>2
      <4>2. last.version = s.version + 1
        BY <1>2, <1>7, <3>2
      <4> QED
        BY <1>7, <3>2, <4>1, <4>2 DEF SecretsInv
    <3>3. CASE t \in others
      <4>1. s \in others
        BY <1>1, <1>3, <1>5, <1>7, <3>3
      <4> QED
        BY <3>3, <4>1 DEF SecretsInv
    <3> QED
      BY <1>3, <3>1, <3>2, <3>3
  <2>2. \A s \in secrets' : s.by # Nothing =>
          rotation'[s.by].step \in {"answered", "answer_lost"}
    BY <1>3, <1>5, <1>7, <1>8, <1>13, <1>15, <1>16, <1>18 DEF SecretsInv
  <2>3. \A b \in Admins : rotation'[b].step \in {"waiting", "locked"} =>
          rotation'[b].version \in 1 .. n + 1
    BY <1>1, <1>13, <1>15, <1>16 DEF SecretsInv
  <2>4. DOMAIN rotation' = Admins /\ rotation' = [b \in Admins |-> rotation'[b]]
    BY <1>13 DEF SecretsInv
  <2> QED
    BY <1>3, <1>8, <1>9, <1>11, <1>15, <2>1, <2>2, <2>3, <2>4 DEF SecretsInv
<1>20. EndpointInv'
  <2>1. TypeOK'
    BY <1>8, <1>17 DEF EndpointInv, TypeOK
  <2>2. \A s \in secrets' : s.version = n + 1 => s.until = s.from + Lifetime
    BY <1>3, <1>5, <1>9
  <2>3. \A b \in Admins : rotation'[b].step = "answered" =>
          \E s \in secrets' : /\ s.by = b /\ s.version = rotation'[b].version
                              /\ \A t \in secrets' : t.version = s.version => t.by = b
    <3> SUFFICES ASSUME NEW b \in Admins, rotation'[b].step = "answered"
                 PROVE  \E s \in secrets' : s.by = b /\ s.version = rotation'[b].version
      BY <1>9
    <3>1. CASE b = a
      BY <1>3, <1>5, <1>16, <3>1
    <3>2. CASE b # a
      <4>1. PICK s \in secrets : s.by = b /\ s.version = rotation[b].version
        BY <1>15, <3>2 DEF EndpointInv
      <4>2. CASE s = last
        BY <1>2, <1>3, <1>7, <1>15, <3>2, <4>1, <4>2
      <4>3. CASE s # last
        BY <1>3, <1>15, <3>2, <4>1, <4>3
      <4> QED
        BY <4>2, <4>3
    <3> QED
      BY <3>1, <3>2
  <2> QED
    BY <1>11, <1>12, <1>17, <2>1, <2>2, <2>3 DEF EndpointInv
<1>21. ResolvedInv'
  BY <1>17 DEF ResolvedInv
<1> QED
  BY <1>19, <1>20, <1>21

LEMMA NextInv == IndInv /\ [Next]_vars => IndInv'
<1> SUFFICES ASSUME IndInv, [Next]_vars PROVE IndInv'
  OBVIOUS
<1>1. CASE Next
  BY <1>1, WaitingStep, CommitStep, OtherStep DEF Next
<1>2. CASE UNCHANGED vars
  BY <1>2 DEF vars, IndInv, EndpointInv, TypeOK, SecretsInv, ResolvedInv, Newest
<1> QED
  BY <1>1, <1>2

-----------------------------------------------------------------------------
(* The inductive invariant holds of every reachable state. *)
THEOREM Inductive == Spec => []IndInv
BY InitInv, NextInv, PTL DEF Spec

(* Versions are numbered without a gap, the newest lives out its lifetime,   *)
(* and nothing is resolved after the endpoint's end.                         *)
THEOREM EndpointsCorrect == Spec => []EndpointInv
<1>1. IndInv => EndpointInv
  BY DEF IndInv
<1> QED
  BY <1>1, Inductive, PTL

(* The successor of a version that is not the newest is its one next row. *)
LEMMA SuccessorRow ==
  ASSUME IndInv, NEW s \in secrets, s.version # Newest
  PROVE  Successor(s) \in secrets /\ Successor(s).version = s.version + 1
<1>1. s.version \in 1 .. Newest /\ Newest \in Nat
  BY Numbering DEF IndInv
<1>2. \E t \in secrets : t.version = s.version + 1
  BY <1>1, Numbering DEF IndInv
<1> QED
  BY <1>2 DEF Successor

(* Whatever rotations overlap, no instant of an active endpoint is without a *)
(* key because of them, and no replaced key outlives its overlap.            *)
THEOREM NoGap == Spec => []HandoverHasNoGap
<1>1. IndInv => HandoverHasNoGap
  <2> SUFFICES ASSUME IndInv, NEW s \in secrets
               PROVE  /\ s.until <= s.from + Lifetime
                      /\ s.version # Newest =>
                           /\ s.until <= Successor(s).from + Overlap
                           /\ \/ s.until >= Successor(s).from
                              \/ s.until = s.from + Lifetime
    BY DEF HandoverHasNoGap
  <2>1. \A t \in secrets : t.from \in Int /\ t.until \in Int /\ t.version \in Nat
    BY WindowAssumption DEF IndInv, SecretsInv
  <2>2. Lifetime \in Nat /\ Overlap \in Nat
    BY WindowAssumption
  <2>3. CASE s.version = Newest
    BY <2>1, <2>2, <2>3 DEF IndInv, EndpointInv
  <2>4. CASE s.version # Newest
    <3>1. /\ Successor(s) \in secrets /\ Successor(s).from \in Int
          /\ s.until = IF Successor(s).from + Overlap < s.from + Lifetime
                       THEN Successor(s).from + Overlap ELSE s.from + Lifetime
      BY <2>1, <2>4, SuccessorRow DEF IndInv, SecretsInv
    <3> QED
      BY <2>1, <2>2, <3>1
  <2> QED
    BY <2>3, <2>4
<1> QED
  BY <1>1, Inductive, PTL

(* A key that was issued is resolved until it has been replaced for the        *)
(* overlap or replaced twice.                                                *)
THEOREM IssuedKeysWork == Spec => []IssuedKeyWorks
<1>1. IndInv => IssuedKeyWorks
  <2> SUFFICES ASSUME IndInv, NEW s \in secrets, status = "active",
                      s.from <= now, now < s.from + Lifetime,
                      \/ s.version = Newest
                      \/ s.version = Newest - 1 /\ now < Successor(s).from + Overlap
               PROVE  s \in Resolvable
    BY DEF IssuedKeyWorks
  <2>1. /\ \A t \in secrets : t.from \in Int /\ t.until \in Int /\ t.version \in 1 .. Newest
        /\ Newest \in Nat /\ now \in Int /\ Lifetime \in Nat /\ Overlap \in Nat
    BY Numbering, WindowAssumption DEF IndInv, SecretsInv, EndpointInv, TypeOK
  <2>2. s \in Valid
    <3>1. CASE s.version = Newest
      BY <3>1 DEF IndInv, EndpointInv, Valid
    <3>2. CASE s.version # Newest
      <4>1. s.until = IF Successor(s).from + Overlap < s.from + Lifetime
                      THEN Successor(s).from + Overlap ELSE s.from + Lifetime
        BY <3>2, SuccessorRow DEF IndInv, SecretsInv
      <4> QED
        BY <3>2, <4>1 DEF Valid
    <3> QED
      BY <3>1, <3>2
  <2> DEFINE above == {t \in Valid : t.version > s.version}
  <2>3. \A t, u \in above : t = u
    <3>1. \A t \in above : t \in secrets /\ t.version = Newest
      BY <2>1 DEF Valid
    <3> QED
      BY <3>1 DEF IndInv, SecretsInv
  <2>4. Cardinality(above) < 2
    <3>1. CASE above = {}
      BY <3>1, FS_EmptySet
    <3>2. CASE above # {}
      <4>1. PICK t : above = {t}
        BY <2>3, <3>2
      <4>2. Cardinality({t}) = 1
        BY FS_Singleton
      <4> QED
        BY <4>1, <4>2
    <3> QED
      BY <3>1, <3>2
  <2> QED
    BY <2>2, <2>4 DEF Resolvable, NewestTwo
<1> QED
  BY <1>1, Inductive, PTL
=============================================================================
