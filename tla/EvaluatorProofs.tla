-------------------------- MODULE EvaluatorProofs --------------------------
(***************************************************************************)
(* The evaluator's properties for every rule, window and evidence.  The    *)
(* argument turns what is read into the set of what it holds: sorting a    *)
(* well-formed reading gives the one enumeration of that set in the order  *)
(* of Precedes, so the verdict is a function of the set, and the order,    *)
(* the repetitions and the receipts that no longer count cannot move it.   *)
(***************************************************************************)
EXTENDS Evaluator, FiniteSetTheorems, TLAPS

-----------------------------------------------------------------------------
(* A finite set in a strict total order: each element has its own rank.    *)

StrictOrder(R, S) ==
  /\ \A x \in S : <<x, x>> \notin R
  /\ \A x, y, z \in S : <<x, y>> \in R /\ <<y, z>> \in R => <<x, z>> \in R
  /\ \A x, y \in S : x = y \/ <<x, y>> \in R \/ <<y, x>> \in R

Below(R, S, x) == {y \in S : <<y, x>> \in R}

Ranked(R, S) ==
  /\ Cardinality(S) \in Nat
  /\ \A x \in S : Cardinality(Below(R, S, x)) \in 0 .. Cardinality(S) - 1
  /\ \A x, y \in S : <<x, y>> \in R =>
       Cardinality(Below(R, S, x)) < Cardinality(Below(R, S, y))
  /\ \A x, y \in S : Cardinality(Below(R, S, x)) = Cardinality(Below(R, S, y)) => x = y
  /\ \A p \in 0 .. Cardinality(S) - 1 :
       \E x \in S : Cardinality(Below(R, S, x)) = p

LEMMA Ranking ==
  ASSUME NEW S, IsFiniteSet(S), NEW R, StrictOrder(R, S)
  PROVE  Ranked(R, S)
<1>1. Cardinality(S) \in Nat
  BY FS_CardinalityType
<1>2. \A x \in S : IsFiniteSet(Below(R, S, x)) /\ Cardinality(Below(R, S, x)) \in Nat
  BY FS_Subset, FS_CardinalityType DEF Below
<1>3. ASSUME NEW x \in S
      PROVE  Cardinality(Below(R, S, x)) \in 0 .. Cardinality(S) - 1
  <2>1. Below(R, S, x) \in SUBSET S /\ Below(R, S, x) # S
    BY DEF Below, StrictOrder
  <2>2. Cardinality(Below(R, S, x)) <= Cardinality(S)
        /\ Cardinality(Below(R, S, x)) # Cardinality(S)
    BY <2>1, FS_Subset
  <2> QED BY <2>2, <1>1, <1>2
<1>4. ASSUME NEW x \in S, NEW y \in S, <<x, y>> \in R
      PROVE  Cardinality(Below(R, S, x)) < Cardinality(Below(R, S, y))
  <2>1. Below(R, S, x) \in SUBSET Below(R, S, y) /\ Below(R, S, x) # Below(R, S, y)
    BY <1>4 DEF Below, StrictOrder
  <2>2. Cardinality(Below(R, S, x)) <= Cardinality(Below(R, S, y))
        /\ Cardinality(Below(R, S, x)) # Cardinality(Below(R, S, y))
    BY <2>1, <1>2, FS_Subset
  <2> QED BY <2>2, <1>2
<1>5. ASSUME NEW x \in S, NEW y \in S,
             Cardinality(Below(R, S, x)) = Cardinality(Below(R, S, y))
      PROVE  x = y
  <2>1. <<x, y>> \notin R /\ <<y, x>> \notin R
    BY <1>5, <1>4, <1>2
  <2> QED BY <2>1 DEF StrictOrder
<1>6. ASSUME NEW p \in 0 .. Cardinality(S) - 1
      PROVE  \E x \in S : Cardinality(Below(R, S, x)) = p
  <2> DEFINE ranks == 0 .. Cardinality(S) - 1
             rank == [x \in S |-> Cardinality(Below(R, S, x))]
  <2>1. rank \in Injection(S, ranks)
    BY <1>3, <1>5 DEF Injection, IsInjective
  <2>2. IsFiniteSet(ranks) /\ Cardinality(ranks) = Cardinality(S)
    <3>1. 0 \in Int /\ Cardinality(S) - 1 \in Int
      BY <1>1
    <3> QED BY <3>1, <1>1, FS_Interval
  <2>3. rank \in Surjection(S, ranks)
    <3> HIDE DEF ranks, rank
    <3> QED BY <2>1, <2>2, FS_Injection
  <2> QED BY <2>3 DEF Surjection
<1> QED BY <1>1, <1>3, <1>4, <1>5, <1>6 DEF Ranked

LEMMA Least ==
  ASSUME NEW T \in SUBSET Nat, IsFiniteSet(T), T # {}
  PROVE  \E n \in T : \A m \in T : n <= m
<1> DEFINE R == {w \in T \X T : w[1] < w[2]}
<1>1. StrictOrder(R, T)
  <2>1. \A n, m \in T : <<n, m>> \in R <=> n < m
    OBVIOUS
  <2> HIDE DEF R
  <2> QED BY <2>1 DEF StrictOrder
<1>2. Cardinality(T) \in Nat /\ Cardinality(T) # 0
  BY FS_EmptySet, FS_CardinalityType
<1>3. PICK n \in T : Cardinality(Below(R, T, n)) = 0
  <2>1. 0 \in 0 .. Cardinality(T) - 1
    BY <1>2
  <2>2. Ranked(R, T)
    <3> HIDE DEF R
    <3> QED BY <1>1, Ranking
  <2> HIDE DEF R
  <2> QED BY <2>1, <2>2 DEF Ranked
<1>4. Below(R, T, n) = {}
  <2>1. Below(R, T, n) \in SUBSET T
    BY DEF Below
  <2>2. IsFiniteSet(Below(R, T, n))
    BY <2>1, FS_Subset
  <2> HIDE DEF R
  <2> QED BY <2>2, <1>3, FS_EmptySet
<1>5. \A m \in T : <<m, n>> \notin R
  BY <1>4 DEF Below
<1>6. \A m \in T : ~(m < n)
  BY <1>5
<1> QED BY <1>6

-----------------------------------------------------------------------------
(* The order of the sort on well-formed evidence.                          *)

Known(E) == E \in SUBSET TrustedEvents /\ \A d, e \in E : d.id = e.id => d = e

Sorting(E) == {w \in E \X E : Precedes(w[1], w[2])}

InOrder(E) ==
  [p \in 1 .. Cardinality(E) |->
     CHOOSE e \in E : Cardinality(Below(Sorting(E), E, e)) = p - 1]

LEMMA TypeRanks ==
  ASSUME NEW d \in TrustedEvents, NEW e \in TrustedEvents
  PROVE  /\ TypeRank(d) \in Int /\ TypeRank(e) \in Int
         /\ TypeRank(d) = TypeRank(e) <=> d.type = e.type
<1>1. DOMAIN TypeOrder = 1 .. Len(TypeOrder) /\ Len(TypeOrder) \in Nat
  BY RequestAssumption
<1>2. d.type \in Types /\ e.type \in Types
  BY DEF TrustedEvents
<1>3. TypeRank(d) \in DOMAIN TypeOrder /\ TypeOrder[TypeRank(d)] = d.type
  BY <1>2 DEF TypeRank, Types
<1>4. TypeRank(e) \in DOMAIN TypeOrder /\ TypeOrder[TypeRank(e)] = e.type
  BY <1>2 DEF TypeRank, Types
<1>5. d.type = e.type => TypeRank(d) = TypeRank(e)
  BY DEF TypeRank
<1> QED BY <1>1, <1>3, <1>4, <1>5

LEMMA PrecedesOrders ==
  ASSUME NEW E, Known(E)
  PROVE  StrictOrder(Sorting(E), E)
<1>1. \A e \in E : e.occurred \in Int /\ e.id \in Int
  BY DEF Known, TrustedEvents
<1>2. \A d, e \in E : /\ TypeRank(d) \in Int /\ TypeRank(e) \in Int
                      /\ TypeRank(d) = TypeRank(e) <=> d.type = e.type
  BY TypeRanks DEF Known
<1>3. \A d, e \in E : <<d, e>> \in Sorting(E) <=> Precedes(d, e)
  BY DEF Sorting
<1>4. \A d \in E : ~Precedes(d, d)
  BY <1>1, <1>2 DEF Precedes
<1>5. ASSUME NEW d \in E, NEW e \in E, NEW f \in E, Precedes(d, e), Precedes(e, f)
      PROVE  Precedes(d, f)
  BY <1>1, <1>2, <1>5 DEF Precedes
<1>6. ASSUME NEW d \in E, NEW e \in E
      PROVE  d = e \/ Precedes(d, e) \/ Precedes(e, d)
  BY <1>1, <1>2 DEF Precedes, Known
<1> QED BY <1>3, <1>4, <1>5, <1>6 DEF StrictOrder

(* The enumeration has every element once.                                 *)
LEMMA InOrderEnumerates ==
  ASSUME NEW E, Known(E), IsFiniteSet(E)
  PROVE  /\ DOMAIN InOrder(E) = 1 .. Cardinality(E)
         /\ \A p \in DOMAIN InOrder(E) : InOrder(E)[p] \in E
         /\ \A e \in E : \E p \in DOMAIN InOrder(E) : InOrder(E)[p] = e
         /\ \A p, q \in DOMAIN InOrder(E) : InOrder(E)[p] = InOrder(E)[q] => p = q
<1> DEFINE S == Sorting(E)
           rank(e) == Cardinality(Below(S, E, e))
<1>1. StrictOrder(S, E)
  BY PrecedesOrders
<1>2. /\ Cardinality(E) \in Nat
      /\ \A e \in E : rank(e) \in 0 .. Cardinality(E) - 1
      /\ \A d, e \in E : rank(d) = rank(e) => d = e
      /\ \A p \in 0 .. Cardinality(E) - 1 : \E e \in E : rank(e) = p
  <2>1. Ranked(S, E)
    <3> HIDE DEF S
    <3> QED BY <1>1, Ranking
  <2> QED BY <2>1 DEF Ranked
<1> HIDE DEF S, rank
<1>3. InOrder(E) = [p \in 1 .. Cardinality(E) |-> CHOOSE e \in E : rank(e) = p - 1]
  BY DEF InOrder, rank, S
<1>4. \A p \in 1 .. Cardinality(E) : InOrder(E)[p] \in E /\ rank(InOrder(E)[p]) = p - 1
  <2> TAKE p \in 1 .. Cardinality(E)
  <2>1. p - 1 \in 0 .. Cardinality(E) - 1
    BY <1>2
  <2>2. PICK e \in E : rank(e) = p - 1
    BY <2>1, <1>2
  <2> QED BY <2>2, <1>3
<1>5. ASSUME NEW e \in E
      PROVE  \E p \in 1 .. Cardinality(E) : InOrder(E)[p] = e
  <2> DEFINE p == rank(e) + 1
  <2>1. p \in 1 .. Cardinality(E) /\ p - 1 = rank(e)
    BY <1>2
  <2> HIDE DEF p
  <2>2. rank(InOrder(E)[p]) = rank(e) /\ InOrder(E)[p] \in E
    BY <2>1, <1>4
  <2> QED BY <2>1, <2>2, <1>2
<1>6. DOMAIN InOrder(E) = 1 .. Cardinality(E)
  BY <1>3
<1>7. \A p, q \in 1 .. Cardinality(E) : InOrder(E)[p] = InOrder(E)[q] => p = q
  BY <1>4, <1>2
<1> QED BY <1>4, <1>5, <1>6, <1>7

-----------------------------------------------------------------------------
(* From a well-formed reading to the set of what it holds.                 *)

Readings == UNION {[1 .. k -> TrustedEvents] : k \in Nat}

Evidence(events) == {events[n] : n \in DOMAIN events}

WellFormed(events) == \A n \in DOMAIN events : Problem(events, n) = "none"

LEMMA NoProblem ==
  ASSUME NEW events, NEW n
  PROVE  Problem(events, n) = "none" <=>
           /\ events[n].of # "other_tenant" /\ events[n].of # "other_subject"
           /\ ~Altered(events, n)
BY DEF Problem

LEMMA ReadingsFinite ==
  ASSUME NEW events \in Readings
  PROVE  /\ \E k \in Nat : DOMAIN events = 1 .. k
         /\ IsFiniteSet(DOMAIN events) /\ IsFiniteSet(Evidence(events))
         /\ Evidence(events) \in SUBSET TrustedEvents
<1>1. PICK k \in Nat : events \in [1 .. k -> TrustedEvents]
  BY DEF Readings
<1>2. IsFiniteSet(1 .. k)
  BY FS_Interval
<1>3. events \in Surjection(1 .. k, Evidence(events))
  BY <1>1 DEF Surjection, Evidence
<1>4. IsFiniteSet(Evidence(events))
  BY <1>2, <1>3, FS_Surjection
<1> QED BY <1>1, <1>2, <1>4 DEF Evidence

(* The readings without a problem are those whose evidence has none: the   *)
(* order they are read in and repetitions make no difference.              *)
LEMMA WellFormedIffKnown ==
  ASSUME NEW events \in Readings
  PROVE  WellFormed(events) <=>
           /\ Known(Evidence(events))
           /\ \A e \in Evidence(events) : e.of # "other_tenant" /\ e.of # "other_subject"
<1> DEFINE E == Evidence(events)
<1>1. PICK k \in Nat : DOMAIN events = 1 .. k
  BY ReadingsFinite
<1>2. E \in SUBSET TrustedEvents
  BY ReadingsFinite
<1>3. (\A n \in DOMAIN events : ~Altered(events, n)) <=>
        \A m, n \in DOMAIN events : events[m].id = events[n].id => events[m] = events[n]
  <2>1. ASSUME \A n \in DOMAIN events : ~Altered(events, n),
               NEW m \in DOMAIN events, NEW n \in DOMAIN events,
               events[m].id = events[n].id
        PROVE  events[m] = events[n]
    <3>1. CASE m < n
      BY <2>1, <3>1, <1>1 DEF Altered
    <3>2. CASE n < m
      BY <2>1, <3>2, <1>1 DEF Altered
    <3> QED BY <3>1, <3>2, <1>1
  <2>2. ASSUME \A m, n \in DOMAIN events : events[m].id = events[n].id => events[m] = events[n],
               NEW n \in DOMAIN events
        PROVE  ~Altered(events, n)
    BY <2>2, <1>1 DEF Altered
  <2> QED BY <2>1, <2>2
<1>4. Known(E) <=>
        \A m, n \in DOMAIN events : events[m].id = events[n].id => events[m] = events[n]
  BY <1>2 DEF Known, Evidence
<1>5. (\A e \in E : e.of # "other_tenant" /\ e.of # "other_subject") <=>
        \A n \in DOMAIN events : events[n].of # "other_tenant" /\ events[n].of # "other_subject"
  BY DEF Evidence
<1>6. WellFormed(events) <=>
        /\ \A n \in DOMAIN events : ~Altered(events, n)
        /\ \A n \in DOMAIN events :
             events[n].of # "other_tenant" /\ events[n].of # "other_subject"
  BY NoProblem DEF WellFormed
<1> QED BY <1>3, <1>4, <1>5, <1>6

(* The first places of the events: each event has one.                     *)
LEMMA FirstPlaces ==
  ASSUME NEW events \in Readings, WellFormed(events)
  PROVE  /\ IsFiniteSet(Unique(events)) /\ Unique(events) \in SUBSET DOMAIN events
         /\ \A m, n \in Unique(events) : events[m].id = events[n].id => m = n
         /\ \A e \in Evidence(events) : \E n \in Unique(events) : events[n] = e
<1>1. PICK k \in Nat : DOMAIN events = 1 .. k
  BY ReadingsFinite
<1>2. Unique(events) \in SUBSET DOMAIN events
  BY DEF Unique
<1>3. IsFiniteSet(Unique(events))
  BY <1>2, ReadingsFinite, FS_Subset
<1>4. ASSUME NEW m \in Unique(events), NEW n \in Unique(events),
             events[m].id = events[n].id
      PROVE  m = n
  <2>1. CASE m < n
    BY <2>1, <1>1, <1>2, <1>4 DEF Unique
  <2>2. CASE n < m
    BY <2>2, <1>1, <1>2, <1>4 DEF Unique
  <2> QED BY <2>1, <2>2, <1>1, <1>2
<1>5. ASSUME NEW e \in Evidence(events)
      PROVE  \E n \in Unique(events) : events[n] = e
  <2> DEFINE T == {n \in DOMAIN events : events[n].id = e.id}
  <2>1. T \in SUBSET Nat /\ T \in SUBSET DOMAIN events /\ T # {}
    BY <1>1, <1>5 DEF Evidence
  <2>2. IsFiniteSet(T)
    BY <2>1, ReadingsFinite, FS_Subset
  <2>3. PICK n \in T : \A m \in T : n <= m
    BY <2>1, <2>2, Least
  <2>4. n \in Unique(events)
    <3>1. n \in DOMAIN events /\ events[n].id = e.id
      BY <2>3
    <3>2. ASSUME NEW m \in 1 .. n - 1, events[m].id = events[n].id
          PROVE  FALSE
      <4>1. m \in T
        BY <3>1, <3>2, <1>1
      <4> QED BY <4>1, <3>1, <2>3, <1>1
    <3> QED BY <3>1, <3>2 DEF Unique
  <2>5. Known(Evidence(events)) /\ events[n] \in Evidence(events) /\ events[n].id = e.id
    BY <2>3, WellFormedIffKnown DEF Evidence
  <2> QED BY <2>4, <2>5 DEF Known
<1> QED BY <1>2, <1>3, <1>4, <1>5

LEMMA StableSort ==
  ASSUME NEW events \in Readings, WellFormed(events),
         NEW m \in Unique(events), NEW n \in Unique(events)
  PROVE  Before(events, m, n) <=> <<events[m], events[n]>> \in Sorting(Evidence(events))
<1> DEFINE E == Evidence(events)
<1>1. events[m] \in E /\ events[n] \in E /\ m \in Int /\ n \in Int
  <2>1. PICK k \in Nat : DOMAIN events = 1 .. k
    BY ReadingsFinite
  <2>2. m \in DOMAIN events /\ n \in DOMAIN events
    BY FirstPlaces
  <2> QED BY <2>1, <2>2 DEF Evidence
<1>2. StrictOrder(Sorting(E), E)
  BY WellFormedIffKnown, PrecedesOrders
<1>3. events[m] = events[n] => m = n
  BY FirstPlaces
<1>4. \A d, e \in E : <<d, e>> \in Sorting(E) <=> Precedes(d, e)
  BY DEF Sorting
<1>5. /\ ~Precedes(events[n], events[n])
      /\ Precedes(events[m], events[n]) => ~Precedes(events[n], events[m])
      /\ events[m] # events[n] =>
           Precedes(events[m], events[n]) \/ Precedes(events[n], events[m])
  <2> HIDE DEF E
  <2> QED BY <1>1, <1>2, <1>4 DEF StrictOrder
<1> QED BY <1>1, <1>3, <1>4, <1>5 DEF Before

LEMMA EarlierCount ==
  ASSUME NEW events \in Readings, WellFormed(events), NEW n \in Unique(events)
  PROVE  Cardinality({m \in Unique(events) : Before(events, m, n)})
           = Cardinality(Below(Sorting(Evidence(events)), Evidence(events), events[n]))
<1> DEFINE E == Evidence(events)
           earlier == {m \in Unique(events) : Before(events, m, n)}
           below == Below(Sorting(E), E, events[n])
           f == [m \in earlier |-> events[m]]
<1>1. IsFiniteSet(earlier)
  BY FirstPlaces, FS_Subset
<1>2. \A m \in Unique(events) : m \in earlier <=> events[m] \in below
  BY StableSort, FirstPlaces DEF Below, Evidence
<1>3. \A d \in below : \E m \in Unique(events) : events[m] = d
  BY FirstPlaces DEF Below
<1>4. \A l, m \in earlier : events[l] = events[m] => l = m
  BY FirstPlaces
<1>5. earlier \subseteq Unique(events)
  OBVIOUS
<1> HIDE DEF earlier, below
<1>6. f \in Bijection(earlier, below)
  <2>1. f \in Injection(earlier, below)
    BY <1>2, <1>4, <1>5 DEF Injection, IsInjective
  <2>2. f \in Surjection(earlier, below)
    BY <1>2, <1>3, <1>5 DEF Surjection
  <2> QED BY <2>1, <2>2 DEF Bijection
<1>7. ExistsBijection(earlier, below)
  BY <1>6 DEF ExistsBijection
<1>8. Cardinality(below) = Cardinality(earlier)
  BY <1>1, <1>7, FS_Bijection
<1> QED BY <1>8 DEF earlier, below

(* Reading and sorting is enumerating the evidence in its order.           *)
LEMMA OrderedIsInOrder ==
  ASSUME NEW events \in Readings, WellFormed(events)
  PROVE  Ordered(events) = InOrder(Evidence(events))
<1> DEFINE E == Evidence(events)
           U == Unique(events)
           rank(e) == Cardinality(Below(Sorting(E), E, e))
           earlier(n) == Cardinality({m \in U : Before(events, m, n)})
<1>1. IsFiniteSet(U) /\ Known(E) /\ IsFiniteSet(E)
  BY FirstPlaces, ReadingsFinite, WellFormedIffKnown
<1>2. Cardinality(U) = Cardinality(E)
  <2> DEFINE f == [n \in U |-> events[n]]
  <2>1. f \in Bijection(U, E)
    <3>1. \A n \in U : events[n] \in E
      BY FirstPlaces DEF Evidence
    <3>2. f \in Injection(U, E)
      BY <3>1, FirstPlaces DEF Injection, IsInjective
    <3>3. f \in Surjection(U, E)
      BY <3>1, FirstPlaces DEF Surjection
    <3> QED BY <3>2, <3>3 DEF Bijection
  <2> HIDE DEF f, U, E
  <2>2. ExistsBijection(U, E)
    BY <2>1 DEF ExistsBijection
  <2> QED BY <2>2, <1>1, FS_Bijection
<1>3. \A n \in U : earlier(n) = rank(events[n]) /\ events[n] \in E
  BY EarlierCount, FirstPlaces DEF Evidence
<1>0. Cardinality(E) \in Nat
  BY <1>1, FS_CardinalityType
<1>4. /\ \A d, e \in E : rank(d) = rank(e) => d = e
      /\ \A p \in 0 .. Cardinality(E) - 1 : \E e \in E : rank(e) = p
  <2>1. Ranked(Sorting(E), E)
    BY <1>1, PrecedesOrders, Ranking
  <2> QED BY <2>1 DEF Ranked
<1>5. \A e \in E : \E n \in U : events[n] = e
  BY FirstPlaces
<1>6. Ordered(events) = [p \in 1 .. Cardinality(U) |->
                           events[CHOOSE n \in U : earlier(n) = p - 1]]
  BY DEF Ordered
<1>7. InOrder(E) = [p \in 1 .. Cardinality(E) |-> CHOOSE e \in E : rank(e) = p - 1]
  BY DEF InOrder
<1> HIDE DEF E, U, rank, earlier
<1>8. ASSUME NEW p \in 1 .. Cardinality(E)
      PROVE  events[CHOOSE n \in U : earlier(n) = p - 1] = CHOOSE e \in E : rank(e) = p - 1
  <2>1. p - 1 \in 0 .. Cardinality(E) - 1
    BY <1>0
  <2>2. PICK e \in E : rank(e) = p - 1
    BY <2>1, <1>4
  <2>3. PICK n \in U : events[n] = e
    BY <1>5
  <2>4. earlier(n) = p - 1
    BY <2>2, <2>3, <1>3
  <2> DEFINE c == CHOOSE i \in U : earlier(i) = p - 1
             d == CHOOSE i \in E : rank(i) = p - 1
  <2>5. c \in U /\ earlier(c) = p - 1
    BY <2>4
  <2>6. d \in E /\ rank(d) = p - 1
    BY <2>2
  <2> QED BY <2>5, <2>6, <1>3, <1>4
<1>9. Ordered(events) = InOrder(E)
  BY <1>2, <1>6, <1>7, <1>8
<1> QED BY <1>9 DEF E

-----------------------------------------------------------------------------
(* The verdict as a function of the set of evidence.                       *)

Anchors(request, E) == {e \in E : e.type = request.anchor}

Counted(request, a, E) == {e \in E : Admissible(request, a, e)}

Present(request, a, E) == {e.type : e \in Counted(request, a, E)}

Currencies(request, a, E) ==
  {e.currency : e \in {c \in Counted(request, a, E) :
                        c.type \in strategy(request).monetary}} \ {"none"}

Contradictory(request, a, E) ==
  \/ \E c \in strategy(request).conflicting : c \subseteq Present(request, a, E)
  \/ \E c, d \in Currencies(request, a, E) : c # d

VerdictOn(request, a, E) ==
  IF Contradictory(request, a, E) THEN "refused"
  ELSE IF Present(request, a, E) \cap strategy(request).disqualifying # {} THEN "rejected"
  ELSE IF request.asOf < Finalization(a) THEN "pending"
  ELSE IF strategy(request).required \subseteq Present(request, a, E) THEN "verified"
  ELSE "rejected"

LEMMA VerdictOfSet ==
  ASSUME NEW E, Known(E), IsFiniteSet(E), NEW request, NEW a
  PROVE  Verdict(request, a, InOrder(E)).verdict = VerdictOn(request, a, E)
<1> DEFINE ordered == InOrder(E)
           s == strategy(request)
           admissible == {n \in DOMAIN ordered : Admissible(request, a, ordered[n])}
           present == {ordered[n].type : n \in admissible}
           currencies == {ordered[n].currency : n \in {m \in admissible :
                           ordered[m].type \in s.monetary}} \ {"none"}
<1>1. /\ \A p \in DOMAIN ordered : ordered[p] \in E
      /\ \A e \in E : \E p \in DOMAIN ordered : ordered[p] = e
  BY InOrderEnumerates
<1> HIDE DEF ordered
<1>2. present = Present(request, a, E)
  BY <1>1 DEF Present, Counted
<1>3. currencies = Currencies(request, a, E)
  BY <1>1 DEF Currencies, Counted
<1>4. Verdict(request, a, ordered).verdict =
        IF \E c \in s.conflicting : c \subseteq present THEN "refused"
        ELSE IF \E c, d \in currencies : c # d THEN "refused"
        ELSE IF present \cap s.disqualifying # {} THEN "rejected"
        ELSE IF s.required \subseteq present
        THEN IF request.asOf < Finalization(a) THEN "pending" ELSE "verified"
        ELSE IF request.asOf < Finalization(a) THEN "pending" ELSE "rejected"
  BY DEF Verdict, Refusal
<1> HIDE DEF present, currencies, s
<1>5. Verdict(request, a, ordered).verdict = VerdictOn(request, a, E)
  BY <1>2, <1>3, <1>4 DEF VerdictOn, Contradictory, s
<1> QED BY <1>5 DEF ordered

LEMMA AnchorOfSet ==
  ASSUME NEW E, Known(E), IsFiniteSet(E), NEW request
  PROVE  LET ordered == InOrder(E)
             anchors == {n \in DOMAIN ordered : ordered[n].type = request.anchor}
         IN  /\ Cardinality(anchors) = 1 <=> \E a : Anchors(request, E) = {a}
             /\ \A a : Anchors(request, E) = {a} =>
                  ordered[CHOOSE n \in anchors : TRUE] = a
<1> DEFINE ordered == InOrder(E)
           anchors == {n \in DOMAIN ordered : ordered[n].type = request.anchor}
<1>1. /\ DOMAIN ordered = 1 .. Cardinality(E)
      /\ \A p \in DOMAIN ordered : ordered[p] \in E
      /\ \A e \in E : \E p \in DOMAIN ordered : ordered[p] = e
      /\ \A p, q \in DOMAIN ordered : ordered[p] = ordered[q] => p = q
  BY InOrderEnumerates
<1> HIDE DEF ordered
<1>2. IsFiniteSet(anchors)
  <2>1. Cardinality(E) \in Int /\ 1 \in Int
    BY FS_CardinalityType
  <2>2. IsFiniteSet(1 .. Cardinality(E))
    BY <2>1, FS_Interval
  <2>3. anchors \in SUBSET (1 .. Cardinality(E))
    BY <1>1
  <2> HIDE DEF anchors
  <2> QED BY <2>2, <2>3, FS_Subset
<1>3. ASSUME NEW n, anchors = {n}
      PROVE  Anchors(request, E) = {ordered[n]}
  BY <1>1, <1>3 DEF Anchors
<1>4. ASSUME NEW a, Anchors(request, E) = {a}
      PROVE  \E n : anchors = {n} /\ ordered[n] = a
  <2>1. a \in E /\ a.type = request.anchor
    BY <1>4 DEF Anchors
  <2>2. PICK n \in DOMAIN ordered : ordered[n] = a
    BY <2>1, <1>1
  <2>3. \A m \in anchors : ordered[m] \in Anchors(request, E)
    BY <1>1 DEF Anchors
  <2>4. \A m \in anchors : m = n
    BY <2>2, <2>3, <1>1, <1>4
  <2> QED BY <2>1, <2>2, <2>4
<1>5. Cardinality(anchors) = 1 <=> \E n : anchors = {n}
  <2> HIDE DEF anchors
  <2> QED BY <1>2, FS_Singleton
<1>6. \A a : Anchors(request, E) = {a} => ordered[CHOOSE n \in anchors : TRUE] = a
  <2> TAKE a
  <2> HAVE Anchors(request, E) = {a}
  <2>1. PICK n : anchors = {n} /\ ordered[n] = a
    BY <1>4
  <2> HIDE DEF anchors
  <2>2. (CHOOSE m \in anchors : TRUE) = n
    BY <2>1
  <2> QED BY <2>1, <2>2
<1> HIDE DEF anchors
<1>7. Cardinality(anchors) = 1 <=> \E a : Anchors(request, E) = {a}
  BY <1>3, <1>4, <1>5
<1> QED BY <1>6, <1>7 DEF ordered, anchors

(* evaluate, said of the evidence instead of the order it is read in.      *)
LEMMA EvaluateOfSet ==
  ASSUME NEW events \in Readings, NEW request
  PROVE  LET E == Evidence(events)
             result == Evaluate(request, events)
         IN  /\ ~WellFormed(events) => result.verdict = "refused"
             /\ WellFormed(events) /\ ~(\E a : Anchors(request, E) = {a})
                  => result = Refusal("ambiguous_anchor_event")
             /\ \A a : WellFormed(events) /\ Anchors(request, E) = {a} =>
                  /\ result = Verdict(request, a, InOrder(E))
                  /\ result.verdict = VerdictOn(request, a, E)
<1> DEFINE E == Evidence(events)
           result == Evaluate(request, events)
           ordered == Ordered(events)
           bad == {n \in DOMAIN events : Problem(events, n) # "none"}
           anchors == {n \in DOMAIN ordered : ordered[n].type = request.anchor}
<1>1. result = IF bad # {}
               THEN Refusal(Problem(events, CHOOSE n \in bad : \A m \in bad : n <= m))
               ELSE IF Cardinality(anchors) # 1 THEN Refusal("ambiguous_anchor_event")
               ELSE Verdict(request, ordered[CHOOSE n \in anchors : TRUE], ordered)
  BY DEF Evaluate
<1>2. bad # {} <=> ~WellFormed(events)
  BY DEF WellFormed
<1>3. WellFormed(events) =>
        /\ Known(E) /\ IsFiniteSet(E)
        /\ ordered = InOrder(E)
        /\ Cardinality(anchors) = 1 <=> \E a : Anchors(request, E) = {a}
        /\ \A a : Anchors(request, E) = {a} => ordered[CHOOSE n \in anchors : TRUE] = a
  <2> HAVE WellFormed(events)
  <2>1. Known(E) /\ IsFiniteSet(E)
    BY WellFormedIffKnown, ReadingsFinite
  <2>2. ordered = InOrder(E)
    BY OrderedIsInOrder
  <2> DEFINE sorted == InOrder(E)
             places == {n \in DOMAIN sorted : sorted[n].type = request.anchor}
  <2> HIDE DEF E
  <2>3. /\ Cardinality(places) = 1 <=> \E a : Anchors(request, E) = {a}
        /\ \A a : Anchors(request, E) = {a} => sorted[CHOOSE n \in places : TRUE] = a
    BY <2>1, AnchorOfSet
  <2>4. anchors = places
    BY <2>2
  <2> HIDE DEF anchors, ordered, places, sorted
  <2>5. sorted = ordered
    BY <2>2 DEF sorted
  <2> QED BY <2>1, <2>2, <2>3, <2>4, <2>5
<1> HIDE DEF E, result, ordered, bad, anchors
<1>4. ~WellFormed(events) => result.verdict = "refused"
  BY <1>1, <1>2 DEF Refusal
<1>5. WellFormed(events) /\ ~(\E a : Anchors(request, E) = {a})
        => result = Refusal("ambiguous_anchor_event")
  BY <1>1, <1>2, <1>3
<1>6. \A a : WellFormed(events) /\ Anchors(request, E) = {a} =>
        /\ result = Verdict(request, a, InOrder(E))
        /\ result.verdict = VerdictOn(request, a, E)
  <2> TAKE a
  <2> HAVE WellFormed(events) /\ Anchors(request, E) = {a}
  <2>1. result = Verdict(request, a, InOrder(E))
    BY <1>1, <1>2, <1>3
  <2> QED BY <2>1, <1>3, VerdictOfSet
<1> QED BY <1>4, <1>5, <1>6 DEF E, result

-----------------------------------------------------------------------------
(* The life of one outcome.                                                *)

LEMMA ReceivedReading ==
  ASSUME TypeOK
  PROVE  /\ received \in Readings
         /\ DOMAIN received = 1 .. Len(received) /\ Len(received) \in Nat
         /\ now \in Nat
  BY RequestAssumption DEF TypeOK, Readings

LEMMA InitInv == Init => IndInv
<1> SUFFICES ASSUME Init PROVE IndInv
  OBVIOUS
<1>1. TypeOK
  BY RequestAssumption DEF Init, TypeOK, ProgressStates, Nothing
<1>2. DecidedInv
  BY DEF Init, DecidedInv
<1> QED BY <1>1, <1>2 DEF IndInv

(* What has been read stays where it is.                                   *)
LEMMA DecidedStays ==
  ASSUME IndInv, UNCHANGED <<rule, decided>>,
         \/ received' = received
         \/ \E e \in TrustedEvents : received' = Append(received, e)
  PROVE  DecidedInv'
<1> SUFFICES ASSUME decided # Nothing
             PROVE  decided'.result = Evaluate(Request(decided.asOf)',
                                               [n \in 1 .. decided'.read |-> received'[n]])
  BY DEF DecidedInv
<1>1. decided.read \in 0 .. Len(received) /\ received \in Seq(TrustedEvents)
  BY DEF IndInv, TypeOK
<1>2. [n \in 1 .. decided.read |-> received'[n]] = [n \in 1 .. decided.read |-> received[n]]
  BY <1>1
<1>3. Request(decided.asOf)' = Request(decided.asOf)
  BY DEF Request
<1>4. decided.result = Evaluate(Request(decided.asOf), [n \in 1 .. decided.read |-> received[n]])
  BY DEF IndInv, DecidedInv
<1> QED BY <1>2, <1>3, <1>4

LEMMA AppendStep ==
  ASSUME TypeOK, NEW e \in TrustedEvents, e.received \in e.occurred .. now,
         received' = Append(received, e), UNCHANGED <<now, rule, progress, decided>>
  PROVE  TypeOK'
<1>1. received' \in Seq(TrustedEvents) /\ Len(received') = Len(received) + 1
  BY DEF TypeOK
<1>2. \A n \in DOMAIN received' : received'[n].received \in received'[n].occurred .. now'
  <2> TAKE n \in DOMAIN received'
  <2>1. received'[n] = e \/ (n \in DOMAIN received /\ received'[n] = received[n])
    BY DEF TypeOK
  <2> QED BY <2>1 DEF TypeOK
<1>3. decided # Nothing => decided.read \in 0 .. Len(received')
  BY <1>1 DEF TypeOK
<1> QED BY <1>1, <1>2, <1>3 DEF TypeOK

LEMMA TickStep ==
  ASSUME IndInv, Tick
  PROVE  IndInv'
<1>1. now \in Nat /\ now' \in 0 .. MaxTime /\ now' = now + 1
  BY RequestAssumption DEF IndInv, TypeOK, Tick
<1>2. \A n \in DOMAIN received : received[n].occurred \in Int
                                 /\ received[n].received \in received[n].occurred .. now'
  <2> TAKE n \in DOMAIN received
  <2>1. received[n] \in TrustedEvents /\ received[n].received \in received[n].occurred .. now
    BY DEF IndInv, TypeOK
  <2>2. received[n].occurred \in Int
    BY <2>1 DEF TrustedEvents
  <2> QED BY <1>1, <2>1, <2>2
<1>3. decided # Nothing => decided.asOf \in 0 .. now'
  BY <1>1 DEF IndInv, TypeOK
<1>4. TypeOK'
  BY <1>1, <1>2, <1>3 DEF IndInv, TypeOK, Tick
<1>5. DecidedInv'
  BY DecidedStays DEF Tick
<1> QED BY <1>4, <1>5 DEF IndInv

LEMMA ReceiveStep ==
  ASSUME IndInv, Receive
  PROVE  IndInv'
<1>1. PICK e \in Occurrences[rule] :
        e.occurred <= now /\ received' = Append(received, Received(e, now))
  BY DEF Receive
<1>2. now \in Nat
  BY ReceivedReading DEF IndInv
<1>3. e \in Facts /\ e.occurred \in Nat
  BY RequestAssumption DEF IndInv, TypeOK, Facts
<1>4. Received(e, now) \in TrustedEvents
  BY <1>2, <1>3 DEF Received, TrustedEvents, Facts
<1>5. Received(e, now).received \in Received(e, now).occurred .. now
  BY <1>1, <1>2, <1>3 DEF Received
<1> DEFINE f == Received(e, now)
<1>6. TypeOK' /\ DecidedInv'
  <2> HIDE DEF f
  <2>1. f \in TrustedEvents /\ f.received \in f.occurred .. now /\ received' = Append(received, f)
    BY <1>1, <1>4, <1>5 DEF f
  <2>2. UNCHANGED <<now, rule, progress, decided>>
    BY DEF Receive
  <2> QED BY <2>1, <2>2, AppendStep, DecidedStays DEF IndInv
<1> QED BY <1>6 DEF IndInv

LEMMA ReadAgainStep ==
  ASSUME IndInv, ReadAgain
  PROVE  IndInv'
<1>1. PICK n \in DOMAIN received : received' = Append(received, received[n])
  BY DEF ReadAgain
<1> DEFINE f == received[n]
<1>2. f \in TrustedEvents /\ f.received \in f.occurred .. now
  BY DEF IndInv, TypeOK
<1>3. UNCHANGED <<now, rule, progress, decided>>
  BY DEF ReadAgain
<1>4. received' = Append(received, f)
  BY <1>1
<1> HIDE DEF f
<1>5. TypeOK' /\ DecidedInv'
  BY <1>2, <1>3, <1>4, AppendStep, DecidedStays DEF IndInv
<1> QED BY <1>5 DEF IndInv

LEMMA AdvanceStep ==
  ASSUME IndInv, Advance
  PROVE  IndInv'
<1> DEFINE Won == {"verified", "billable", "disputed", "settled", "credited"}
<1>1. PICK next \in AllowedTransitions(progress) \ {"verified", "rejected"} : progress' = next
  BY DEF Advance
<1>2. progress' \in ProgressStates /\ (progress' \in Won <=> progress \in Won)
  BY <1>1 DEF IndInv, TypeOK, ProgressStates, AllowedTransitions
<1>3. TypeOK'
  BY <1>2 DEF IndInv, TypeOK, Advance
<1>4. DecidedInv'
  BY DecidedStays DEF Advance
<1> QED BY <1>3, <1>4 DEF IndInv

LEMMA DecideStep ==
  ASSUME IndInv, Decide
  PROVE  IndInv'
<1>1. PICK asOf \in 0 .. now :
        /\ Evaluate(Request(asOf), received).verdict \in {"verified", "rejected"}
        /\ progress' = ProgressOf(Evaluate(Request(asOf), received))
        /\ decided' = [asOf |-> asOf, result |-> Evaluate(Request(asOf), received),
                       read |-> Len(received)]
  BY DEF Decide
<1> DEFINE result == Evaluate(Request(asOf), received)
<1>2. result.verdict \in {"verified", "rejected"} /\ progress' = ProgressOf(result)
      /\ decided' = [asOf |-> asOf, result |-> result, read |-> Len(received)]
  BY <1>1
<1>3. UNCHANGED <<now, rule, received>>
  BY DEF Decide
<1>4. Request(asOf)' = Request(asOf)
  BY <1>3 DEF Request
<1>5. [n \in 1 .. Len(received) |-> received[n]] = received
  BY DEF IndInv, TypeOK
<1>6. result = Evaluate(Request(asOf), received)
  OBVIOUS
<1> HIDE DEF result
<1>7. decided' # Nothing
  BY <1>2 DEF Nothing, Refusal
<1>8. /\ progress' \in ProgressStates
      /\ progress' \in {"verified", "billable", "disputed", "settled", "credited"}
           <=> result.verdict = "verified"
  BY <1>2 DEF ProgressOf, ProgressStates
<1>9. TypeOK'
  BY <1>2, <1>3, <1>7, <1>8, ReceivedReading DEF IndInv, TypeOK
<1>10. DecidedInv'
  BY <1>2, <1>3, <1>4, <1>5, <1>6 DEF DecidedInv
<1> QED BY <1>9, <1>10 DEF IndInv

(***************************************************************************)
(* The types hold, and the verdict that moved an outcome is the evaluation *)
(* of what had been read by then, of any rules, windows and evidence.      *)
(***************************************************************************)
THEOREM EvaluatorInductive == Spec => []IndInv
<1>1. Init => IndInv
  BY InitInv
<1>2. IndInv /\ [Next]_vars => IndInv'
  <2> SUFFICES ASSUME IndInv, [Next]_vars PROVE IndInv'
    OBVIOUS
  <2>1. CASE UNCHANGED vars
    <3>1. TypeOK'
      BY <2>1 DEF IndInv, TypeOK, vars
    <3>2. DecidedInv'
      BY <2>1, DecidedStays DEF vars
    <3> QED BY <3>1, <3>2 DEF IndInv
  <2> QED BY <2>1, TickStep, ReceiveStep, ReadAgainStep, AdvanceStep, DecideStep DEF Next
<1> QED BY <1>1, <1>2, PTL DEF Spec

-----------------------------------------------------------------------------
(* What an anchor, the time and the set of evidence decide.                *)

LEMMA PresentType ==
  ASSUME NEW E, NEW request, NEW a, NEW t
  PROVE  t \in Present(request, a, E) <=>
           \E e \in E : e.type = t /\ Admissible(request, a, e)
BY DEF Present, Counted

LEMMA AnchorIn ==
  ASSUME NEW E, NEW request, NEW a, Anchors(request, E) = {a}
  PROVE  /\ a \in E /\ a.type = request.anchor
         /\ \A e \in E : e.type = request.anchor => e = a
BY DEF Anchors

LEMMA Documented ==
  ASSUME TypeOK
  PROVE  VerdictsAsDocumented
<1> SUFFICES ASSUME NEW asOf \in 0 .. now,
                    Evaluate(Request(asOf), received).verdict # "refused"
             PROVE  LET result == Evaluate(Request(asOf), received)
                        s == strategy(Request(asOf))
                        evidence == {received[n] : n \in DOMAIN received}
                        onTime(t) == \E a, e \in evidence :
                          /\ a.type = rule.anchor
                          /\ e.type = t
                          /\ \/ e = a
                             \/ /\ e.occurred \in a.occurred .. a.occurred + EvaluationWindow - 1
                                /\ e.received <= asOf
                                /\ e.received <= a.occurred + EvaluationWindow + FinalizationWindow
                        over == \A a \in evidence : a.type = rule.anchor =>
                                  asOf >= a.occurred + EvaluationWindow + FinalizationWindow
                    IN  result.verdict =
                          CASE \E t \in s.disqualifying : onTime(t) -> "rejected"
                            [] ~over /\ ~\E t \in s.disqualifying : onTime(t) -> "pending"
                            [] over /\ ~\E t \in s.disqualifying : onTime(t) ->
                                 IF \A t \in s.required : onTime(t) THEN "verified" ELSE "rejected"
  BY DEF VerdictsAsDocumented
<1> DEFINE request == Request(asOf)
           E == Evidence(received)
           s == strategy(request)
           verdict == Evaluate(request, received).verdict
           onTime(t) == \E a, e \in E :
             /\ a.type = rule.anchor
             /\ e.type = t
             /\ \/ e = a
                \/ /\ e.occurred \in a.occurred .. a.occurred + EvaluationWindow - 1
                   /\ e.received <= asOf
                   /\ e.received <= a.occurred + EvaluationWindow + FinalizationWindow
           over == \A a \in E : a.type = rule.anchor =>
                     asOf >= a.occurred + EvaluationWindow + FinalizationWindow
<1>1. received \in Readings /\ now \in Nat
  BY ReceivedReading
<1>2. request.asOf = asOf /\ request.anchor = rule.anchor /\ asOf \in Int
  <2>1. request.asOf = asOf /\ request.anchor = rule.anchor
    BY ONLY DEF Request
  <2>2. asOf \in Int
    BY ONLY <1>1, asOf \in 0 .. now
  <2> QED BY <2>1, <2>2
<1>3. EvaluationWindow \in Int /\ FinalizationWindow \in Int
  BY RequestAssumption
<1>4. PICK a : WellFormed(received) /\ Anchors(request, E) = {a}
  <2>1. verdict # "refused"
    OBVIOUS
  <2>2. Refusal("ambiguous_anchor_event").verdict = "refused"
    BY ONLY DEF Refusal
  <2> HIDE DEF request
  <2>3. /\ ~WellFormed(received) => verdict = "refused"
        /\ WellFormed(received) /\ ~(\E a : Anchors(request, E) = {a})
             => Evaluate(request, received) = Refusal("ambiguous_anchor_event")
    BY ONLY <1>1, EvaluateOfSet
  <2> QED BY ONLY <2>1, <2>2, <2>3
<1>5. verdict = VerdictOn(request, a, E)
  BY <1>1, <1>4, EvaluateOfSet
<1>6. a \in E /\ a.type = rule.anchor /\ \A e \in E : e.type = rule.anchor => e = a
  BY <1>2, <1>4, AnchorIn
<1>7. \A e \in E : e.occurred \in Int /\ e.received \in Int
  BY <1>1, ReadingsFinite DEF TrustedEvents
<1>8. Finalization(a) = a.occurred + EvaluationWindow + FinalizationWindow
  BY DEF Finalization, EvaluationEnd
<1>9. over <=> ~(asOf < Finalization(a))
  <2>1. over <=> asOf >= a.occurred + EvaluationWindow + FinalizationWindow
    BY <1>6
  <2>2. a.occurred \in Int
    BY <1>6, <1>7
  <2> HIDE DEF over, E
  <2> QED BY <1>2, <1>3, <1>8, <2>1, <2>2
<1>10. ASSUME NEW t
       PROVE  onTime(t) <=> t \in Present(request, a, E)
  <2>1. \A e \in E : Admissible(request, a, e) <=>
          \/ e = a
          \/ /\ e.occurred \in a.occurred .. a.occurred + EvaluationWindow - 1
             /\ e.received <= asOf
             /\ e.received <= a.occurred + EvaluationWindow + FinalizationWindow
    BY <1>2, <1>3, <1>6, <1>7, <1>8 DEF Admissible, EvaluationEnd
  <2> QED BY <2>1, <1>6, PresentType
<1>11. verdict # "refused"
  OBVIOUS
<1>12. /\ (\E t \in s.disqualifying : onTime(t)) <=> Present(request, a, E) \cap s.disqualifying # {}
       /\ (\A t \in s.required : onTime(t)) <=> s.required \subseteq Present(request, a, E)
  BY <1>10
<1> DEFINE disqualified == \E t \in s.disqualifying : onTime(t)
           complete == \A t \in s.required : onTime(t)
<1>13. verdict = IF disqualified THEN "rejected"
                 ELSE IF ~over THEN "pending"
                 ELSE IF complete THEN "verified" ELSE "rejected"
  <2> HIDE DEF onTime, over, verdict, s, E
  <2>1. verdict = IF Present(request, a, E) \cap s.disqualifying # {} THEN "rejected"
                  ELSE IF asOf < Finalization(a) THEN "pending"
                  ELSE IF s.required \subseteq Present(request, a, E) THEN "verified" ELSE "rejected"
    BY <1>2, <1>5, <1>11 DEF VerdictOn, s
  <2> QED BY <2>1, <1>9, <1>12
<1>14. verdict = CASE disqualified -> "rejected"
                   [] ~over /\ ~disqualified -> "pending"
                   [] over /\ ~disqualified -> IF complete THEN "verified" ELSE "rejected"
  <2> HIDE DEF disqualified, complete, over, verdict
  <2> QED BY <1>13
<1> QED BY <1>14 DEF Evidence

(***************************************************************************)
(* Every evaluation that is not refused gives the verdict the documented   *)
(* time semantics call for, of any rules, windows and evidence.            *)
(***************************************************************************)
THEOREM DocumentedVerdicts == Spec => []EvaluatorInv
<1>1. IndInv => EvaluatorInv
  BY Documented DEF EvaluatorInv, IndInv
<1> QED BY <1>1, EvaluatorInductive, PTL

(***************************************************************************)
(* The order in which evidence is read, and what is read twice, make no    *)
(* difference to a verdict, its evidence list and the digested input.      *)
(***************************************************************************)
THEOREM OrderNeverMatters == Spec => []OrderDoesNotMatter
<1>1. IndInv => OrderDoesNotMatter
  <2> SUFFICES ASSUME IndInv,
                      NEW p \in [DOMAIN received -> DOMAIN received],
                      \A n \in DOMAIN received : \E m \in DOMAIN received : p[m] = n
               PROVE  LET result == Evaluate(Request(now), received)
                          other == Evaluate(Request(now), [n \in DOMAIN received |-> received[p[n]]])
                      IN  IF Malformed THEN result.verdict = "refused" /\ other.verdict = "refused"
                                       ELSE other = result
    BY DEF OrderDoesNotMatter
  <2> DEFINE again == [n \in DOMAIN received |-> received[p[n]]]
             request == Request(now)
             E == Evidence(received)
  <2>1. received \in Readings /\ DOMAIN received = 1 .. Len(received) /\ Len(received) \in Nat
    BY ReceivedReading DEF IndInv
  <2>2. \A n \in DOMAIN received : received[n] \in TrustedEvents
    BY <2>1, ReadingsFinite DEF Evidence
  <2>3. again \in Readings
    BY <2>1, <2>2 DEF Readings
  <2>4. Evidence(again) = E
    BY DEF Evidence
  <2>5. Malformed <=> ~WellFormed(received)
    BY DEF Malformed, WellFormed
  <2> HIDE DEF again, request, E
  <2>6. WellFormed(again) <=> WellFormed(received)
    BY <2>1, <2>3, <2>4, WellFormedIffKnown DEF E
  <2>7. CASE ~WellFormed(received)
    BY <2>1, <2>3, <2>5, <2>6, <2>7, EvaluateOfSet DEF again, request
  <2>8. CASE WellFormed(received)
    <3>1. CASE \E a : Anchors(request, E) = {a}
      <4>1. PICK a : Anchors(request, E) = {a}
        BY <3>1
      <4>2. Evaluate(request, received) = Verdict(request, a, InOrder(E))
        BY <4>1, <2>1, <2>8, EvaluateOfSet DEF E
      <4>3. Evaluate(request, again) = Verdict(request, a, InOrder(E))
        BY <4>1, <2>3, <2>4, <2>6, <2>8, EvaluateOfSet
      <4> QED BY <4>2, <4>3, <2>5, <2>8 DEF again, request
    <3>2. CASE ~(\E a : Anchors(request, E) = {a})
      <4>1. Evaluate(request, received) = Refusal("ambiguous_anchor_event")
        BY <3>2, <2>1, <2>8, EvaluateOfSet DEF E
      <4>2. Evaluate(request, again) = Refusal("ambiguous_anchor_event")
        BY <3>2, <2>3, <2>4, <2>6, <2>8, EvaluateOfSet
      <4> QED BY <4>1, <4>2, <2>5, <2>8 DEF again, request
    <3> QED BY <3>1, <3>2
  <2> QED BY <2>7, <2>8
<1> QED BY <1>1, EvaluatorInductive, PTL

(* What the verdict that moved the outcome was based on.                   *)
LEMMA DecidedOn ==
  ASSUME IndInv, decided # Nothing
  PROVE  LET read == [n \in 1 .. decided.read |-> received[n]]
             E == Evidence(read)
             request == Request(decided.asOf)
         IN  \E a : /\ Anchors(request, E) = {a}
                   /\ decided.result.verdict = VerdictOn(request, a, E)
                   /\ decided.read \in 1 .. Len(received)
<1> DEFINE read == [n \in 1 .. decided.read |-> received[n]]
           E == Evidence(read)
           request == Request(decided.asOf)
<1>1. decided.read \in 0 .. Len(received) /\ received \in Seq(TrustedEvents)
      /\ decided.result.verdict \in {"verified", "rejected"}
  BY DEF IndInv, TypeOK
<1>2. read \in Readings
  BY <1>1 DEF Readings
<1>3. decided.result = Evaluate(request, read)
  BY DEF IndInv, DecidedInv
<1>4. Refusal("ambiguous_anchor_event").verdict = "refused"
  BY DEF Refusal
<1>5. PICK a : /\ Anchors(request, E) = {a}
               /\ decided.result.verdict = VerdictOn(request, a, E)
  <2> HIDE DEF read, request
  <2>1. /\ ~WellFormed(read) => decided.result.verdict = "refused"
        /\ WellFormed(read) /\ ~(\E a : Anchors(request, E) = {a})
             => decided.result = Refusal("ambiguous_anchor_event")
        /\ \A a : WellFormed(read) /\ Anchors(request, E) = {a} =>
             decided.result.verdict = VerdictOn(request, a, E)
    BY <1>2, <1>3, EvaluateOfSet
  <2> QED BY <1>1, <1>4, <2>1
<1>6. decided.read # 0
  <2>1. a \in E
    <3> HIDE DEF E, request
    <3> QED BY <1>5, AnchorIn
  <2>2. DOMAIN read = 1 .. decided.read
    OBVIOUS
  <2>3. DOMAIN read # {}
    <3> HIDE DEF read
    <3> QED BY <2>1 DEF Evidence
  <2> QED BY <2>2, <2>3
<1>7. decided.read \in 1 .. Len(received)
  BY <1>1, <1>6
<1> QED BY <1>5, <1>7

(* What was received later adds to the evidence, and nothing else does.    *)
LEMMA LaterEvidence ==
  ASSUME IndInv, decided # Nothing
  PROVE  LET E == Evidence([n \in 1 .. decided.read |-> received[n]])
             F == Evidence(LaterReceived)
         IN  /\ LaterReceived \in Readings
             /\ E \subseteq F /\ F \subseteq Evidence(received)
             /\ \A e \in F : e \in E \/ e.received > decided.asOf
<1> DEFINE read == [n \in 1 .. decided.read |-> received[n]]
           E == Evidence(read)
<1>1. decided.read \in 1 .. Len(received) /\ Len(received) \in Nat
      /\ DOMAIN received = 1 .. Len(received)
  BY DecidedOn, ReceivedReading DEF IndInv
<1>2. \A n \in DOMAIN received : received[n] \in TrustedEvents
  BY DEF IndInv, TypeOK
<1>3. received[1] \in E /\ 1 \in DOMAIN received
  BY <1>1 DEF Evidence
<1>4. \A n \in DOMAIN received : LaterReceived[n] =
        IF n <= decided.read \/ received[n].received > decided.asOf THEN received[n]
                                                                  ELSE received[1]
  BY DEF LaterReceived
<1>5. DOMAIN LaterReceived = 1 .. Len(received)
  BY <1>1 DEF LaterReceived
<1>6. LaterReceived \in [1 .. Len(received) -> TrustedEvents]
  BY <1>1, <1>2, <1>3 DEF LaterReceived
<1>7. LaterReceived \in Readings
  BY <1>1, <1>6 DEF Readings
<1>8. \A n \in 1 .. decided.read : n \in DOMAIN LaterReceived /\ LaterReceived[n] = received[n]
  BY <1>1, <1>4, <1>5
<1>9. E \subseteq Evidence(LaterReceived)
  BY <1>8 DEF Evidence
<1>10. Evidence(LaterReceived) \subseteq Evidence(received)
  BY <1>1, <1>3, <1>4, <1>5 DEF Evidence
<1>11. ASSUME NEW n \in DOMAIN received
       PROVE  LaterReceived[n] \in E \/ LaterReceived[n].received > decided.asOf
  <2>1. CASE n <= decided.read
    <3>1. n \in 1 .. decided.read
      BY <1>1, <2>1
    <3> QED BY <3>1, <1>8 DEF Evidence
  <2>2. CASE ~(n <= decided.read) /\ received[n].received > decided.asOf
    BY <2>2, <1>4
  <2>3. CASE ~(n <= decided.read) /\ ~(received[n].received > decided.asOf)
    BY <2>3, <1>3, <1>4
  <2> QED BY <2>1, <2>2, <2>3
<1>12. \A e \in Evidence(LaterReceived) : e \in E \/ e.received > decided.asOf
  BY <1>1, <1>5, <1>11 DEF Evidence
<1> QED BY <1>7, <1>9, <1>10, <1>12

(* Evidence received after the boundary does not count, and what counted   *)
(* goes on counting.                                                       *)
LEMMA CountedLater ==
  ASSUME NEW E, NEW F \in SUBSET TrustedEvents, E \subseteq F, NEW a \in E,
         NEW before \in Int, NEW asOf \in Int, before <= asOf,
         \A e \in F : e \in E \/ e.received > before
  PROVE  /\ Counted(Request(before), a, E) \subseteq Counted(Request(asOf), a, F)
         /\ ~(before < Finalization(a)) =>
              Counted(Request(asOf), a, F) = Counted(Request(before), a, E)
<1>1. Request(before).asOf = before /\ Request(asOf).asOf = asOf
  BY DEF Request
<1>2. \A e \in F : e.received \in Int
  BY DEF TrustedEvents
<1>3. Finalization(a) \in Int
  BY RequestAssumption DEF Finalization, EvaluationEnd, TrustedEvents
<1>4. \A e \in E : Admissible(Request(before), a, e) => Admissible(Request(asOf), a, e)
  <2> DEFINE inWindow(e) == a.occurred <= e.occurred /\ e.occurred < EvaluationEnd(a)
  <2>1. \A e : Admissible(Request(before), a, e) <=>
          e = a \/ (inWindow(e) /\ e.received <= before /\ e.received <= Finalization(a))
    BY <1>1 DEF Admissible
  <2>2. \A e : Admissible(Request(asOf), a, e) <=>
          e = a \/ (inWindow(e) /\ e.received <= asOf /\ e.received <= Finalization(a))
    BY <1>1 DEF Admissible
  <2> HIDE DEF inWindow
  <2> QED BY <2>1, <2>2, <1>2, <1>3
<1>5. ASSUME ~(before < Finalization(a)), NEW e \in F, Admissible(Request(asOf), a, e)
      PROVE  e \in E /\ Admissible(Request(before), a, e)
  <2>1. CASE e = a
    BY <2>1 DEF Admissible
  <2>2. CASE e # a
    <3>1. /\ a.occurred <= e.occurred /\ e.occurred < EvaluationEnd(a)
          /\ e.received <= Finalization(a)
      BY <1>5, <2>2 DEF Admissible
    <3>2. e.received <= before
      BY <3>1, <1>2, <1>3, <1>5
    <3>3. e \in E
      BY <3>2, <1>2
    <3> QED BY <3>1, <3>2, <3>3, <1>1 DEF Admissible
  <2> QED BY <2>1, <2>2
<1> QED BY <1>4, <1>5 DEF Counted

(***************************************************************************)
(* A verdict that moved an outcome is never contradicted by evaluating     *)
(* again, at that instant or later, with what is received after it.        *)
(***************************************************************************)
THEOREM VerdictsAreFinal == Spec => []FinalVerdictsHold
<1>1. IndInv => FinalVerdictsHold
  <2> SUFFICES ASSUME IndInv, decided # Nothing, NEW asOf \in decided.asOf .. now
               PROVE  LET again == Evaluate(Request(asOf), LaterReceived)
                      IN  \/ again.verdict = decided.result.verdict
                          \/ /\ again.verdict = "refused"
                             /\ decided.result.verdict = "verified" =>
                                  Malformed \/ again.reason = "ambiguous_anchor_event"
    BY DEF FinalVerdictsHold
  <2> DEFINE again == Evaluate(Request(asOf), LaterReceived)
             before == decided.asOf
             E == Evidence([n \in 1 .. decided.read |-> received[n]])
             F == Evidence(LaterReceived)
             s == strategy(Request(asOf))
  <2>1. /\ before \in Int /\ asOf \in Int /\ before <= asOf
        /\ decided.result.verdict \in {"verified", "rejected"}
    BY ReceivedReading DEF IndInv, TypeOK
  <2>2. PICK a : /\ Anchors(Request(before), E) = {a}
                 /\ decided.result.verdict = VerdictOn(Request(before), a, E)
    BY DecidedOn
  <2>3. /\ LaterReceived \in Readings /\ E \subseteq F /\ F \subseteq Evidence(received)
        /\ \A e \in F : e \in E \/ e.received > before
    BY LaterEvidence
  <2>4. strategy(Request(before)) = s /\ Request(asOf).anchor = Request(before).anchor
        /\ Request(asOf).asOf = asOf /\ Request(before).asOf = before
    BY DEF strategy, Request
  <2>5. a \in E /\ a.type = Request(before).anchor
    BY <2>2, AnchorIn
  <2>6. received \in Readings /\ F \in SUBSET TrustedEvents
    BY <2>3, ReceivedReading, ReadingsFinite DEF IndInv
  <2> HIDE DEF again, before, E, F, s
  <2>7. CASE ~WellFormed(LaterReceived)
    <3>1. again.verdict = "refused"
      BY <2>3, <2>7, EvaluateOfSet DEF again
    <3>2. ~WellFormed(received)
      BY <2>3, <2>6, <2>7, WellFormedIffKnown DEF F, Known
    <3>3. Malformed
      BY <3>2 DEF Malformed, WellFormed
    <3> QED BY <3>1, <3>3 DEF again
  <2>8. CASE WellFormed(LaterReceived) /\ ~(\E b : Anchors(Request(asOf), F) = {b})
    <3>1. again = Refusal("ambiguous_anchor_event")
      BY <2>3, <2>8, EvaluateOfSet DEF again, F
    <3> QED BY <3>1 DEF Refusal, again
  <2>9. ASSUME NEW b, WellFormed(LaterReceived), Anchors(Request(asOf), F) = {b}
        PROVE  \/ again.verdict = decided.result.verdict
               \/ again.verdict = "refused" /\ decided.result.verdict = "rejected"
    <3>1. b = a
      <4>1. a \in Anchors(Request(asOf), F)
        BY <2>3, <2>4, <2>5 DEF Anchors
      <4> QED BY <4>1, <2>9
    <3>2. again.verdict = VerdictOn(Request(asOf), a, F)
      BY <3>1, <2>3, <2>9, EvaluateOfSet DEF again, F
    <3>3. /\ Counted(Request(before), a, E) \subseteq Counted(Request(asOf), a, F)
          /\ ~(before < Finalization(a)) =>
               Counted(Request(asOf), a, F) = Counted(Request(before), a, E)
      BY <2>1, <2>3, <2>5, <2>6, CountedLater
    <3>4. Present(Request(before), a, E) \subseteq Present(Request(asOf), a, F)
      BY <3>3 DEF Present
    <3>5. CASE Present(Request(before), a, E) \cap s.disqualifying # {}
      <4>1. Present(Request(asOf), a, F) \cap s.disqualifying # {}
        BY <3>4, <3>5
      <4>2. decided.result.verdict = "rejected"
        BY <2>1, <2>2, <2>4, <3>5 DEF VerdictOn
      <4>3. again.verdict \in {"refused", "rejected"}
        BY <4>1, <3>2 DEF VerdictOn, s
      <4> QED BY <4>2, <4>3
    <3>6. CASE Present(Request(before), a, E) \cap s.disqualifying = {}
      <4>1. ~(before < Finalization(a))
        BY <2>1, <2>2, <2>4, <3>6 DEF VerdictOn
      <4>2. /\ Present(Request(asOf), a, F) = Present(Request(before), a, E)
            /\ Currencies(Request(asOf), a, F) = Currencies(Request(before), a, E)
        BY <3>3, <4>1, <2>4 DEF Present, Currencies, s
      <4>3. Contradictory(Request(asOf), a, F) <=> Contradictory(Request(before), a, E)
        BY <4>2, <2>4 DEF Contradictory, s
      <4>4. ~(asOf < Finalization(a))
        <5>1. a \in TrustedEvents
          BY <2>3, <2>5, <2>6
        <5>2. Finalization(a) \in Int
          BY <5>1, RequestAssumption DEF Finalization, EvaluationEnd, TrustedEvents
        <5> QED BY <4>1, <5>2, <2>1
      <4>5. VerdictOn(Request(asOf), a, F) = VerdictOn(Request(before), a, E)
        BY <4>1, <4>2, <4>3, <4>4, <2>4 DEF VerdictOn, s
      <4> QED BY <4>5, <3>2, <2>2
    <3> QED BY <3>5, <3>6
  <2>10. CASE WellFormed(LaterReceived) /\ \E b : Anchors(Request(asOf), F) = {b}
    BY <2>9, <2>10 DEF again
  <2> QED BY <2>7, <2>8, <2>10
<1> QED BY <1>1, EvaluatorInductive, PTL
=============================================================================
