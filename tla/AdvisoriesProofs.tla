-------------------------- MODULE AdvisoriesProofs --------------------------
(***************************************************************************)
(* What holds of the vulnerability check for any list of results, whatever *)
(* OSV has of their packages, in whatever order it is fetched, and         *)
(* whatever fails.                                                         *)
(***************************************************************************)
EXTENDS Advisories, FiniteSetTheorems, WellFoundedInduction, TLAPS

----------------------------------------------------------------------------
(* Places: results and their queries.                                       *)

LEMMA PinsType ==
    ASSUME pins \in Inputs
    PROVE  /\ pins \in Seq(Pin) /\ Len(pins) \in Nat /\ DOMAIN pins = 1..Len(pins)
           /\ \A i \in DOMAIN pins : pins[i] \in Pin
<1>1. pins \in Seq(Pin)
  BY AdvisoriesAssumption
<1>. QED BY <1>1

\* The results up to one that are asked about.
Upto(n) == {j \in eligible : j <= n}

LEMMA UptoFinite ==
    ASSUME pins \in Inputs
    PROVE  /\ eligible \subseteq 1..Len(pins)
           /\ IsFiniteSet(eligible) /\ Cardinality(eligible) \in Nat
           /\ \A n : /\ IsFiniteSet(Upto(n)) /\ Cardinality(Upto(n)) \in Nat
                     /\ Cardinality(Upto(n)) <= Cardinality(eligible)
<1>1. eligible \subseteq 1..Len(pins) /\ Len(pins) \in Nat
  BY PinsType DEF eligible
<1>2. IsFiniteSet(1..Len(pins))
  BY <1>1, FS_Interval
<1>3. IsFiniteSet(eligible) /\ Cardinality(eligible) \in Nat
  BY <1>1, <1>2, FS_Subset, FS_CardinalityType
<1>4. ASSUME NEW n
      PROVE  /\ IsFiniteSet(Upto(n)) /\ Cardinality(Upto(n)) \in Nat
             /\ Cardinality(Upto(n)) <= Cardinality(eligible)
  <2>1. Upto(n) \subseteq eligible
    BY DEF Upto
  <2>. QED BY <1>3, <2>1, FS_Subset, FS_CardinalityType
<1>. QED BY <1>1, <1>3, <1>4

LEMMA PlaceIsUpto == \A i : Place(i) = Cardinality(Upto(i))
BY DEF Place, Upto

LEMMA PlaceRange ==
    ASSUME pins \in Inputs, NEW i \in eligible
    PROVE  Place(i) \in 1..Cardinality(eligible)
<1>1. i \in Upto(i)
  BY UptoFinite DEF Upto
<1>2. Cardinality(Upto(i)) # 0
  BY <1>1, UptoFinite, FS_EmptySet
<1>. QED BY <1>2, UptoFinite, PlaceIsUpto

LEMMA PlaceGrows ==
    ASSUME pins \in Inputs, NEW i \in eligible, NEW j \in eligible, i < j
    PROVE  Place(i) < Place(j)
<1>1. i \in Nat /\ j \in Nat /\ \A k \in eligible : k \in Nat
  BY UptoFinite
<1>2. Upto(i) \subseteq Upto(j)
  <2>1. \A k \in eligible : k <= i => k <= j
    BY <1>1
  <2>. QED BY <2>1 DEF Upto
<1>3. j \in Upto(j) /\ j \notin Upto(i)
  <2>1. j <= j /\ ~(j <= i)
    BY <1>1
  <2>. QED BY <2>1 DEF Upto
<1>4. Cardinality(Upto(i)) <= Cardinality(Upto(j))
      /\ (Cardinality(Upto(i)) = Cardinality(Upto(j)) => Upto(i) = Upto(j))
  BY <1>2, UptoFinite, FS_Subset
<1>. QED BY <1>3, <1>4, UptoFinite, PlaceIsUpto

\* Every query has a result: the least number of results up to which one had
\* none would be one more than a number up to which all had.
LEMMA PlaceReached ==
    ASSUME pins \in Inputs, NEW q \in 1..Cardinality(eligible)
    PROVE  \E i \in eligible : Place(i) = q
<1>. DEFINE Reached(n) == \A k \in 1..Cardinality(Upto(n)) : \E i \in eligible : Place(i) = k
            T == {n \in Nat : ~Reached(n)}
<1>1. T = {}
  <2>1. SUFFICES ASSUME T # {} PROVE FALSE
    OBVIOUS
  <2>2. PICK n \in T : \A m \in T : ~(<<m, n>> \in OpToRel(<, Nat))
    <3>1. T \subseteq Nat
      OBVIOUS
    <3>. HIDE DEF T
    <3>. QED BY <2>1, <3>1, WFMin, NatLessThanWellFounded
  <2>3. n \in Nat /\ ~Reached(n)
    OBVIOUS
  <2>4. n # 0
    <3>1. Upto(0) = {}
      BY UptoFinite DEF Upto
    <3>2. Reached(0)
      BY <3>1, FS_EmptySet
    <3>. QED BY <2>3, <3>2
  <2>5. Reached(n - 1)
    <3>1. n - 1 \in Nat /\ n - 1 < n
      BY <2>3, <2>4
    <3>2. <<n - 1, n>> \in OpToRel(<, Nat)
      BY <2>3, <3>1 DEF OpToRel
    <3>. QED BY <2>2, <3>1, <3>2
  <2>6. CASE n \notin eligible
    <3>1. Upto(n) = Upto(n - 1)
      BY <2>3, <2>4, <2>6, UptoFinite DEF Upto
    <3>. QED BY <2>3, <2>5, <3>1
  <2>7. CASE n \in eligible
    <3>1. Upto(n) = Upto(n - 1) \cup {n} /\ n \notin Upto(n - 1)
      <4>1. \A k \in eligible : k <= n <=> k <= n - 1 \/ k = n
        BY <2>3, <2>4, UptoFinite
      <4>2. n <= n /\ ~(n <= n - 1)
        BY <2>3
      <4>. QED BY <2>7, <4>1, <4>2 DEF Upto
    <3>2. Cardinality(Upto(n)) = Cardinality(Upto(n - 1)) + 1
      BY <3>1, UptoFinite, FS_AddElement
    <3>3. \A k \in 1..Cardinality(Upto(n)) :
            k \in 1..Cardinality(Upto(n - 1)) \/ k = Cardinality(Upto(n))
      BY <3>2, UptoFinite
    <3>4. Place(n) = Cardinality(Upto(n))
      BY PlaceIsUpto
    <3>. QED BY <2>3, <2>5, <2>7, <3>3, <3>4
  <2>. QED BY <2>6, <2>7
<1>2. Len(pins) \in Nat /\ Upto(Len(pins)) = eligible
  BY UptoFinite, PinsType DEF Upto
<1>3. Reached(Len(pins))
  BY <1>1, <1>2
<1>. QED BY <1>2, <1>3

\* A query's index is its result's place, both ways.
LEMMA IndexOfPlace ==
    ASSUME pins \in Inputs
    PROVE  /\ DOMAIN Indexes = 1..Cardinality(eligible)
           /\ \A q \in DOMAIN Indexes : Indexes[q] \in eligible /\ Place(Indexes[q]) = q
           /\ \A i \in eligible : Place(i) \in DOMAIN Indexes /\ Indexes[Place(i)] = i
<1>1. DOMAIN Indexes = 1..Cardinality(eligible)
  BY DEF Indexes
<1>2. \A q \in DOMAIN Indexes : Indexes[q] \in eligible /\ Place(Indexes[q]) = q
  BY <1>1, PlaceReached DEF Indexes
<1>3. ASSUME NEW i \in eligible
      PROVE  Place(i) \in DOMAIN Indexes /\ Indexes[Place(i)] = i
  <2>1. Place(i) \in DOMAIN Indexes
    BY <1>1, PlaceRange
  <2>. DEFINE j == Indexes[Place(i)]
  <2>2. j \in eligible /\ Place(j) = Place(i)
    BY <1>2, <2>1
  <2>. HIDE DEF j
  <2>3. i \in Nat /\ j \in Nat /\ Place(i) \in Nat
    BY <2>2, UptoFinite, PlaceIsUpto
  <2>4. ~(i < j) /\ ~(j < i)
    BY <2>2, <2>3, PlaceGrows
  <2>5. i = j
    BY <2>3, <2>4
  <2>. QED BY <2>1, <2>5 DEF j
<1>. QED BY <1>1, <1>2, <1>3

----------------------------------------------------------------------------
(* Fixes.                                                                   *)

\* What MinimumFix returns: Blank if no fix is above the version, and the
\* least of those that are otherwise.
LEMMA MinimumFixIs ==
    ASSUME NEW fixes \in SUBSET Versions, NEW v \in Nat
    PROVE  \/ /\ MinimumFix(fixes, v) = Blank
              /\ \A f \in fixes : ~(f > v)
           \/ /\ MinimumFix(fixes, v) \in fixes
              /\ MinimumFix(fixes, v) # Blank
              /\ MinimumFix(fixes, v) > v
              /\ \A f \in fixes : f > v => MinimumFix(fixes, v) <= f
<1>. DEFINE above == {f \in fixes : f > v}
<1>1. above \subseteq Nat /\ fixes \subseteq Nat \ {0}
  BY AdvisoriesAssumption
<1>2. CASE above = {}
  BY <1>2 DEF MinimumFix
<1>3. CASE above # {}
  <2>1. PICK x \in above : \A y \in above : ~(<<y, x>> \in OpToRel(<, Nat))
    <3>. HIDE DEF above
    <3>. QED BY <1>1, <1>3, WFMin, NatLessThanWellFounded
  <2>2. \A y \in above : x <= y
    <3>. HIDE DEF above
    <3>1. ASSUME NEW y \in above, y < x
          PROVE  <<y, x>> \in OpToRel(<, Nat)
      BY <1>1, <3>1 DEF OpToRel
    <3>2. \A y \in above : ~(y < x)
      BY <2>1, <3>1
    <3>. QED BY <1>1, <3>2
  <2>3. Min(above) \in above /\ \A y \in above : Min(above) <= y
    <3>. HIDE DEF above
    <3>. QED BY <2>2 DEF Min
  <2>4. MinimumFix(fixes, v) = Min(above)
    BY <1>3 DEF MinimumFix
  <2>. QED BY <1>1, <2>3, <2>4 DEF Blank
<1>. QED BY <1>2, <1>3

LEMMA BlankIsNoVersion ==
    /\ Blank \notin Versions /\ Blank \in Nat
    /\ \A v \in Versions : v \in Nat \ {0}
BY AdvisoriesAssumption DEF Blank

\* The types of a record's ranges and of their events.
LEMMA RecordType ==
    ASSUME NEW id \in Ids, NEW r \in ToSet(Record[id])
    PROVE  /\ r \in AffectedRange
           /\ r.events \in Seq(Event) /\ Len(r.events) \in Nat
           /\ DOMAIN r.events = 1..Len(r.events)
           /\ \A j \in DOMAIN r.events : r.events[j] \in Event
<1>1. r \in AffectedRange
  BY AdvisoriesAssumption DEF ToSet
<1>2. r.events \in Seq(Event)
  BY <1>1 DEF AffectedRange
<1>. QED BY <1>1, <1>2

LEMMA EventType ==
    ASSUME NEW x \in Event
    PROVE  /\ x.introduced # None => x.introduced \in Nat
           /\ x.fixed # None => x.fixed \in Versions /\ x.fixed \in Nat \ {0}
<1>1. x.introduced \in Versions \cup {0, None} /\ x.fixed \in Versions \cup {None}
  BY DEF Event
<1>. QED BY <1>1, BlankIsNoVersion

LEMMA FixesType ==
    ASSUME NEW id \in Ids, NEW ecosystem
    PROVE  Fixes(id, ecosystem) \subseteq Versions
<1>1. ASSUME NEW r \in Kept(id, ecosystem), NEW e \in ToSet(r.events), e.fixed # None
      PROVE  e.fixed \in Versions
  <2>1. r \in ToSet(Record[id])
    BY DEF Kept
  <2>2. e \in Event
    BY <2>1, RecordType DEF ToSet
  <2>. QED BY <1>1, <2>2 DEF Event
<1>. QED BY <1>1 DEF Fixes

----------------------------------------------------------------------------
(* The intervals toAdvisory makes of a range, against OSV's own reading.    *)

At(e, j) == IF e[j].introduced # None THEN e[j].introduced ELSE e[j].fixed

\* What EventsAssumption says of one list of events.
Alternates(e) ==
    \A j \in DOMAIN e :
      /\ e[j].introduced # None <=> e[j].fixed = None
      /\ j = 1 => e[j].introduced # None
      /\ j > 1 => (e[j].introduced # None <=> e[j - 1].fixed # None)
      /\ \A i \in 1..(j - 1) : At(e, i) < At(e, j)

LEMMA EventsAlternate ==
    ASSUME NEW id \in Ids, NEW r \in ToSet(Record[id])
    PROVE  Alternates(r.events)
<1>1. PICK k \in DOMAIN Record[id] : r = Record[id][k]
  BY DEF ToSet
<1>. QED BY <1>1, EventsAssumption DEF Alternates, At

\* An introduction is closed by the event after it, if there is one.
LEMMA ClosedByNext ==
    ASSUME NEW e \in Seq(Event), Alternates(e),
           NEW j \in DOMAIN e, e[j].introduced # None
    PROVE  /\ j < Len(e) => Closing(e, j) = {j + 1} /\ e[j + 1].fixed # None
           /\ j = Len(e) => Closing(e, j) = {}
<1>1. Len(e) \in Nat /\ DOMAIN e = 1..Len(e) /\ j \in Nat /\ j >= 1
  OBVIOUS
<1>2. e[j].fixed = None
  BY DEF Alternates
<1>3. ASSUME NEW k \in Closing(e, j)
      PROVE  k = j + 1 /\ k \in DOMAIN e
  <2>1. /\ k \in j..Len(e) /\ e[k].fixed # None
        /\ \A l \in (j + 1)..k : e[l].introduced = None
    BY DEF Closing
  <2>2. k # j
    BY <1>2, <2>1
  <2>3. k \in DOMAIN e /\ k \in Nat /\ k > j
    BY <1>1, <2>1, <2>2
  <2>4. k = j + 1 \/ j + 2 <= k
    BY <1>1, <2>3
  <2>5. CASE j + 2 <= k
    <3>1. /\ j + 1 \in DOMAIN e /\ j + 2 \in DOMAIN e /\ (j + 1) - 1 = j /\ (j + 2) - 1 = j + 1
          /\ j + 1 > 1 /\ j + 2 > 1 /\ j + 2 \in (j + 1)..k
      BY <1>1, <2>1, <2>5
    <3>2. e[j + 1].introduced = None
      BY <1>2, <3>1 DEF Alternates
    <3>3. e[j + 1].fixed # None
      BY <3>1, <3>2 DEF Alternates
    <3>4. e[j + 2].introduced # None
      BY <3>1, <3>3 DEF Alternates
    <3>. QED BY <2>1, <3>1, <3>4
  <2>. QED BY <2>3, <2>4, <2>5
<1>4. CASE j < Len(e)
  <2>1. /\ j + 1 \in DOMAIN e /\ (j + 1) - 1 = j /\ j + 1 > 1 /\ j + 1 \in j..Len(e)
        /\ \A l \in (j + 1)..(j + 1) : l = j + 1
    BY <1>1, <1>4
  <2>2. e[j + 1].introduced = None
    BY <1>2, <2>1 DEF Alternates
  <2>3. e[j + 1].fixed # None
    BY <2>1, <2>2 DEF Alternates
  <2>4. j + 1 \in Closing(e, j)
    BY <2>1, <2>2, <2>3 DEF Closing
  <2>5. j # Len(e)
    BY <1>1, <1>4
  <2>. QED BY <1>3, <2>3, <2>4, <2>5
<1>5. CASE j = Len(e)
  <2>1. j + 1 \notin DOMAIN e /\ ~(j < Len(e))
    BY <1>1, <1>5
  <2>. QED BY <1>3, <2>1
<1>. QED BY <1>1, <1>4, <1>5

\* An introduction and the interval it opens.
Interval(e, j) ==
    [introduced |-> e[j].introduced,
     fixed |-> IF Closing(e, j) = {} THEN Blank ELSE e[Min(Closing(e, j))].fixed]

LEMMA IntervalIs ==
    ASSUME NEW e \in Seq(Event), Alternates(e),
           NEW j \in DOMAIN e, e[j].introduced # None
    PROVE  /\ Interval(e, j).introduced = e[j].introduced
           /\ j = Len(e) => Interval(e, j).fixed = Blank
           /\ j < Len(e) => /\ Interval(e, j).fixed = e[j + 1].fixed
                            /\ Interval(e, j).fixed \in Versions
<1>1. CASE j = Len(e)
  BY <1>1, ClosedByNext DEF Interval
<1>2. CASE j < Len(e)
  <2>1. Closing(e, j) = {j + 1} /\ e[j + 1].fixed # None
    BY <1>2, ClosedByNext
  <2>2. Min({j + 1}) = j + 1
    BY DEF Min
  <2>3. j + 1 \in DOMAIN e /\ e[j + 1] \in Event
    BY <1>2
  <2>4. e[j + 1].fixed \in Versions
    BY <2>1, <2>3 DEF Event
  <2>. QED BY <1>2, <2>1, <2>2, <2>4 DEF Interval
<1>. QED BY <1>1, <1>2 DEF Interval

\* A version is in an interval an introduction opens exactly if OSV counts it
\* affected since that introduction.
LEMMA IntervalReads ==
    ASSUME NEW e \in Seq(Event), Alternates(e),
           NEW j \in DOMAIN e, e[j].introduced # None, NEW v \in Nat
    PROVE  (/\ v >= Interval(e, j).introduced
            /\ Interval(e, j).fixed = Blank \/ v < Interval(e, j).fixed)
           <=>
           (/\ e[j].introduced <= v
            /\ \A k \in DOMAIN e : e[k].fixed # None =>
                 ~(e[j].introduced < e[k].fixed /\ e[k].fixed <= v))
<1>1. Len(e) \in Nat /\ DOMAIN e = 1..Len(e) /\ j \in Nat /\ j >= 1
  OBVIOUS
<1>2. /\ e[j].introduced \in Nat
      /\ \A k \in DOMAIN e : e[k].fixed # None => e[k].fixed \in Nat \ {0}
  <2>1. \A k \in DOMAIN e : e[k] \in Event
    OBVIOUS
  <2>. QED BY <2>1, EventType
<1>3. ASSUME NEW k \in DOMAIN e, e[k].fixed # None
      PROVE  /\ At(e, k) = e[k].fixed
             /\ k < j => e[k].fixed < e[j].introduced
             /\ k > j => j + 1 \in DOMAIN e /\ j < Len(e)
             /\ k > j => e[j + 1].fixed <= e[k].fixed
             /\ k # j
  <2>1. e[k].introduced = None
    BY <1>3 DEF Alternates
  <2>2. At(e, k) = e[k].fixed /\ At(e, j) = e[j].introduced
    BY <2>1 DEF At
  <2>3. k < j => e[k].fixed < e[j].introduced
    BY <1>1, <2>2 DEF Alternates
  <2>4. ASSUME k > j
        PROVE  j + 1 \in DOMAIN e /\ j < Len(e) /\ e[j + 1].fixed <= e[k].fixed
    <3>1. j + 1 \in DOMAIN e /\ j < Len(e) /\ (k = j + 1 \/ j + 1 \in 1..(k - 1))
      BY <1>1, <2>4
    <3>2. e[j + 1].fixed # None
      BY <3>1, ClosedByNext
    <3>3. At(e, j + 1) = e[j + 1].fixed
      BY <3>1, <3>2 DEF At, Alternates
    <3>4. k # j + 1 => At(e, j + 1) < At(e, k)
      BY <3>1 DEF Alternates
    <3>5. e[j + 1].fixed \in Nat /\ e[k].fixed \in Nat
      BY <1>2, <1>3, <3>1, <3>2
    <3>. QED BY <2>2, <3>1, <3>3, <3>4, <3>5
  <2>. QED BY <2>1, <2>2, <2>3, <2>4
<1>4. CASE j = Len(e)
  <2>1. Interval(e, j).introduced = e[j].introduced /\ Interval(e, j).fixed = Blank
    BY <1>4, IntervalIs
  <2>2. \A k \in DOMAIN e : e[k].fixed # None => ~(e[j].introduced < e[k].fixed)
    <3>. SUFFICES ASSUME NEW k \in DOMAIN e, e[k].fixed # None
                  PROVE  ~(e[j].introduced < e[k].fixed)
      OBVIOUS
    <3>1. k < j
      BY <1>1, <1>3, <1>4
    <3>. QED BY <1>2, <1>3, <3>1
  <2>. QED BY <1>2, <2>1, <2>2
<1>5. CASE j < Len(e)
  <2>1. /\ Interval(e, j).introduced = e[j].introduced
        /\ Interval(e, j).fixed = e[j + 1].fixed /\ Interval(e, j).fixed \in Versions
    BY <1>5, IntervalIs
  <2>2. j + 1 \in DOMAIN e /\ e[j + 1].fixed # None
    BY <1>1, <1>5, ClosedByNext
  <2>3. Interval(e, j).fixed # Blank /\ e[j + 1].fixed \in Nat
    BY <1>2, <2>1, <2>2, BlankIsNoVersion
  <2>4. e[j].introduced < e[j + 1].fixed
    <3>1. At(e, j) = e[j].introduced /\ j \in 1..((j + 1) - 1)
      BY <1>1 DEF At
    <3>2. At(e, j) < At(e, j + 1)
      BY <2>2, <3>1 DEF Alternates
    <3>. QED BY <1>3, <2>2, <3>1, <3>2
  <2>5. ASSUME v < e[j + 1].fixed, NEW k \in DOMAIN e, e[k].fixed # None
        PROVE  ~(e[j].introduced < e[k].fixed /\ e[k].fixed <= v)
    <3>1. CASE k < j
      BY <1>2, <1>3, <2>5, <3>1
    <3>2. CASE k > j
      BY <1>2, <1>3, <2>3, <2>5, <3>2
    <3>3. k # j /\ k \in Nat
      BY <1>1, <1>3, <2>5
    <3>. QED BY <1>1, <3>1, <3>2, <3>3
  <2>6. ~(v < e[j + 1].fixed) => e[j + 1].fixed <= v
    BY <2>3
  <2>. QED BY <1>2, <2>1, <2>2, <2>3, <2>4, <2>5, <2>6
<1>. QED BY <1>1, <1>4, <1>5

\* One range of a record, as OSV reads it.
Since(r, v) ==
    \E x \in ToSet(r.events) :
      /\ x.introduced # None /\ x.introduced <= v
      /\ \A g \in ToSet(r.events) :
           g.fixed # None => ~(x.introduced < g.fixed /\ g.fixed <= v)

LEMMA RangeReads ==
    ASSUME NEW id \in Ids, NEW r \in ToSet(Record[id]), NEW v \in Nat
    PROVE  Since(r, v) <=>
           \E i \in Opened(r.events) : v >= i.introduced /\ (i.fixed = Blank \/ v < i.fixed)
<1>. DEFINE e == r.events
            Since1(j) == /\ e[j].introduced <= v
                         /\ \A k \in DOMAIN e : e[k].fixed # None =>
                              ~(e[j].introduced < e[k].fixed /\ e[k].fixed <= v)
            In(i) == v >= i.introduced /\ (i.fixed = Blank \/ v < i.fixed)
            opens == {k \in DOMAIN e : e[k].introduced # None}
<1>1. e \in Seq(Event) /\ Alternates(e)
  BY RecordType, EventsAlternate
<1>2. Opened(e) = {Interval(e, j) : j \in opens}
  BY DEF Opened, Interval
<1>3. Since(r, v) <=> \E j \in opens : Since1(j)
  BY DEF Since, ToSet
<1>. HIDE DEF e
<1>4. \A j \in opens : Since1(j) <=> In(Interval(e, j))
  BY <1>1, IntervalReads
<1>. HIDE DEF Since1, In, opens
<1>5. (\E i \in Opened(e) : In(i)) <=> \E j \in opens : In(Interval(e, j))
  BY <1>2
<1>6. (\E i \in Opened(e) : In(i)) <=> Since(r, v)
  BY <1>3, <1>4, <1>5
<1>. QED BY <1>6 DEF In, e

\* A version this code counts affected, OSV counts affected for the package of
\* one of the advisory's ranges,
LEMMA AffectsIsAffected ==
    ASSUME NEW id \in Ids, NEW ecosystem, NEW v \in Nat, affects(id, ecosystem, v)
    PROVE  \E q \in Packages : Affected(id, q, ecosystem, v)
<1>1. PICK r \in Kept(id, ecosystem) :
        \E i \in Opened(r.events) : v >= i.introduced /\ (i.fixed = Blank \/ v < i.fixed)
  BY DEF affects, Intervals
<1>2. r \in ToSet(Record[id]) /\ r.ecosystem = ecosystem /\ ~r.git
  BY DEF Kept
<1>3. Since(r, v)
  BY <1>1, <1>2, RangeReads
<1>4. r.package \in Packages
  BY <1>2, RecordType DEF AffectedRange
<1>. QED BY <1>2, <1>3, <1>4 DEF Affected, Since

\* and the other way round.
LEMMA AffectedIsAffects ==
    ASSUME NEW id \in Ids, NEW package, NEW ecosystem, NEW v \in Nat,
           Affected(id, package, ecosystem, v)
    PROVE  affects(id, ecosystem, v)
<1>1. PICK r \in ToSet(Record[id]) :
        r.package = package /\ r.ecosystem = ecosystem /\ ~r.git /\ Since(r, v)
  BY DEF Affected, Since
<1>2. r \in Kept(id, ecosystem)
  BY <1>1 DEF Kept
<1>3. \E i \in Opened(r.events) : v >= i.introduced /\ (i.fixed = Blank \/ v < i.fixed)
  BY <1>1, RangeReads
<1>. QED BY <1>2, <1>3 DEF affects, Intervals

----------------------------------------------------------------------------
(* What one pin is told of some advisories.                                 *)

LEMMA PinType ==
    ASSUME NEW p \in Pin
    PROVE  /\ p.version \in Versions /\ p.version \in Nat /\ Current(p) \in Nat
           /\ p.kind # ActionKind => Current(p) = p.version
BY BlankIsNoVersion DEF Pin, Current

\* The fix of one advisory for a pin.
FixOf(p, id) == MinimumFix(Fixes(id, ecosystemFor(p)), Current(p))

AllFixes(p, A) == UNION {Fixes(id, ecosystemFor(p)) : id \in A}

LEMMA Told ==
    ASSUME NEW p, NEW A
    PROVE  /\ buildOSVResult(p, A).findings = {[id |-> id, fixed |-> FixOf(p, id)] : id \in A}
           /\ buildOSVResult(p, A).patched = MinimumFix(AllFixes(p, A), Current(p))
           /\ buildOSVResult(p, A).held =
                HeldVulnerable(p, MinimumFix(AllFixes(p, A), Current(p)))
BY DEF buildOSVResult, FixOf, AllFixes

LEMMA ToldType ==
    ASSUME NEW p \in Pin, NEW A \in SUBSET Ids, A # {}
    PROVE  /\ buildOSVResult(p, A).findings \subseteq Finding
           /\ Vulnerable(buildOSVResult(p, A))
           /\ \A x \in buildOSVResult(p, A).findings : x.id \in A /\ x.fixed = FixOf(p, x.id)
           /\ \A id \in A : \E x \in buildOSVResult(p, A).findings : x.id = id
           /\ buildOSVResult(p, A).patched \in Versions \cup {Blank}
<1>1. \A id \in Ids : FixOf(p, id) \in Versions \cup {Blank}
  <2>. SUFFICES ASSUME NEW id \in Ids PROVE FixOf(p, id) \in Versions \cup {Blank}
    OBVIOUS
  <2>. DEFINE F == Fixes(id, ecosystemFor(p))
  <2>1. F \in SUBSET Versions /\ Current(p) \in Nat
    BY FixesType, PinType
  <2>. HIDE DEF F
  <2>2. MinimumFix(F, Current(p)) \in F \cup {Blank}
    BY <2>1, MinimumFixIs
  <2>. QED BY <2>1, <2>2 DEF FixOf, F
<1>2. MinimumFix(AllFixes(p, A), Current(p)) \in Versions \cup {Blank}
  <2>1. AllFixes(p, A) \in SUBSET Versions /\ Current(p) \in Nat
    BY FixesType, PinType DEF AllFixes
  <2>2. MinimumFix(AllFixes(p, A), Current(p)) \in AllFixes(p, A) \cup {Blank}
    BY <2>1, MinimumFixIs
  <2>. QED BY <2>1, <2>2
<1>. DEFINE findings == buildOSVResult(p, A).findings
<1>3. /\ findings = {[id |-> id, fixed |-> FixOf(p, id)] : id \in A}
      /\ buildOSVResult(p, A).patched = MinimumFix(AllFixes(p, A), Current(p))
  BY Told
<1>. HIDE DEF findings
<1>4. findings \subseteq Finding
  BY <1>1, <1>3 DEF Finding
<1>5. findings # {}
  BY <1>3
<1>6. ASSUME NEW x \in findings
      PROVE  x.id \in A /\ x.fixed = FixOf(p, x.id)
  <2>1. PICK id \in A : x = [id |-> id, fixed |-> FixOf(p, id)]
    BY <1>3
  <2>. QED BY <2>1
<1>7. ASSUME NEW id \in A
      PROVE  \E x \in findings : x.id = id
  <2>1. [id |-> id, fixed |-> FixOf(p, id)] \in findings
    BY <1>3
  <2>. QED BY <2>1
<1>. QED BY <1>2, <1>3, <1>4, <1>5, <1>6, <1>7 DEF findings, Vulnerable

LEMMA UnheldTold ==
    ASSUME NEW p, NEW A, buildOSVResult(p, A).held
    PROVE  p.ceiling # NoCeiling
<1>. DEFINE m == MinimumFix(AllFixes(p, A), Current(p))
<1>1. buildOSVResult(p, A).held = HeldVulnerable(p, m)
  BY Told
<1>2. HeldVulnerable(p, m)
  BY <1>1
<1>. QED BY <1>2 DEF HeldVulnerable

\* The fix of all advisories together is the least of each one's own.
LEMMA PatchedIs ==
    ASSUME NEW p \in Pin, NEW A \in SUBSET Ids
    PROVE  LET m == MinimumFix(AllFixes(p, A), Current(p))
           IN  /\ m # Blank => \E id \in A : FixOf(p, id) = m
               /\ \A id \in A : FixOf(p, id) # Blank => m # Blank /\ m <= FixOf(p, id)
<1>. DEFINE m == MinimumFix(AllFixes(p, A), Current(p))
<1>1. AllFixes(p, A) \in SUBSET Versions /\ Current(p) \in Nat
  BY FixesType, PinType DEF AllFixes
<1>2. \A i \in A : Fixes(i, ecosystemFor(p)) \in SUBSET Versions
                   /\ Fixes(i, ecosystemFor(p)) \subseteq AllFixes(p, A)
  BY FixesType DEF AllFixes
<1>3. ASSUME NEW id \in A, FixOf(p, id) # Blank PROVE m # Blank /\ m <= FixOf(p, id)
  <2>1. FixOf(p, id) \in Fixes(id, ecosystemFor(p)) /\ FixOf(p, id) > Current(p)
    BY <1>1, <1>2, <1>3, MinimumFixIs DEF FixOf
  <2>2. FixOf(p, id) \in AllFixes(p, A)
    BY <1>2, <2>1
  <2>. QED BY <1>1, <2>1, <2>2, MinimumFixIs
<1>4. ASSUME m # Blank PROVE \E id \in A : FixOf(p, id) = m
  <2>1. m \in AllFixes(p, A) /\ m > Current(p)
        /\ \A f \in AllFixes(p, A) : f > Current(p) => m <= f
    BY <1>1, <1>4, MinimumFixIs
  <2>2. PICK i \in A : m \in Fixes(i, ecosystemFor(p))
    BY <2>1 DEF AllFixes
  <2>. DEFINE F == Fixes(i, ecosystemFor(p))
  <2>. HIDE DEF m
  <2>3. F \in SUBSET Versions /\ m \in F /\ m > Current(p)
    BY <1>2, <2>1, <2>2
  <2>4. \A f \in F : f > Current(p) => m <= f
    BY <1>2, <2>1
  <2>. HIDE DEF F
  <2>5. MinimumFix(F, Current(p)) \in F /\ MinimumFix(F, Current(p)) > Current(p)
        /\ MinimumFix(F, Current(p)) <= m
    BY <1>1, <2>3, MinimumFixIs
  <2>6. MinimumFix(F, Current(p)) \in Nat /\ m \in Nat
    BY <2>3, <2>5, BlankIsNoVersion
  <2>7. MinimumFix(F, Current(p)) = m
    BY <2>4, <2>5, <2>6
  <2>. QED BY <2>7 DEF FixOf, F
<1>. QED BY <1>3, <1>4

\* HeldVulnerable, for a pin some of whose advisories have a fix above it.
LEMMA ToldHeld ==
    ASSUME NEW p \in Pin, NEW A \in SUBSET Ids,
           NEW id \in A, FixOf(p, id) # Blank, p.ceiling # NoCeiling,
           \A i \in A : FixOf(p, i) # Blank => ~Matches(p, FixOf(p, i))
    PROVE  buildOSVResult(p, A).held
<1>. DEFINE m == MinimumFix(AllFixes(p, A), Current(p))
<1>1. m # Blank
  BY PatchedIs
<1>2. PICK i \in A : FixOf(p, i) = m
  BY <1>1, PatchedIs
<1>. HIDE DEF m
<1>3. HeldVulnerable(p, m)
  BY <1>1, <1>2 DEF HeldVulnerable
<1>. QED BY <1>3, Told DEF m

\* The fix of an advisory with one range of the pin's package, if the pin is
\* affected, is the least version above it that is not.
LEMMA FixIsLeast ==
    ASSUME NEW p \in Pin, NEW id \in Ids, Plain(id, p), NEW q \in Packages,
           Affected(id, q, ecosystemFor(p), p.version)
    PROVE  LET clear(v) == ~Affected(id, p.package, ecosystemFor(p), v)
           IN  /\ ~clear(p.version)
               /\ FixOf(p, id) # Blank => clear(FixOf(p, id))
               /\ \A v \in Versions :
                    v > p.version /\ (FixOf(p, id) = Blank \/ v < FixOf(p, id)) => ~clear(v)
<1>. DEFINE eco == ecosystemFor(p)
            c == p.version
            m == FixOf(p, id)
            F == Fixes(id, eco)
<1>1. PICK r \in ToSet(Record[id]) : r.package = q /\ r.ecosystem = eco /\ ~r.git /\ Since(r, c)
  BY DEF Affected, Since
<1>2. r.package = p.package
  BY DEF Plain
<1>3. \A s \in ToSet(Record[id]) : ~s.git => s = r
  <2>1. PICK x \in ToSet(Record[id]) : {s \in ToSet(Record[id]) : ~s.git} = {x}
    BY DEF Plain
  <2>2. r \in {x}
    BY <1>1, <2>1
  <2>. QED BY <2>1, <2>2
<1>4. \A v : Affected(id, p.package, eco, v) <=> Since(r, v)
  BY <1>1, <1>2, <1>3 DEF Affected, Since
<1>5. /\ r.events \in Seq(Event) /\ Alternates(r.events)
      /\ \A x \in ToSet(r.events) : x \in Event
  BY RecordType, EventsAlternate DEF ToSet
<1>6. F = {g.fixed : g \in ToSet(r.events)} \ {None}
  <2>1. Kept(id, eco) = {r}
    BY <1>1, <1>3 DEF Kept
  <2>. QED BY <2>1 DEF Fixes
<1>7. /\ F \in SUBSET Versions /\ c \in Nat /\ m = MinimumFix(F, c)
  BY FixesType, PinType DEF Plain, FixOf
<1>8. \A x \in ToSet(r.events) : /\ x.introduced # None => x.introduced \in Nat
                                 /\ x.fixed # None => x.fixed \in F /\ x.fixed \in Nat
  BY <1>5, <1>6, EventType
<1>. HIDE DEF eco, c, m, F
<1>9. ASSUME m # Blank
      PROVE  ~Since(r, m)
  <2>1. m \in F /\ m \in Nat
    BY <1>7, <1>9, MinimumFixIs, BlankIsNoVersion
  <2>2. PICK g \in ToSet(r.events) : g.fixed = m /\ g.fixed # None
    BY <1>6, <2>1
  <2>3. ASSUME NEW x \in ToSet(r.events), x.introduced # None, x.introduced <= m
        PROVE  x.introduced < m
    <3>1. PICK j \in DOMAIN r.events : x = r.events[j]
      BY DEF ToSet
    <3>2. PICK k \in DOMAIN r.events : g = r.events[k]
      BY DEF ToSet
    <3>3. At(r.events, j) = x.introduced /\ At(r.events, k) = m /\ j # k
      BY <1>5, <2>2, <2>3, <3>1, <3>2 DEF At, Alternates
    <3>4. j \in Nat /\ k \in Nat /\ j >= 1 /\ k >= 1
      BY <1>5
    <3>5. k \in 1..(j - 1) \/ j \in 1..(k - 1)
      BY <3>3, <3>4
    <3>6. m < x.introduced \/ x.introduced < m
      BY <1>5, <3>3, <3>5 DEF Alternates
    <3>. QED BY <1>8, <2>1, <2>3, <3>6
  <2>4. m <= m
    BY <2>1
  <2>. QED BY <2>2, <2>3, <2>4 DEF Since
<1>10. ASSUME NEW v \in Versions, v > c, m = Blank \/ v < m
       PROVE  Since(r, v)
  <2>1. PICK x \in ToSet(r.events) :
          /\ x.introduced # None /\ x.introduced <= c
          /\ \A g \in ToSet(r.events) :
               g.fixed # None => ~(x.introduced < g.fixed /\ g.fixed <= c)
    BY <1>1 DEF Since
  <2>2. v \in Nat /\ x.introduced \in Nat
    BY <1>8, <2>1, BlankIsNoVersion
  <2>3. ASSUME NEW g \in ToSet(r.events), g.fixed # None, x.introduced < g.fixed, g.fixed <= v
        PROVE  FALSE
    <3>1. g.fixed \in F /\ g.fixed \in Nat /\ g.fixed > c
      BY <1>7, <1>8, <2>1, <2>3
    <3>2. m \in F /\ m # Blank /\ m <= g.fixed
      BY <1>7, <3>1, MinimumFixIs
    <3>3. m \in Nat
      BY <1>7, <3>2, BlankIsNoVersion
    <3>. QED BY <1>10, <2>2, <2>3, <3>1, <3>2, <3>3
  <2>4. x.introduced <= v
    BY <1>7, <1>10, <2>1, <2>2
  <2>. QED BY <2>1, <2>3, <2>4 DEF Since
<1>. QED BY <1>1, <1>4, <1>9, <1>10 DEF eco, c, m

----------------------------------------------------------------------------
(* The invariant.                                                           *)

\* The advisories read against a result's pin, and what it is told of them.
About(i) ==
    {id \in Ids : /\ i \in eligible /\ Place(i) \in DOMAIN ids
                  /\ id \in ids[Place(i)] /\ Reads(pins[i], id)}

Answer(i) == IF About(i) = {} THEN NoResult ELSE buildOSVResult(pins[i], About(i))

\* What a scan leaves.
ScanResult == [findings : SUBSET [id : ScanFindings, fixed : Versions \cup {Blank}],
               patched : {Blank}, held : {FALSE}]

\* OSV's answer, once there is one, names advisories of each query's own pin,
\* and none drops out of sight.
IdsInv ==
    \/ ids = <<>> /\ phase \notin {"fetch", "build"}
    \/ /\ phase # "query"
       /\ ids \in [1..Cardinality(eligible) -> SUBSET Ids]
       /\ \A q \in DOMAIN ids : /\ ids[q] \subseteq Named(Queries[q])
                                /\ ids[q] \subseteq pending \cup records \cup lost

FetchInv ==
    /\ pending \cup records \cup lost \subseteq Ids
    /\ phase # "fetch" => pending = {}

\* A result has what the advisories of its own query say, from Build on, or
\* what its own scan said.
ResultInv ==
    /\ DOMAIN out = DOMAIN pins
    /\ \A i \in eligible : out[i] = IF phase \in {"scan", "done"} THEN Answer(i) ELSE NoResult
    /\ \A i \in DOMAIN pins \ eligible :
         \/ out[i] = NoResult
         \/ i <= scanned /\ pins[i].kind \in ImageKinds /\ out[i] \in ScanResult
    /\ scanned \in 0..Len(pins)
    /\ phase \in {"query", "fetch", "build"} => scanned = 0

CheckInv ==
    /\ pins \in Inputs
    /\ phase \in Phases
    /\ IdsInv
    /\ FetchInv
    /\ ResultInv

LEMMA SameQueries ==
    ASSUME pins' = pins
    PROVE  /\ eligible' = eligible
           /\ \A i : Place(i)' = Place(i)
           /\ Indexes' = Indexes /\ Queries' = Queries
<1>1. eligible' = eligible
  BY DEF eligible
<1>2. \A i : Place(i)' = Place(i)
  BY <1>1 DEF Place
<1>3. Indexes' = Indexes
  BY <1>1, <1>2 DEF Indexes
<1>. QED BY <1>1, <1>2, <1>3 DEF Queries

LEMMA SameAnswers ==
    ASSUME pins' = pins, ids' = ids, records' = records
    PROVE  \A i : Answer(i)' = Answer(i)
<1>1. \A i : About(i)' = About(i)
  BY SameQueries DEF About, Reads
<1>. QED BY <1>1 DEF Answer

\* The queries are the eligible results' pins, in their places.
LEMMA QueryOf ==
    ASSUME pins \in Inputs
    PROVE  /\ DOMAIN Queries = 1..Cardinality(eligible) /\ Cardinality(eligible) \in Nat
           /\ \A i \in eligible : Place(i) \in DOMAIN Queries /\ Queries[Place(i)] = pins[i]
BY IndexOfPlace, UptoFinite DEF Queries

LEMMA InitInv == Init => CheckInv
<1>. SUFFICES ASSUME Init PROVE CheckInv
  OBVIOUS
<1>1. pins \in Inputs /\ Len(pins) \in Nat /\ eligible \subseteq DOMAIN pins
  BY PinsType DEF Init, eligible
<1>. QED BY <1>1 DEF Init, CheckInv, Phases, IdsInv, FetchInv, ResultInv

LEMMA QueryKeeps == CheckInv /\ (SkipOSV \/ batchQuery) => CheckInv'
<1>1. ASSUME CheckInv, SkipOSV
      PROVE  CheckInv'
  <2>1. ids = <<>> /\ DOMAIN ids = {}
    BY <1>1 DEF CheckInv, IdsInv, SkipOSV
  <2>2. \A i \in eligible : Answer(i) = NoResult
    BY <2>1 DEF Answer, About
  <2>3. IdsInv' /\ FetchInv'
    BY <1>1, <2>1 DEF CheckInv, FetchInv, IdsInv, SkipOSV
  <2>4. ResultInv'
    BY <1>1, <2>2, SameQueries, SameAnswers DEF CheckInv, ResultInv, SkipOSV
  <2>. QED BY <1>1, <2>3, <2>4 DEF CheckInv, SkipOSV, Phases
<1>2. ASSUME CheckInv, batchQuery
      PROVE  CheckInv'
  <2>1. PICK n \in 0..Len(Queries) :
          ids' = [q \in DOMAIN Queries |-> IF q <= n THEN Named(Queries[q]) ELSE {}]
    BY <1>2 DEF batchQuery
  <2>2. DOMAIN Queries = 1..Cardinality(eligible) /\ pins' = pins
    BY <1>2, QueryOf DEF CheckInv, batchQuery
  <2>3. ids' \in [1..Cardinality(eligible) -> SUBSET Ids]
        /\ \A q \in DOMAIN ids' : ids'[q] \subseteq Named(Queries[q])
    BY <2>1, <2>2 DEF Named
  <2>4. pending' \subseteq Ids /\ \A q \in DOMAIN ids' : ids'[q] \subseteq pending'
    BY <1>2, <2>3 DEF batchQuery, ToSet
  <2>5. IdsInv'
    BY <1>2, <2>2, <2>3, <2>4, SameQueries DEF IdsInv, batchQuery
  <2>6. FetchInv'
    BY <1>2, <2>4 DEF CheckInv, FetchInv, batchQuery
  <2>7. ResultInv'
    BY <1>2, SameQueries DEF CheckInv, ResultInv, batchQuery
  <2>. QED BY <1>2, <2>5, <2>6, <2>7 DEF CheckInv, batchQuery, Phases
<1>. QED BY <1>1, <1>2

LEMMA FetchKeeps ==
    CheckInv /\ (Fetched \/ \E id \in Ids : fetchVuln(id) \/ FetchFails(id)) => CheckInv'
<1>. SUFFICES ASSUME CheckInv, Fetched \/ \E id \in Ids : fetchVuln(id) \/ FetchFails(id)
              PROVE  CheckInv'
  OBVIOUS
<1>1. /\ pins' = pins /\ ids' = ids /\ out' = out /\ scanned' = scanned
      /\ phase = "fetch" /\ phase' \in {"fetch", "build"}
      /\ pending' \cup records' \cup lost' = pending \cup records \cup lost
      /\ phase' = "build" => pending' = {}
  BY DEF CheckInv, Fetched, fetchVuln, FetchFails
<1>2. IdsInv'
  BY <1>1, SameQueries DEF CheckInv, IdsInv
<1>3. FetchInv'
  BY <1>1 DEF CheckInv, FetchInv
<1>4. ResultInv'
  BY <1>1, SameQueries DEF CheckInv, ResultInv
<1>. QED BY <1>1, <1>2, <1>3, <1>4 DEF CheckInv, Phases

LEMMA BuildKeeps == CheckInv /\ Build => CheckInv'
<1>. SUFFICES ASSUME CheckInv, Build
              PROVE  CheckInv'
  OBVIOUS
<1>1. /\ pins' = pins /\ ids' = ids /\ records' = records /\ scanned' = scanned
      /\ phase = "build" /\ phase' = "scan" /\ scanned = 0
      /\ pending' = pending /\ lost' = lost
  BY DEF CheckInv, Build, ResultInv
<1>2. IdsInv' /\ FetchInv'
  BY <1>1, SameQueries DEF CheckInv, IdsInv, FetchInv
<1>. DEFINE about(i) == {id \in Ids : \E q \in DOMAIN Indexes :
                           /\ Indexes[q] = i
                           /\ id \in ids[q] /\ Reads(pins[i], id)}
<1>3. /\ DOMAIN ids = DOMAIN Indexes
      /\ \A q \in DOMAIN Indexes : Indexes[q] \in eligible /\ Place(Indexes[q]) = q
      /\ \A i \in eligible : Place(i) \in DOMAIN Indexes /\ Indexes[Place(i)] = i
  BY <1>1, IndexOfPlace DEF CheckInv, IdsInv
<1>4. \A i \in eligible : about(i) = About(i)
  BY <1>3 DEF About
<1>5. \A i : i \notin eligible => about(i) = {}
  BY <1>3
<1>6. out' = [i \in DOMAIN pins |->
                IF about(i) = {} THEN out[i] ELSE buildOSVResult(pins[i], about(i))]
  BY DEF Build
<1>. HIDE DEF about
<1>7. /\ eligible \subseteq DOMAIN pins
      /\ \A i \in eligible : out[i] = NoResult
      /\ \A i \in DOMAIN pins \ eligible :
           \/ out[i] = NoResult
           \/ i <= scanned /\ pins[i].kind \in ImageKinds /\ out[i] \in ScanResult
      /\ scanned \in 0..Len(pins)
  BY <1>1 DEF CheckInv, ResultInv, eligible
<1>8. \A i \in eligible : out'[i] = Answer(i)
  BY <1>4, <1>6, <1>7 DEF Answer
<1>9. \A i \in DOMAIN pins \ eligible : out'[i] = out[i]
  BY <1>5, <1>6
<1>10. ResultInv'
  BY <1>1, <1>6, <1>7, <1>8, <1>9, SameQueries, SameAnswers DEF ResultInv
<1>. QED BY <1>1, <1>2, <1>10 DEF CheckInv, Phases

\* What a scanner reports of an image.
LEMMA ScanType ==
    ASSUME NEW report \in ScanReports
    PROVE  [NoResult EXCEPT !.findings = toFindings(report)] \in ScanResult
<1>1. report \in Seq(Seq(Scanned))
  BY AdvisoriesAssumption
<1>2. ASSUME NEW target \in ToSet(report), NEW s \in ToSet(target)
      PROVE  [id |-> s.id, fixed |-> IF s.fixes = <<>> THEN Blank ELSE Head(s.fixes)]
               \in [id : ScanFindings, fixed : Versions \cup {Blank}]
  <2>1. target \in Seq(Scanned)
    BY <1>1 DEF ToSet
  <2>2. s \in Scanned
    BY <2>1 DEF ToSet
  <2>3. s.id \in ScanFindings /\ s.fixes \in Seq(Versions)
    BY <2>2 DEF Scanned
  <2>4. s.fixes # <<>> => Head(s.fixes) \in Versions
    BY <2>3
  <2>. QED BY <2>3, <2>4
<1>3. toFindings(report) \subseteq [id : ScanFindings, fixed : Versions \cup {Blank}]
  BY <1>2 DEF toFindings
<1>. QED BY <1>3 DEF NoResult, ScanResult

LEMMA ScanKeeps == CheckInv /\ (ScanImage \/ PassOver \/ Return) => CheckInv'
<1>. SUFFICES ASSUME CheckInv, ScanImage \/ PassOver \/ Return
              PROVE  CheckInv'
  OBVIOUS
<1>1. /\ pins' = pins /\ ids' = ids /\ records' = records /\ pending' = pending /\ lost' = lost
      /\ phase = "scan" /\ phase' \in {"scan", "done"}
      /\ scanned \in 0..Len(pins) /\ Len(pins) \in Nat
      /\ scanned' \in 0..Len(pins) /\ scanned <= scanned'
  BY PinsType DEF CheckInv, ResultInv, ScanImage, PassOver, Return
<1>2. IdsInv' /\ FetchInv'
  BY <1>1, SameQueries DEF CheckInv, IdsInv, FetchInv
<1>3. /\ DOMAIN out = DOMAIN pins
      /\ \A i \in eligible : out[i] = Answer(i)
      /\ \A i \in DOMAIN pins \ eligible :
           \/ out[i] = NoResult
           \/ i <= scanned /\ pins[i].kind \in ImageKinds /\ out[i] \in ScanResult
      /\ \A i \in DOMAIN pins : i \in Nat
  BY <1>1, PinsType DEF CheckInv, ResultInv
<1>4. CASE ScanImage
  <2>. DEFINE k == scanned + 1
  <2>1. k \in DOMAIN pins /\ pins[k].kind \in ImageKinds /\ k \notin eligible /\ scanned' = k
    BY <1>1, <1>4, PinsType DEF CheckInv, ScanImage, Scannable, eligible, Eligible
  <2>2. PICK report \in ScanReports :
          out' = [out EXCEPT ![k] = [NoResult EXCEPT !.findings = toFindings(report)]]
    BY <1>4 DEF ScanImage
  <2>3. [NoResult EXCEPT !.findings = toFindings(report)] \in ScanResult
    BY ScanType
  <2>. HIDE DEF k
  <2>4. DOMAIN out' = DOMAIN pins /\ out'[k] \in ScanResult
        /\ \A i \in DOMAIN pins : i # k => out'[i] = out[i]
    BY <1>3, <2>1, <2>2, <2>3
  <2>5. \A i \in eligible : out'[i] = Answer(i)
    BY <1>3, <2>1, <2>4 DEF eligible
  <2>6. \A i \in DOMAIN pins \ eligible :
           \/ out'[i] = NoResult
           \/ i <= scanned' /\ pins[i].kind \in ImageKinds /\ out'[i] \in ScanResult
    <3>. SUFFICES ASSUME NEW i \in DOMAIN pins \ eligible
                  PROVE  \/ out'[i] = NoResult
                         \/ i <= scanned' /\ pins[i].kind \in ImageKinds /\ out'[i] \in ScanResult
      OBVIOUS
    <3>1. CASE i = k
      <4>1. k <= scanned'
        BY <1>1, <1>3, <2>1
      <4>. QED BY <2>1, <2>4, <3>1, <4>1
    <3>2. CASE i # k
      <4>1. i <= scanned => i <= scanned'
        BY <1>1, <1>3
      <4>. QED BY <1>3, <2>4, <3>2, <4>1
    <3>. QED BY <3>1, <3>2
  <2>7. ResultInv'
    BY <1>1, <2>4, <2>5, <2>6, SameQueries, SameAnswers DEF ResultInv
  <2>. QED BY <1>1, <1>2, <2>7 DEF CheckInv, Phases
<1>5. CASE PassOver \/ Return
  <2>1. out' = out
    BY <1>5 DEF PassOver, Return
  <2>2. \A i \in DOMAIN pins : i <= scanned => i <= scanned'
    BY <1>1, <1>3
  <2>3. ResultInv'
    BY <1>1, <1>3, <2>1, <2>2, SameQueries, SameAnswers DEF ResultInv
  <2>. QED BY <1>1, <1>2, <2>3 DEF CheckInv, Phases
<1>. QED BY <1>4, <1>5

LEMMA NextInv == CheckInv /\ [Next]_vars => CheckInv'
<1>. SUFFICES ASSUME CheckInv, [Next]_vars
              PROVE  CheckInv'
  OBVIOUS
<1>1. CASE Check
  BY <1>1, QueryKeeps, FetchKeeps, BuildKeeps, ScanKeeps DEF Check
<1>2. CASE Done \/ UNCHANGED vars
  <2>1. UNCHANGED vars
    BY <1>2 DEF Done
  <2>2. IdsInv' /\ FetchInv'
    BY <2>1, SameQueries DEF vars, CheckInv, IdsInv, FetchInv
  <2>3. ResultInv'
    BY <2>1, SameQueries, SameAnswers DEF vars, CheckInv, ResultInv
  <2>. QED BY <2>1, <2>2, <2>3 DEF vars, CheckInv
<1>. QED BY <1>1, <1>2 DEF Next

LEMMA Invariant == Spec => []CheckInv
BY InitInv, NextInv, PTL DEF Spec

----------------------------------------------------------------------------
(* What the invariant gives.                                                *)

\* What a result that has findings has them from.
LEMMA FindingsFrom ==
    ASSUME CheckInv, NEW i \in DOMAIN out, NEW x \in out[i].findings
    PROVE  /\ i \in DOMAIN pins /\ pins[i] \in Pin
           /\ \/ /\ i \in eligible /\ Eligible(pins[i])
                 /\ About(i) # {} /\ About(i) \in SUBSET Ids
                 /\ out[i] = buildOSVResult(pins[i], About(i))
                 /\ x.id \in About(i) /\ x.fixed = FixOf(pins[i], x.id)
              \/ /\ i \notin eligible /\ pins[i].kind \in ImageKinds /\ out[i] \in ScanResult
                 /\ x.id \in ScanFindings /\ x.id \notin Ids
<1>1. i \in DOMAIN pins /\ pins[i] \in Pin
  BY PinsType DEF CheckInv, ResultInv
<1>2. out[i] # NoResult
  BY DEF NoResult
<1>3. CASE i \in eligible
  <2>1. out[i] = Answer(i)
    BY <1>2, <1>3 DEF CheckInv, ResultInv
  <2>2. About(i) # {} /\ out[i] = buildOSVResult(pins[i], About(i))
    BY <1>2, <2>1 DEF Answer
  <2>3. About(i) \in SUBSET Ids
    BY DEF About
  <2>4. x.id \in About(i) /\ x.fixed = FixOf(pins[i], x.id)
    BY <1>1, <2>2, <2>3, ToldType
  <2>. QED BY <1>1, <1>3, <2>2, <2>3, <2>4 DEF eligible
<1>4. CASE i \notin eligible
  <2>1. pins[i].kind \in ImageKinds /\ out[i] \in ScanResult
    BY <1>1, <1>2, <1>4 DEF CheckInv, ResultInv
  <2>2. x.id \in ScanFindings
    BY <2>1 DEF ScanResult
  <2>3. ScanFindings \cap Ids = {}
    BY AdvisoriesAssumption
  <2>. QED BY <1>1, <1>4, <2>1, <2>2, <2>3
<1>. QED BY <1>3, <1>4

\* An advisory read against a pin is one of its ecosystem, that affects it.
LEMMA AboutOwn ==
    ASSUME CheckInv, NEW i \in eligible, NEW id \in About(i)
    PROVE  LET p == pins[i]
           IN  /\ \E r \in ToSet(Record[id]) :
                    r.package = p.package /\ r.ecosystem = ecosystemFor(p)
               /\ \E q \in Packages : Affected(id, q, ecosystemFor(p), p.version)
<1>. DEFINE p == pins[i]
<1>1. /\ id \in Ids /\ Place(i) \in DOMAIN ids /\ id \in ids[Place(i)] /\ Reads(p, id)
  BY DEF About
<1>2. ids # <<>>
  BY <1>1
<1>3. id \in Named(p)
  <2>1. ids[Place(i)] \subseteq Named(Queries[Place(i)])
    BY <1>1, <1>2 DEF CheckInv, IdsInv
  <2>2. Queries[Place(i)] = p
    BY QueryOf DEF CheckInv
  <2>. QED BY <1>1, <2>1, <2>2
<1>4. p \in Pin /\ p.version \in Nat /\ p.package \in Packages
  <2>1. p \in Pin
    BY PinsType DEF CheckInv, eligible
  <2>. QED BY <2>1, PinType DEF Pin
<1>. HIDE DEF p
<1>5. CASE ecosystemFor(p) \in Unversioned
  <2>1. affects(id, ecosystemFor(p), p.version)
    BY <1>1, <1>5 DEF Reads
  <2>2. \E q \in Packages : Affected(id, q, ecosystemFor(p), p.version)
    BY <1>1, <1>4, <2>1, AffectsIsAffected
  <2>3. \E r \in ToSet(Record[id]) : r.package = p.package /\ r.ecosystem = ecosystemFor(p)
    BY <1>3, <1>5 DEF Named
  <2>. QED BY <2>2, <2>3 DEF p
<1>6. CASE ecosystemFor(p) \notin Unversioned
  <2>1. Affected(id, p.package, ecosystemFor(p), p.version)
    BY <1>3, <1>6 DEF Named
  <2>2. \E r \in ToSet(Record[id]) : r.package = p.package /\ r.ecosystem = ecosystemFor(p)
    BY <2>1 DEF Affected
  <2>. QED BY <1>4, <2>1, <2>2 DEF p
<1>. QED BY <1>5, <1>6

LEMMA InvTypeOK == CheckInv => TypeOK
<1>. SUFFICES ASSUME CheckInv PROVE TypeOK
  OBVIOUS
<1>1. \A q \in DOMAIN ids : ids[q] \subseteq Ids
  <2>1. CASE ids = <<>>
    <3>1. DOMAIN ids = {}
      BY <2>1
    <3>. QED BY <3>1
  <2>2. CASE ids # <<>>
    BY <2>2 DEF CheckInv, IdsInv
  <2>. QED BY <2>1, <2>2
<1>2. ASSUME NEW i \in DOMAIN out
      PROVE  /\ out[i].findings \subseteq Finding
             /\ out[i].patched \in Versions \cup {Blank}
             /\ Vulnerable(out[i]) \/ out[i] = NoResult
  <2>1. CASE out[i] = NoResult
    BY <2>1 DEF NoResult
  <2>2. i \in DOMAIN pins /\ pins[i] \in Pin
    BY PinsType DEF CheckInv, ResultInv
  <2>3. CASE i \in eligible /\ out[i] # NoResult
    <3>1. out[i] = Answer(i)
      BY <2>3 DEF CheckInv, ResultInv
    <3>2. About(i) # {} /\ About(i) \in SUBSET Ids /\ out[i] = buildOSVResult(pins[i], About(i))
      BY <2>3, <3>1 DEF Answer, About
    <3>. QED BY <2>2, <3>2, ToldType
  <2>4. CASE i \notin eligible /\ out[i] # NoResult
    <3>1. out[i] \in ScanResult
      BY <2>2, <2>4 DEF CheckInv, ResultInv
    <3>2. out[i].patched = Blank /\ out[i].held = FALSE
          /\ out[i].findings \subseteq [id : ScanFindings, fixed : Versions \cup {Blank}]
      BY <3>1 DEF ScanResult
    <3>3. out[i] = [findings |-> out[i].findings, patched |-> Blank, held |-> FALSE]
      BY <3>1 DEF ScanResult
    <3>4. out[i].findings # {}
      BY <2>4, <3>3 DEF NoResult
    <3>. QED BY <3>2, <3>4 DEF Finding, Vulnerable
  <2>. QED BY <2>1, <2>3, <2>4
<1>. QED BY <1>1, <1>2 DEF CheckInv, FetchInv, ResultInv, TypeOK

LEMMA InvFindingsAreOwn == CheckInv => FindingsAreOwn
<1>. SUFFICES ASSUME CheckInv, NEW i \in DOMAIN out, NEW x \in out[i].findings
              PROVE  LET p == pins[i]
                     IN  IF x.id \in Ids
                         THEN /\ Eligible(p)
                              /\ \E r \in ToSet(Record[x.id]) :
                                   r.package = p.package /\ r.ecosystem = ecosystemFor(p)
                              /\ \E q \in Packages : Affected(x.id, q, ecosystemFor(p), p.version)
                         ELSE p.kind \in ImageKinds
  BY DEF FindingsAreOwn
<1>. QED BY FindingsFrom, AboutOwn

LEMMA InvNothingLost == CheckInv => NothingLost
<1>. SUFFICES ASSUME CheckInv, phase = "done", NEW i \in DOMAIN pins,
                     Eligible(pins[i]), ids # <<>>,
                     NEW id \in ids[Place(i)] \ lost,
                     Affected(id, pins[i].package, ecosystemFor(pins[i]), pins[i].version)
              PROVE  \E x \in out[i].findings : x.id = id
  BY DEF NothingLost
<1>. DEFINE p == pins[i]
<1>1. i \in eligible /\ p \in Pin /\ p.version \in Nat
  BY PinsType, PinType DEF eligible, CheckInv
<1>2. Place(i) \in DOMAIN ids
  BY <1>1, QueryOf DEF CheckInv, IdsInv
<1>3. id \in Ids /\ id \in records
  BY <1>2 DEF CheckInv, IdsInv, FetchInv
<1>4. affects(id, ecosystemFor(p), p.version)
  BY <1>1, <1>3, AffectedIsAffects
<1>5. id \in About(i)
  BY <1>1, <1>2, <1>3, <1>4 DEF About, Reads
<1>6. out[i] = buildOSVResult(p, About(i))
  BY <1>1, <1>5 DEF CheckInv, ResultInv, Answer
<1>7. About(i) \in SUBSET Ids /\ About(i) # {}
  BY <1>5 DEF About
<1>. QED BY <1>1, <1>5, <1>6, <1>7, ToldType

LEMMA InvLeastFix == CheckInv => LeastFix
<1>. SUFFICES ASSUME CheckInv, NEW i \in DOMAIN out, NEW x \in out[i].findings,
                     x.id \in Ids, Plain(x.id, pins[i])
              PROVE  LET p == pins[i]
                         clear(v) == ~Affected(x.id, p.package, ecosystemFor(p), v)
                     IN  /\ ~clear(p.version)
                         /\ x.fixed # Blank => clear(x.fixed)
                         /\ \A v \in Versions :
                              v > p.version /\ (x.fixed = Blank \/ v < x.fixed) => ~clear(v)
  BY DEF LeastFix
<1>1. /\ pins[i] \in Pin /\ i \in eligible
      /\ x.id \in About(i) /\ x.fixed = FixOf(pins[i], x.id)
  BY FindingsFrom
<1>2. PICK q \in Packages : Affected(x.id, q, ecosystemFor(pins[i]), pins[i].version)
  BY <1>1, AboutOwn
<1>. QED BY <1>1, <1>2, FixIsLeast

LEMMA InvHeldIsSaid == CheckInv => HeldIsSaid
<1>. SUFFICES ASSUME CheckInv, NEW i \in DOMAIN out
              PROVE  LET p     == pins[i]
                         fixes == {x.fixed : x \in out[i].findings} \ {Blank}
                     IN  /\ out[i].held => p.ceiling # NoCeiling
                         /\ (/\ p.kind \notin ImageKinds /\ p.ceiling # NoCeiling /\ fixes # {}
                             /\ \A f \in fixes : ~Matches(p, f)) => out[i].held
  BY DEF HeldIsSaid
<1>1. ASSUME out[i].held
      PROVE  pins[i].ceiling # NoCeiling
  <2>1. i \in DOMAIN pins /\ out[i] # NoResult
    BY <1>1 DEF CheckInv, ResultInv, NoResult
  <2>2. i \in eligible
    BY <1>1, <2>1 DEF CheckInv, ResultInv, ScanResult
  <2>3. out[i] = buildOSVResult(pins[i], About(i))
    BY <2>1, <2>2 DEF CheckInv, ResultInv, Answer
  <2>4. buildOSVResult(pins[i], About(i)).held
    BY <1>1, <2>3
  <2>. QED BY <2>4, UnheldTold
<1>2. ASSUME pins[i].kind \notin ImageKinds, pins[i].ceiling # NoCeiling,
             NEW x \in out[i].findings, x.fixed # Blank,
             \A y \in out[i].findings : y.fixed # Blank => ~Matches(pins[i], y.fixed)
      PROVE  out[i].held
  <2>. DEFINE p == pins[i]
              A == About(i)
  <2>1. /\ p \in Pin /\ i \in eligible /\ A # {} /\ A \in SUBSET Ids
        /\ out[i] = buildOSVResult(p, A)
        /\ x.id \in A /\ x.fixed = FixOf(p, x.id)
    BY <1>2, FindingsFrom
  <2>2. ASSUME NEW id \in A, FixOf(p, id) # Blank
        PROVE  ~Matches(p, FixOf(p, id))
    <3>1. PICK y \in out[i].findings : y.id = id
      BY <2>1, ToldType
    <3>2. y.fixed = FixOf(p, id)
      BY <2>1, <3>1, ToldType
    <3>. QED BY <1>2, <2>2, <3>2
  <2>. QED BY <1>2, <2>1, <2>2, ToldHeld
<1>. QED BY <1>1, <1>2

LEMMA StepKeepsFindings ==
    CheckInv /\ [Next]_vars => \A i \in DOMAIN out : Vulnerable(out[i]) => out'[i] = out[i]
<1>. SUFFICES ASSUME CheckInv, [Next]_vars, NEW i \in DOMAIN out, Vulnerable(out[i])
              PROVE  out'[i] = out[i]
  OBVIOUS
<1>1. i \in DOMAIN pins /\ out[i] # NoResult
  BY DEF CheckInv, ResultInv, Vulnerable, NoResult
<1>2. CASE Build
  <2>1. phase = "build" /\ scanned = 0 /\ i \in 1..Len(pins)
    BY <1>1, <1>2, PinsType DEF Build, CheckInv, ResultInv
  <2>2. ~(i <= scanned)
    BY <2>1
  <2>3. out[i] = NoResult
    BY <1>1, <2>1, <2>2 DEF CheckInv, ResultInv
  <2>. QED BY <1>1, <2>3
<1>3. CASE ScanImage
  <2>1. CASE i = scanned + 1
    <3>1. i \notin eligible
      BY <1>3, <2>1 DEF ScanImage, Scannable, eligible, Eligible
    <3>2. scanned \in Nat /\ ~(i <= scanned)
      BY <2>1 DEF CheckInv, ResultInv
    <3>. QED BY <1>1, <3>1, <3>2 DEF CheckInv, ResultInv
  <2>2. CASE i # scanned + 1
    BY <1>3, <2>2 DEF ScanImage
  <2>. QED BY <2>1, <2>2
<1>4. CASE SkipOSV \/ batchQuery \/ Fetched \/ PassOver \/ Return \/ Done \/ UNCHANGED vars
           \/ \E id \in Ids : fetchVuln(id) \/ FetchFails(id)
  BY <1>4 DEF SkipOSV, batchQuery, Fetched, PassOver, Return, Done, fetchVuln, FetchFails, vars
<1>. QED BY <1>2, <1>3, <1>4 DEF Next, Check

----------------------------------------------------------------------------
(* Theorems.                                                                *)

\* In every run of the check its state has its types, and a result without
\* findings has nothing else.
THEOREM TypesHold == Spec => []TypeOK
BY Invariant, InvTypeOK, PTL

\* Whatever results are skipped, and in whatever order records arrive, a pin is
\* told of its own advisories only (Check's indexes, Client.Query).
THEOREM OwnFindings == Spec => []FindingsAreOwn
BY Invariant, InvFindingsAreOwn, PTL

\* A failed fetch loses the advisory it was for and no other.
THEOREM OthersReported == Spec => []NothingLost
BY Invariant, InvNothingLost, PTL

\* MinimumFix over the fixes of one advisory is the least version above the
\* pin outside its ranges, by OSV's reading of them.
THEOREM FixLeast == Spec => []LeastFix
BY Invariant, InvLeastFix, PTL

\* A pin is reported as held and vulnerable when its hold keeps it from every
\* fix of its advisories, and never without a hold.
THEOREM HeldReported == Spec => []HeldIsSaid
BY Invariant, InvHeldIsSaid, PTL

\* No step of the check replaces what a pin was already told of.
THEOREM FindingsStay == Spec => FindingsKept
<1>1. CheckInv /\ [Next]_vars
        => [\A i \in DOMAIN out : Vulnerable(out[i]) => out'[i] = out[i]]_vars
  BY StepKeepsFindings
<1>. QED BY <1>1, Invariant, PTL DEF Spec, FindingsKept

----------------------------------------------------------------------------
(* What the finding about MinimumFix leaves true.                           *)

\* The version a pin is reported to be patched in (buildOSVResult) is the
\* least of the fixes reported with it. If OSV's records of its advisories are
\* plain, no version clear of them all is older, it clears one of them, and it
\* clears them all if they were fixed together. PatchedClearsAll asks for the
\* last without that premise.
PatchedIsLowerBound ==
    \A i \in DOMAIN out :
      LET p       == pins[i]
          found   == out[i].findings
          patched == out[i].patched
          clear(id, v) == ~Affected(id, p.package, ecosystemFor(p), v)
      IN  (\E x \in found : x.id \in Ids) =>
            /\ \A x \in found : x.fixed # Blank => patched # Blank /\ patched <= x.fixed
            /\ patched # Blank => \E x \in found : x.fixed = patched
            /\ (\A x \in found : Plain(x.id, p)) =>
                 /\ \A v \in Versions :
                      v > p.version /\ (\A x \in found : clear(x.id, v)) =>
                        patched # Blank /\ patched <= v
                 /\ patched # Blank =>
                      /\ \E x \in found : clear(x.id, patched)
                      /\ (\A x, y \in found : x.fixed = y.fixed) =>
                           \A x \in found : clear(x.id, patched)

LEMMA InvPatchedIsLowerBound == CheckInv => PatchedIsLowerBound
<1>. SUFFICES ASSUME CheckInv, NEW i \in DOMAIN out, NEW w \in out[i].findings, w.id \in Ids
              PROVE  LET p       == pins[i]
                         found   == out[i].findings
                         patched == out[i].patched
                         clear(id, v) == ~Affected(id, p.package, ecosystemFor(p), v)
                     IN  /\ \A x \in found : x.fixed # Blank => patched # Blank /\ patched <= x.fixed
                         /\ patched # Blank => \E x \in found : x.fixed = patched
                         /\ (\A x \in found : Plain(x.id, p)) =>
                              /\ \A v \in Versions :
                                   v > p.version /\ (\A x \in found : clear(x.id, v)) =>
                                     patched # Blank /\ patched <= v
                              /\ patched # Blank =>
                                   /\ \E x \in found : clear(x.id, patched)
                                   /\ (\A x, y \in found : x.fixed = y.fixed) =>
                                        \A x \in found : clear(x.id, patched)
  BY DEF PatchedIsLowerBound
<1>. DEFINE p       == pins[i]
            A       == About(i)
            found   == out[i].findings
            patched == out[i].patched
            clear(id, v) == ~Affected(id, p.package, ecosystemFor(p), v)
<1>1. /\ p \in Pin /\ i \in eligible /\ A \in SUBSET Ids /\ A # {}
      /\ out[i] = buildOSVResult(p, A)
  BY FindingsFrom
<1>2. \A x \in found : x.id \in A /\ x.fixed = FixOf(p, x.id) /\ x.id \in Ids
  BY <1>1, ToldType
<1>3. \A id \in A : \E x \in found : x.id = id
  BY <1>1, ToldType
<1>4. patched = MinimumFix(AllFixes(p, A), Current(p)) /\ patched \in Versions \cup {Blank}
  BY <1>1, Told, ToldType
<1>5. \A x \in found : x.fixed # Blank => patched # Blank /\ patched <= x.fixed
  BY <1>1, <1>2, <1>4, PatchedIs
<1>6. patched # Blank => \E x \in found : x.fixed = patched
  <2>. SUFFICES ASSUME patched # Blank PROVE \E x \in found : x.fixed = patched
    OBVIOUS
  <2>1. PICK id \in A : FixOf(p, id) = patched
    BY <1>1, <1>4, PatchedIs
  <2>. QED BY <1>2, <1>3, <2>1
<1>7. \A x \in found : x.fixed \in Versions \cup {Blank}
  BY InvTypeOK DEF TypeOK, Finding
<1>8. ASSUME NEW x \in found, Plain(x.id, p)
      PROVE  /\ x.fixed # Blank => clear(x.id, x.fixed)
             /\ \A v \in Versions :
                  v > p.version /\ (x.fixed = Blank \/ v < x.fixed) => ~clear(x.id, v)
  BY <1>2, <1>8, InvLeastFix DEF LeastFix
<1>9. \A v \in Versions \cup {Blank} : v \in Nat
  BY AdvisoriesAssumption DEF Blank
<1>. HIDE DEF clear
<1>10. ASSUME \A x \in found : Plain(x.id, p), NEW v \in Versions, v > p.version,
              \A x \in found : clear(x.id, v)
       PROVE  patched # Blank /\ patched <= v
  <2>1. w.fixed \in Nat /\ v \in Nat
    BY <1>7, <1>9
  <2>2. ~(w.fixed = Blank \/ v < w.fixed)
    <3>1. Plain(w.id, p) /\ clear(w.id, v)
      BY <1>10
    <3>. QED BY <1>8, <1>10, <3>1
  <2>3. patched # Blank /\ patched <= w.fixed
    BY <1>5, <2>2, Zenon
  <2>4. patched \in Nat
    BY <1>4, <1>9
  <2>5. w.fixed <= v
    BY <2>1, <2>2
  <2>. QED BY <2>1, <2>3, <2>4, <2>5
<1>11. ASSUME \A x \in found : Plain(x.id, p), patched # Blank
       PROVE  \E x \in found : clear(x.id, patched)
  BY <1>6, <1>8, <1>11
<1>12. ASSUME \A x \in found : Plain(x.id, p), patched # Blank,
              \A x, y \in found : x.fixed = y.fixed, NEW x \in found
       PROVE  clear(x.id, patched)
  BY <1>6, <1>8, <1>12
<1>. QED BY <1>5, <1>6, <1>10, <1>11, <1>12 DEF clear

\* For any pins, records and failures, the version reported as patched bounds
\* from below what clears a pin's advisories, and is exact when they agree.
THEOREM PatchedBounds == Spec => []PatchedIsLowerBound
BY Invariant, InvPatchedIsLowerBound, PTL

----------------------------------------------------------------------------
(* What a step does.                                                        *)

\* An advisory is still to be fetched, read or lost, and one only.
OnceInv ==
    /\ phase = "query" => records = {} /\ lost = {}
    /\ pending \cap (records \cup lost) = {} /\ records \cap lost = {}

\* The part of EventuallyChecked that needs no fairness. A step moves the check
\* on to a later phase, reads or loses an advisory that no step before it
\* asked for, however many pins it was named for, or has one result less to
\* scan: no answer, failure or order of records makes it go round.
EachStepAdvances ==
    [][\/ phase = "query" /\ phase' \in {"fetch", "scan"}
       \/ phase = "fetch" /\ phase' = "build"
       \/ phase = "build" /\ phase' = "scan"
       \/ phase = "scan" /\ phase' = "done"
       \/ /\ phase = "fetch" /\ phase' = phase
          /\ \E id \in pending \ (records \cup lost) :
               /\ pending' = pending \ {id}
               /\ {id} = (records' \ records) \cup (lost' \ lost)
       \/ /\ phase = "scan" /\ phase' = phase
          /\ scanned < Len(pins) /\ scanned' = scanned + 1 /\ pins' = pins]_vars

\* For any results, advisories and scans, no step of the check is taken twice.
THEOREM EveryStepCounts == Spec => EachStepAdvances
<1>. DEFINE Advance ==
       \/ phase = "query" /\ phase' \in {"fetch", "scan"}
       \/ phase = "fetch" /\ phase' = "build"
       \/ phase = "build" /\ phase' = "scan"
       \/ phase = "scan" /\ phase' = "done"
       \/ /\ phase = "fetch" /\ phase' = phase
          /\ \E id \in pending \ (records \cup lost) :
               /\ pending' = pending \ {id}
               /\ {id} = (records' \ records) \cup (lost' \ lost)
       \/ /\ phase = "scan" /\ phase' = phase
          /\ scanned < Len(pins) /\ scanned' = scanned + 1 /\ pins' = pins
<1>1. Init => OnceInv
  BY DEF Init, OnceInv
<1>2. OnceInv /\ [Next]_vars => OnceInv' /\ [Advance]_vars
  <2>. SUFFICES ASSUME OnceInv, [Next]_vars PROVE OnceInv' /\ [Advance]_vars
    OBVIOUS
  <2>1. CASE SkipOSV \/ batchQuery
    BY <2>1 DEF SkipOSV, batchQuery, OnceInv
  <2>2. ASSUME NEW id \in Ids, fetchVuln(id) \/ FetchFails(id) PROVE OnceInv' /\ Advance
    <3>1. /\ phase = "fetch" /\ phase' = phase /\ id \in pending /\ pending' = pending \ {id}
          /\ \/ records' = records \cup {id} /\ lost' = lost
             \/ lost' = lost \cup {id} /\ records' = records
      BY <2>2 DEF fetchVuln, FetchFails
    <3>2. id \notin records \cup lost
      BY <3>1 DEF OnceInv
    <3>3. {id} = (records' \ records) \cup (lost' \ lost)
      BY <3>1, <3>2
    <3>4. OnceInv'
      BY <3>1, <3>2 DEF OnceInv
    <3>. QED BY <3>1, <3>2, <3>3, <3>4
  <2>3. CASE Fetched \/ Build \/ Return
    BY <2>3 DEF Fetched, Build, Return, OnceInv
  <2>4. CASE ScanImage \/ PassOver
    BY <2>4 DEF ScanImage, PassOver, OnceInv
  <2>5. CASE Done \/ UNCHANGED vars
    BY <2>5 DEF Done, vars, OnceInv
  <2>. QED BY <2>1, <2>2, <2>3, <2>4, <2>5 DEF Next, Check
<1>. QED BY <1>1, <1>2, PTL DEF Spec, EachStepAdvances
=============================================================================
