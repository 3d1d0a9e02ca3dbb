---------------------------- MODULE VersionProofs ----------------------------
(***************************************************************************)
(* The order of versions and the choice of the best one, for every set of  *)
(* tags and patterns and for lists of any length.                          *)
(***************************************************************************)
EXTENDS Releases, WellFoundedInduction, TLAPS

\* Whatever stands between the dots, a version's parts are numbers.
LEMMA IndexType ==
    ASSUME NEW t \in Tag, NEW i \in Nat
    PROVE  getIndex(t, i) \in Nat /\ Number(t, i) = getIndex(t, i)
BY VersionsAssumption DEF getIndex, Number, Tag

LEMMA ParseType ==
    ASSUME NEW t \in Tag
    PROVE  /\ Parse(t).major = Number(t, 1) /\ Number(t, 1) \in Nat
           /\ Parse(t).minor = Number(t, 2) /\ Number(t, 2) \in Nat
           /\ Parse(t).patch = Number(t, 3) /\ Number(t, 3) \in Nat
           /\ Parse(t).suffix = t.suffix /\ t.suffix \in Nat
<1>1. t.suffix \in Nat
  BY DEF Tag
<1>. QED BY <1>1, IndexType DEF Parse

\* Compare, in terms of a version's numbers.
LEMMA CompareNumbers ==
    ASSUME NEW a \in Tag, NEW b \in Tag
    PROVE  Compare(Parse(a), Parse(b)) =
             IF Number(a, 1) # Number(b, 1) THEN Number(a, 1) - Number(b, 1)
             ELSE IF Number(a, 2) # Number(b, 2) THEN Number(a, 2) - Number(b, 2)
             ELSE IF Number(a, 3) # Number(b, 3) THEN Number(a, 3) - Number(b, 3)
             ELSE a.suffix - b.suffix
BY ParseType DEF Compare

\* Compare finds a version newer exactly when the first of its numbers that
\* differs, or its suffix, is greater.
THEOREM CompareIsNewer ==
    ASSUME NEW a \in Tag, NEW b \in Tag
    PROVE  Newer(a, b) <=> Compare(Parse(a), Parse(b)) > 0
<1>1. /\ Numbers(a)[1] = Number(a, 1) /\ Numbers(b)[1] = Number(b, 1)
      /\ Numbers(a)[2] = Number(a, 2) /\ Numbers(b)[2] = Number(b, 2)
      /\ Numbers(a)[3] = Number(a, 3) /\ Numbers(b)[3] = Number(b, 3)
      /\ Numbers(a)[4] = a.suffix /\ Numbers(b)[4] = b.suffix
  BY DEF Numbers
<1>2. Newer(a, b) <=>
        \/ Number(a, 1) > Number(b, 1)
        \/ Number(a, 1) = Number(b, 1) /\ Number(a, 2) > Number(b, 2)
        \/ /\ Number(a, 1) = Number(b, 1) /\ Number(a, 2) = Number(b, 2)
           /\ Number(a, 3) > Number(b, 3)
        \/ /\ Number(a, 1) = Number(b, 1) /\ Number(a, 2) = Number(b, 2)
           /\ Number(a, 3) = Number(b, 3) /\ a.suffix > b.suffix
  <2>1. 1..4 = {1, 2, 3, 4} /\ 1..(1 - 1) = {} /\ 1..(2 - 1) = {1}
        /\ 1..(3 - 1) = {1, 2} /\ 1..(4 - 1) = {1, 2, 3}
    OBVIOUS
  <2>. QED BY <1>1, <2>1 DEF Newer
<1>. QED BY <1>2, CompareNumbers, ParseType

\* It is a total preorder: what the sorts and scans of the resolvers need.
THEOREM CompareTotal ==
    ASSUME NEW a \in Tag, NEW b \in Tag
    PROVE  /\ Compare(Parse(a), Parse(b)) \in Int
           /\ Compare(Parse(b), Parse(a)) = -Compare(Parse(a), Parse(b))
BY CompareNumbers, ParseType

THEOREM CompareTransitive ==
    ASSUME NEW a \in Tag, NEW b \in Tag, NEW c \in Tag,
           Compare(Parse(a), Parse(b)) >= 0, Compare(Parse(b), Parse(c)) >= 0
    PROVE  /\ Compare(Parse(a), Parse(c)) >= 0
           /\ Compare(Parse(a), Parse(c)) = 0 =>
                Compare(Parse(a), Parse(b)) = 0 /\ Compare(Parse(b), Parse(c)) = 0
BY CompareNumbers, ParseType

\* A pattern lets nothing through at or above its ceiling, or with a suffix it
\* does not allow.
LEMMA MatchesWithin ==
    ASSUME NEW p \in Pattern, NEW t \in Tag, Matches(p, t)
    PROVE  /\ t.suffix \in p.suffixes
           /\ p.ceiling # None => Newer(p.ceiling, t)
<1>1. CASE p.ceiling # None
  <2>1. p.ceiling \in Tag
    BY <1>1, VersionsAssumption DEF Pattern
  <2>. QED BY <1>1, <2>1, CompareIsNewer, CompareTotal DEF Matches
<1>2. CASE p.ceiling = None
  BY <1>2 DEF Matches
<1>. QED BY <1>1, <1>2

\* What a resolver picks from a list of tags is in it, and none of it is newer.
LEMMA LatestIsNewest ==
    ASSUME NEW tags \in SUBSET Tag, NEW t \in Latest(tags)
    PROVE  t \in tags /\ \A u \in tags : ~Newer(u, t)
<1>1. t \in tags /\ \A u \in tags : Compare(Parse(u), Parse(t)) <= 0
  BY DEF Latest
<1>2. \A u \in tags : Newer(u, t) <=> Compare(Parse(u), Parse(t)) > 0
  BY <1>1, CompareIsNewer
<1>3. \A u \in tags : Compare(Parse(u), Parse(t)) \in Int
  BY <1>1, CompareTotal
<1>. QED BY <1>1, <1>2, <1>3

----------------------------------------------------------------------------
(* The best release of a list.                                              *)

\* The releases bestRelease chooses from, and the order it keeps among them.
Choosable(list, p, cutoff) == {i \in DOMAIN list : Stable(list[i], p) /\ ~tooNew(list[i], cutoff)}

Beats(list, i, j) ==
    LET c == Compare(Parse(list[i].tag), Parse(list[j].tag))
    IN  c > 0 \/ (c = 0 /\ i <= j)

LEMMA BestRelease ==
    ASSUME NEW list, NEW p, NEW cutoff
    PROVE  bestRelease(list, p, cutoff) =
             {list[i].tag : i \in {k \in Choosable(list, p, cutoff) :
                                     \A j \in Choosable(list, p, cutoff) : Beats(list, k, j)}}
BY DEF bestRelease, Choosable, Beats

LEMMA ListedTag ==
    ASSUME NEW list \in Seq(Release), NEW i \in DOMAIN list
    PROVE  list[i] \in Release /\ list[i].tag \in Tags /\ list[i].tag \in Tag
<1>1. list[i] \in Release
  OBVIOUS
<1>2. list[i].tag \in Tags
  BY <1>1 DEF Release
<1>. QED BY <1>1, <1>2, VersionsAssumption

\* Listed versions compare as any two do.
LEMMA ListedCompare ==
    ASSUME NEW list \in Seq(Release), NEW i \in DOMAIN list, NEW j \in DOMAIN list
    PROVE  LET c == Compare(Parse(list[i].tag), Parse(list[j].tag))
           IN  /\ c \in Int
               /\ Compare(Parse(list[j].tag), Parse(list[i].tag)) = -c
               /\ Beats(list, i, j) => c >= 0
<1>1. list[i].tag \in Tag /\ list[j].tag \in Tag
  BY ListedTag
<1>. DEFINE c == Compare(Parse(list[i].tag), Parse(list[j].tag))
<1>2. c \in Int /\ Compare(Parse(list[j].tag), Parse(list[i].tag)) = -c
  BY <1>1, CompareTotal
<1>3. Beats(list, i, j) => c > 0 \/ c = 0
  BY DEF Beats
<1>. HIDE DEF c
<1>4. Beats(list, i, j) => c >= 0
  BY <1>2, <1>3
<1>. QED BY <1>2, <1>4 DEF c

LEMMA BeatsTotal ==
    ASSUME NEW list \in Seq(Release), NEW i \in DOMAIN list, NEW j \in DOMAIN list
    PROVE  Beats(list, i, j) \/ Beats(list, j, i)
<1>. DEFINE c == Compare(Parse(list[i].tag), Parse(list[j].tag))
<1>1. c \in Int /\ Compare(Parse(list[j].tag), Parse(list[i].tag)) = -c
  BY ListedCompare
<1>2. i \in Int /\ j \in Int
  OBVIOUS
<1>3. /\ c > 0 \/ (c = 0 /\ i <= j) => Beats(list, i, j)
      /\ -c > 0 \/ (-c = 0 /\ j <= i) => Beats(list, j, i)
  BY <1>1 DEF Beats
<1>. HIDE DEF c
<1>. QED BY <1>1, <1>2, <1>3

LEMMA BeatsTransitive ==
    ASSUME NEW list \in Seq(Release),
           NEW i \in DOMAIN list, NEW j \in DOMAIN list, NEW k \in DOMAIN list,
           Beats(list, i, j), Beats(list, j, k)
    PROVE  Beats(list, i, k)
<1>1. Compare(Parse(list[i].tag), Parse(list[j].tag)) >= 0
      /\ Compare(Parse(list[j].tag), Parse(list[k].tag)) >= 0
  BY ListedCompare
<1>2. /\ Compare(Parse(list[i].tag), Parse(list[k].tag)) >= 0
      /\ Compare(Parse(list[i].tag), Parse(list[k].tag)) = 0 =>
           /\ Compare(Parse(list[i].tag), Parse(list[j].tag)) = 0
           /\ Compare(Parse(list[j].tag), Parse(list[k].tag)) = 0
  BY <1>1, ListedTag, CompareTransitive
<1>3. Compare(Parse(list[i].tag), Parse(list[k].tag)) \in Int
  BY ListedCompare
<1>4. CASE Compare(Parse(list[i].tag), Parse(list[k].tag)) > 0
  BY <1>4 DEF Beats
<1>5. CASE Compare(Parse(list[i].tag), Parse(list[k].tag)) = 0
  BY <1>2, <1>5 DEF Beats
<1>. QED BY <1>2, <1>3, <1>4, <1>5

\* What bestRelease returns is the tag of a release it may choose, and no other
\* such release is newer.
LEMMA BestIsNewest ==
    ASSUME NEW list \in Seq(Release), NEW p, NEW cutoff, NEW tag \in bestRelease(list, p, cutoff)
    PROVE  /\ tag \in Tags
           /\ \E i \in Choosable(list, p, cutoff) : list[i].tag = tag
           /\ \A j \in Choosable(list, p, cutoff) : ~Newer(list[j].tag, tag)
<1>1. PICK i \in Choosable(list, p, cutoff) :
        list[i].tag = tag /\ \A j \in Choosable(list, p, cutoff) : Beats(list, i, j)
  BY BestRelease
<1>2. i \in DOMAIN list /\ \A j \in Choosable(list, p, cutoff) : j \in DOMAIN list
  BY DEF Choosable
<1>3. \A j \in Choosable(list, p, cutoff) : ~Newer(list[j].tag, tag)
  <2>. TAKE j \in Choosable(list, p, cutoff)
  <2>1. Compare(Parse(tag), Parse(list[j].tag)) >= 0
    BY <1>1, <1>2, ListedCompare
  <2>2. list[j].tag \in Tag /\ tag \in Tag
    BY <1>1, <1>2, ListedTag
  <2>. QED BY <2>1, <2>2, CompareTotal, CompareIsNewer
<1>. QED BY <1>1, <1>2, <1>3, ListedTag

\* bestRelease finds one whenever there is one to choose: its loop, over a list
\* of any length, keeps the best of what it has seen. The least length at which
\* it had none would be one longer than a length at which it had.
LEMMA BestExists ==
    ASSUME NEW list \in Seq(Release), NEW p, NEW cutoff, Choosable(list, p, cutoff) # {}
    PROVE  bestRelease(list, p, cutoff) # {}
<1>. DEFINE Seen(n) == Choosable(list, p, cutoff) \cap 1..n
            Topped(n) == Seen(n) = {} \/ \E k \in Seen(n) : \A j \in Seen(n) : Beats(list, k, j)
            T == {n \in Nat : ~Topped(n)}
<1>1. \A k \in Choosable(list, p, cutoff) : k \in DOMAIN list /\ k \in Nat \ {0} /\ k <= Len(list)
  BY DEF Choosable
<1>2. T = {}
  <2>1. SUFFICES ASSUME T # {} PROVE FALSE
    OBVIOUS
  <2>2. PICK n \in T : \A m \in T : ~(<<m, n>> \in OpToRel(<, Nat))
    <3>1. T \subseteq Nat
      OBVIOUS
    <3>. HIDE DEF T
    <3>. QED BY <2>1, <3>1, WFMin, NatLessThanWellFounded
  <2>3. n # 0
    OBVIOUS
  <2>4. Topped(n - 1)
    <3>1. n - 1 \in Nat /\ n - 1 < n
      BY <2>3
    <3>2. <<n - 1, n>> \in OpToRel(<, Nat)
      BY <3>1 DEF OpToRel
    <3>. QED BY <2>2, <3>1, <3>2
  <2>5. Seen(n) = Seen(n - 1) \cup (Choosable(list, p, cutoff) \cap {n})
    <3>. DEFINE C == Choosable(list, p, cutoff)
    <3>1. n \in Nat \ {0}
      BY <2>3
    <3>2. 1..n = 1..(n - 1) \cup {n}
      BY <3>1
    <3>. HIDE DEF C
    <3>3. C \cap 1..n = (C \cap 1..(n - 1)) \cup (C \cap {n})
      BY <3>2
    <3>. QED BY <3>3 DEF C
  <2>6. CASE n \notin Choosable(list, p, cutoff)
    <3>1. Seen(n) = Seen(n - 1)
      BY <2>5, <2>6
    <3>. QED BY <2>4, <3>1
  <2>7. CASE n \in Choosable(list, p, cutoff) /\ Seen(n - 1) = {}
    <3>1. Beats(list, n, n)
      BY <1>1, <2>7, BeatsTotal
    <3>2. Seen(n) = {n}
      BY <2>5, <2>7
    <3>. QED BY <3>1, <3>2
  <2>8. CASE n \in Choosable(list, p, cutoff) /\ Seen(n - 1) # {}
    <3>1. PICK k \in Seen(n - 1) : \A j \in Seen(n - 1) : Beats(list, k, j)
      BY <2>4, <2>8
    <3>2. n \in DOMAIN list /\ k \in DOMAIN list /\ \A j \in Seen(n - 1) : j \in DOMAIN list
      BY <1>1, <2>8
    <3>3. Beats(list, n, n) /\ n \in Seen(n) /\ k \in Seen(n)
      BY <2>5, <2>8, <3>2, BeatsTotal
    <3>4. CASE Beats(list, k, n)
      <4>1. \A j \in Seen(n) : Beats(list, k, j)
        BY <2>5, <3>1, <3>4
      <4>. QED BY <3>3, <4>1
    <3>5. CASE Beats(list, n, k)
      <4>1. \A j \in Seen(n - 1) : Beats(list, n, j)
        BY <3>1, <3>2, <3>5, BeatsTransitive
      <4>2. \A j \in Seen(n) : Beats(list, n, j)
        BY <2>5, <3>3, <4>1
      <4>. QED BY <3>3, <4>2
    <3>. QED BY <3>2, <3>4, <3>5, BeatsTotal
  <2>. QED BY <2>6, <2>7, <2>8
<1>3. Len(list) \in Nat /\ Seen(Len(list)) = Choosable(list, p, cutoff)
  BY <1>1
<1>4. Topped(Len(list))
  BY <1>2, <1>3
<1>5. PICK k \in Choosable(list, p, cutoff) :
        \A j \in Choosable(list, p, cutoff) : Beats(list, k, j)
  BY <1>3, <1>4
<1>. QED BY <1>5, BestRelease

\* The loop of bestRelease gives one answer: whatever versions the releases of
\* a list have, however many of them are equal, one is chosen if any may be.
THEOREM BestIsOne ==
    ASSUME NEW list \in Seq(Release), NEW p, NEW cutoff, Choosable(list, p, cutoff) # {}
    PROVE  \E i \in Choosable(list, p, cutoff) : bestRelease(list, p, cutoff) = {list[i].tag}
<1>. DEFINE C == Choosable(list, p, cutoff)
<1>1. bestRelease(list, p, cutoff) =
        {list[i].tag : i \in {k \in C : \A j \in C : Beats(list, k, j)}}
  BY BestRelease
<1>2. PICK i \in C : \A j \in C : Beats(list, i, j)
  BY <1>1, BestExists
<1>3. ASSUME NEW k \in C, \A j \in C : Beats(list, k, j) PROVE k = i
  <2>. DEFINE c == Compare(Parse(list[i].tag), Parse(list[k].tag))
  <2>1. i \in DOMAIN list /\ k \in DOMAIN list /\ i \in Int /\ k \in Int
    BY DEF Choosable
  <2>2. Beats(list, i, k) /\ Beats(list, k, i)
    BY <1>2, <1>3
  <2>3. c \in Int /\ Compare(Parse(list[k].tag), Parse(list[i].tag)) = -c
    BY <2>1, ListedCompare
  <2>4. /\ c > 0 \/ (c = 0 /\ i <= k)
        /\ -c > 0 \/ (-c = 0 /\ k <= i)
    BY <2>2, <2>3 DEF Beats
  <2>. HIDE DEF c
  <2>. QED BY <2>1, <2>3, <2>4
<1>. HIDE DEF C
<1>4. {k \in C : \A j \in C : Beats(list, k, j)} = {i}
  BY <1>2, <1>3
<1>5. bestRelease(list, p, cutoff) = {list[i].tag}
  BY <1>1, <1>4
<1>. QED BY <1>5 DEF C

\* --min-age holds an offer back and never brings a newer one: what it lets
\* through of a list is no newer than what would be offered without it.
THEOREM CooldownOnlyLowers ==
    ASSUME NEW list \in Seq(Release), NEW p,
           NEW aged \in bestRelease(list, p, TRUE), NEW newest \in bestRelease(list, p, FALSE)
    PROVE  ~Newer(aged, newest)
<1>1. PICK i \in Choosable(list, p, TRUE) : list[i].tag = aged
  BY BestIsNewest
<1>2. i \in Choosable(list, p, FALSE)
  BY DEF Choosable, tooNew
<1>. QED BY <1>1, <1>2, BestIsNewest
=============================================================================
