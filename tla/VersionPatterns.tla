--------------------------- MODULE VersionPatterns ---------------------------
(***************************************************************************)
(* pkg/version and the patterns of internal/parser: how two versions       *)
(* compare, and which versions a constraint lets through.                  *)
(*                                                                         *)
(* A tag is its segments, the text between its dots, and its suffix. A     *)
(* segment that is not a number is one of Words. Suffixes are ranked as    *)
(* strings.Compare orders them, 0 being the empty one.                     *)
(***************************************************************************)
EXTENDS Integers, Sequences

CONSTANTS
    Tags,
    Words,
    Patterns,
    Wildcard, \* a pattern's "#", or a segment it does not have
    None

Tag == [segments : Seq(Nat \cup Words), suffix : Nat]

Segment == Nat \cup Words \cup {Wildcard}

\* A ceiling is a tag too.
Pattern == [major : Segment, minor : Segment, patch : Segment, suffixes : SUBSET Nat,
            ceiling : Tags \cup {None}]

ASSUME VersionsAssumption ==
    /\ Tags \subseteq Tag
    /\ Words \cap Nat = {}
    /\ Patterns \subseteq Pattern
    /\ Wildcard \notin Nat \cup Words
    /\ None \notin Tags

\* strconv.Atoi's error is ignored: a word reads as 0, as a missing segment does.
getIndex(tag, i) ==
    IF i \in DOMAIN tag.segments /\ tag.segments[i] \notin Words THEN tag.segments[i] ELSE 0

Parse(tag) == [major |-> getIndex(tag, 1), minor |-> getIndex(tag, 2),
               patch |-> getIndex(tag, 3), suffix |-> tag.suffix]

\* Mutant: the minor version is compared whatever the major is.
CompareMinorFirst(a, b) ==
    IF a.minor # b.minor THEN a.minor - b.minor
    ELSE IF a.major # b.major THEN a.major - b.major
    ELSE IF a.patch # b.patch THEN a.patch - b.patch
    ELSE a.suffix - b.suffix

Compare(a, b) ==
    IF a.major # b.major THEN a.major - b.major
    ELSE IF a.minor # b.minor THEN a.minor - b.minor
    ELSE IF a.patch # b.patch THEN a.patch - b.patch
    ELSE a.suffix - b.suffix

\* What Latest may return, and what the resolvers' scans from the end of a
\* sorted list may: the order of equal versions is the list's in the one, and
\* sort.Slice's, which is not stable, in the others.
Latest(tags) == {t \in tags : \A u \in tags : Compare(Parse(u), Parse(t)) <= 0}

\* A segment is compared as text: one that is absent equals no number.
matchSegment(segment, tag, i) ==
    segment = Wildcard \/ (i \in DOMAIN tag.segments /\ tag.segments[i] = segment)

\* Mutant: an inclusive ceiling.
MatchesCeiling(p, tag) ==
    /\ matchSegment(p.major, tag, 1)
    /\ matchSegment(p.minor, tag, 2)
    /\ matchSegment(p.patch, tag, 3)
    /\ tag.suffix \in p.suffixes
    /\ p.ceiling # None => Compare(Parse(tag), Parse(p.ceiling)) <= 0

Matches(p, tag) ==
    /\ matchSegment(p.major, tag, 1)
    /\ matchSegment(p.minor, tag, 2)
    /\ matchSegment(p.patch, tag, 3)
    /\ tag.suffix \in p.suffixes
    /\ p.ceiling # None => Compare(Parse(tag), Parse(p.ceiling)) < 0

\* parser.ParsePattern("#.#.#"): any version without a suffix.
AnyVersion == [major |-> Wildcard, minor |-> Wildcard, patch |-> Wildcard,
               suffixes |-> {0}, ceiling |-> None]

----------------------------------------------------------------------------
(* What it means for a version to be newer, for the properties: by the      *)
(* numbers of its segments, the first that differ, and then by its suffix.  *)

Number(tag, i) ==
    IF i \in DOMAIN tag.segments /\ tag.segments[i] \in Nat THEN tag.segments[i] ELSE 0

Numbers(tag) == <<Number(tag, 1), Number(tag, 2), Number(tag, 3), tag.suffix>>

Newer(a, b) ==
    \E k \in 1..4 :
      /\ Numbers(a)[k] > Numbers(b)[k]
      /\ \A j \in 1..(k - 1) : Numbers(a)[j] = Numbers(b)[j]
=============================================================================
