----------------------------- MODULE Advisories -----------------------------
(***************************************************************************)
(* The vulnerability check of a config run: internal/vulncheck with        *)
(* internal/osv, and internal/vulnscan as it uses it.                      *)
(*                                                                         *)
(* The engine's results come in a list. The pins OSV can be asked about go *)
(* out in one batch, each advisory it names is fetched once, and the       *)
(* records are read against the pins; then image pins are scanned one by   *)
(* one.                                                                    *)
(*                                                                         *)
(* A version is a positive number, greater meaning newer; 0 is the         *)
(* empty string, or an advisory's introduced: "0".                         *)
(***************************************************************************)
EXTENDS Integers, FiniteSets, SequencesExt

CONSTANTS
    Versions,
    Packages,
    Ecosystems,
    Kinds,            \* resolver kinds
    ImageKinds,       \* imageResolvers
    ActionKind,       \* "github-action", whose pins read "<sha> # <tag>"
    DefaultEcosystem, \* defaultEcosystems, or None
    Unversioned,      \* unversionedEcosystems
    Ids,              \* the advisories OSV has,
    Record,           \* and what it has of each: the ranges of the affected packages
    ScanFindings,     \* what a scanner may find in an image,
    ScanReports,      \* and how it may report it
    Inputs,           \* the lists of results the engine may hand over
    None

Blank == 0

NoCeiling == 0

\* An engine result: resolved if it has a match and no error, commented if an
\* action's pin has its "# <tag>"; the constraint is what its segments accept
\* and a hold's ceiling.
Pin == [resolved : BOOLEAN, kind : Kinds, package : Packages,
        ecosystem : Ecosystems \cup {None}, version : Versions,
        commented : BOOLEAN, accepts : SUBSET Versions,
        ceiling : Versions \cup {NoCeiling}]

\* What trivy and grype say of a finding: trivy's fix is at most one text,
\* grype's a list.
Scanned == [id : ScanFindings, fixes : Seq(Versions)]

Event == [introduced : Versions \cup {0, None}, fixed : Versions \cup {None}]

AffectedRange == [package : Packages, ecosystem : Ecosystems, git : BOOLEAN,
                  events : Seq(Event)]

ASSUME AdvisoriesAssumption ==
    /\ Versions \subseteq Nat \ {0}
    /\ ImageKinds \subseteq Kinds
    /\ ActionKind \in Kinds \ ImageKinds
    /\ DefaultEcosystem \in [Kinds -> Ecosystems \cup {None}]
    /\ Unversioned \subseteq Ecosystems
    /\ \A id \in Ids : Record[id] \in Seq(AffectedRange)
    /\ \A input \in Inputs : input \in Seq(Pin)
    /\ None \notin Ecosystems \cup {0}
    /\ ScanFindings \cap Ids = {}
    /\ \A report \in ScanReports : report \in Seq(Seq(Scanned))

\* OSV's events alternate, an introduction first, and the oldest first.
ASSUME EventsAssumption ==
    \A id \in Ids : \A k \in DOMAIN Record[id] :
      LET e == Record[id][k].events
          at(j) == IF e[j].introduced # None THEN e[j].introduced ELSE e[j].fixed
      IN  \A j \in DOMAIN e :
            /\ e[j].introduced # None <=> e[j].fixed = None
            /\ j = 1 => e[j].introduced # None
            /\ j > 1 => (e[j].introduced # None <=> e[j - 1].fixed # None)
            /\ \A i \in 1..(j - 1) : at(i) < at(j)

VARIABLES
    pins,
    scanner,     \* whether trivy or grype is there
    phase,
    ids,         \* the advisories OSV's answer names for each query
    pending,     \* those still to be fetched
    records,     \* those that were
    lost,        \* auxiliary: those whose fetch failed
    out,
    scanned      \* how many of the results the scan has been over

vars == <<pins, scanner, phase, ids, pending, records, lost, out, scanned>>

Phases == {"query", "fetch", "build", "scan", "done"}

Finding == [id : Ids \cup ScanFindings, fixed : Versions \cup {Blank}]

NoResult == [findings |-> {}, patched |-> Blank, held |-> FALSE]

Vulnerable(r) == r.findings # {}

----------------------------------------------------------------------------
(* Advisories against versions.                                             *)

\* The ranges toAdvisory keeps for an ecosystem, whatever their package.
Kept(id, ecosystem) == {r \in ToSet(Record[id]) : r.ecosystem = ecosystem /\ ~r.git}

\* The fixes that come before the next introduction.
Closing(events, j) ==
    {k \in j..Len(events) : /\ events[k].fixed # None
                            /\ \A l \in (j + 1)..k : events[l].introduced = None}

\* Each introduction opens an interval, which the first such fix closes.
Opened(events) ==
    {[introduced |-> events[j].introduced,
      fixed |-> IF Closing(events, j) = {} THEN Blank ELSE events[Min(Closing(events, j))].fixed] :
        j \in {k \in DOMAIN events : events[k].introduced # None}}

Intervals(id, ecosystem) == UNION {Opened(r.events) : r \in Kept(id, ecosystem)}

Fixes(id, ecosystem) ==
    UNION {{e.fixed : e \in ToSet(r.events)} \ {None} : r \in Kept(id, ecosystem)}

affects(id, ecosystem, v) ==
    \E r \in Intervals(id, ecosystem) :
      v >= r.introduced /\ (r.fixed = Blank \/ v < r.fixed)

\* Mutant: the greatest fix.
MinimumFixGreatest(fixes, current) ==
    LET above == {f \in fixes : f > current}
    IN  IF above = {} THEN Blank ELSE Max(above)

MinimumFix(fixes, current) ==
    LET above == {f \in fixes : f > current}
    IN  IF above = {} THEN Blank ELSE Min(above)

----------------------------------------------------------------------------
(* Queries.                                                                 *)

ecosystemFor(p) ==
    IF p.ecosystem # None THEN p.ecosystem ELSE DefaultEcosystem[p.kind]

Eligible(p) ==
    /\ p.resolved
    /\ p.kind \notin ImageKinds
    /\ ecosystemFor(p) # None
    /\ p.kind = ActionKind => p.commented

\* The results that are asked about.
eligible == {i \in DOMAIN pins : Eligible(pins[i])}

\* The place of a result's pin among the queries,
Place(i) == Cardinality({j \in eligible : j <= i})

\* the results the queries are about,
Indexes == [q \in 1..Cardinality(eligible) |-> CHOOSE i \in eligible : Place(i) = q]

\* and the queries.
Queries == [q \in DOMAIN Indexes |-> pins[Indexes[q]]]

\* What version.Parse makes of a match's whole text: "<sha> # <tag>" has no
\* major version.
Current(p) == IF p.kind = ActionKind THEN 0 ELSE p.version

\* VersionPattern.Matches of the constraint.
Matches(p, v) == v \in p.accepts /\ (p.ceiling # NoCeiling => v < p.ceiling)

\* Mutant: a hold is told of only if the pin itself is above it.
HeldVulnerableByPin(p, patched) ==
    p.ceiling # NoCeiling /\ patched # Blank /\ p.version >= p.ceiling

HeldVulnerable(p, patched) ==
    p.ceiling # NoCeiling /\ patched # Blank /\ ~Matches(p, patched)

buildOSVResult(p, advisories) ==
    LET fixes(id) == Fixes(id, ecosystemFor(p))
        patched   == MinimumFix(UNION {fixes(id) : id \in advisories}, Current(p))
    IN  [findings |-> {[id |-> id, fixed |-> MinimumFix(fixes(id), Current(p))] :
                         id \in advisories},
         patched  |-> patched,
         held     |-> HeldVulnerable(p, patched)]

----------------------------------------------------------------------------
(* OSV, from how internal/osv queries it.                                   *)

\* OSV's own reading of a record: affected since an introduction that no fix
\* has ended.
Affected(id, package, ecosystem, v) ==
    \E r \in ToSet(Record[id]) :
      /\ r.package = package /\ r.ecosystem = ecosystem /\ ~r.git
      /\ \E e \in ToSet(r.events) :
           /\ e.introduced # None /\ e.introduced <= v
           /\ \A g \in ToSet(r.events) :
                g.fixed # None => ~(e.introduced < g.fixed /\ g.fixed <= v)

\* A query without a version names all advisories of its package.
Named(p) ==
    {id \in Ids :
       IF ecosystemFor(p) \in Unversioned
       THEN \E r \in ToSet(Record[id]) :
              r.package = p.package /\ r.ecosystem = ecosystemFor(p)
       ELSE Affected(id, p.package, ecosystemFor(p), p.version)}

----------------------------------------------------------------------------

Init ==
    /\ pins \in Inputs
    /\ scanner \in BOOLEAN
    /\ phase = "query"
    /\ ids = <<>>
    /\ pending = {}
    /\ records = {}
    /\ lost = {}
    /\ out = [i \in DOMAIN pins |-> NoResult]
    /\ scanned = 0

\* No pin to ask about, or no answer to the batch: both end without a word.
SkipOSV ==
    /\ phase = "query"
    /\ phase' = "scan"
    /\ UNCHANGED <<pins, scanner, ids, pending, records, lost, out, scanned>>

\* The answer may be shorter than the queries; what it lacks is empty.
batchQuery ==
    /\ phase = "query"
    /\ Queries # <<>>
    /\ \E n \in 0..Len(Queries) :
         ids' = [q \in DOMAIN Queries |-> IF q <= n THEN Named(Queries[q]) ELSE {}]
    /\ pending' = UNION ToSet(ids')
    /\ phase' = "fetch"
    /\ UNCHANGED <<pins, scanner, records, lost, out, scanned>>

\* Go's order over the map of identifiers is any.
fetchVuln(id) ==
    /\ phase = "fetch"
    /\ id \in pending
    /\ pending' = pending \ {id}
    /\ records' = records \cup {id}
    /\ UNCHANGED <<pins, scanner, phase, ids, lost, out, scanned>>

\* Mutant: one failed fetch gives up the rest.
FetchFailsForAll(id) ==
    /\ phase = "fetch"
    /\ id \in pending
    /\ pending' = {}
    /\ lost' = lost \cup {id}
    /\ UNCHANGED <<pins, scanner, phase, ids, records, out, scanned>>

FetchFails(id) ==
    /\ phase = "fetch"
    /\ id \in pending
    /\ pending' = pending \ {id}
    /\ lost' = lost \cup {id}
    /\ UNCHANGED <<pins, scanner, phase, ids, records, out, scanned>>

\* Mutant: every record is waited for.
FetchedAll ==
    /\ phase = "fetch"
    /\ UNION ToSet(ids) \subseteq records
    /\ phase' = "build"
    /\ UNCHANGED <<pins, scanner, ids, pending, records, lost, out, scanned>>

Fetched ==
    /\ phase = "fetch"
    /\ pending = {}
    /\ phase' = "build"
    /\ UNCHANGED <<pins, scanner, ids, pending, records, lost, out, scanned>>

\* Client.Query's last loop, for one pin and one advisory it was named.
Reads(p, id) ==
    /\ id \in records
    /\ ecosystemFor(p) \in Unversioned => affects(id, ecosystemFor(p), p.version)

\* Mutant: a query's own index is taken for its result's.
BuildAtQuery ==
    /\ phase = "build"
    /\ out' = [i \in DOMAIN pins |->
                 LET about == {id \in Ids : i \in DOMAIN Indexes /\ id \in ids[i] /\ Reads(pins[i], id)}
                 IN  IF about = {} THEN out[i] ELSE buildOSVResult(pins[i], about)]
    /\ phase' = "scan"
    /\ UNCHANGED <<pins, scanner, ids, pending, records, lost, scanned>>

Build ==
    /\ phase = "build"
    /\ out' = [i \in DOMAIN pins |->
                 LET about == {id \in Ids : \E q \in DOMAIN Indexes :
                                 /\ Indexes[q] = i
                                 /\ id \in ids[q] /\ Reads(pins[i], id)}
                 IN  IF about = {} THEN out[i] ELSE buildOSVResult(pins[i], about)]
    /\ phase' = "scan"
    /\ UNCHANGED <<pins, scanner, ids, pending, records, lost, scanned>>

\* Mutant: every pin is taken for an image.
ScannableAny(p) == p.resolved

Scannable(p) == p.resolved /\ p.kind \in ImageKinds

\* trivy's results, one for each target in the image, and grype's matches, of
\* whose fixes the first counts.
toFindings(report) ==
    UNION {{[id |-> s.id, fixed |-> IF s.fixes = <<>> THEN Blank ELSE Head(s.fixes)] :
              s \in ToSet(target)} : target \in ToSet(report)}

\* The fix a scanner names is read by nothing but the report.
ScanImage ==
    /\ phase = "scan"
    /\ scanner
    /\ scanned < Len(pins)
    /\ Scannable(pins[scanned + 1])
    /\ \E report \in ScanReports :
         /\ toFindings(report) # {}
         /\ out' = [out EXCEPT ![scanned + 1] =
                      [NoResult EXCEPT !.findings = toFindings(report)]]
    /\ scanned' = scanned + 1
    /\ UNCHANGED <<pins, scanner, phase, ids, pending, records, lost>>

\* Mutant: one past the end.
PassOverEnd ==
    /\ phase = "scan"
    /\ scanner
    /\ scanned <= Len(pins)
    /\ scanned' = scanned + 1
    /\ UNCHANGED <<pins, scanner, phase, ids, pending, records, lost, out>>

\* A scanner that fails or finds nothing reports nothing; other pins are passed over.
PassOver ==
    /\ phase = "scan"
    /\ scanner
    /\ scanned < Len(pins)
    /\ scanned' = scanned + 1
    /\ UNCHANGED <<pins, scanner, phase, ids, pending, records, lost, out>>

Return ==
    /\ phase = "scan"
    /\ ~scanner \/ scanned = Len(pins)
    /\ phase' = "done"
    /\ UNCHANGED <<pins, scanner, ids, pending, records, lost, out, scanned>>

Done == phase = "done" /\ UNCHANGED vars

Check ==
    \/ SkipOSV \/ batchQuery
    \/ \E id \in Ids : fetchVuln(id) \/ FetchFails(id)
    \/ Fetched \/ Build \/ ScanImage \/ PassOver \/ Return

Next == Check \/ Done

Spec == Init /\ [][Next]_vars /\ WF_vars(Check)

----------------------------------------------------------------------------
(* Properties                                                               *)

\* The types of the state; a result without findings has nothing else either.
TypeOK ==
    /\ pins \in Inputs
    /\ phase \in Phases
    /\ \A q \in DOMAIN ids : ids[q] \subseteq Ids
    /\ pending \cup records \cup lost \subseteq Ids
    /\ DOMAIN out = DOMAIN pins
    /\ \A i \in DOMAIN out :
         /\ out[i].findings \subseteq Finding
         /\ out[i].patched \in Versions \cup {Blank}
         /\ Vulnerable(out[i]) \/ out[i] = NoResult
    /\ scanned \in 0..Len(pins)

\* Queries skip results and are answered in a list of their own: whatever was
\* skipped before it, a pin is told only of advisories on its package, that
\* affect its version by OSV's reading of the ranges in its ecosystem, and of
\* scans only if it is an image.
FindingsAreOwn ==
    \A i \in DOMAIN out : \A x \in out[i].findings :
      LET p == pins[i]
      IN  IF x.id \in Ids
          THEN /\ Eligible(p)
               /\ \E r \in ToSet(Record[x.id]) :
                    r.package = p.package /\ r.ecosystem = ecosystemFor(p)
               /\ \E q \in Packages : Affected(x.id, q, ecosystemFor(p), p.version)
          ELSE p.kind \in ImageKinds

\* A fetch that fails loses its own advisory only: every other one OSV named
\* for a pin and that affects its version is reported for it.
NothingLost ==
    phase = "done" =>
      \A i \in DOMAIN pins :
        LET p == pins[i]
        IN  Eligible(p) /\ ids # <<>> =>
              \A id \in ids[Place(i)] \ lost :
                Affected(id, p.package, ecosystemFor(p), p.version) =>
                  \E x \in out[i].findings : x.id = id

\* An advisory that has one range, of the pin's own package.
Plain(id, p) ==
    /\ \E r \in ToSet(Record[id]) : {s \in ToSet(Record[id]) : ~s.git} = {r}
    /\ \A r \in ToSet(Record[id]) : r.package = p.package
    /\ p.kind # ActionKind

\* The fix reported with such an advisory is the least version above the pin
\* that it does not affect, and none is reported only if it affects them all.
LeastFix ==
    \A i \in DOMAIN out : \A x \in out[i].findings :
      LET p == pins[i]
          clear(v) == ~Affected(x.id, p.package, ecosystemFor(p), v)
      IN  x.id \in Ids /\ Plain(x.id, p) =>
            /\ ~clear(p.version)
            /\ x.fixed # Blank => clear(x.fixed)
            /\ \A v \in Versions : v > p.version /\ (x.fixed = Blank \/ v < x.fixed) => ~clear(v)

\* README.md: "When the only fix sits above the ceiling, the report says held,
\* vulnerable". A pin with a hold whose advisories have fixes, none of them
\* inside its constraint, is reported as such; none without a hold is.
HeldIsSaid ==
    \A i \in DOMAIN out :
      LET p     == pins[i]
          fixes == {x.fixed : x \in out[i].findings} \ {Blank}
      IN  /\ out[i].held => p.ceiling # NoCeiling
          /\ (/\ p.kind \notin ImageKinds /\ p.ceiling # NoCeiling /\ fixes # {}
              /\ \A f \in fixes : ~Matches(p, f)) => out[i].held

\* What one source found is never replaced by the other's.
FindingsKept ==
    [][\A i \in DOMAIN out : Vulnerable(out[i]) => out'[i] = out[i]]_vars

\* Whatever fails, the check ends and the run goes on to its patches.
EventuallyChecked == <>(phase = "done")

\* osv.go:1-3: package osv "computes the minimum version that clears every
\* advisory found". The version reported as patched is affected by none of the
\* advisories reported with it.
PatchedClearsAll ==
    \A i \in DOMAIN out : \A x \in out[i].findings :
      out[i].patched # Blank /\ x.id \in Ids =>
        ~Affected(x.id, pins[i].package, ecosystemFor(pins[i]), out[i].patched)
=============================================================================
