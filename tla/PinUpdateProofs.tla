--------------------------- MODULE PinUpdateProofs ---------------------------
(***************************************************************************)
(* What holds of one pin, from its text to the text an update leaves, for  *)
(* every text, constraint, listing and list of releases.                   *)
(***************************************************************************)
EXTENDS PinUpdate, VersionProofs, SequenceTheorems

----------------------------------------------------------------------------
(* What the registries answer.                                              *)

UsualOf(k, list) ==
    CASE k = "apk" -> {unrevised(t, ApkRevised) : t \in Listed(list, {"alpine"})}
      [] k = "apt" -> {withoutSuffix(t) : t \in Listed(list, {"debian", "ubuntu"})}
      [] k = "yum" -> {unrevised(t, YumRevised) : t \in Listed(list, {"fedora", "centos"})}
      [] OTHER -> Listed(list, {"none"})

LEMMA UsualIsOf == Usual = UsualOf(kind, listing)
BY DEF Usual, UsualOf

LEMMA ListedTags ==
    ASSUME NEW list \in SUBSET Entry, NEW marks
    PROVE  /\ Listed(list, marks) \subseteq Tags
           /\ {withoutSuffix(t) : t \in Listed(list, marks)} \subseteq Tags
           /\ {unrevised(t, ApkRevised) : t \in Listed(list, marks)} \subseteq Tags
           /\ {unrevised(t, YumRevised) : t \in Listed(list, marks)} \subseteq Tags
<1>1. Listed(list, marks) \subseteq Tags
  BY DEF Listed, Entry
<1>2. \A t \in Tags : /\ withoutSuffix(t) \in Tags
                     /\ unrevised(t, ApkRevised) \in Tags
                     /\ unrevised(t, YumRevised) \in Tags
  BY RegistriesAssumption
<1>. QED BY <1>1, <1>2

\* The newest of the tags a pattern matches.
LEMMA NewestMatching ==
    ASSUME NEW tags \in SUBSET Tags, NEW p, NEW t \in Latest(matching(tags, p))
    PROVE  /\ t \in tags /\ Matches(p, t)
           /\ \A v \in tags : Matches(p, v) => ~Newer(v, t)
<1>1. matching(tags, p) \in SUBSET Tag
  BY VersionsAssumption DEF matching
<1>2. t \in matching(tags, p) /\ \A u \in matching(tags, p) : ~Newer(u, t)
  BY <1>1, LatestIsNewest
<1>. QED BY <1>2 DEF matching

\* A resolver that takes, of what a listing may carry, everything usual and
\* nothing else.
LEMMA ReadsUsual ==
    ASSUME NEW list \in SUBSET Entry, NEW marks, NEW t, NEW p,
           "none" \in marks, \A e \in list : e.mark \in marks => e.mark = "none",
           t \in Latest(matching(Listed(list, marks), p))
    PROVE  /\ t \in Tags /\ Matches(p, t) /\ t \in Listed(list, {"none"})
           /\ \A v \in Listed(list, {"none"}) : Matches(p, v) => ~Newer(v, t)
<1>1. Listed(list, marks) = Listed(list, {"none"})
  BY DEF Listed
<1>. QED BY <1>1, ListedTags, NewestMatching

\* Whatever its kind, a registry's answer is a version that fits, and the newest
\* of the usual ones.
LEMMA ResolveFits ==
    ASSUME NEW k \in RegistryKinds, NEW list \in SUBSET Entry, Carries(k, list), NEW p,
           NEW t \in Resolve(k, list, p)
    PROVE  /\ t \in Tags
           /\ k # "github-branch" => Matches(p, t)
           /\ t \in UsualOf(k, list) \cup (IF k = "pypi" THEN Listed(list, Marks) ELSE {})
           /\ \A v \in UsualOf(k, list) : Matches(p, v) => ~Newer(v, t)
<1>1. CASE k \in {"npm", "cdnjs", "docker", "dockerhub", "ghcr", "mise"}
  <2>1. t \in Latest(matching(Listed(list, Marks), p))
    BY <1>1 DEF Resolve, npm, cdnjs, dockerhub, ghcr, miseLsRemote
  <2>2. "none" \in Marks /\ \A e \in list : e.mark \in Marks => e.mark = "none"
    BY <1>1 DEF Carries, Marks
  <2>3. UsualOf(k, list) = Listed(list, {"none"})
    BY <1>1 DEF UsualOf
  <2>. QED BY <1>1, <2>1, <2>2, <2>3, ReadsUsual
<1>2. CASE k = "cargo"
  <2>1. t \in Latest(matching(Listed(list, Marks \ {"yanked"}), p))
    BY <1>2 DEF Resolve, cargo
  <2>2. "none" \in Marks \ {"yanked"} /\ \A e \in list : e.mark \in Marks \ {"yanked"} => e.mark = "none"
    BY <1>2 DEF Carries, Marks
  <2>3. UsualOf(k, list) = Listed(list, {"none"})
    BY <1>2 DEF UsualOf
  <2>. QED BY <1>2, <2>1, <2>2, <2>3, ReadsUsual
<1>3. CASE k = "composer"
  <2>1. t \in Latest(matching(Listed(list, Marks \ {"dev"}), p))
    BY <1>3 DEF Resolve, composer
  <2>2. "none" \in Marks \ {"dev"} /\ \A e \in list : e.mark \in Marks \ {"dev"} => e.mark = "none"
    BY <1>3 DEF Carries, Marks
  <2>3. UsualOf(k, list) = Listed(list, {"none"})
    BY <1>3 DEF UsualOf
  <2>. QED BY <1>3, <2>1, <2>2, <2>3, ReadsUsual
<1>4. CASE k = "rubygems"
  <2>1. t \in Latest(matching(Listed(list, Marks \ {"prerelease"}), p))
    BY <1>4 DEF Resolve, rubygems
  <2>2. "none" \in Marks \ {"prerelease"} /\ \A e \in list : e.mark \in Marks \ {"prerelease"} => e.mark = "none"
    BY <1>4 DEF Carries, Marks
  <2>3. UsualOf(k, list) = Listed(list, {"none"})
    BY <1>4 DEF UsualOf
  <2>. QED BY <1>4, <2>1, <2>2, <2>3, ReadsUsual
<1>5. CASE k \in {"apk", "apt", "yum"}
  <2>1. t \in Latest(matching(UsualOf(k, list), p))
    BY <1>5 DEF Resolve, UsualOf, apk, apt, yum
  <2>2. UsualOf(k, list) \in SUBSET Tags
    BY <1>5, ListedTags DEF UsualOf
  <2>. QED BY <1>5, <2>1, <2>2, NewestMatching
<1>6. CASE k = "pypi"
  <2>1. t \in Latest(matching(Listed(list, Marks), p))
    BY <1>6 DEF Resolve, pypi
  <2>2. UsualOf(k, list) = Listed(list, {"none"}) /\ UsualOf(k, list) \subseteq Listed(list, Marks)
    BY <1>6 DEF UsualOf, Listed, Marks
  <2>. QED BY <1>6, <2>1, <2>2, ListedTags, NewestMatching
<1>7. CASE k = "github-branch"
  <2>1. /\ \A e \in list : e.mark = "none"
        /\ \A x, y \in list : x = y
    BY <1>7 DEF Carries
  <2>2. UsualOf(k, list) = Listed(list, {"none"}) /\ t \in Listed(list, Marks)
    BY <1>7 DEF UsualOf, Resolve, headCommit
  <2>3. t \in Listed(list, {"none"}) /\ \A v \in Listed(list, {"none"}) : v = t
    BY <2>1, <2>2 DEF Listed
  <2>4. t \in Tag /\ t \in Tags
    BY <2>3, ListedTags, VersionsAssumption
  <2>5. ~Newer(t, t)
    BY <2>4, CompareIsNewer, CompareTotal
  <2>. QED BY <1>7, <2>2, <2>3, <2>4, <2>5
<1>. QED BY <1>1, <1>2, <1>3, <1>4, <1>5, <1>6, <1>7 DEF RegistryKinds
----------------------------------------------------------------------------
(* The path of a pin: its stages, its question, its text.                   *)

KindOf(q) ==
    IF q.front = "site" THEN q.kind ELSE IF q.text[q.at].image.ghcr THEN "ghcr" ELSE "docker"

\* The question is the kind's, whatever becomes of the text, and each answer
\* comes from where the kind is answered.
PathInv ==
    /\ pin \in Pins
    /\ kind = KindOf(pin)
    /\ stage \in {"start", "mismatch", "passedOver"} <=> phase = "none"
    /\ stage \in {"rewrite", "reported"} => phase = "offered"
    /\ stage = "rewrite" => pin.front # "check"
    /\ stage = "done" => phase \in {"offered", "held", "failed"}
    /\ phase = "listing" => kind \in RegistryKinds
    /\ phase = "latest" => kind = "mise"
    /\ phase \in {"releases", "chosen", "tags", "held"} => kind \in GitHubKinds

\* A pin that was asked about was found, or is under a directive, as its own
\* text says, and the pattern is that of its site or directive.
AskedOf(q, p) ==
    LET line == q.text[q.at]
        above == DirectiveOf(q.text, q.at)
    IN  /\ above # None
        /\ ~above.ignore
        /\ line.image # None
        /\ above.items # <<>>
        /\ ~parsePackageDirective(above.items[1]).ignore
        /\ q.front = "update" => answersUpdate(line.image)
        /\ p = parsePackageDirective(above.items[1]).pattern

QuestionInv ==
    /\ phase # "none" =>
         IF InDockerfile THEN AskedOf(pin, pattern)
         ELSE found = L!Find(pin.text, pin.site)
    /\ stage = "mismatch" => ~InDockerfile /\ candidates = L!Rescan(pin.text, pin.site)

\* The text an update leaves, in terms of the pin's own.
RewrittenOf(q, matches, tag) ==
    IF q.front # "site" THEN [q.text EXCEPT ![q.at] = applyUpdate(@, tag)]
    ELSE [f \in DOMAIN q.text |->
            IF \E m \in matches : m[1] = f THEN L!Patch(q.text[f], q.site, tag) ELSE q.text[f]]

TextInv ==
    \/ text = pin.text
    \/ /\ stage = "done" /\ phase = "offered" /\ pin.front # "check"
       /\ text = RewrittenOf(pin, found, offered)

PinInv == TypeOK /\ PathInv /\ QuestionInv /\ TextInv

\* What the assumption says of one pin.
LEMMA PinFacts ==
    ASSUME pin \in Pins
    PROVE  /\ pin.front \in Fronts
           /\ ~InDockerfile =>
                /\ pin.kind \in RegistryKinds \cup GitHubKinds /\ pin.pattern \in Patterns
                /\ pin.text \in Seq(Seq([key : Keys, version : Tags \cup {None}]))
                /\ pin.site.files \subseteq DOMAIN pin.text /\ pin.site.window \in Int
           /\ InDockerfile =>
                /\ pin.text \in Seq(Line)
                /\ pin.at \in DOMAIN pin.text /\ pin.text[pin.at].is = "instruction"
BY PinsAssumption DEF InDockerfile

LEMMA KindType ==
    ASSUME pin \in Pins, kind = KindOf(pin)
    PROVE  kind \in RegistryKinds \cup GitHubKinds
BY PinFacts DEF KindOf, InDockerfile, RegistryKinds, Fronts

LEMMA PatternTypes ==
    /\ AnyVersion \in Pattern
    /\ \A i \in Item : /\ i.pattern \in Pattern
                       /\ parsePackageDirective(i).pattern \in Pattern
<1>1. AnyVersion \in Pattern
  BY DEF AnyVersion, Pattern, Segment
<1>2. [AnyVersion EXCEPT !.suffixes = {}] \in Pattern
  BY DEF AnyVersion, Pattern, Segment
<1>3. \A i \in Item : i.pattern \in Pattern
  BY VersionsAssumption DEF Item
<1>. QED BY <1>1, <1>2, <1>3 DEF parsePackageDirective

\* An instruction keeps its place in a Dockerfile and its image's registry.
LEMMA UpdatedLine ==
    ASSUME NEW line \in Line, line.is = "instruction", line.image # None, NEW new \in Tags
    PROVE  /\ applyUpdate(line, new) \in Line
           /\ applyUpdate(line, new).image =
                [line.image EXCEPT !.tag = new, !.digest = FALSE, !.port = FALSE]
           /\ applyUpdate(line, new).image.ghcr = line.image.ghcr
           /\ DOMAIN applyUpdate(line, new).others = DOMAIN line.others
<1>1. /\ line \in [is : {"instruction"}, command : {"FROM", "COPY", "RUN"},
                   image : Reference \cup {None}, others : Seq(Tags \cup {Garbled})]
  BY DEF Line
<1>2. line.image \in Reference /\ line.others \in Seq(Tags \cup {Garbled})
  BY <1>1
<1>. DEFINE image2 == [line.image EXCEPT !.tag = new, !.digest = FALSE, !.port = FALSE]
            others2 == applyUpdate(line, new).others
<1>3. image2 \in Reference /\ image2.ghcr = line.image.ghcr
  BY <1>2 DEF Reference
<1>4. /\ applyUpdate(line, new) = [line EXCEPT !.image = image2, !.others = others2]
      /\ others2 = [k \in DOMAIN line.others |-> others2[k]]
      /\ \A k \in DOMAIN line.others : others2[k] \in {line.others[k], new, Garbled}
  BY <1>1, <1>2 DEF applyUpdate
<1>5. others2 \in Seq(Tags \cup {Garbled})
  <2>1. PICK n \in Nat : line.others \in [1..n -> Tags \cup {Garbled}]
    BY <1>2, SeqDef
  <2>2. \A k \in 1..n : line.others[k] \in Tags \cup {Garbled}
    BY <2>1
  <2>3. DOMAIN line.others = 1..n
    BY <2>1
  <2>4. others2 \in [1..n -> Tags \cup {Garbled}]
    <3>. HIDE DEF others2
    <3>. QED BY <1>4, <2>2, <2>3
  <2>. HIDE DEF others2
  <2>. QED BY <2>4, SeqDef
<1>. QED BY <1>1, <1>3, <1>4, <1>5 DEF Line
\* What Find and Rescan return names files and lines.
LEMMA WindowPositive ==
    ASSUME pin \in Pins, ~InDockerfile
    PROVE  L!WindowSize(pin.site) \in Nat \ {0}
BY PinFacts DEF L!WindowSize

LEMMA SiteText ==
    ASSUME pin \in Pins, ~InDockerfile, NEW f \in pin.site.files
    PROVE  /\ f \in Nat /\ f \in DOMAIN pin.text
           /\ pin.text[f] \in Seq([key : Keys, version : Tags \cup {None}])
           /\ Len(pin.text[f]) \in Nat /\ DOMAIN pin.text[f] = 1..Len(pin.text[f])
BY PinFacts

\* A match lies in its window, and the window in the file.
LEMMA FoundInWindow ==
    ASSUME pin \in Pins, ~InDockerfile, NEW m \in L!Find(pin.text, pin.site)
    PROVE  \E f \in pin.site.files : \E i \in L!Windows(pin.text[f], pin.site) :
             \E j \in L!Captured(SubSeq(pin.text[f], i, i + L!WindowSize(pin.site) - 1), pin.site) :
               m = <<f, i, i + j - 1>>
BY DEF L!Find, L!FindIn

LEMMA CapturedInBlock ==
    ASSUME NEW block, NEW site
    PROVE  L!Captured(block, site) \subseteq DOMAIN block
BY DEF L!Captured

LEMMA Block ==
    ASSUME pin \in Pins, ~InDockerfile, NEW f \in pin.site.files,
           NEW i \in L!Windows(pin.text[f], pin.site)
    PROVE  LET size == L!WindowSize(pin.site)
               block == SubSeq(pin.text[f], i, i + size - 1)
           IN  /\ i \in Nat \ {0} /\ i + size - 1 <= Len(pin.text[f])
               /\ DOMAIN block = 1..size
               /\ \A j \in 1..size : block[j] = pin.text[f][i + j - 1]
<1>. DEFINE size == L!WindowSize(pin.site)
            block == SubSeq(pin.text[f], i, i + size - 1)
<1>1. size \in Nat \ {0}
  BY WindowPositive
<1>2. Len(pin.text[f]) \in Nat /\ pin.text[f] \in Seq([key : Keys, version : Tags \cup {None}])
  BY SiteText
<1>3. i \in 1..(Len(pin.text[f]) - size + 1)
  BY DEF L!Windows
<1>. HIDE DEF size
<1>4. i \in Nat \ {0} /\ i + size - 1 \in Nat /\ i + size - 1 <= Len(pin.text[f])
  BY <1>1, <1>2, <1>3
<1>5. Len(block) = size /\ \A j \in 1..size : block[j] = pin.text[f][i + j - 1]
  BY <1>1, <1>2, <1>4
<1>6. DOMAIN block = 1..size
  BY <1>1, <1>2, <1>4, <1>5
<1>. QED BY <1>4, <1>5, <1>6 DEF size

LEMMA FoundType ==
    ASSUME pin \in Pins, ~InDockerfile
    PROVE  L!Find(pin.text, pin.site) \subseteq Nat \X Nat \X Nat
<1>. SUFFICES ASSUME NEW m \in L!Find(pin.text, pin.site)
              PROVE  m \in Nat \X Nat \X Nat
  OBVIOUS
<1>. DEFINE Shown(f, i, j) ==
              /\ j \in L!Captured(SubSeq(pin.text[f], i, i + L!WindowSize(pin.site) - 1), pin.site)
              /\ m = <<f, i, i + j - 1>>
<1>0. PICK f \in pin.site.files : \E i \in L!Windows(pin.text[f], pin.site) : \E j : Shown(f, i, j)
  BY FoundInWindow
<1>1. PICK i \in L!Windows(pin.text[f], pin.site) : \E j : Shown(f, i, j)
  BY <1>0
<1>2. PICK j : Shown(f, i, j)
  BY <1>1
<1>3. j \in 1..L!WindowSize(pin.site)
  <2>1. j \in DOMAIN SubSeq(pin.text[f], i, i + L!WindowSize(pin.site) - 1)
    BY <1>2, CapturedInBlock
  <2>. QED BY <2>1, Block
<1>4. f \in Nat /\ i \in Nat \ {0} /\ j \in Nat \ {0}
  BY <1>3, SiteText, Block, WindowPositive
<1>. QED BY <1>2, <1>4

LEMMA RescanType ==
    ASSUME pin \in Pins, ~InDockerfile
    PROVE  L!Rescan(pin.text, pin.site) \subseteq Nat \X Nat
<1>. SUFFICES ASSUME NEW f \in pin.site.files, NEW j \in DOMAIN pin.text[f]
              PROVE  <<f, j>> \in Nat \X Nat
  BY DEF L!Rescan
<1>. QED BY SiteText

\* A release, a tag and a listed version are versions.
LEMMA UndatedType ==
    ASSUME NEW list \in TagLists
    PROVE  Undated(list) \in Seq(Release)
<1>1. list \in Seq(Tags)
  BY ReleasesAssumption
<1>2. \A k \in 1..Len(list) : list[k] \in Tags
  BY <1>1, ElementOfSeq
<1>3. Undated(list) = [k \in 1..Len(list) |->
        [tag |-> list[k], prerelease |-> FALSE, draft |-> FALSE, age |-> "undated"]]
  BY <1>1 DEF Undated
<1>4. Undated(list) \in [1..Len(list) -> Release]
  BY <1>2, <1>3 DEF Release, Ages
<1>5. Len(list) \in Nat
  BY <1>1
<1>. QED BY <1>4, <1>5, SeqDef
LEMMA KindStays ==
    ASSUME pin' = pin, text' = text
    PROVE  kind' = kind /\ InDockerfile' = InDockerfile /\ KindOf(pin)' = KindOf(pin)
BY DEF kind, image, InDockerfile, KindOf

\* Until its text is rewritten, a pin's text is its own.
LEMMA OwnText ==
    ASSUME TextInv, stage # "done"
    PROVE  text = pin.text
BY DEF TextInv

LEMMA InitPin == Init => PinInv
<1>. SUFFICES ASSUME Init PROVE PinInv
  OBVIOUS
<1>1. pin \in Pins /\ text = pin.text /\ stage = "start" /\ phase = "none"
  BY DEF Init
<1>2. TypeOK
  BY <1>1, PinFacts, PatternTypes, VersionsAssumption DEF Init, TypeOK, Stages, InDockerfile, Fronts
<1>3. PathInv
  BY <1>1 DEF PathInv, kind, KindOf, image, InDockerfile
<1>4. QuestionInv /\ TextInv
  BY <1>1 DEF QuestionInv, TextInv
<1>. QED BY <1>2, <1>3, <1>4 DEF PinInv

\* A question starts where its kind is answered.
LEMMA AskStep ==
    ASSUME PinInv, NEW p \in Pattern, Ask(p), stage = "start",
           pin' = pin, text' = text, UNCHANGED <<listing, cooldown, releases, offered>>
    PROVE  /\ PathInv'
           /\ stage' = "resolve" /\ pattern' = p
           /\ phase' \in {"listing", "latest", "releases"} /\ offered' = None
<1>1. kind \in RegistryKinds \cup GitHubKinds
  BY KindType DEF PinInv, PathInv
<1>2. phase' \in {"listing", "latest", "releases"}
      /\ (phase' = "listing" => kind \in RegistryKinds)
      /\ (phase' = "latest" => kind = "mise")
      /\ (phase' = "releases" => kind \in GitHubKinds)
  BY <1>1 DEF Ask
<1>3. offered = None
  BY DEF PinInv, PathInv, TypeOK
<1>4. PathInv'
  BY <1>2, KindStays DEF PinInv, PathInv, Ask
<1>. QED BY <1>2, <1>3, <1>4 DEF Ask

LEMMA LocatePin ==
    ASSUME PinInv, Locate
    PROVE  PinInv'
<1>. USE DEF PinInv
<1>1. pin \in Pins /\ ~InDockerfile /\ text = pin.text /\ phase = "none" /\ pin.front = "site"
  BY OwnText DEF PathInv, Locate, InDockerfile
<1>2. found' = L!Find(pin.text, pin.site) /\ found' \subseteq Nat \X Nat \X Nat
  BY <1>1, FoundType DEF Locate
<1>3. pin.pattern \in Pattern
  BY <1>1, PinFacts, VersionsAssumption
<1>4. /\ pin' = pin /\ text' = text /\ ~InDockerfile'
      /\ UNCHANGED <<listing, cooldown, releases, offered>>
  BY <1>1 DEF Locate, InDockerfile
<1>5. CASE Ask(pin.pattern) /\ UNCHANGED candidates
  <2>1. /\ PathInv' /\ stage' = "resolve" /\ pattern' = pin.pattern
        /\ phase' \in {"listing", "latest", "releases"} /\ offered' = None
    BY <1>3, <1>4, <1>5, AskStep DEF Locate
  <2>2. TypeOK'
    BY <1>1, <1>2, <1>3, <1>4, <1>5, <2>1 DEF TypeOK, Stages
  <2>3. QuestionInv' /\ TextInv'
    BY <1>1, <1>2, <1>4, <2>1 DEF QuestionInv, TextInv
  <2>. QED BY <2>1, <2>2, <2>3
<1>6. CASE /\ stage' = "mismatch" /\ candidates' = L!Rescan(text, pin.site)
           /\ UNCHANGED <<pattern, phase>>
  <2>1. candidates' = L!Rescan(pin.text, pin.site) /\ candidates' \subseteq Nat \X Nat
    BY <1>1, <1>6, RescanType
  <2>2. TypeOK'
    BY <1>1, <1>2, <1>4, <1>6, <2>1 DEF TypeOK, Stages
  <2>3. PathInv'
    BY <1>1, <1>4, <1>6, KindStays DEF PathInv
  <2>4. QuestionInv' /\ TextInv'
    BY <1>1, <1>4, <1>6, <2>1 DEF QuestionInv, TextInv
  <2>. QED BY <2>2, <2>3, <2>4
<1>. QED BY <1>5, <1>6 DEF Locate

\* The line above an instruction, when it is a directive, is one of the text's.
LEMMA DirectiveType ==
    ASSUME pin \in Pins, InDockerfile, DirectiveOf(pin.text, pin.at) # None,
           DirectiveOf(pin.text, pin.at).items # <<>>
    PROVE  LET above == DirectiveOf(pin.text, pin.at)
           IN  /\ pin.at > 1 /\ above = pin.text[pin.at - 1] /\ above.is = "directive"
               /\ above.items[1] \in Item
<1>1. pin.text \in Seq(Line) /\ pin.at \in DOMAIN pin.text
  BY PinFacts
<1>2. /\ pin.at > 1 /\ DirectiveOf(pin.text, pin.at) = pin.text[pin.at - 1]
      /\ pin.text[pin.at - 1].is = "directive"
  BY DEF DirectiveOf
<1>3. pin.text[pin.at - 1] \in Line
  BY <1>1, <1>2
<1>4. pin.text[pin.at - 1].items \in Seq(Item)
  BY <1>2, <1>3 DEF Line
<1>5. pin.text[pin.at - 1].items[1] \in Item
  BY <1>2, <1>4
<1>. QED BY <1>2, <1>5

LEMMA ReadInstructionPin ==
    ASSUME PinInv, ReadInstruction
    PROVE  PinInv'
<1>. USE DEF PinInv
<1>1. pin \in Pins /\ InDockerfile /\ text = pin.text /\ phase = "none" /\ pin.front # "site"
  BY OwnText DEF PathInv, ReadInstruction, InDockerfile
<1>2. /\ pin' = pin /\ text' = text /\ InDockerfile'
      /\ UNCHANGED <<found, candidates, listing, cooldown, releases, offered>>
  BY <1>1 DEF ReadInstruction, InDockerfile
<1>. DEFINE p == parsePackageDirective(directive.items[1]).pattern
<1>3. CASE Asks /\ Ask(p)
  <2>1. AskedOf(pin, p)
    BY <1>1, <1>3 DEF Asks, AskedOf, directive, image
  <2>2. p \in Pattern
    BY <1>1, <2>1, DirectiveType, PatternTypes DEF AskedOf, directive
  <2>. HIDE DEF p
  <2>3. /\ PathInv' /\ stage' = "resolve" /\ pattern' = p
        /\ phase' \in {"listing", "latest", "releases"} /\ offered' = None
    BY <1>2, <1>3, <2>2, AskStep DEF ReadInstruction
  <2>4. TypeOK'
    BY <1>1, <1>2, <2>2, <2>3 DEF TypeOK, Stages
  <2>5. QuestionInv' /\ TextInv'
    BY <1>1, <1>2, <2>1, <2>3 DEF QuestionInv, TextInv
  <2>. QED BY <2>3, <2>4, <2>5
<1>4. CASE stage' = "passedOver" /\ UNCHANGED <<pattern, phase>>
  <2>1. TypeOK'
    BY <1>1, <1>2, <1>4 DEF TypeOK, Stages
  <2>2. PathInv'
    BY <1>1, <1>2, <1>4, KindStays DEF PathInv
  <2>3. QuestionInv' /\ TextInv'
    BY <1>1, <1>2, <1>4 DEF QuestionInv, TextInv
  <2>. QED BY <2>1, <2>2, <2>3
<1>. QED BY <1>3, <1>4 DEF ReadInstruction
\* What the actions that ask a registry may do to the rest: the answer's place
\* and value change, and nothing else of the pin.
ResolveFrame ==
    /\ stage = "resolve"
    /\ UNCHANGED <<pin, text, found, candidates, stage, pattern, cooldown>>

LEMMA ResolveStep ==
    ASSUME PinInv, ResolveFrame,
           listing' \subseteq Entry, releases' \in Seq(Release),
           phase' \in {"listing", "chosen", "tags", "offered", "held", "failed"},
           offered' \in Tags \cup {None}, phase' = "offered" <=> offered' # None,
           phase' = "listing" => kind \in RegistryKinds,
           phase' \in {"chosen", "tags", "held"} => kind \in GitHubKinds
    PROVE  PinInv'
<1>. USE DEF PinInv, ResolveFrame
<1>1. text = pin.text
  BY OwnText
<1>2. TypeOK'
  BY KindStays DEF TypeOK
<1>3. PathInv'
  BY KindStays DEF PathInv
<1>4. QuestionInv'
  BY KindStays DEF QuestionInv, PathInv
<1>5. TextInv'
  BY <1>1 DEF TextInv
<1>. QED BY <1>2, <1>3, <1>4, <1>5

LEMMA FetchListingPin ==
    ASSUME PinInv, ResolveFrame, FetchListing
    PROVE  PinInv'
<1>1. kind \in RegistryKinds /\ listing' \subseteq Entry /\ Carries(kind, listing')
  BY PinsAssumption DEF PinInv, PathInv, FetchListing
<1>2. /\ phase' \in {"offered", "failed"} /\ offered' \in Tags \cup {None}
      /\ phase' = "offered" <=> offered' # None
  <2>1. \A tag \in Resolve(kind, listing', pattern) : tag \in Tags
    BY <1>1, ResolveFits
  <2>2. \A tag \in Resolve(kind, listing', pattern) : tag # None
    BY <2>1, VersionsAssumption
  <2>. QED BY <2>1, <2>2 DEF FetchListing, Finish
<1>3. releases' \in Seq(Release)
  BY DEF PinInv, TypeOK, FetchListing
<1>. QED BY <1>1, <1>2, <1>3, ResolveStep

LEMMA MatchingTags == \A p : matching(Tags, p) \subseteq Tags
BY DEF matching

LEMMA OtherAnswersPin ==
    ASSUME PinInv, ResolveFrame, FetchListingFails \/ MiseLatest \/ FetchCommitFails
    PROVE  PinInv'
<1>1. listing' \subseteq Entry /\ releases' \in Seq(Release)
  BY DEF PinInv, TypeOK, FetchListingFails, MiseLatest, FetchCommitFails
<1>2. CASE FetchListingFails \/ FetchCommitFails
  <2>1. phase' = "failed" /\ offered' = None
    BY <1>2 DEF FetchListingFails, FetchCommitFails, Finish
  <2>. QED BY <1>1, <2>1, ResolveStep
<1>3. CASE MiseLatest
  <2>1. kind \in RegistryKinds
    BY <1>3 DEF PinInv, PathInv, MiseLatest, RegistryKinds
  <2>2. \/ phase' = "offered" /\ offered' \in Tags
        \/ phase' = "listing" /\ offered' = None
    BY <1>3, MatchingTags DEF MiseLatest, Finish
  <2>. QED BY <1>1, <2>1, <2>2, ResolveStep, VersionsAssumption
<1>. QED BY <1>2, <1>3

LEMMA AskGitHubPin ==
    ASSUME PinInv, ResolveFrame, AskGitHub, UNCHANGED listing
    PROVE  PinInv'
<1>1. listing' \subseteq Entry /\ releases \in Seq(Release)
  BY DEF PinInv, TypeOK
<1>2. kind \in GitHubKinds
  BY DEF PinInv, PathInv, AskGitHub, FetchReleasesFails, FetchReleases, Choose,
         FetchTagsFails, FetchTags
<1>3. CASE FetchReleasesFails \/ FetchTagsFails
  <2>1. phase' = "failed" /\ offered' = None /\ releases' = releases
    BY <1>3 DEF FetchReleasesFails, FetchTagsFails, Finish
  <2>. QED BY <1>1, <1>2, <2>1, ResolveStep
<1>4. CASE FetchReleases
  <2>1. phase' = "chosen" /\ offered' = None /\ releases' \in Seq(Release)
    BY <1>4, ReleasesAssumption DEF FetchReleases, Finish
  <2>. QED BY <1>1, <1>2, <2>1, ResolveStep
<1>5. CASE Choose
  <2>1. \A tag \in bestRelease(releases, pattern, cooldown) : tag \in Tags /\ tag # None
    BY <1>1, BestIsNewest, VersionsAssumption
  <2>2. /\ phase' \in {"tags", "offered", "held"} /\ offered' \in Tags \cup {None}
        /\ phase' = "offered" <=> offered' # None
        /\ releases' = releases
    BY <1>5, <2>1 DEF Choose, Finish
  <2>. QED BY <1>1, <1>2, <2>2, ResolveStep
<1>6. CASE FetchTags
  <2>1. PICK list \in TagLists :
          LET best == bestRelease(Undated(list), pattern, FALSE)
          IN  IF best # {} THEN \E tag \in best : Finish("offered", tag)
              ELSE Finish("failed", None)
    BY <1>6 DEF FetchTags
  <2>2. \A tag \in bestRelease(Undated(list), pattern, FALSE) : tag \in Tags /\ tag # None
    BY UndatedType, BestIsNewest, VersionsAssumption
  <2>3. /\ phase' \in {"offered", "failed"} /\ offered' \in Tags \cup {None}
        /\ phase' = "offered" <=> offered' # None
        /\ releases' = releases
    BY <1>6, <2>1, <2>2 DEF FetchTags, Finish
  <2>. QED BY <1>1, <1>2, <2>3, ResolveStep
<1>. QED BY <1>3, <1>4, <1>5, <1>6 DEF AskGitHub

LEMMA ResolvePinPin ==
    ASSUME PinInv, ResolvePin
    PROVE  PinInv'
<1>1. ResolveFrame
  BY DEF ResolvePin, ResolveFrame, FetchListing, FetchListingFails, MiseLatest, FetchCommitFails,
         AskGitHub, FetchReleasesFails, FetchReleases, Choose, FetchTagsFails, FetchTags, question
<1>. QED BY <1>1, FetchListingPin, OtherAnswersPin, AskGitHubPin DEF ResolvePin

LEMMA AnsweredPin ==
    ASSUME PinInv, Answered
    PROVE  PinInv'
<1>. USE DEF PinInv
<1>1. text = pin.text /\ phase # "none"
  BY OwnText DEF Answered
<1>2. /\ stage' \in {"done", "reported", "rewrite"}
      /\ stage' \in {"reported", "rewrite"} => phase = "offered"
      /\ stage' = "rewrite" => pin.front # "check"
  BY DEF Answered
<1>3. TypeOK'
  BY <1>2, KindStays DEF TypeOK, Answered, Stages
<1>4. PathInv'
  BY <1>1, <1>2, KindStays DEF PathInv, Answered
<1>5. QuestionInv'
  BY <1>1, <1>2, KindStays DEF QuestionInv, Answered
<1>6. TextInv'
  BY <1>1 DEF TextInv, Answered
<1>. QED BY <1>3, <1>4, <1>5, <1>6

\* A rewrite leaves a text of the same shape, and the same registry named in it.
LEMMA RewritePin ==
    ASSUME PinInv, Rewrite
    PROVE  PinInv'
<1>. USE DEF PinInv
<1>1. /\ text = pin.text /\ stage = "rewrite" /\ phase = "offered"
      /\ offered \in Tags /\ pin \in Pins /\ pin.front # "check"
  BY OwnText DEF PathInv, TypeOK, TextInv, Rewrite
<1>2. /\ stage' = "done" /\ pin' = pin /\ InDockerfile' = InDockerfile /\ KindOf(pin)' = KindOf(pin)
      /\ UNCHANGED <<found, candidates, listing, pattern, cooldown, releases, phase, offered>>
  BY DEF Rewrite, InDockerfile, KindOf
<1>3. text' = RewrittenOf(pin, found, offered)
  BY <1>1 DEF Rewrite, RewrittenOf, InDockerfile
<1>4. QuestionInv' /\ TextInv'
  BY <1>1, <1>2, <1>3 DEF QuestionInv, TextInv
<1>5. CASE ~InDockerfile
  <2>1. DOMAIN text' = DOMAIN pin.text
    BY <1>3, <1>5 DEF RewrittenOf, InDockerfile
  <2>2. kind' = kind
    BY <1>2, <1>5 DEF kind
  <2>3. TypeOK'
    BY <1>1, <1>2, <1>5, <2>1 DEF TypeOK, Stages
  <2>4. PathInv'
    BY <1>1, <1>2, <2>2 DEF PathInv
  <2>. QED BY <1>4, <2>3, <2>4
<1>6. CASE InDockerfile
  <2>1. /\ pin.text \in Seq(Line) /\ pin.at \in DOMAIN pin.text
        /\ pin.text[pin.at].is = "instruction" /\ pin.text[pin.at].image # None
    BY <1>1, <1>6, PinFacts DEF QuestionInv, AskedOf
  <2>2. pin.text[pin.at] \in Line
    BY <2>1
  <2>. DEFINE new == applyUpdate(pin.text[pin.at], offered)
  <2>3. new \in Line /\ new.image.ghcr = pin.text[pin.at].image.ghcr
    BY <1>1, <2>1, <2>2, UpdatedLine
  <2>. HIDE DEF new
  <2>4. text' = [pin.text EXCEPT ![pin.at] = new]
    BY <1>3, <1>6 DEF RewrittenOf, InDockerfile, new
  <2>5. text' \in Seq(Line) /\ text'[pin.at] = new
    BY <2>1, <2>3, <2>4
  <2>6. kind' = kind
    BY <1>1, <1>2, <1>6, <2>3, <2>5 DEF kind, image, InDockerfile
  <2>7. TypeOK'
    BY <1>1, <1>2, <1>6, <2>5 DEF TypeOK, Stages
  <2>8. PathInv'
    BY <1>1, <1>2, <2>6 DEF PathInv
  <2>. QED BY <1>4, <2>7, <2>8
<1>. QED BY <1>5, <1>6

LEMMA PinStep == PinInv /\ [Next]_vars => PinInv'
<1>. SUFFICES ASSUME PinInv, [Next]_vars PROVE PinInv'
  OBVIOUS
<1>1. CASE UNCHANGED vars
  BY <1>1, KindStays DEF vars, PinInv, TypeOK, PathInv, QuestionInv, TextInv
<1>2. CASE Next
  BY <1>1, <1>2, LocatePin, ReadInstructionPin, ResolvePinPin, AnsweredPin, RewritePin
     DEF Next, Done
<1>. QED BY <1>1, <1>2

\* Whatever the texts, listings and releases, a pin is only ever offered a
\* version, and its text keeps its shape.
THEOREM TypeCorrect == Spec => []TypeOK
<1>1. PinInv => TypeOK
  BY DEF PinInv
<1>. QED BY <1>1, InitPin, PinStep, PTL DEF Spec----------------------------------------------------------------------------
(* The answer.                                                              *)

\* The newest of what fits: of a registry's usual versions, or of the releases
\* that are old enough, when there is any release to choose from.
AnswerInv ==
    /\ phase = "offered" /\ kind # "github-branch" => Matches(pattern, offered)
    /\ phase = "offered" /\ kind \in RegistryKinds \ {"mise"} =>
         /\ offered \in UsualOf(kind, listing)
                        \cup (IF kind = "pypi" THEN Listed(listing, Marks) ELSE {})
         /\ \A v \in UsualOf(kind, listing) : Matches(pattern, v) => ~Newer(v, offered)
    /\ phase = "offered" /\ kind \in GitHubKinds /\ Fit # {} =>
         /\ \E i \in Fit : releases[i].tag = offered /\ ~Young(i)
         /\ \A i \in Fit : ~Young(i) => ~Newer(releases[i].tag, offered)
    /\ phase = "held" => Fit # {} /\ \A i \in Fit : Young(i)
    /\ phase = "tags" => Fit = {}

LEMMA FitChoosable ==
    /\ Fit = Choosable(releases, pattern, FALSE)
    /\ \A i : i \in Choosable(releases, pattern, cooldown) <=> i \in Fit /\ ~Young(i)
BY DEF Fit, Flagged, Young, Choosable, Stable, tooNew

LEMMA AnswerStays ==
    ASSUME AnswerInv, kind' = kind,
           UNCHANGED <<listing, pattern, cooldown, releases, phase, offered>>
    PROVE  AnswerInv'
<1>1. Fit' = Fit /\ \A i : Young(i)' <=> Young(i)
  BY DEF Fit, Flagged, Young
<1>. QED BY <1>1 DEF AnswerInv

LEMMA ChooseAnswer ==
    ASSUME PinInv, Choose, kind' = kind
    PROVE  AnswerInv'
<1>1. /\ UNCHANGED <<pattern, cooldown, releases>> /\ releases \in Seq(Release)
      /\ phase = "chosen" /\ kind \in GitHubKinds
  BY DEF Choose, question, PinInv, TypeOK, PathInv
<1>2. kind \notin RegistryKinds
  BY <1>1 DEF GitHubKinds, RegistryKinds
<1>3. Fit' = Fit /\ \A i : Young(i)' <=> Young(i)
  BY <1>1 DEF Fit, Flagged, Young
<1>. DEFINE best == bestRelease(releases, pattern, cooldown)
<1>4. CASE best # {}
  <2>1. phase' = "offered" /\ offered' \in best
    BY <1>4 DEF Choose, Finish
  <2>2. /\ \E i \in Choosable(releases, pattern, cooldown) : releases[i].tag = offered'
        /\ \A i \in Choosable(releases, pattern, cooldown) : ~Newer(releases[i].tag, offered')
    BY <1>1, <2>1, BestIsNewest
  <2>3. /\ \E i \in Fit : releases[i].tag = offered' /\ ~Young(i)
        /\ \A i \in Fit : ~Young(i) => ~Newer(releases[i].tag, offered')
    BY <2>2, FitChoosable
  <2>4. Matches(pattern, offered')
    BY <2>3 DEF Fit
  <2>. QED BY <1>1, <1>2, <1>3, <2>1, <2>3, <2>4 DEF AnswerInv
<1>5. CASE best = {}
  <2>1. Choosable(releases, pattern, cooldown) = {}
    BY <1>1, <1>5, BestExists
  <2>2. \A i \in Fit : Young(i)
    BY <2>1, FitChoosable
  <2>3. CASE heldByCooldown
    <3>1. phase' = "held"
      BY <1>5, <2>3 DEF Choose, Finish
    <3>2. Choosable(releases, pattern, FALSE) # {}
      BY <1>1, <2>3, BestIsNewest DEF heldByCooldown
    <3>3. Fit # {}
      BY <3>2, FitChoosable
    <3>. QED BY <1>3, <2>2, <3>1, <3>3 DEF AnswerInv
  <2>4. CASE ~heldByCooldown
    <3>1. phase' = "tags"
      BY <1>5, <2>4 DEF Choose, Finish
    <3>2. bestRelease(releases, pattern, FALSE) = {}
      BY <1>5, <2>4, <1>1 DEF heldByCooldown, PinInv, TypeOK
    <3>3. Fit = {}
      BY <1>1, <3>2, BestExists, FitChoosable
    <3>. QED BY <1>3, <3>1, <3>3 DEF AnswerInv
  <2>. QED BY <2>3, <2>4
<1>. QED BY <1>4, <1>5

LEMMA FetchTagsAnswer ==
    ASSUME PinInv, AnswerInv, FetchTags, kind' = kind
    PROVE  AnswerInv'
<1>1. /\ UNCHANGED <<pattern, cooldown, releases>> /\ Fit = {} /\ kind \in GitHubKinds
  BY DEF FetchTags, question, PinInv, PathInv, AnswerInv
<1>2. Fit' = {} /\ kind \notin RegistryKinds
  BY <1>1 DEF Fit, Flagged, GitHubKinds, RegistryKinds
<1>3. PICK list \in TagLists :
        LET best == bestRelease(Undated(list), pattern, FALSE)
        IN  IF best # {} THEN \E tag \in best : Finish("offered", tag)
            ELSE Finish("failed", None)
  BY DEF FetchTags
<1>4. \A tag \in bestRelease(Undated(list), pattern, FALSE) : Matches(pattern, tag)
  <2>. TAKE tag \in bestRelease(Undated(list), pattern, FALSE)
  <2>1. PICK i \in Choosable(Undated(list), pattern, FALSE) : Undated(list)[i].tag = tag
    BY UndatedType, BestIsNewest
  <2>. QED BY <2>1 DEF Choosable, Stable
<1>5. \/ phase' = "offered" /\ Matches(pattern, offered')
      \/ phase' = "failed"
  BY <1>3, <1>4 DEF Finish
<1>. QED BY <1>1, <1>2, <1>5 DEF AnswerInv

LEMMA FetchListingAnswer ==
    ASSUME PinInv, FetchListing, kind' = kind
    PROVE  AnswerInv'
<1>1. /\ pattern' = pattern /\ kind \in RegistryKinds
      /\ listing' \in SUBSET Entry /\ Carries(kind, listing')
  BY PinsAssumption DEF PinInv, PathInv, FetchListing, question
<1>2. kind \notin GitHubKinds
  BY <1>1 DEF GitHubKinds, RegistryKinds
<1>3. \/ phase' = "offered" /\ offered' \in Resolve(kind, listing', pattern)
      \/ phase' = "failed"
  BY DEF FetchListing, Finish
<1>4. phase' = "offered" =>
        /\ kind # "github-branch" => Matches(pattern, offered')
        /\ offered' \in UsualOf(kind, listing')
                        \cup (IF kind = "pypi" THEN Listed(listing', Marks) ELSE {})
        /\ \A v \in UsualOf(kind, listing') : Matches(pattern, v) => ~Newer(v, offered')
  BY <1>1, <1>3, ResolveFits
<1>. QED BY <1>1, <1>2, <1>3, <1>4 DEF AnswerInv

LEMMA AnswerStep == PinInv /\ AnswerInv /\ [Next]_vars => AnswerInv'
<1>. SUFFICES ASSUME PinInv, AnswerInv, [Next]_vars PROVE AnswerInv'
  OBVIOUS
<1>1. CASE Locate \/ ReadInstruction
  <2>1. phase = "none"
    BY <1>1 DEF PinInv, PathInv, Locate, ReadInstruction
  <2>2. phase' \in {"none", "listing", "latest", "releases"}
    BY <1>1, <2>1 DEF Locate, ReadInstruction, Ask
  <2>. QED BY <2>2 DEF AnswerInv
<1>2. CASE ResolvePin
  <2>1. kind' = kind
    BY <1>2, KindStays DEF ResolvePin
  <2>2. CASE FetchListingFails \/ FetchCommitFails \/ FetchReleasesFails \/ FetchReleases \/ FetchTagsFails
    <3>1. phase' \in {"failed", "chosen"}
      BY <2>2 DEF FetchListingFails, FetchCommitFails, FetchReleasesFails, FetchReleases,
                  FetchTagsFails, Finish
    <3>. QED BY <3>1 DEF AnswerInv
  <2>3. CASE MiseLatest
    <3>1. /\ kind = "mise" /\ pattern' = pattern
          /\ phase' = "offered" => Matches(pattern, offered')
          /\ phase' \in {"offered", "listing"}
      BY <2>3 DEF MiseLatest, Finish, matching, question, PinInv, PathInv
    <3>. QED BY <2>1, <3>1 DEF AnswerInv, GitHubKinds
  <2>. QED BY <1>2, <2>1, <2>2, <2>3, FetchListingAnswer, ChooseAnswer, FetchTagsAnswer
           DEF ResolvePin, AskGitHub
<1>3. CASE Answered \/ Rewrite \/ UNCHANGED vars
  <2>1. kind' = KindOf(pin)'
    BY PinStep DEF PinInv, PathInv
  <2>2. kind = KindOf(pin) /\ KindOf(pin)' = KindOf(pin)
    BY <1>3 DEF PinInv, PathInv, Answered, Rewrite, vars, KindOf
  <2>3. UNCHANGED <<listing, pattern, cooldown, releases, phase, offered>>
    BY <1>3 DEF Answered, Rewrite, vars
  <2>. QED BY <2>1, <2>2, <2>3, AnswerStays
<1>. QED BY <1>1, <1>2, <1>3 DEF Next, Done

LEMMA AnswerHolds == Spec => [](PinInv /\ AnswerInv)
<1>1. Init => AnswerInv
  BY DEF Init, AnswerInv
<1>. QED BY <1>1, InitPin, PinStep, AnswerStep, PTL DEF Spec

\* The cooldown holds a pin exactly when every release that fits is young, and
\* until something is offered the text stays the pin's own.
THEOREM HeldStays == Spec => []HeldStaysHeld
<1>1. ASSUME PinInv, AnswerInv PROVE HeldStaysHeld
  <2>1. ASSUME FromGitHub, phase \in {"offered", "held", "tags"}
        PROVE  phase = "held" <=> Fit # {} /\ \A i \in Fit : Young(i)
    BY <1>1, <2>1 DEF AnswerInv, FromGitHub
  <2>2. phase # "offered" => text = pin.text
    BY <1>1 DEF PinInv, TextInv
  <2>. QED BY <2>1, <2>2 DEF HeldStaysHeld
<1>. QED BY <1>1, AnswerHolds, PTL

\* Whatever is offered is within its constraint, and comes from what its source
\* lists and stands behind.
THEOREM OffersFit == Spec => []OfferedFits
<1>1. ASSUME PinInv, AnswerInv PROVE OfferedFits
  <2>1. SUFFICES ASSUME Offers
                 PROVE  /\ kind # "github-branch" =>
                             /\ offered.suffix \in pattern.suffixes
                             /\ pattern.ceiling # None => Newer(pattern.ceiling, offered)
                        /\ FromGitHub /\ Fit # {} =>
                             \E i \in Fit : releases[i].tag = offered /\ ~Young(i)
                        /\ kind \in RegistryKinds \ {"mise"} =>
                             offered \in Usual \cup (IF kind = "pypi" THEN Listed(listing, Marks) ELSE {})
    BY DEF OfferedFits
  <2>2. pattern \in Pattern /\ offered \in Tag
    BY <1>1, <2>1, VersionsAssumption DEF PinInv, TypeOK, Offers
  <2>3. kind # "github-branch" => Matches(pattern, offered)
    BY <1>1, <2>1 DEF AnswerInv, Offers
  <2>. QED BY <1>1, <2>1, <2>2, <2>3, MatchesWithin, UsualIsOf DEF AnswerInv, Offers, FromGitHub
<1>. QED BY <1>1, AnswerHolds, PTL

\* Nothing that its source lists, that fits and is old enough is newer than what
\* is offered.
THEOREM OffersNewest == Spec => []OfferedIsNewest
<1>1. ASSUME PinInv, AnswerInv PROVE OfferedIsNewest
  BY <1>1, UsualIsOf DEF OfferedIsNewest, AnswerInv, Offers, FromGitHub
<1>. QED BY <1>1, AnswerHolds, PTL----------------------------------------------------------------------------
(* What an update of a Dockerfile leaves.                                   *)

LEMMA DockerKind ==
    ASSUME pin.front # "site"
    PROVE  kind \in {"ghcr", "docker"} /\ InDockerfile
BY DEF kind, InDockerfile

LEMMA UpdatedPin ==
    ASSUME PinInv, AnswerInv, Updated
    PROVE  /\ pin \in Pins /\ pin.front = "update" /\ InDockerfile
           /\ phase = "offered" /\ offered \in Tags /\ pattern \in Pattern
           /\ AskedOf(pin, pattern) /\ Matches(pattern, offered)
           /\ text = [pin.text EXCEPT ![pin.at] = applyUpdate(@, offered)]
<1>1. /\ pin \in Pins /\ pin.front = "update" /\ phase = "offered"
      /\ offered \in Tags /\ pattern \in Pattern
      /\ text = RewrittenOf(pin, found, offered)
  BY DEF PinInv, TextInv, TypeOK, PathInv, Updated
<1>2. InDockerfile /\ kind # "github-branch"
  BY <1>1, DockerKind
<1>. QED BY <1>1, <1>2 DEF PinInv, QuestionInv, AnswerInv, RewrittenOf

\* An instruction is updated only under a directive right above it that does not
\* ignore it, and never to or past the ceiling of a hold.
THEOREM DirectiveKept == Spec => []UnderItsDirective
<1>1. ASSUME PinInv, AnswerInv PROVE UnderItsDirective
  <2>1. SUFFICES ASSUME Updated
                 PROVE  /\ pin.at > 1
                        /\ LET above == pin.text[pin.at - 1]
                           IN  /\ above.is = "directive"
                               /\ ~above.ignore
                               /\ above.items # <<>>
                               /\ ~(above.items[1].form = "ignore" /\ above.items[1].named)
                               /\ above.items[1].form = "hold" /\ ~above.items[1].split =>
                                    Newer(above.items[1].pattern.ceiling, offered)
    BY DEF UnderItsDirective
  <2>. DEFINE above == DirectiveOf(pin.text, pin.at)
              item == above.items[1]
  <2>2. /\ above # None /\ ~above.ignore /\ above.items # <<>>
        /\ ~parsePackageDirective(item).ignore
        /\ pattern = parsePackageDirective(item).pattern
    BY <1>1, <2>1, UpdatedPin DEF AskedOf
  <2>3. /\ pin.at > 1 /\ above = pin.text[pin.at - 1] /\ above.is = "directive"
        /\ item \in Item
    BY <1>1, <2>1, <2>2, UpdatedPin, DirectiveType
  <2>4. ~(item.form = "ignore" /\ item.named)
    BY <2>2 DEF parsePackageDirective
  <2>5. ASSUME item.form = "hold", ~item.split
        PROVE  Newer(item.pattern.ceiling, offered)
    <3>1. pattern = item.pattern /\ pattern.ceiling # None
      BY <2>2, <2>3, <2>5 DEF parsePackageDirective, Item
    <3>2. pattern \in Pattern /\ offered \in Tag /\ Matches(pattern, offered)
      BY <1>1, <2>1, UpdatedPin, VersionsAssumption
    <3>. QED BY <3>1, <3>2, MatchesWithin
  <2>. QED BY <2>2, <2>3, <2>4, <2>5
<1>. QED BY <1>1, AnswerHolds, PTL

\* An update writes the version it resolved where the old one stood, and keeps
\* the image's host, port and digest, and the other lines.
THEOREM ImageKept == Spec => []UpdateKeepsImage
<1>1. ASSUME PinInv, AnswerInv PROVE UpdateKeepsImage
  <2>1. SUFFICES ASSUME Updated
                 PROVE  LET old == pin.text[pin.at]
                            new == text[pin.at]
                        IN  /\ \A k \in DOMAIN text \ {pin.at} : text[k] = pin.text[k]
                            /\ new.image = [old.image EXCEPT !.tag = offered]
                            /\ \A k \in DOMAIN old.others :
                                 \/ new.others[k] = old.others[k]
                                 \/ old.others[k] = old.image.tag
                                 \/ <<old.image.tag, old.others[k]>> \in Begins
    BY DEF UpdateKeepsImage
  <2>. DEFINE old == pin.text[pin.at]
              new == applyUpdate(old, offered)
  <2>2. /\ pin.text \in Seq(Line) /\ pin.at \in DOMAIN pin.text
        /\ old.is = "instruction" /\ offered \in Tags
        /\ text = [pin.text EXCEPT ![pin.at] = new]
        /\ old.image # None /\ answersUpdate(old.image)
    BY <1>1, <2>1, UpdatedPin, PinFacts DEF AskedOf
  <2>3. old \in Line
    BY <2>2
  <2>4. old.image \in Reference /\ ~old.image.digest /\ ~old.image.port
    BY <2>2, <2>3 DEF Line, answersUpdate
  <2>5. new.image = [old.image EXCEPT !.tag = offered]
    <3>1. new.image = [old.image EXCEPT !.tag = offered, !.digest = FALSE, !.port = FALSE]
      BY <2>2, <2>3, UpdatedLine
    <3>. QED BY <2>4, <3>1 DEF Reference
  <2>6. \A k \in DOMAIN old.others :
          \/ new.others[k] = old.others[k]
          \/ old.others[k] = old.image.tag
          \/ <<old.image.tag, old.others[k]>> \in Begins
    BY <2>2, <2>3 DEF applyUpdate, Line
  <2>. HIDE DEF new
  <2>7. text[pin.at] = new /\ \A k \in DOMAIN text \ {pin.at} : text[k] = pin.text[k]
    BY <2>2
  <2>. QED BY <2>5, <2>6, <2>7
<1>. QED BY <1>1, AnswerHolds, PTL----------------------------------------------------------------------------
(* What an update of a site leaves.                                         *)

\* Two blocks with the same keys, and versions the group takes on the same
\* lines, are captured alike.
LEMMA SameCaptures ==
    ASSUME NEW n \in Nat, NEW a, NEW b, NEW site, DOMAIN a = 1..n, DOMAIN b = 1..n,
           \A j \in 1..n : /\ a[j].key = b[j].key
                           /\ a[j].version \in site.takes <=> b[j].version \in site.takes
    PROVE  L!Captured(a, site) = L!Captured(b, site)
<1>. DEFINE PinsOf(block) == {j \in DOMAIN block :
                                block[j].key = site.key /\ block[j].version \in site.takes}
<1>1. PinsOf(a) = PinsOf(b) /\ PinsOf(a) \subseteq 1..n
  OBVIOUS
<1>2. \A j \in 1..n : \A i \in 1..(j - 1) : a[i].key = b[i].key
  OBVIOUS
<1>3. \A block : L!Captured(block, site) =
        IF site.head = None
        THEN {j \in PinsOf(block) : site.anchored => j = 1}
        ELSE {j \in PinsOf(block) : \E i \in 1..(j - 1) :
                /\ block[i].key = site.head
                /\ site.anchored => i = 1
                /\ \A k \in (i + 1)..(j - 1) : k \notin PinsOf(block)}
  BY DEF L!Captured
<1>. HIDE DEF PinsOf
<1>4. CASE site.head = None
  BY <1>1, <1>3, <1>4
<1>5. CASE site.head # None
  <2>. DEFINE Under(block, j) == \E i \in 1..(j - 1) :
                /\ block[i].key = site.head
                /\ site.anchored => i = 1
                /\ \A k \in (i + 1)..(j - 1) : k \notin PinsOf(block)
  <2>1. \A j \in 1..n : Under(a, j) <=> Under(b, j)
    BY <1>1, <1>2
  <2>2. \A block : L!Captured(block, site) = {j \in PinsOf(block) : Under(block, j)}
    BY <1>3, <1>5
  <2>. HIDE DEF Under
  <2>. QED BY <1>1, <2>1, <2>2
<1>. QED BY <1>4, <1>5

\* A file and the same file patched, window by window.
LEMMA PatchedFile ==
    ASSUME pin \in Pins, ~InDockerfile, NEW f \in pin.site.files, NEW v \in Tags
    PROVE  LET file == pin.text[f]
               patched == L!Patch(file, pin.site, v)
           IN  /\ patched \in Seq([key : Keys, version : Tags \cup {None}])
               /\ Len(patched) = Len(file) /\ DOMAIN patched = DOMAIN file
               /\ \A j \in DOMAIN file :
                    /\ patched[j].key = file[j].key
                    /\ j \in L!Captured(file, pin.site) => patched[j].version = v
                    /\ j \notin L!Captured(file, pin.site) => patched[j] = file[j]
<1>. DEFINE file == pin.text[f]
            patched == L!Patch(file, pin.site, v)
            n == Len(file)
            S == [key : Keys, version : Tags \cup {None}]
<1>1. file \in Seq(S) /\ n \in Nat /\ DOMAIN file = 1..n
  BY SiteText
<1>2. patched = [j \in DOMAIN file |->
        IF j \in L!Captured(file, pin.site) THEN [file[j] EXCEPT !.version = v] ELSE file[j]]
  BY DEF L!Patch
<1>. HIDE DEF file, patched, n
<1>3. \A j \in 1..n : file[j] \in S
  BY <1>1, ElementOfSeq DEF n
<1>4. \A j \in 1..n : /\ patched[j] \in S
                      /\ patched[j].key = file[j].key
                      /\ j \in L!Captured(file, pin.site) => patched[j].version = v
                      /\ j \notin L!Captured(file, pin.site) => patched[j] = file[j]
  <2>. TAKE j \in 1..n
  <2>1. file[j] \in S /\ j \in DOMAIN file
    BY <1>1, <1>3
  <2>2. CASE j \in L!Captured(file, pin.site)
    <3>1. patched[j] = [file[j] EXCEPT !.version = v]
      BY <1>2, <2>1, <2>2
    <3>. QED BY <2>1, <2>2, <3>1
  <2>3. CASE j \notin L!Captured(file, pin.site)
    <3>1. patched[j] = file[j]
      BY <1>2, <2>1, <2>3
    <3>. QED BY <2>1, <2>3, <3>1
  <2>. QED BY <2>2, <2>3
<1>5. patched \in [1..n -> S]
  BY <1>1, <1>2, <1>4
<1>6. patched \in Seq(S) /\ Len(patched) = n
  BY <1>1, <1>5, SeqDef, LenProperties
<1>. QED BY <1>1, <1>4, <1>5, <1>6 DEF file, patched, n

\* The lines of a window.
LEMMA WindowLines ==
    ASSUME NEW S, NEW file \in Seq(S), NEW size \in Nat \ {0}, NEW i \in 1..(Len(file) - size + 1)
    PROVE  LET block == SubSeq(file, i, i + size - 1)
           IN  /\ DOMAIN block = 1..size
               /\ \A j \in 1..size : block[j] = file[i + j - 1] /\ i + j - 1 \in 1..Len(file)
<1>. DEFINE block == SubSeq(file, i, i + size - 1)
<1>1. Len(file) \in Nat
  OBVIOUS
<1>2. i \in Nat \ {0} /\ i + size - 1 \in Nat /\ i + size - 1 <= Len(file)
  BY <1>1
<1>3. Len(block) = size /\ \A j \in 1..size : block[j] = file[i + j - 1]
  BY <1>1, <1>2
<1>4. DOMAIN block = 1..size
  BY <1>1, <1>2, <1>3
<1>5. \A j \in 1..size : i + j - 1 \in 1..Len(file)
  BY <1>1, <1>2
<1>. QED BY <1>3, <1>4, <1>5

LEMMA WindowRange ==
    ASSUME pin \in Pins, ~InDockerfile, NEW f \in pin.site.files
    PROVE  /\ L!WindowSize(pin.site) \in Nat \ {0}
           /\ L!Windows(pin.text[f], pin.site) =
                1..(Len(pin.text[f]) - L!WindowSize(pin.site) + 1)
BY WindowPositive DEF L!Windows

\* A version the group takes is found again where the old one was.
LEMMA PatchKeepsMatches ==
    ASSUME pin \in Pins, ~InDockerfile, NEW f \in pin.site.files, NEW v \in Tags,
           v \in pin.site.takes
    PROVE  L!FindIn(L!Patch(pin.text[f], pin.site, v), pin.site) = L!FindIn(pin.text[f], pin.site)
<1>. DEFINE file == pin.text[f]
            patched == L!Patch(file, pin.site, v)
            S == [key : Keys, version : Tags \cup {None}]
            size == L!WindowSize(pin.site)
<1>1. file \in Seq(S) /\ patched \in Seq(S) /\ Len(patched) = Len(file)
      /\ DOMAIN file = 1..Len(file)
  BY SiteText, PatchedFile
<1>2. \A j \in 1..Len(file) :
        /\ patched[j].key = file[j].key
        /\ patched[j].version \in pin.site.takes <=> file[j].version \in pin.site.takes
  <2>1. \A j \in L!Captured(file, pin.site) : file[j].version \in pin.site.takes
    BY DEF L!Captured
  <2>2. \A j \in 1..Len(file) : /\ patched[j].key = file[j].key
                                /\ j \in L!Captured(file, pin.site) => patched[j].version = v
                                /\ j \notin L!Captured(file, pin.site) => patched[j] = file[j]
    BY <1>1, PatchedFile
  <2>. HIDE DEF patched, file
  <2>. QED BY <2>1, <2>2
<1>3. L!Windows(patched, pin.site) = L!Windows(file, pin.site)
  BY <1>1 DEF L!Windows
<1>4. ASSUME NEW i \in L!Windows(file, pin.site)
      PROVE  L!Captured(SubSeq(patched, i, i + size - 1), pin.site) =
               L!Captured(SubSeq(file, i, i + size - 1), pin.site)
  <2>. DEFINE a == SubSeq(patched, i, i + size - 1)
              b == SubSeq(file, i, i + size - 1)
  <2>0. /\ size \in Nat \ {0} /\ i \in 1..(Len(file) - size + 1)
        /\ i \in 1..(Len(patched) - size + 1)
    BY <1>1, WindowRange
  <2>. HIDE DEF patched, file, size, S
  <2>1. /\ DOMAIN a = 1..size
        /\ \A j \in 1..size : a[j] = patched[i + j - 1] /\ i + j - 1 \in 1..Len(file)
    BY <1>1, <2>0, WindowLines
  <2>2. /\ DOMAIN b = 1..size
        /\ \A j \in 1..size : b[j] = file[i + j - 1]
    BY <1>1, <2>0, WindowLines
  <2>. HIDE DEF a, b
  <2>3. \A j \in 1..size : /\ a[j].key = b[j].key
                           /\ a[j].version \in pin.site.takes <=> b[j].version \in pin.site.takes
    BY <1>2, <2>1, <2>2
  <2>4. size \in Nat /\ DOMAIN a = 1..size /\ DOMAIN b = 1..size
    BY <2>0, <2>1, <2>2
  <2>5. L!Captured(a, pin.site) = L!Captured(b, pin.site)
    BY <2>3, <2>4, SameCaptures
  <2>. QED BY <2>5 DEF a, b, patched, file, size
<1>. QED BY <1>3, <1>4 DEF L!FindIn

\* Without an anchor, what a window shows is captured in its file as a whole.
LEMMA CapturedInFile ==
    ASSUME pin \in Pins, ~InDockerfile, NEW f \in pin.site.files, ~pin.site.anchored,
           NEW i \in L!Windows(pin.text[f], pin.site),
           NEW j \in L!Captured(SubSeq(pin.text[f], i, i + L!WindowSize(pin.site) - 1), pin.site)
    PROVE  i + j - 1 \in L!Captured(pin.text[f], pin.site)
<1>. DEFINE file == pin.text[f]
            size == L!WindowSize(pin.site)
            block == SubSeq(file, i, i + size - 1)
            PinsOf(b) == {k \in DOMAIN b : b[k].key = pin.site.key /\ b[k].version \in pin.site.takes}
            Under(b, k) == \E h \in 1..(k - 1) :
                             /\ b[h].key = pin.site.head
                             /\ \A l \in (h + 1)..(k - 1) : l \notin PinsOf(b)
<1>1. /\ i \in Nat \ {0} /\ size \in Nat \ {0} /\ DOMAIN block = 1..size
      /\ \A k \in 1..size : block[k] = file[i + k - 1] /\ i + k - 1 \in DOMAIN file
  <2>1. /\ size \in Nat \ {0} /\ i \in 1..(Len(file) - size + 1) /\ DOMAIN file = 1..Len(file)
        /\ Len(file) \in Nat /\ file \in Seq([key : Keys, version : Tags \cup {None}])
    BY SiteText, WindowRange
  <2>. HIDE DEF file, size
  <2>. QED BY <2>1, WindowLines
<1>2. \A b : L!Captured(b, pin.site) =
        IF pin.site.head = None
        THEN PinsOf(b)
        ELSE {k \in PinsOf(b) : Under(b, k)}
  BY DEF L!Captured
<1>3. j \in PinsOf(block) /\ j \in 1..size
  <2>1. PinsOf(block) \subseteq DOMAIN block
    OBVIOUS
  <2>2. j \in L!Captured(block, pin.site)
    OBVIOUS
  <2>3. j \in PinsOf(block)
    <3>. HIDE DEF PinsOf, Under, block
    <3>. QED BY <1>2, <2>2
  <2>. HIDE DEF PinsOf, Under, block, size
  <2>. QED BY <1>1, <2>1, <2>3
<1>4. \A k \in 1..size : k \in PinsOf(block) <=> i + k - 1 \in PinsOf(file)
  <2>. HIDE DEF block, file
  <2>. QED BY <1>1
<1>5. i + j - 1 \in PinsOf(file)
  BY <1>3, <1>4
<1>. HIDE DEF PinsOf, Under, block, file, size
<1>6. CASE pin.site.head = None
  BY <1>2, <1>5, <1>6 DEF file
<1>7. CASE pin.site.head # None
  <2>1. PICK h \in 1..(j - 1) : /\ block[h].key = pin.site.head
                                /\ \A l \in (h + 1)..(j - 1) : l \notin PinsOf(block)
    BY <1>2, <1>7 DEF block, file, size, Under
  <2>. DEFINE g == i + h - 1
              c == i + j - 1
  <2>2. g \in 1..(c - 1) /\ file[g].key = pin.site.head
    BY <1>1, <1>3, <2>1
  <2>3. ASSUME NEW l \in (g + 1)..(c - 1) PROVE l \notin PinsOf(file)
    <3>1. l - i + 1 \in (h + 1)..(j - 1) /\ l - i + 1 \in 1..size /\ i + (l - i + 1) - 1 = l
      BY <1>1, <1>3, <2>1
    <3>. QED BY <1>4, <2>1, <3>1
  <2>4. Under(file, c)
    <3>. HIDE DEF g, c
    <3>. QED BY <2>2, <2>3 DEF Under
  <2>5. i + j - 1 \in L!Captured(file, pin.site)
    BY <1>2, <1>5, <1>7, <2>4
  <2>. QED BY <2>5 DEF file
<1>. QED BY <1>6, <1>7

\* What a finished site leaves: its text as it was, or patched.
LEMMA SitedPin ==
    ASSUME PinInv, Sited
    PROVE  /\ pin \in Pins /\ ~InDockerfile /\ offered \in Tags
           /\ found = L!Find(pin.text, pin.site)
           /\ pin.site.files \subseteq DOMAIN pin.text
           /\ \/ text = pin.text
              \/ text = [f \in DOMAIN pin.text |->
                           IF \E m \in found : m[1] = f
                           THEN L!Patch(pin.text[f], pin.site, offered) ELSE pin.text[f]]
<1>1. pin \in Pins /\ ~InDockerfile /\ phase = "offered" /\ offered \in Tags
  BY DEF PinInv, PathInv, TypeOK, Sited, Offers
<1>2. found = L!Find(pin.text, pin.site)
  BY <1>1 DEF PinInv, QuestionInv
<1>3. pin.site.files \subseteq DOMAIN pin.text
  BY <1>1, PinFacts
<1>4. text = pin.text \/ text = RewrittenOf(pin, found, offered)
  BY DEF PinInv, TextInv
<1>. QED BY <1>1, <1>2, <1>3, <1>4 DEF RewrittenOf, InDockerfile

\* A match is a line some window shows.
LEMMA FoundShown ==
    ASSUME pin \in Pins, ~InDockerfile, NEW m \in L!Find(pin.text, pin.site)
    PROVE  /\ m[1] \in pin.site.files
           /\ \E i \in L!Windows(pin.text[m[1]], pin.site) :
                \E j \in L!Captured(SubSeq(pin.text[m[1]], i, i + L!WindowSize(pin.site) - 1), pin.site) :
                  m[2] = i /\ m[3] = i + j - 1
<1>. DEFINE Shown(f, i, j) ==
              /\ j \in L!Captured(SubSeq(pin.text[f], i, i + L!WindowSize(pin.site) - 1), pin.site)
              /\ m = <<f, i, i + j - 1>>
<1>1. PICK f \in pin.site.files : \E i \in L!Windows(pin.text[f], pin.site) : \E j : Shown(f, i, j)
  BY FoundInWindow
<1>2. PICK i \in L!Windows(pin.text[f], pin.site) : \E j : Shown(f, i, j)
  BY <1>1
<1>3. PICK j : Shown(f, i, j)
  BY <1>2
<1>4. m[1] = f /\ m[2] = i /\ m[3] = i + j - 1
  BY <1>3
<1>. QED BY <1>3, <1>4

\* After an update that found its site's pins, the same pattern finds them
\* where they were, all at the version offered.
THEOREM SecondRunKeeps == Spec => []SecondRunIdle
<1>1. ASSUME PinInv PROVE SecondRunIdle
  <2>1. SUFFICES ASSUME Sited, ~pin.site.anchored, offered \in pin.site.takes
                 PROVE  /\ L!Find(text, pin.site) = found
                        /\ text # pin.text => \A m \in found : text[m[1]][m[3]].version = offered
    BY DEF SecondRunIdle
  <2>2. CASE text = pin.text
    BY <1>1, <2>1, <2>2, SitedPin
  <2>3. CASE text # pin.text
    <3>1. /\ pin \in Pins /\ ~InDockerfile /\ offered \in Tags
          /\ found = L!Find(pin.text, pin.site)
          /\ pin.site.files \subseteq DOMAIN pin.text
          /\ text = [f \in DOMAIN pin.text |->
                       IF \E m \in found : m[1] = f
                       THEN L!Patch(pin.text[f], pin.site, offered) ELSE pin.text[f]]
      BY <1>1, <2>1, <2>3, SitedPin
    <3>2. \A f \in pin.site.files : L!FindIn(text[f], pin.site) = L!FindIn(pin.text[f], pin.site)
      <4>. TAKE f \in pin.site.files
      <4>1. text[f] = L!Patch(pin.text[f], pin.site, offered) \/ text[f] = pin.text[f]
        BY <3>1
      <4>. QED BY <2>1, <3>1, <4>1, PatchKeepsMatches
    <3>3. L!Find(text, pin.site) = L!Find(pin.text, pin.site)
      BY <3>2 DEF L!Find
    <3>4. ASSUME NEW m \in found
          PROVE  text[m[1]][m[3]].version = offered
      <4>1. /\ m[1] \in pin.site.files
            /\ \E i \in L!Windows(pin.text[m[1]], pin.site) :
                 \E j \in L!Captured(SubSeq(pin.text[m[1]], i, i + L!WindowSize(pin.site) - 1), pin.site) :
                   m[2] = i /\ m[3] = i + j - 1
        BY <3>1, FoundShown
      <4>2. m[3] \in L!Captured(pin.text[m[1]], pin.site)
        BY <2>1, <3>1, <4>1, CapturedInFile
      <4>3. text[m[1]] = L!Patch(pin.text[m[1]], pin.site, offered)
        BY <3>1, <4>1
      <4>4. m[3] \in DOMAIN pin.text[m[1]]
        BY <4>2, CapturedInBlock
      <4>. QED BY <3>1, <4>1, <4>2, <4>3, <4>4, PatchedFile
    <3>. QED BY <3>1, <3>3, <3>4
  <2>. QED BY <2>2, <2>3
<1>. QED BY <1>1, AnswerHolds, PTL
\* A block's pins, and whether one of them is the first below a head.
PinsIn(block, site) ==
    {j \in DOMAIN block : block[j].key = site.key /\ block[j].version \in site.takes}

Below(block, site, i, j) ==
    /\ block[i].key = site.head
    /\ \A k \in (i + 1)..(j - 1) : k \notin PinsIn(block, site)

LEMMA CapturedIs ==
    ASSUME NEW block, NEW site, NEW j
    PROVE  j \in L!Captured(block, site) <=>
             /\ j \in PinsIn(block, site)
             /\ IF site.head = None THEN site.anchored => j = 1
                ELSE \E i \in 1..(j - 1) : Below(block, site, i, j) /\ (site.anchored => i = 1)
BY DEF L!Captured, PinsIn, Below

\* A file's line in one of its windows: its place there, and what is between.
LEMMA InWindow ==
    ASSUME pin \in Pins, ~InDockerfile, NEW f \in pin.site.files,
           NEW i \in L!Windows(pin.text[f], pin.site),
           NEW k \in 1..L!WindowSize(pin.site)
    PROVE  LET block == SubSeq(pin.text[f], i, i + L!WindowSize(pin.site) - 1)
           IN  /\ i \in Nat \ {0} /\ i + k - 1 \in DOMAIN pin.text[f]
               /\ block[k] = pin.text[f][i + k - 1]
               /\ k \in PinsIn(block, pin.site) <=> i + k - 1 \in PinsIn(pin.text[f], pin.site)
<1>. DEFINE file == pin.text[f]
            size == L!WindowSize(pin.site)
            block == SubSeq(file, i, i + size - 1)
<1>1. /\ size \in Nat \ {0} /\ i \in 1..(Len(file) - size + 1) /\ DOMAIN file = 1..Len(file)
      /\ Len(file) \in Nat /\ file \in Seq([key : Keys, version : Tags \cup {None}])
  BY SiteText, WindowRange
<1>2. /\ DOMAIN block = 1..size
      /\ block[k] = file[i + k - 1] /\ i + k - 1 \in 1..Len(file)
  <2>. HIDE DEF file
  <2>1. k \in 1..size
    OBVIOUS
  <2>. HIDE DEF size
  <2>. QED BY <1>1, <2>1, WindowLines
<1>3. k \in PinsIn(block, pin.site) <=> i + k - 1 \in PinsIn(file, pin.site)
  <2>1. k \in DOMAIN block /\ i + k - 1 \in DOMAIN file
    BY <1>1, <1>2
  <2>. HIDE DEF file, block
  <2>. QED BY <1>2, <2>1 DEF PinsIn
<1>4. i \in Nat \ {0}
  <2>. HIDE DEF file, size
  <2>. QED BY <1>1
<1>. QED BY <1>1, <1>2, <1>3, <1>4

\* What a file captures, and a window shows with its head, is found.
LEMMA ShownIsFound ==
    ASSUME pin \in Pins, ~InDockerfile, NEW f \in pin.site.files,
           NEW i \in L!Windows(pin.text[f], pin.site),
           NEW k \in 1..L!WindowSize(pin.site),
           i + k - 1 \in PinsIn(pin.text[f], pin.site),
           IF pin.site.head = None THEN pin.site.anchored => k = 1
           ELSE \E h \in 1..(k - 1) :
                  /\ Below(pin.text[f], pin.site, i + h - 1, i + k - 1)
                  /\ pin.site.anchored => h = 1
    PROVE  <<f, i, i + k - 1>> \in L!Find(pin.text, pin.site)
<1>. DEFINE file == pin.text[f]
            size == L!WindowSize(pin.site)
            block == SubSeq(file, i, i + size - 1)
<1>1. k \in PinsIn(block, pin.site)
  BY InWindow
<1>2. k \in L!Captured(block, pin.site)
  <2>1. CASE pin.site.head = None
    BY <1>1, <2>1, CapturedIs
  <2>2. CASE pin.site.head # None
    <3>1. PICK h \in 1..(k - 1) : /\ Below(file, pin.site, i + h - 1, i + k - 1)
                                  /\ pin.site.anchored => h = 1
      BY <2>2
    <3>2. h \in 1..size /\ size \in Nat \ {0} /\ i \in Nat \ {0} /\ k \in 1..size
      BY WindowRange, InWindow
    <3>3. block[h].key = pin.site.head
      BY <3>1, <3>2, InWindow DEF Below
    <3>4. ASSUME NEW l \in (h + 1)..(k - 1) PROVE l \notin PinsIn(block, pin.site)
      <4>. DEFINE g == i + h - 1
                  c == i + k - 1
                  n == i + l - 1
      <4>1. l \in 1..size /\ n \in (g + 1)..(c - 1)
        <5>. HIDE DEF size
        <5>. QED BY <3>2
      <4>2. Below(file, pin.site, g, c)
        BY <3>1
      <4>3. n \notin PinsIn(file, pin.site)
        <5>. HIDE DEF g, c, n, file
        <5>. QED BY <4>1, <4>2 DEF Below
      <4>. QED BY <4>1, <4>3, InWindow
    <3>5. Below(block, pin.site, h, k)
      <4>. HIDE DEF block
      <4>. QED BY <3>3, <3>4 DEF Below
    <3>. HIDE DEF block
    <3>. QED BY <1>1, <2>2, <3>1, <3>5, CapturedIs
  <2>. QED BY <2>1, <2>2
<1>3. <<i, i + k - 1>> \in L!FindIn(file, pin.site)
  BY <1>2 DEF L!FindIn
<1>. DEFINE m == <<i, i + k - 1>>
<1>4. m \in L!FindIn(pin.text[f], pin.site) /\ <<f, i, i + k - 1>> = <<f, m[1], m[2]>>
  BY <1>3
<1>. HIDE DEF m
<1>. QED BY <1>4 DEF L!Find
\* A line that an update changes is captured in its file, where something was
\* found.
LEMMA ChangedIsCaptured ==
    ASSUME PinInv, Sited, NEW f \in DOMAIN text, NEW j \in DOMAIN text[f],
           text[f][j] # pin.text[f][j]
    PROVE  /\ \E m \in found : m[1] = f
           /\ f \in pin.site.files /\ j \in L!Captured(pin.text[f], pin.site)
<1>1. /\ pin \in Pins /\ ~InDockerfile /\ offered \in Tags /\ found = L!Find(pin.text, pin.site)
      /\ text = [g \in DOMAIN pin.text |->
                   IF \E m \in found : m[1] = g
                   THEN L!Patch(pin.text[g], pin.site, offered) ELSE pin.text[g]]
  BY SitedPin
<1>2. (\E m \in found : m[1] = f) /\ text[f] = L!Patch(pin.text[f], pin.site, offered)
  BY <1>1
<1>3. f \in pin.site.files
  BY <1>1, <1>2, FoundShown
<1>4. j \in DOMAIN pin.text[f]
  BY <1>1, <1>2, <1>3, PatchedFile
<1>. QED BY <1>1, <1>2, <1>3, <1>4, PatchedFile

\* A captured line is shown by some window, when its pattern has no head.
LEMMA HeadlessIsFound ==
    ASSUME pin \in Pins, ~InDockerfile, pin.site.head = None,
           NEW m \in L!Find(pin.text, pin.site),
           NEW j \in L!Captured(pin.text[m[1]], pin.site)
    PROVE  \E n \in L!Find(pin.text, pin.site) : n[1] = m[1] /\ n[3] = j
<1>. DEFINE f == m[1]
            size == L!WindowSize(pin.site)
            i == IF j < size THEN 1 ELSE j - size + 1
            k == j - i + 1
<1>1. /\ f \in pin.site.files /\ L!Windows(pin.text[f], pin.site) # {}
  BY FoundShown
<1>2. /\ j \in PinsIn(pin.text[f], pin.site)
      /\ pin.site.anchored => j = 1
      /\ j \in DOMAIN pin.text[f]
  BY CapturedIs DEF PinsIn
<1>3. /\ size \in Nat \ {0} /\ Len(pin.text[f]) \in Nat /\ j \in 1..Len(pin.text[f])
      /\ L!Windows(pin.text[f], pin.site) = 1..(Len(pin.text[f]) - size + 1)
  BY <1>1, <1>2, WindowRange, SiteText
<1>4. /\ i \in 1..(Len(pin.text[f]) - size + 1) /\ k \in 1..size
      /\ i + k - 1 = j
      /\ j = 1 => k = 1
  <2>. HIDE DEF f, size
  <2>. QED BY <1>1, <1>3
<1>. HIDE DEF i, k, f
<1>5. <<f, i, i + k - 1>> \in L!Find(pin.text, pin.site)
  <2>1. /\ i \in L!Windows(pin.text[f], pin.site) /\ k \in 1..size
        /\ i + k - 1 \in PinsIn(pin.text[f], pin.site)
        /\ pin.site.anchored => k = 1
    BY <1>2, <1>3, <1>4 DEF f
  <2>. QED BY <1>1, <2>1, ShownIsFound
<1>6. <<f, i, j>> \in L!Find(pin.text, pin.site)
  BY <1>4, <1>5
<1>. QED BY <1>6 DEF f

\* Under a head that is within a window of it, too.
LEMMA HeadedIsFound ==
    ASSUME pin \in Pins, ~InDockerfile, pin.site.head # None,
           NEW m \in L!Find(pin.text, pin.site),
           NEW j \in L!Captured(pin.text[m[1]], pin.site), HeadWithinWindow(m[1], j)
    PROVE  \E n \in L!Find(pin.text, pin.site) : n[1] = m[1] /\ n[3] = j
<1>. DEFINE f == m[1]
            file == pin.text[f]
            site == pin.site
            size == L!WindowSize(site)
            Within(g) == Below(file, site, g, j) /\ j - g < size
<1>1. f \in site.files /\ j \in PinsIn(file, site) /\ j \in DOMAIN file
  BY FoundShown, CapturedIs DEF PinsIn
<1>2. /\ size \in Nat \ {0} /\ Len(file) \in Nat /\ j \in 1..Len(file)
      /\ L!Windows(file, site) = 1..(Len(file) - size + 1)
  BY <1>1, WindowRange, SiteText
<1>3. PICK h \in 1..(j - 1) : file[h].key = site.head /\ j - h < size
  BY DEF HeadWithinWindow
<1>4. PICK g0 \in 1..(j - 1) : Below(file, site, g0, j) /\ (site.anchored => g0 = 1)
  BY CapturedIs
<1>. DEFINE g == IF h >= g0 THEN h ELSE g0
<1>5. g \in 1..(j - 1) /\ Within(g) /\ (site.anchored => g = h)
  <2>1. g \in 1..(j - 1) /\ g >= h /\ g >= g0 /\ g \in {h, g0} /\ (g0 = 1 => g = h)
    BY <1>2, <1>3, <1>4
  <2>. HIDE DEF g, size, file, site
  <2>2. \A k \in (g + 1)..(j - 1) : k \in (g0 + 1)..(j - 1)
    BY <1>2, <1>3, <1>4, <2>1
  <2>3. Below(file, site, g, j)
    BY <1>3, <1>4, <2>1, <2>2 DEF Below
  <2>4. j - g < size
    BY <1>2, <1>3, <2>1
  <2>. QED BY <1>4, <2>1, <2>3, <2>4
<1>. HIDE DEF g
\* Any window that begins no later than that head and reaches the line finds it,
\* and an anchored one that begins with it.
<1>6. ASSUME NEW i \in L!Windows(file, site), i <= g, j - i < size, site.anchored => i = g
      PROVE  <<f, i, j>> \in L!Find(pin.text, site)
  <2>. DEFINE k == j - i + 1
              l == g - i + 1
  <2>1. /\ k \in 1..size /\ i + k - 1 = j
        /\ l \in 1..(k - 1) /\ i + l - 1 = g /\ (i = g => l = 1)
    <3>. HIDE DEF size, file
    <3>. QED BY <1>2, <1>5, <1>6
  <2>. HIDE DEF k, l
  <2>2. Below(file, site, i + l - 1, i + k - 1) /\ (site.anchored => l = 1)
    BY <1>5, <1>6, <2>1
  <2>3. <<f, i, i + k - 1>> \in L!Find(pin.text, site)
    BY <1>1, <2>1, <2>2, ShownIsFound
  <2>. QED BY <2>1, <2>3
<1>7. CASE ~site.anchored
  <2>. DEFINE i == IF j < size THEN 1 ELSE j - size + 1
  <2>1. L!Windows(file, site) # {}
    BY FoundShown
  <2>2. i \in 1..(Len(file) - size + 1) /\ i <= g /\ j - i < size
    <3>. HIDE DEF size, file, site
    <3>. QED BY <1>2, <1>5, <2>1
  <2>. HIDE DEF i
  <2>3. <<f, i, j>> \in L!Find(pin.text, site)
    BY <1>2, <1>6, <1>7, <2>2
  <2>. QED BY <2>3
<1>8. CASE site.anchored
  <2>1. CASE g <= Len(file) - size + 1
    <3>1. g \in L!Windows(file, site) /\ j - g < size /\ g <= g
      <4>. HIDE DEF size, file, site
      <4>. QED BY <1>2, <1>5, <2>1
    <3>2. <<f, g, j>> \in L!Find(pin.text, site)
      BY <1>6, <3>1
    <3>. QED BY <3>2
  \* Otherwise the match that there is begins above it, and is this line's.
  <2>2. CASE ~(g <= Len(file) - size + 1)
    <3>. DEFINE Lines(i) == SubSeq(file, i, i + size - 1)
    <3>1. PICK i \in L!Windows(file, site) : \E k \in L!Captured(Lines(i), site) : m[3] = i + k - 1
      BY FoundShown
    <3>2. PICK k \in L!Captured(Lines(i), site) : m[3] = i + k - 1
      BY <3>1
    <3>3. /\ k \in PinsIn(Lines(i), site)
          /\ \E l \in 1..(k - 1) : Below(Lines(i), site, l, k) /\ l = 1
      BY <1>8, CapturedIs
    <3>4. k \in 1..size
      <4>1. DOMAIN Lines(i) = 1..size
        BY <1>1, Block
      <4>. QED BY <3>3, <4>1 DEF PinsIn
    <3>5. /\ i + k - 1 \in PinsIn(file, site)
          /\ \A n \in 2..(k - 1) : i + n - 1 \notin PinsIn(file, site)
      <4>1. \A n \in 1..size : n \in PinsIn(Lines(i), site) <=> i + n - 1 \in PinsIn(file, site)
        BY <1>1, InWindow
      <4>2. \A n \in 2..(k - 1) : n \notin PinsIn(Lines(i), site) /\ n \in 1..size
        <5>. HIDE DEF Lines, size
        <5>. QED BY <1>2, <3>3, <3>4 DEF Below
      <4>. HIDE DEF Lines, size
      <4>. QED BY <3>3, <3>4, <4>1, <4>2
    <3>6. \A n \in 2..(j - 1) : n \notin PinsIn(file, site)
      BY <1>4, <1>8 DEF Below
    <3>7. k > 1 /\ i \in Nat \ {0} /\ i < g /\ k \in Nat
      <4>. HIDE DEF Lines, size, file, site
      <4>. QED BY <1>2, <1>5, <2>2, <3>3, <3>4
    <3>8. i + k - 1 = j
      <4>1. ~(i + k - 1 < j)
        <5>1. ASSUME i + k - 1 < j PROVE i + k - 1 \in 2..(j - 1)
          BY <3>7, <1>2, <5>1
        <5>. QED BY <3>5, <3>6, <5>1
      <4>2. ~(j < i + k - 1)
        <5>1. ASSUME j < i + k - 1 PROVE j - i + 1 \in 2..(k - 1) /\ i + (j - i + 1) - 1 = j
          <6>. HIDE DEF file
          <6>. QED BY <1>2, <1>5, <3>7, <5>1
        <5>. QED BY <1>1, <3>5, <5>1
      <4>3. i \in Nat /\ k \in Nat /\ j \in Nat
        <5>. HIDE DEF file, size
        <5>. QED BY <1>2, <3>7
      <4>. QED BY <4>1, <4>2, <4>3
    <3>. QED BY <3>2, <3>8
  <2>. QED BY <2>1, <2>2
<1>. QED BY <1>7, <1>8

\* What a site's pattern misses is a candidate of the rescan, if it has a
\* version literal, or is left as it was, unless its head is out of every window.
THEOREM MissedToldKept == Spec => []MissedToldOrKept
<1>1. ASSUME PinInv PROVE MissedToldOrKept
  <2>1. ASSUME stage = "mismatch"
        PROVE  /\ text = pin.text
               /\ pin.site.head = None =>
                    \A f \in pin.site.files : \A j \in DOMAIN text[f] :
                      text[f][j].key = pin.site.key /\ text[f][j].version \in Literals =>
                        <<f, j>> \in candidates
    <3>1. text = pin.text /\ candidates = L!Rescan(pin.text, pin.site)
      BY <1>1, <2>1 DEF PinInv, TextInv, QuestionInv
    <3>. QED BY <3>1 DEF L!Rescan
  <2>2. ASSUME Sited, NEW f \in DOMAIN text, NEW j \in DOMAIN text[f],
               text[f][j] # pin.text[f][j]
        PROVE  \/ \E m \in found : m[1] = f /\ m[3] = j
               \/ pin.site.head # None /\ ~HeadWithinWindow(f, j)
    <3>1. /\ \E m \in found : m[1] = f
          /\ j \in L!Captured(pin.text[f], pin.site)
      BY <1>1, <2>2, ChangedIsCaptured
    <3>2. pin \in Pins /\ ~InDockerfile /\ found = L!Find(pin.text, pin.site)
      BY <1>1, <2>2, SitedPin
    <3>. QED BY <3>1, <3>2, HeadlessIsFound, HeadedIsFound
  <2>. QED BY <2>1, <2>2 DEF MissedToldOrKept
<1>. QED BY <1>1, AnswerHolds, PTL
=============================================================================
