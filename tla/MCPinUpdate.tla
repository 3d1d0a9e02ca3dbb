---------------------------- MODULE MCPinUpdate ----------------------------
(* Tags of one version under two names, with every kind of suffix, and one  *)
(* that is a word, as a commit's hash is. Pins of three families: every     *)
(* constraint against what GitHub and the registries may list, every small  *)
(* text against a pattern, every directive and reference of a Dockerfile.   *)
EXTENDS PinUpdate, TLC

CONSTANTS Hash, LatestWord, Broken

V(segments, suffix) == [segments |-> segments, suffix |-> suffix]

\* Suffixes, as their texts are ordered: digits, r0, rc1, slim, slim-r0.
Old == V(<<1, 2>>, 0)
Same == V(<<1, 2, 0>>, 0)
Ten == V(<<1, 10, 0>>, 0)
Two == V(<<2, 0, 0>>, 0)
Word == V(<<LatestWord>>, 0)
Rc == V(<<2, 0, 0>>, 3)
Slim == V(<<1, 2, 0>>, 4)
Digits == V(<<1, 10, 0>>, 1)
R0 == V(<<1, 10, 0>>, 2)
SlimR0 == V(<<1, 2, 0>>, 5)

MCTags == {Old, Same, Ten, Two, Word, Rc, Slim, Digits, R0, SlimR0}

MCLiterals == MCTags \ {Word}

MCApkRevised == 2 :> 0 @@ 5 :> 4
MCYumRevised == 1 :> 0

P(major, minor, suffixes, ceiling) ==
    [major |-> major, minor |-> minor, patch |-> Hash, suffixes |-> suffixes,
     ceiling |-> ceiling]

Below2 == P(Hash, Hash, {0}, Two)

Minor2 == P(Hash, 2, {0, 4}, None)

MCPatterns == {AnyVersion, P(Hash, Hash, 0..5, None), P(1, Hash, {0}, None),
               P(LatestWord, Hash, {0}, None), Minor2, Below2}

----------------------------------------------------------------------------
(* What is listed.                                                          *)

R(tag, flag, age) ==
    [tag |-> tag, prerelease |-> flag = "prerelease", draft |-> flag = "draft", age |-> age]

Some == {R(t, f, a) : t \in {Old, Ten, Two, Word, Rc, Slim},
                      f \in {"none", "prerelease", "draft"}, a \in {"old", "new"}}
        \cup {R(Ten, "none", "undated")}

Plain == {R(t, "none", a) : t \in {Old, Same, Ten, Two}, a \in {"old", "new"}}

\* Two releases of any kind, or three unflagged ones.
Lists == UNION {[1..n -> Some] : n \in 0..2} \cup [1..3 -> Plain]
MCReleaseLists == Lists

MCTagLists == UNION {[1..n -> {Old, Same, Ten, Two, Word, Rc, Slim}] : n \in 0..2}

Pairs(entries) == {{x, y} : x \in entries, y \in entries}

\* At most two versions, each listed once.
ListedWith(marks) ==
    {{}} \cup {l \in Pairs([tag : MCTags, mark : marks]) : \A x, y \in l : x.tag = y.tag => x = y}

Unmarked == ListedWith({"none"})
Yankable == ListedWith({"none", "yanked"})
Branched == ListedWith({"none", "dev"})
Flaggable == ListedWith({"none", "prerelease"})
Distributed == ListedWith({"alpine", "debian", "fedora"})

\* A few lists for the images, whose pins are those with the many texts.
Few == {{}} \cup {{[tag |-> t, mark |-> "none"] : t \in tags} : tags \in {{Same}, {Two, Slim}}}

MCListings ==
    [k \in RegistryKinds |->
       CASE k \in {"pypi", "cargo"} -> Yankable
         [] k = "composer" -> Branched
         [] k = "rubygems" -> Flaggable
         [] k \in {"apk", "apt", "yum"} -> Distributed
         [] k \in {"docker", "ghcr"} -> Few
         [] k = "github-branch" -> {{}, {[tag |-> Word, mark |-> "none"]}}
         [] OTHER -> Unmarked]

----------------------------------------------------------------------------
(* Sites.                                                                   *)

MCKeys == {"pin", "other", "head"}

L1(key, version) == [key |-> key, version |-> version]

Site(files, head, window, expect) ==
    [files |-> files, key |-> "pin", takes |-> MCTags \ {Slim}, head |-> head, anchored |-> FALSE, grouped |-> FALSE,
     window |-> window, expect |-> expect]

SitePin(site, file1, file2, kd, p) ==
    [front |-> "site", kind |-> kd, pattern |-> p, site |-> site, text |-> <<file1, file2>>]

\* Every constraint of every kind, against one pin.
Asked ==
    {SitePin(Site({1}, None, 0, 0), <<L1("pin", Same)>>, <<>>, k, p) :
       k \in RegistryKinds \cup {"github-release"}, p \in MCPatterns}
    \cup {SitePin(Site({1}, None, 0, 0), <<L1("pin", Same)>>, <<>>, "github-action", p) :
            p \in {AnyVersion, Below2}}

\* A pin, one at another version, one at a version the pattern's group does not
\* take, one at a word, another tool's at the same version, and the head a pattern may ask for.
TextLines == {L1("pin", Same), L1("pin", Ten), L1("pin", Slim), L1("pin", Word),
              L1("other", Same), L1("head", None)}

Sites == {[Site(files, head, window, expect) EXCEPT !.anchored = anchored] :
            files \in {{1}, {1, 2}}, head \in {None, "head"}, window \in {0, 2},
            expect \in {0, 2}, anchored \in BOOLEAN}
         \cup {[Site({1, 2}, None, 0, 2) EXCEPT !.grouped = TRUE]}

Texts ==
    {SitePin(site, file, <<L1("head", None), L1("pin", Same)>>, "ghcr", p) :
       site \in Sites, file \in [1..3 -> TextLines], p \in {AnyVersion, Minor2}}

----------------------------------------------------------------------------
(* Dockerfiles.                                                             *)

Package(form, named, split, p) == [form |-> form, named |-> named, split |-> split, pattern |-> p]

Items == {Package("name", TRUE, FALSE, AnyVersion)}
         \cup {Package("ignore", named, FALSE, AnyVersion) : named \in BOOLEAN}
         \cup {Package("pattern", named, FALSE, P(1, Hash, {0}, None)) : named \in BOOLEAN}
         \cup {Package("hold", named, split, Below2) : named, split \in BOOLEAN}

Says(items) == [is |-> "directive", ignore |-> FALSE, items |-> items]

Ignores == [is |-> "directive", ignore |-> TRUE, items |-> <<>>]

Directives == {Ignores, Says(<<>>)} \cup {Says(<<i>>) : i \in Items}
              \cup {Says(<<i, Package("name", TRUE, FALSE, AnyVersion)>>) : i \in Items}

Instruction(command, img, others) ==
    [is |-> "instruction", command |-> command, image |-> img, others |-> others]

Image(tag) == [platform |-> FALSE, ghcr |-> FALSE, port |-> FALSE, tag |-> tag, digest |-> FALSE]

Images == [platform : BOOLEAN, ghcr : BOOLEAN, port : BOOLEAN, tag : {Same, None}, digest : BOOLEAN]
          \cup {Image(Word)}

\* The second of each pair goes on where the first ends.
MCBegins == {<<Old, Same>>, <<Old, Slim>>, <<Same, Slim>>, <<Two, Rc>>}

Plain1 == Instruction("FROM", Image(Same), <<>>)

From(front, lines, at) == [front |-> front, text |-> lines, at |-> at]

\* Every reference under a directive, and every directive above an image, the
\* line between them included.
Dockerfiles ==
    {From(front, <<Says(<<Package("name", TRUE, FALSE, AnyVersion)>>),
                   Instruction(command, img, others), Plain1>>, 2) :
       front \in {"check", "update"}, command \in {"FROM", "COPY"}, img \in Images,
       others \in {<<>>, <<Same>>, <<Ten, Slim>>}}
    \cup {From(front, <<above, d, Plain1>>, 3) :
             front \in {"check", "update"}, d \in Directives,
             above \in {Says(<<Package("name", TRUE, FALSE, AnyVersion)>>), Ignores}}
    \cup {From("update", <<d, [is |-> between], Plain1>>, 3) :
             d \in Directives, between \in {"blank", "comment"}}
    \cup {From("update", <<d, Plain1, Instruction("RUN", None, <<Same>>)>>, at) :
             d \in Directives, at \in {2, 3}}
    \cup {From("update", <<Plain1>>, 1)}

MCPins == Asked \cup Texts \cup Dockerfiles
=============================================================================
