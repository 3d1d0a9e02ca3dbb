------------------------------ MODULE PinUpdate ------------------------------
(***************************************************************************)
(* One pin, from the text that holds it to the text an update leaves: a    *)
(* site of a .doneram.pkl (internal/engine, internal/cli/pklcheck.go), or  *)
(* an instruction under a directive in a Dockerfile, checked or updated.   *)
(* Finding it and rewriting it is Locator's or DockerfileText's, the       *)
(* answer between the two Registries' or Releases'.                        *)
(***************************************************************************)
EXTENDS Releases, Registries, DockerfileText, FiniteSets

CONSTANTS
    Pins,
    Literals,
    Keys,    \* what the lines a site's pattern asks for begin with
    Listings \* what each kind of registry may list for a package

Fronts == {"site", "check", "update"}

L == INSTANCE Locator

\* A version has a literal if two numbers meet at a dot, and none if it has no
\* dot; what digits its words end or begin with decides the others.
ASSUME LiteralsAssumption ==
    /\ Literals \subseteq Tags
    /\ \A t \in Tags :
         /\ (\E i \in 2..Len(t.segments) : {t.segments[i - 1], t.segments[i]} \subseteq Nat)
              => t \in Literals
         /\ Len(t.segments) < 2 /\ t.suffix = 0 => t \notin Literals

ASSUME PinsAssumption ==
    /\ Garbled \notin Tags \cup {None}
    /\ \A pin \in Pins :
         /\ pin.front \in Fronts
         /\ IF pin.front = "site"
            THEN /\ pin.kind \in RegistryKinds \cup GitHubKinds /\ pin.pattern \in Patterns
                 /\ pin.text \in Seq(Seq([key : Keys, version : Tags \cup {None}]))
                 /\ pin.site.files \subseteq DOMAIN pin.text /\ pin.site.window \in Int
            ELSE /\ pin.text \in Seq(Line)
                 /\ pin.at \in DOMAIN pin.text /\ pin.text[pin.at].is = "instruction"
    /\ \A kind \in RegistryKinds : \A listing \in Listings[kind] :
         listing \subseteq Entry /\ Carries(kind, listing)

VARIABLES
    pin,
    text,       \* its file, or a site's files
    found,      \* the site's matches
    candidates, \* what the rescan suggests
    listing,    \* the registry's answer
    stage

vars == <<pin, text, found, candidates, listing, stage, pattern, cooldown, releases, phase, offered>>

Stages == {"start", "resolve", "rewrite", "mismatch", "passedOver", "reported", "done"}

InDockerfile == pin.front # "site"

image == text[pin.at].image

kind == IF ~InDockerfile THEN pin.kind ELSE IF image.ghcr THEN "ghcr" ELSE "docker"

Init ==
    /\ pin \in Pins
    /\ text = pin.text
    /\ found = {}
    /\ candidates = {}
    /\ listing = {}
    /\ stage = "start"
    /\ pattern = AnyVersion
    /\ cooldown \in BOOLEAN
    /\ releases = <<>>
    /\ phase = "none"
    /\ offered = None

----------------------------------------------------------------------------
(* Where the pin is.                                                        *)

Ask(p) ==
    /\ stage' = "resolve"
    /\ pattern' = p
    /\ phase' = CASE kind \in GitHubKinds -> "releases"
                  [] kind = "mise" -> "latest"
                  [] OTHER -> "listing"

\* siteRunner.site up to its question.
Locate ==
    /\ stage = "start"
    /\ ~InDockerfile
    /\ found' = L!Find(text, pin.site)
    /\ IF L!CheckExpect(pin.site, found')
       THEN Ask(pin.pattern) /\ UNCHANGED candidates
       ELSE /\ stage' = "mismatch"
            /\ candidates' = L!Rescan(text, pin.site)
            /\ UNCHANGED <<pattern, phase>>
    /\ UNCHANGED <<pin, text, listing, cooldown, releases, offered>>

directive == DirectiveOf(text, pin.at)

\* A directive has one package that counts, its first.
Asks ==
    /\ directive # None
    /\ ~directive.ignore
    /\ text[pin.at].command \in {"FROM", "COPY"}
    /\ image # None
    /\ directive.items # <<>>
    /\ ~parsePackageDirective(directive.items[1]).ignore
    /\ IF pin.front = "check" THEN answersCheck(image) ELSE answersUpdate(image)

ReadInstruction ==
    /\ stage = "start"
    /\ InDockerfile
    /\ IF Asks THEN Ask(parsePackageDirective(directive.items[1]).pattern)
       ELSE stage' = "passedOver" /\ UNCHANGED <<pattern, phase>>
    /\ UNCHANGED <<pin, text, found, candidates, listing, cooldown, releases, offered>>

----------------------------------------------------------------------------
(* What its registry answers.                                               *)

FetchListing ==
    /\ phase = "listing"
    /\ listing' \in Listings[kind]
    /\ LET answers == Resolve(kind, listing', pattern)
       IN  IF answers # {} THEN \E tag \in answers : Finish("offered", tag)
           ELSE Finish("failed", None)
    /\ UNCHANGED <<question, releases>>

FetchListingFails ==
    /\ phase = "listing"
    /\ Finish("failed", None)
    /\ UNCHANGED <<question, releases, listing>>

\* `mise latest`, which may fail, or name a version outside the pattern.
MiseLatest ==
    /\ phase = "latest"
    /\ \/ \E tag \in matching(Tags, pattern) : Finish("offered", tag)
       \/ Finish("listing", None)
    /\ UNCHANGED <<question, releases, listing>>

\* An action's pin needs its tag's commit too.
FetchCommitFails ==
    /\ kind = "github-action"
    /\ phase = "offered"
    /\ Finish("failed", None)
    /\ UNCHANGED <<question, releases, listing>>

ResolvePin ==
    /\ stage = "resolve"
    /\ \/ FetchListing \/ FetchListingFails \/ MiseLatest \/ FetchCommitFails
       \/ AskGitHub /\ UNCHANGED listing
    /\ UNCHANGED <<pin, text, found, candidates, stage>>

----------------------------------------------------------------------------
(* What becomes of its text.                                                *)

\* siteNeedsPatch looks at the first match, UpdateFromInstructions at the line.
needsUpdate ==
    IF InDockerfile THEN ~currentIs(image, offered)
    ELSE LET m == L!First(found) IN text[m[1]][m[3]].version # offered

\* Held is an empty answer, failed an error; neither changes anything.
Answered ==
    /\ stage = "resolve"
    /\ phase \in {"offered", "held", "failed"}
    /\ stage' = IF phase # "offered" \/ ~needsUpdate THEN "done"
                ELSE IF pin.front = "check" THEN "reported" ELSE "rewrite"
    /\ UNCHANGED <<pin, text, found, candidates, listing, pattern, cooldown, releases, phase, offered>>

\* Mutant: patchSite stops after its first file.
RewriteFirst ==
    /\ stage = "rewrite"
    /\ text' = IF InDockerfile
               THEN [text EXCEPT ![pin.at] = applyUpdate(@, offered)]
               ELSE [text EXCEPT ![L!First(found)[1]] = L!Patch(@, pin.site, offered)]
    /\ stage' = "done"
    /\ UNCHANGED <<pin, found, candidates, listing, pattern, cooldown, releases, phase, offered>>

Rewrite ==
    /\ stage = "rewrite"
    /\ text' = IF InDockerfile
               THEN [text EXCEPT ![pin.at] = applyUpdate(@, offered)]
               ELSE [f \in DOMAIN text |->
                       IF \E m \in found : m[1] = f
                       THEN L!Patch(text[f], pin.site, offered) ELSE text[f]]
    /\ stage' = "done"
    /\ UNCHANGED <<pin, found, candidates, listing, pattern, cooldown, releases, phase, offered>>

Done == stage \in {"mismatch", "passedOver", "reported", "done"} /\ UNCHANGED vars

Next == Locate \/ ReadInstruction \/ ResolvePin \/ Answered \/ Rewrite \/ Done

Spec == Init /\ [][Next]_vars

----------------------------------------------------------------------------
(* Properties                                                               *)

\* The versions of a listing without a mark against them: of a distribution,
\* those of its own repositories, named without their revision.
Usual ==
    CASE kind = "apk" -> {unrevised(t, ApkRevised) : t \in Listed(listing, {"alpine"})}
      [] kind = "apt" -> {withoutSuffix(t) : t \in Listed(listing, {"debian", "ubuntu"})}
      [] kind = "yum" -> {unrevised(t, YumRevised) : t \in Listed(listing, {"fedora", "centos"})}
      [] OTHER -> Listed(listing, {"none"})

Flagged(r) == r.prerelease \/ r.draft \/ r.tag.suffix \in Prereleases

\* The releases an owner of the pin would take, but for their age.
Fit == {i \in DOMAIN releases : ~Flagged(releases[i]) /\ Matches(pattern, releases[i].tag)}

Young(i) == cooldown /\ releases[i].age = "new"

Offers == phase = "offered" /\ stage # "start"

FromGitHub == phase # "none" /\ kind \in GitHubKinds

\* The types, and an offer that is a version.
TypeOK ==
    /\ pin.front \in Fronts
    /\ IF InDockerfile THEN text \in Seq(Line) ELSE DOMAIN text = DOMAIN pin.text
    /\ found \subseteq Nat \X Nat \X Nat
    /\ candidates \subseteq Nat \X Nat
    /\ listing \subseteq Entry
    /\ stage \in Stages
    /\ pattern \in Pattern
    /\ cooldown \in BOOLEAN
    /\ releases \in Seq(Release)
    /\ phase \in {"none", "listing", "latest", "releases", "chosen", "tags",
                  "offered", "held", "failed"}
    /\ offered \in Tags \cup {None}
    /\ phase = "offered" <=> offered # None

\* Whatever a pin is offered has a suffix its constraint allows and is below
\* its ceiling, and is one its source stands behind: a version the registry
\* lists and, unless it is PyPI, whose mark is not read, did not withdraw; on GitHub,
\* when any release is fit, one whose release is neither flagged nor young. A
\* branch's head is offered whatever the constraint.
OfferedFits ==
    Offers =>
      /\ kind # "github-branch" =>
           /\ offered.suffix \in pattern.suffixes
           /\ pattern.ceiling # None => Newer(pattern.ceiling, offered)
      /\ FromGitHub /\ Fit # {} =>
           \E i \in Fit : releases[i].tag = offered /\ ~Young(i)
      /\ kind \in RegistryKinds \ {"mise"} =>
           offered \in Usual \cup (IF kind = "pypi" THEN Listed(listing, Marks) ELSE {})

\* A pin is offered the newest: no version the registry lists and the
\* constraint matches is newer, unless its mark or its age keeps it back. So a
\* patch lowers a pin only when the version it held is matched no longer, is
\* not listed, or is too young.
OfferedIsNewest ==
    Offers =>
      /\ FromGitHub /\ Fit # {} =>
           \A i \in Fit : ~Young(i) => ~Newer(releases[i].tag, offered)
      /\ kind \in RegistryKinds \ {"mise"} =>
           \A v \in Usual : Matches(pattern, v) => ~Newer(v, offered)

\* The cooldown holds a pin exactly when all that is fit is young: an older
\* release is not passed over, a young one does not come back by way of its
\* tag, which has no date, and a held pin keeps its text.
HeldStaysHeld ==
    /\ FromGitHub /\ phase \in {"offered", "held", "tags"} =>
         (phase = "held" <=> Fit # {} /\ \A i \in Fit : Young(i))
    /\ phase # "offered" => text = pin.text

Sited == stage = "done" /\ ~InDockerfile /\ Offers

\* An update is finished after one run: the same pattern finds the same places
\* in the text it leaves, all of them at the version offered, in every file of
\* the glob, so that a second run changes nothing. Two patterns are left out:
\* one anchored to the start of the text, which Find tries on every window and
\* Patch once, and one whose group does not take the version offered, which
\* finds nothing in what it wrote.
SecondRunIdle ==
    Sited /\ ~pin.site.anchored /\ offered \in pin.site.takes =>
      /\ L!Find(text, pin.site) = found
      /\ text # pin.text => \A m \in found : text[m[1]][m[3]].version = offered

HeadWithinWindow(f, j) ==
    \E i \in 1..(j - 1) : pin.text[f][i].key = pin.site.head /\ j - i < L!WindowSize(pin.site)

\* What a site's pattern misses is told of or kept. When the count is wrong
\* nothing is rewritten, and for a pattern of one line every line with its key
\* and a version literal is a candidate. When it is right, an update rewrites
\* no pin but the ones that were found and counted; only, Patch knows no
\* window, and a pattern that reaches over lines may also rewrite a pin whose
\* head is farther above it than that.
MissedToldOrKept ==
    /\ stage = "mismatch" =>
         /\ text = pin.text
         /\ pin.site.head = None =>
              \A f \in pin.site.files : \A j \in DOMAIN text[f] :
                text[f][j].key = pin.site.key /\ text[f][j].version \in Literals =>
                  <<f, j>> \in candidates
    /\ Sited =>
         \A f \in DOMAIN text : \A j \in DOMAIN text[f] :
           text[f][j] # pin.text[f][j] =>
             \/ \E m \in found : m[1] = f /\ m[3] = j
             \/ pin.site.head # None /\ ~HeadWithinWindow(f, j)

Updated == stage = "done" /\ pin.front = "update" /\ text # pin.text

\* An update changes the version of the image it resolved and nothing else: not
\* the image's host, port or digest, no other line, and of the rest of its
\* line only what begins with the old version.
UpdateKeepsImage ==
    Updated =>
      LET old == pin.text[pin.at]
          new == text[pin.at]
      IN  /\ \A k \in DOMAIN text \ {pin.at} : text[k] = pin.text[k]
          /\ new.image = [old.image EXCEPT !.tag = offered]
          /\ \A k \in DOMAIN old.others :
               \/ new.others[k] = old.others[k]
               \/ old.others[k] = old.image.tag
               \/ <<old.image.tag, old.others[k]>> \in Begins

\* An instruction is updated only under a directive on the line above it that
\* is not ignore and whose first item is not an ignore with a name, and under a
\* hold only below its ceiling, unless the hold's reason is one the directive's
\* own punctuation cuts short. (In a list, ignore without a name is a name.)
UnderItsDirective ==
    Updated =>
      /\ pin.at > 1
      /\ LET above == pin.text[pin.at - 1]
         IN  /\ above.is = "directive"
             /\ ~above.ignore
             /\ above.items # <<>>
             /\ ~(above.items[1].form = "ignore" /\ above.items[1].named)
             /\ above.items[1].form = "hold" /\ ~above.items[1].split =>
                  Newer(above.items[1].pattern.ceiling, offered)

\* README.md:220: "Yanked versions are checked both ways. doneram never
\* proposes one".
NeverYanked ==
    Offers /\ ~FromGitHub => \A e \in listing : e.mark = "yanked" => e.tag # offered
=============================================================================
