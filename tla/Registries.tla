----------------------------- MODULE Registries -----------------------------
(***************************************************************************)
(* The resolvers of internal/resolver that ask a package registry: what    *)
(* each may answer for a pattern, given what its registry lists. An empty  *)
(* set is the error that nothing matches.                                  *)
(*                                                                         *)
(* A listing is a set, since every one of them sorts or scans all of what  *)
(* was listed and the maps some decode into have no order.                 *)
(***************************************************************************)
EXTENDS VersionPatterns

CONSTANTS
    ApkRevised, \* what a suffix that ends in a revision, "r0", is without it
    YumRevised  \* and one that ends in a number

Repos == {"alpine", "debian", "ubuntu", "fedora", "centos"}

\* What the registry says of a version: yanked or prerelease by its flag, dev
\* by a branch's name, or the repository a distribution's package is from.
Marks == {"none", "yanked", "prerelease", "dev"} \cup Repos

Entry == [tag : Tags, mark : Marks]

\* apt's: the suffix is the text after the first dash.
withoutSuffix(tag) == [tag EXCEPT !.suffix = 0]

\* apk's and yum's: only the last revision goes.
unrevised(tag, revised) ==
    IF tag.suffix \in DOMAIN revised THEN [tag EXCEPT !.suffix = revised[tag.suffix]] ELSE tag

ASSUME RegistriesAssumption ==
    /\ 0 \notin DOMAIN ApkRevised \cup DOMAIN YumRevised
    /\ \A t \in Tags : {withoutSuffix(t), unrevised(t, ApkRevised), unrevised(t, YumRevised)}
                        \subseteq Tags

Listed(listing, marks) == {e.tag : e \in {x \in listing : x.mark \in marks}}

matching(tags, p) == {t \in tags : Matches(p, t)}

npm(listing, p) == Latest(matching(Listed(listing, Marks), p))

\* The files of a release, and with them whether it was yanked, are not read.
pypi(listing, p) == Latest(matching(Listed(listing, Marks), p))

cdnjs(listing, p) == Latest(matching(Listed(listing, Marks), p))

cargo(listing, p) == Latest(matching(Listed(listing, Marks \ {"yanked"}), p))

composer(listing, p) == Latest(matching(Listed(listing, Marks \ {"dev"}), p))

\* normalizeGemVersion cuts what only a prerelease has.
rubygems(listing, p) == Latest(matching(Listed(listing, Marks \ {"prerelease"}), p))

apk(listing, p) ==
    LET versions == {unrevised(t, ApkRevised) : t \in Listed(listing, {"alpine"})}
    IN  Latest(matching(versions, p))

apt(listing, p) ==
    LET versions == {withoutSuffix(t) : t \in Listed(listing, {"debian", "ubuntu"})}
    IN  Latest(matching(versions, p))

yum(listing, p) ==
    LET versions == {unrevised(t, YumRevised) : t \in Listed(listing, {"fedora", "centos"})}
    IN  Latest(matching(versions, p))

dockerhub(listing, p) == Latest(matching(Listed(listing, Marks), p))

ghcr(listing, p) == Latest(matching(Listed(listing, Marks), p))

miseLsRemote(listing, p) == Latest(matching(Listed(listing, Marks), p))

\* A branch's head, a commit whatever the pattern.
headCommit(listing, p) == Listed(listing, Marks)

\* resolver.Registry, less the kinds that ask for GitHub's releases.
Resolve(kind, listing, p) ==
    CASE kind = "npm" -> npm(listing, p)
      [] kind = "pypi" -> pypi(listing, p)
      [] kind = "cdnjs" -> cdnjs(listing, p)
      [] kind = "cargo" -> cargo(listing, p)
      [] kind = "composer" -> composer(listing, p)
      [] kind = "rubygems" -> rubygems(listing, p)
      [] kind = "apk" -> apk(listing, p)
      [] kind = "apt" -> apt(listing, p)
      [] kind = "yum" -> yum(listing, p)
      [] kind \in {"docker", "dockerhub"} -> dockerhub(listing, p)
      [] kind = "ghcr" -> ghcr(listing, p)
      [] kind = "mise" -> miseLsRemote(listing, p)
      [] kind = "github-branch" -> headCommit(listing, p)

RegistryKinds == {"npm", "pypi", "cdnjs", "cargo", "composer", "rubygems", "apk", "apt",
                  "yum", "docker", "dockerhub", "ghcr", "mise", "github-branch"}

GitHubKinds == {"github-release", "github-action"}

\* The marks a listing of a kind may carry. A branch lists its head alone.
Carries(kind, listing) ==
    LET marked(marks) == \A e \in listing : e.mark \in marks
    IN  CASE kind \in {"pypi", "cargo"} -> marked({"none", "yanked"})
          [] kind = "composer" -> marked({"none", "dev"})
          [] kind = "rubygems" -> marked({"none", "prerelease"})
          [] kind \in {"apk", "apt", "yum"} -> marked(Repos)
          [] kind = "github-branch" -> marked({"none"}) /\ \A x, y \in listing : x = y
          [] OTHER -> marked({"none"})
=============================================================================
