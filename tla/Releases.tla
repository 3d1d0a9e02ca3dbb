------------------------------ MODULE Releases ------------------------------
(***************************************************************************)
(* The GitHub release resolver and its cooldown (internal/resolver): the   *)
(* releases first, the tags only when no release is fit for the pattern,   *)
(* and neither when the cooldown holds back everything that is.            *)
(***************************************************************************)
EXTENDS VersionPatterns

CONSTANTS
    Prereleases,  \* the suffixes prereleaseTagPattern matches
    ReleaseLists, \* what the first page of /releases may hold, in GitHub's order
    TagLists      \* and that of /tags

Ages == {"undated", "old", "new"}

Release == [tag : Tags, prerelease : BOOLEAN, draft : BOOLEAN, age : Ages]

ASSUME ReleasesAssumption ==
    /\ 0 \notin Prereleases
    /\ \A list \in ReleaseLists : list \in Seq(Release)
    /\ \A list \in TagLists : list \in Seq(Tags)

VARIABLES pattern, cooldown, releases, phase, offered

question == <<pattern, cooldown>>

Finish(p, tag) == phase' = p /\ offered' = tag

----------------------------------------------------------------------------

tooNew(r, cutoff) == cutoff /\ r.age = "new"

Stable(r, p) ==
    /\ ~r.prerelease /\ ~r.draft /\ r.tag.suffix \notin Prereleases
    /\ Matches(p, r.tag)

\* The highest version and, of several that are equal, the first listed: at
\* most one tag.
bestRelease(list, p, cutoff) ==
    LET fit == {i \in DOMAIN list : Stable(list[i], p) /\ ~tooNew(list[i], cutoff)}
        beats(i, j) == LET c == Compare(Parse(list[i].tag), Parse(list[j].tag))
                       IN  c > 0 \/ (c = 0 /\ i <= j)
    IN  {list[i].tag : i \in {k \in fit : \A j \in fit : beats(k, j)}}

\* A release that would have been offered had there been no cooldown.
heldByCooldown ==
    /\ cooldown
    /\ bestRelease(releases, pattern, FALSE) # {}
    /\ bestRelease(releases, pattern, FALSE) # bestRelease(releases, pattern, TRUE)

FetchReleasesFails ==
    /\ phase = "releases"
    /\ Finish("failed", None)
    /\ UNCHANGED <<question, releases>>

FetchReleases ==
    /\ phase = "releases"
    /\ releases' \in ReleaseLists
    /\ Finish("chosen", None)
    /\ UNCHANGED question

\* Mutant: what the cooldown holds back is looked for among the tags.
ChooseHeldFromTags ==
    /\ phase = "chosen"
    /\ LET best == bestRelease(releases, pattern, cooldown)
       IN  IF best # {} THEN \E tag \in best : Finish("offered", tag)
           ELSE Finish("tags", None)
    /\ UNCHANGED <<question, releases>>

Choose ==
    /\ phase = "chosen"
    /\ LET best == bestRelease(releases, pattern, cooldown)
       IN  IF best # {} THEN \E tag \in best : Finish("offered", tag)
           ELSE IF heldByCooldown THEN Finish("held", None)
           ELSE Finish("tags", None)
    /\ UNCHANGED <<question, releases>>

FetchTagsFails ==
    /\ phase = "tags"
    /\ Finish("failed", None)
    /\ UNCHANGED <<question, releases>>

Undated(list) ==
    [k \in DOMAIN list |->
       [tag |-> list[k], prerelease |-> FALSE, draft |-> FALSE, age |-> "undated"]]

\* Mutant: a list without a match is an answer like any other.
FetchTagsBlindly ==
    /\ phase = "tags"
    /\ \E list \in TagLists :
         \E tag \in bestRelease(Undated(list), pattern, FALSE) \cup {None} : Finish("offered", tag)
    /\ UNCHANGED <<question, releases>>

FetchTags ==
    /\ phase = "tags"
    /\ \E list \in TagLists :
         LET best == bestRelease(Undated(list), pattern, FALSE)
         IN  IF best # {} THEN \E tag \in best : Finish("offered", tag)
             ELSE Finish("failed", None)
    /\ UNCHANGED <<question, releases>>

AskGitHub == FetchReleasesFails \/ FetchReleases \/ Choose \/ FetchTagsFails \/ FetchTags
=============================================================================
