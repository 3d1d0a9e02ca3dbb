# doneram in TLA+

doneram keeps version pins current. It finds pins in files (a `.doneram.pkl`
config lists them, or directives in Dockerfiles do), asks the registry each pin
names for its latest version, reports what is stale or vulnerable, and on
request patches the files. This directory holds TLA+ models of the parts where
that goes wrong in ways tests hardly reach, the TLC configurations that check
them, and TLAPS proofs of what they guarantee. Paths are relative to the
repository.

## Inventory

| component | state | operations | what makes it hard | correct when |
|---|---|---|---|---|
| **Site engine** `internal/engine` | a slot semaphore, three memos of `sync.Once` entries, a results slice | `RunSites`: one goroutine a site; find, check the count, route, resolve, detail | goroutines meeting at one entry while they hold slots; calls that fail while others wait; keys that omit part of the question | one call a question, every site told that answer, bounded concurrency, every run returns, holds respected |
| **HTTP client** `internal/httpclient` | per-host slot channels, per-host quota marks, a retry counter a request | check quota, wait for a slot, send, note quota, give back the slot; retry, cool down, give up | check and wait are two steps; responses in any order; retry and limiter read the same error differently; cancellation anywhere | slots conserved, one host's quota fails only its own requests, honest errors, every request ends |
| **Config run** `internal/cli/pklcheck.go` | the working tree, the summary's lines and failure counts, `patchedAny` | load, select, check or patch each site, afterPatch, summary, exit status | a site's files are written one by one; matches are read before any write; torn writes; killed runs; exit status combined from flags | a clean exit tells the truth about the disk, the snapshot follows the pins, drift gates |
| **Pin config** `internal/config` | none at run time | `Sites`, `constraint`, `Load` (calls `pkl`) | a hold is a ceiling on a pattern whose text does not show it | one engine site for every declared place |
| **Locator** `internal/locator` | none | `Find`, `CheckExpect`, `Patch`, `Rescan` | windows of lines on the way in, whole text on the way out, single lines in a rescan | what is found is what is patched, what is missed is told of, one update is enough |
| **Patterns, directives** `internal/parser` | none | `ParsePattern`, `Matches`, Dockerfile instructions and directives | ceilings, suffixes, segments compared as text here and as numbers there; commas and semicolons inside a hold | a match is inside its constraint, an update is under its directive |
| **Versions** `pkg/version` | none | `Parse`, `Compare`, `Latest` | suffix order, missing segments, segments that are no numbers | what is offered is the newest |
| **Resolvers** `internal/resolver` | none (16 kinds) | `Resolve`, `Details`; releases filtered by cooldown | newest release held by `--min-age`, prereleases, drafts, yanked versions, branches, other distributions' packages | never a version younger than the age, outside the constraint or withdrawn |
| **Dockerfile check/update** `internal/cli/{check,update,processor,fileexpander}.go` | the Dockerfiles, a goroutine a file behind a semaphore, a result a file | parse, resolve, write, build, health check, clean up | written before it is validated; failures after the write; zero workers | slots conserved, the exit status tells what was validated, every run returns |
| **Updater** `internal/updater` | lines of a file | `Apply`, `UpdateFromInstructions` | an image's port, digest and platform among its colons, other tags on the line | only the version changes |
| **Builder** `internal/builder` | docker images and containers, in a daemon all goroutines share | `Build`, `Validate`, `Cleanup` | containers named by the second, images by their content, cleanup on failure | a goroutine touches its own containers only, nothing left behind |
| **Advisories** `internal/{osv,vulncheck,vulnscan}` | none | batch query, `affects`, `MinimumFix`, image scan | several advisories, pagination, swallowed errors | the proposed fix clears every advisory |
| **Reporter** `internal/reporter` | none | tables, JSON | formatting only | (not modelled) |
| **Command line** `cmd/doneram`, `internal/cli/{root,links,version}.go` | flags | cobra commands | inputs of the other models | (not modelled) |
| **Test support** `internal/testutil` | none | helpers | (used by tests only) | (not modelled) |

How they interact: the command line hands a config run its flags. The run calls
`config.Load` and `Config.Sites`, then `engine.RunSites`, whose goroutines call
the locator and, through the memos, the resolvers, all of which share one HTTP
client. `RunSites` returns before anything is written. The results go to the
vulnerability check, and then one goroutine patches, runs `afterPatch`, and
writes the summary. The Dockerfile path has a goroutine a file that does all of
it, up to the docker commands; it shares the resolvers' code with the other path
and nothing at run time.

The hazards, each at its line with the properties that watch it, are in
`PROJECT.json`.

## Modules

| module | models | state and actions |
|---|---|---|
| `PinConfig` | `config/pkl.go`, the keys of the engine's memos, what an answer means to a site | constants and operators only |
| `SharedAnswers` | the abstract promise of `RunSites` | `settled`, `outcome`; `Settle`, `FailAlone`, `Take` |
| `SiteEngine` | `engine.go`, `memo.go`, `command.go` | a program counter a goroutine, `slots`, `entries` (the memos); one action per step between two points where another goroutine can intervene: `Acquire`, `Find*`, `Route`, `EnterMemo`, `OnceRuns`, `CallReturns`, `OnceShares`, `AskDetail`, `Conclude*`, `Release`, `Return` |
| `HttpTransport` | `client.go`, `limiter.go`, `errors.go` | a program counter a request, `attempt`, `slots`, `exhausted`; `Admit`/`Refuse`, `Send`, `Receive`, `Leave*`, `Cooled`, `BackedOff`, `Cancel`, `Reopen` |
| `HostLimiter` | the abstract promise of the retrying client | the requests `waiting` and `flying`, the hosts `closed`, the tries `left`, each request's `verdict`; `Enter`, `Serve`, `Unserved`, `Land`, `End`, `Reopen` |
| `PinRun` | the abstract promise of a run over a `.doneram.pkl` | the `tree` between runs, the question asked, the exit told, the sites said to be `updated`; `Begin`, `Refuse`, `Break`, `Succeed` |
| `PinPatch` | `pklcheck.go`, `locator/patch.go` | the disk, the loop over sites, the summary's lines, `patchedAny`, `exit`; `Begin`, `Reject`, `Report`, `PatchFile`, `PatchFails`, `Patched`, `EndOfSites`, `AfterPatch*`, `Emit*`, `Crash` |
| `DockerfileRun` | `check.go`, `update.go`, `processor.go`, `updater.go`, `builder.go` | a program counter a goroutine, `slots`, the disk, the daemon (`images`, `owner` of each container name, the clock), `result`, `exit`; an action a step that may fail or that others can see: `Acquire`, `Resolve`, `Write`, `Build`, `Create`, `Start`, `See*`, `Condemn`, `Remove`, `Cleanup`, each with its failure, `Release`, `Tick`, `Return` |
| `Advisories` | `vulncheck.go`, `osv.go`, `vulnscan.go` as used | the engine's results, OSV's answer and the fetches still open, what was read and lost, the findings a result; `batchQuery`, `fetchVuln`, `FetchFails`, `Build`, `ScanImage`, `PassOver` |
| `VersionPatterns` | `pkg/version`, `parser/pattern.go` | operators: `Parse`, `Compare`, `Latest`, `Matches` |
| `Registries` | the resolvers of 14 kinds | operators: what each may answer for a listing and a pattern |
| `Releases` | `github_release.go`, `cooldown.go` | the pattern, the releases listed, what is offered; `FetchReleases`, `Choose`, `FetchTags` and their failures |
| `Locator` | `locator.go`, `rescan.go`, `patch.go` | operators over texts: `Find`, `CheckExpect`, `Rescan`, `Patch` |
| `DockerfileText` | `directive.go`, `dockerfile.go`, `updater.go`, the image references of `check.go` and `update.go` | operators: `DirectiveOf`, `parsePackageDirective`, `answersCheck`, `answersUpdate`, `applyUpdate` |
| `PinUpdate` | one pin from text to text: the path through `engine.go`'s `site`, `pklcheck.go`'s patch and the Dockerfile loops | the pin's text, its matches and candidates, the listing, the stage; `Locate`, `ReadInstruction`, `ResolvePin`, `Answered`, `Rewrite` |
| `MC…` | small instances for TLC | definitions for the constants |
| `…Proofs` | theorems | inductive invariants and proofs |

Three detailed modules implement an abstract one: `SiteEngine` implements
`SharedAnswers` (`ImplementsShared`), `HttpTransport` implements `HostLimiter`
(`ImplementsLimiter`) and `PinPatch` implements `PinRun` (`ImplementsRun`). What
`PinPatch` takes for granted, one answer of upstream's for all sites of a tool, is
the theorem `OneAnswerATool` about `SiteEngine` for tools that ask a registry. The
sites of a command with files share its one output; when that names no newer
version, each falls back on its own first match (`command.go:54`), which `PinPatch`
models (`NothingNewer`, `Latest`). `PinUpdate` composes the five operator modules and
`Releases`: it is sequential, as the code is between a pin's text and its
rewriting, and it is where the data the concurrent models keep opaque (texts,
tags, constraints, references) is looked into. `MCPinPatch` computes what
`PinPatch` takes as constants, the places each pattern finds and rewrites, with
`Locator`. Operators named *Mutant* in a comment are
deliberately wrong variants of the definition after them; no specification uses
them. Replacing the right one by the wrong one must break the property it is
listed with in `PROJECT.json`, which shows that the property depends on the code.

### Abstractions

* Versions are ordered numbers in `PinConfig` (a ceiling compares them) and
  opaque in `PinPatch` (the code only tests them for equality there).
* What a file holds, what a registry or a command answers, and what a server
  replies are choices made at the step that reads them. Any of them may fail.
* `HttpTransport` has no clock. A backoff ends at any time, a quota window
  reopens at any time, and a mark written by a late response may close or open
  its host, since the code overwrites the reset unconditionally.
* `PinPatch` splits a pattern's places in two constants, `Found` (line windows,
  as `Find`) and `Rewritten` (whole text, as `Patch`), because the code does.
  The properties about disk contents are stated for patterns where the two
  agree and that do not rewrite another tool's pins (`Sound`); the instance also
  contains a pattern that is not sound.
* `DockerfileRun` has one container name a second of the clock and one image a
  content digest, since that is how the daemon tells them apart. `Tick` comes
  at any time. docker may refuse or fail any command. A build is taken to run in
  quiet mode (its output is the digest). An instruction whose resolution fails,
  whose directive ignores it or whose reference has no version is one resolved to
  `None`. `built`, `healthy` and `stuck` are auxiliary: no guard reads them.
* `Advisories` has versions as numbers, 0 being both the empty string and
  `introduced: "0"`. OSV's own reading of a record (`Affected`) is external: an
  introduction at or below the version with no fix between them. It is what
  the code's windows are compared with. Events alternate and rise
  (`EventsAssumption`), as OSV's schema asks. `lost` is auxiliary.
* `VersionPatterns` has a tag as its segments and a rank of its suffix in text
  order, 0 being none. A segment that is not a number is a word, which `Parse`
  reads as 0 and a pattern compares as text: `alpine3.#` is a pattern whose major
  segment is the word `alpine3`. The leading `v` that `Parse` drops, and a
  pattern's first segment does not, is left out.
  `Latest` is a set: the code's sorts are not stable, so of equal versions (1.2
  and 1.2.0, or two words) any may come out.
* `Releases` has ages *old*, *new* (inside the cooldown) or undated. A
  `github-action` pin, "commit # tag", is named by its tag, and its commit is one
  more request that may fail.
* `Registries` lists versions with a mark, *yanked*, *prerelease*, *dev* or a
  distribution's repository, because those are what the resolvers tell apart or
  fail to. `ApkRevised` and `YumRevised` say what is left of a suffix whose last
  `-rN` or `-N` is cut, as the resolvers of apk and yum do; apt's cuts all from the first hyphen.
  A branch's head is a word.
* `Locator` has a line as its key, all that is before the version, and the
  version. A pattern is what it asks of lines: a key, the versions its group
  takes (`takes`), a head on an earlier line, an anchor, a group before the one
  captured. Its places in a window, in the whole text and on single lines
  differ, which is what the properties are about. `Literals` are the versions
  that a rescan takes for one, two to four numbers; a word or a single number is
  none.
* `DockerfileText` has of a reference what its colons make of it: a
  `--platform`, a port, a tag and a digest. Check and updater read up to the
  first colon, update up to the last. A name that keeps a part which is not its
  own is one no registry answers for. A text cut by the directive's own
  punctuation is marked `split`. An item without a name's colon is a name under
  any version, the word `ignore` in a list included, unless it is a hold.
* `PinUpdate` follows one instruction of a Dockerfile. The others are in the text
  and must not change.
* `Advisories` has a scanner's report as lists of findings with the fixes named
  for each; package names and severities are left out.
* `Crash` and `PatchFails` may tear a write: `os.WriteFile` truncates the
  file, and every pin in it reads `Lost`. Nobody else edits the tree during a
  run. `Sites` of `PinPatch` are those with a file, a command's among them;
  without a file there is nothing to patch.

## Runs

| run | expected | question |
|---|---|---|
| `site_engine` | pass | Do goroutines that share questions, slots and failures agree, and does every run return? |
| `site_engine_hold` | violation | Is a hold never overridden? |
| `http_transport` | pass | Are slots conserved, errors honest, quotas local, and does every request end? |
| `pin_patch` | pass | Does a clean exit tell the truth about disk, snapshot and drift, over runs that are killed and repeated? |
| `pin_patch_agree` | violation | Can a version pinned in several files end up disagreeing with itself? |
| `pin_patch_afterpatch` | violation | Does `afterPatch` run once anything changed? |
| `dockerfile_run` | pass | Are slots, images and containers conserved over every failure, and does the exit status tell what was validated? |
| `dockerfile_run_kept` | violation | Is an update kept only when its build and health check passed? |
| `advisories` | pass | Do findings land on their own pins, survive failures elsewhere, and name the right fix? |
| `advisories_patched` | violation | Does the reported patched version clear every advisory? |
| `pin_update` | pass | Is a pin offered the newest version its constraint, age and marks allow, does one update rewrite exactly what was found, and is what was not found told of? |
| `pin_update_yanked` | violation | Is a yanked version never proposed? |

### Bounds, and why they are enough

* `MCSiteEngine`: four sites of three tools under two workers. Two sites share
  a question, a Detailer and a ceiling, so they meet at a memo entry in every
  order and with every outcome of the call; the third asks a command and the
  fourth cannot be routed. Two workers under four sites make both the semaphore
  and the entry a point to wait at, which is all a deadlock between them needs.
  Two versions with the ceiling at the second distinguish *below* from *at*.
* `MCSiteEngineHold`: the two tools of the finding.
* `MCHttpTransport`: two requests to one host and one to another, one slot a
  host (`DefaultLimit`, reached through the code's `< 1` branch), one retry. One
  slot makes the second request queue behind the first, and one retry has both
  the *again* and the *give up* branch.
* `MCPinPatch`: `MaxRuns = 2`, so that a second run meets whatever a killed or
  failed first one left. Two tools, one of which asks a command, four sites, five
  places in two files: a
  glob over both files, two patterns of one tool in one file, two tools in one
  file, and an anchored pattern that `Patch` never matches. Deadlock is checked
  in every run; `Done`, `AllOver` and `Resting` are the states in which the
  program really has stopped.
* `MCDockerfileRun`: three files under two workers, so that one waits for a
  slot while two are in docker together. The first two build to the same image
  and have a health check, so each can remove the image under the other, and
  their containers may be named in the same second; the third has none. The
  first has two pins, so an update may change one and not the other. Its
  retries are 0, which the code reads as 3; the second's are -1, which makes
  no try at all. `LastSecond = 1` has containers of the same second and of
  different ones. All eight combinations of flags are initial states.
* `MCAdvisories`: four results, the first of which is queried, without an
  ecosystem or unresolved, so that later queries shift; a pin of an
  unversioned ecosystem, with and without its tag; a pin with and without a hold;
  an image. Four advisories: one with two windows, one with commits, one only
  the client's own windows decide, and one of two packages. Versions 1 to 4
  put a pin below, at, between and above the ends of two windows.
* `MCPinUpdate`: ten tags, of which two are one version with and without its
  patch segment, one needs a numeric comparison (1.10 and 1.2), one is a word, one
  is a prerelease by name only, and four have the suffixes a distribution's
  package may have, a revision alone and one after another suffix among them. Six
  patterns: any, any suffix, a fixed major, a major that is a word, a fixed minor,
  and a ceiling that is itself a tag. Three families of pins share the actions:
  every pattern of every kind of registry, against every list of two versions
  with the marks that registry gives, or every list of two releases of any kind
  and three unflagged ones (a newest one held, a next one that is not, and an
  older one); every text of three lines out of six kinds, and a second file,
  against every combination of window, anchor, head and count; and every
  directive above every reference, with a line between them or without, under
  `check` and `update`. Two versions or releases are enough because every
  choice among them is by comparing two; three lines, because a window of two
  then has a first, a last and a pair it cannot see.

`MaxRuns` and `LastSecond` are the only bounds on counters that the code does not
have itself.

### Fairness

* `SiteEngine`: weak fairness on each goroutine's steps and on `wg.Wait`. Go's
  scheduler runs a runnable goroutine, a blocked channel send proceeds once
  there is room, and a call returns because the HTTP client is bounded by a
  timeout. Weak fairness suffices: no slot is taken from a waiting goroutine
  for ever, since each site asks for one once.
* `HttpTransport`: weak fairness on each request's own steps. Servers answer
  or the transport errors, and timers fire. No fairness on `LeaveQueue`,
  `Cancel` (a context need never be done) or `Reopen` (a window outlasts a run).
* `DockerfileRun`: weak fairness on each goroutine's steps and on `wg.Wait`,
  as in the engine; docker commands are taken to end. None on `Tick`: no run
  may depend on the second it runs in.
* `Advisories`: weak fairness on the check as a whole, which is one goroutine:
  requests and scanners return, if only by a timeout. No fairness on success, so
  every fetch may fail.
* `PinPatch`, `PinUpdate` and `Releases`: none. A run is a loop over a finite list
  and a pin takes seven steps at most: that they end is no question, and no
  liveness property is stated. `EveryStepCounts` is what there is to prove of it.

## Findings

1. **A hold can be overridden** (`site_engine_hold`, code bug). `engine.go:181`
   keys a memo by the constraint's text, and a hold's ceiling is not part of
   it. Two tools with the same resolver and name, one of them held, share one
   entry; whichever goroutine comes first decides for both.
2. **A yanked version can be proposed** (`pin_update_yanked`). `pypi.go:69`
   keeps the names of the releases alone, and with them goes PyPI's yanked flag.
   Only `cargo.go:78` reads one. `OfferedFits` is what holds for every kind.
3. **A version can disagree with itself** (`pin_patch_agree`).
   `pklcheck.go:399` compares only the first match with the latest version.
   What is left is `AgreementKept`, checked by `pin_patch` and proved
   (`AgreedStayAgreed`): after a clean patching run places of a tool disagree only
   where a site that is not updated disagreed with itself before, or where upstream
   had nothing newer and they disagreed before.
4. **`afterPatch` can be skipped after a change** (`pin_patch_afterpatch`).
   `pklcheck.go:188` drops the count of what was patched before the error.
   `AfterPatchKnows` proves it the only way: any other failure leaves the
   change known.
5. **An update is kept although it failed validation**
   (`dockerfile_run_kept`). `update.go:261` writes the Dockerfile before the
   build; no later failure puts it back. The next run finds the pin current.
6. **The patched version need not clear every advisory** (`advisories_patched`).
   `osv.go:73` keeps the smallest fix over all of a pin's advisories. `LeastFix`
   is what holds for a single one, and `PatchedBounds` for several: no version
   that clears them all is older, and it clears them if they agree.

`PROJECT.json` quotes the documentation each contradicts.

## Proofs

All theorems hold for every value of the constants that satisfies the named
assumptions of the modules (`ConfigAssumption`, `LocatedAssumption`,
`DistinctAssumption`, `WorkersAssumption`, `UnsetAssumption`,
`TransportAssumption`, `PatchAssumption`, `DockerfileAssumption`,
`VersionsAssumption`, `RegistriesAssumption`, `ReleasesAssumption`, `LiteralsAssumption`,
`PinsAssumption`, `AdvisoriesAssumption`, `EventsAssumption`). Those say
what kind of thing each constant is, that the sites of one engine run, the
requests and the Dockerfiles of one run are finitely many, that a tool without a
file has a single command site (which is what `Config.Sites` compiles), and that
markers such as `Failed` or `Lost` are not versions. Two say more of the world
outside: a listing carries only marks its registry has (`Carries`: npm marks
nothing as yanked), and the events of an advisory's range alternate and rise, as
OSV's schema asks.

**`SiteEngineProofs`**: `TypeCorrect`, `WorkersBounded`, `SingleFlightHolds`,
`HoldsRespected`, `ReturnsCompletely`, `Refinement`. None of the properties is
inductive alone. That a held site's version is below its ceiling depends on
which goroutine made the call whose answer it took, perhaps long gone, so the
invariant remembers it in the entry: `AnswerInv` says that a finished entry's
answer is a reply some site with that key could have been given, and `ResultInv`
that a site's version is its entry's answer. `EntryInv` and `QuestionInv` tie
goroutines to entries, so that an answer is read only after its call. The
refinement maps an entry's answer to `settled` and `results` to `outcome`:
`CallReturns` is `Settle` or a stutter, the three ways a site concludes are
`FailAlone` or `Take`, everything else stutters.
`OneAnswerATool`, about tools that ask a registry, needs a second
invariant, `FailInv`: a site fails after its file was read only if its tool cannot
be routed or its question's call failed, and then so does every other of its tool.
`EntriesOnlyAdvance` is the same bookkeeping as an action property.

**`HttpTransportProofs`**: `TypeCorrect`, `HostsBounded`, `QuotaIsOwn`,
`OutcomesHonest`, `LimiterImplemented`, `QueuesOnlyDrain`, `OutcomesStand`. The invariant is `TypeOK /\ HostBound /\
ReportedInv`: slots are counted by the cardinality of their holders, and a reply
that speaks of a spent quota is remembered only while its host is in `reported`.
What becomes of a request needs `ReplyInv` as well: a reply is held only between
its arrival and the decision on it, so no decision is made on an old one. The refinement maps the places of a request
to the two sets `HostLimiter` knows, and `attempt` to the tries left; a request
has an outcome exactly when it is over (`OverInv`), so none is answered twice.
That a spent host lets nobody into its queue is a consequence of it.

**`PinPatchProofs`**: `TypeCorrect`, `NothingLeft`, `WritesAccounted`,
`SnapshotFollows`, `DriftGated`, `RunImplemented`, `AgreedStayAgreed`,
`AfterPatchKnows`, `OneFileAWrite`, `EveryStepCounts`, for any number of runs,
kills and torn writes.
The properties speak of a run's end, the invariant of its middle:
`LineInv` says each line of the summary is justified by the engine's result,
`WriteInv` attributes each changed place to a line, to the site under way or to
a failure, `SnapshotInv` says a change is remembered until `afterPatch`, and
`DiskInv` says that a sound site's places read as before or as the new version,
the new one in every file already visited. All of them are vacuous after a kill
or a refusal, and each must be re-established by `Begin`, which is where
a stale flag from an earlier run would show.
`RunImplemented` shows a run to be one step of `PinRun`, whose `tree` is `before`
until the run is over and the disk from then on. What a killed run leaves needs an
invariant that a failure does not suspend: `PartInv` says of every place changed
so far whose version it holds, or that it is lost.
`DriftGated` needs of a line that it was written for the reason it names, the
failure to resolve included. `AgreedStayAgreed` compares two sites of a tool through
what `DiskInv` says of each: both at the tool's version, or one left as it read
before, and a command's at its own. `AfterPatchKnows` rests on
`ChangeInv`, which is `SnapshotInv` with a failed patch alone as its exception.

**`DockerfileRunProofs`**: `TypeCorrect`, `SlotsBounded`, `ContainersOwn`,
`NothingLeaks`, `ExitTruth`, for any files, workers, flags and health checks.
`ContainerIsOwn` and `NothingLeftBehind` keep each other: a name is free only if
nobody is between create and remove with it (`StuckInv` rules out that a
goroutine with no container yet is the one a name is accounted to). For the exit
status, `FileInv` says which results leave a file as it was, `ResultInv` that a
result is decided from the container's removal on and is "updated" only of a
validated file, and `ExitInv` that the status was read off final results.
`NoWorkersNoRun` is why `EventuallyReturns` asks for a worker: with none, a run
over any file stays where it began.

**`VersionProofs`**: `CompareIsNewer`, `CompareTotal`, `CompareTransitive`,
`BestIsOne`, `CooldownOnlyLowers`, for tags with any number of segments, words included. `Compare`
is the lexicographic order of three numbers and a suffix, so `Latest` of a finite
set is not empty and has nothing newer beside it; `BestIsNewest` says as much of
the choice among releases. That choice scans a list, and a release replaces an
earlier one only if it is newer: `BestIsOne` shows that there is always exactly one
answer, and `CooldownOnlyLowers` that a cooldown never makes it newer.

**`PinUpdateProofs`**: `TypeCorrect`, `OffersFit`, `OffersNewest`, `HeldStays`,
`DirectiveKept`, `ImageKept`, `SecondRunKeeps`, `MissedToldKept`, for texts,
listings and lists of releases of any length. The properties speak of a pin that
is done, the invariant of its way there: `PathInv` ties the stage of the pin to
the phase of its question, `QuestionInv` says that what was asked is what the
pin's own text says, `TextInv` that the text is as it was or as one update makes
it, and `AnswerInv` that an offer is a newest one of what the question's source
lists. `HeldStays` is not inductive without the last: a held phase is reached from
a list of releases that is gone when the pin is done. `SecondRunKeeps` and
`MissedToldKept` need no invariant beyond these but an argument over windows: the
window in which a pattern found a place is as good after the rewriting
(`PatchKeepsMatches`), and a place `Patch` captures lies in a window unless its
head is further away than the window is long (`HeadlessIsFound`, `HeadedIsFound`).

**`AdvisoriesProofs`**: `TypesHold`, `OwnFindings`, `OthersReported`, `FixLeast`,
`HeldReported`, `FindingsStay`, `PatchedBounds`, for lists of results and records of any length.
Queries and results meet through positions: `IndexOfPlace` says that the query at
a result's place is that result's own and every query has one. `IdsInv` says
OSV's answer names advisories of each query's own pin, and each of them is still
to be fetched, read or lost; `ResultInv`, that from `Build` on a result says
exactly what the records read for its query say, and an image what its own scan
said. `IntervalReads` shows that the intervals `toAdvisory` makes of a range hold
the versions OSV counts affected by it, which `FixLeast` rests on: a fix that
ends one interval could lie inside another if events did not alternate.

The prover has no induction over data. Where the argument asks for one
(every query has a result; a set of tags has a newest), the proofs take a least
counterexample instead: the order of the naturals is well-founded, and `WFMin` of
the library gives a minimum of any set of them that is not empty.

Only model-checked: liveness (`EventuallyReturns`, `EveryRequestEnds`,
`EventuallyChecked`), which rests on fairness and `ENABLED` and is
outside the prover's reach. Every other property of a passing run is a theorem, and
of liveness the parts that need no fairness are. In each of
the five models of processes, `EveryStepCounts` gives steps a measure that none of them increases and
all but the environment's decrease: a goroutine of the engine takes at most 12, a
request `7 * MaxRetries + 5`, and the loops of `PinPatch` and `Advisories` have one
site, file, advisory or scan less ahead of them. In the two where somebody waits
for somebody, `NobodyWaitsInVain` says that it is for one who does not wait: in the
engine, where goroutines wait at memo entries while they hold tokens, no chain of
waits closes, and a request waits for a slot only behind one on the wire. What remains for TLC
is that a step that stays possible is one day taken.

## Plan

Done, in the order in which it was built: the site engine with its memos; the
HTTP client; the config run and its patches; the Dockerfile run with docker;
the releases under a cooldown; the advisories; the locator's windows and rescan;
the texts of Dockerfiles; the registries; and `PinUpdate`, which composes the
last five; `HostLimiter` and `PinRun`, with the proofs that the client and the
config run implement them. Left, if the code grows in that direction: the limiter
with a clock, for marks that arrive out of order.

## Not modelled

The reporter, the command line and the test helpers (formatting
and wiring), `config.Load` (runs `pkl`), the wire formats and pages of the sixteen
registries, each of which is one request and one decoding, the text of the details
of cdnjs and of branches, and `CompileLocators` and `DockerQuerier`, which nothing
in the program calls.
