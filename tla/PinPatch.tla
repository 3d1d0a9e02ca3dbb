------------------------------ MODULE PinPatch ------------------------------
(***************************************************************************)
(* internal/cli/pklcheck.go and internal/locator/patch.go: what a run of   *)
(* doneram over a .doneram.pkl does with the engine's results, from the    *)
(* first site patched to the process's exit, and from one run to the next. *)
(*                                                                         *)
(* The working tree is what matters here: a pin is a place in a file, its  *)
(* content a version or Lost, what a torn write leaves.  Upstream's answer *)
(* is one per tool, as SiteEngine shows for sites that ask the same        *)
(* question; a command that knows of nothing newer says so of all of them, *)
(* and each then keeps its own version.                                    *)
(***************************************************************************)
EXTENDS Integers, Sequences, FiniteSetsExt

CONSTANTS
    Sites,           \* those with a file, numbered in the order Config.Sites compiles them
    Tools,
    CommandTools,    \* those whose newest version a command's output names
    ToolOf,
    Files,
    Places,
    FileOf,
    Found,           \* the places a site's pattern matches window by window, as Find lists them
    Rewritten,       \* the places it matches in a whole file's text, as Patch rewrites them
    Expect,
    HasAfterPatch,
    Versions,
    Lost,
    Held,            \* every newer release is inside --min-age: Latest is empty
    NothingNewer,    \* the command's entry has no newer version
    Unresolved,
    MaxRuns

ASSUME PatchAssumption ==
    /\ Sites \subseteq Nat
    /\ CommandTools \subseteq Tools
    /\ ToolOf \in [Sites -> Tools]
    /\ FileOf \in [Places -> Files]
    /\ Found \in [Sites -> Seq(Places)]
    /\ Rewritten \in [Sites -> SUBSET Places]
    /\ Expect \in [Sites -> Nat]
    /\ HasAfterPatch \in BOOLEAN
    /\ {Lost, Held, NothingNewer, Unresolved} \cap Versions = {}
    /\ MaxRuns \in Nat

VARIABLES
    disk,
    synced,      \* whether what afterPatch renders agrees with the disk
    runs,
    pc,          \* "idle", "sites", "afterPatch" or "emit"
    apply,
    failOnDrift,
    only,        \* the tools this run was asked for
    answer,      \* upstream's, for each tool
    before,      \* the disk as the engine's Find read it
    pending,     \* the sites the loop has still to take
    seen,        \* patchSite's files already patched for the site under way
    total,       \* whether patchSite has rewritten anything yet
    summary,
    patchedAny,
    exit

vars == <<disk, synced, runs, pc, apply, failOnDrift, only, answer, before,
          pending, seen, total, summary, patchedAny, exit>>

run == <<runs, apply, failOnDrift, only, answer, before>>

Answers == Versions \cup {Held, NothingNewer, Unresolved}

\* --min-age holds a registry's releases back; an entry of a command's output
\* may leave the newest version out.
AnswersOf(t) ==
    Versions \cup {Unresolved, IF t \in CommandTools THEN NothingNewer ELSE Held}

Lines == {"none", "fine", "mismatch", "unresolved", "needsUpdate", "updated",
          "patchFailed"}

Exits == {"none", "ok", "failed", "drifted"}

TypeOK ==
    /\ disk \in [Places -> Versions \cup {Lost}]
    /\ synced \in BOOLEAN
    /\ runs \in 0..MaxRuns
    /\ pc \in {"idle", "sites", "afterPatch", "emit"}
    /\ apply \in BOOLEAN
    /\ failOnDrift \in BOOLEAN
    /\ only \subseteq Tools
    /\ answer \in [Tools -> Answers]
    /\ before \in [Places -> Versions \cup {Lost}]
    /\ pending \subseteq Sites
    /\ seen \subseteq Files
    /\ total \in BOOLEAN
    /\ summary \in [Sites -> Lines]
    /\ patchedAny \in BOOLEAN
    /\ exit \in Exits

Init ==
    /\ disk \in [Places -> Versions]
    /\ synced = TRUE
    /\ runs = 0
    /\ pc = "idle"
    /\ apply = FALSE
    /\ failOnDrift = FALSE
    /\ only = {}
    /\ answer = [t \in Tools |-> Unresolved]
    /\ before = disk
    /\ pending = {}
    /\ seen = {}
    /\ total = FALSE
    /\ summary = [s \in Sites |-> "none"]
    /\ patchedAny = FALSE
    /\ exit = "none"

----------------------------------------------------------------------------
(* The engine's result for a site.                                          *)

\* Which of the site's matches Find still has, by position.
Matches(s) == {i \in DOMAIN Found[s] : before[Found[s][i]] # Lost}

First(s) == Found[s][Min(Matches(s))]

\* result.Latest: commandSite falls back on the site's own first match.
Latest(s) ==
    IF answer[ToolOf[s]] = NothingNewer /\ Matches(s) # {}
    THEN before[First(s)]
    ELSE answer[ToolOf[s]]

\* CheckExpect: the count the site declares, or at least one.
Mismatch(s) ==
    IF Expect[s] > 0 THEN Cardinality(Matches(s)) # Expect[s] ELSE Matches(s) = {}

\* Mutant: without the early return for an empty Latest.
NeedsPatchHeld(s) ==
    /\ ~Mismatch(s)
    /\ Latest(s) # Unresolved
    /\ before[First(s)] # Latest(s)

\* siteNeedsPatch, of a result without an error: it looks at the first match.
NeedsPatch(s) ==
    /\ ~Mismatch(s)
    /\ Latest(s) \in Versions
    /\ before[First(s)] # Latest(s)

----------------------------------------------------------------------------
(* One run.                                                                 *)

SelectSites(asked) == {s \in Sites : ToolOf[s] \in asked}

\* config.Load fails, or selectSites is given a name no tool has.
Reject ==
    /\ pc = "idle"
    /\ runs < MaxRuns
    /\ runs' = runs + 1
    /\ only' = {}
    /\ before' = disk
    /\ exit' = "failed"
    /\ UNCHANGED <<disk, synced, pc, apply, failOnDrift, answer, pending, seen,
                   total, summary, patchedAny>>

\* config.Load, selectSites and RunSites, which only read: the sites of the
\* tools asked for, and what upstream says of each tool today.
Begin ==
    /\ pc = "idle"
    /\ runs < MaxRuns
    /\ runs' = runs + 1
    /\ pc' = "sites"
    /\ apply' \in BOOLEAN
    /\ failOnDrift' \in BOOLEAN
    /\ only' \in (SUBSET Tools) \ {{}}
    /\ answer' \in {a \in [Tools -> Answers] :
                      \A t \in Tools :
                        a[t] \in IF t \in only' THEN AnswersOf(t) ELSE {Unresolved}}
    /\ before' = disk
    /\ pending' = SelectSites(only')
    /\ summary' = [s \in Sites |-> "none"]
    /\ patchedAny' = FALSE
    /\ exit' = "none"
    /\ UNCHANGED <<disk, synced, seen, total>>

\* The loop takes the next site, with a line of the summary for this one.
Conclude(s, line) ==
    /\ pending' = pending \ {s}
    /\ seen' = {}
    /\ total' = FALSE
    /\ summary' = [summary EXCEPT ![s] = line]

At(s) ==
    /\ pc = "sites"
    /\ s \in pending
    /\ \A t \in pending : s <= t

Report(s) ==
    /\ At(s)
    /\ ~(apply /\ NeedsPatch(s))
    /\ Conclude(s, CASE Mismatch(s) -> "mismatch"
                     [] ~Mismatch(s) /\ Latest(s) = Unresolved -> "unresolved"
                     [] NeedsPatch(s) -> "needsUpdate"
                     [] OTHER -> "fine")
    /\ UNCHANGED <<disk, synced, pc, patchedAny, exit>>
    /\ UNCHANGED run

\* Mutant: patchSite stops after the first file.
UnseenOfFirst(s) == {i \in Matches(s) : seen = {}}

\* The matches in files patchSite has not seen, of which it takes the first.
Unseen(s) == {i \in Matches(s) : FileOf[Found[s][i]] \notin seen}

NextFile(s) == FileOf[Found[s][Min(Unseen(s))]]

Patching(s) ==
    /\ At(s)
    /\ apply /\ NeedsPatch(s)

\* locator.Patch: every occurrence in the file, the ones already at the new
\* version included, and no write when there is none.
PatchFile(s) ==
    /\ Patching(s)
    /\ Unseen(s) # {}
    /\ LET f == NextFile(s)
           hits == {p \in Rewritten[s] : FileOf[p] = f /\ disk[p] # Lost}
       IN /\ disk' = [p \in Places |-> IF p \in hits THEN Latest(s) ELSE disk[p]]
          /\ total' = (total \/ hits # {})
          /\ seen' = seen \cup {f}
    /\ synced' = (synced /\ disk' = disk)
    /\ UNCHANGED <<pc, pending, summary, patchedAny, exit>>
    /\ UNCHANGED run

\* os.WriteFile truncates first: a write that breaks off takes the file's
\* pins with it, every tool's.
Tear(f) ==
    /\ disk' = [p \in Places |-> IF FileOf[p] = f THEN Lost ELSE disk[p]]
    /\ synced' = (synced /\ disk' = disk)

\* Mutant: the failure is not counted.
PatchFailsUncounted(s) ==
    /\ Patching(s)
    /\ Unseen(s) # {}
    /\ Tear(NextFile(s)) \/ UNCHANGED <<disk, synced>>
    /\ Conclude(s, "needsUpdate")
    /\ UNCHANGED <<pc, patchedAny, exit>>
    /\ UNCHANGED run

\* The file cannot be read or written; the files before it stay patched.
PatchFails(s) ==
    /\ Patching(s)
    /\ Unseen(s) # {}
    /\ Tear(NextFile(s)) \/ UNCHANGED <<disk, synced>>
    /\ Conclude(s, "patchFailed")
    /\ UNCHANGED <<pc, patchedAny, exit>>
    /\ UNCHANGED run

\* Mutant: the flag says whether the last site patched anything.
PatchedLast(s) ==
    /\ Patching(s)
    /\ Unseen(s) = {}
    /\ Conclude(s, IF total THEN "updated" ELSE "needsUpdate")
    /\ patchedAny' = total
    /\ UNCHANGED <<disk, synced, pc, exit>>
    /\ UNCHANGED run

Patched(s) ==
    /\ Patching(s)
    /\ Unseen(s) = {}
    /\ Conclude(s, IF total THEN "updated" ELSE "needsUpdate")
    /\ patchedAny' = (patchedAny \/ total)
    /\ UNCHANGED <<disk, synced, pc, exit>>
    /\ UNCHANGED run

EndOfSites ==
    /\ pc = "sites"
    /\ pending = {}
    /\ pc' = IF patchedAny /\ HasAfterPatch THEN "afterPatch" ELSE "emit"
    /\ UNCHANGED <<disk, synced, pending, seen, total, summary, patchedAny, exit>>
    /\ UNCHANGED run

End(x) ==
    /\ pc' = "idle"
    /\ exit' = x
    /\ UNCHANGED <<disk, pending, seen, total, summary, patchedAny>>
    /\ UNCHANGED run

AfterPatchRuns ==
    /\ pc = "afterPatch"
    /\ synced' = TRUE
    /\ pc' = "emit"
    /\ UNCHANGED <<disk, pending, seen, total, summary, patchedAny, exit>>
    /\ UNCHANGED run

\* The run ends there, before its summary.
AfterPatchFails ==
    /\ pc = "afterPatch"
    /\ End("failed")
    /\ UNCHANGED synced

\* Mutant: a site whose lookup failed is only reported.
FailuresFound == {s \in Sites : summary[s] \in {"mismatch", "patchFailed"}}

Failures == {s \in Sites : summary[s] \in {"mismatch", "unresolved", "patchFailed"}}

Upgrades == {s \in Sites : summary[s] \in {"updated", "needsUpdate"}}

\* finishSummary, emit, and the error runCheckPkl returns.
Emit ==
    /\ pc = "emit"
    /\ End(IF Failures # {} THEN "failed"
           ELSE IF failOnDrift /\ Upgrades # {} THEN "drifted"
           ELSE "ok")
    /\ UNCHANGED synced

EmitFails ==
    /\ pc = "emit"
    /\ End("failed")
    /\ UNCHANGED synced

\* The process is killed, perhaps in the middle of a write.
Crash ==
    /\ pc # "idle"
    /\ \/ UNCHANGED <<disk, synced>>
       \/ \E s \in Sites : Patching(s) /\ Unseen(s) # {} /\ Tear(NextFile(s))
    /\ pc' = "idle"
    /\ pending' = {}
    /\ seen' = {}
    /\ total' = FALSE
    /\ UNCHANGED <<summary, patchedAny, exit>>
    /\ UNCHANGED run

Resting ==
    /\ pc = "idle"
    /\ runs = MaxRuns
    /\ UNCHANGED vars

Step ==
    \/ \E s \in Sites : Report(s) \/ PatchFile(s) \/ PatchFails(s) \/ Patched(s)
    \/ EndOfSites
    \/ AfterPatchRuns \/ AfterPatchFails
    \/ Emit \/ EmitFails

Next == Begin \/ Reject \/ Step \/ Crash \/ Resting

Spec == Init /\ [][Next]_vars

----------------------------------------------------------------------------
(* Properties                                                               *)

Ended(x) == pc = "idle" /\ exit = x

Asked == SelectSites(only)

Listed(s) == {Found[s][i] : i \in Matches(s)}

EverFound(s) == {Found[s][i] : i \in DOMAIN Found[s]}

\* A pattern that matches a whole file as it matches its windows, and whose
\* places no other tool's pattern rewrites.
Sound(s) ==
    /\ EverFound(s) \subseteq Rewritten[s]
    /\ \A s2 \in Sites :
         ToolOf[s2] # ToolOf[s] => Rewritten[s2] \cap EverFound(s) = {}

\* A patching run that exits cleanly leaves nothing it could have patched: at
\* every place of a site it says it updated, and at the first place of every
\* other resolved one, the disk holds the tool's version, though files were
\* written one by one, for several sites, from matches read before the first
\* write. Another run of the same command has nothing to do.
NothingLeftToPatch ==
    Ended("ok") /\ apply =>
      \A s \in Asked :
        Sound(s) /\ Latest(s) \in Versions =>
          IF summary[s] = "updated"
          THEN \A p \in Listed(s) : disk[p] = Latest(s)
          ELSE disk[First(s)] = Latest(s)

\* Seen from between two runs, a run is one step of PinRun: though it writes
\* file by file, for several sites, may be killed in any of them and tells its
\* exit from flags, no change it makes is foreign to its question, what it
\* reports is what it changed, and a pin is lost only by a run that fails.
Run == INSTANCE PinRun WITH
         Own <- [s \in Sites |-> IF Sound(s) THEN EverFound(s) ELSE {}],
         open <- pc # "idle",
         tree <- IF pc = "idle" THEN disk ELSE before,
         ask <- [tools |-> only, offer |-> [s \in Sites |-> Latest(s)],
                 apply |-> apply, gate |-> failOnDrift],
         told <- exit,
         updated <- IF pc = "idle" THEN {s \in Sites : summary[s] = "updated"} ELSE {}

ImplementsRun == Run!Spec

\* afterPatch comes after the last write of a run, whichever site made it: a
\* run that changed a pin and exits cleanly leaves the rendered output as the
\* pins say.
SnapshotFollowsPatch ==
    Ended("ok") /\ HasAfterPatch /\ disk # before => synced

\* With fail-on-drift, an exit without error means that every site asked for
\* was found as often as declared, that upstream answered for it, and that it
\* read as the version it was offered before the run began, or that its newer
\* releases are all held; an exit for drift, that some site read as another
\* version than the one offered.
DriftGate ==
    /\ Ended("ok") /\ failOnDrift =>
         \A s \in Asked :
           /\ ~Mismatch(s)
           /\ Latest(s) # Unresolved
           /\ Latest(s) \in Versions => before[First(s)] = Latest(s)
    /\ Ended("drifted") =>
         \E s \in Asked : Latest(s) \in Versions /\ before[First(s)] # Latest(s)

\* README.md:94-95, where the code keeps it. After a clean patching run two
\* places of a tool that disagree were left so: they are in a site that
\* disagreed with itself and was not updated, or upstream offered the tool
\* nothing newer and they disagreed before the run.
AgreementKept ==
    Ended("ok") /\ apply =>
      \A s1, s2 \in Asked :
        Sound(s1) /\ Sound(s2) /\ ToolOf[s1] = ToolOf[s2] =>
          \A p1 \in Listed(s1), p2 \in Listed(s2) :
            \/ disk[p1] = disk[p2]
            \/ /\ answer[ToolOf[s1]] \in Versions
               /\ \E s \in {s1, s2} :
                    summary[s] # "updated" /\ \E p, q \in Listed(s) : before[p] # before[q]
            \/ /\ answer[ToolOf[s1]] \notin Versions
               /\ before[p1] # before[p2]

\* README.md:94: "doneram patches every site together, so a version pinned in
\* three files cannot end up disagreeing with itself". After a clean patching
\* run every place of a tool that upstream has a version for reads the same.
OneVersionPerTool ==
    Ended("ok") /\ apply =>
      \A s1, s2 \in Asked :
        /\ Sound(s1) /\ Sound(s2) /\ ToolOf[s1] = ToolOf[s2]
        /\ answer[ToolOf[s1]] \in Versions
        => \A p1 \in Listed(s1), p2 \in Listed(s2) : disk[p1] = disk[p2]

\* pklcheck.go:80: "a site whose latest version disagrees with what's on disk
\* is patched in place and afterPatch runs once if anything changed". A run
\* that put a new version on disk and is about to write its summary has run
\* it.
AfterPatchIfAnythingChanged ==
    pc = "emit" /\ HasAfterPatch
      /\ (\E p \in Places : disk[p] \in Versions /\ disk[p] # before[p])
    => synced
=============================================================================
