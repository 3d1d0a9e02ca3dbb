--------------------------- MODULE PinPatchProofs ---------------------------
(***************************************************************************)
(* What holds of a run over a .doneram.pkl for any number of tools, sites  *)
(* and files, any answers, and any number of runs, kills and torn writes.  *)
(***************************************************************************)
EXTENDS PinPatch, FiniteSetTheorems, WellFoundedInduction, TLAPS

(* The inductive invariant.                                                 *)

\* A run is under way, or the last one got to the end of its summary.
Live == pc # "idle" \/ exit \in {"ok", "drifted"}

\* The bookkeeping of the loop: sites are left only inside it, and files seen
\* or written only while one of them is being patched.
LoopInv ==
    /\ pc # "idle" => exit = "none"
    /\ pc # "sites" => pending = {}
    /\ pending \subseteq Asked
    /\ seen # {} \/ total => \E s \in Sites : Patching(s)

\* A site has a line of the summary once the loop has passed it, and the line
\* says what the engine's result and the disk said before the run.
LineInv ==
    Live => \A s \in Sites :
      /\ summary[s] = "none" <=> s \notin Asked \ pending
      /\ summary[s] = "fine" => ~Mismatch(s) /\ Latest(s) # Unresolved /\ ~NeedsPatch(s)
      /\ summary[s] \in {"needsUpdate", "updated"} => NeedsPatch(s)

ExitInv ==
    /\ exit = "ok" => Failures = {} /\ (failOnDrift => Upgrades = {})
    /\ exit = "drifted" => Upgrades # {}

\* What changed on disk belongs to a site reported as updated, to the one
\* being patched, or to a run that will fail.
WriteInv ==
    Live => \A p \in Places :
      disk[p] # before[p] =>
        \/ Failures # {}
        \/ \E s \in Asked : summary[s] = "updated" /\ p \in Rewritten[s]
        \/ total /\ \E s \in Sites : Patching(s) /\ p \in Rewritten[s]

\* A change is remembered up to the moment afterPatch has run.
SnapshotInv ==
    Live /\ disk # before =>
      \/ Failures # {}
      \/ pc \in {"sites", "afterPatch"} /\ (patchedAny \/ total)
      \/ pc \in {"emit", "idle"} /\ (HasAfterPatch => synced)

\* Until something fails, a sound site's places read as before the run or as
\* the new version: the new one in the files already seen of the site being
\* patched, and everywhere once it is reported as updated.
PlaceInv(s) ==
    /\ \A p \in Listed(s) : disk[p] \in {before[p], Latest(s)}
    /\ summary[s] = "updated" => \A p \in Listed(s) : disk[p] = Latest(s)
    /\ Patching(s) => \A p \in Listed(s) :
         FileOf[p] \in seen => disk[p] = Latest(s) /\ total
    /\ summary[s] # "needsUpdate"

DiskInv ==
    Live /\ apply /\ Failures = {} =>
      \A s \in Asked : Sound(s) /\ Latest(s) \in Versions => PlaceInv(s)

IInv == /\ TypeOK /\ LoopInv /\ LineInv /\ ExitInv /\ WriteInv /\ SnapshotInv
        /\ DiskInv

----------------------------------------------------------------------------
(* Matches and files.                                                       *)

\* NatLessThanWellFounded with the relation written out.
LEMMA LessIsWellFounded == IsWellFoundedOn({ss \in Nat \X Nat : ss[1] < ss[2]}, Nat)
BY NatLessThanWellFounded, Zenon DEF OpToRel

\* A non-empty set of positions has a least one.
LEMMA MinFacts ==
    ASSUME NEW S \in SUBSET Nat, S # {}
    PROVE  Min(S) \in S /\ \A y \in S : Min(S) <= y
<1> DEFINE R == {ss \in Nat \X Nat : ss[1] < ss[2]}
<1>1. IsWellFoundedOn(R, Nat)
  BY LessIsWellFounded
<1> HIDE DEF R
<1>2. PICK x \in S : \A y \in S : ~ (<<y, x>> \in R)
  BY <1>1, WFMin, Zenon
<1>3. ASSUME NEW y \in S PROVE x <= y
  <2>1. ~ (<<y, x>> \in R)
    BY <1>2
  <2>2. <<y, x>> \in Nat \X Nat /\ <<y, x>>[1] = y /\ <<y, x>>[2] = x
    OBVIOUS
  <2>3. ~ (y < x)
    BY <2>1, <2>2, Zenon DEF R
  <2>. QED BY <2>3
<1>. QED BY <1>3 DEF Min

\* A site whose count is as declared has a first match, and it is one of those
\* Find listed.
LEMMA MatchFacts ==
    ASSUME NEW s \in Sites
    PROVE  /\ Matches(s) \subseteq Nat
           /\ Listed(s) \subseteq Places
           /\ Listed(s) \subseteq EverFound(s)
           /\ ~Mismatch(s) => Matches(s) # {} /\ First(s) \in Listed(s)
<1>1. Found[s] \in Seq(Places) /\ Expect[s] \in Nat
  BY PatchAssumption
<1>2. Matches(s) \subseteq DOMAIN Found[s] /\ DOMAIN Found[s] \subseteq Nat
  BY <1>1 DEF Matches
<1>3. Matches(s) = {} => Mismatch(s)
  BY <1>1, FS_EmptySet DEF Mismatch
<1>4. Listed(s) \subseteq Places /\ Listed(s) \subseteq EverFound(s)
  BY <1>1, <1>2 DEF Listed, EverFound
<1>5. Matches(s) # {} => First(s) \in Listed(s)
  BY <1>2, MinFacts DEF First, Listed
<1>. QED BY <1>2, <1>3, <1>4, <1>5

\* What a site is offered is an answer: a version of its own, where its
\* command reports nothing newer. A site to patch is offered its tool's.
LEMMA LatestFacts ==
    ASSUME TypeOK, NEW s \in Sites
    PROVE  /\ Latest(s) \in Answers
           /\ NeedsPatch(s) => /\ answer[ToolOf[s]] # NothingNewer
                               /\ Latest(s) = answer[ToolOf[s]]
<1>1. answer[ToolOf[s]] \in Answers
  BY PatchAssumption DEF TypeOK
<1>2. ASSUME Matches(s) # {} PROVE before[First(s)] \in Versions
  <2>1. Matches(s) \subseteq Nat
    BY MatchFacts
  <2>2. Min(Matches(s)) \in Matches(s)
    BY <1>2, <2>1, MinFacts
  <2>3. First(s) \in Places /\ before[First(s)] # Lost
    BY <2>2, MatchFacts DEF Listed, First, Matches
  <2>. QED BY <2>3 DEF TypeOK
<1>3. NeedsPatch(s) => Matches(s) # {}
  BY MatchFacts DEF NeedsPatch
<1>. QED BY <1>1, <1>2, <1>3 DEF Latest, NeedsPatch, Answers

\* The next file patchSite takes is one it has not seen, of one of the site's
\* matches.
LEMMA NextFileFacts ==
    ASSUME NEW s \in Sites, Unseen(s) # {}
    PROVE  NextFile(s) \in Files
<1>1. Unseen(s) \subseteq Nat /\ Unseen(s) \subseteq DOMAIN Found[s]
  BY MatchFacts DEF Unseen, Matches
<1>2. Min(Unseen(s)) \in DOMAIN Found[s]
  BY <1>1, MinFacts
<1>. QED BY <1>2, PatchAssumption DEF NextFile

\* The loop is at one site at a time.
LEMMA AtUnique ==
    ASSUME NEW s \in Sites, NEW t \in Sites, pending \subseteq Sites, At(s), At(t)
    PROVE  s = t
BY PatchAssumption DEF At

\* Nothing derived from the run's inputs changes while they do not.
LEMMA RunStays ==
    ASSUME UNCHANGED run
    PROVE  /\ Asked' = Asked
           /\ \A s \in Sites : /\ Latest(s)' = Latest(s)
                               /\ Matches(s)' = Matches(s)
                               /\ Listed(s)' = Listed(s)
                               /\ First(s)' = First(s)
                               /\ Mismatch(s)' = Mismatch(s)
                               /\ NeedsPatch(s)' = NeedsPatch(s)
<1>1. \A s \in Sites : Matches(s)' = Matches(s) /\ First(s)' = First(s)
  BY DEF run, Matches, First
<1>2. \A s \in Sites : Latest(s)' = Latest(s)
  BY <1>1 DEF run, Latest
<1>. QED BY <1>1, <1>2 DEF run, Asked, SelectSites, Listed, Mismatch, NeedsPatch

\* Only the first file's pins are lost to a torn write, and pins are versions.
LEMMA TearType ==
    ASSUME TypeOK, NEW f, Tear(f)
    PROVE  disk' \in [Places -> Versions \cup {Lost}] /\ synced' \in BOOLEAN
BY DEF TypeOK, Tear

----------------------------------------------------------------------------
(* Each step keeps the invariant.                                           *)

\* The first run starts from a tree nothing was written to.
LEMMA InitIInv == Init => IInv
<1> SUFFICES ASSUME Init PROVE IInv
  OBVIOUS
<1>1. TypeOK
  <2>1. disk \in [Places -> Versions \cup {Lost}]
    BY DEF Init
  <2>2. runs \in 0..MaxRuns
    BY PatchAssumption DEF Init
  <2>. QED BY <2>1, <2>2 DEF Init, TypeOK, Answers, Lines, Exits
<1>2. LoopInv
  BY DEF Init, LoopInv, Asked, SelectSites
<1>3. ~Live
  BY DEF Init, Live
<1>4. ExitInv
  BY DEF Init, ExitInv
<1>. QED BY <1>1, <1>2, <1>3, <1>4
       DEF IInv, LineInv, WriteInv, SnapshotInv, DiskInv

\* A run starts with nothing written, and no line.
LEMMA BeginKeeps ==
    ASSUME IInv, Begin
    PROVE  IInv'
<1>. USE DEF IInv
<1>0. seen = {} /\ total = FALSE
  BY DEF LoopInv, Patching, At, Begin, TypeOK
<1>1. TypeOK'
  <2>1. runs' \in 0..MaxRuns
    BY PatchAssumption DEF Begin, TypeOK
  <2>2. only' \subseteq Tools
    BY DEF Begin
  <2>3. answer' \in [Tools -> Answers]
    BY DEF Begin
  <2>4. pending' \subseteq Sites
    BY DEF Begin, SelectSites
  <2>5. summary' \in [Sites -> Lines]
    BY DEF Begin, Lines
  <2>. QED BY <2>1, <2>2, <2>3, <2>4, <2>5 DEF Begin, TypeOK, Exits
<1>2. LoopInv'
  BY <1>0 DEF Begin, LoopInv, Asked
<1>3. /\ disk' = before'
      /\ \A s \in Sites : summary'[s] = "none"
      /\ Asked' = pending'
      /\ exit' = "none"
  BY DEF Begin, Asked, TypeOK
<1>4. LineInv'
  BY <1>3 DEF LineInv
<1>5. ExitInv'
  BY <1>3 DEF ExitInv
<1>6. WriteInv' /\ SnapshotInv'
  BY <1>3 DEF WriteInv, SnapshotInv
<1>7. DiskInv'
  <2>1. SUFFICES ASSUME NEW s \in Sites PROVE PlaceInv(s)'
    BY DEF DiskInv, Asked, SelectSites
  <2>2. \A p \in Listed(s)' : disk'[p] = before'[p]
    BY <1>3
  <2>. QED BY <2>2, <1>0, <1>3 DEF PlaceInv, Begin
<1>. QED BY <1>1, <1>2, <1>4, <1>5, <1>6, <1>7

\* A run that is refused claims nothing.
LEMMA RejectKeeps ==
    ASSUME IInv, Reject
    PROVE  IInv'
<1>. USE DEF IInv
<1>1. TypeOK'
  <2>1. runs' \in 0..MaxRuns
    BY PatchAssumption DEF Reject, TypeOK
  <2>. QED BY <2>1 DEF Reject, TypeOK, Exits
<1>2. LoopInv'
  BY DEF Reject, LoopInv, Asked, SelectSites, Patching, At
<1>3. ~Live' /\ exit' = "failed"
  BY DEF Reject, Live
<1>. QED BY <1>1, <1>2, <1>3 DEF LineInv, ExitInv, WriteInv, SnapshotInv, DiskInv

\* A run that is killed claims nothing, whatever the write under way left.
LEMMA CrashKeeps ==
    ASSUME IInv, Crash
    PROVE  IInv'
<1>. USE DEF IInv
<1>1. TypeOK'
  <2>1. CASE UNCHANGED <<disk, synced>>
    BY <2>1 DEF Crash, TypeOK, run
  <2>2. CASE \E f : Tear(f)
    BY <2>2, TearType DEF Crash, TypeOK, run
  <2>. QED BY <2>1, <2>2 DEF Crash
<1>2. exit = "none" /\ exit' = "none" /\ pc' = "idle"
  BY DEF Crash, LoopInv
<1>3. LoopInv'
  BY <1>2 DEF Crash, LoopInv
<1>4. ~Live'
  BY <1>2 DEF Live
<1>. QED BY <1>1, <1>2, <1>3, <1>4 DEF LineInv, ExitInv, WriteInv, SnapshotInv, DiskInv

\* When the loop takes the next site, the line it leaves is the only thing
\* that changes for the sites, and a failure stays one.
LEMMA ConcludeKeeps ==
    ASSUME IInv, NEW s \in Sites, NEW line \in Lines \ {"none"}, At(s),
           Conclude(s, line), UNCHANGED <<pc, exit>>, UNCHANGED run,
           line = "fine" => ~Mismatch(s) /\ Latest(s) # Unresolved /\ ~NeedsPatch(s),
           line \in {"needsUpdate", "updated"} => NeedsPatch(s)
    PROVE  /\ pending' \subseteq Sites /\ seen' = {} /\ total' = FALSE
           /\ summary' \in [Sites -> Lines]
           /\ Live /\ Live' /\ Asked' = Asked /\ s \in Asked
           /\ summary[s] = "none" /\ summary'[s] = line
           /\ \A t \in Sites : t # s => summary'[t] = summary[t]
           /\ Failures \subseteq Failures'
           /\ line \in {"mismatch", "unresolved", "patchFailed"} => Failures' # {}
           /\ LoopInv' /\ LineInv' /\ ExitInv'
<1>. USE DEF IInv
<1>1. /\ pending' = pending \ {s} /\ seen' = {} /\ total' = FALSE
      /\ summary' = [summary EXCEPT ![s] = line]
  BY DEF Conclude
<1>2. /\ summary' \in [Sites -> Lines] /\ summary'[s] = line
      /\ \A t \in Sites : t # s => summary'[t] = summary[t]
  BY <1>1 DEF TypeOK
<1>3. pc = "sites" /\ exit = "none" /\ Live /\ Live' /\ s \in pending
  BY DEF At, Live, LoopInv
<1>4. Asked' = Asked
  BY RunStays
<1>5. s \in Asked /\ summary[s] = "none"
  BY <1>3 DEF LoopInv, LineInv
<1>6. Failures \subseteq Failures'
  BY <1>2, <1>5 DEF Failures
<1>7. line \in {"mismatch", "unresolved", "patchFailed"} => Failures' # {}
  BY <1>2 DEF Failures
<1>8. LoopInv'
  BY <1>1, <1>3, <1>4 DEF LoopInv
<1>9. LineInv'
  <2>. SUFFICES ASSUME NEW t \in Sites
                PROVE  /\ summary'[t] = "none" <=> t \notin Asked' \ pending'
                       /\ summary'[t] = "fine" =>
                            ~Mismatch(t)' /\ Latest(t)' # Unresolved /\ ~NeedsPatch(t)'
                       /\ summary'[t] \in {"needsUpdate", "updated"} => NeedsPatch(t)'
    BY DEF LineInv
  <2>1. /\ Mismatch(t)' = Mismatch(t) /\ Latest(t)' = Latest(t)
        /\ NeedsPatch(t)' = NeedsPatch(t)
    BY RunStays
  <2>2. CASE t = s
    BY <2>1, <2>2, <1>1, <1>2, <1>4, <1>5
  <2>3. CASE t # s
    BY <2>1, <2>3, <1>1, <1>2, <1>3, <1>4 DEF LineInv
  <2>. QED BY <2>2, <2>3
<1>10. ExitInv'
  BY <1>3 DEF ExitInv
<1>. QED BY <1>1, <1>2, <1>3, <1>4, <1>5, <1>6, <1>7, <1>8, <1>9, <1>10 DEF TypeOK

\* A site passed without a write.
LEMMA ReportKeeps ==
    ASSUME IInv, NEW s \in Sites, Report(s)
    PROVE  IInv'
<1>. USE DEF IInv
<1> DEFINE line == CASE Mismatch(s) -> "mismatch"
                     [] ~Mismatch(s) /\ Latest(s) = Unresolved -> "unresolved"
                     [] NeedsPatch(s) -> "needsUpdate"
                     [] OTHER -> "fine"
<1>1. /\ At(s) /\ Conclude(s, line) /\ UNCHANGED <<pc, exit>> /\ UNCHANGED run
      /\ ~(apply /\ NeedsPatch(s))
      /\ UNCHANGED <<disk, synced, patchedAny>>
  BY DEF Report
<1>2. /\ line \in {"mismatch", "unresolved", "needsUpdate", "fine"}
      /\ line = "fine" => ~Mismatch(s) /\ Latest(s) # Unresolved /\ ~NeedsPatch(s)
      /\ line = "needsUpdate" => NeedsPatch(s)
  BY DEF NeedsPatch
<1> HIDE DEF line
<1>3. line \in Lines \ {"none"} /\ line # "updated"
  BY <1>2 DEF Lines
<1>4. /\ pending' \subseteq Sites /\ seen' = {} /\ total' = FALSE
      /\ summary' \in [Sites -> Lines]
      /\ Live /\ Live' /\ Asked' = Asked
      /\ summary[s] = "none" /\ summary'[s] = line
      /\ \A t \in Sites : t # s => summary'[t] = summary[t]
      /\ Failures \subseteq Failures'
      /\ line \in {"mismatch", "unresolved", "patchFailed"} => Failures' # {}
      /\ LoopInv' /\ LineInv' /\ ExitInv'
  BY <1>1, <1>2, <1>3, ConcludeKeeps
<1>5. total = FALSE
  BY <1>1, AtUnique DEF LoopInv, Patching, TypeOK
<1>6. TypeOK'
  BY <1>1, <1>4 DEF TypeOK, run
<1>7. WriteInv'
  <2>. SUFFICES ASSUME NEW p \in Places, disk'[p] # before'[p], Failures' = {}
                PROVE  \E t \in Asked' : summary'[t] = "updated" /\ p \in Rewritten[t]
    BY DEF WriteInv
  <2>1. PICK t \in Asked : summary[t] = "updated" /\ p \in Rewritten[t]
    BY <1>1, <1>4, <1>5 DEF WriteInv, run
  <2>2. t \in Sites
    BY DEF Asked, SelectSites
  <2>. QED BY <2>1, <2>2, <1>4
<1>8. SnapshotInv'
  BY <1>1, <1>4, <1>5 DEF SnapshotInv, run
<1>9. DiskInv'
  <2>. SUFFICES ASSUME Failures' = {}, apply', NEW t \in Asked, Sound(t),
                       Latest(t)' \in Versions
                PROVE  PlaceInv(t)'
    BY <1>4 DEF DiskInv, Sound
  <2>1. t \in Sites
    BY DEF Asked, SelectSites
  <2>2. Latest(t)' = Latest(t) /\ Listed(t)' = Listed(t)
    BY <1>1, <2>1, RunStays
  <2>3. PlaceInv(t)
    BY <1>1, <1>4, <2>2 DEF DiskInv, run
  <2>4. summary'[t] = summary[t] \/ summary'[t] = "fine"
    BY <1>1, <1>2, <1>4, <2>1 DEF run
  <2>. QED BY <1>1, <1>4, <2>2, <2>3, <2>4 DEF PlaceInv, run
<1>. QED BY <1>4, <1>6, <1>7, <1>8, <1>9

\* A file cannot be read or written: from there the run is bound to fail.
LEMMA PatchFailsKeeps ==
    ASSUME IInv, NEW s \in Sites, PatchFails(s)
    PROVE  IInv'
<1>. USE DEF IInv
<1>1. /\ At(s) /\ Conclude(s, "patchFailed") /\ UNCHANGED <<pc, exit, patchedAny>>
      /\ UNCHANGED run
  BY DEF PatchFails, Patching
<1>2. "patchFailed" \in Lines \ {"none"}
  BY DEF Lines
<1>3. /\ pending' \subseteq Sites /\ seen' = {} /\ total' = FALSE
      /\ summary' \in [Sites -> Lines]
      /\ Failures' # {}
      /\ LoopInv' /\ LineInv' /\ ExitInv'
  BY <1>1, <1>2, ConcludeKeeps
<1>4. disk' \in [Places -> Versions \cup {Lost}] /\ synced' \in BOOLEAN
  BY TearType DEF PatchFails, TypeOK
<1>5. TypeOK'
  BY <1>1, <1>3, <1>4 DEF TypeOK, run
<1>. QED BY <1>3, <1>5 DEF WriteInv, SnapshotInv, DiskInv

\* A site whose files are all done.
LEMMA PatchedKeeps ==
    ASSUME IInv, NEW s \in Sites, Patched(s)
    PROVE  IInv'
<1>. USE DEF IInv
<1> DEFINE line == IF total THEN "updated" ELSE "needsUpdate"
<1>1. /\ At(s) /\ Conclude(s, line) /\ UNCHANGED <<pc, exit>> /\ UNCHANGED run
      /\ apply /\ NeedsPatch(s) /\ Patching(s)
      /\ Unseen(s) = {}
      /\ UNCHANGED <<disk, synced>>
      /\ patchedAny' = (patchedAny \/ total)
  BY DEF Patched, Patching
<1>2. line \in Lines \ {"none"} /\ line # "fine"
  BY DEF Lines
<1>3. line = IF total THEN "updated" ELSE "needsUpdate"
  OBVIOUS
<1> HIDE DEF line
<1>4. /\ pending' \subseteq Sites /\ seen' = {} /\ total' = FALSE
      /\ summary' \in [Sites -> Lines]
      /\ Live /\ Live' /\ Asked' = Asked /\ s \in Asked
      /\ summary[s] = "none" /\ summary'[s] = line
      /\ \A t \in Sites : t # s => summary'[t] = summary[t]
      /\ Failures \subseteq Failures'
      /\ LoopInv' /\ LineInv' /\ ExitInv'
  BY <1>1, <1>2, ConcludeKeeps
<1>5. TypeOK'
  BY <1>1, <1>4 DEF TypeOK, run
<1>6. WriteInv'
  <2>. SUFFICES ASSUME NEW p \in Places, disk'[p] # before'[p], Failures' = {}
                PROVE  \E t \in Asked' : summary'[t] = "updated" /\ p \in Rewritten[t]
    BY DEF WriteInv
  <2>1. CASE \E t \in Asked : summary[t] = "updated" /\ p \in Rewritten[t]
    <3>1. PICK t \in Asked : summary[t] = "updated" /\ p \in Rewritten[t]
      BY <2>1
    <3>2. t \in Sites
      BY DEF Asked, SelectSites
    <3>. QED BY <3>1, <3>2, <1>4
  <2>2. CASE total /\ \E t \in Sites : Patching(t) /\ p \in Rewritten[t]
    <3>1. p \in Rewritten[s]
      BY <2>2, <1>1, AtUnique DEF Patching, TypeOK
    <3>. QED BY <3>1, <2>2, <1>3, <1>4
  <2>. QED BY <2>1, <2>2, <1>1, <1>4 DEF WriteInv, run
<1>7. SnapshotInv'
  BY <1>1, <1>4 DEF SnapshotInv, run
<1>8. DiskInv'
  <2>. SUFFICES ASSUME Failures' = {}, apply', NEW t \in Asked, Sound(t),
                       Latest(t)' \in Versions
                PROVE  PlaceInv(t)'
    BY <1>4 DEF DiskInv, Sound
  <2>1. t \in Sites
    BY DEF Asked, SelectSites
  <2>2. Latest(t)' = Latest(t) /\ Listed(t)' = Listed(t)
    BY <1>1, <2>1, RunStays
  <2>3. PlaceInv(t)
    BY <1>1, <1>4, <2>2 DEF DiskInv, run
  <2>4. CASE t # s
    BY <2>1, <2>2, <2>3, <2>4, <1>1, <1>4 DEF PlaceInv, run
  <2>5. CASE t = s
    <3>1. \A p \in Listed(s) : FileOf[p] \in seen
      BY <1>1 DEF Unseen, Listed
    <3>2. \A p \in Listed(s) : disk[p] = Latest(s) /\ total
      BY <1>1, <2>3, <2>5, <3>1 DEF PlaceInv
    <3>3. First(s) \in Listed(s)
      BY <1>1, MatchFacts DEF NeedsPatch
    <3>4. line = "updated"
      BY <3>2, <3>3, <1>3
    <3>. QED BY <2>2, <2>3, <2>5, <3>2, <3>4, <1>1, <1>4 DEF PlaceInv, run
  <2>. QED BY <2>4, <2>5
<1>. QED BY <1>4, <1>5, <1>6, <1>7, <1>8

\* One file of a site rewritten.
LEMMA PatchFileKeeps ==
    ASSUME IInv, NEW s \in Sites, PatchFile(s)
    PROVE  IInv'
<1>. USE DEF IInv
<1> DEFINE f == NextFile(s)
           hits == {p \in Rewritten[s] : FileOf[p] = f /\ disk[p] # Lost}
<1>1. /\ Patching(s) /\ Unseen(s) # {}
      /\ disk' = [p \in Places |-> IF p \in hits THEN Latest(s) ELSE disk[p]]
      /\ total' = (total \/ hits # {})
      /\ seen' = seen \cup {f}
      /\ synced' = (synced /\ disk' = disk)
      /\ UNCHANGED <<pc, pending, summary, patchedAny, exit>>
      /\ UNCHANGED run
  BY DEF PatchFile
<1>2. f \in Files
  BY <1>1, NextFileFacts
<1>3. hits \subseteq Rewritten[s]
  OBVIOUS
<1>4. Latest(s) \in Versions /\ Latest(s) # Lost
  BY <1>1, PatchAssumption DEF Patching, NeedsPatch
<1>5. \A p \in Rewritten[s] : FileOf[p] = f /\ disk[p] # Lost => p \in hits
  OBVIOUS
<1> HIDE DEF f, hits
<1>6. disk' \in [Places -> Versions \cup {Lost}]
  BY <1>1, <1>4 DEF TypeOK
<1>7. TypeOK'
  BY <1>1, <1>2, <1>6 DEF TypeOK, run
<1>8. /\ Asked' = Asked /\ Failures' = Failures /\ Live' = Live
      /\ \A t \in Sites : /\ NeedsPatch(t)' = NeedsPatch(t)
                           /\ Mismatch(t)' = Mismatch(t)
                           /\ Latest(t)' = Latest(t)
                           /\ Listed(t)' = Listed(t)
                           /\ Patching(t)' = Patching(t)
  BY <1>1, RunStays DEF Failures, Live, Patching, At, run
<1>9. LoopInv'
  BY <1>1, <1>8 DEF LoopInv
<1>10. LineInv'
  BY <1>1, <1>8 DEF LineInv
<1>11. ExitInv'
  BY <1>1, <1>8 DEF ExitInv, Upgrades, run
<1>12. WriteInv'
  <2>. SUFFICES ASSUME Live, NEW p \in Places, disk'[p] # before[p], Failures = {}
                PROVE  \/ \E t \in Asked : summary[t] = "updated" /\ p \in Rewritten[t]
                       \/ total' /\ \E t \in Sites : Patching(t) /\ p \in Rewritten[t]
    BY <1>1, <1>8 DEF WriteInv, run
  <2>1. CASE p \in hits
    BY <2>1, <1>1, <1>3
  <2>2. CASE p \notin hits
    BY <2>2, <1>1 DEF WriteInv
  <2>. QED BY <2>1, <2>2
<1>13. SnapshotInv'
  <2>1. CASE hits = {}
    BY <2>1, <1>1, <1>8 DEF SnapshotInv, TypeOK, run
  <2>2. CASE hits # {}
    BY <2>2, <1>1 DEF SnapshotInv, Patching, At
  <2>. QED BY <2>1, <2>2
<1>14. DiskInv'
  <2>. SUFFICES ASSUME Live, Failures = {}, apply, NEW t \in Asked, Sound(t),
                       Latest(t) \in Versions
                PROVE  PlaceInv(t)'
    BY <1>1, <1>8 DEF DiskInv, Sound, run, Asked, SelectSites
  <2>1. t \in Sites
    BY DEF Asked, SelectSites
  <2>2. PlaceInv(t)
    BY DEF DiskInv
  <2>3. \A p \in Listed(t) :
          /\ p \in Places /\ p \in EverFound(t)
          /\ before[p] # Lost
    BY <2>1, MatchFacts DEF Listed, Matches
  <2>4. \A p \in Listed(t) : p \in hits => ToolOf[t] = ToolOf[s] /\ Latest(t) = Latest(s)
    <3>1. answer[ToolOf[s]] # NothingNewer /\ Latest(s) = answer[ToolOf[s]]
      BY <1>1, LatestFacts DEF Patching
    <3>. QED BY <2>1, <2>3, <3>1, <1>3 DEF Sound, Latest
  <2>5. \A p \in Listed(t) : disk'[p] \in {disk[p], Latest(t)}
    BY <2>3, <2>4, <1>1
  <2>6. ASSUME Patching(t), NEW p \in Listed(t), FileOf[p] \in seen'
        PROVE  disk'[p] = Latest(t) /\ total'
    <3>1. t = s
      BY <2>1, <2>6, <1>1, AtUnique DEF Patching, TypeOK
    <3>2. CASE FileOf[p] \in seen
      BY <3>2, <2>2, <2>5, <2>6, <1>1 DEF PlaceInv
    <3>3. CASE FileOf[p] = f
      <4>1. disk[p] # Lost
        BY <2>2, <2>3, <1>4, <3>1 DEF PlaceInv
      <4>2. p \in hits
        BY <4>1, <3>1, <3>3, <2>3, <1>5 DEF Sound
      <4>. QED BY <4>2, <3>1, <2>3, <1>1
    <3>. QED BY <3>2, <3>3, <2>6, <1>1
  <2>7. PlaceInv(t)' <=>
          /\ \A p \in Listed(t) : disk'[p] \in {before[p], Latest(t)}
          /\ summary[t] = "updated" => \A p \in Listed(t) : disk'[p] = Latest(t)
          /\ Patching(t) => \A p \in Listed(t) :
               FileOf[p] \in seen' => disk'[p] = Latest(t) /\ total'
          /\ summary[t] # "needsUpdate"
    BY <2>1, <1>1, <1>8 DEF PlaceInv, run
  <2>. QED BY <2>2, <2>5, <2>6, <2>7 DEF PlaceInv
<1>. QED BY <1>7, <1>9, <1>10, <1>11, <1>12, <1>13, <1>14

\* Steps outside the loop write no pin and no line: what they must keep is
\* whatever is said of the exit and of afterPatch.
LEMMA TailKeeps ==
    ASSUME IInv, pending = {}, pc' # "sites", pc # "idle",
           pc' \in {"idle", "afterPatch", "emit"},
           UNCHANGED <<disk, pending, seen, total, summary, patchedAny>>,
           UNCHANGED run,
           synced' \in BOOLEAN, exit' \in Exits,
           pc' # "idle" => exit' = "none",
           ExitInv', SnapshotInv'
    PROVE  IInv'
<1>. USE DEF IInv
<1>1. Live
  BY DEF Live
<1>2. \A t \in Sites : ~Patching(t) /\ ~Patching(t)'
  BY DEF Patching, At
<1>3. seen = {} /\ total = FALSE
  BY <1>2 DEF LoopInv, TypeOK
<1>4. /\ Asked' = Asked /\ Failures' = Failures
      /\ \A t \in Sites : /\ NeedsPatch(t)' = NeedsPatch(t)
                           /\ Mismatch(t)' = Mismatch(t)
                           /\ Latest(t)' = Latest(t)
                           /\ Listed(t)' = Listed(t)
  BY RunStays DEF Failures
<1>5. TypeOK'
  BY DEF TypeOK, run
<1>6. LoopInv'
  BY <1>3, <1>4 DEF LoopInv
<1>7. LineInv'
  BY <1>1, <1>4 DEF LineInv
<1>8. WriteInv'
  BY <1>1, <1>3, <1>4 DEF WriteInv, run
<1>9. DiskInv'
  <2>. SUFFICES ASSUME Failures = {}, apply, NEW t \in Asked, Sound(t),
                       Latest(t)' \in Versions
                PROVE  PlaceInv(t)'
    BY <1>4 DEF DiskInv, Sound, run
  <2>1. t \in Sites
    BY DEF Asked, SelectSites
  <2>2. PlaceInv(t)
    BY <1>1, <1>4, <2>1 DEF DiskInv
  <2>. QED BY <1>2, <1>4, <2>1, <2>2 DEF PlaceInv, run
<1>. QED BY <1>5, <1>6, <1>7, <1>8, <1>9

\* From the end of the loop to the end of the run.
LEMMA EndKeeps ==
    ASSUME IInv, EndOfSites \/ AfterPatchRuns \/ AfterPatchFails \/ Emit \/ EmitFails
    PROVE  IInv'
<1>. USE DEF IInv
<1>1. CASE EndOfSites
  <2>1. total = FALSE
    BY <1>1 DEF EndOfSites, LoopInv, Patching, At, TypeOK
  <2>2. ExitInv'
    BY <1>1 DEF EndOfSites, LoopInv, ExitInv
  <2>3. Failures' = Failures
    BY <1>1 DEF EndOfSites, Failures
  <2>4. SnapshotInv'
    BY <1>1, <2>1, <2>3 DEF EndOfSites, SnapshotInv, Live, run
  <2>. QED BY <1>1, <2>2, <2>4, TailKeeps DEF EndOfSites, LoopInv, TypeOK
<1>2. CASE AfterPatchRuns
  <2>1. ExitInv'
    BY <1>2 DEF AfterPatchRuns, LoopInv, ExitInv
  <2>2. SnapshotInv'
    BY <1>2 DEF AfterPatchRuns, SnapshotInv
  <2>. QED BY <1>2, <2>1, <2>2, TailKeeps DEF AfterPatchRuns, LoopInv, TypeOK
<1>3. CASE AfterPatchFails \/ EmitFails
  <2>1. ExitInv' /\ SnapshotInv'
    BY <1>3 DEF AfterPatchFails, EmitFails, End, ExitInv, SnapshotInv, Live
  <2>. QED BY <1>3, <2>1, TailKeeps DEF AfterPatchFails, EmitFails, End, LoopInv, TypeOK, Exits
<1>4. CASE Emit
  <2>1. /\ pc = "emit" /\ pc' = "idle" /\ exit' \in {"failed", "drifted", "ok"}
        /\ exit' = "ok" => Failures = {} /\ (failOnDrift => Upgrades = {})
        /\ exit' = "drifted" => Upgrades # {}
        /\ UNCHANGED <<disk, synced, pending, seen, total, summary, patchedAny>>
        /\ UNCHANGED run
    BY <1>4 DEF Emit, End
  <2>2. Failures' = Failures /\ Upgrades' = Upgrades
    BY <2>1 DEF Failures, Upgrades
  <2>3. ExitInv'
    BY <2>1, <2>2 DEF ExitInv, run
  <2>4. SnapshotInv'
    BY <2>1, <2>2 DEF SnapshotInv, Live, run
  <2>. QED BY <2>1, <2>3, <2>4, TailKeeps DEF LoopInv, TypeOK, Exits
<1>. QED BY <1>1, <1>2, <1>3, <1>4

\* Every step of the program keeps the invariant.
LEMMA NextIInv == IInv /\ [Next]_vars => IInv'
<1> SUFFICES ASSUME IInv, [Next]_vars PROVE IInv'
  OBVIOUS
<1>1. CASE UNCHANGED vars
  <2>. USE <1>1 DEF vars
  <2>1. UNCHANGED run
    BY DEF run
  <2>2. /\ Asked' = Asked /\ Failures' = Failures /\ Upgrades' = Upgrades /\ Live' = Live
        /\ \A t \in Sites : /\ NeedsPatch(t)' = NeedsPatch(t)
                             /\ Mismatch(t)' = Mismatch(t)
                             /\ Latest(t)' = Latest(t)
                             /\ Listed(t)' = Listed(t)
                             /\ Patching(t)' = Patching(t)
    BY <2>1, RunStays DEF Failures, Upgrades, Live, Patching, At
  <2>3. \A t \in Sites : PlaceInv(t)' = PlaceInv(t)
    BY <2>2 DEF PlaceInv
  <2>4. TypeOK' /\ LoopInv' /\ LineInv' /\ ExitInv'
    BY <2>2 DEF IInv, TypeOK, LoopInv, LineInv, ExitInv
  <2>5. WriteInv' /\ SnapshotInv'
    BY <2>2 DEF IInv, WriteInv, SnapshotInv
  <2>6. DiskInv'
    BY <2>2, <2>3 DEF IInv, DiskInv, Sound, Asked, SelectSites
  <2>. QED BY <2>4, <2>5, <2>6 DEF IInv
<1>2. CASE Begin
  BY <1>2, BeginKeeps
<1>3. CASE Reject
  BY <1>3, RejectKeeps
<1>4. CASE Crash
  BY <1>4, CrashKeeps
<1>5. CASE Resting
  BY <1>1, <1>5 DEF Resting
<1>6. CASE Step
  BY <1>6, ReportKeeps, PatchFileKeeps, PatchFailsKeeps, PatchedKeeps, EndKeeps DEF Step
<1>. QED BY <1>1, <1>2, <1>3, <1>4, <1>5, <1>6 DEF Next

----------------------------------------------------------------------------
(* Theorems.                                                                *)

\* The invariant holds in every state of every run.
THEOREM Invariance == Spec => []IInv
BY InitIInv, NextIInv, PTL DEF Spec

\* Every variable keeps its type.
THEOREM TypeCorrect == Spec => []TypeOK
<1>1. IInv => TypeOK
  BY DEF IInv
<1>. QED BY <1>1, Invariance, PTL

\* Past the loop without a failure, every site asked for has a line.
LEMMA SettledFacts ==
    ASSUME IInv, Live, pending = {}, Failures = {}, NEW s \in Asked
    PROVE  /\ s \in Sites /\ ~Mismatch(s) /\ Latest(s) # Unresolved
           /\ \/ summary[s] = "fine" /\ ~NeedsPatch(s)
              \/ summary[s] \in {"needsUpdate", "updated"}
<1>1. s \in Sites
  BY DEF Asked, SelectSites
<1>2. summary[s] \in Lines \ {"none", "mismatch", "unresolved", "patchFailed"}
  BY <1>1 DEF IInv, LineInv, TypeOK, Failures
<1>3. NeedsPatch(s) => ~Mismatch(s) /\ Latest(s) # Unresolved
  BY PatchAssumption DEF NeedsPatch
<1>. QED BY <1>1, <1>2, <1>3 DEF IInv, LineInv, Lines

\* So it is once the run has ended without one.
LEMMA EndedFacts ==
    ASSUME IInv, Ended("ok"), NEW s \in Asked
    PROVE  /\ s \in Sites /\ ~Mismatch(s) /\ Latest(s) # Unresolved
           /\ \/ summary[s] = "fine" /\ ~NeedsPatch(s)
              \/ summary[s] \in {"needsUpdate", "updated"}
<1>1. pending = {} /\ Live /\ Failures = {}
  BY DEF IInv, Ended, LoopInv, Live, ExitInv
<1>. QED BY <1>1, SettledFacts

\* Whatever the number of sites and files, a patching run that exits cleanly
\* leaves nothing it could have patched.
THEOREM NothingLeft == Spec => []NothingLeftToPatch
<1>1. ASSUME IInv PROVE NothingLeftToPatch
  <2>. SUFFICES ASSUME Ended("ok"), apply, NEW s \in Asked, Sound(s), Latest(s) \in Versions
                PROVE  IF summary[s] = "updated"
                       THEN \A p \in Listed(s) : disk[p] = Latest(s)
                       ELSE disk[First(s)] = Latest(s)
    BY DEF NothingLeftToPatch
  <2>1. PlaceInv(s)
    BY <1>1 DEF IInv, DiskInv, Ended, Live, ExitInv
  <2>2. CASE summary[s] = "updated"
    BY <2>1, <2>2 DEF PlaceInv
  <2>3. CASE summary[s] # "updated"
    <3>1. s \in Sites /\ ~Mismatch(s) /\ ~NeedsPatch(s)
      BY <1>1, <2>1, <2>3, EndedFacts DEF PlaceInv
    <3>2. before[First(s)] = Latest(s) /\ First(s) \in Listed(s)
      BY <3>1, MatchFacts DEF NeedsPatch
    <3>. QED BY <2>1, <2>3, <3>2 DEF PlaceInv
  <2>. QED BY <2>2, <2>3
<1>. QED BY <1>1, Invariance, PTL

\* Whatever changed on disk in a run that exits cleanly, a line of its summary
\* says so: no write of a site that then failed is passed over.
WritesAccountedFor ==
    Ended("ok") =>
      \A p \in Places :
        disk[p] # before[p] =>
          \E s \in Asked : summary[s] = "updated" /\ p \in Rewritten[s]

\* No write is passed over by a run that exits cleanly.
THEOREM WritesAccounted == Spec => []WritesAccountedFor
<1>1. ASSUME IInv PROVE WritesAccountedFor
  <2>1. total => \E s \in Sites : Patching(s)
    BY <1>1 DEF IInv, LoopInv
  <2>. QED BY <1>1, <2>1
         DEF WritesAccountedFor, IInv, WriteInv, ExitInv, Live, Ended, Patching, At
<1>. QED BY <1>1, Invariance, PTL

\* A run that changed a pin and exits cleanly has run afterPatch since.
THEOREM SnapshotFollows == Spec => []SnapshotFollowsPatch
<1>1. ASSUME IInv PROVE SnapshotFollowsPatch
  BY <1>1 DEF SnapshotFollowsPatch, IInv, SnapshotInv, ExitInv, Live, Ended
<1>. QED BY <1>1, Invariance, PTL

\* What the two exits of a run with fail-on-drift say of the pins is so.
THEOREM DriftGated == Spec => []DriftGate
<1>1. ASSUME IInv PROVE DriftGate
  <2>1. ASSUME Ended("ok"), failOnDrift, NEW s \in Asked
        PROVE  /\ ~Mismatch(s)
               /\ Latest(s) # Unresolved
               /\ Latest(s) \in Versions => before[First(s)] = Latest(s)
    <3>1. Upgrades = {}
      BY <1>1, <2>1 DEF IInv, ExitInv, Ended
    <3>2. s \in Sites /\ ~Mismatch(s) /\ Latest(s) # Unresolved /\ ~NeedsPatch(s)
      BY <1>1, <2>1, <3>1, EndedFacts DEF Upgrades
    <3>. QED BY <3>2 DEF NeedsPatch
  <2>2. ASSUME Ended("drifted")
        PROVE  \E s \in Asked : Latest(s) \in Versions /\ before[First(s)] # Latest(s)
    <3>1. PICK s \in Sites : summary[s] \in {"updated", "needsUpdate"}
      BY <1>1, <2>2 DEF IInv, ExitInv, Ended, Upgrades
    <3>2. s \in Asked /\ NeedsPatch(s)
      BY <1>1, <2>2, <3>1 DEF IInv, LineInv, Live, Ended
    <3>. QED BY <3>2 DEF NeedsPatch
  <2>. QED BY <2>1, <2>2 DEF DriftGate
<1>. QED BY <1>1, Invariance, PTL

----------------------------------------------------------------------------
(* What the two findings about a patching run leave true.                   *)

\* For any sites, files and answers, the only disagreements a clean patching
\* run leaves in a tool are ones it found: inside a site that it did not
\* update, or in a tool that upstream has nothing newer for.
THEOREM AgreedStayAgreed == Spec => []AgreementKept
<1>1. ASSUME IInv, Ended("ok"), apply, NEW s \in Asked, Sound(s),
             answer[ToolOf[s]] \in Versions,
             summary[s] = "updated" \/ \A p, q \in Listed(s) : before[p] = before[q],
             NEW p \in Listed(s)
      PROVE  disk[p] = answer[ToolOf[s]]
  <2>1. Latest(s) = answer[ToolOf[s]]
    BY <1>1, PatchAssumption DEF Latest
  <2>2. PlaceInv(s)
    BY <1>1, <2>1 DEF IInv, DiskInv, Ended, Live, ExitInv
  <2>3. CASE summary[s] = "updated"
    BY <1>1, <2>1, <2>2, <2>3 DEF PlaceInv
  <2>4. CASE summary[s] # "updated"
    <3>1. s \in Sites /\ ~Mismatch(s) /\ ~NeedsPatch(s)
      BY <1>1, <2>2, <2>4, EndedFacts DEF PlaceInv
    <3>2. before[First(s)] = Latest(s) /\ First(s) \in Listed(s)
      BY <1>1, <2>1, <3>1, MatchFacts DEF NeedsPatch
    <3>3. before[p] = Latest(s)
      BY <1>1, <2>4, <3>2
    <3>. QED BY <1>1, <2>1, <2>2, <3>3 DEF PlaceInv
  <2>. QED BY <2>3, <2>4
<1>2. ASSUME IInv, Ended("ok"), NEW s \in Asked, Sound(s), answer[ToolOf[s]] \notin Versions,
             NEW p \in Listed(s)
      PROVE  disk[p] = before[p]
  <2>. SUFFICES ASSUME disk[p] # before[p] PROVE FALSE
    OBVIOUS
  <2>1. s \in Sites /\ p \in Places /\ p \in EverFound(s)
    BY <1>2, EndedFacts, MatchFacts
  <2>2. PICK t \in Asked : summary[t] = "updated" /\ p \in Rewritten[t]
    <3>1. Live /\ Failures = {} /\ \A t \in Sites : ~Patching(t)
      BY <1>2 DEF IInv, ExitInv, Live, Ended, Patching, At
    <3>. QED BY <1>2, <2>1, <3>1 DEF IInv, WriteInv
  <2>3. t \in Sites /\ NeedsPatch(t)
    BY <1>2, <2>2 DEF IInv, LineInv, Live, Ended, Asked, SelectSites
  <2>4. ToolOf[t] = ToolOf[s]
    BY <1>2, <2>1, <2>2, <2>3 DEF Sound
  <2>. QED BY <1>2, <2>3, <2>4, LatestFacts DEF NeedsPatch, IInv
<1>3. IInv => AgreementKept
  <2>. SUFFICES ASSUME IInv, Ended("ok"), apply, NEW s1 \in Asked, NEW s2 \in Asked,
                       Sound(s1), Sound(s2), ToolOf[s1] = ToolOf[s2],
                       NEW p1 \in Listed(s1), NEW p2 \in Listed(s2)
                PROVE  \/ disk[p1] = disk[p2]
                       \/ /\ answer[ToolOf[s1]] \in Versions
                          /\ \E s \in {s1, s2} :
                               /\ summary[s] # "updated"
                               /\ \E p, q \in Listed(s) : before[p] # before[q]
                       \/ /\ answer[ToolOf[s1]] \notin Versions
                          /\ before[p1] # before[p2]
    BY DEF AgreementKept
  <2>1. CASE answer[ToolOf[s1]] \in Versions
    <3>. SUFFICES ASSUME \A s \in {s1, s2} : \/ summary[s] = "updated"
                                             \/ \A p, q \in Listed(s) : before[p] = before[q]
                  PROVE  disk[p1] = disk[p2]
      BY <2>1
    <3>1. disk[p1] = answer[ToolOf[s1]]
      BY <1>1, <2>1
    <3>2. disk[p2] = answer[ToolOf[s2]]
      BY <1>1, <2>1
    <3>. QED BY <3>1, <3>2
  <2>2. CASE answer[ToolOf[s1]] \notin Versions
    <3>1. disk[p1] = before[p1]
      BY <1>2, <2>2
    <3>2. disk[p2] = before[p2]
      BY <1>2, <2>2
    <3>. QED BY <2>2, <3>1, <3>2
  <2>. QED BY <2>1, <2>2
<1>. QED BY <1>3, Invariance, PTL

PatchFailures == {s \in Sites : summary[s] = "patchFailed"}

\* A change is remembered up to afterPatch, whatever other site is missing its
\* match or its answer: only a patch that failed can lose one.
ChangeInv ==
    Live /\ disk # before =>
      \/ PatchFailures # {}
      \/ pc \in {"sites", "afterPatch"} /\ (patchedAny \/ total)
      \/ pc \in {"emit", "idle"} /\ (HasAfterPatch => synced)

\* AfterPatchIfAnythingChanged, where the code keeps it: about to write its
\* summary, a run that changed a file has run afterPatch, unless the patch of
\* some site failed.
AfterPatchUnlessFailed ==
    pc = "emit" /\ HasAfterPatch /\ disk # before => synced \/ PatchFailures # {}

\* A line is written for a site that has none yet, so no failure is forgotten.
LEMMA FailuresStay ==
    ASSUME IInv, NEW s \in Sites, At(s), NEW line, Conclude(s, line)
    PROVE  /\ PatchFailures \subseteq PatchFailures'
           /\ line = "patchFailed" => PatchFailures' # {}
<1>1. pc # "idle" /\ s \in pending
  BY DEF At
<1>2. summary[s] = "none"
  BY <1>1 DEF IInv, LineInv, Live
<1>3. summary \in [Sites -> Lines]
  BY DEF IInv, TypeOK
<1>. QED BY <1>2, <1>3 DEF Conclude, PatchFailures

\* Every step keeps count of the change, or is a patch that fails.
LEMMA ChangeStep == IInv /\ IInv' /\ ChangeInv /\ [Next]_vars => ChangeInv'
<1>. SUFFICES ASSUME IInv, IInv', ChangeInv, [Next]_vars, Live', disk' # before'
              PROVE  \/ PatchFailures' # {}
                     \/ pc' \in {"sites", "afterPatch"} /\ (patchedAny' \/ total')
                     \/ pc' \in {"emit", "idle"} /\ (HasAfterPatch => synced')
  BY DEF ChangeInv
<1>0. /\ pc \in {"idle", "sites", "afterPatch", "emit"}
      /\ pc # "idle" => exit = "none"
      /\ total => \E s \in Sites : Patching(s)
  BY DEF IInv, TypeOK, LoopInv
<1>1. CASE UNCHANGED vars
  BY <1>1 DEF vars, ChangeInv, Live, PatchFailures
<1>2. CASE Begin \/ Reject
  BY <1>2 DEF Begin, Reject
<1>3. CASE Crash
  BY <1>0, <1>3 DEF Crash, Live, run
<1>4. ASSUME NEW s \in Sites, Report(s) PROVE ChangeInv'
  <2>1. ~total
    BY <1>0, <1>4, AtUnique DEF Report, Patching, IInv, TypeOK
  <2>2. PatchFailures \subseteq PatchFailures'
    BY <1>4, FailuresStay DEF Report
  <2>. QED BY <1>0, <1>4, <2>1, <2>2 DEF Report, At, run, ChangeInv, Live
<1>5. ASSUME NEW s \in Sites, PatchFile(s) PROVE ChangeInv'
  <2>1. pc = "sites" /\ pc' = pc /\ summary' = summary /\ patchedAny' = patchedAny
    BY <1>5 DEF PatchFile, Patching, At
  <2>2. total' \/ (disk' = disk /\ total' = total)
    <3>. DEFINE f == NextFile(s)
                hits == {p \in Rewritten[s] : FileOf[p] = f /\ disk[p] # Lost}
    <3>1. /\ disk' = [p \in Places |-> IF p \in hits THEN Latest(s) ELSE disk[p]]
          /\ total' = (total \/ hits # {})
      BY <1>5 DEF PatchFile
    <3>. HIDE DEF hits
    <3>2. disk = [p \in Places |-> disk[p]] /\ total \in BOOLEAN
      BY DEF IInv, TypeOK
    <3>. QED BY <3>1, <3>2
  <2>3. PatchFailures' = PatchFailures /\ before' = before
    BY <1>5, <2>1 DEF PatchFailures, PatchFile, run
  <2>. QED BY <1>0, <2>1, <2>2, <2>3 DEF ChangeInv, Live
<1>6. ASSUME NEW s \in Sites, PatchFails(s) PROVE ChangeInv'
  BY <1>6, FailuresStay DEF PatchFails, Patching, ChangeInv
<1>7. ASSUME NEW s \in Sites, Patched(s) PROVE ChangeInv'
  <2>1. PatchFailures \subseteq PatchFailures'
    BY <1>7, FailuresStay DEF Patched, Patching
  <2>. QED BY <1>0, <1>7, <2>1 DEF Patched, Patching, At, run, ChangeInv, Live
<1>8. CASE EndOfSites
  <2>1. ~total
    BY <1>0, <1>8 DEF EndOfSites, Patching, At
  <2>. QED BY <1>0, <1>8, <2>1 DEF EndOfSites, run, ChangeInv, Live, PatchFailures
<1>9. CASE AfterPatchRuns
  BY <1>9 DEF AfterPatchRuns
<1>10. CASE AfterPatchFails \/ EmitFails
  BY <1>10 DEF AfterPatchFails, EmitFails, End, Live
<1>11. CASE Emit
  BY <1>0, <1>11 DEF Emit, End, run, ChangeInv, Live, PatchFailures
<1>12. CASE Resting
  BY <1>1, <1>12 DEF Resting
<1>. QED
  BY <1>1, <1>2, <1>3, <1>4, <1>5, <1>6, <1>7, <1>8, <1>9, <1>10, <1>11, <1>12
  DEF Next, Step, ChangeInv

\* For any sites and files, what a missing match or answer fails does not keep
\* a change from afterPatch; only a failed patch does.
THEOREM AfterPatchKnows == Spec => []AfterPatchUnlessFailed
<1>1. Init => ChangeInv
  BY DEF Init, ChangeInv
<1>2. IInv /\ ChangeInv => AfterPatchUnlessFailed
  BY DEF ChangeInv, AfterPatchUnlessFailed, Live
<1>. QED BY <1>1, <1>2, Invariance, ChangeStep, PTL DEF Spec

----------------------------------------------------------------------------
(* What a step does.                                                        *)

\* The loop of patchSite takes one file at a time: whatever a step does to the
\* disk, a kill in the middle of a write included, is inside the file next for
\* a site being patched, where a place gets the tool's version or is lost.
WritesAreOwn ==
    [][disk' # disk =>
         \E s \in Sites :
           /\ Patching(s) /\ Unseen(s) # {}
           /\ \A p \in Places : disk'[p] # disk[p] =>
                /\ FileOf[p] = NextFile(s)
                /\ \/ disk'[p] = Latest(s) /\ p \in Rewritten[s]
                   \/ disk'[p] = Lost]_vars

\* What a torn write changes is in the file it was writing.
LEMMA TearIsOwn ==
    ASSUME IInv, NEW s \in Sites, Tear(NextFile(s)), NEW p \in Places, disk'[p] # disk[p]
    PROVE  FileOf[p] = NextFile(s) /\ disk'[p] = Lost
BY DEF Tear

\* For any sites and files, no step of any run touches a second file, or a
\* place that its site's pattern does not rewrite unless it tears the file.
THEOREM OneFileAWrite == Spec => WritesAreOwn
<1>. DEFINE Own(s) == /\ Patching(s) /\ Unseen(s) # {}
                      /\ \A p \in Places : disk'[p] # disk[p] =>
                           /\ FileOf[p] = NextFile(s)
                           /\ \/ disk'[p] = Latest(s) /\ p \in Rewritten[s]
                              \/ disk'[p] = Lost
<1>1. ASSUME IInv, [Next]_vars, disk' # disk PROVE \E s \in Sites : Own(s)
  <2>1. CASE UNCHANGED vars \/ Begin \/ Reject \/ Resting
    BY <1>1, <2>1 DEF vars, Begin, Reject, Resting
  <2>2. CASE EndOfSites \/ AfterPatchRuns \/ AfterPatchFails \/ Emit \/ EmitFails
    BY <1>1, <2>2 DEF EndOfSites, AfterPatchRuns, AfterPatchFails, Emit, EmitFails, End
  <2>3. CASE Crash
    <3>1. PICK s \in Sites : Patching(s) /\ Unseen(s) # {} /\ Tear(NextFile(s))
      BY <1>1, <2>3 DEF Crash
    <3>. QED BY <1>1, <3>1, TearIsOwn
  <2>4. ASSUME NEW s \in Sites, Report(s) \/ Patched(s) PROVE FALSE
    BY <1>1, <2>4 DEF Report, Patched
  <2>5. ASSUME NEW s \in Sites, PatchFails(s) PROVE Own(s)
    <3>1. Patching(s) /\ Unseen(s) # {} /\ Tear(NextFile(s))
      BY <1>1, <2>5 DEF PatchFails
    <3>. QED BY <1>1, <3>1, TearIsOwn
  <2>6. ASSUME NEW s \in Sites, PatchFile(s) PROVE Own(s)
    BY <2>6 DEF PatchFile
  <2>. QED BY <1>1, <2>1, <2>2, <2>3, <2>4, <2>5, <2>6 DEF Next, Step
<1>. QED BY <1>1, Invariance, PTL DEF Spec, WritesAreOwn

\* A step inside a run ends it, goes on to afterPatch or the summary, leaves
\* one more site behind, or one more of the files there are: no site is taken
\* twice, and no file twice for a site.
EachStepAdvances ==
    [][pc # "idle" =>
         \/ pc' = "idle"
         \/ pc = "sites" /\ pc' \in {"afterPatch", "emit"}
         \/ pc = "afterPatch" /\ pc' = "emit"
         \/ \E s \in pending : pc' = pc /\ pending' = pending \ {s}
         \/ \E f \in Files \ seen : pc' = pc /\ pending' = pending /\ seen' = seen \cup {f}]_vars

\* For any sites and files, no step of a run repeats what was done.
THEOREM EveryStepCounts == Spec => EachStepAdvances
<1>. DEFINE Advance == \/ pc' = "idle"
                       \/ pc = "sites" /\ pc' \in {"afterPatch", "emit"}
                       \/ pc = "afterPatch" /\ pc' = "emit"
                       \/ \E s \in pending : pc' = pc /\ pending' = pending \ {s}
                       \/ \E f \in Files \ seen :
                            pc' = pc /\ pending' = pending /\ seen' = seen \cup {f}
<1>1. ASSUME IInv, Next, pc # "idle" PROVE Advance
  <2>1. ASSUME NEW s \in Sites, Report(s) \/ PatchFails(s) \/ Patched(s)
        PROVE  s \in pending /\ pc' = pc /\ pending' = pending \ {s}
    BY <2>1 DEF Report, PatchFails, Patched, Patching, At, Conclude
  <2>2. ASSUME NEW s \in Sites, PatchFile(s) PROVE Advance
    <3>1. /\ Unseen(s) # {} /\ pc' = pc /\ pending' = pending
          /\ seen' = seen \cup {NextFile(s)}
      BY <2>2 DEF PatchFile
    <3>2. Unseen(s) \subseteq Nat
      BY MatchFacts DEF Unseen
    <3>3. Min(Unseen(s)) \in Unseen(s)
      BY <3>1, <3>2, MinFacts
    <3>4. NextFile(s) \in Files \ seen
      BY <3>1, <3>3, NextFileFacts DEF NextFile, Unseen
    <3>. QED BY <3>1, <3>4
  <2>3. CASE EndOfSites
    BY <2>3 DEF EndOfSites
  <2>4. CASE AfterPatchRuns
    BY <2>4 DEF AfterPatchRuns
  <2>5. CASE AfterPatchFails \/ Emit \/ EmitFails \/ Crash
    BY <2>5 DEF AfterPatchFails, Emit, EmitFails, End, Crash
  <2>6. CASE Begin \/ Reject \/ Resting
    BY <1>1, <2>6 DEF Begin, Reject, Resting
  <2>. QED BY <1>1, <2>1, <2>2, <2>3, <2>4, <2>5, <2>6 DEF Next, Step
<1>. QED BY <1>1, Invariance, PTL DEF Spec, EachStepAdvances

----------------------------------------------------------------------------
(* A run is one step of PinRun.                                             *)

\* What a run has written by now, in a run that may write, is one of its own
\* versions where one of its sites rewrites, or lost; and a line tells of it,
\* or the site being patched will, unless the run is bound to fail.
PartInv ==
    pc # "idle" => \A p \in Places :
      disk[p] # before[p] =>
        /\ apply
        /\ \/ disk[p] = Lost /\ Failures # {}
           \/ \E s \in Asked :
                /\ p \in Rewritten[s] /\ disk[p] = Latest(s)
                /\ Failures # {} \/ summary[s] = "updated" \/ (total /\ Patching(s))

\* A site that gets its line takes nothing back from what was written.
LEMMA ConcludeKeepsPart ==
    ASSUME IInv, IInv', PartInv, NEW s \in Sites, At(s), NEW line, Conclude(s, line),
           total => line \in {"updated", "patchFailed"}, UNCHANGED pc, UNCHANGED run,
           NEW p \in Places, disk'[p] = disk[p], disk'[p] # before'[p]
    PROVE  /\ apply'
           /\ \/ disk'[p] = Lost /\ Failures' # {}
              \/ \E t \in Asked' :
                   /\ p \in Rewritten[t] /\ disk'[p] = Latest(t)'
                   /\ Failures' # {} \/ summary'[t] = "updated" \/ (total' /\ Patching(t)')
<1>1. pc = "sites" /\ s \in pending /\ summary[s] = "none" /\ pending \subseteq Sites
  BY DEF At, IInv, LineInv, Live, TypeOK
<1>2. /\ summary'[s] = line
      /\ \A t \in Sites : t # s => summary'[t] = summary[t]
  BY DEF Conclude, IInv, TypeOK
<1>3. Failures \subseteq Failures'
  BY <1>1, <1>2 DEF Failures
<1>4. line = "patchFailed" => Failures' # {}
  BY <1>2 DEF Failures
<1>5. before' = before /\ apply' = apply /\ Asked' = Asked
  BY RunStays DEF run
<1>6. CASE disk[p] = Lost /\ Failures # {}
  BY <1>1, <1>3, <1>5, <1>6 DEF PartInv
<1>7. CASE \E t \in Asked :
             /\ p \in Rewritten[t] /\ disk[p] = Latest(t)
             /\ Failures # {} \/ summary[t] = "updated" \/ (total /\ Patching(t))
  <2>1. PICK t \in Asked :
             /\ p \in Rewritten[t] /\ disk[p] = Latest(t)
             /\ Failures # {} \/ summary[t] = "updated" \/ (total /\ Patching(t))
    BY <1>7
  <2>2. t \in Sites /\ Latest(t)' = Latest(t)
    BY RunStays DEF Asked, SelectSites
  <2>3. total /\ Patching(t) => t = s
    BY <1>1, <2>2, AtUnique DEF Patching
  <2>4. summary[t] = "updated" => summary'[t] = "updated"
    BY <1>1, <1>2, <2>2
  <2>5. Failures' # {} \/ summary'[t] = "updated"
    BY <1>2, <1>3, <1>4, <2>1, <2>3, <2>4
  <2>6. apply
    BY <1>1, <1>5 DEF PartInv
  <2>. QED BY <1>5, <2>1, <2>2, <2>5, <2>6
<1>. QED BY <1>1, <1>5, <1>6, <1>7 DEF PartInv

\* Every step keeps it.
LEMMA PartStep == IInv /\ IInv' /\ PartInv /\ [Next]_vars => PartInv'
<1>. DEFINE Part(p) == /\ apply
                       /\ \/ disk[p] = Lost /\ Failures # {}
                          \/ \E s \in Asked :
                               /\ p \in Rewritten[s] /\ disk[p] = Latest(s)
                               /\ \/ Failures # {} \/ summary[s] = "updated"
                                  \/ total /\ Patching(s)
<1>. SUFFICES ASSUME IInv, IInv', PartInv, [Next]_vars, pc' # "idle",
                     NEW p \in Places, disk'[p] # before'[p]
              PROVE  Part(p)'
  BY DEF PartInv
<1>0. /\ pc # "idle" /\ disk[p] # before[p] => Part(p)
      /\ seen # {} \/ total => \E s \in Sites : Patching(s)
  BY DEF PartInv, IInv, LoopInv
<1>1. CASE UNCHANGED <<disk, pc, pending, summary>> /\ UNCHANGED run /\ total' = total
  <2>1. \A s \in Sites : Latest(s)' = Latest(s) /\ Patching(s)' = Patching(s)
    BY <1>1, RunStays DEF Patching, At, run
  <2>2. Asked' = Asked /\ Failures' = Failures /\ Asked \subseteq Sites
    BY <1>1, RunStays DEF Failures, Asked, SelectSites
  <2>. QED BY <1>0, <1>1, <2>1, <2>2 DEF run
<1>2. CASE Begin \/ Reject \/ Crash \/ AfterPatchFails \/ Emit \/ EmitFails
  BY <1>2 DEF Begin, Reject, Crash, AfterPatchFails, Emit, EmitFails, End
<1>3. ASSUME NEW s \in Sites, Report(s) PROVE Part(p)'
  <2>1. ~total
    BY <1>0, <1>3, AtUnique DEF Report, Patching, IInv, TypeOK
  <2>. QED BY <1>3, <2>1, ConcludeKeepsPart DEF Report
<1>4. ASSUME NEW s \in Sites, Patched(s) PROVE Part(p)'
  BY <1>4, ConcludeKeepsPart DEF Patched, Patching
<1>5. ASSUME NEW s \in Sites, PatchFails(s) PROVE Part(p)'
  <2>1. CASE disk'[p] = disk[p]
    BY <1>5, <2>1, ConcludeKeepsPart DEF PatchFails, Patching
  <2>2. CASE disk'[p] # disk[p]
    <3>1. disk'[p] = Lost
      BY <1>5, <2>2, TearIsOwn DEF PatchFails
    <3>2. apply' /\ summary'[s] = "patchFailed"
      BY <1>5 DEF PatchFails, Patching, Conclude, run, IInv, TypeOK
    <3>. QED BY <3>1, <3>2 DEF Failures
  <2>. QED BY <2>1, <2>2
<1>6. ASSUME NEW s \in Sites, PatchFile(s) PROVE Part(p)'
  <2>. DEFINE hits == {q \in Rewritten[s] : FileOf[q] = NextFile(s) /\ disk[q] # Lost}
  <2>1. /\ disk'[p] = IF p \in hits THEN Latest(s) ELSE disk[p]
        /\ total' = (total \/ hits # {})
        /\ Patching(s) /\ apply /\ pc = "sites" /\ s \in pending
        /\ UNCHANGED <<pc, pending, summary>> /\ UNCHANGED run
    BY <1>6 DEF PatchFile, Patching, At
  <2>. HIDE DEF hits
  <2>2. /\ Asked' = Asked /\ Failures' = Failures /\ Asked \subseteq Sites
        /\ \A t \in Sites : Latest(t)' = Latest(t) /\ Patching(t)' = Patching(t)
        /\ before' = before /\ apply' = apply
    BY <2>1, RunStays DEF Failures, Asked, SelectSites, Patching, At, run
  <2>3. CASE p \in hits
    <3>1. s \in Asked /\ p \in Rewritten[s]
      BY <2>1, <2>3 DEF IInv, LoopInv, hits
    <3>. QED BY <2>1, <2>2, <2>3, <3>1
  <2>4. CASE p \notin hits
    BY <1>0, <2>1, <2>2, <2>4
  <2>. QED BY <2>3, <2>4
<1>7. CASE EndOfSites
  <2>1. pc # "idle" /\ before' = before /\ disk' = disk /\ apply' = apply /\ ~total
    BY <1>0, <1>7 DEF EndOfSites, run, Patching, At
  <2>2. /\ Asked' = Asked /\ Failures' = Failures /\ summary' = summary
        /\ \A t \in Asked : Latest(t)' = Latest(t)
    BY <1>7, RunStays DEF EndOfSites, Failures, Asked, SelectSites
  <2>. QED BY <1>0, <2>1, <2>2
<1>8. CASE AfterPatchRuns
  <2>1. pc # "idle" /\ before' = before /\ disk' = disk /\ apply' = apply /\ ~total
    BY <1>0, <1>8 DEF AfterPatchRuns, run, Patching, At
  <2>2. /\ Asked' = Asked /\ Failures' = Failures /\ summary' = summary
        /\ \A t \in Asked : Latest(t)' = Latest(t)
    BY <1>8, RunStays DEF AfterPatchRuns, Failures, Asked, SelectSites
  <2>. QED BY <1>0, <2>1, <2>2
<1>9. CASE UNCHANGED vars \/ Resting
  <2>1. UNCHANGED <<disk, pc, pending, summary>> /\ UNCHANGED run /\ total' = total
    BY <1>9 DEF Resting, vars, run
  <2>. QED BY <1>1, <2>1
<1>. QED BY <1>2, <1>3, <1>4, <1>5, <1>6, <1>7, <1>8, <1>9 DEF Next, Step

\* Inside a run and outside one, what PinRun sees of it.
LEMMA SeenAs ==
    ASSUME IInv
    PROVE  /\ Run!Asked = Asked
           /\ \A s \in Sites : Run!Offer(s) = Latest(s)
           /\ Live => {s \in Sites : summary[s] = "updated"} \subseteq Asked
<1>1. Run!Asked = Asked
  BY DEF Run!Asked, Asked, SelectSites
<1>2. \A s \in Sites : Run!Offer(s) = Latest(s)
  BY DEF Run!Offer, Latest
<1>3. Live => \A s \in Sites : summary[s] = "updated" => s \in Asked
  BY DEF IInv, LineInv
<1>. QED BY <1>1, <1>2, <1>3 DEF Asked, SelectSites

\* A run's question is one of those PinRun knows.
LEMMA QuestionTyped ==
    TypeOK => [tools |-> only, offer |-> [s \in Sites |-> Latest(s)],
               apply |-> apply, gate |-> failOnDrift] \in Run!Questions
BY LatestFacts DEF TypeOK, Run!Questions

\* So is the next one.
LEMMA NextQuestionTyped ==
    ASSUME TypeOK'
    PROVE  [tools |-> only', offer |-> [s \in Sites |-> Latest(s)'],
            apply |-> apply', gate |-> failOnDrift'] \in Run!Questions
<1>1. TypeOK' => ([tools |-> only, offer |-> [s \in Sites |-> Latest(s)],
                   apply |-> apply, gate |-> failOnDrift] \in Run!Questions)'
  BY QuestionTyped, PTL
<1>. QED BY <1>1

\* However a run ends, it ends what PinRun has open, and has written nothing
\* unless asked to.
LEMMA EndCloses ==
    ASSUME IInv, IInv', PartInv, pc # "idle", pc' = "idle",
           UNCHANGED run, UNCHANGED summary,
           \A p \in Places : disk'[p] # disk[p] => apply
    PROVE  Run!Close
<1>1. /\ disk' \in [Places -> Versions \cup {Lost}]
      /\ before \in [Places -> Versions \cup {Lost}]
  BY DEF IInv, TypeOK
<1>2. disk' # before => apply
  <2>. SUFFICES ASSUME disk' # before PROVE apply
    OBVIOUS
  <2>1. PICK p \in Places : disk'[p] # before[p]
    BY <1>1
  <2>. QED BY <2>1 DEF PartInv
<1>3. {s \in Sites : summary'[s] = "updated"} \subseteq Run!Asked
  BY SeenAs DEF Live, Asked, SelectSites
<1>4. [s \in Sites |-> Latest(s)]' = [s \in Sites |-> Latest(s)]
  BY RunStays
<1>. QED BY <1>1, <1>2, <1>3, <1>4 DEF Run!Close, run

\* A run that fails or is killed has written its own versions, or lost pins.
LEMMA FailBreaks ==
    ASSUME IInv, IInv', PartInv, pc # "idle", pc' = "idle", exit' \in {"none", "failed"},
           UNCHANGED run, UNCHANGED summary,
           \A p \in Places : disk'[p] # disk[p] => apply /\ disk'[p] = Lost
    PROVE  Run!Break
<1>1. Run!Close
  BY EndCloses
<1>2. ASSUME NEW p \in Places
      PROVE  \/ disk'[p] \in {before[p], Lost}
             \/ \E s \in Asked : p \in Rewritten[s] /\ disk'[p] = Latest(s)
  BY DEF PartInv
<1>3. ASSUME NEW p \in Places
      PROVE  disk'[p] \in {before[p], Lost} \/ Run!Writes(Run!Asked, p)
  BY <1>2, SeenAs DEF Run!Writes, Asked, SelectSites
<1>. QED BY <1>1, <1>3 DEF Run!Break

\* A run that ends cleanly has written what it says, and nothing else.
LEMMA EmitSucceeds ==
    ASSUME IInv, IInv', PartInv, Emit, exit' # "failed"
    PROVE  Run!Succeed
<1>1. /\ pc = "emit" /\ pc' = "idle" /\ UNCHANGED <<disk, summary>> /\ UNCHANGED run
      /\ Failures = {} /\ exit' \in {"ok", "drifted"}
      /\ exit' = "ok" /\ failOnDrift => Upgrades = {}
  BY DEF Emit, End
<1>2. Run!Close
  BY <1>1, EndCloses
<1>3. pending = {} /\ Live /\ Asked \subseteq Sites /\ \A s \in Sites : ~Patching(s)
  BY <1>1 DEF IInv, LoopInv, Live, Asked, SelectSites, Patching, At
<1>. DEFINE made == {s \in Sites : summary'[s] = "updated"}
            Own(s) == IF Sound(s) THEN EverFound(s) ELSE {}
<1>4. ASSUME NEW p \in Places PROVE disk'[p] = before[p] \/ Run!Writes(made, p)
  <2>. SUFFICES ASSUME disk[p] # before[p] PROVE Run!Writes(made, p)
    BY <1>1
  <2>1. PICK s \in Asked :
          p \in Rewritten[s] /\ disk[p] = Latest(s) /\ summary[s] = "updated"
    BY <1>1, <1>3 DEF PartInv
  <2>. QED BY <1>1, <1>3, <2>1, SeenAs DEF Run!Writes
<1>5. ASSUME NEW s \in Asked, Sound(s), Latest(s) \in Versions, summary[s] # "updated",
             apply \/ Upgrades = {}
      PROVE  \E p \in EverFound(s) : before[p] = Latest(s) /\ disk[p] = Latest(s)
  <2>1. s \in Sites /\ ~Mismatch(s) /\ First(s) \in Listed(s)
    BY <1>1, <1>3, SettledFacts, MatchFacts
  <2>2. apply => PlaceInv(s)
    BY <1>1, <1>3, <1>5 DEF IInv, DiskInv
  <2>3. summary[s] # "needsUpdate"
    BY <1>5, <2>1, <2>2 DEF PlaceInv, Upgrades
  <2>4. ~NeedsPatch(s)
    BY <1>1, <1>3, <1>5, <2>3, SettledFacts
  <2>5. before[First(s)] = Latest(s)
    BY <1>5, <2>1, <2>4 DEF NeedsPatch
  <2>6. First(s) \in Places /\ First(s) \in EverFound(s)
    BY <2>1, MatchFacts
  <2>7. disk[First(s)] = Latest(s)
    <3>1. CASE apply
      BY <2>1, <2>2, <2>5, <3>1 DEF PlaceInv
    <3>2. CASE ~apply
      BY <1>1, <2>5, <2>6, <3>2 DEF PartInv
    <3>. QED BY <3>1, <3>2
  <2>. QED BY <2>5, <2>6, <2>7
<1>6. \A s \in Run!Resolved :
        /\ s \in Asked /\ s \in Sites /\ Sound(s) /\ Latest(s) \in Versions
        /\ Run!Offer(s) = Latest(s)
  BY <1>3, SeenAs DEF Run!Resolved
<1>7. ASSUME NEW s \in Run!Resolved, summary[s] # "updated", apply \/ Upgrades = {}
      PROVE  Run!Current(s)
  <2>1. PICK p \in EverFound(s) : before[p] = Latest(s) /\ disk[p] = Latest(s)
    BY <1>5, <1>6, <1>7
  <2>. QED BY <1>1, <1>6, <2>1 DEF Run!Current
<1>8. ASSUME apply, NEW s \in Run!Resolved \cap made,
             NEW p \in EverFound(s), before[p] # Lost
      PROVE  disk'[p] = Run!Offer(s)
  <2>1. PlaceInv(s)
    BY <1>1, <1>3, <1>6, <1>8 DEF IInv, DiskInv
  <2>2. p \in Listed(s)
    BY <1>8 DEF Listed, EverFound, Matches
  <2>. QED BY <1>1, <1>6, <1>8, <2>1, <2>2 DEF PlaceInv
<1>9. apply => \A s \in Run!Resolved \ made : Run!Current(s)
  BY <1>1, <1>6, <1>7
<1>10. exit' = "ok" /\ failOnDrift => \A s \in Run!Resolved : Run!Current(s)
  <2>. SUFFICES ASSUME exit' = "ok", failOnDrift, NEW s \in Run!Resolved PROVE Run!Current(s)
    OBVIOUS
  <2>1. Upgrades = {} /\ s \in Sites
    BY <1>1, <1>6
  <2>. QED BY <1>7, <2>1 DEF Upgrades
<1>11. \A s \in Run!Resolved : s \in Sites /\ Sound(s)
  BY <1>6
<1>. HIDE DEF Run!Resolved
<1>. QED BY <1>1, <1>2, <1>4, <1>8, <1>9, <1>10, <1>11 DEF Run!Succeed, run

\* So every step is one of PinRun's, or one it does not see.
LEMMA NextRuns ==
    ASSUME IInv, IInv', PartInv, [Next]_vars
    PROVE  Run!Next \/ UNCHANGED Run!vars
<1>0. pc # "idle" => exit = "none"
  BY DEF IInv, LoopInv
<1>q. [tools |-> only', offer |-> [s \in Sites |-> Latest(s)'],
       apply |-> apply', gate |-> failOnDrift'] \in Run!Questions
  BY NextQuestionTyped DEF IInv
<1>1. CASE UNCHANGED vars \/ Resting
  <2>1. UNCHANGED run
    BY <1>1 DEF vars, run, Resting
  <2>2. [s \in Sites |-> Latest(s)]' = [s \in Sites |-> Latest(s)]
    BY <2>1, RunStays
  <2>. QED BY <1>1, <2>2 DEF vars, Resting, Run!vars
<1>2. CASE Begin
  <2>1. Run!Begin
    BY <1>2, <1>q DEF Begin, Run!Begin
  <2>. QED BY <2>1 DEF Run!Next
<1>3. CASE Reject
  <2>1. Run!Refuse
    BY <1>3, <1>q DEF Reject, Run!Refuse
  <2>. QED BY <2>1 DEF Run!Next
<1>4. CASE Crash
  <2>1. \A p \in Places : disk'[p] # disk[p] => apply /\ disk'[p] = Lost
    BY <1>4, TearIsOwn DEF Crash, Patching
  <2>2. Run!Break
    BY <1>0, <1>4, <2>1, FailBreaks DEF Crash
  <2>. QED BY <2>2 DEF Run!Next
<1>5. CASE AfterPatchFails \/ EmitFails \/ (Emit /\ exit' = "failed")
  <2>1. Run!Break
    BY <1>5, FailBreaks DEF AfterPatchFails, EmitFails, Emit, End
  <2>. QED BY <2>1 DEF Run!Next
<1>6. CASE Emit /\ exit' # "failed"
  BY <1>6, EmitSucceeds DEF Run!Next
<1>7. ASSUME pc # "idle", pc' # "idle", UNCHANGED run PROVE UNCHANGED Run!vars
  <2>1. exit' = "none" /\ exit = "none"
    BY <1>0, <1>7 DEF IInv, LoopInv
  <2>2. [s \in Sites |-> Latest(s)]' = [s \in Sites |-> Latest(s)]
    BY <1>7, RunStays
  <2>. QED BY <1>7, <2>1, <2>2 DEF Run!vars, run
<1>8. CASE EndOfSites \/ AfterPatchRuns
  BY <1>7, <1>8 DEF EndOfSites, AfterPatchRuns
<1>9. ASSUME NEW s \in Sites, Report(s) \/ PatchFile(s) \/ PatchFails(s) \/ Patched(s)
      PROVE  UNCHANGED Run!vars
  BY <1>7, <1>9 DEF Report, PatchFile, PatchFails, Patched, Patching, At
<1>. QED BY <1>1, <1>2, <1>3, <1>4, <1>5, <1>6, <1>8, <1>9 DEF Next, Step

\* For any tools, sites and files, whatever upstream answers, however a run
\* fails or is killed, and whatever a torn write takes: between runs, the tree
\* has changed only by the run's own versions, as it says it did, and a pin is
\* lost only in a run that does not end well.
THEOREM RunImplemented == Spec => ImplementsRun
<1>1. Init => Run!Init
  <2>. SUFFICES ASSUME Init PROVE Run!Init
    OBVIOUS
  <2>1. TypeOK
    BY InitIInv DEF IInv
  <2>. QED BY <2>1, QuestionTyped DEF Init, Run!Init
<1>2. Init => PartInv
  BY DEF Init, PartInv
<1>3. IInv /\ IInv' /\ PartInv /\ [Next]_vars => [Run!Next]_(Run!vars)
  BY NextRuns
<1>. QED BY <1>1, <1>2, <1>3, Invariance, PartStep, PTL DEF Spec, ImplementsRun, Run!Spec
=============================================================================
