--------------------------- MODULE DockerfileRun ---------------------------
(***************************************************************************)
(* doneram check and update over Dockerfiles: internal/cli/check.go,       *)
(* update.go and processor.go, with internal/updater and internal/builder. *)
(*                                                                         *)
(* One goroutine per file, behind a semaphore; the goroutines share the    *)
(* docker daemon, where an image is named by its content and a container   *)
(* by the second it was created in.                                        *)
(*                                                                         *)
(* A goroutine is at                                                       *)
(*   "spawned"  before it holds a slot                                     *)
(*   "read"     about to read and resolve its file                         *)
(*   "apply"    about to apply and write its updates                       *)
(*   "build", "create", "start", "inspect", "remove", "cleanup"            *)
(*              about to run that docker command                           *)
(*   "leaving"  its result written, the slot not yet given back            *)
(*   "gone"                                                                *)
(***************************************************************************)
EXTENDS Integers, FiniteSets

CONSTANTS
    Files,           \* the paths expandFiles leaves, each a file of its own
    Pins,            \* the instructions under a directive that pin an image
    FileOf,
    Versions,
    Pinned,          \* the version each pin has before the run
    Lost,
    Images,
    ImageOf,         \* what the build of each updated file gives: its content's digest
    HasHealthcheck,
    Retries,         \* of a file's HEALTHCHECK, as parseHealthcheck reads it
    MaxWorkers,
    LastSecond,      \* bound on the clock that names containers
    None

ASSUME DockerfileAssumption ==
    /\ IsFiniteSet(Files)
    /\ FileOf \in [Pins -> Files]
    /\ Pinned \in [Pins -> Versions]
    /\ Lost \notin Versions
    /\ ImageOf \in [Files -> Images]
    /\ HasHealthcheck \in [Files -> BOOLEAN]
    /\ Retries \in [Files -> Int]
    /\ MaxWorkers \in Nat
    /\ LastSecond \in Nat
    /\ None \notin Versions \cup Files \cup (0..LastSecond)

VARIABLES
    flags,
    disk,
    target,      \* the version each pin is to be updated to, or None
    pc,
    slots,
    images,      \* the images this run has left in the daemon so far
    owner,       \* the file whose goroutine created the container of each name
    name,        \* the container name each goroutine uses
    tries,
    second,
    result,
    exit,
    built,       \* auxiliary: the files whose build succeeded,
    healthy,     \* those whose container was seen healthy,
    stuck        \* and what docker failed to remove

vars == <<flags, disk, target, pc, slots, images, owner, name, tries, second,
          result, exit, built, healthy, stuck>>

daemon == <<images, owner, name, tries, second>>

witness == <<built, healthy, stuck>>

Flags == [updating : BOOLEAN, skipBuild : BOOLEAN, skipHealthcheck : BOOLEAN]

Places == {"spawned", "read", "apply", "build", "create", "start", "inspect",
           "remove", "cleanup", "leaving", "gone"}

Results == {"pending", "reported", "noUpdates", "updated", "buildFailed", "failed"}

Seconds == 0..LastSecond

PinsOf(f) == {p \in Pins : FileOf[p] = f}

MaxTries(f) == IF Retries[f] = 0 THEN 3 ELSE Retries[f]

Holders == {f \in Files : pc[f] \notin {"spawned", "gone"}}

TypeOK ==
    /\ flags \in Flags
    /\ disk \in [Pins -> Versions \cup {Lost}]
    /\ target \in [Pins -> Versions \cup {None}]
    /\ pc \in [Files -> Places]
    /\ slots \in Int
    /\ images \subseteq Images
    /\ owner \in [Seconds -> Files \cup {None}]
    /\ name \in [Files -> Seconds \cup {None}]
    /\ tries \in [Files -> Nat]
    /\ \A f \in Files : tries[f] > 0 => tries[f] <= MaxTries(f)
    /\ second \in Seconds
    /\ result \in [Files -> Results]
    /\ exit \in {"none", "ok", "failed"}
    /\ built \subseteq Files
    /\ healthy \subseteq Files
    /\ stuck \subseteq Files \X {"image", "container"}

Init ==
    /\ flags \in Flags
    /\ disk = Pinned
    /\ target = [p \in Pins |-> None]
    /\ pc = [f \in Files |-> "spawned"]
    /\ slots = 0
    /\ images = {}
    /\ owner = [n \in Seconds |-> None]
    /\ name = [f \in Files |-> None]
    /\ tries = [f \in Files |-> 0]
    /\ second = 0
    /\ result = [f \in Files |-> "pending"]
    /\ exit = "none"
    /\ built = {}
    /\ healthy = {}
    /\ stuck = {}

Move(f, p) == pc' = [pc EXCEPT ![f] = p]

\* The result is decided, and what is left to do cannot change it.
Decide(f, r) == result' = [result EXCEPT ![f] = r]

Finish(f, r) == Move(f, "leaving") /\ Decide(f, r)

----------------------------------------------------------------------------
(* processFilesParallel                                                     *)

\* Mutant: a buffer one too large.
AcquireOverfull(f) ==
    /\ pc[f] = "spawned"
    /\ slots <= MaxWorkers
    /\ slots' = slots + 1
    /\ Move(f, "read")
    /\ UNCHANGED <<flags, disk, target, result, exit, daemon, witness>>

\* sem <- struct{}{}
Acquire(f) ==
    /\ pc[f] = "spawned"
    /\ slots < MaxWorkers
    /\ slots' = slots + 1
    /\ Move(f, "read")
    /\ UNCHANGED <<flags, disk, target, result, exit, daemon, witness>>

\* Mutant: the release is not deferred, and an early return skips it.
ReleaseUnlessFailed(f) ==
    /\ pc[f] = "leaving"
    /\ slots' = IF result[f] = "failed" THEN slots ELSE slots - 1
    /\ Move(f, "gone")
    /\ UNCHANGED <<flags, disk, target, result, exit, daemon, witness>>

\* The deferred <-sem, then wg.Done.
Release(f) ==
    /\ pc[f] = "leaving"
    /\ slots' = slots - 1
    /\ Move(f, "gone")
    /\ UNCHANGED <<flags, disk, target, result, exit, daemon, witness>>

----------------------------------------------------------------------------
(* processCheckFile, and processUpdateFile up to its write.                 *)

ReadFails(f) ==
    /\ pc[f] = "read"
    /\ Finish(f, "failed")
    /\ UNCHANGED <<flags, disk, target, slots, exit, daemon, witness>>

\* Each instruction under a directive resolves to its own version, to another
\* one, or to nothing: a failed resolution is logged and passed over.
Resolve(f) ==
    /\ pc[f] = "read"
    /\ \E new \in [PinsOf(f) -> Versions \cup {None}] :
         target' = [p \in Pins |-> IF p \in PinsOf(f) /\ new[p] # disk[p]
                                   THEN new[p] ELSE target[p]]
    /\ IF ~flags.updating THEN Finish(f, "reported")
       ELSE IF \E p \in PinsOf(f) : target'[p] # None
       THEN Move(f, "apply") /\ UNCHANGED result
       ELSE Finish(f, "noUpdates")
    /\ UNCHANGED <<flags, disk, slots, exit, daemon, witness>>

\* An old version is not found in its line: nothing has been written yet.
ApplyFails(f) ==
    /\ pc[f] = "apply"
    /\ Finish(f, "failed")
    /\ UNCHANGED <<flags, disk, target, slots, exit, daemon, witness>>

\* os.WriteFile truncates the file first.
WriteFails(f) ==
    /\ pc[f] = "apply"
    /\ disk' \in {disk, [p \in Pins |-> IF p \in PinsOf(f) THEN Lost ELSE disk[p]]}
    /\ Finish(f, "failed")
    /\ UNCHANGED <<flags, target, slots, exit, daemon, witness>>

Write(f) ==
    /\ pc[f] = "apply"
    /\ disk' = [p \in Pins |-> IF p \in PinsOf(f) /\ target[p] # None
                               THEN target[p] ELSE disk[p]]
    /\ IF flags.skipBuild THEN Finish(f, "updated")
       ELSE Move(f, "build") /\ UNCHANGED result
    /\ UNCHANGED <<flags, target, slots, exit, daemon, witness>>

----------------------------------------------------------------------------
(* Build, Validate and Cleanup, in the daemon all goroutines share.         *)

BuildFails(f) ==
    /\ pc[f] = "build"
    /\ Finish(f, "buildFailed")
    /\ UNCHANGED <<flags, disk, target, slots, exit, daemon, witness>>

Validates(f) == ~flags.skipHealthcheck /\ HasHealthcheck[f]

Build(f) ==
    /\ pc[f] = "build"
    /\ images' = images \cup {ImageOf[f]}
    /\ built' = built \cup {f}
    /\ IF Validates(f) THEN Move(f, "create") /\ UNCHANGED result
       ELSE Move(f, "cleanup") /\ Decide(f, "updated")
    /\ UNCHANGED <<flags, disk, target, slots, owner, name, tries, second, exit,
                   healthy, stuck>>

\* Mutant: the removal is deferred before the container is there.
CreateFailsDeferred(f) ==
    /\ pc[f] = "create"
    /\ name' = [name EXCEPT ![f] = second]
    /\ Move(f, "remove")
    /\ Decide(f, "buildFailed")
    /\ UNCHANGED <<flags, disk, target, slots, images, owner, tries, second, exit, witness>>

\* Mutant: the image of a container that could not be created is kept.
CreateFailsDirty(f) ==
    /\ pc[f] = "create"
    /\ Finish(f, "buildFailed")
    /\ UNCHANGED <<flags, disk, target, slots, exit, daemon, witness>>

\* A container of that name exists, the image is gone, or the daemon refuses.
CreateFails(f) ==
    /\ pc[f] = "create"
    /\ Move(f, "cleanup")
    /\ Decide(f, "buildFailed")
    /\ UNCHANGED <<flags, disk, target, slots, exit, daemon, witness>>

Create(f) ==
    /\ pc[f] = "create"
    /\ owner[second] = None
    /\ ImageOf[f] \in images
    /\ owner' = [owner EXCEPT ![second] = f]
    /\ name' = [name EXCEPT ![f] = second]
    /\ Move(f, "start")
    /\ UNCHANGED <<flags, disk, target, slots, images, tries, second, result, exit, witness>>

StartFails(f) ==
    /\ pc[f] = "start"
    /\ Move(f, "remove")
    /\ Decide(f, "buildFailed")
    /\ UNCHANGED <<flags, disk, target, slots, exit, daemon, witness>>

Start(f) ==
    /\ pc[f] = "start"
    /\ Move(f, "inspect")
    /\ UNCHANGED <<flags, disk, target, slots, result, exit, daemon, witness>>

SeeHealthy(f) ==
    /\ pc[f] = "inspect"
    /\ tries[f] < MaxTries(f)
    /\ healthy' = healthy \cup {f}
    /\ Move(f, "remove")
    /\ Decide(f, "updated")
    /\ UNCHANGED <<flags, disk, target, slots, exit, daemon, built, stuck>>

\* Mutant: one try too many.
SeeNothingOnceMore(f) ==
    /\ pc[f] = "inspect"
    /\ tries[f] <= MaxTries(f)
    /\ tries' = [tries EXCEPT ![f] = @ + 1]
    /\ UNCHANGED <<flags, disk, target, pc, slots, images, owner, name, second,
                   result, exit, witness>>

\* Still starting, or docker inspect fails: the loop goes round.
SeeNothing(f) ==
    /\ pc[f] = "inspect"
    /\ tries[f] < MaxTries(f)
    /\ tries' = [tries EXCEPT ![f] = @ + 1]
    /\ UNCHANGED <<flags, disk, target, pc, slots, images, owner, name, second,
                   result, exit, witness>>

\* Mutant: a container still starting after the last try passes.
CondemnUnhealthy(f) ==
    /\ pc[f] = "inspect"
    /\ Move(f, "remove")
    /\ Decide(f, IF tries[f] < MaxTries(f) THEN "buildFailed" ELSE "updated")
    /\ UNCHANGED <<flags, disk, target, slots, exit, daemon, witness>>

\* Unhealthy, or none of the tries left.
Condemn(f) ==
    /\ pc[f] = "inspect"
    /\ Move(f, "remove")
    /\ Decide(f, "buildFailed")
    /\ UNCHANGED <<flags, disk, target, slots, exit, daemon, witness>>

\* The deferred docker rm -f, of whatever container has the name.
Remove(f) ==
    /\ pc[f] = "remove"
    /\ owner' = [owner EXCEPT ![name[f]] = None]
    /\ Move(f, "cleanup")
    /\ UNCHANGED <<flags, disk, target, slots, images, name, tries, second, result,
                   exit, witness>>

RemoveFails(f) ==
    /\ pc[f] = "remove"
    /\ stuck' = stuck \cup {<<f, "container">>}
    /\ Move(f, "cleanup")
    /\ UNCHANGED <<flags, disk, target, slots, result, exit, daemon, built, healthy>>

\* docker rmi -f; its failure is at most a warning.
Cleanup(f) ==
    /\ pc[f] = "cleanup"
    /\ images' = images \ {ImageOf[f]}
    /\ Move(f, "leaving")
    /\ UNCHANGED <<flags, disk, target, slots, owner, name, tries, second, result,
                   exit, witness>>

CleanupFails(f) ==
    /\ pc[f] = "cleanup"
    /\ stuck' = stuck \cup {<<f, "image">>}
    /\ Move(f, "leaving")
    /\ UNCHANGED <<flags, disk, target, slots, result, exit, daemon, built, healthy>>

Tick ==
    /\ second < LastSecond
    /\ second' = second + 1
    /\ UNCHANGED <<flags, disk, target, pc, slots, images, owner, name, tries,
                   result, exit, witness>>

----------------------------------------------------------------------------
(* runCheck and runUpdate, after wg.Wait.                                   *)

Failed == {f \in Files : result[f] \in {"failed", "buildFailed"}}

Return ==
    /\ exit = "none"
    /\ \A f \in Files : pc[f] = "gone"
    /\ exit' = IF Failed = {} THEN "ok" ELSE "failed"
    /\ UNCHANGED <<flags, disk, target, pc, slots, result, daemon, witness>>

Done == exit # "none" /\ UNCHANGED vars

Step(f) ==
    \/ Acquire(f) \/ Release(f)
    \/ ReadFails(f) \/ Resolve(f)
    \/ ApplyFails(f) \/ WriteFails(f) \/ Write(f)
    \/ BuildFails(f) \/ Build(f)
    \/ CreateFails(f) \/ Create(f)
    \/ StartFails(f) \/ Start(f)
    \/ SeeHealthy(f) \/ SeeNothing(f) \/ Condemn(f)
    \/ Remove(f) \/ RemoveFails(f)
    \/ Cleanup(f) \/ CleanupFails(f)

Next == (\E f \in Files : Step(f)) \/ Tick \/ Return \/ Done

Spec == Init /\ [][Next]_vars /\ (\A f \in Files : WF_vars(Step(f))) /\ WF_vars(Return)

----------------------------------------------------------------------------
(* Properties                                                               *)

\* A token for every goroutine between its two channel operations, on every
\* one of processUpdateFile's many returns, and never more than MaxWorkers.
SlotBound ==
    /\ slots = Cardinality(Holders)
    /\ slots <= MaxWorkers

\* Containers are addressed by a name two goroutines may choose alike: whoever
\* starts, inspects or removes one has created it itself.
ContainerIsOwn ==
    \A f \in Files : pc[f] \in {"start", "inspect", "remove"} => owner[name[f]] = f

\* Every image and container the run has left in the daemon is one that a
\* goroutine has still to remove, or that docker refused to remove: no failed
\* build, creation, start or health check leaks one.
NothingLeftBehind ==
    /\ \A i \in images :
         \E f \in Files : /\ ImageOf[f] = i
                          /\ \/ pc[f] \in {"create", "start", "inspect", "remove", "cleanup"}
                             \/ <<f, "image">> \in stuck
    /\ \A n \in Seconds : owner[n] # None =>
         \E f \in Files : /\ name[f] = n
                          /\ \/ pc[f] \in {"start", "inspect", "remove"}
                             \/ <<f, "container">> \in stuck

Validated(f) == f \in built /\ (Validates(f) => f \in healthy)

\* A clean exit of an update that builds means every file changed on disk was
\* built and, where it asks for that, seen healthy; a failed exit, that some
\* file was not updated or not validated.
ExitTellsTruth ==
    /\ exit = "ok" /\ ~flags.skipBuild =>
         \A p \in Pins : disk[p] # Pinned[p] => Validated(FileOf[p])
    /\ exit = "failed" =>
         \E f \in Files : /\ result[f] \notin {"reported", "noUpdates"}
                          /\ \/ \A p \in PinsOf(f) : disk[p] \in {Pinned[p], Lost}
                             \/ ~Validated(f)

\* With at least one worker every run ends; with none nobody can ever send on
\* the semaphore's channel.
EventuallyReturns == MaxWorkers > 0 => <>(exit # "none")

\* README.md:282: "An update can declare a command that must pass before it is
\* kept. For a Docker pin that is a build plus the image's HEALTHCHECK". When
\* the run is over, every new version on disk has passed both.
KeptOnlyIfValidated ==
    exit # "none" /\ ~flags.skipBuild =>
      \A p \in Pins : disk[p] \in Versions \ {Pinned[p]} => Validated(FileOf[p])
=============================================================================
