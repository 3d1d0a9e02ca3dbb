------------------------ MODULE DockerfileRunProofs ------------------------
(***************************************************************************)
(* What holds of a run over any number of Dockerfiles and workers, with    *)
(* any flags, health checks and shared images, whatever docker does.       *)
(***************************************************************************)
EXTENDS DockerfileRun, FiniteSetTheorems, TLAPS

(* The inductive invariant.                                                 *)

Early == {"spawned", "read", "apply"}

Late == {"remove", "cleanup", "leaving", "gone"}

\* A file is written once, after everything that can leave it as it was; a
\* write that broke off fails the file.
FileInv ==
    \A f \in Files :
      /\ pc[f] \in Early \/ result[f] \in {"reported", "noUpdates"} =>
           \A p \in PinsOf(f) : disk[p] = Pinned[p]
      /\ result[f] = "failed" => \A p \in PinsOf(f) : disk[p] \in {Pinned[p], Lost}

\* The result is decided from the container's removal on, and is "updated"
\* only of a validated file, "buildFailed" only of one that is not.
ResultInv ==
    \A f \in Files :
      /\ result[f] = "pending" <=> pc[f] \notin Late
      /\ pc[f] \in Early \cup {"build"} => f \notin built
      /\ pc[f] \in {"create", "start", "inspect"} => f \in built /\ Validates(f)
      /\ pc[f] \in Early \cup {"build", "create", "start", "inspect"} => f \notin healthy
      /\ result[f] = "updated" /\ ~flags.skipBuild => Validated(f)
      /\ result[f] = "buildFailed" => ~Validated(f)

\* Docker's refusals are noted by the step they happen in.
StuckInv ==
    \A f \in Files :
      /\ <<f, "container">> \in stuck => pc[f] \in {"cleanup", "leaving", "gone"}
      /\ pc[f] \in {"start", "inspect", "remove"} => name[f] \in Seconds

ExitInv ==
    /\ exit # "none" => \A f \in Files : pc[f] = "gone"
    /\ exit = "ok" => Failed = {}
    /\ exit = "failed" => Failed # {}

IInv == /\ TypeOK /\ SlotBound /\ ContainerIsOwn /\ NothingLeftBehind
        /\ FileInv /\ ResultInv /\ StuckInv /\ ExitInv

----------------------------------------------------------------------------
(* Slots.                                                                   *)

\* The goroutines that hold a slot can be counted.
LEMMA HoldersFinite == IsFiniteSet(Holders) /\ Cardinality(Holders) \in Nat
BY FS_Subset, FS_CardinalityType, DockerfileAssumption DEF Holders

\* A goroutine that moves on without touching the semaphore leaves the bound
\* alone.
LEMMA SlotsStay ==
    ASSUME TypeOK, SlotBound, NEW f \in Files, NEW p \in Places \ {"spawned", "gone"},
           pc[f] \notin {"spawned", "gone"},
           pc' = [pc EXCEPT ![f] = p], slots' = slots
    PROVE  SlotBound'
<1>1. Holders' = Holders
  BY DEF Holders, TypeOK
<1>. QED BY <1>1 DEF SlotBound

\* Taking a slot counts one more holder.
LEMMA SlotTaken ==
    ASSUME TypeOK, SlotBound, NEW f \in Files, Acquire(f)
    PROVE  SlotBound'
<1>1. Holders' = Holders \cup {f} /\ f \notin Holders
  BY DEF Holders, TypeOK, Acquire, Move
<1>2. Cardinality(Holders') = Cardinality(Holders) + 1
  BY <1>1, HoldersFinite, FS_AddElement
<1>. QED BY <1>2, HoldersFinite, DockerfileAssumption DEF SlotBound, Acquire

\* Giving it back counts one fewer.
LEMMA SlotReleased ==
    ASSUME TypeOK, SlotBound, NEW f \in Files, Release(f)
    PROVE  SlotBound'
<1>1. Holders' = Holders \ {f} /\ f \in Holders
  BY DEF Holders, TypeOK, Release, Move
<1>2. Cardinality(Holders') = Cardinality(Holders) - 1
  BY <1>1, HoldersFinite, FS_RemoveElement
<1>. QED BY <1>2, HoldersFinite, DockerfileAssumption DEF SlotBound, Release

----------------------------------------------------------------------------
(* Images and containers.                                                   *)

\* A goroutine that moves on from where it has neither leaves none behind.
LEMMA LeftBehindStays ==
    ASSUME TypeOK, NothingLeftBehind, NEW f \in Files, NEW p \in Places,
           pc' = [pc EXCEPT ![f] = p], UNCHANGED <<images, owner, name, stuck>>,
           pc[f] \notin {"create", "start", "inspect", "remove", "cleanup"}
    PROVE  NothingLeftBehind'
<1>1. \A g \in Files : pc[g] \in {"create", "start", "inspect", "remove", "cleanup"}
                         => pc'[g] = pc[g]
  BY DEF TypeOK
<1>2. \A i \in images' :
        \E g \in Files :
          /\ ImageOf[g] = i
          /\ \/ pc'[g] \in {"create", "start", "inspect", "remove", "cleanup"}
             \/ <<g, "image">> \in stuck'
  BY <1>1 DEF NothingLeftBehind
<1>3. \A n \in Seconds : owner'[n] # None =>
        \E g \in Files :
          /\ name'[g] = n
          /\ pc'[g] \in {"start", "inspect", "remove"} \/ <<g, "container">> \in stuck'
  BY <1>1 DEF NothingLeftBehind
<1>. QED BY <1>2, <1>3 DEF NothingLeftBehind

\* While it stays where it has to remove its image, it leaves no image behind.
LEMMA ImagesStay ==
    ASSUME TypeOK, NothingLeftBehind, NEW f \in Files, UNCHANGED <<images, stuck>>,
           NEW p \in {"create", "start", "inspect", "remove", "cleanup"},
           pc' = [pc EXCEPT ![f] = p]
    PROVE  \A i \in images' :
             \E g \in Files :
               /\ ImageOf[g] = i
               /\ \/ pc'[g] \in {"create", "start", "inspect", "remove", "cleanup"}
                  \/ <<g, "image">> \in stuck'
<1>1. \A g \in Files : pc[g] \in {"create", "start", "inspect", "remove", "cleanup"}
        => pc'[g] \in {"create", "start", "inspect", "remove", "cleanup"}
  BY DEF TypeOK
<1>. QED BY <1>1 DEF NothingLeftBehind

----------------------------------------------------------------------------
(* The invariant holds at first.                                            *)

\* Every goroutine is spawned, every file as it was.
LEMMA InitIInv == Init => IInv
<1> SUFFICES ASSUME Init PROVE IInv
  OBVIOUS
<1> USE DEF Init
<1>1. TypeOK
  <2>1. 0 \in Seconds
    BY DockerfileAssumption DEF Seconds
  <2>. QED BY <2>1, DockerfileAssumption DEF TypeOK, Places, Results
<1>2. SlotBound
  <2>1. Holders = {}
    BY DEF Holders
  <2>. QED BY <2>1, FS_EmptySet, DockerfileAssumption DEF SlotBound
<1>3. ContainerIsOwn /\ NothingLeftBehind
  BY DEF ContainerIsOwn, NothingLeftBehind
<1>4. FileInv /\ StuckInv /\ ExitInv
  BY DEF FileInv, StuckInv, ExitInv, PinsOf
<1>5. ResultInv
  BY DEF ResultInv, Early, Late
<1>. QED BY <1>1, <1>2, <1>3, <1>4, <1>5 DEF IInv

----------------------------------------------------------------------------
(* Every step keeps it.                                                     *)

\* While a goroutine is not gone the run is not over.
LEMMA NotOver ==
    ASSUME IInv, NEW f \in Files, pc[f] # "gone", exit' = exit
    PROVE  ExitInv'
BY DEF IInv, ExitInv

\* A goroutine takes its slot.
LEMMA AcquireKeeps ==
    ASSUME IInv, NEW f \in Files, Acquire(f)
    PROVE  IInv'
<1>1. TypeOK'
  BY DEF IInv, TypeOK, Places, Acquire, Move, daemon, witness
<1>2. SlotBound'
  BY SlotTaken DEF IInv
<1>3. ContainerIsOwn'
  BY DEF IInv, ContainerIsOwn, Acquire, Move, daemon
<1>4. NothingLeftBehind'
  BY DEF IInv, NothingLeftBehind, TypeOK, Acquire, Move, daemon, witness
<1>5. FileInv'
  BY DEF IInv, FileInv, Early, Acquire, Move
<1>6. ResultInv'
  BY DEF IInv, ResultInv, Early, Late, Validated, Validates, Acquire, Move, witness
<1>7. StuckInv'
  BY DEF IInv, StuckInv, TypeOK, Acquire, Move, daemon, witness
<1>8. ExitInv'
  BY NotOver DEF Acquire
<1>. QED BY <1>1, <1>2, <1>3, <1>4, <1>5, <1>6, <1>7, <1>8 DEF IInv

\* A goroutine gives its slot back and is gone.
LEMMA ReleaseKeeps ==
    ASSUME IInv, NEW f \in Files, Release(f)
    PROVE  IInv'
<1>1. TypeOK'
  BY DEF IInv, TypeOK, Places, Release, Move, daemon, witness
<1>2. SlotBound'
  BY SlotReleased DEF IInv
<1>3. ContainerIsOwn'
  BY DEF IInv, ContainerIsOwn, Release, Move, daemon
<1>4. NothingLeftBehind'
  BY DEF IInv, NothingLeftBehind, TypeOK, Release, Move, daemon, witness
<1>5. FileInv'
  BY DEF IInv, FileInv, Early, Release, Move
<1>6. ResultInv'
  BY DEF IInv, ResultInv, Early, Late, Validated, Validates, Release, Move, witness
<1>7. StuckInv'
  BY DEF IInv, StuckInv, TypeOK, Release, Move, daemon, witness
<1>8. ExitInv'
  BY NotOver DEF Release
<1>. QED BY <1>1, <1>2, <1>3, <1>4, <1>5, <1>6, <1>7, <1>8 DEF IInv

\* A file that cannot be read is left as it was.
LEMMA ReadFailsKeeps ==
    ASSUME IInv, NEW f \in Files, ReadFails(f)
    PROVE  IInv'
<1>1. TypeOK'
  BY DEF IInv, TypeOK, Places, Results, ReadFails, Move, Finish, Decide, daemon, witness
<1>2. SlotBound'
  BY SlotsStay DEF IInv, Places, ReadFails, Move, Finish
<1>3. ContainerIsOwn'
  BY DEF IInv, ContainerIsOwn, ReadFails, Move, Finish, daemon
<1>4. NothingLeftBehind'
  BY DEF IInv, NothingLeftBehind, TypeOK, ReadFails, Move, Finish, daemon, witness
<1>5. FileInv'
  BY DEF IInv, FileInv, Early, ReadFails, Move, Finish, Decide
<1>6. ResultInv'
  BY DEF IInv, ResultInv, TypeOK, Early, Late, Validated, Validates, ReadFails, Move,
     Finish, Decide, witness
<1>7. StuckInv'
  BY DEF IInv, StuckInv, TypeOK, ReadFails, Move, Finish, daemon, witness
<1>8. ExitInv'
  BY NotOver DEF ReadFails
<1>. QED BY <1>1, <1>2, <1>3, <1>4, <1>5, <1>6, <1>7, <1>8 DEF IInv

\* Resolving a file writes nothing.
LEMMA ResolveKeeps ==
    ASSUME IInv, NEW f \in Files, Resolve(f)
    PROVE  IInv'
<1>0. /\ pc[f] = "read"
      /\ \/ /\ pc' = [pc EXCEPT ![f] = "leaving"]
            /\ \E r \in {"reported", "noUpdates"} : result' = [result EXCEPT ![f] = r]
         \/ pc' = [pc EXCEPT ![f] = "apply"] /\ result' = result
      /\ UNCHANGED <<flags, disk, slots, exit, images, owner, name, tries, second,
                     built, healthy, stuck>>
  BY DEF Resolve, Move, Decide, Finish, daemon, witness
<1>1. TypeOK'
  <2>1. target' \in [Pins -> Versions \cup {None}]
    BY DEF Resolve, IInv, TypeOK
  <2>. QED BY <1>0, <2>1 DEF IInv, TypeOK, Places, Results
<1>2. SlotBound'
  BY <1>0, SlotsStay DEF IInv, Places
<1>3. ContainerIsOwn'
  BY <1>0 DEF IInv, ContainerIsOwn, TypeOK
<1>4. NothingLeftBehind'
  BY <1>0, LeftBehindStays DEF IInv, Places
<1>5. FileInv'
  BY <1>0 DEF IInv, FileInv, TypeOK, Early
<1>6. ResultInv'
  BY <1>0 DEF IInv, ResultInv, TypeOK, Early, Late, Validated, Validates
<1>7. StuckInv'
  BY <1>0 DEF IInv, StuckInv, TypeOK
<1>8. ExitInv'
  BY <1>0, NotOver
<1>. QED BY <1>1, <1>2, <1>3, <1>4, <1>5, <1>6, <1>7, <1>8 DEF IInv

\* A file whose updates do not apply is left as it was.
LEMMA ApplyFailsKeeps ==
    ASSUME IInv, NEW f \in Files, ApplyFails(f)
    PROVE  IInv'
<1>1. TypeOK'
  BY DEF IInv, TypeOK, Places, Results, ApplyFails, Move, Finish, Decide, daemon,
     witness
<1>2. SlotBound'
  BY SlotsStay DEF IInv, Places, ApplyFails, Move, Finish
<1>3. ContainerIsOwn'
  BY DEF IInv, ContainerIsOwn, ApplyFails, Move, Finish, daemon
<1>4. NothingLeftBehind'
  BY DEF IInv, NothingLeftBehind, TypeOK, ApplyFails, Move, Finish, daemon, witness
<1>5. FileInv'
  BY DEF IInv, FileInv, Early, ApplyFails, Move, Finish, Decide
<1>6. ResultInv'
  BY DEF IInv, ResultInv, TypeOK, Early, Late, Validated, Validates, ApplyFails,
     Move, Finish, Decide, witness
<1>7. StuckInv'
  BY DEF IInv, StuckInv, TypeOK, ApplyFails, Move, Finish, daemon, witness
<1>8. ExitInv'
  BY NotOver DEF ApplyFails
<1>. QED BY <1>1, <1>2, <1>3, <1>4, <1>5, <1>6, <1>7, <1>8 DEF IInv

\* A write that breaks off fails its file.
LEMMA WriteFailsKeeps ==
    ASSUME IInv, NEW f \in Files, WriteFails(f)
    PROVE  IInv'
<1>1. TypeOK'
  BY DEF IInv, TypeOK, Places, Results, WriteFails, Move, Finish, Decide, daemon,
     witness
<1>2. SlotBound'
  BY SlotsStay DEF IInv, Places, WriteFails, Move, Finish
<1>3. ContainerIsOwn'
  BY DEF IInv, ContainerIsOwn, WriteFails, Move, Finish, daemon
<1>4. NothingLeftBehind'
  BY DEF IInv, NothingLeftBehind, TypeOK, WriteFails, Move, Finish, daemon, witness
<1>5. FileInv'
  BY DEF IInv, FileInv, TypeOK, Early, PinsOf, WriteFails, Move, Finish, Decide
<1>6. ResultInv'
  BY DEF IInv, ResultInv, TypeOK, Early, Late, Validated, Validates, WriteFails,
     Move, Finish, Decide, witness
<1>7. StuckInv'
  BY DEF IInv, StuckInv, TypeOK, WriteFails, Move, Finish, daemon, witness
<1>8. ExitInv'
  BY NotOver DEF WriteFails
<1>. QED BY <1>1, <1>2, <1>3, <1>4, <1>5, <1>6, <1>7, <1>8 DEF IInv

\* A file is written before it is built.
LEMMA WriteKeeps ==
    ASSUME IInv, NEW f \in Files, Write(f)
    PROVE  IInv'
<1>0. /\ pc[f] = "apply"
      /\ \A p \in Pins : disk'[p] = disk[p] \/ p \in PinsOf(f)
      /\ disk' \in [Pins -> Versions \cup {Lost}]
      /\ \/ /\ pc' = [pc EXCEPT ![f] = "leaving"]
            /\ result' = [result EXCEPT ![f] = "updated"] /\ flags.skipBuild
         \/ pc' = [pc EXCEPT ![f] = "build"] /\ result' = result
      /\ UNCHANGED <<flags, target, slots, exit, images, owner, name, tries, second,
                     built, healthy, stuck>>
  BY DEF Write, Move, Decide, Finish, daemon, witness, IInv, TypeOK
<1>1. TypeOK'
  BY <1>0 DEF IInv, TypeOK, Places, Results
<1>2. SlotBound'
  BY <1>0, SlotsStay DEF IInv, Places
<1>3. ContainerIsOwn'
  BY <1>0 DEF IInv, ContainerIsOwn, TypeOK
<1>4. NothingLeftBehind'
  BY <1>0, LeftBehindStays DEF IInv, Places
<1>5. FileInv'
  BY <1>0 DEF IInv, FileInv, TypeOK, Early, PinsOf, ResultInv, Late
<1>6. ResultInv'
  BY <1>0 DEF IInv, ResultInv, TypeOK, Early, Late, Validated, Validates
<1>7. StuckInv'
  BY <1>0 DEF IInv, StuckInv, TypeOK
<1>8. ExitInv'
  BY <1>0, NotOver
<1>. QED BY <1>1, <1>2, <1>3, <1>4, <1>5, <1>6, <1>7, <1>8 DEF IInv

\* A failed build leaves no image.
LEMMA BuildFailsKeeps ==
    ASSUME IInv, NEW f \in Files, BuildFails(f)
    PROVE  IInv'
<1>1. TypeOK'
  BY DEF IInv, TypeOK, Places, Results, BuildFails, Move, Finish, Decide, daemon,
     witness
<1>2. SlotBound'
  BY SlotsStay DEF IInv, Places, BuildFails, Move, Finish
<1>3. ContainerIsOwn'
  BY DEF IInv, ContainerIsOwn, BuildFails, Move, Finish, daemon
<1>4. NothingLeftBehind'
  BY DEF IInv, NothingLeftBehind, TypeOK, BuildFails, Move, Finish, daemon, witness
<1>5. FileInv'
  BY DEF IInv, FileInv, Early, BuildFails, Move, Finish, Decide
<1>6. ResultInv'
  BY DEF IInv, ResultInv, TypeOK, Late, Validated, Validates, BuildFails, Move,
     Finish, Decide, witness
<1>7. StuckInv'
  BY DEF IInv, StuckInv, TypeOK, BuildFails, Move, Finish, daemon, witness
<1>8. ExitInv'
  BY NotOver DEF BuildFails
<1>. QED BY <1>1, <1>2, <1>3, <1>4, <1>5, <1>6, <1>7, <1>8 DEF IInv

\* A build leaves an image to remove, and decides the result when nothing is to
\* be validated.
LEMMA BuildKeeps ==
    ASSUME IInv, NEW f \in Files, Build(f)
    PROVE  IInv'
<1>0. /\ pc[f] = "build"
      /\ \/ pc' = [pc EXCEPT ![f] = "create"] /\ result' = result /\ Validates(f)
         \/ /\ pc' = [pc EXCEPT ![f] = "cleanup"] /\ ~Validates(f)
            /\ result' = [result EXCEPT ![f] = "updated"]
      /\ images' = images \cup {ImageOf[f]}
      /\ built' = built \cup {f}
      /\ UNCHANGED <<flags, disk, target, slots, exit, owner, name, tries, second,
                     healthy, stuck>>
  BY DEF Build, Move, Decide
<1>1. TypeOK'
  <2>1. images' \subseteq Images /\ built' \subseteq Files
    BY <1>0, DockerfileAssumption DEF IInv, TypeOK
  <2>. QED BY <1>0, <2>1 DEF IInv, TypeOK, Places, Results
<1>2. SlotBound'
  BY <1>0, SlotsStay DEF IInv, Places
<1>3. ContainerIsOwn'
  BY <1>0 DEF IInv, ContainerIsOwn, TypeOK
<1>4. NothingLeftBehind'
  <2>1. ASSUME NEW i \in images'
        PROVE  \E g \in Files :
                 /\ ImageOf[g] = i
                 /\ \/ pc'[g] \in {"create", "start", "inspect", "remove", "cleanup"}
                    \/ <<g, "image">> \in stuck'
    <3>0. pc \in [Files -> Places] /\ pc'[f] \in {"create", "cleanup"}
      BY <1>0 DEF IInv, TypeOK
    <3>1. CASE i = ImageOf[f]
      BY <3>0, <3>1
    <3>2. CASE i # ImageOf[f]
      <4>1. PICK g \in Files :
              /\ ImageOf[g] = i
              /\ \/ pc[g] \in {"create", "start", "inspect", "remove", "cleanup"}
                 \/ <<g, "image">> \in stuck
        BY <1>0, <2>1, <3>2 DEF IInv, NothingLeftBehind
      <4>2. g # f
        BY <3>2, <4>1
      <4>3. pc'[g] = pc[g] /\ stuck' = stuck
        BY <1>0, <3>0, <4>2
      <4>. QED BY <4>1, <4>3
    <3>. QED BY <3>1, <3>2
  <2>2. ASSUME NEW n \in Seconds, owner'[n] # None
        PROVE  \E g \in Files :
                 /\ name'[g] = n
                 /\ \/ pc'[g] \in {"start", "inspect", "remove"}
                    \/ <<g, "container">> \in stuck'
    <3>1. PICK g \in Files :
            /\ name[g] = n
            /\ \/ pc[g] \in {"start", "inspect", "remove"}
               \/ <<g, "container">> \in stuck
      BY <1>0, <2>2 DEF IInv, NothingLeftBehind
    <3>2. g # f
      BY <1>0, <3>1 DEF IInv, StuckInv
    <3>. QED BY <1>0, <3>1, <3>2 DEF IInv, TypeOK
  <2>. QED BY <2>1, <2>2 DEF NothingLeftBehind
<1>5. FileInv'
  BY <1>0 DEF IInv, FileInv, TypeOK, Early
<1>6. ResultInv'
  BY <1>0 DEF IInv, ResultInv, TypeOK, Early, Late, Validated, Validates
<1>7. StuckInv'
  BY <1>0 DEF IInv, StuckInv, TypeOK
<1>8. ExitInv'
  BY <1>0, NotOver
<1>. QED BY <1>1, <1>2, <1>3, <1>4, <1>5, <1>6, <1>7, <1>8 DEF IInv

\* A container that was not created need not be removed.
LEMMA CreateFailsKeeps ==
    ASSUME IInv, NEW f \in Files, CreateFails(f)
    PROVE  IInv'
<1>1. TypeOK'
  BY DEF IInv, TypeOK, Places, Results, CreateFails, Move, Decide, daemon, witness
<1>2. SlotBound'
  BY SlotsStay DEF IInv, Places, CreateFails, Move
<1>3. ContainerIsOwn'
  BY DEF IInv, ContainerIsOwn, CreateFails, Move, daemon
<1>4. NothingLeftBehind'
  BY DEF IInv, NothingLeftBehind, TypeOK, CreateFails, Move, daemon, witness
<1>5. FileInv'
  BY DEF IInv, FileInv, Early, CreateFails, Move, Decide
<1>6. ResultInv'
  BY DEF IInv, ResultInv, TypeOK, Early, Late, Validated, Validates, CreateFails,
     Move, Decide, witness
<1>7. StuckInv'
  BY DEF IInv, StuckInv, TypeOK, CreateFails, Move, daemon, witness
<1>8. ExitInv'
  BY NotOver DEF CreateFails
<1>. QED BY <1>1, <1>2, <1>3, <1>4, <1>5, <1>6, <1>7, <1>8 DEF IInv

\* A container is created under a name nobody uses.
LEMMA CreateKeeps ==
    ASSUME IInv, NEW f \in Files, Create(f)
    PROVE  IInv'
<1>1. TypeOK'
  BY DEF IInv, TypeOK, Places, Create, Move, witness
<1>2. SlotBound'
  BY SlotsStay DEF IInv, Places, Create, Move
<1>3. ContainerIsOwn'
  <2> SUFFICES ASSUME NEW g \in Files, pc'[g] \in {"start", "inspect", "remove"}
               PROVE  owner'[name'[g]] = g
    BY DEF ContainerIsOwn
  <2>0. /\ owner[second] = None /\ second \in Seconds
        /\ owner' = [owner EXCEPT ![second] = f] /\ owner \in [Seconds -> Files \cup {None}]
        /\ name' = [name EXCEPT ![f] = second] /\ name \in [Files -> Seconds \cup {None}]
        /\ pc' = [pc EXCEPT ![f] = "start"] /\ pc \in [Files -> Places]
    BY DEF Create, Move, IInv, TypeOK
  <2>1. CASE g = f
    BY <2>0, <2>1
  <2>2. CASE g # f
    <3>1. pc[g] \in {"start", "inspect", "remove"} /\ name'[g] = name[g]
      BY <2>0, <2>2
    <3>2. owner[name[g]] = g /\ name[g] \in Seconds
      BY <3>1 DEF IInv, ContainerIsOwn, StuckInv
    <3>3. name[g] # second
      BY <3>2, <2>0, DockerfileAssumption
    <3>. QED BY <2>0, <3>1, <3>2, <3>3
  <2>. QED BY <2>1, <2>2
<1>4. NothingLeftBehind'
  <2>1. /\ pc[f] = "create" /\ pc' = [pc EXCEPT ![f] = "start"] /\ pc \in [Files -> Places]
        /\ owner' = [owner EXCEPT ![second] = f] /\ owner \in [Seconds -> Files \cup {None}]
        /\ name' = [name EXCEPT ![f] = second] /\ name \in [Files -> Seconds \cup {None}]
        /\ UNCHANGED <<images, stuck>>
    BY DEF Create, Move, witness, IInv, TypeOK
  <2>2. <<f, "container">> \notin stuck
    BY <2>1 DEF IInv, StuckInv
  <2>3. ASSUME NEW n \in Seconds, owner'[n] # None
        PROVE  \E g \in Files :
                 /\ name'[g] = n
                 /\ pc'[g] \in {"start", "inspect", "remove"} \/ <<g, "container">> \in stuck'
    <3>1. CASE n = second
      BY <2>1, <3>1
    <3>2. CASE n # second
      <4>1. PICK g \in Files :
              /\ name[g] = n
              /\ pc[g] \in {"start", "inspect", "remove"} \/ <<g, "container">> \in stuck
        BY <2>1, <2>3, <3>2 DEF IInv, NothingLeftBehind
      <4>2. g # f
        BY <2>1, <2>2, <4>1
      <4>. QED BY <2>1, <4>1, <4>2
    <3>. QED BY <3>1, <3>2
  <2>. QED BY <2>1, <2>3, ImagesStay DEF IInv, NothingLeftBehind
<1>5. FileInv'
  BY DEF IInv, FileInv, Early, Create, Move
<1>6. ResultInv'
  BY DEF IInv, ResultInv, Early, Late, Validated, Validates, Create, Move, witness
<1>7. StuckInv'
  BY DEF IInv, StuckInv, TypeOK, Create, Move, witness
<1>8. ExitInv'
  BY NotOver DEF Create
<1>. QED BY <1>1, <1>2, <1>3, <1>4, <1>5, <1>6, <1>7, <1>8 DEF IInv

\* A container that does not start is still removed.
LEMMA StartFailsKeeps ==
    ASSUME IInv, NEW f \in Files, StartFails(f)
    PROVE  IInv'
<1>1. TypeOK'
  BY DEF IInv, TypeOK, Places, Results, StartFails, Move, Decide, daemon, witness
<1>2. SlotBound'
  BY SlotsStay DEF IInv, Places, StartFails, Move
<1>3. ContainerIsOwn'
  BY DEF IInv, ContainerIsOwn, StartFails, Move, daemon
<1>4. NothingLeftBehind'
  BY DEF IInv, NothingLeftBehind, TypeOK, StartFails, Move, daemon, witness
<1>5. FileInv'
  BY DEF IInv, FileInv, Early, StartFails, Move, Decide
<1>6. ResultInv'
  BY DEF IInv, ResultInv, TypeOK, Early, Late, Validated, Validates, StartFails,
     Move, Decide, witness
<1>7. StuckInv'
  BY DEF IInv, StuckInv, TypeOK, StartFails, Move, daemon, witness
<1>8. ExitInv'
  BY NotOver DEF StartFails
<1>. QED BY <1>1, <1>2, <1>3, <1>4, <1>5, <1>6, <1>7, <1>8 DEF IInv

\* A started container is its creator's.
LEMMA StartKeeps ==
    ASSUME IInv, NEW f \in Files, Start(f)
    PROVE  IInv'
<1>1. TypeOK'
  BY DEF IInv, TypeOK, Places, Start, Move, daemon, witness
<1>2. SlotBound'
  BY SlotsStay DEF IInv, Places, Start, Move
<1>3. ContainerIsOwn'
  BY DEF IInv, ContainerIsOwn, Start, Move, daemon
<1>4. NothingLeftBehind'
  BY DEF IInv, NothingLeftBehind, TypeOK, Start, Move, daemon, witness
<1>5. FileInv'
  BY DEF IInv, FileInv, Early, Start, Move
<1>6. ResultInv'
  BY DEF IInv, ResultInv, Early, Late, Validated, Validates, Start, Move, witness
<1>7. StuckInv'
  BY DEF IInv, StuckInv, TypeOK, Start, Move, daemon, witness
<1>8. ExitInv'
  BY NotOver DEF Start
<1>. QED BY <1>1, <1>2, <1>3, <1>4, <1>5, <1>6, <1>7, <1>8 DEF IInv

\* A container seen healthy validates its file.
LEMMA SeeHealthyKeeps ==
    ASSUME IInv, NEW f \in Files, SeeHealthy(f)
    PROVE  IInv'
<1>1. TypeOK'
  BY DEF IInv, TypeOK, Places, Results, SeeHealthy, Move, Decide, daemon
<1>2. SlotBound'
  BY SlotsStay DEF IInv, Places, SeeHealthy, Move
<1>3. ContainerIsOwn'
  BY DEF IInv, ContainerIsOwn, SeeHealthy, Move, daemon
<1>4. NothingLeftBehind'
  BY DEF IInv, NothingLeftBehind, TypeOK, SeeHealthy, Move, daemon
<1>5. FileInv'
  BY DEF IInv, FileInv, Early, SeeHealthy, Move, Decide
<1>6. ResultInv'
  BY DEF IInv, ResultInv, TypeOK, Early, Late, Validated, Validates, SeeHealthy,
     Move, Decide
<1>7. StuckInv'
  BY DEF IInv, StuckInv, TypeOK, SeeHealthy, Move, daemon
<1>8. ExitInv'
  BY NotOver DEF SeeHealthy
<1>. QED BY <1>1, <1>2, <1>3, <1>4, <1>5, <1>6, <1>7, <1>8 DEF IInv

\* Another try changes nothing but the count.
LEMMA SeeNothingKeeps ==
    ASSUME IInv, NEW f \in Files, SeeNothing(f)
    PROVE  IInv'
<1>1. TypeOK'
  <2>1. MaxTries(f) \in Int /\ tries[f] \in Nat
    BY DockerfileAssumption DEF MaxTries, IInv, TypeOK
  <2>2. tries[f] + 1 \in Nat /\ tries[f] + 1 <= MaxTries(f)
    BY <2>1 DEF SeeNothing
  <2>3. /\ tries' \in [Files -> Nat]
        /\ \A g \in Files : tries'[g] > 0 => tries'[g] <= MaxTries(g)
    BY <2>2 DEF SeeNothing, IInv, TypeOK
  <2>4. \A g \in Files : MaxTries(g)' = MaxTries(g)
    BY DEF MaxTries
  <2>. QED BY <2>3, <2>4 DEF SeeNothing, witness, IInv, TypeOK
<1>2. SlotBound'
  BY DEF IInv, SlotBound, Holders, SeeNothing
<1>3. ContainerIsOwn'
  BY DEF IInv, ContainerIsOwn, SeeNothing
<1>4. NothingLeftBehind'
  BY DEF IInv, NothingLeftBehind, SeeNothing, witness
<1>5. FileInv'
  BY DEF IInv, FileInv, SeeNothing
<1>6. ResultInv'
  BY DEF IInv, ResultInv, Validated, Validates, SeeNothing, witness
<1>7. StuckInv'
  BY DEF IInv, StuckInv, SeeNothing, witness
<1>8. ExitInv'
  BY NotOver DEF SeeNothing
<1>. QED BY <1>1, <1>2, <1>3, <1>4, <1>5, <1>6, <1>7, <1>8 DEF IInv

\* A file condemned was never seen healthy.
LEMMA CondemnKeeps ==
    ASSUME IInv, NEW f \in Files, Condemn(f)
    PROVE  IInv'
<1>1. TypeOK'
  BY DEF IInv, TypeOK, Places, Results, Condemn, Move, Decide, daemon, witness
<1>2. SlotBound'
  BY SlotsStay DEF IInv, Places, Condemn, Move
<1>3. ContainerIsOwn'
  BY DEF IInv, ContainerIsOwn, Condemn, Move, daemon
<1>4. NothingLeftBehind'
  BY DEF IInv, NothingLeftBehind, TypeOK, Condemn, Move, daemon, witness
<1>5. FileInv'
  BY DEF IInv, FileInv, Early, Condemn, Move, Decide
<1>6. ResultInv'
  BY DEF IInv, ResultInv, TypeOK, Early, Late, Validated, Validates, Condemn, Move,
     Decide, witness
<1>7. StuckInv'
  BY DEF IInv, StuckInv, TypeOK, Condemn, Move, daemon, witness
<1>8. ExitInv'
  BY NotOver DEF Condemn
<1>. QED BY <1>1, <1>2, <1>3, <1>4, <1>5, <1>6, <1>7, <1>8 DEF IInv

\* Removing a container by name removes the goroutine's own.
LEMMA RemoveKeeps ==
    ASSUME IInv, NEW f \in Files, Remove(f)
    PROVE  IInv'
<1>1. TypeOK'
  BY DEF IInv, TypeOK, Places, Remove, Move, witness
<1>2. SlotBound'
  BY SlotsStay DEF IInv, Places, Remove, Move
<1>3. ContainerIsOwn'
  BY DEF IInv, ContainerIsOwn, TypeOK, Remove, Move
<1>4. NothingLeftBehind'
  <2>1. /\ pc[f] = "remove" /\ pc' = [pc EXCEPT ![f] = "cleanup"] /\ pc \in [Files -> Places]
        /\ owner' = [owner EXCEPT ![name[f]] = None] /\ owner \in [Seconds -> Files \cup {None}]
        /\ UNCHANGED <<name, images, stuck>>
    BY DEF Remove, Move, witness, IInv, TypeOK
  <2>2. ASSUME NEW n \in Seconds, owner'[n] # None
        PROVE  \E g \in Files :
                 /\ name'[g] = n
                 /\ pc'[g] \in {"start", "inspect", "remove"} \/ <<g, "container">> \in stuck'
    <3>1. owner[n] # None /\ n # name[f]
      BY <2>1, <2>2
    <3>2. PICK g \in Files :
            /\ name[g] = n
            /\ pc[g] \in {"start", "inspect", "remove"} \/ <<g, "container">> \in stuck
      BY <3>1 DEF IInv, NothingLeftBehind
    <3>. QED BY <2>1, <3>1, <3>2
  <2>. QED BY <2>1, <2>2, ImagesStay DEF IInv, NothingLeftBehind
<1>5. FileInv'
  BY DEF IInv, FileInv, Early, Remove, Move
<1>6. ResultInv'
  BY DEF IInv, ResultInv, Early, Late, Validated, Validates, Remove, Move, witness
<1>7. StuckInv'
  BY DEF IInv, StuckInv, TypeOK, Remove, Move, witness
<1>8. ExitInv'
  BY NotOver DEF Remove
<1>. QED BY <1>1, <1>2, <1>3, <1>4, <1>5, <1>6, <1>7, <1>8 DEF IInv

\* A container docker keeps is noted as such.
LEMMA RemoveFailsKeeps ==
    ASSUME IInv, NEW f \in Files, RemoveFails(f)
    PROVE  IInv'
<1>1. TypeOK'
  BY DEF IInv, TypeOK, Places, RemoveFails, Move, daemon
<1>2. SlotBound'
  BY SlotsStay DEF IInv, Places, RemoveFails, Move
<1>3. ContainerIsOwn'
  BY DEF IInv, ContainerIsOwn, RemoveFails, Move, daemon
<1>4. NothingLeftBehind'
  BY DEF IInv, NothingLeftBehind, TypeOK, RemoveFails, Move, daemon
<1>5. FileInv'
  BY DEF IInv, FileInv, Early, RemoveFails, Move
<1>6. ResultInv'
  BY DEF IInv, ResultInv, Early, Late, Validated, Validates, RemoveFails, Move
<1>7. StuckInv'
  BY DEF IInv, StuckInv, TypeOK, RemoveFails, Move, daemon
<1>8. ExitInv'
  BY NotOver DEF RemoveFails
<1>. QED BY <1>1, <1>2, <1>3, <1>4, <1>5, <1>6, <1>7, <1>8 DEF IInv

\* Removing an image takes it from every file that shares it.
LEMMA CleanupKeeps ==
    ASSUME IInv, NEW f \in Files, Cleanup(f)
    PROVE  IInv'
<1>1. TypeOK'
  BY DEF IInv, TypeOK, Places, Cleanup, Move, witness
<1>2. SlotBound'
  BY SlotsStay DEF IInv, Places, Cleanup, Move
<1>3. ContainerIsOwn'
  BY DEF IInv, ContainerIsOwn, Cleanup, Move
<1>4. NothingLeftBehind'
  BY DEF IInv, NothingLeftBehind, TypeOK, Cleanup, Move, witness
<1>5. FileInv'
  BY DEF IInv, FileInv, Early, Cleanup, Move
<1>6. ResultInv'
  BY DEF IInv, ResultInv, Early, Late, Validated, Validates, Cleanup, Move, witness
<1>7. StuckInv'
  BY DEF IInv, StuckInv, TypeOK, Cleanup, Move, witness
<1>8. ExitInv'
  BY NotOver DEF Cleanup
<1>. QED BY <1>1, <1>2, <1>3, <1>4, <1>5, <1>6, <1>7, <1>8 DEF IInv

\* An image docker keeps is noted as such.
LEMMA CleanupFailsKeeps ==
    ASSUME IInv, NEW f \in Files, CleanupFails(f)
    PROVE  IInv'
<1>1. TypeOK'
  BY DEF IInv, TypeOK, Places, CleanupFails, Move, daemon
<1>2. SlotBound'
  BY SlotsStay DEF IInv, Places, CleanupFails, Move
<1>3. ContainerIsOwn'
  BY DEF IInv, ContainerIsOwn, CleanupFails, Move, daemon
<1>4. NothingLeftBehind'
  BY DEF IInv, NothingLeftBehind, TypeOK, CleanupFails, Move, daemon
<1>5. FileInv'
  BY DEF IInv, FileInv, Early, CleanupFails, Move
<1>6. ResultInv'
  BY DEF IInv, ResultInv, Early, Late, Validated, Validates, CleanupFails, Move
<1>7. StuckInv'
  BY DEF IInv, StuckInv, TypeOK, CleanupFails, Move, daemon
<1>8. ExitInv'
  BY NotOver DEF CleanupFails
<1>. QED BY <1>1, <1>2, <1>3, <1>4, <1>5, <1>6, <1>7, <1>8 DEF IInv

\* The clock names the containers still to be created.
LEMMA TickKeeps ==
    ASSUME IInv, Tick
    PROVE  IInv'
<1>1. second' \in Seconds
  BY DockerfileAssumption DEF Tick, IInv, TypeOK, Seconds
<1>2. TypeOK'
  BY <1>1 DEF Tick, witness, IInv, TypeOK
<1>3. SlotBound'
  BY DEF Tick, IInv, SlotBound, Holders
<1>4. ContainerIsOwn' /\ NothingLeftBehind'
  BY DEF Tick, witness, IInv, ContainerIsOwn, NothingLeftBehind
<1>5. FileInv' /\ ResultInv'
  BY DEF Tick, witness, IInv, FileInv, PinsOf, ResultInv, Validated, Validates
<1>6. StuckInv' /\ ExitInv'
  BY DEF Tick, witness, IInv, StuckInv, ExitInv, Failed
<1>. QED BY <1>2, <1>3, <1>4, <1>5, <1>6 DEF IInv

\* The exit status is read off the results when every goroutine is gone.
LEMMA ReturnKeeps ==
    ASSUME IInv, Return
    PROVE  IInv'
<1>1. TypeOK'
  BY DEF Return, daemon, witness, IInv, TypeOK
<1>2. SlotBound'
  BY DEF Return, IInv, SlotBound, Holders
<1>3. ContainerIsOwn' /\ NothingLeftBehind'
  BY DEF Return, daemon, witness, IInv, ContainerIsOwn, NothingLeftBehind
<1>4. FileInv' /\ ResultInv'
  BY DEF Return, witness, IInv, FileInv, PinsOf, ResultInv, Validated, Validates
<1>5. StuckInv' /\ ExitInv'
  BY DEF Return, daemon, witness, IInv, StuckInv, ExitInv, Failed
<1>. QED BY <1>1, <1>2, <1>3, <1>4, <1>5 DEF IInv

\* Nothing the invariant speaks of changes.
LEMMA StutterKeeps ==
    ASSUME IInv, UNCHANGED vars
    PROVE  IInv'
<1>1. TypeOK' /\ SlotBound'
  BY DEF vars, IInv, TypeOK, SlotBound, Holders
<1>2. ContainerIsOwn' /\ NothingLeftBehind'
  BY DEF vars, IInv, ContainerIsOwn, NothingLeftBehind
<1>3. FileInv' /\ ResultInv'
  BY DEF vars, IInv, FileInv, PinsOf, ResultInv, Validated, Validates
<1>4. StuckInv' /\ ExitInv'
  BY DEF vars, IInv, StuckInv, ExitInv, Failed
<1>. QED BY <1>1, <1>2, <1>3, <1>4 DEF IInv

\* So does every step.
LEMMA NextIInv == IInv /\ [Next]_vars => IInv'
<1> SUFFICES ASSUME IInv, [Next]_vars PROVE IInv'
  OBVIOUS
<1>1. ASSUME NEW f \in Files, Step(f) PROVE IInv'
  BY <1>1, AcquireKeeps, ReleaseKeeps, ReadFailsKeeps, ResolveKeeps,
     ApplyFailsKeeps, WriteFailsKeeps, WriteKeeps, BuildFailsKeeps,
     BuildKeeps, CreateFailsKeeps, CreateKeeps, StartFailsKeeps,
     StartKeeps, SeeHealthyKeeps, SeeNothingKeeps, CondemnKeeps,
     RemoveKeeps, RemoveFailsKeeps, CleanupKeeps, CleanupFailsKeeps
     DEF Step
<1>2. CASE Tick
  BY <1>2, TickKeeps
<1>3. CASE Return
  BY <1>3, ReturnKeeps
<1>4. CASE Done \/ UNCHANGED vars
  BY <1>4, StutterKeeps DEF Done
<1>. QED BY <1>1, <1>2, <1>3, <1>4 DEF Next

----------------------------------------------------------------------------
(* The theorems.                                                            *)

\* The strengthening holds in every state of every run.
THEOREM Invariance == Spec => []IInv
<1>. QED BY InitIInv, NextIInv, PTL DEF Spec

\* Type correctness: no container is inspected more often than its health
\* check allows.
THEOREM TypeCorrect == Spec => []TypeOK
<1>1. IInv => TypeOK
  BY DEF IInv
<1>. QED BY Invariance, <1>1, PTL

\* Every slot of the semaphore is some goroutine's, never more than MaxWorkers
\* of them, on every return of processUpdateFile.
THEOREM SlotsBounded == Spec => []SlotBound
<1>1. IInv => SlotBound
  BY DEF IInv
<1>. QED BY Invariance, <1>1, PTL

\* Names taken from the clock never make a goroutine start, inspect or remove
\* another's container.
THEOREM ContainersOwn == Spec => []ContainerIsOwn
<1>1. IInv => ContainerIsOwn
  BY DEF IInv
<1>. QED BY Invariance, <1>1, PTL

\* No image or container outlives the goroutines that have it to remove,
\* unless docker refused to remove it.
THEOREM NothingLeaks == Spec => []NothingLeftBehind
<1>1. IInv => NothingLeftBehind
  BY DEF IInv
<1>. QED BY Invariance, <1>1, PTL

\* The invariant relates each result to what is on disk and what docker said,
\* and the exit status to the results.
LEMMA ExitFollows == IInv => ExitTellsTruth
<1> SUFFICES ASSUME IInv PROVE ExitTellsTruth
  OBVIOUS
<1>1. ASSUME exit = "ok", ~flags.skipBuild, NEW p \in Pins, disk[p] # Pinned[p]
      PROVE  Validated(FileOf[p])
  <2>1. FileOf[p] \in Files /\ p \in PinsOf(FileOf[p])
    BY DockerfileAssumption DEF PinsOf
  <2>2. /\ pc[FileOf[p]] = "gone"
        /\ result[FileOf[p]] \notin {"failed", "buildFailed"}
    BY <1>1, <2>1 DEF IInv, ExitInv, Failed
  <2>3. result[FileOf[p]] \notin {"reported", "noUpdates"}
    BY <1>1, <2>1 DEF IInv, FileInv
  <2>4. result[FileOf[p]] # "pending"
    BY <2>1, <2>2 DEF IInv, ResultInv, Late
  <2>5. result[FileOf[p]] = "updated"
    BY <2>1, <2>2, <2>3, <2>4 DEF IInv, TypeOK, Results
  <2>. QED BY <1>1, <2>1, <2>5 DEF IInv, ResultInv
<1>2. ASSUME exit = "failed"
      PROVE  \E f \in Files :
               /\ result[f] \notin {"reported", "noUpdates"}
               /\ \/ \A p \in PinsOf(f) : disk[p] \in {Pinned[p], Lost}
                  \/ ~Validated(f)
  <2>1. PICK f \in Files : result[f] \in {"failed", "buildFailed"}
    BY <1>2 DEF IInv, ExitInv, Failed
  <2>2. CASE result[f] = "failed"
    BY <2>2 DEF IInv, FileInv
  <2>3. CASE result[f] = "buildFailed"
    BY <2>3 DEF IInv, ResultInv
  <2>. QED BY <2>1, <2>2, <2>3
<1>. QED BY <1>1, <1>2 DEF ExitTellsTruth

\* The exit status tells which updates passed what they declare.
THEOREM ExitTruth == Spec => []ExitTellsTruth
BY Invariance, ExitFollows, PTL

----------------------------------------------------------------------------
(* Of EventuallyReturns, what needs no fairness.                            *)

\* The reason for EventuallyReturns' premise: on a channel without a buffer
\* no goroutine ever takes a slot, and a run over any file never returns.
HangsWithoutWorkers ==
    MaxWorkers = 0 => /\ \A f \in Files : pc[f] = "spawned"
                      /\ Files # {} => exit = "none"

\* For any files, a run without workers is stuck where it started.
THEOREM NoWorkersNoRun == Spec => []HangsWithoutWorkers
<1>. DEFINE AllSpawned == MaxWorkers = 0 => \A f \in Files : pc[f] = "spawned"
<1>1. Init => AllSpawned
  BY DEF Init
<1>2. IInv /\ AllSpawned /\ [Next]_vars => AllSpawned'
  <2>. SUFFICES ASSUME IInv, MaxWorkers = 0, \A f \in Files : pc[f] = "spawned", [Next]_vars
                PROVE  pc' = pc
    OBVIOUS
  <2>1. Holders = {} /\ slots = 0
    <3>1. Holders = {}
      BY DEF Holders
    <3>. QED BY <3>1, FS_EmptySet DEF IInv, SlotBound
  <2>2. \A f \in Files : ~Step(f)
    BY <2>1 DEF Step, Acquire, Release, ReadFails, Resolve, ApplyFails, WriteFails, Write,
       BuildFails, Build, CreateFails, Create, StartFails, Start, SeeHealthy, SeeNothing,
       Condemn, Remove, RemoveFails, Cleanup, CleanupFails
  <2>. QED BY <2>2 DEF Next, Tick, Return, Done, vars
<1>3. IInv /\ AllSpawned => HangsWithoutWorkers
  BY DEF IInv, ExitInv, HangsWithoutWorkers
<1>. QED BY <1>1, <1>2, <1>3, Invariance, PTL DEF Spec

PlaceRank ==
    [p \in Places |->
       CASE p = "spawned" -> 10 [] p = "read" -> 9 [] p = "apply" -> 8 [] p = "build" -> 7
         [] p = "create" -> 6 [] p = "start" -> 5 [] p = "inspect" -> 4 [] p = "remove" -> 3
         [] p = "cleanup" -> 2 [] p = "leaving" -> 1 [] OTHER -> 0]

TriesLeft == [f \in Files |-> IF tries[f] < MaxTries(f) THEN MaxTries(f) - tries[f] ELSE 0]

\* At most how many steps a goroutine still has to take.
Ahead == [f \in Files |-> PlaceRank[pc[f]] + TriesLeft[f]]

\* Every step takes a goroutine nearer to its end and none further from it,
\* but for the clock's and the return, which move none; and what a goroutine
\* has decided about its file no later step of its cleanup changes.
StepsCount ==
    [][/\ \A f \in Files : Ahead'[f] <= Ahead[f]
       /\ \/ \E f \in Files : Ahead'[f] < Ahead[f]
          \/ pc' = pc /\ (second < second' \/ exit # exit')
       /\ \A f \in Files : result[f] # "pending" => result'[f] = result[f]]_vars

\* Each place has its number of steps.
LEMMA PlaceRanks ==
    /\ PlaceRank["spawned"] = 10 /\ PlaceRank["read"] = 9 /\ PlaceRank["apply"] = 8
    /\ PlaceRank["build"] = 7 /\ PlaceRank["create"] = 6 /\ PlaceRank["start"] = 5
    /\ PlaceRank["inspect"] = 4 /\ PlaceRank["remove"] = 3 /\ PlaceRank["cleanup"] = 2
    /\ PlaceRank["leaving"] = 1 /\ PlaceRank["gone"] = 0
    /\ PlaceRank \in [Places -> Nat]
BY DEF PlaceRank, Places

\* The number of steps ahead is a natural number.
LEMMA AheadType ==
    ASSUME TypeOK, NEW f \in Files
    PROVE  PlaceRank[pc[f]] \in Nat /\ TriesLeft[f] \in Nat /\ Ahead[f] \in Nat
<1>1. PlaceRank[pc[f]] \in Nat
  BY PlaceRanks DEF TypeOK
<1>2. MaxTries(f) \in Int /\ tries[f] \in Nat
  BY DockerfileAssumption DEF MaxTries, TypeOK
<1>3. TriesLeft[f] \in Nat
  BY <1>2 DEF TriesLeft
<1>. QED BY <1>1, <1>3 DEF Ahead

\* A goroutine with a step to take goes on to a later place, or spends a try.
LEMMA StepGoes ==
    ASSUME TypeOK, NEW f \in Files, Step(f)
    PROVE  \/ /\ \E p \in Places : /\ pc' = [pc EXCEPT ![f] = p]
                                   /\ PlaceRank[p] < PlaceRank[pc[f]]
              /\ tries' = tries
           \/ pc' = pc /\ SeeNothing(f)
<1>. USE PlaceRanks DEF Places, Move
<1>1. CASE Acquire(f) \/ Release(f) \/ Create(f) \/ CreateFails(f) \/ Start(f) \/ StartFails(f)
  BY <1>1 DEF Acquire, Release, Create, CreateFails, Start, StartFails, daemon
<1>2. CASE ReadFails(f) \/ ApplyFails(f) \/ WriteFails(f) \/ BuildFails(f)
  BY <1>2 DEF ReadFails, ApplyFails, WriteFails, BuildFails, Finish, daemon
<1>3. CASE Resolve(f) \/ Write(f) \/ Build(f)
  BY <1>3 DEF Resolve, Write, Build, Finish, daemon
<1>4. CASE SeeHealthy(f) \/ Condemn(f)
  BY <1>4 DEF SeeHealthy, Condemn, daemon
<1>5. CASE Remove(f) \/ RemoveFails(f) \/ Cleanup(f) \/ CleanupFails(f)
  BY <1>5 DEF Remove, RemoveFails, Cleanup, CleanupFails, daemon
<1>6. CASE SeeNothing(f)
  BY <1>6 DEF SeeNothing
<1>. QED BY <1>1, <1>2, <1>3, <1>4, <1>5, <1>6 DEF Step

\* Whatever a goroutine does, it is nearer to its end, and it alone.
LEMMA StepNearer ==
    ASSUME TypeOK, NEW f \in Files, Step(f)
    PROVE  /\ Ahead'[f] < Ahead[f]
           /\ \A g \in Files : Ahead'[g] <= Ahead[g]
<1>. USE AheadType
<1>1. CASE /\ \E p \in Places : /\ pc' = [pc EXCEPT ![f] = p]
                                /\ PlaceRank[p] < PlaceRank[pc[f]]
           /\ tries' = tries
  <2>1. PICK p \in Places : pc' = [pc EXCEPT ![f] = p] /\ PlaceRank[p] < PlaceRank[pc[f]]
    BY <1>1
  <2>2. pc'[f] = p /\ \A g \in Files \ {f} : pc'[g] = pc[g]
    BY <2>1 DEF TypeOK
  <2>3. TriesLeft' = TriesLeft
    BY <1>1 DEF TriesLeft
  <2>4. /\ Ahead'[f] = PlaceRank[p] + TriesLeft[f]
        /\ Ahead[f] = PlaceRank[pc[f]] + TriesLeft[f]
        /\ \A g \in Files \ {f} : Ahead'[g] = Ahead[g]
    BY <2>2, <2>3 DEF Ahead
  <2>5. PlaceRank[p] \in Nat
    BY PlaceRanks
  <2>. QED BY <2>1, <2>4, <2>5
<1>2. CASE pc' = pc /\ SeeNothing(f)
  <2>1. tries[f] < MaxTries(f) /\ tries' = [tries EXCEPT ![f] = @ + 1]
    BY <1>2 DEF SeeNothing
  <2>2. MaxTries(f) \in Int /\ tries[f] \in Nat
    BY DockerfileAssumption DEF MaxTries, TypeOK
  <2>3. tries'[f] = tries[f] + 1 /\ \A g \in Files \ {f} : tries'[g] = tries[g]
    BY <2>1 DEF TypeOK
  <2>4. /\ TriesLeft[f] = MaxTries(f) - tries[f]
        /\ TriesLeft'[f] = MaxTries(f) - (tries[f] + 1)
        /\ \A g \in Files \ {f} : TriesLeft'[g] = TriesLeft[g]
    BY <2>1, <2>2, <2>3 DEF TriesLeft, MaxTries
  <2>5. /\ Ahead'[f] = PlaceRank[pc[f]] + TriesLeft'[f]
        /\ Ahead[f] = PlaceRank[pc[f]] + TriesLeft[f]
        /\ \A g \in Files \ {f} : Ahead'[g] = Ahead[g]
    BY <1>2, <2>4 DEF Ahead
  <2>. QED BY <2>2, <2>4, <2>5
<1>. QED BY <1>1, <1>2, StepGoes

\* A decided result belongs to a goroutine that only removes what it made.
LEMMA ResultStands ==
    ASSUME IInv, NEW f \in Files, Step(f)
    PROVE  \A g \in Files : result[g] # "pending" => result'[g] = result[g]
<1>1. CASE result' = result
  BY <1>1
<1>2. CASE pc[f] \notin Late
  <2>1. result[f] = "pending"
    BY <1>2 DEF IInv, ResultInv
  <2>2. result' = result \/ \E r \in Results : result' = [result EXCEPT ![f] = r]
    BY DEF Results, Step, Acquire, Release, ReadFails, Resolve, ApplyFails, WriteFails, Write,
       BuildFails, Build, CreateFails, Create, StartFails, Start, SeeHealthy, SeeNothing,
       Condemn, Remove, RemoveFails, Cleanup, CleanupFails, Finish, Decide
  <2>. QED BY <2>1, <2>2 DEF IInv, TypeOK
<1>3. CASE pc[f] \in Late
  BY <1>1, <1>3 DEF Late, Step, Acquire, Release, ReadFails, Resolve, ApplyFails, WriteFails,
     Write, BuildFails, Build, CreateFails, Create, StartFails, Start, SeeHealthy,
     SeeNothing, Condemn, Remove, RemoveFails, Cleanup, CleanupFails
<1>. QED BY <1>2, <1>3

\* For any retries, flags and failures of docker, a goroutine takes at most
\* ten steps and one for each try of its health check.
THEOREM EveryStepCounts == Spec => StepsCount
<1>1. IInv /\ [Next]_vars =>
        [/\ \A f \in Files : Ahead'[f] <= Ahead[f]
         /\ \/ \E f \in Files : Ahead'[f] < Ahead[f]
            \/ pc' = pc /\ (second < second' \/ exit # exit')
         /\ \A f \in Files : result[f] # "pending" => result'[f] = result[f]]_vars
  <2>. SUFFICES ASSUME IInv, Next, vars' # vars
                PROVE  /\ \A f \in Files : Ahead'[f] <= Ahead[f]
                       /\ \/ \E f \in Files : Ahead'[f] < Ahead[f]
                          \/ pc' = pc /\ (second < second' \/ exit # exit')
                       /\ \A f \in Files : result[f] # "pending" => result'[f] = result[f]
    OBVIOUS
  <2>1. CASE Tick \/ Return
    <3>1. /\ pc' = pc /\ tries' = tries /\ result' = result
          /\ second < second' \/ exit # exit'
      BY <2>1, DockerfileAssumption DEF Tick, Return, daemon, IInv, TypeOK, Seconds
    <3>2. Ahead' = Ahead
      BY <3>1 DEF Ahead, TriesLeft
    <3>3. \A f \in Files : Ahead[f] \in Int
      BY AheadType DEF IInv
    <3>. QED BY <3>1, <3>2, <3>3
  <2>2. ASSUME NEW f \in Files, Step(f)
        PROVE  /\ Ahead'[f] < Ahead[f]
               /\ \A g \in Files : Ahead'[g] <= Ahead[g]
               /\ \A g \in Files : result[g] # "pending" => result'[g] = result[g]
    BY <2>2, StepNearer, ResultStands DEF IInv
  <2>. QED BY <2>1, <2>2 DEF Next, Done
<1>. QED BY <1>1, Invariance, PTL DEF Spec, StepsCount
=============================================================================
