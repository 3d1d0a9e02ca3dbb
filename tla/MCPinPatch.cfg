SPECIFICATION Spec
CONSTANTS
    a = a
    b = b
    p1 = p1
    p2 = p2
    p3 = p3
    p4 = p4
    p5 = p5
    v1 = v1
    v2 = v2
    None = None
    Lost = Lost
    Held = Held
    NothingNewer = NothingNewer
    Unresolved = Unresolved
    Sites <- MCSites
    Tools <- MCTools
    CommandTools <- MCCommandTools
    ToolOf <- MCToolOf
    Files <- MCFiles
    Places <- MCPlaces
    FileOf <- MCFileOf
    Found <- MCFound
    Rewritten <- MCRewritten
    Expect <- MCExpect
    HasAfterPatch = TRUE
    Versions <- MCVersions
    MaxRuns = 2
INVARIANTS
    TypeOK
    NothingLeftToPatch
    SnapshotFollowsPatch
    DriftGate
    AgreementKept
PROPERTIES
    ImplementsRun
