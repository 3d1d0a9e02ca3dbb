SPECIFICATION Spec
CONSTANTS
    a = a
    b = b
    c = c
    p1 = p1
    p2 = p2
    p3 = p3
    p4 = p4
    v1 = v1
    v2 = v2
    i1 = i1
    i2 = i2
    Lost = Lost
    None = None
    Files <- MCFiles
    Pins <- MCPins
    FileOf <- MCFileOf
    Versions <- MCVersions
    Pinned <- MCPinned
    Images <- MCImages
    ImageOf <- MCImageOf
    HasHealthcheck <- MCHasHealthcheck
    Retries <- MCRetries
    MaxWorkers = 2
    LastSecond = 1
INVARIANTS
    TypeOK
    SlotBound
    ContainerIsOwn
    NothingLeftBehind
    ExitTellsTruth
PROPERTIES
    EventuallyReturns
