SPECIFICATION Spec
CONSTANTS
    Names <- MCTools
    Tools <- MCTools
    Sites <- MCSites
    Kinds <- MCKinds
    Available <- MCAvailable
    Detailers <- MCDetailers
    BranchKinds <- MCBranchKinds
    Raws <- MCRaws
    Versions <- MCVersions
    Commands = {"list"}
    Outputs <- MCOutputs
    listed = listed
    unlisted = unlisted
    None = None
    Failed = Failed
    Report = Report
    Unset = Unset
    DefaultRaw = "#.#.#"
    Accepts <- MCAccepts
    Tool <- MCTool
    ToolOf <- MCToolOf
    Located <- MCLocated
    Entry <- MCEntry
    RequestedWorkers = 2
    DefaultWorkers = 8
INVARIANTS
    TypeOK
    WorkerBound
    SingleFlight
    ReturnsComplete
    HoldsRespectedWhereShared
PROPERTIES
    ImplementsShared
    EventuallyReturns
