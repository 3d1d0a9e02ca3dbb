SPECIFICATION Spec
CONSTANTS
    Names <- HoldTools
    Tools <- HoldTools
    Sites <- HoldSites
    Kinds <- MCKinds
    Available <- MCAvailable
    Detailers <- MCDetailers
    BranchKinds <- MCBranchKinds
    Raws <- MCRaws
    Versions <- MCVersions
    Commands = {"list"}
    Outputs <- MCOutputs
    listed = listed
    unlisted = unlisted
    None = None
    Failed = Failed
    Report = Report
    Unset = Unset
    DefaultRaw = "#.#.#"
    Accepts <- MCAccepts
    Tool <- HoldTool
    ToolOf <- HoldToolOf
    Located <- HoldLocated
    Entry <- HoldEntry
    RequestedWorkers = 0
    DefaultWorkers = 8
INVARIANT HoldNeverCrossed
