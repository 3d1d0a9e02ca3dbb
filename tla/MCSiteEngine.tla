---------------------------- MODULE MCSiteEngine ----------------------------
(***************************************************************************)
(* Small configs for SiteEngine.  Tool "jq" is pinned in two files under a *)
(* hold, "uv" reads a command's output, and "odd" has a command pattern    *)
(* without the groups it needs.                                            *)
(***************************************************************************)
EXTENDS SiteEngine

CONSTANTS listed, unlisted  \* what the command may print

MCTools == {"jq", "uv", "odd"}
MCSites == {"jq1", "jq2", "uv1", "odd1"}
MCToolOf == [s \in MCSites |->
    CASE s \in {"jq1", "jq2"} -> "jq" [] s = "uv1" -> "uv" [] s = "odd1" -> "odd"]
MCLocated == [s \in MCSites |-> s # "uv1"]
MCKinds == {"cdnjs", "mise", "go", "github-branch"}
MCAvailable == MCKinds \ {"go"}
MCDetailers == {"cdnjs", "github-branch"}
MCBranchKinds == {"github-branch"}
MCVersions == 1..2
MCRaws == {"#.#.#"}
MCAccepts == [r \in MCRaws |-> MCVersions]

Registry(kind, holdMax) ==
    [resolver |-> kind, resolverName |-> None, pattern |-> None,
     holdMax |-> holdMax, command |-> None, patternOK |-> TRUE]

FromCommand(patternOK) ==
    [Registry("mise", 0) EXCEPT !.command = "list", !.patternOK = patternOK]

MCTool == [t \in MCTools |->
    CASE t = "jq" -> Registry("cdnjs", 2)
      [] t = "uv" -> FromCommand(TRUE)
      [] t = "odd" -> FromCommand(FALSE)]

\* Either a line for uv with a newer version, or nothing of use.
MCOutputs == {listed, unlisted}
MCEntry == [o \in MCOutputs |-> [n \in MCTools |->
    [listed |-> n = "uv" /\ o = listed, current |-> 1, latest |-> 2]]]

\* Two tools asking mise about jq, one of them held below version 2.
HoldTools == {"jq", "jqLegacy"}
HoldSites == {"jq1", "legacy1"}
HoldToolOf == [s \in HoldSites |-> IF s = "jq1" THEN "jq" ELSE "jqLegacy"]
HoldLocated == [s \in HoldSites |-> TRUE]
HoldTool == [t \in HoldTools |->
    IF t = "jq" THEN Registry("mise", 0)
    ELSE [Registry("mise", 2) EXCEPT !.resolverName = "jq"]]
HoldEntry == [o \in MCOutputs |-> [n \in HoldTools |->
    [listed |-> FALSE, current |-> 0, latest |-> 0]]]
=============================================================================
