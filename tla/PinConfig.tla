----------------------------- MODULE PinConfig -----------------------------
(***************************************************************************)
(* The pins a repository declares, as internal/config/pkl.go compiles them *)
(* into the sites internal/engine resolves, and the questions the engine   *)
(* asks on their behalf.                                                   *)
(*                                                                         *)
(* A version is a positive number, greater meaning newer; 0 is the empty   *)
(* string Go leaves in an unset version, and, as a ceiling, no ceiling.    *)
(***************************************************************************)
EXTENDS Naturals

CONSTANTS
    Names,       \* names a resolver may be asked about; a tool's own name is one
    Tools,       \* the keys of the config's tools
    Sites,       \* every site of every tool
    Kinds,       \* resolver kinds a tool may name
    Available,   \* the kinds of resolver.Registry
    Detailers,   \* the kinds whose resolver also implements resolver.Detailer
    BranchKinds, \* the kinds that answer with a branch head and read no constraint
    Raws,        \* version patterns, as text
    Versions,    \* every version anything here may publish or pin
    Commands,    \* commands of command resolvers
    Outputs,     \* what a command may print
    None,        \* an optional field left unset
    Failed,      \* an error returned by a call
    Report,      \* the text a Detailer returns
    DefaultRaw,  \* "#.#.#"
    Accepts,     \* the versions a pattern's own segments and suffix match
    Tool,        \* the declaration of each tool
    ToolOf,      \* the tool a site belongs to
    Located,     \* whether a site has a file
    Entry        \* what the first line for a name says in a command's output

Blank == 0

NoCeiling == 0

ToolConfig == [resolver : Kinds, resolverName : Names \cup {None},
               pattern : Raws \cup {None}, holdMax : Versions \cup {NoCeiling},
               command : Commands \cup {None}, patternOK : BOOLEAN]

Listing == [listed : BOOLEAN, current : Versions \cup {Blank},
            latest : Versions \cup {Blank}]

ASSUME ConfigAssumption ==
    /\ Versions \subseteq Nat \ {0}
    /\ Tools \subseteq Names
    /\ Available \subseteq Kinds
    /\ Detailers \subseteq Available
    /\ BranchKinds \subseteq Kinds
    /\ DefaultRaw \in Raws
    /\ Accepts \in [Raws -> SUBSET Versions]
    /\ Tool \in [Tools -> ToolConfig]
    /\ ToolOf \in [Sites -> Tools]
    /\ Located \in [Sites -> BOOLEAN]
    /\ Entry \in [Outputs -> [Names -> Listing]]

\* Config.Sites: only a command's tool may come without a file, and then it
\* has that one site.
ASSUME LocatedAssumption ==
    \A s \in Sites : ~Located[s] =>
        /\ Tool[ToolOf[s]].command # None
        /\ \A t \in Sites : ToolOf[t] = ToolOf[s] => t = s

ASSUME DistinctAssumption ==
    /\ Failed # None
    /\ Failed # Report
    /\ \A x \in Versions \cup {Blank} \cup Outputs : x # Failed
    /\ None \notin Names \cup Raws \cup Commands

----------------------------------------------------------------------------
(* What a site asks.                                                        *)

Config(s) == Tool[ToolOf[s]]

IsCommand(s) == Config(s).command # None

ResolverName(s) ==
    IF Config(s).resolverName # None THEN Config(s).resolverName ELSE ToolOf[s]

\* VersionPattern.String of the constraint, which is its Raw: the ceiling a
\* hold adds is not part of it.
Raw(s) == IF Config(s).pattern # None THEN Config(s).pattern ELSE DefaultRaw

Ceiling(s) == Config(s).holdMax

\* Mutant: an inclusive ceiling.
MatchesCeiling(s, v) ==
    /\ v \in Accepts[Raw(s)]
    /\ Ceiling(s) # NoCeiling => v <= Ceiling(s)

\* VersionPattern.Matches on the whole constraint, ceiling included.
Matches(s, v) ==
    /\ v \in Accepts[Raw(s)]
    /\ Ceiling(s) # NoCeiling => v < Ceiling(s)

\* What a resolver may be handed by its registry for this site's constraint:
\* any version it matches, whichever is out when the call is made.
Offered(s) ==
    IF Config(s).resolver \in BranchKinds
    THEN Versions
    ELSE {v \in Versions : Matches(s, v)}

----------------------------------------------------------------------------
(* The keys of the engine's three memos.                                    *)

ResolveKey(s) ==
    [memo |-> "resolved", kind |-> Config(s).resolver, name |-> ResolverName(s),
     constraint |-> Raw(s)]

CommandKey(s) == [memo |-> "commands", command |-> Config(s).command]

DetailKey(s, current, latest) ==
    [memo |-> "detailed", key |-> ResolveKey(s), current |-> current,
     latest |-> latest]

\* The first question a site asks, whose answer decides its version.
FirstKey(s) == IF IsCommand(s) THEN CommandKey(s) ELSE ResolveKey(s)

FirstKeys == {FirstKey(s) : s \in Sites}

DetailSites == {s \in Sites : ~IsCommand(s) /\ Config(s).resolver \in Detailers}

DetailKeys == {DetailKey(s, c, l) :
                 s \in DetailSites, c \in Versions, l \in Versions \cup {Blank}}

Keys == FirstKeys \cup DetailKeys

Values == Versions \cup {Blank} \cup Outputs

\* What a call made for site s may return on the question k.
Replies(s, k) ==
    IF k \in DetailKeys THEN {Failed, Report}
    ELSE IF IsCommand(s) THEN {Failed} \cup Outputs
    ELSE {Failed, Blank} \cup Offered(s)

----------------------------------------------------------------------------
(* What a site makes of the answer to its first question.                   *)

Verdicts == {"pending", "ok", "mismatch", "failed"}

SiteResults == [verdict : Verdicts, current : Versions \cup {Blank},
                latest : Versions \cup {Blank}, detail : BOOLEAN]

Outcome(verdict, current, latest, detail) ==
    [verdict |-> verdict, current |-> current, latest |-> latest, detail |-> detail]

Pending == Outcome("pending", Blank, Blank, FALSE)

Failure(verdict, current) == Outcome(verdict, current, Blank, FALSE)

\* commandSite from the command's output on: no listing is an error, an
\* empty latest group means the current version is the latest one.
FromOutput(s, current, o) ==
    LET e   == Entry[o][ResolverName(s)]
        cur == IF current = Blank THEN e.current ELSE current
    IN  IF e.listed
        THEN Outcome("ok", cur, IF e.latest = Blank THEN cur ELSE e.latest, FALSE)
        ELSE Failure("failed", current)

Reading(s, current, answer, detail) ==
    IF answer = Failed THEN Failure("failed", current)
    ELSE IF IsCommand(s) THEN FromOutput(s, current, answer)
    ELSE Outcome("ok", current, answer, detail)
=============================================================================
