------------------------------- MODULE PinRun -------------------------------
(***************************************************************************)
(* What a run over a .doneram.pkl promises whoever looks at the tree only  *)
(* between runs: it happens at once, between its question and its exit. A  *)
(* run that succeeds has put the offered versions, and nothing else, where *)
(* the sites it says it updated have their pins; one that fails or is      *)
(* killed has put some of them there and may have lost others.             *)
(***************************************************************************)
CONSTANTS
    Sites,
    Tools,
    ToolOf,
    Places,
    Rewritten,  \* the places a site's pattern rewrites
    Own,        \* those it finds, if no other tool's site rewrites one
    Versions,
    Answers,    \* versions, and what is no version
    Lost

VARIABLES
    open,     \* a run is under way
    tree,     \* the working tree between runs
    ask,      \* the last run's question, with what each site was offered
    told,     \* its exit
    updated   \* the sites it says it updated

vars == <<open, tree, ask, told, updated>>

Questions == [tools : SUBSET Tools, offer : [Sites -> Answers],
              apply : BOOLEAN, gate : BOOLEAN]

Asked == {s \in Sites : ToolOf[s] \in ask.tools}

Offer(s) == ask.offer[s]

Resolved == {s \in Asked : Own[s] # {} /\ Offer(s) \in Versions}

Init ==
    /\ open = FALSE
    /\ tree \in [Places -> Versions]
    /\ ask \in Questions
    /\ told = "none"
    /\ updated = {}

Begin ==
    /\ ~open
    /\ open' = TRUE
    /\ ask' \in Questions
    /\ told' = "none"
    /\ updated' = {}
    /\ UNCHANGED tree

Refuse ==
    /\ ~open
    /\ ask' \in Questions
    /\ told' = "failed"
    /\ UNCHANGED <<open, tree, updated>>

\* Every change is a site's own.
Writes(sites, p) == \E s \in sites : p \in Rewritten[s] /\ tree'[p] = Offer(s)

Close ==
    /\ open
    /\ open' = FALSE
    /\ tree' \in [Places -> Versions \cup {Lost}]
    /\ updated' \subseteq Asked
    /\ tree' # tree => ask.apply
    /\ UNCHANGED ask

Break ==
    /\ Close
    /\ told' \in {"none", "failed"}
    /\ \A p \in Places : tree'[p] \in {tree[p], Lost} \/ Writes(Asked, p)

Current(s) == \E p \in Own[s] : tree[p] = Offer(s) /\ tree'[p] = Offer(s)

Succeed ==
    /\ Close
    /\ told' \in {"ok", "drifted"}
    /\ \A p \in Places : tree'[p] = tree[p] \/ Writes(updated', p)
    /\ ask.apply =>
         /\ \A s \in Resolved \cap updated' :
              \A p \in Own[s] : tree[p] # Lost => tree'[p] = Offer(s)
         /\ \A s \in Resolved \ updated' : Current(s)
    /\ told' = "ok" /\ ask.gate => \A s \in Resolved : Current(s)

Next == Begin \/ Refuse \/ Break \/ Succeed

Spec == Init /\ [][Next]_vars
=============================================================================
