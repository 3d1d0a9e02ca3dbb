--------------------------- MODULE SharedAnswers ---------------------------
(***************************************************************************)
(* What engine.RunSites promises, without workers, locks or memo entries:  *)
(* each question is settled once, and every site either fails on its own   *)
(* account or takes the settled answer to its own question.                *)
(***************************************************************************)
EXTENDS PinConfig

CONSTANT Unset  \* a question nobody has answered yet

VARIABLES
    settled,    \* the answer to each first question
    outcome     \* what each site reports

vars == <<settled, outcome>>

Init ==
    /\ settled = [k \in FirstKeys |-> Unset]
    /\ outcome = [s \in Sites |-> Pending]

\* A question is asked for one of the sites that share it.
Settle(s) ==
    /\ settled[FirstKey(s)] = Unset
    /\ \E a \in Replies(s, FirstKey(s)) :
         settled' = [settled EXCEPT ![FirstKey(s)] = a]
    /\ UNCHANGED outcome

\* A site whose file, match count or resolver is at fault needs no answer.
FailAlone(s) ==
    /\ outcome[s] = Pending
    /\ \E v \in {"mismatch", "failed"}, c \in Versions \cup {Blank} :
         outcome' = [outcome EXCEPT ![s] = Failure(v, c)]
    /\ UNCHANGED settled

Take(s) ==
    /\ outcome[s] = Pending
    /\ settled[FirstKey(s)] # Unset
    /\ \E c \in Versions \cup {Blank}, d \in BOOLEAN :
         outcome' = [outcome EXCEPT ![s] = Reading(s, c, settled[FirstKey(s)], d)]
    /\ UNCHANGED settled

Next == \E s \in Sites : Settle(s) \/ FailAlone(s) \/ Take(s)

Spec == Init /\ [][Next]_vars
=============================================================================
