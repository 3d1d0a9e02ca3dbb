---------------------------- MODULE HostLimiter ----------------------------
(***************************************************************************)
(* What internal/httpclient promises the resolvers, without channels,      *)
(* replies, delays or a retry counter: a host serves a bounded number of   *)
(* requests at once, a host that closed admits nobody until it reopens, a  *)
(* request tries a bounded number of times, and is answered once.          *)
(***************************************************************************)
EXTENDS Integers, FiniteSets

CONSTANTS
    Requests,
    Hosts,
    HostOf,
    Limit,  \* how many requests a host serves at once
    Tries   \* how often a request may enter its host's queue

VARIABLES
    waiting,  \* the requests in a queue
    flying,   \* the requests being served
    closed,   \* the hosts that admit nobody
    left,     \* the tries each request has left
    verdict   \* what each was told, "none" before

vars == <<waiting, flying, closed, left, verdict>>

Served(h) == {r \in flying : HostOf[r] = h}

Resting(r) == r \notin waiting \cup flying /\ verdict[r] = "none"

Init ==
    /\ waiting = {}
    /\ flying = {}
    /\ closed = {}
    /\ left = [r \in Requests |-> Tries]
    /\ verdict = [r \in Requests |-> "none"]

\* Every try costs one, also one that leaves the queue unserved.
Enter(r) ==
    /\ Resting(r)
    /\ left[r] > 0
    /\ HostOf[r] \notin closed
    /\ waiting' = waiting \cup {r}
    /\ left' = [left EXCEPT ![r] = @ - 1]
    /\ UNCHANGED <<flying, closed, verdict>>

Serve(r) ==
    /\ r \in waiting
    /\ Cardinality(Served(HostOf[r])) < Limit
    /\ waiting' = waiting \ {r}
    /\ flying' = flying \cup {r}
    /\ UNCHANGED <<closed, left, verdict>>

Tell(r, v) ==
    /\ verdict' = [verdict EXCEPT ![r] = v]
    /\ left' = [left EXCEPT ![r] = 0]

GiveUp(r) == left[r] = 0 /\ Tell(r, "gaveUp")

GoOn == UNCHANGED <<left, verdict>>

Unserved(r) ==
    /\ r \in waiting
    /\ waiting' = waiting \ {r}
    /\ GoOn \/ GiveUp(r)
    /\ UNCHANGED <<flying, closed>>

\* Only a request that was served is told an answer; what it heard may close
\* its host, or open it.
Land(r) ==
    /\ r \in flying
    /\ flying' = flying \ {r}
    /\ closed' \in {closed, closed \cup {HostOf[r]}, closed \ {HostOf[r]}}
    /\ \/ GoOn
       \/ GiveUp(r)
       \/ \E v \in {"returned", "notFound", "quota"} : Tell(r, v)
    /\ UNCHANGED waiting

\* Between two tries a request is told that its host is closed, that it has
\* tried often enough, or that it was cancelled.
End(r) ==
    /\ Resting(r)
    /\ \/ HostOf[r] \in closed /\ Tell(r, "quota")
       \/ GiveUp(r)
       \/ Tell(r, "cancelled")
    /\ UNCHANGED <<waiting, flying, closed>>

Reopen(h) ==
    /\ h \in closed
    /\ closed' = closed \ {h}
    /\ UNCHANGED <<waiting, flying, left, verdict>>

Next ==
    \/ \E r \in Requests : Enter(r) \/ Serve(r) \/ Unserved(r) \/ Land(r) \/ End(r)
    \/ \E h \in Hosts : Reopen(h)

Spec == Init /\ [][Next]_vars
=============================================================================
