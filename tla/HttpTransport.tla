--------------------------- MODULE HttpTransport ---------------------------
(***************************************************************************)
(* internal/httpclient: the retry transport around the per-host limiter    *)
(* that every resolver's requests pass through.                            *)
(*                                                                         *)
(* A request is at                                                         *)
(*   "check"    entering the limiter for an attempt                        *)
(*   "queued"   waiting for one of its host's slots                        *)
(*   "sent"     on the wire, holding a slot                                *)
(*   "answered" holding a slot and what the attempt got back               *)
(*   "cooling"  waiting out a 429's Retry-After                            *)
(*   "backoff"  waiting out the delay before its next attempt              *)
(*   "over"                                                                *)
(***************************************************************************)
EXTENDS Integers, FiniteSets

CONSTANTS
    Requests,
    Hosts,
    HostOf,           \* the host of each request's URL
    ConfiguredLimit,  \* Config.HostConcurrency
    DefaultLimit,     \* DefaultHostConcurrency
    MaxRetries

ASSUME TransportAssumption ==
    /\ IsFiniteSet(Requests)
    /\ HostOf \in [Requests -> Hosts]
    /\ ConfiguredLimit \in Int
    /\ DefaultLimit \in Nat \ {0}
    /\ MaxRetries \in Nat

VARIABLES
    pc,
    attempt,    \* the retry loop's counter, 0 when there is no loop
    reply,      \* what the attempt under way got back, NoReply before
    slots,      \* the tokens in each host's channel
    exhausted,  \* the hosts marked spent whose reset is still ahead
    outcome,    \* what RoundTrip returned
    reported    \* auxiliary: the hosts that ever reported their quota spent

vars == <<pc, attempt, reply, slots, exhausted, outcome, reported>>

Places == {"check", "queued", "sent", "answered", "cooling", "backoff", "over"}

Statuses == {"ok", "missing", "forbidden", "limited", "broken", "error"}

Replies == [status : Statuses, spent : BOOLEAN]

NoReply == [status |-> "error", spent |-> FALSE]

Outcomes == {"none", "returned", "notFound", "quota", "gaveUp", "cancelled"}

Limit == IF ConfiguredLimit < 1 THEN DefaultLimit ELSE ConfiguredLimit

\* Mutant: one window for every host.
SpentAnywhere(h) == exhausted # {}

Spent(h) == h \in exhausted

HoldsSlot(r) == pc[r] \in {"sent", "answered"}

Holders(h) == {r \in Requests : HostOf[r] = h /\ HoldsSlot(r)}

TypeOK ==
    /\ pc \in [Requests -> Places]
    /\ attempt \in [Requests -> 0..MaxRetries]
    /\ reply \in [Requests -> Replies]
    /\ slots \in [Hosts -> Int]
    /\ exhausted \subseteq Hosts
    /\ outcome \in [Requests -> Outcomes]
    /\ reported \subseteq Hosts

Init ==
    /\ pc = [r \in Requests |-> "check"]
    /\ attempt = [r \in Requests |-> 0]
    /\ reply = [r \in Requests |-> NoReply]
    /\ slots = [h \in Hosts |-> 0]
    /\ exhausted = {}
    /\ outcome = [r \in Requests |-> "none"]
    /\ reported = {}

----------------------------------------------------------------------------
(* How an attempt or the request ends.                                      *)

Move(r, p) == pc' = [pc EXCEPT ![r] = p]

Drop(r) == reply' = [reply EXCEPT ![r] = NoReply]

Return(r, o) ==
    /\ Move(r, "over")
    /\ Drop(r)
    /\ attempt' = [attempt EXCEPT ![r] = 0]
    /\ outcome' = [outcome EXCEPT ![r] = o]

\* Mutant: the loop's bound counts the retries, not the attempts.
RetryOnceMore(r) ==
    IF attempt[r] <= MaxRetries
    THEN /\ Move(r, "backoff")
         /\ Drop(r)
         /\ attempt' = [attempt EXCEPT ![r] = @ + 1]
         /\ UNCHANGED outcome
    ELSE Return(r, "gaveUp")

\* The loop's continue: one more attempt after a delay, or, past the last
\* one, a RetryableError.
Retry(r) ==
    IF attempt[r] < MaxRetries
    THEN /\ Move(r, "backoff")
         /\ Drop(r)
         /\ attempt' = [attempt EXCEPT ![r] = @ + 1]
         /\ UNCHANGED outcome
    ELSE Return(r, "gaveUp")

----------------------------------------------------------------------------
(* hostLimiter.RoundTrip                                                    *)

\* checkExhausted on a host whose window is still closed.
Refuse(r) ==
    /\ pc[r] = "check"
    /\ Spent(HostOf[r])
    /\ Return(r, "quota")
    /\ UNCHANGED <<slots, exhausted, reported>>

\* Mutant: the check is left out.
AdmitAnyway(r) ==
    /\ pc[r] = "check"
    /\ Move(r, "queued")
    /\ UNCHANGED <<attempt, reply, slots, exhausted, outcome, reported>>

\* checkExhausted on a host never marked, or whose window has reopened.
Admit(r) ==
    /\ pc[r] = "check"
    /\ ~Spent(HostOf[r])
    /\ Move(r, "queued")
    /\ UNCHANGED <<attempt, reply, slots, exhausted, outcome, reported>>

\* Mutant: the channel is one longer than the limit.
SendOverfull(r) ==
    /\ pc[r] = "queued"
    /\ slots[HostOf[r]] <= Limit
    /\ slots' = [slots EXCEPT ![HostOf[r]] = @ + 1]
    /\ Move(r, "sent")
    /\ UNCHANGED <<attempt, reply, exhausted, outcome, reported>>

Send(r) ==
    /\ pc[r] = "queued"
    /\ slots[HostOf[r]] < Limit
    /\ slots' = [slots EXCEPT ![HostOf[r]] = @ + 1]
    /\ Move(r, "sent")
    /\ UNCHANGED <<attempt, reply, exhausted, outcome, reported>>

\* The select's other branch: the context is done, by http.Client.Timeout or
\* an interrupted run, which may come at any moment. Its error is retried like
\* any other, up to the select before the next attempt.
LeaveQueue(r) ==
    /\ pc[r] = "queued"
    /\ Retry(r)
    /\ UNCHANGED <<slots, exhausted, reported>>

\* The inner transport returns: an error, or a response of any status, with or
\* without a quota header that says nothing remains.
Receive(r) ==
    /\ pc[r] = "sent"
    /\ \E a \in Replies :
         /\ a.status = "error" => ~a.spent
         /\ reply' = [reply EXCEPT ![r] = a]
         /\ reported' = IF a.spent THEN reported \cup {HostOf[r]} ELSE reported
    /\ Move(r, "answered")
    /\ UNCHANGED <<attempt, slots, exhausted, outcome>>

\* l.exhausted[host] = reset, with whatever reset the header gave: ahead, or
\* already past, which leaves the host open even if a newer response had
\* closed it.
Note(r) ==
    IF reply[r].spent
    THEN exhausted' \in {exhausted \cup {HostOf[r]}, exhausted \ {HostOf[r]}}
    ELSE UNCHANGED exhausted

\* Mutant: the release is not deferred, and an error returns before it.
ReleaseUnlessError(r) ==
    slots' = IF reply[r].status = "error" THEN slots
             ELSE [slots EXCEPT ![HostOf[r]] = @ - 1]

Release(r) == slots' = [slots EXCEPT ![HostOf[r]] = @ - 1]

\* The limiter's return, one step with the mark before it: whoever waits for
\* the slot finds the host already marked.
Leave(r) ==
    /\ pc[r] = "answered"
    /\ Note(r)
    /\ Release(r)
    /\ UNCHANGED reported

\* A 403 or 429 that came with a spent quota is the limiter's own error.
QuotaError(r) == reply[r].spent /\ reply[r].status \in {"forbidden", "limited"}

----------------------------------------------------------------------------
(* What retryTransport.RoundTrip makes of it.                               *)

\* isRetryable: a RateLimitError goes straight back.
LeaveWithQuotaError(r) ==
    /\ Leave(r)
    /\ QuotaError(r)
    /\ Return(r, "quota")

LeaveNotFound(r) ==
    /\ Leave(r)
    /\ reply[r].status = "missing"
    /\ Return(r, "notFound")

\* Any status shouldRetry does not name, a 403 without a spent quota included.
LeaveWithResponse(r) ==
    /\ Leave(r)
    /\ reply[r].status \in {"ok", "forbidden"}
    /\ ~QuotaError(r)
    /\ Return(r, "returned")

\* Mutant: without isRetryable.
LeaveToRetryAny(r) ==
    /\ Leave(r)
    /\ reply[r].status \in {"error", "broken", "limited"}
    /\ Retry(r)

LeaveToRetry(r) ==
    /\ Leave(r)
    /\ reply[r].status \in {"error", "broken", "limited"}
    /\ ~QuotaError(r)
    /\ Retry(r)

\* A 429 whose Retry-After is positive and within MaxDelay.
LeaveToCool(r) ==
    /\ Leave(r)
    /\ reply[r].status = "limited"
    /\ ~QuotaError(r)
    /\ Move(r, "cooling")
    /\ Drop(r)
    /\ UNCHANGED <<attempt, outcome>>

Cooled(r) ==
    /\ pc[r] = "cooling"
    /\ Retry(r)
    /\ UNCHANGED <<slots, exhausted, reported>>

BackedOff(r) ==
    /\ pc[r] = "backoff"
    /\ Move(r, "check")
    /\ UNCHANGED <<attempt, reply, slots, exhausted, outcome, reported>>

\* Either wait ends at once when the context is done.
Cancel(r) ==
    /\ pc[r] \in {"cooling", "backoff"}
    /\ Return(r, "cancelled")
    /\ UNCHANGED <<slots, exhausted, reported>>

----------------------------------------------------------------------------

\* time.Now passes a spent host's reset.
Reopen(h) ==
    /\ Spent(h)
    /\ exhausted' = exhausted \ {h}
    /\ UNCHANGED <<pc, attempt, reply, slots, outcome, reported>>

AllOver ==
    /\ \A r \in Requests : pc[r] = "over"
    /\ UNCHANGED vars

Step(r) ==
    \/ Refuse(r) \/ Admit(r) \/ Send(r)
    \/ Receive(r)
    \/ LeaveWithQuotaError(r) \/ LeaveNotFound(r) \/ LeaveWithResponse(r)
    \/ LeaveToRetry(r) \/ LeaveToCool(r)
    \/ Cooled(r) \/ BackedOff(r)

Interrupt(r) == LeaveQueue(r) \/ Cancel(r)

Next ==
    \/ \E r \in Requests : Step(r) \/ Interrupt(r)
    \/ \E h \in Hosts : Reopen(h)
    \/ AllOver

\* Servers answer and timers fire; nothing says a context is ever done.
Spec == Init /\ [][Next]_vars /\ \A r \in Requests : WF_vars(Step(r))

----------------------------------------------------------------------------
(* Properties                                                               *)

\* Per host, the channel's tokens are the requests between taking and giving
\* back a slot, never more than the limit, whichever way an attempt ended:
\* a token kept by an error path would close the host for the whole run.
HostBound ==
    \A h \in Hosts :
      /\ slots[h] = Cardinality(Holders(h))
      /\ slots[h] <= Limit

\* A request fails for a spent quota only if its own host said so, and the
\* others go on.
QuotaOfOwnHost ==
    \A r \in Requests : outcome[r] = "quota" => HostOf[r] \in reported

\* RetryableError comes only after MaxRetries retries; a resolver is handed
\* neither an answer worth a retry nor a spent quota as if it were a result;
\* and a 404 or a spent quota is never retried.
OutcomeHonest ==
    [][\A r \in Requests :
         /\ outcome[r] = "none" /\ outcome'[r] = "gaveUp" => attempt[r] = MaxRetries
         /\ outcome[r] = "none" /\ outcome'[r] = "returned" =>
              reply[r].status \in {"ok", "forbidden"} /\ ~QuotaError(r)
         /\ attempt'[r] > attempt[r] => reply[r].status # "missing" /\ ~QuotaError(r)]_vars

Queued == {r \in Requests : pc[r] = "queued"}

InFlight == {r \in Requests : HoldsSlot(r)}

\* The attempts a request may still make, in the limiter's terms.
TriesLeft ==
    [r \in Requests |->
       IF pc[r] = "over" THEN 0
       ELSE MaxRetries - attempt[r] + (IF pc[r] \in {"check", "backoff"} THEN 1 ELSE 0)]

Limiter == INSTANCE HostLimiter WITH
             Tries <- MaxRetries + 1,
             waiting <- Queued,
             flying <- InFlight,
             closed <- exhausted,
             left <- TriesLeft,
             verdict <- outcome

\* Whatever servers, timers and interrupts do, the client is a limiter: from
\* the moment a host is marked spent until its window reopens no further
\* request joins its queue (what can still go out is what was already
\* waiting), no request is tried more than MaxRetries + 1 times, waits
\* included, and none is answered twice or without having been served.
ImplementsLimiter == Limiter!Spec

\* Every request ends: no wait for a slot, a delay or a retry goes on for ever.
EveryRequestEnds == \A r \in Requests : <>(pc[r] = "over")
=============================================================================
