------------------------ MODULE HttpTransportProofs ------------------------
(***************************************************************************)
(* What holds of the retry transport and its host limiter for every number *)
(* of requests and hosts, every limit, and every answer of the servers.    *)
(***************************************************************************)
EXTENDS HttpTransport, FiniteSetTheorems, TLAPS

\* A request remembers a reply only between receiving it and giving back its
\* slot; if that reply, or the outcome, speaks of a spent quota, its host has
\* reported one, and so has every host marked spent.
ReportedInv ==
    /\ exhausted \subseteq reported
    /\ \A r \in Requests : reply[r].spent => HostOf[r] \in reported
    /\ QuotaOfOwnHost

IInv == TypeOK /\ HostBound /\ ReportedInv

----------------------------------------------------------------------------
(* Slots.                                                                   *)

\* The requests holding one of a host's slots can be counted.
LEMMA HoldersFinite ==
    ASSUME NEW h \in Hosts
    PROVE  IsFiniteSet(Holders(h)) /\ Cardinality(Holders(h)) \in Nat
BY FS_Subset, FS_CardinalityType, TransportAssumption DEF Holders

\* Whatever the flag, a host has at least one slot.
LEMMA LimitType == Limit \in Nat \ {0}
BY TransportAssumption DEF Limit

\* A step that neither takes nor gives back a slot leaves the bound alone.
LEMMA SlotsStay ==
    ASSUME TypeOK, HostBound, NEW r \in Requests, NEW p \in Places,
           HoldsSlot(r) <=> p \in {"sent", "answered"},
           pc' = [pc EXCEPT ![r] = p], slots' = slots
    PROVE  HostBound'
<1>1. \A h \in Hosts : Holders(h)' = Holders(h)
  BY DEF Holders, HoldsSlot, TypeOK
<1>. QED BY <1>1 DEF HostBound

\* Giving a slot back takes exactly the request that held it out of the count,
\* wherever it goes next.
LEMMA SlotReleased ==
    ASSUME TypeOK, HostBound, NEW r \in Requests, NEW p \in Places,
           pc[r] = "answered", p \notin {"sent", "answered"},
           pc' = [pc EXCEPT ![r] = p], Release(r)
    PROVE  HostBound' /\ slots' \in [Hosts -> Int]
<1>. DEFINE h == HostOf[r]
<1>1. h \in Hosts
  BY TransportAssumption
<1>2. r \in Holders(h) /\ Holders(h)' = Holders(h) \ {r}
  BY DEF Holders, HoldsSlot, TypeOK
<1>3. \A g \in Hosts \ {h} : Holders(g)' = Holders(g)
  BY DEF Holders, HoldsSlot, TypeOK
<1>4. Cardinality(Holders(h)') = Cardinality(Holders(h)) - 1
  <2>1. IsFiniteSet(Holders(h))
    BY <1>1, HoldersFinite
  <2>2. Cardinality(Holders(h) \ {r}) = Cardinality(Holders(h)) - 1
    BY <1>2, <2>1, FS_RemoveElement, Zenon
  <2>. QED BY <1>2, <2>2
<1>5. slots' = [slots EXCEPT ![h] = @ - 1]
  BY DEF Release
<1>6. slots'[h] = slots[h] - 1 /\ \A g \in Hosts \ {h} : slots'[g] = slots[g]
  BY <1>1, <1>5 DEF TypeOK
<1>7. slots[h] \in Int /\ slots[h] <= Limit /\ slots[h] = Cardinality(Holders(h))
  BY <1>1 DEF TypeOK, HostBound
<1>8. slots'[h] = Cardinality(Holders(h)') /\ slots'[h] <= Limit
  BY <1>4, <1>6, <1>7, LimitType
<1>9. \A g \in Hosts \ {h} : slots'[g] = Cardinality(Holders(g)') /\ slots'[g] <= Limit
  BY <1>3, <1>6 DEF HostBound
<1>10. HostBound'
  BY <1>8, <1>9 DEF HostBound
<1>11. slots' \in [Hosts -> Int]
  <2>1. slots[h] - 1 \in Int
    BY <1>7
  <2>. QED BY <1>1, <1>5, <2>1 DEF TypeOK
<1>. QED BY <1>10, <1>11

----------------------------------------------------------------------------
(* How a request moves on.                                                  *)

\* RoundTrip's return keeps every variable it writes in its type, and blames
\* a spent quota only where the caller can show one.
LEMMA ReturnFacts ==
    ASSUME TypeOK, NEW r \in Requests, NEW o \in Outcomes, Return(r, o)
    PROVE  /\ pc' = [pc EXCEPT ![r] = "over"]
           /\ pc' \in [Requests -> Places]
           /\ attempt' \in [Requests -> 0..MaxRetries]
           /\ reply' \in [Requests -> Replies]
           /\ outcome' \in [Requests -> Outcomes]
           /\ \A q \in Requests : reply'[q].spent => reply[q].spent
           /\ \A q \in Requests : outcome'[q] = "quota" =>
                outcome[q] = "quota" \/ (q = r /\ o = "quota")
<1>1. 0 \in 0..MaxRetries
  BY TransportAssumption
<1>2. NoReply \in Replies /\ ~NoReply.spent
  BY DEF NoReply, Replies, Statuses
<1>. QED BY <1>1, <1>2 DEF Return, Move, Drop, TypeOK, Places

\* So does the retry loop, whose counter never passes MaxRetries.
LEMMA RetryFacts ==
    ASSUME TypeOK, NEW r \in Requests, Retry(r)
    PROVE  /\ \E p \in {"backoff", "over"} : pc' = [pc EXCEPT ![r] = p]
           /\ pc' \in [Requests -> Places]
           /\ attempt' \in [Requests -> 0..MaxRetries]
           /\ reply' \in [Requests -> Replies]
           /\ outcome' \in [Requests -> Outcomes]
           /\ \A q \in Requests : reply'[q].spent => reply[q].spent
           /\ \A q \in Requests : outcome'[q] = "quota" => outcome[q] = "quota"
<1>1. CASE attempt[r] < MaxRetries
  <2>1. attempt[r] + 1 \in 0..MaxRetries
    BY <1>1, TransportAssumption DEF TypeOK
  <2>2. NoReply \in Replies /\ ~NoReply.spent
    BY DEF NoReply, Replies, Statuses
  <2>. QED BY <1>1, <2>1, <2>2 DEF Retry, Move, Drop, TypeOK, Places
<1>2. CASE ~(attempt[r] < MaxRetries)
  <2>1. Return(r, "gaveUp") /\ "gaveUp" \in Outcomes
    BY <1>2 DEF Retry, Outcomes
  <2>. QED BY <2>1, ReturnFacts
<1>. QED BY <1>1, <1>2

\* Marking the host, or opening it again, touches no other host, and only
\* after that host's own report.
LEMMA NoteFacts ==
    ASSUME TypeOK, ReportedInv, NEW r \in Requests, Note(r)
    PROVE  exhausted' \subseteq Hosts /\ exhausted' \subseteq reported
<1>1. HostOf[r] \in Hosts
  BY TransportAssumption
<1>. QED BY <1>1 DEF Note, TypeOK, ReportedInv

----------------------------------------------------------------------------
(* The invariant is inductive.                                              *)

\* A client just made holds no slot and has marked no host.
LEMMA InitIInv == Init => IInv
<1>. SUFFICES ASSUME Init PROVE IInv
  OBVIOUS
<1>1. TypeOK
  BY TransportAssumption DEF Init, TypeOK, Places, Replies, Statuses, NoReply, Outcomes
<1>2. HostBound
  <2>1. \A h \in Hosts : Holders(h) = {}
    BY DEF Init, Holders, HoldsSlot
  <2>. QED BY <2>1, FS_EmptySet, LimitType DEF Init, HostBound
<1>3. ReportedInv
  BY DEF Init, ReportedInv, QuotaOfOwnHost, NoReply
<1>. QED BY <1>1, <1>2, <1>3 DEF IInv

\* The common part of the five ways to leave an attempt: the slot is given
\* back and the host marked, whatever becomes of the request.
LEMMA LeaveKeeps ==
    ASSUME IInv, NEW r \in Requests, Leave(r),
           NEW p \in Places \ {"sent", "answered"}, pc' = [pc EXCEPT ![r] = p],
           attempt' \in [Requests -> 0..MaxRetries],
           reply' \in [Requests -> Replies],
           outcome' \in [Requests -> Outcomes],
           \A q \in Requests : reply'[q].spent => reply[q].spent,
           \A q \in Requests : outcome'[q] = "quota" =>
             outcome[q] = "quota" \/ (q = r /\ reply[r].spent)
    PROVE  IInv'
<1>1. HostBound' /\ slots' \in [Hosts -> Int]
  BY SlotReleased DEF IInv, Leave
<1>2. exhausted' \subseteq Hosts /\ exhausted' \subseteq reported
  BY NoteFacts DEF IInv, Leave
<1>3. pc' \in [Requests -> Places] /\ reported' = reported
  BY DEF IInv, TypeOK, Leave
<1>4. TypeOK'
  BY <1>1, <1>2, <1>3 DEF IInv, TypeOK
<1>5. ReportedInv'
  BY <1>2, <1>3 DEF IInv, ReportedInv, QuotaOfOwnHost
<1>. QED BY <1>1, <1>4, <1>5 DEF IInv

\* What ends a wait, for a slot or a delay, without a slot: the request
\* returns or goes on to its next attempt.
LEMMA WaitKeeps ==
    ASSUME IInv, NEW r \in Requests, ~HoldsSlot(r),
           Retry(r) \/ Return(r, "cancelled") \/ (Spent(HostOf[r]) /\ Return(r, "quota")),
           UNCHANGED <<slots, exhausted, reported>>
    PROVE  IInv'
<1>1. TypeOK /\ HostBound /\ ReportedInv
  BY DEF IInv
<1>2. /\ \E p \in {"backoff", "over"} : pc' = [pc EXCEPT ![r] = p]
      /\ pc' \in [Requests -> Places]
      /\ attempt' \in [Requests -> 0..MaxRetries]
      /\ reply' \in [Requests -> Replies]
      /\ outcome' \in [Requests -> Outcomes]
      /\ \A q \in Requests : reply'[q].spent => reply[q].spent
      /\ \A q \in Requests : outcome'[q] = "quota" =>
           outcome[q] = "quota" \/ HostOf[q] \in reported
  <2>1. CASE Retry(r)
    BY <1>1, <2>1, RetryFacts
  <2>2. CASE Return(r, "cancelled")
    <3>1. "cancelled" \in Outcomes
      BY DEF Outcomes
    <3>. QED BY <1>1, <2>2, <3>1, ReturnFacts
  <2>3. CASE Spent(HostOf[r]) /\ Return(r, "quota")
    <3>1. "quota" \in Outcomes
      BY DEF Outcomes
    <3>2. HostOf[r] \in reported
      BY <1>1, <2>3 DEF Spent, ReportedInv
    <3>. QED BY <1>1, <2>3, <3>1, <3>2, ReturnFacts
  <2>. QED BY <2>1, <2>2, <2>3
<1>3. TypeOK'
  BY <1>1, <1>2 DEF TypeOK
<1>4. HostBound'
  <2>1. PICK p \in {"backoff", "over"} : pc' = [pc EXCEPT ![r] = p]
    BY <1>2
  <2>2. p \in Places /\ p \notin {"sent", "answered"}
    BY DEF Places
  <2>. QED BY <1>1, <2>1, <2>2, SlotsStay
<1>5. ReportedInv'
  BY <1>1, <1>2 DEF ReportedInv, QuotaOfOwnHost
<1>. QED BY <1>3, <1>4, <1>5 DEF IInv

\* Each step of a request keeps the invariant.
LEMMA StepIInv ==
    ASSUME IInv, NEW r \in Requests, Step(r) \/ Interrupt(r)
    PROVE  IInv'
<1>0. TypeOK /\ HostBound /\ ReportedInv
  BY DEF IInv
<1>1. CASE Refuse(r)
  BY <1>1, WaitKeeps DEF Refuse, HoldsSlot
<1>2. CASE LeaveQueue(r)
  BY <1>2, WaitKeeps DEF LeaveQueue, HoldsSlot
<1>3. CASE Cooled(r)
  BY <1>3, WaitKeeps DEF Cooled, HoldsSlot
<1>4. CASE Cancel(r)
  BY <1>4, WaitKeeps DEF Cancel, HoldsSlot
<1>5. CASE Admit(r)
  <2>1. TypeOK' /\ ReportedInv'
    BY <1>0, <1>5 DEF Admit, Move, TypeOK, ReportedInv, QuotaOfOwnHost, Places
  <2>2. HostBound'
    BY <1>0, <1>5, SlotsStay DEF Admit, Move, HoldsSlot, Places
  <2>. QED BY <2>1, <2>2 DEF IInv
<1>6. CASE BackedOff(r)
  <2>1. TypeOK' /\ ReportedInv'
    BY <1>0, <1>6 DEF BackedOff, Move, TypeOK, ReportedInv, QuotaOfOwnHost, Places
  <2>2. HostBound'
    BY <1>0, <1>6, SlotsStay DEF BackedOff, Move, HoldsSlot, Places
  <2>. QED BY <2>1, <2>2 DEF IInv
<1>7. CASE Send(r)
  <2>. DEFINE h == HostOf[r]
  <2>1. h \in Hosts
    BY TransportAssumption
  <2>2. /\ slots[h] \in Int /\ slots[h] < Limit /\ slots[h] = Cardinality(Holders(h))
        /\ slots' = [slots EXCEPT ![h] = @ + 1]
        /\ pc[r] = "queued" /\ pc' = [pc EXCEPT ![r] = "sent"]
    BY <1>0, <1>7, <2>1 DEF Send, Move, TypeOK, HostBound
  <2>3. Holders(h)' = Holders(h) \cup {r} /\ r \notin Holders(h)
    BY <1>0, <2>2 DEF Holders, HoldsSlot, TypeOK
  <2>4. \A g \in Hosts \ {h} : Holders(g)' = Holders(g) /\ slots'[g] = slots[g]
    BY <1>0, <2>2 DEF Holders, HoldsSlot, TypeOK
  <2>5. Cardinality(Holders(h)') = Cardinality(Holders(h)) + 1
    BY <2>1, <2>3, HoldersFinite, FS_AddElement
  <2>6. slots'[h] = slots[h] + 1
    BY <1>0, <2>1, <2>2 DEF TypeOK
  <2>7. slots'[h] = Cardinality(Holders(h)') /\ slots'[h] <= Limit
    BY <2>2, <2>5, <2>6, LimitType
  <2>8. \A g \in Hosts \ {h} : slots'[g] = Cardinality(Holders(g)') /\ slots'[g] <= Limit
    BY <1>0, <2>4 DEF HostBound
  <2>9. HostBound'
    BY <2>7, <2>8 DEF HostBound
  <2>10. slots' \in [Hosts -> Int]
    <3>1. slots[h] + 1 \in Int
      BY <2>2
    <3>. QED BY <1>0, <2>1, <2>2, <3>1 DEF TypeOK
  <2>11. TypeOK' /\ ReportedInv'
    BY <1>0, <1>7, <2>10 DEF Send, Move, TypeOK, ReportedInv, QuotaOfOwnHost, Places
  <2>. QED BY <2>9, <2>11 DEF IInv
<1>8. CASE Receive(r)
  <2>1. PICK a \in Replies :
          /\ reply' = [reply EXCEPT ![r] = a]
          /\ reported' = IF a.spent THEN reported \cup {HostOf[r]} ELSE reported
    BY <1>8 DEF Receive
  <2>2. HostOf[r] \in Hosts
    BY TransportAssumption
  <2>3. reported \subseteq reported' /\ reported' \subseteq Hosts
    BY <1>0, <2>1, <2>2 DEF TypeOK
  <2>4. TypeOK'
    BY <1>0, <1>8, <2>1, <2>3 DEF Receive, Move, TypeOK, Places
  <2>5. ReportedInv'
    <3>1. \A q \in Requests : reply'[q].spent => HostOf[q] \in reported'
      BY <1>0, <2>1, <2>3 DEF TypeOK, ReportedInv
    <3>2. exhausted' = exhausted /\ outcome' = outcome
      BY <1>8 DEF Receive
    <3>. QED BY <1>0, <2>3, <3>1, <3>2 DEF ReportedInv, QuotaOfOwnHost
  <2>6. HostBound'
    BY <1>0, <1>8, SlotsStay DEF Receive, Move, HoldsSlot, Places
  <2>. QED BY <2>4, <2>5, <2>6 DEF IInv
<1>9. CASE LeaveWithQuotaError(r)
  <2>1. "quota" \in Outcomes /\ "over" \in Places \ {"sent", "answered"}
    BY DEF Outcomes, Places
  <2>2. Leave(r) /\ Return(r, "quota") /\ reply[r].spent
    BY <1>9 DEF LeaveWithQuotaError, QuotaError
  <2>. QED BY <1>0, <2>1, <2>2, ReturnFacts, LeaveKeeps
<1>10. CASE LeaveNotFound(r)
  <2>1. "notFound" \in Outcomes /\ "over" \in Places \ {"sent", "answered"}
    BY DEF Outcomes, Places
  <2>2. Leave(r) /\ Return(r, "notFound")
    BY <1>10 DEF LeaveNotFound
  <2>. QED BY <1>0, <2>1, <2>2, ReturnFacts, LeaveKeeps
<1>11. CASE LeaveWithResponse(r)
  <2>1. "returned" \in Outcomes /\ "over" \in Places \ {"sent", "answered"}
    BY DEF Outcomes, Places
  <2>2. Leave(r) /\ Return(r, "returned")
    BY <1>11 DEF LeaveWithResponse
  <2>. QED BY <1>0, <2>1, <2>2, ReturnFacts, LeaveKeeps
<1>12. CASE LeaveToRetry(r)
  <2>1. Leave(r) /\ Retry(r)
    BY <1>12 DEF LeaveToRetry
  <2>2. PICK p \in {"backoff", "over"} : pc' = [pc EXCEPT ![r] = p]
    BY <1>0, <2>1, RetryFacts
  <2>3. p \in Places \ {"sent", "answered"}
    BY DEF Places
  <2>. QED BY <1>0, <2>1, <2>2, <2>3, RetryFacts, LeaveKeeps
<1>13. CASE LeaveToCool(r)
  <2>1. Leave(r) /\ pc' = [pc EXCEPT ![r] = "cooling"] /\ "cooling" \in Places
    BY <1>13 DEF LeaveToCool, Move, Places
  <2>2. NoReply \in Replies /\ ~NoReply.spent
    BY DEF NoReply, Replies, Statuses
  <2>3. /\ reply' = [reply EXCEPT ![r] = NoReply]
        /\ attempt' = attempt /\ outcome' = outcome
    BY <1>13 DEF LeaveToCool, Drop
  <2>4. /\ reply' \in [Requests -> Replies]
        /\ \A q \in Requests : reply'[q].spent => reply[q].spent
        /\ attempt' \in [Requests -> 0..MaxRetries]
        /\ outcome' \in [Requests -> Outcomes]
    BY <1>0, <2>2, <2>3 DEF TypeOK
  <2>. QED BY <2>1, <2>3, <2>4, LeaveKeeps
<1>. QED BY <1>1, <1>2, <1>3, <1>4, <1>5, <1>6, <1>7, <1>8, <1>9, <1>10, <1>11,
           <1>12, <1>13 DEF Step, Interrupt

\* A window that reopens disturbs none of it.
LEMMA NextIInv == IInv /\ [Next]_vars => IInv'
<1>. SUFFICES ASSUME IInv, [Next]_vars PROVE IInv'
  OBVIOUS
<1>1. CASE UNCHANGED vars
  BY <1>1 DEF vars, IInv, TypeOK, HostBound, Holders, HoldsSlot, ReportedInv, QuotaOfOwnHost
<1>2. ASSUME NEW h \in Hosts, Reopen(h) PROVE IInv'
  BY <1>2 DEF Reopen, IInv, TypeOK, HostBound, Holders, HoldsSlot, ReportedInv, QuotaOfOwnHost
<1>. QED BY <1>1, <1>2, StepIInv DEF Next, AllOver

\* Hence the invariant holds throughout the life of a client.
THEOREM Invariance == Spec => []IInv
<1>. QED BY InitIInv, NextIInv, PTL DEF Spec

----------------------------------------------------------------------------
(* What follows from it.                                                    *)

\* Every variable keeps its type; the retry counter stays within MaxRetries.
THEOREM TypeCorrect == Spec => []TypeOK
<1>1. IInv => TypeOK
  BY DEF IInv
<1>. QED BY <1>1, Invariance, PTL

\* For any number of requests and hosts and any configured limit, a host's
\* tokens are exactly its requests in flight, at most Limit of them.
THEOREM HostsBounded == Spec => []HostBound
<1>1. IInv => HostBound
  BY DEF IInv
<1>. QED BY <1>1, Invariance, PTL

\* No request is ever failed for a quota that its own host has not reported
\* spent.
THEOREM QuotaIsOwn == Spec => []QuotaOfOwnHost
<1>1. IInv => QuotaOfOwnHost
  BY DEF IInv, ReportedInv
<1>. QED BY <1>1, Invariance, PTL

\* Between two attempts nothing is left of the last one's reply.
ReplyInv == \A r \in Requests : pc[r] # "answered" => reply[r] = NoReply

\* Only a request that moves changes any of its own state.
LEMMA OthersStay ==
    ASSUME TypeOK, NEW r \in Requests, Step(r) \/ Interrupt(r), NEW q \in Requests, q # r
    PROVE  /\ pc'[q] = pc[q] /\ reply'[q] = reply[q]
           /\ attempt'[q] = attempt[q] /\ outcome'[q] = outcome[q]
BY DEF TypeOK, Step, Interrupt, Refuse, Admit, Send, Receive,
       LeaveWithQuotaError, LeaveNotFound, LeaveWithResponse, LeaveToRetry,
       LeaveToCool, Cooled, BackedOff, LeaveQueue, Cancel, Return, Retry, Move, Drop

LEMMA ReturnOwn ==
    ASSUME TypeOK, NEW r \in Requests, NEW o \in Outcomes, Return(r, o)
    PROVE  /\ pc'[r] = "over" /\ reply'[r] = NoReply
           /\ ~(attempt'[r] > attempt[r]) /\ outcome'[r] = o
BY TransportAssumption DEF TypeOK, Return, Move, Drop

LEMMA RetryOwn ==
    ASSUME TypeOK, NEW r \in Requests, Retry(r)
    PROVE  /\ pc'[r] \in {"backoff", "over"} /\ reply'[r] = NoReply
           /\ \/ attempt'[r] > attempt[r] /\ outcome'[r] = outcome[r]
              \/ /\ ~(attempt'[r] > attempt[r]) /\ outcome'[r] = "gaveUp"
                 /\ attempt[r] = MaxRetries
<1>1. CASE attempt[r] < MaxRetries
  BY <1>1, TransportAssumption DEF TypeOK, Retry, Move, Drop
<1>2. CASE ~(attempt[r] < MaxRetries)
  <2>1. attempt[r] = MaxRetries
    BY <1>2, TransportAssumption DEF TypeOK
  <2>2. Return(r, "gaveUp") /\ "gaveUp" \in Outcomes
    BY <1>2 DEF Retry, Outcomes
  <2>. QED BY <2>1, <2>2, ReturnOwn
<1>. QED BY <1>1, <1>2

\* What a step does to the request that takes it.
Honest(r) ==
    /\ outcome[r] = "none" /\ outcome'[r] = "gaveUp" => attempt[r] = MaxRetries
    /\ outcome[r] = "none" /\ outcome'[r] = "returned" =>
         reply[r].status \in {"ok", "forbidden"} /\ ~QuotaError(r)
    /\ attempt'[r] > attempt[r] => reply[r].status # "missing" /\ ~QuotaError(r)

LEMMA StepHonest ==
    ASSUME TypeOK, ReplyInv, NEW r \in Requests, Step(r) \/ Interrupt(r)
    PROVE  Honest(r) /\ (pc'[r] # "answered" => reply'[r] = NoReply)
<1>0. attempt[r] \in Nat /\ pc \in [Requests -> Places] /\ reply \in [Requests -> Replies]
  BY TransportAssumption DEF TypeOK
<1>1. CASE Refuse(r) \/ LeaveWithQuotaError(r) \/ LeaveNotFound(r) \/ Cancel(r)
  <2>1. PICK o \in {"quota", "notFound", "cancelled"} : Return(r, o)
    BY <1>1 DEF Refuse, LeaveWithQuotaError, LeaveNotFound, Cancel
  <2>. QED BY <2>1, ReturnOwn DEF Honest, Outcomes
<1>2. CASE Admit(r) \/ Send(r) \/ BackedOff(r)
  <2>1. /\ pc[r] # "answered" /\ reply' = reply /\ attempt' = attempt /\ outcome' = outcome
    BY <1>2 DEF Admit, Send, BackedOff
  <2>. QED BY <1>0, <2>1 DEF Honest, ReplyInv
<1>3. CASE Receive(r)
  BY <1>0, <1>3 DEF Receive, Move, Honest
<1>4. CASE LeaveWithResponse(r)
  <2>1. Return(r, "returned") /\ reply[r].status \in {"ok", "forbidden"} /\ ~QuotaError(r)
    BY <1>4 DEF LeaveWithResponse
  <2>. QED BY <2>1, ReturnOwn DEF Honest, Outcomes
<1>5. CASE LeaveToRetry(r)
  <2>1. Retry(r) /\ reply[r].status # "missing" /\ ~QuotaError(r)
    BY <1>5 DEF LeaveToRetry
  <2>. QED BY <2>1, RetryOwn DEF Honest
<1>6. CASE LeaveToCool(r)
  BY <1>0, <1>6 DEF LeaveToCool, Drop, Move, Honest
<1>7. CASE Cooled(r) \/ LeaveQueue(r)
  <2>1. Retry(r) /\ reply[r] = NoReply
    BY <1>7 DEF Cooled, LeaveQueue, ReplyInv
  <2>2. reply[r].status # "missing" /\ ~QuotaError(r)
    BY <2>1 DEF NoReply, QuotaError
  <2>. QED BY <2>1, <2>2, RetryOwn DEF Honest
<1>. QED BY <1>1, <1>2, <1>3, <1>4, <1>5, <1>6, <1>7 DEF Step, Interrupt

\* Every step is honest about the request it moves, and about those it does not.
LEMMA NextHonest ==
    ASSUME TypeOK, ReplyInv, [Next]_vars
    PROVE  ReplyInv' /\ \A r \in Requests : Honest(r)
<1>1. CASE UNCHANGED vars \/ \E h \in Hosts : Reopen(h)
  <2>1. pc' = pc /\ reply' = reply /\ attempt' = attempt /\ outcome' = outcome
    BY <1>1 DEF vars, Reopen
  <2>2. \A r \in Requests : attempt[r] \in Int
    BY TransportAssumption DEF TypeOK
  <2>. QED BY <2>1, <2>2 DEF ReplyInv, Honest
<1>2. ASSUME NEW r \in Requests, Step(r) \/ Interrupt(r)
      PROVE  ReplyInv' /\ \A q \in Requests : Honest(q)
  <2>1. Honest(r) /\ (pc'[r] # "answered" => reply'[r] = NoReply)
    BY <1>2, StepHonest
  <2>2. \A q \in Requests : q # r =>
          /\ pc'[q] = pc[q] /\ reply'[q] = reply[q]
          /\ attempt'[q] = attempt[q] /\ outcome'[q] = outcome[q]
    BY <1>2, OthersStay
  <2>3. \A q \in Requests : attempt[q] \in Int
    BY TransportAssumption DEF TypeOK
  <2>4. \A q \in Requests : q # r => Honest(q)
    BY <2>2, <2>3 DEF Honest
  <2>. QED BY <2>1, <2>2, <2>4 DEF ReplyInv
<1>. QED BY <1>1, <1>2 DEF Next, AllOver

\* A request is given up only after its last retry, is handed no failure as a
\* result, and is not retried after an answer that is final.
THEOREM OutcomesHonest == Spec => OutcomeHonest
<1>1. Init => ReplyInv
  BY DEF Init, ReplyInv
<1>2. IInv /\ ReplyInv /\ [Next]_vars => ReplyInv'
  BY NextHonest DEF IInv
<1>3. IInv /\ ReplyInv /\ [Next]_vars => [\A r \in Requests : Honest(r)]_vars
  BY NextHonest DEF IInv
<1>4. [\A r \in Requests : Honest(r)]_vars =>
        [\A r \in Requests :
           /\ outcome[r] = "none" /\ outcome'[r] = "gaveUp" => attempt[r] = MaxRetries
           /\ outcome[r] = "none" /\ outcome'[r] = "returned" =>
                reply[r].status \in {"ok", "forbidden"} /\ ~QuotaError(r)
           /\ attempt'[r] > attempt[r] => reply[r].status # "missing" /\ ~QuotaError(r)]_vars
  BY DEF Honest
<1>. QED BY <1>1, <1>2, <1>3, <1>4, Invariance, PTL DEF Spec, OutcomeHonest

----------------------------------------------------------------------------
(* The client is a limiter.                                                 *)

\* A request has an outcome exactly when it is over.
OverInv == \A r \in Requests : pc[r] = "over" <=> outcome[r] # "none"

\* What a request that moves from p to another place is in the limiter's
\* terms, and that the others are where they were.
LEMMA Moved ==
    ASSUME TypeOK, NEW r \in Requests, NEW p \in Places,
           pc' = [pc EXCEPT ![r] = p],
           \A q \in Requests \ {r} : attempt'[q] = attempt[q]
    PROVE  /\ Queued' = IF p = "queued" THEN Queued \cup {r} ELSE Queued \ {r}
           /\ InFlight' = IF p \in {"sent", "answered"} THEN InFlight \cup {r}
                          ELSE InFlight \ {r}
           /\ TriesLeft' = [TriesLeft EXCEPT ![r] = TriesLeft'[r]]
           /\ p = "over" => TriesLeft'[r] = 0
           /\ p \in {"check", "backoff"} => TriesLeft'[r] = MaxRetries - attempt'[r] + 1
           /\ p \in {"queued", "sent", "answered", "cooling"} =>
                TriesLeft'[r] = MaxRetries - attempt'[r] + 0
<1>1. pc'[r] = p /\ \A q \in Requests \ {r} : pc'[q] = pc[q]
  BY DEF TypeOK
<1>2. Queued' = IF p = "queued" THEN Queued \cup {r} ELSE Queued \ {r}
  BY <1>1 DEF Queued
<1>3. InFlight' = IF p \in {"sent", "answered"} THEN InFlight \cup {r} ELSE InFlight \ {r}
  BY <1>1 DEF InFlight, HoldsSlot
<1>4. TriesLeft' = [TriesLeft EXCEPT ![r] = TriesLeft'[r]]
  BY <1>1 DEF TriesLeft
<1>5. /\ p = "over" => TriesLeft'[r] = 0
      /\ p \in {"check", "backoff"} => TriesLeft'[r] = MaxRetries - attempt'[r] + 1
      /\ p \in {"queued", "sent", "answered", "cooling"} =>
           TriesLeft'[r] = MaxRetries - attempt'[r] + 0
  BY <1>1 DEF TriesLeft
<1>. QED BY <1>2, <1>3, <1>4, <1>5

\* A return is a verdict, and leaves neither tries nor a place.
LEMMA ReturnTells ==
    ASSUME TypeOK, NEW r \in Requests, NEW o \in Outcomes \ {"none"}, Return(r, o)
    PROVE  /\ Limiter!Tell(r, o)
           /\ Queued' = Queued \ {r}
           /\ InFlight' = InFlight \ {r}
<1>1. /\ pc' = [pc EXCEPT ![r] = "over"]
      /\ attempt' = [attempt EXCEPT ![r] = 0]
      /\ outcome' = [outcome EXCEPT ![r] = o]
  BY DEF Return, Move
<1>2. "over" \in Places /\ \A q \in Requests \ {r} : attempt'[q] = attempt[q]
  BY <1>1 DEF Places, TypeOK
<1>3. /\ Queued' = Queued \ {r}
      /\ InFlight' = InFlight \ {r}
      /\ TriesLeft' = [TriesLeft EXCEPT ![r] = TriesLeft'[r]]
      /\ TriesLeft'[r] = 0
  BY <1>1, <1>2, Moved
<1>. QED BY <1>1, <1>3 DEF Limiter!Tell

\* A request that tries again has as many tries left as before, and one that
\* is given up had none.
LEMMA RetryGoesOn ==
    ASSUME TypeOK, NEW r \in Requests, Retry(r),
           pc[r] \notin {"check", "backoff", "over"}
    PROVE  /\ Limiter!GoOn \/ Limiter!GiveUp(r)
           /\ Queued' = Queued \ {r}
           /\ InFlight' = InFlight \ {r}
<1>1. attempt[r] \in 0..MaxRetries /\ TriesLeft[r] = MaxRetries - attempt[r]
  BY TransportAssumption DEF TypeOK, TriesLeft
<1>2. CASE attempt[r] < MaxRetries
  <2>1. /\ pc' = [pc EXCEPT ![r] = "backoff"]
        /\ attempt' = [attempt EXCEPT ![r] = @ + 1]
        /\ outcome' = outcome
    BY <1>2 DEF Retry, Move
  <2>2. /\ "backoff" \in Places
        /\ attempt'[r] = attempt[r] + 1
        /\ \A q \in Requests \ {r} : attempt'[q] = attempt[q]
    BY <2>1 DEF Places, TypeOK
  <2>3. /\ Queued' = Queued \ {r}
        /\ InFlight' = InFlight \ {r}
        /\ TriesLeft' = [TriesLeft EXCEPT ![r] = TriesLeft'[r]]
        /\ TriesLeft'[r] = MaxRetries - attempt'[r] + 1
    BY <2>1, <2>2, Moved
  <2>4. TriesLeft'[r] = TriesLeft[r]
    BY <1>1, <2>2, <2>3, TransportAssumption
  <2>5. TriesLeft' = TriesLeft
    <3>1. TriesLeft = [q \in Requests |-> TriesLeft[q]]
      BY DEF TriesLeft
    <3>. QED BY <2>3, <2>4, <3>1
  <2>. QED BY <2>1, <2>3, <2>5 DEF Limiter!GoOn
<1>3. CASE ~(attempt[r] < MaxRetries)
  <2>1. Return(r, "gaveUp") /\ "gaveUp" \in Outcomes \ {"none"}
    BY <1>3 DEF Retry, Outcomes
  <2>2. TriesLeft[r] = 0
    BY <1>1, <1>3, TransportAssumption
  <2>. QED BY <2>1, <2>2, ReturnTells DEF Limiter!GiveUp
<1>. QED BY <1>2, <1>3

\* Where a request is in its host's queue or served by it, by its place.
LEMMA PlaceOf ==
    ASSUME TypeOK, OverInv, NEW r \in Requests
    PROVE  /\ pc[r] = "queued" <=> r \in Queued
           /\ pc[r] \in {"sent", "answered"} <=> r \in InFlight
           /\ pc[r] \in {"check", "cooling", "backoff"} <=> Limiter!Resting(r)
<1>1. pc[r] \in Places /\ (pc[r] = "over" <=> outcome[r] # "none")
  BY DEF TypeOK, OverInv
<1>2. r \in Queued <=> pc[r] = "queued"
  BY DEF Queued
<1>3. r \in InFlight <=> pc[r] \in {"sent", "answered"}
  BY DEF InFlight, HoldsSlot
<1>. QED BY <1>1, <1>2, <1>3 DEF Places, Limiter!Resting

\* The mark a response leaves is one the limiter allows.
LEMMA NoteMarks ==
    ASSUME NEW r \in Requests, Note(r)
    PROVE  exhausted' \in {exhausted, exhausted \cup {HostOf[r]}, exhausted \ {HostOf[r]}}
BY DEF Note

\* The requests a host serves are those that hold its slots.
LEMMA ServedHold == \A h \in Hosts : Limiter!Served(h) = Holders(h)
BY DEF Limiter!Served, InFlight, Holders

\* The limiter counts as this module does.
LEMMA SameCount == \A S : Limiter!Cardinality(S) = Cardinality(S)
BY DEF Limiter!Cardinality, Cardinality

\* Every way to leave an attempt takes the request off the wire and tells it
\* something, or lets it go on.
LEMMA LeaveLands ==
    ASSUME IInv, NEW r \in Requests, Leave(r),
           \/ \E o \in {"returned", "notFound", "quota"} : Return(r, o)
           \/ Retry(r)
    PROVE  Limiter!Land(r)
<1>1. TypeOK /\ pc[r] = "answered" /\ Note(r)
  BY DEF IInv, Leave
<1>2. r \in InFlight /\ r \notin Queued
  BY <1>1 DEF InFlight, HoldsSlot, Queued
<1>3. exhausted' \in {exhausted, exhausted \cup {HostOf[r]}, exhausted \ {HostOf[r]}}
  BY <1>1, NoteMarks
<1>4. /\ \/ Limiter!GoOn \/ Limiter!GiveUp(r)
         \/ \E v \in {"returned", "notFound", "quota"} : Limiter!Tell(r, v)
      /\ Queued' = Queued \ {r}
      /\ InFlight' = InFlight \ {r}
  <2>1. ASSUME NEW o \in {"returned", "notFound", "quota"}, Return(r, o)
        PROVE  /\ Limiter!Tell(r, o)
               /\ Queued' = Queued \ {r}
               /\ InFlight' = InFlight \ {r}
    BY <1>1, <2>1, ReturnTells DEF Outcomes
  <2>2. CASE Retry(r)
    BY <1>1, <2>2, RetryGoesOn
  <2>. QED BY <2>1, <2>2
<1>. QED BY <1>2, <1>3, <1>4 DEF Limiter!Land

\* A request's step is a step of the limiter's on that request, or none.
LEMMA StepLimits ==
    ASSUME IInv, OverInv, NEW r \in Requests, Step(r) \/ Interrupt(r)
    PROVE  \/ Limiter!Enter(r) \/ Limiter!Serve(r) \/ Limiter!Unserved(r)
           \/ Limiter!Land(r) \/ Limiter!End(r)
           \/ UNCHANGED Limiter!vars
<1>0. TypeOK /\ HostBound /\ HostOf[r] \in Hosts
  BY TransportAssumption DEF IInv
<1>1. /\ attempt[r] \in 0..MaxRetries /\ MaxRetries \in Nat
      /\ pc[r] \in {"check", "backoff"} => TriesLeft[r] = MaxRetries - attempt[r] + 1
      /\ pc[r] \in {"queued", "sent", "answered", "cooling"} =>
           TriesLeft[r] = MaxRetries - attempt[r]
      /\ TriesLeft = [q \in Requests |-> TriesLeft[q]]
  BY <1>0, TransportAssumption DEF TypeOK, TriesLeft
<1>2. CASE Refuse(r)
  <2>1. pc[r] = "check" /\ HostOf[r] \in exhausted /\ Return(r, "quota") /\ exhausted' = exhausted
    BY <1>2 DEF Refuse, Spent
  <2>2. Limiter!Resting(r) /\ r \notin Queued /\ r \notin InFlight
    BY <1>0, <2>1, PlaceOf DEF Limiter!Resting
  <2>3. Limiter!Tell(r, "quota") /\ Queued' = Queued \ {r} /\ InFlight' = InFlight \ {r}
    BY <1>0, <2>1, ReturnTells DEF Outcomes
  <2>4. Limiter!End(r)
    BY <2>1, <2>2, <2>3 DEF Limiter!End
  <2>. QED BY <2>4
<1>3. CASE Cancel(r)
  <2>1. pc[r] \in {"cooling", "backoff"} /\ Return(r, "cancelled") /\ exhausted' = exhausted
    BY <1>3 DEF Cancel
  <2>2. Limiter!Resting(r) /\ r \notin Queued /\ r \notin InFlight
    BY <1>0, <2>1, PlaceOf DEF Limiter!Resting
  <2>3. Limiter!Tell(r, "cancelled") /\ Queued' = Queued \ {r} /\ InFlight' = InFlight \ {r}
    BY <1>0, <2>1, ReturnTells DEF Outcomes
  <2>4. Limiter!End(r)
    BY <2>1, <2>2, <2>3 DEF Limiter!End
  <2>. QED BY <2>4
<1>4. CASE Cooled(r)
  <2>1. pc[r] = "cooling" /\ Retry(r) /\ exhausted' = exhausted
    BY <1>4 DEF Cooled
  <2>2. Limiter!Resting(r) /\ r \notin Queued /\ r \notin InFlight
    BY <1>0, <2>1, PlaceOf DEF Limiter!Resting
  <2>3. /\ Limiter!GoOn \/ Limiter!GiveUp(r)
        /\ Queued' = Queued \ {r}
        /\ InFlight' = InFlight \ {r}
    BY <1>0, <2>1, RetryGoesOn
  <2>4. Limiter!End(r) \/ UNCHANGED Limiter!vars
    BY <2>1, <2>2, <2>3 DEF Limiter!End, Limiter!GoOn, Limiter!vars
  <2>. QED BY <2>4
<1>5. CASE LeaveQueue(r)
  <2>1. pc[r] = "queued" /\ Retry(r) /\ exhausted' = exhausted
    BY <1>5 DEF LeaveQueue
  <2>2. r \in Queued /\ r \notin InFlight
    BY <2>1 DEF Queued, InFlight, HoldsSlot
  <2>3. /\ Limiter!GoOn \/ Limiter!GiveUp(r)
        /\ Queued' = Queued \ {r}
        /\ InFlight' = InFlight \ {r}
    BY <1>0, <2>1, RetryGoesOn
  <2>4. Limiter!Unserved(r)
    BY <2>1, <2>2, <2>3 DEF Limiter!Unserved
  <2>. QED BY <2>4
<1>6. CASE Admit(r)
  <2>1. /\ pc[r] = "check" /\ HostOf[r] \notin exhausted
        /\ pc' = [pc EXCEPT ![r] = "queued"] /\ "queued" \in Places
        /\ attempt' = attempt /\ exhausted' = exhausted /\ outcome' = outcome
    BY <1>6 DEF Admit, Spent, Move, Places
  <2>2. Limiter!Resting(r) /\ r \notin InFlight
    BY <1>0, <2>1, PlaceOf DEF Limiter!Resting
  <2>3. /\ Queued' = Queued \cup {r}
        /\ InFlight' = InFlight \ {r}
        /\ TriesLeft' = [TriesLeft EXCEPT ![r] = TriesLeft'[r]]
        /\ TriesLeft'[r] = MaxRetries - attempt'[r] + 0
    BY <1>0, <2>1, Moved
  <2>4. TriesLeft[r] > 0 /\ TriesLeft'[r] = TriesLeft[r] - 1
    BY <1>1, <2>1, <2>3
  <2>5. Limiter!Enter(r)
    BY <2>1, <2>2, <2>3, <2>4 DEF Limiter!Enter
  <2>. QED BY <2>5
<1>7. CASE Send(r)
  <2>1. /\ pc[r] = "queued" /\ slots[HostOf[r]] < Limit
        /\ pc' = [pc EXCEPT ![r] = "sent"] /\ "sent" \in Places
        /\ attempt' = attempt /\ exhausted' = exhausted /\ outcome' = outcome
    BY <1>7 DEF Send, Move, Places
  <2>2. r \in Queued
    BY <2>1 DEF Queued
  <2>3. /\ Queued' = Queued \ {r}
        /\ InFlight' = InFlight \cup {r}
        /\ TriesLeft' = [TriesLeft EXCEPT ![r] = TriesLeft'[r]]
        /\ TriesLeft'[r] = MaxRetries - attempt'[r] + 0
    BY <1>0, <2>1, Moved
  <2>4. TriesLeft'[r] = TriesLeft[r]
    BY <1>1, <2>1, <2>3
  <2>5. TriesLeft' = TriesLeft
    BY <1>1, <2>3, <2>4
  <2>6. Limiter!Cardinality(Limiter!Served(HostOf[r])) < Limit
    BY <1>0, <2>1, ServedHold, SameCount DEF HostBound
  <2>7. Limiter!Serve(r)
    BY <2>1, <2>2, <2>3, <2>5, <2>6 DEF Limiter!Serve
  <2>. QED BY <2>7
<1>8. CASE Receive(r)
  <2>1. /\ pc[r] = "sent"
        /\ pc' = [pc EXCEPT ![r] = "answered"] /\ "answered" \in Places
        /\ attempt' = attempt /\ exhausted' = exhausted /\ outcome' = outcome
    BY <1>8 DEF Receive, Move, Places
  <2>2. r \notin Queued /\ r \in InFlight
    BY <2>1 DEF Queued, InFlight, HoldsSlot
  <2>3. /\ Queued' = Queued \ {r}
        /\ InFlight' = InFlight \cup {r}
        /\ TriesLeft' = [TriesLeft EXCEPT ![r] = TriesLeft'[r]]
        /\ TriesLeft'[r] = MaxRetries - attempt'[r] + 0
    BY <1>0, <2>1, Moved
  <2>4. TriesLeft'[r] = TriesLeft[r]
    BY <1>1, <2>1, <2>3
  <2>5. TriesLeft' = TriesLeft
    BY <1>1, <2>3, <2>4
  <2>. QED BY <2>1, <2>2, <2>3, <2>5 DEF Limiter!vars
<1>9. CASE LeaveWithQuotaError(r) \/ LeaveNotFound(r) \/ LeaveWithResponse(r) \/ LeaveToRetry(r)
  BY <1>9, LeaveLands DEF LeaveWithQuotaError, LeaveNotFound, LeaveWithResponse, LeaveToRetry
<1>10. CASE LeaveToCool(r)
  <2>1. /\ pc[r] = "answered" /\ Note(r)
        /\ pc' = [pc EXCEPT ![r] = "cooling"] /\ "cooling" \in Places
        /\ attempt' = attempt /\ outcome' = outcome
    BY <1>10 DEF LeaveToCool, Leave, Move, Places
  <2>2. r \notin Queued /\ r \in InFlight
    BY <2>1 DEF Queued, InFlight, HoldsSlot
  <2>3. /\ Queued' = Queued \ {r}
        /\ InFlight' = InFlight \ {r}
        /\ TriesLeft' = [TriesLeft EXCEPT ![r] = TriesLeft'[r]]
        /\ TriesLeft'[r] = MaxRetries - attempt'[r] + 0
    BY <1>0, <2>1, Moved
  <2>4. TriesLeft'[r] = TriesLeft[r]
    BY <1>1, <2>1, <2>3
  <2>5. TriesLeft' = TriesLeft
    BY <1>1, <2>3, <2>4
  <2>6. exhausted' \in {exhausted, exhausted \cup {HostOf[r]}, exhausted \ {HostOf[r]}}
    BY <2>1, NoteMarks
  <2>7. Limiter!Land(r)
    BY <2>1, <2>2, <2>3, <2>5, <2>6 DEF Limiter!Land, Limiter!GoOn
  <2>. QED BY <2>7
<1>11. CASE BackedOff(r)
  <2>1. /\ pc[r] = "backoff"
        /\ pc' = [pc EXCEPT ![r] = "check"] /\ "check" \in Places
        /\ attempt' = attempt /\ exhausted' = exhausted /\ outcome' = outcome
    BY <1>11 DEF BackedOff, Move, Places
  <2>2. r \notin Queued /\ r \notin InFlight
    BY <2>1 DEF Queued, InFlight, HoldsSlot
  <2>3. /\ Queued' = Queued \ {r}
        /\ InFlight' = InFlight \ {r}
        /\ TriesLeft' = [TriesLeft EXCEPT ![r] = TriesLeft'[r]]
        /\ TriesLeft'[r] = MaxRetries - attempt'[r] + 1
    BY <1>0, <2>1, Moved
  <2>4. TriesLeft'[r] = TriesLeft[r]
    BY <1>1, <2>1, <2>3
  <2>5. TriesLeft' = TriesLeft
    BY <1>1, <2>3, <2>4
  <2>. QED BY <2>1, <2>2, <2>3, <2>5 DEF Limiter!vars
<1>. QED BY <1>2, <1>3, <1>4, <1>5, <1>6, <1>7, <1>8, <1>9, <1>10, <1>11 DEF Step, Interrupt

\* A request is over when it has an outcome, and stays over.
LEMMA OverKept ==
    ASSUME TypeOK, OverInv, [Next]_vars
    PROVE  /\ OverInv'
           /\ \A r \in Requests : outcome[r] # "none" => outcome'[r] = outcome[r]
<1>1. CASE UNCHANGED vars \/ \E h \in Hosts : Reopen(h)
  BY <1>1 DEF vars, Reopen, OverInv
<1>2. ASSUME NEW r \in Requests, Step(r) \/ Interrupt(r)
      PROVE  /\ pc[r] # "over"
             /\ pc'[r] = "over" <=> outcome'[r] # "none"
  <2>1. pc[r] # "over"
    BY <1>2 DEF Step, Interrupt, Refuse, Admit, Send, Receive, Leave,
         LeaveWithQuotaError, LeaveNotFound, LeaveWithResponse, LeaveToRetry,
         LeaveToCool, Cooled, BackedOff, LeaveQueue, Cancel
  <2>2. outcome[r] = "none"
    BY <2>1 DEF OverInv
  <2>3. CASE \E o \in Outcomes \ {"none"} : Return(r, o)
    BY <2>1, <2>3, ReturnOwn
  <2>4. CASE Retry(r)
    BY <2>1, <2>2, <2>4 DEF TypeOK, Retry, Return, Move
  <2>5. CASE \E p \in Places \ {"over"} : Move(r, p) /\ outcome' = outcome
    BY <2>1, <2>2, <2>5 DEF TypeOK, Move
  <2>6. \/ \E o \in Outcomes \ {"none"} : Return(r, o)
        \/ Retry(r)
        \/ \E p \in Places \ {"over"} : Move(r, p) /\ outcome' = outcome
    BY <1>2 DEF Outcomes, Places, Step, Interrupt, Refuse, Admit, Send, Receive,
         LeaveWithQuotaError, LeaveNotFound, LeaveWithResponse, LeaveToRetry,
         LeaveToCool, Cooled, BackedOff, LeaveQueue, Cancel
  <2>. QED BY <2>1, <2>3, <2>4, <2>5, <2>6
<1>3. ASSUME NEW r \in Requests, Step(r) \/ Interrupt(r)
      PROVE  /\ OverInv'
             /\ \A q \in Requests : outcome[q] # "none" => outcome'[q] = outcome[q]
  <2>1. \A q \in Requests \ {r} : pc'[q] = pc[q] /\ outcome'[q] = outcome[q]
    BY <1>3, OthersStay
  <2>. QED BY <1>2, <1>3, <2>1 DEF OverInv
<1>. QED BY <1>1, <1>3 DEF Next, AllOver

\* Throughout, a request has an outcome exactly when it is over.
LEMMA OverHolds == Spec => []OverInv
<1>1. Init => OverInv
  BY DEF Init, OverInv
<1>2. TypeOK /\ OverInv /\ [Next]_vars => OverInv'
  BY OverKept
<1>. QED BY <1>1, <1>2, TypeCorrect, PTL DEF Spec

\* So is a step of the client.
LEMMA NextLimits ==
    ASSUME IInv, OverInv, [Next]_vars
    PROVE  Limiter!Next \/ UNCHANGED Limiter!vars
<1>1. CASE UNCHANGED vars
  BY <1>1 DEF vars, Limiter!vars, Queued, InFlight, HoldsSlot, TriesLeft
<1>2. ASSUME NEW h \in Hosts, Reopen(h) PROVE Limiter!Reopen(h)
  BY <1>2 DEF Reopen, Spent, Limiter!Reopen, Queued, InFlight, HoldsSlot, TriesLeft
<1>3. ASSUME NEW r \in Requests, Step(r) \/ Interrupt(r)
      PROVE  Limiter!Next \/ UNCHANGED Limiter!vars
  BY <1>3, StepLimits DEF Limiter!Next
<1>. QED BY <1>1, <1>2, <1>3 DEF Next, AllOver, Limiter!Next

\* For any hosts, requests, limits and retries, and whatever is answered, late
\* or never: a host serves at most Limit requests, admits nobody while it is
\* marked spent, no request is tried more than MaxRetries + 1 times, and each is
\* answered only by a server that served it, or failed for a reason of its own.
THEOREM LimiterImplemented == Spec => ImplementsLimiter
<1>1. Init => Limiter!Init
  <2>. SUFFICES ASSUME Init PROVE Limiter!Init
    OBVIOUS
  <2>1. Queued = {} /\ InFlight = {} /\ exhausted = {}
    BY DEF Init, Queued, InFlight, HoldsSlot
  <2>2. TriesLeft = [r \in Requests |-> MaxRetries + 1]
    BY TransportAssumption DEF Init, TriesLeft
  <2>. QED BY <2>1, <2>2 DEF Init, Limiter!Init
<1>2. IInv /\ OverInv /\ [Next]_vars => [Limiter!Next]_(Limiter!vars)
  BY NextLimits
<1>. QED BY <1>1, <1>2, Invariance, OverHolds, PTL DEF Spec, ImplementsLimiter, Limiter!Spec

\* While a host is marked spent no step lets a further request join its queue:
\* what can still go out to it is what was already waiting.
QueueOnlyDrains == [][\A r \in Queued' \ Queued : HostOf[r] \notin exhausted]_vars

\* The limiter's Enter is the only way into a queue, and asks for an open host.
THEOREM QueuesOnlyDrain == Spec => QueueOnlyDrains
<1>1. Limiter!Next \/ UNCHANGED Limiter!vars =>
        \A r \in Queued' \ Queued : HostOf[r] \notin exhausted
  BY DEF Limiter!Next, Limiter!vars, Limiter!Enter, Limiter!Serve, Limiter!Unserved,
     Limiter!Land, Limiter!End, Limiter!Reopen
<1>2. IInv /\ OverInv /\ [Next]_vars => [\A r \in Queued' \ Queued : HostOf[r] \notin exhausted]_vars
  BY <1>1, NextLimits
<1>. QED BY <1>2, Invariance, OverHolds, PTL DEF Spec, QueueOnlyDrains

\* A request has one outcome, and whoever reads it reads the last: no attempt
\* outlives the request it was made for.
AnsweredOnce == [][\A r \in Requests : outcome[r] # "none" => outcome'[r] = outcome[r]]_vars

\* No step is open to a request that is over, so its outcome stands.
THEOREM OutcomesStand == Spec => AnsweredOnce
<1>1. TypeOK /\ OverInv /\ [Next]_vars =>
        [\A r \in Requests : outcome[r] # "none" => outcome'[r] = outcome[r]]_vars
  BY OverKept
<1>. QED BY <1>1, TypeCorrect, OverHolds, PTL DEF Spec, AnsweredOnce

----------------------------------------------------------------------------
(* Of EveryRequestEnds, what needs no fairness: nobody waits for a slot that *)
(* cannot come back, and only finitely many steps are ahead of a request.    *)

\* A request waits for a slot only behind one that is being served, which
\* needs nothing of anybody to give its slot back.
WaitIsForTheWire ==
    \A r \in Requests : pc[r] = "queued" =>
      \/ slots[HostOf[r]] < Limit
      \/ \E q \in Requests : HostOf[q] = HostOf[r] /\ pc[q] \in {"sent", "answered"}

\* At any limit, a host whose slots are all taken has a request on the wire.
THEOREM NobodyWaitsInVain == Spec => []WaitIsForTheWire
<1>1. IInv => WaitIsForTheWire
  <2>. SUFFICES ASSUME IInv, NEW r \in Requests, ~(slots[HostOf[r]] < Limit)
                PROVE  \E q \in Requests : HostOf[q] = HostOf[r] /\ pc[q] \in {"sent", "answered"}
    BY DEF WaitIsForTheWire
  <2>1. HostOf[r] \in Hosts
    BY TransportAssumption
  <2>2. Cardinality(Holders(HostOf[r])) # 0
    BY <2>1, LimitType DEF IInv, HostBound
  <2>3. Holders(HostOf[r]) # {}
    BY <2>2, FS_EmptySet
  <2>. QED BY <2>3 DEF Holders, HoldsSlot
<1>. QED BY <1>1, Invariance, PTL

PlaceRank ==
    [p \in Places |->
       CASE p = "backoff" -> 6 [] p = "check" -> 5 [] p = "queued" -> 4 [] p = "sent" -> 3
         [] p = "answered" -> 2 [] p = "cooling" -> 1 [] OTHER -> 0]

\* At most how many steps a request still has to take.
Ahead ==
    [r \in Requests |->
       IF pc[r] = "over" THEN 0 ELSE 7 * (MaxRetries - attempt[r]) + PlaceRank[pc[r]]]

\* Every step takes a request nearer to its end and none further from it,
\* unless it is a window that reopens, which moves nobody.
StepsCount ==
    [][/\ \A r \in Requests : Ahead'[r] <= Ahead[r]
       /\ (\E r \in Requests : Ahead'[r] < Ahead[r]) \/ (pc' = pc /\ exhausted' # exhausted)]_vars

\* The number of steps ahead is a natural number.
LEMMA AheadType ==
    ASSUME TypeOK
    PROVE  \A r \in Requests : Ahead[r] \in Nat
<1>. SUFFICES ASSUME NEW r \in Requests PROVE Ahead[r] \in Nat
  OBVIOUS
<1>1. attempt[r] \in 0..MaxRetries /\ MaxRetries \in Nat /\ PlaceRank[pc[r]] \in Nat
  BY TransportAssumption DEF TypeOK, PlaceRank, Places
<1>2. 7 * (MaxRetries - attempt[r]) + PlaceRank[pc[r]] \in Nat
  BY <1>1
<1>. QED BY <1>2 DEF Ahead

\* Each place but the last is one from which there are steps to take.
LEMMA PlaceRanks ==
    /\ PlaceRank["backoff"] = 6 /\ PlaceRank["check"] = 5 /\ PlaceRank["queued"] = 4
    /\ PlaceRank["sent"] = 3 /\ PlaceRank["answered"] = 2 /\ PlaceRank["cooling"] = 1
BY DEF PlaceRank, Places

\* A request that moves to a lower place of the same attempt, to the wait
\* before the next one, or out, is nearer to its end, and it alone.
LEMMA Nearer ==
    ASSUME TypeOK, NEW r \in Requests, pc[r] # "over", NEW p \in Places,
           pc' = [pc EXCEPT ![r] = p],
           \A q \in Requests \ {r} : attempt'[q] = attempt[q],
           \/ p = "over"
           \/ p # "over" /\ attempt'[r] = attempt[r] /\ PlaceRank[p] < PlaceRank[pc[r]]
           \/ p = "backoff" /\ attempt'[r] = attempt[r] + 1
    PROVE  /\ Ahead'[r] < Ahead[r]
           /\ \A q \in Requests : Ahead'[q] <= Ahead[q]
<1>1. pc'[r] = p /\ \A q \in Requests \ {r} : pc'[q] = pc[q]
  BY DEF TypeOK
<1>2. \A q \in Requests \ {r} : Ahead'[q] = Ahead[q]
  BY <1>1 DEF Ahead
<1>3. Ahead'[r] \in Int /\ Ahead'[r] < Ahead[r]
  <2>1. /\ attempt[r] \in 0..MaxRetries /\ MaxRetries \in Nat
        /\ pc[r] \in Places \ {"over"}
    BY TransportAssumption DEF TypeOK
  <2>2. PlaceRank[pc[r]] \in 1..6 /\ PlaceRank[p] \in Nat
    BY <2>1 DEF PlaceRank, Places
  <2>3. Ahead[r] = 7 * (MaxRetries - attempt[r]) + PlaceRank[pc[r]]
    BY <2>1 DEF Ahead
  <2>4. CASE p = "over"
    <3>1. Ahead'[r] = 0
      BY <1>1, <2>4 DEF Ahead
    <3>. QED BY <2>1, <2>2, <2>3, <3>1
  <2>5. CASE p # "over" /\ attempt'[r] = attempt[r] /\ PlaceRank[p] < PlaceRank[pc[r]]
    <3>1. Ahead'[r] = 7 * (MaxRetries - attempt[r]) + PlaceRank[p]
      BY <1>1, <2>5 DEF Ahead
    <3>. QED BY <2>1, <2>2, <2>3, <2>5, <3>1
  <2>6. CASE p = "backoff" /\ attempt'[r] = attempt[r] + 1
    <3>1. Ahead'[r] = 7 * (MaxRetries - (attempt[r] + 1)) + 6
      BY <1>1, <2>6, PlaceRanks DEF Ahead
    <3>2. \A a, m, k \in Int : k >= 1 =>
            /\ 7 * (m - (a + 1)) + 6 \in Int
            /\ 7 * (m - (a + 1)) + 6 < 7 * (m - a) + k
      OBVIOUS
    <3>3. attempt[r] \in Int /\ MaxRetries \in Int /\ PlaceRank[pc[r]] \in Int /\ PlaceRank[pc[r]] >= 1
      BY <2>1, <2>2
    <3>. QED BY <2>3, <3>1, <3>2, <3>3
  <2>. QED BY <2>4, <2>5, <2>6
<1>. QED BY <1>2, <1>3, AheadType

\* Whatever a request does, it is nearer to its end.
LEMMA StepNearer ==
    ASSUME TypeOK, NEW r \in Requests, Step(r) \/ Interrupt(r)
    PROVE  /\ Ahead'[r] < Ahead[r]
           /\ \A q \in Requests : Ahead'[q] <= Ahead[q]
<1>. DEFINE Ends == pc[r] # "over" /\ \E o \in Outcomes : Return(r, o)
            TriesAgain == pc[r] # "over" /\ attempt[r] < MaxRetries /\ Retry(r)
<1>1. CASE Ends
  <2>1. "over" \in Places /\ pc' = [pc EXCEPT ![r] = "over"]
    BY <1>1 DEF Places, Return, Move
  <2>2. \A q \in Requests \ {r} : attempt'[q] = attempt[q]
    BY <1>1 DEF Return, TypeOK
  <2>. QED BY <1>1, <2>1, <2>2, Nearer
<1>2. CASE TriesAgain
  <2>1. /\ pc' = [pc EXCEPT ![r] = "backoff"] /\ "backoff" \in Places
        /\ attempt' = [attempt EXCEPT ![r] = @ + 1]
    BY <1>2 DEF Retry, Move, Places
  <2>2. attempt'[r] = attempt[r] + 1 /\ \A q \in Requests \ {r} : attempt'[q] = attempt[q]
    BY <2>1 DEF TypeOK
  <2>. QED BY <1>2, <2>1, <2>2, Nearer
<1>3. CASE \E p \in Places \ {"over"} :
             /\ Move(r, p) /\ attempt' = attempt
             /\ pc[r] # "over" /\ PlaceRank[p] < PlaceRank[pc[r]]
  BY <1>3, Nearer DEF Move
<1>4. pc[r] # "over" /\ Retry(r) => Ends \/ TriesAgain
  BY DEF Retry, Outcomes
<1>5. CASE Refuse(r) \/ Cancel(r) \/ LeaveQueue(r) \/ Cooled(r)
  BY <1>1, <1>2, <1>4, <1>5 DEF Refuse, Cancel, LeaveQueue, Cooled, Outcomes
<1>6. CASE LeaveWithQuotaError(r) \/ LeaveNotFound(r) \/ LeaveWithResponse(r) \/ LeaveToRetry(r)
  BY <1>1, <1>2, <1>4, <1>6 DEF Leave, LeaveWithQuotaError, LeaveNotFound,
     LeaveWithResponse, LeaveToRetry, Outcomes
<1>7. CASE Admit(r) \/ Send(r) \/ Receive(r) \/ LeaveToCool(r) \/ BackedOff(r)
  BY <1>3, <1>7, PlaceRanks DEF Admit, Send, Receive, Leave, LeaveToCool, BackedOff, Places
<1>. QED BY <1>5, <1>6, <1>7 DEF Step, Interrupt

\* A request takes at most 7 * MaxRetries + 5 steps, whichever way the servers,
\* timers and other requests turn, and no step is ever taken back.
THEOREM EveryStepCounts == Spec => StepsCount
<1>1. TypeOK /\ [Next]_vars =>
        [/\ \A r \in Requests : Ahead'[r] <= Ahead[r]
         /\ (\E r \in Requests : Ahead'[r] < Ahead[r]) \/ (pc' = pc /\ exhausted' # exhausted)]_vars
  <2>. SUFFICES ASSUME TypeOK, Next, vars' # vars
                PROVE  /\ \A r \in Requests : Ahead'[r] <= Ahead[r]
                       /\ \/ \E r \in Requests : Ahead'[r] < Ahead[r]
                          \/ pc' = pc /\ exhausted' # exhausted
    OBVIOUS
  <2>1. CASE \E h \in Hosts : Reopen(h)
    <3>1. pc' = pc /\ attempt' = attempt /\ exhausted' # exhausted
      BY <2>1 DEF Reopen, Spent
    <3>2. Ahead' = Ahead
      BY <3>1 DEF Ahead
    <3>. QED BY <3>1, <3>2, AheadType
  <2>2. CASE \E r \in Requests : Step(r) \/ Interrupt(r)
    BY <2>2, StepNearer
  <2>. QED BY <2>1, <2>2 DEF Next, AllOver
<1>. QED BY <1>1, TypeCorrect, PTL DEF Spec, StepsCount
=============================================================================
