----------------------------- MODULE SiteEngine -----------------------------
(***************************************************************************)
(* engine.RunSites: one goroutine per site, a semaphore bounding how many  *)
(* work at once, and three memos through which sites that ask the same     *)
(* question share one call.                                                *)
(*                                                                         *)
(* A goroutine is at                                                       *)
(*   "spawned"   before it holds a slot of the semaphore                   *)
(*   "find"      about to read its files                                   *)
(*   "route"     about to pick its question                                *)
(*   "memo"      about to look its question up in a memo                   *)
(*   "once"      at the once of the memo entry                             *)
(*   "calling"   inside the call it makes for everybody                    *)
(*   "answered"  holding the answer                                        *)
(*   "leaving"   its result written, the slot not yet given back           *)
(*   "gone"                                                                *)
(***************************************************************************)
EXTENDS PinConfig, Integers, FiniteSets

CONSTANTS
    RequestedWorkers,  \* the --workers flag
    DefaultWorkers

ASSUME WorkersAssumption ==
    /\ RequestedWorkers \in Int
    /\ DefaultWorkers \in Nat \ {0}
    /\ IsFiniteSet(Sites)

CONSTANT Unset  \* an answer not there yet

ASSUME UnsetAssumption ==
    \A x \in Values \cup {Failed, Report} : x # Unset

VARIABLES
    pc,        \* where each goroutine is
    slots,     \* how many tokens are in the semaphore's channel
    located,   \* the current value each site found, Blank before or without one
    question,  \* the memo key each goroutine is after
    entries,   \* the memos: the entry of each key
    results,   \* RunSites' results, by site
    returned   \* whether RunSites has returned

vars == <<pc, slots, located, question, entries, results, returned>>

Places == {"spawned", "find", "route", "memo", "once", "calling", "answered",
           "leaving", "gone"}

\* "absent" is a key not in the map; the others are the states of an entry's once.
Entries == [once : {"absent", "fresh", "running", "done"},
            answer : Values \cup {Failed, Report, Unset}]

MemoEntry(once, answer) == [once |-> once, answer |-> answer]

Workers == IF RequestedWorkers > 0 THEN RequestedWorkers ELSE DefaultWorkers

Holding(s) == pc[s] \notin {"spawned", "gone"}

Holders == {s \in Sites : Holding(s)}

Callers(k) == {s \in Sites : pc[s] = "calling" /\ question[s] = k}

TypeOK ==
    /\ pc \in [Sites -> Places]
    /\ slots \in Nat
    /\ located \in [Sites -> Versions \cup {Blank}]
    /\ question \in [Sites -> Keys \cup {None}]
    /\ entries \in [Keys -> Entries]
    /\ results \in [Sites -> SiteResults]
    /\ returned \in BOOLEAN

Init ==
    /\ pc = [s \in Sites |-> "spawned"]
    /\ slots = 0
    /\ located = [s \in Sites |-> Blank]
    /\ question = [s \in Sites |-> None]
    /\ entries = [k \in Keys |-> MemoEntry("absent", Unset)]
    /\ results = [s \in Sites |-> Pending]
    /\ returned = FALSE

----------------------------------------------------------------------------

\* results[i] = run.site(...): the function is about to return.
Finish(s, result) ==
    /\ results' = [results EXCEPT ![s] = result]
    /\ pc' = [pc EXCEPT ![s] = "leaving"]

Ask(s, k) ==
    /\ question' = [question EXCEPT ![s] = k]
    /\ pc' = [pc EXCEPT ![s] = "memo"]

\* Mutant: a semaphore with one token too many.
AcquireOverfull(s) ==
    /\ pc[s] = "spawned"
    /\ slots <= Workers
    /\ slots' = slots + 1
    /\ pc' = [pc EXCEPT ![s] = "find"]
    /\ UNCHANGED <<located, question, entries, results, returned>>

\* sem <- struct{}{}
Acquire(s) ==
    /\ pc[s] = "spawned"
    /\ slots < Workers
    /\ slots' = slots + 1
    /\ pc' = [pc EXCEPT ![s] = "find"]
    /\ UNCHANGED <<located, question, entries, results, returned>>

\* locator.Find, then CheckExpect, on a site with a file: a read error, a
\* number of matches the site did not declare (they are reported, and nothing
\* reads their values), or the matches, of which the engine reads the first.
FindFails(s) ==
    /\ pc[s] = "find"
    /\ Located[s]
    /\ Finish(s, Failure("failed", Blank))
    /\ UNCHANGED <<slots, located, question, entries, returned>>

FindMismatches(s) ==
    /\ pc[s] = "find"
    /\ Located[s]
    /\ Finish(s, Failure("mismatch", Blank))
    /\ UNCHANGED <<slots, located, question, entries, returned>>

FindMatches(s) ==
    /\ pc[s] = "find"
    /\ Located[s]
    /\ \E c \in Versions : located' = [located EXCEPT ![s] = c]
    /\ pc' = [pc EXCEPT ![s] = "route"]
    /\ UNCHANGED <<slots, question, entries, results, returned>>

NothingToFind(s) ==
    /\ pc[s] = "find"
    /\ ~Located[s]
    /\ pc' = [pc EXCEPT ![s] = "route"]
    /\ UNCHANGED <<slots, located, question, entries, results, returned>>

\* A command pattern that does not compile or lacks a group, or a resolver
\* kind the registry does not have, fails the site before any call.
Unroutable(s) ==
    IF IsCommand(s) THEN ~Config(s).patternOK ELSE Config(s).resolver \notin Available

RouteFails(s) ==
    /\ pc[s] = "route"
    /\ Unroutable(s)
    /\ Finish(s, Failure("failed", located[s]))
    /\ UNCHANGED <<slots, located, question, entries, returned>>

Route(s) ==
    /\ pc[s] = "route"
    /\ ~Unroutable(s)
    /\ Ask(s, FirstKey(s))
    /\ UNCHANGED <<slots, located, entries, results, returned>>

----------------------------------------------------------------------------
(* memo.do                                                                  *)

\* Under the memo's mutex: the entry of the key, made if it is not there.
EnterMemo(s) ==
    /\ pc[s] = "memo"
    /\ entries' = IF entries[question[s]].once = "absent"
                  THEN [entries EXCEPT ![question[s]] = MemoEntry("fresh", Unset)]
                  ELSE entries
    /\ pc' = [pc EXCEPT ![s] = "once"]
    /\ UNCHANGED <<slots, located, question, results, returned>>

\* Mutant: an entry without its once.
OnceRunsTwice(s) ==
    /\ pc[s] = "once"
    /\ entries[question[s]].once \in {"fresh", "running"}
    /\ entries' = [entries EXCEPT ![question[s]] = MemoEntry("running", Unset)]
    /\ pc' = [pc EXCEPT ![s] = "calling"]
    /\ UNCHANGED <<slots, located, question, results, returned>>

\* sync.Once lets one goroutine in; it calls with its own site's constraint.
OnceRuns(s) ==
    /\ pc[s] = "once"
    /\ entries[question[s]].once = "fresh"
    /\ entries' = [entries EXCEPT ![question[s]] = MemoEntry("running", Unset)]
    /\ pc' = [pc EXCEPT ![s] = "calling"]
    /\ UNCHANGED <<slots, located, question, results, returned>>

\* Mutant: a failed call is not recorded as made.
CallForgotten(s) ==
    /\ pc[s] = "calling"
    /\ \E a \in Replies(s, question[s]) :
         entries' = [entries EXCEPT ![question[s]] =
                       MemoEntry(IF a = Failed THEN "running" ELSE "done", a)]
    /\ pc' = [pc EXCEPT ![s] = "answered"]
    /\ UNCHANGED <<slots, located, question, results, returned>>

\* The call returns, and what it returned stays in the entry.
CallReturns(s) ==
    /\ pc[s] = "calling"
    /\ \E a \in Replies(s, question[s]) :
         entries' = [entries EXCEPT ![question[s]] = MemoEntry("done", a)]
    /\ pc' = [pc EXCEPT ![s] = "answered"]
    /\ UNCHANGED <<slots, located, question, results, returned>>

\* Mutant: an entry whose call is still out is read, and holds Go's zero value.
OnceSharesEarly(s) ==
    /\ pc[s] = "once"
    /\ entries[question[s]].once \in {"running", "done"}
    /\ IF entries[question[s]].once = "done"
       THEN pc' = [pc EXCEPT ![s] = "answered"] /\ UNCHANGED results
       ELSE Finish(s, Outcome("ok", located[s], Blank, FALSE))
    /\ UNCHANGED <<slots, located, question, entries, returned>>

\* Everybody else waits for that call and takes what it left.
OnceShares(s) ==
    /\ pc[s] = "once"
    /\ entries[question[s]].once = "done"
    /\ pc' = [pc EXCEPT ![s] = "answered"]
    /\ UNCHANGED <<slots, located, question, entries, results, returned>>

----------------------------------------------------------------------------

Answer(s) == entries[question[s]].answer

WantsDetail(s) ==
    /\ s \in DetailSites
    /\ Answer(s) # Failed

\* The answer to the first question, when no Detailer has more to say.
Conclude(s) ==
    /\ pc[s] = "answered"
    /\ question[s] = FirstKey(s)
    /\ ~WantsDetail(s)
    /\ Finish(s, Reading(s, located[s], Answer(s), FALSE))
    /\ UNCHANGED <<slots, located, question, entries, returned>>

AskDetail(s) ==
    /\ pc[s] = "answered"
    /\ question[s] = FirstKey(s)
    /\ WantsDetail(s)
    /\ Ask(s, DetailKey(s, located[s], Answer(s)))
    /\ UNCHANGED <<slots, located, entries, results, returned>>

\* A Detailer's error is dropped: the site keeps its version.
ConcludeDetail(s) ==
    /\ pc[s] = "answered"
    /\ question[s] # FirstKey(s)
    /\ Finish(s, Outcome("ok", located[s], question[s].latest, Answer(s) # Failed))
    /\ UNCHANGED <<slots, located, question, entries, returned>>

\* Mutant: two tokens taken out.
ReleaseTwice(s) ==
    /\ pc[s] = "leaving"
    /\ slots' = slots - 2
    /\ pc' = [pc EXCEPT ![s] = "gone"]
    /\ UNCHANGED <<located, question, entries, results, returned>>

\* The deferred <-sem, then wg.Done.
Release(s) ==
    /\ pc[s] = "leaving"
    /\ slots' = slots - 1
    /\ pc' = [pc EXCEPT ![s] = "gone"]
    /\ UNCHANGED <<located, question, entries, results, returned>>

\* Mutant: wg.Done deferred after <-sem, so done before the token is back.
ReturnEarly ==
    /\ ~returned
    /\ \A s \in Sites : pc[s] \in {"leaving", "gone"}
    /\ returned' = TRUE
    /\ UNCHANGED <<pc, slots, located, question, entries, results>>

\* wg.Wait
Return ==
    /\ ~returned
    /\ \A s \in Sites : pc[s] = "gone"
    /\ returned' = TRUE
    /\ UNCHANGED <<pc, slots, located, question, entries, results>>

\* The caller goes on with the results; nothing of the engine is left running.
Done == returned /\ UNCHANGED vars

Step(s) ==
    \/ Acquire(s)
    \/ FindFails(s) \/ FindMismatches(s) \/ FindMatches(s) \/ NothingToFind(s)
    \/ RouteFails(s) \/ Route(s)
    \/ EnterMemo(s) \/ OnceRuns(s) \/ CallReturns(s) \/ OnceShares(s)
    \/ Conclude(s) \/ AskDetail(s) \/ ConcludeDetail(s)
    \/ Release(s)

Next == (\E s \in Sites : Step(s)) \/ Return \/ Done

Fairness == (\A s \in Sites : WF_vars(Step(s))) /\ WF_vars(Return)

Spec == Init /\ [][Next]_vars /\ Fairness

----------------------------------------------------------------------------
(* Properties                                                               *)

\* Every goroutine between its two channel operations holds one token, and
\* nobody else does; so the engine never has more sites in flight than the
\* flag asks for, nor, on a flag below one, than the default.
WorkerBound ==
    /\ slots = Cardinality(Holders)
    /\ slots <= Workers

\* A question is on the wire at most once at a time, and exactly while its
\* memo entry says so: whoever waits at a running entry waits for a goroutine
\* that already has a slot, so the two can never wait on each other.
SingleFlight ==
    /\ \A k \in Keys : entries[k].once = "running" <=> Callers(k) # {}
    /\ \A s, t \in Sites :
         /\ pc[s] = "calling"
         /\ pc[t] = "calling"
         /\ question[s] = question[t]
         => s = t

\* wg.Wait: when RunSites returns, every site has its verdict and every token
\* is back, whatever failed on the way.
ReturnsComplete ==
    returned => /\ slots = 0
                /\ \A s \in Sites : results[s].verdict # "pending"

\* The sites whose calls may answer for s.
Sharers(s) == {t \in Sites : FirstKey(t) = FirstKey(s)}

Crosses(s) ==
    /\ results[s].verdict = "ok"
    /\ Ceiling(s) # NoCeiling
    /\ results[s].latest >= Ceiling(s)

\* A hold's ceiling (parser/pattern.go) bounds what the engine proposes for a
\* site that asks a registry, provided every site sharing its memo key
\* carries that same ceiling.
HoldsRespectedWhereShared ==
    \A s \in Sites :
      /\ ~IsCommand(s)
      /\ Config(s).resolver \notin BranchKinds
      /\ \A t \in Sharers(s) : Ceiling(t) = Ceiling(s)
      => ~Crosses(s)

\* README: "A hold is never overridden." pattern.go says of Ceiling: "never
\* crossed regardless of what the base pattern would otherwise match".
HoldNeverCrossed == \A s \in Sites : ~Crosses(s)

Shared == INSTANCE SharedAnswers WITH
            settled <- [k \in FirstKeys |-> entries[k].answer],
            outcome <- results

\* Every interleaving of the goroutines is one in which each question is
\* settled once and each site reports its own failure or the settled answer:
\* sites that ask the same thing can never be told different versions.
ImplementsShared == Shared!Spec

\* Every run ends, whichever calls fail: no site waits forever for a slot or
\* at an entry.
EventuallyReturns == <>returned
=============================================================================
