-------------------------- MODULE SiteEngineProofs --------------------------
(***************************************************************************)
(* What holds of engine.RunSites for every config, every number of sites   *)
(* and of workers, and every answer the registries and commands give.      *)
(***************************************************************************)
EXTENDS SiteEngine, FiniteSetTheorems, TLAPS

(* The inductive invariant.                                                 *)

AtMemo == {"memo", "once", "calling", "answered"}

\* A site that has a file holds the version it found from "route" on.
FoundInv ==
    \A s \in Sites :
      pc[s] \in AtMemo \cup {"route"} /\ Located[s] => located[s] \in Versions

\* A site asks its first question, and then, if at all, a Detailer about the
\* version that question settled on.
QuestionInv ==
    \A s \in Sites : pc[s] \in AtMemo =>
      \/ question[s] = FirstKey(s)
      \/ /\ s \in DetailSites
         /\ entries[FirstKey(s)].once = "done"
         /\ entries[FirstKey(s)].answer \in Versions \cup {Blank}
         /\ question[s] = DetailKey(s, located[s], entries[FirstKey(s)].answer)

\* An entry is at least as far as every goroutine using it.
EntryInv ==
    \A s \in Sites :
      /\ pc[s] \in {"once", "calling", "answered"} => entries[question[s]].once # "absent"
      /\ pc[s] = "answered" => entries[question[s]].once = "done"

\* An entry's answer is unset until a call for one of the sites that share
\* the key returns, and is what that call returned ever after.
AnswerInv ==
    \A k \in Keys :
      /\ entries[k].once # "done" => entries[k].answer = Unset
      /\ entries[k].once = "done" =>
           /\ k \in DetailKeys => entries[k].answer \in {Failed, Report}
           /\ k \in FirstKeys =>
                \E t \in Sites : /\ FirstKey(t) = k
                                 /\ entries[k].answer \in Replies(t, k)

\* A site has a verdict from "leaving" on, and a registry site's version is
\* the answer in its entry.
ResultInv ==
    \A s \in Sites :
      /\ results[s].verdict = "pending" <=> pc[s] \notin {"leaving", "gone"}
      /\ results[s].verdict = "pending" => results[s] = Pending
      /\ results[s].verdict = "ok" /\ ~IsCommand(s) =>
           /\ entries[FirstKey(s)].once = "done"
           /\ entries[FirstKey(s)].answer # Failed
           /\ results[s].latest = entries[FirstKey(s)].answer

IInv == /\ TypeOK /\ FoundInv /\ QuestionInv /\ EntryInv /\ SingleFlight
        /\ AnswerInv /\ ResultInv /\ WorkerBound

----------------------------------------------------------------------------
(* The questions and their answers.                                         *)

\* The three memos never share a key: what engine.go keeps in three maps.
LEMMA KeyFacts ==
    /\ \A s \in Sites : FirstKey(s) \in Keys /\ FirstKey(s) \in FirstKeys
                        /\ FirstKey(s) \notin DetailKeys
    /\ \A s \in DetailSites, c \in Versions, l \in Versions \cup {Blank} :
         /\ DetailKey(s, c, l) \in Keys
         /\ DetailKey(s, c, l) \in DetailKeys
         /\ DetailKey(s, c, l).latest = l
         /\ \A t \in Sites : DetailKey(s, c, l) # FirstKey(t)
    /\ FirstKeys \cap DetailKeys = {}
<1>1. \A s \in Sites : FirstKey(s).memo \in {"resolved", "commands"}
  BY DEF FirstKey, ResolveKey, CommandKey
<1>2. \A s, c, l : DetailKey(s, c, l).memo = "detailed" /\ DetailKey(s, c, l).latest = l
  BY DEF DetailKey
<1>3. \A s \in Sites : \A t, c, l : FirstKey(s) # DetailKey(t, c, l)
  BY <1>1, <1>2
<1>4. \A s \in DetailSites, c \in Versions, l \in Versions \cup {Blank} :
        DetailKey(s, c, l) \in DetailKeys
  BY DEF DetailKeys
<1>5. \A k \in DetailKeys : \E s \in DetailSites, c \in Versions, l \in Versions \cup {Blank} :
        k = DetailKey(s, c, l)
  BY DEF DetailKeys
<1>6. \A s \in Sites : FirstKey(s) \in FirstKeys /\ FirstKey(s) \notin DetailKeys
  BY <1>3, <1>5 DEF FirstKeys
<1>7. FirstKeys \cap DetailKeys = {}
  BY <1>6 DEF FirstKeys
<1>. QED BY <1>2, <1>3, <1>4, <1>6, <1>7 DEF Keys

\* Sites that share a question ask it of the same resolver, or the same command.
LEMMA SharedKindFacts ==
    ASSUME NEW s \in Sites, NEW t \in Sites, FirstKey(s) = FirstKey(t)
    PROVE  /\ IsCommand(s) <=> IsCommand(t)
           /\ ~IsCommand(s) => Config(s).resolver = Config(t).resolver
<1>1. ResolveKey(s).memo = "resolved" /\ ResolveKey(t).memo = "resolved"
      /\ CommandKey(s).memo = "commands" /\ CommandKey(t).memo = "commands"
  BY DEF ResolveKey, CommandKey
<1>2. IsCommand(s) <=> IsCommand(t)
  BY <1>1 DEF FirstKey
<1>3. ResolveKey(s).kind = Config(s).resolver /\ ResolveKey(t).kind = Config(t).resolver
  BY DEF ResolveKey
<1>4. ~IsCommand(s) => ResolveKey(s) = ResolveKey(t)
  BY <1>2 DEF FirstKey
<1>. QED BY <1>2, <1>3, <1>4

\* A call returns an error, a version or nothing for a registry's site, and
\* an error or an output for a command's.
LEMMA ReplyFacts ==
    ASSUME NEW t \in Sites
    PROVE  /\ IsCommand(t) => Replies(t, FirstKey(t)) = {Failed} \cup Outputs
           /\ ~IsCommand(t) => /\ Replies(t, FirstKey(t)) = {Failed, Blank} \cup Offered(t)
                               /\ Replies(t, FirstKey(t)) \subseteq {Failed} \cup Versions \cup {Blank}
           /\ Replies(t, FirstKey(t)) \subseteq Values \cup {Failed, Report}
           /\ Unset \notin Replies(t, FirstKey(t))
           /\ \A k \in DetailKeys : Replies(t, k) = {Failed, Report}
<1>1. FirstKey(t) \notin DetailKeys
  BY KeyFacts
<1>2. Offered(t) \subseteq Versions
  BY DEF Offered
<1>3. Replies(t, FirstKey(t)) \subseteq Values \cup {Failed, Report}
  BY <1>1, <1>2 DEF Replies, Values
<1>4. Unset \notin Replies(t, FirstKey(t))
  BY <1>3, UnsetAssumption
<1>. QED BY <1>1, <1>2, <1>3, <1>4 DEF Replies

\* Whatever the answer, a site turns it into a verdict of the right type, and
\* a registry's site keeps the answer's version as it is.
LEMMA ReadingFacts ==
    ASSUME NEW s \in Sites, NEW t \in Sites, FirstKey(t) = FirstKey(s),
           NEW c \in Versions \cup {Blank}, NEW a \in Replies(t, FirstKey(t)),
           NEW d \in BOOLEAN
    PROVE  /\ Reading(s, c, a, d) \in SiteResults
           /\ Reading(s, c, a, d).verdict \in {"ok", "failed"}
           /\ ~IsCommand(s) /\ Reading(s, c, a, d).verdict = "ok" =>
                a # Failed /\ Reading(s, c, a, d).latest = a
<1>1. CASE a = Failed
  BY <1>1 DEF Reading, Failure, Outcome, SiteResults, Verdicts
<1>2. CASE a # Failed /\ ~IsCommand(s)
  <2>1. a \in Versions \cup {Blank}
    BY <1>2, ReplyFacts, SharedKindFacts
  <2>. QED BY <1>2, <2>1 DEF Reading, Outcome, SiteResults, Verdicts
<1>3. CASE a # Failed /\ IsCommand(s)
  <2>1. a \in Outputs
    BY <1>3, ReplyFacts, SharedKindFacts
  <2>2. Config(s) \in ToolConfig /\ ToolOf[s] \in Names
    BY ConfigAssumption DEF Config
  <2>3. ResolverName(s) \in Names
    BY <2>2 DEF ResolverName, ToolConfig
  <2>4. Entry[a][ResolverName(s)] \in Listing
    BY <2>1, <2>3, ConfigAssumption
  <2>5. /\ FromOutput(s, c, a) \in SiteResults
        /\ FromOutput(s, c, a).verdict \in {"ok", "failed"}
    BY <2>4 DEF FromOutput, Failure, Outcome, SiteResults, Verdicts, Listing
  <2>. QED BY <1>3, <2>5 DEF Reading
<1>. QED BY <1>1, <1>2, <1>3
----------------------------------------------------------------------------
(* The invariant is inductive.                                              *)

\* Before the first goroutine runs, nobody holds a slot and no memo has a key.
LEMMA InitIInv == Init => IInv
<1>. SUFFICES ASSUME Init PROVE IInv
  OBVIOUS
<1>1. TypeOK
  BY ConfigAssumption DEF Init, TypeOK, Places, Entries, MemoEntry, SiteResults, Verdicts, Pending, Outcome, Blank
<1>2. FoundInv /\ QuestionInv /\ EntryInv
  BY DEF Init, FoundInv, QuestionInv, EntryInv, AtMemo
<1>3. SingleFlight
  BY DEF Init, SingleFlight, Callers, MemoEntry
<1>4. AnswerInv
  BY DEF Init, AnswerInv, MemoEntry
<1>6. WorkerBound
  <2>1. Holders = {}
    BY DEF Init, Holders, Holding
  <2>. QED BY <2>1, FS_EmptySet, WorkersAssumption DEF Init, WorkerBound, Workers
<1>5. ResultInv
  BY DEF Init, ResultInv, Pending, Outcome
<1>. QED BY <1>1, <1>2, <1>3, <1>4, <1>5, <1>6 DEF IInv

\* A goroutine past "route" asks one of the memos' keys.
LEMMA QuestionFacts ==
    ASSUME TypeOK, FoundInv, QuestionInv, NEW s \in Sites, pc[s] \in AtMemo
    PROVE  /\ question[s] \in Keys
           /\ question[s] \in FirstKeys => question[s] = FirstKey(s)
           /\ question[s] \in DetailKeys => question[s].latest = entries[FirstKey(s)].answer
<1>1. CASE question[s] = FirstKey(s)
  BY <1>1, KeyFacts
<1>2. CASE question[s] # FirstKey(s)
  <2>1. s \in DetailSites /\ Located[s]
    BY <1>2, LocatedAssumption DEF QuestionInv, DetailSites, IsCommand, Config
  <2>2. located[s] \in Versions
    BY <2>1 DEF FoundInv
  <2>. QED BY <1>2, <2>1, <2>2, KeyFacts DEF QuestionInv
<1>. QED BY <1>1, <1>2

\* Only taking and giving back a slot changes who holds one.
LEMMA HoldersStay ==
    ASSUME TypeOK, WorkerBound, NEW s \in Sites, NEW p \in Places \ {"spawned", "gone"},
           Holding(s), pc' = [pc EXCEPT ![s] = p], slots' = slots
    PROVE  WorkerBound'
<1>1. Holders' = Holders
  BY DEF Holders, Holding, TypeOK
<1>. QED BY <1>1 DEF WorkerBound

\* There are finitely many sites, so the slots they hold can be counted.
LEMMA HoldersFinite == IsFiniteSet(Holders) /\ Cardinality(Holders) \in Nat
BY FS_Subset, FS_CardinalityType, WorkersAssumption DEF Holders

\* Each step of a goroutine, from the semaphore to the release, keeps the
\* invariant.
LEMMA StepIInv == ASSUME IInv, NEW s \in Sites, Step(s) PROVE IInv'
<1>. USE DEF IInv
<1>1. CASE Acquire(s)
  <2>1. TypeOK'
    BY <1>1 DEF Acquire, TypeOK, Places
  <2>2. FoundInv' /\ QuestionInv' /\ EntryInv' /\ AnswerInv'
    BY <1>1 DEF Acquire, FoundInv, QuestionInv, EntryInv, AnswerInv, AtMemo, TypeOK
  <2>3. SingleFlight'
    BY <1>1 DEF Acquire, SingleFlight, Callers, TypeOK
  <2>4. ResultInv'
    BY <1>1 DEF Acquire, ResultInv, TypeOK
  <2>5. WorkerBound'
    <3>1. Holders' = Holders \cup {s} /\ s \notin Holders
      BY <1>1 DEF Acquire, Holders, Holding, TypeOK
    <3>2. Cardinality(Holders') = Cardinality(Holders) + 1
      BY <3>1, HoldersFinite, FS_AddElement
    <3>3. Workers \in Nat
      BY WorkersAssumption DEF Workers
    <3>. QED BY <1>1, <3>2, <3>3, HoldersFinite DEF Acquire, WorkerBound
  <2>. QED BY <2>1, <2>2, <2>3, <2>4, <2>5
<1>2. CASE FindFails(s)
  <2>1. TypeOK'
    BY <1>2, KeyFacts DEF FindFails, TypeOK, Places, Entries, Finish, Failure, Outcome, Pending, SiteResults, Verdicts
  <2>2. FoundInv'
    BY <1>2, KeyFacts DEF FindFails, FoundInv, AtMemo, TypeOK, Finish, Failure, Outcome, Pending, SiteResults, Verdicts
  <2>3. QuestionInv'
    BY <1>2, KeyFacts DEF FindFails, QuestionInv, AtMemo, TypeOK, Finish, Failure, Outcome, Pending, SiteResults, Verdicts
  <2>4. EntryInv'
    BY <1>2, KeyFacts DEF FindFails, EntryInv, TypeOK, Finish, Failure, Outcome, Pending, SiteResults, Verdicts
  <2>5. SingleFlight'
    BY <1>2, KeyFacts DEF FindFails, SingleFlight, Callers, TypeOK, Finish, Failure, Outcome, Pending, SiteResults, Verdicts
  <2>6. AnswerInv'
    BY <1>2, KeyFacts DEF FindFails, AnswerInv, TypeOK, Finish, Failure, Outcome, Pending, SiteResults, Verdicts
  <2>7. ResultInv'
    BY <1>2, KeyFacts DEF FindFails, ResultInv, TypeOK, Finish, Failure, Outcome, Pending, SiteResults, Verdicts
  <2>8. WorkerBound'
    BY <1>2, HoldersStay DEF FindFails, Places, Holding, Finish
  <2>. QED BY <2>1, <2>2, <2>3, <2>4, <2>5, <2>6, <2>7, <2>8
<1>3. CASE FindMismatches(s)
  <2>1. TypeOK'
    BY <1>3, KeyFacts DEF FindMismatches, TypeOK, Places, Entries, Finish, Failure, Outcome, Pending, SiteResults, Verdicts
  <2>2. FoundInv'
    BY <1>3, KeyFacts DEF FindMismatches, FoundInv, AtMemo, TypeOK, Finish, Failure, Outcome, Pending, SiteResults, Verdicts
  <2>3. QuestionInv'
    BY <1>3, KeyFacts DEF FindMismatches, QuestionInv, AtMemo, TypeOK, Finish, Failure, Outcome, Pending, SiteResults, Verdicts
  <2>4. EntryInv'
    BY <1>3, KeyFacts DEF FindMismatches, EntryInv, TypeOK, Finish, Failure, Outcome, Pending, SiteResults, Verdicts
  <2>5. SingleFlight'
    BY <1>3, KeyFacts DEF FindMismatches, SingleFlight, Callers, TypeOK, Finish, Failure, Outcome, Pending, SiteResults, Verdicts
  <2>6. AnswerInv'
    BY <1>3, KeyFacts DEF FindMismatches, AnswerInv, TypeOK, Finish, Failure, Outcome, Pending, SiteResults, Verdicts
  <2>7. ResultInv'
    BY <1>3, KeyFacts DEF FindMismatches, ResultInv, TypeOK, Finish, Failure, Outcome, Pending, SiteResults, Verdicts
  <2>8. WorkerBound'
    BY <1>3, HoldersStay DEF FindMismatches, Places, Holding, Finish
  <2>. QED BY <2>1, <2>2, <2>3, <2>4, <2>5, <2>6, <2>7, <2>8
<1>4. CASE FindMatches(s)
  <2>1. TypeOK'
    BY <1>4, KeyFacts DEF FindMatches, TypeOK, Places, Entries
  <2>2. FoundInv'
    BY <1>4, KeyFacts DEF FindMatches, FoundInv, AtMemo, TypeOK
  <2>3. QuestionInv'
    BY <1>4, KeyFacts DEF FindMatches, QuestionInv, AtMemo, TypeOK
  <2>4. EntryInv'
    BY <1>4, KeyFacts DEF FindMatches, EntryInv, TypeOK
  <2>5. SingleFlight'
    BY <1>4, KeyFacts DEF FindMatches, SingleFlight, Callers, TypeOK
  <2>6. AnswerInv'
    BY <1>4, KeyFacts DEF FindMatches, AnswerInv, TypeOK
  <2>7. ResultInv'
    BY <1>4, KeyFacts DEF FindMatches, ResultInv, TypeOK
  <2>8. WorkerBound'
    BY <1>4, HoldersStay DEF FindMatches, Places, Holding
  <2>. QED BY <2>1, <2>2, <2>3, <2>4, <2>5, <2>6, <2>7, <2>8
<1>5. CASE NothingToFind(s)
  <2>1. TypeOK'
    BY <1>5, KeyFacts DEF NothingToFind, TypeOK, Places, Entries
  <2>2. FoundInv'
    BY <1>5, KeyFacts DEF NothingToFind, FoundInv, AtMemo, TypeOK
  <2>3. QuestionInv'
    BY <1>5, KeyFacts DEF NothingToFind, QuestionInv, AtMemo, TypeOK
  <2>4. EntryInv'
    BY <1>5, KeyFacts DEF NothingToFind, EntryInv, TypeOK
  <2>5. SingleFlight'
    BY <1>5, KeyFacts DEF NothingToFind, SingleFlight, Callers, TypeOK
  <2>6. AnswerInv'
    BY <1>5, KeyFacts DEF NothingToFind, AnswerInv, TypeOK
  <2>7. ResultInv'
    BY <1>5, KeyFacts DEF NothingToFind, ResultInv, TypeOK
  <2>8. WorkerBound'
    BY <1>5, HoldersStay DEF NothingToFind, Places, Holding
  <2>. QED BY <2>1, <2>2, <2>3, <2>4, <2>5, <2>6, <2>7, <2>8
<1>6. CASE RouteFails(s)
  <2>1. TypeOK'
    BY <1>6, KeyFacts DEF RouteFails, TypeOK, Places, Entries, Finish, Failure, Outcome, Pending, SiteResults, Verdicts
  <2>2. FoundInv'
    BY <1>6, KeyFacts DEF RouteFails, FoundInv, AtMemo, TypeOK, Finish, Failure, Outcome, Pending, SiteResults, Verdicts
  <2>3. QuestionInv'
    BY <1>6, KeyFacts DEF RouteFails, QuestionInv, AtMemo, TypeOK, Finish, Failure, Outcome, Pending, SiteResults, Verdicts
  <2>4. EntryInv'
    BY <1>6, KeyFacts DEF RouteFails, EntryInv, TypeOK, Finish, Failure, Outcome, Pending, SiteResults, Verdicts
  <2>5. SingleFlight'
    BY <1>6, KeyFacts DEF RouteFails, SingleFlight, Callers, TypeOK, Finish, Failure, Outcome, Pending, SiteResults, Verdicts
  <2>6. AnswerInv'
    BY <1>6, KeyFacts DEF RouteFails, AnswerInv, TypeOK, Finish, Failure, Outcome, Pending, SiteResults, Verdicts
  <2>7. ResultInv'
    BY <1>6, KeyFacts DEF RouteFails, ResultInv, TypeOK, Finish, Failure, Outcome, Pending, SiteResults, Verdicts
  <2>8. WorkerBound'
    BY <1>6, HoldersStay DEF RouteFails, Places, Holding, Finish
  <2>. QED BY <2>1, <2>2, <2>3, <2>4, <2>5, <2>6, <2>7, <2>8
<1>7. CASE Route(s)
  <2>1. TypeOK'
    BY <1>7, KeyFacts DEF Route, TypeOK, Places, Entries, Ask
  <2>2. FoundInv'
    BY <1>7, KeyFacts DEF Route, FoundInv, AtMemo, TypeOK, Ask
  <2>3. QuestionInv'
    BY <1>7, KeyFacts DEF Route, QuestionInv, AtMemo, TypeOK, Ask
  <2>4. EntryInv'
    BY <1>7, KeyFacts DEF Route, EntryInv, TypeOK, Ask
  <2>5. SingleFlight'
    BY <1>7, KeyFacts DEF Route, SingleFlight, Callers, TypeOK, Ask
  <2>6. AnswerInv'
    BY <1>7, KeyFacts DEF Route, AnswerInv, TypeOK, Ask
  <2>7. ResultInv'
    BY <1>7, KeyFacts DEF Route, ResultInv, TypeOK, Ask
  <2>8. WorkerBound'
    BY <1>7, HoldersStay DEF Route, Places, Holding, Ask
  <2>. QED BY <2>1, <2>2, <2>3, <2>4, <2>5, <2>6, <2>7, <2>8
<1>8. CASE EnterMemo(s)
  <2>0. question[s] \in Keys /\ pc[s] = "memo"
    BY <1>8, QuestionFacts DEF EnterMemo, AtMemo
  <2>k. CASE entries[question[s]].once = "absent"
    <3>1. /\ entries' = [entries EXCEPT ![question[s]] = MemoEntry("fresh", Unset)]
          /\ entries'[question[s]].once = "fresh"
          /\ entries'[question[s]].answer = Unset
          /\ \A k \in Keys : k # question[s] => entries'[k] = entries[k]
      BY <1>8, <2>0, <2>k DEF EnterMemo, TypeOK, MemoEntry
    <3>2. TypeOK'
      BY <1>8, <3>1 DEF EnterMemo, TypeOK, Places, Entries, MemoEntry
    <3>3. FoundInv' /\ QuestionInv' /\ ResultInv'
      BY <1>8, <2>k, <3>1, KeyFacts DEF EnterMemo, FoundInv, QuestionInv, ResultInv, AtMemo, TypeOK
    <3>4. EntryInv'
      BY <1>8, <2>k, <3>1, QuestionFacts DEF EnterMemo, EntryInv, AtMemo, TypeOK
    <3>5. SingleFlight'
      BY <1>8, <2>k, <3>1 DEF EnterMemo, SingleFlight, Callers, TypeOK
    <3>6. AnswerInv'
      BY <1>8, <2>k, <3>1 DEF AnswerInv
    <3>. QED BY <1>8, <3>2, <3>3, <3>4, <3>5, <3>6, HoldersStay DEF EnterMemo, Places, Holding
  <2>l. CASE entries[question[s]].once # "absent"
    <3>1. entries' = entries
      BY <1>8, <2>l DEF EnterMemo
    <3>2. TypeOK'
      BY <1>8, <3>1 DEF EnterMemo, TypeOK, Places
    <3>3. FoundInv' /\ QuestionInv' /\ EntryInv' /\ AnswerInv' /\ ResultInv'
      BY <1>8, <2>l, <3>1 DEF EnterMemo, FoundInv, QuestionInv, EntryInv, AnswerInv, ResultInv, AtMemo, TypeOK
    <3>4. SingleFlight'
      BY <1>8, <3>1 DEF EnterMemo, SingleFlight, Callers, TypeOK
    <3>. QED BY <1>8, <3>2, <3>3, <3>4, HoldersStay DEF EnterMemo, Places, Holding
  <2>. QED BY <2>k, <2>l
<1>9. CASE OnceRuns(s)
  <2>0. /\ question[s] \in Keys
        /\ entries[question[s]].once = "fresh"
        /\ pc[s] = "once"
    BY <1>9, QuestionFacts DEF OnceRuns, AtMemo
  <2>1. /\ entries' = [entries EXCEPT ![question[s]] = MemoEntry("running", Unset)]
        /\ entries'[question[s]].once = "running"
        /\ entries'[question[s]].answer = Unset
        /\ \A k \in Keys : k # question[s] => entries'[k] = entries[k]
    BY <1>9, <2>0 DEF OnceRuns, TypeOK, MemoEntry
  <2>2. TypeOK'
    BY <1>9, <2>1 DEF OnceRuns, TypeOK, Places, Entries, MemoEntry
  <2>3. FoundInv' /\ QuestionInv' /\ ResultInv'
    BY <1>9, <2>0, <2>1, KeyFacts DEF OnceRuns, FoundInv, QuestionInv, ResultInv, AtMemo, TypeOK
  <2>4. EntryInv'
    BY <1>9, <2>0, <2>1, QuestionFacts DEF OnceRuns, EntryInv, AtMemo, TypeOK
  <2>5. SingleFlight'
    <3>1. Callers(question[s]) = {}
      BY <2>0 DEF SingleFlight
    <3>2. \A t \in Sites : pc'[t] = "calling" <=> (t = s \/ pc[t] = "calling")
      BY <1>9 DEF OnceRuns, TypeOK
    <3>3. question' = question
      BY <1>9 DEF OnceRuns
    <3>4. \A k \in Keys : k # question[s] => Callers(k)' = Callers(k)
      BY <3>2, <3>3 DEF Callers
    <3>5. s \in Callers(question[s])'
      BY <3>2, <3>3 DEF Callers
    <3>6. \A k \in Keys : (entries[k].once = "running" <=> Callers(k) # {})'
      BY <2>0, <2>1, <3>3, <3>4, <3>5 DEF SingleFlight
    <3>7. \A t \in Sites : pc[t] = "calling" => question[t] # question[s]
      BY <3>1 DEF Callers
    <3>. QED BY <3>2, <3>3, <3>6, <3>7 DEF SingleFlight
  <2>6. AnswerInv'
    BY <2>0, <2>1 DEF AnswerInv
  <2>. QED BY <1>9, <2>2, <2>3, <2>4, <2>5, <2>6, HoldersStay DEF OnceRuns, Places, Holding
<1>10. CASE CallReturns(s)
  <2>0. question[s] \in Keys /\ pc[s] = "calling" /\ entries[question[s]].once = "running"
    BY <1>10, QuestionFacts DEF CallReturns, AtMemo, SingleFlight, Callers
  <2>1. PICK a \in Replies(s, question[s]) :
          entries' = [entries EXCEPT ![question[s]] = MemoEntry("done", a)]
    BY <1>10 DEF CallReturns
  <2>2. a \in Values \cup {Failed, Report}
    BY <2>0, ReplyFacts, KeyFacts, QuestionFacts DEF AtMemo, Keys
  <2>3. /\ entries'[question[s]].once = "done"
        /\ entries'[question[s]].answer = a
        /\ \A k \in Keys : k # question[s] => entries'[k] = entries[k]
    BY <2>0, <2>1 DEF TypeOK, MemoEntry
  <2>4. TypeOK'
    BY <1>10, <2>1, <2>2 DEF CallReturns, TypeOK, Places, Entries, MemoEntry
  <2>5. \A t \in Sites : entries[FirstKey(t)].once = "done" => entries'[FirstKey(t)] = entries[FirstKey(t)]
    BY <2>0, <2>3, KeyFacts
  <2>6. FoundInv' /\ QuestionInv' /\ ResultInv'
    BY <1>10, <2>0, <2>5 DEF CallReturns, FoundInv, QuestionInv, ResultInv, AtMemo, TypeOK
  <2>7. EntryInv'
    <3>1. ASSUME NEW t \in Sites, pc'[t] \in {"once", "calling", "answered"}
          PROVE  /\ question'[t] \in Keys
                 /\ t # s => pc'[t] = pc[t] /\ pc[t] \in AtMemo
                 /\ question'[t] = question[t]
      BY <1>10, <3>1, <2>0, QuestionFacts DEF CallReturns, AtMemo, TypeOK
    <3>. QED BY <1>10, <3>1, <2>3 DEF EntryInv
  <2>8. SingleFlight'
    <3>1. \A t \in Sites : pc'[t] = "calling" <=> (t # s /\ pc[t] = "calling")
      BY <1>10 DEF CallReturns, TypeOK
    <3>2. question' = question
      BY <1>10 DEF CallReturns
    <3>3. \A t \in Sites : pc'[t] = "calling" => question[t] # question[s]
      BY <3>1, <2>0 DEF SingleFlight
    <3>4. \A k \in Keys : k # question[s] => Callers(k)' = Callers(k)
      BY <3>1, <3>2 DEF Callers
    <3>5. Callers(question[s])' = {}
      BY <3>2, <3>3 DEF Callers
    <3>6. \A k \in Keys : (entries[k].once = "running" <=> Callers(k) # {})'
      BY <2>3, <3>2, <3>4, <3>5 DEF SingleFlight
    <3>. QED BY <3>1, <3>2, <3>6 DEF SingleFlight
  <2>9. AnswerInv'
    <3>1. question[s] \in DetailKeys => a \in {Failed, Report}
      BY <2>1, ReplyFacts
    <3>2. question[s] \in FirstKeys => question[s] = FirstKey(s)
      BY <2>0, QuestionFacts DEF AtMemo
    <3>. QED BY <2>1, <2>3, <3>1, <3>2 DEF AnswerInv
  <2>. QED BY <1>10, <2>4, <2>6, <2>7, <2>8, <2>9, HoldersStay DEF CallReturns, Places, Holding
<1>11. CASE OnceShares(s)
  <2>1. TypeOK'
    BY <1>11, KeyFacts DEF OnceShares, TypeOK, Places, Entries
  <2>2. FoundInv'
    BY <1>11, KeyFacts DEF OnceShares, FoundInv, AtMemo, TypeOK
  <2>3. QuestionInv'
    BY <1>11, KeyFacts DEF OnceShares, QuestionInv, AtMemo, TypeOK
  <2>4. EntryInv'
    BY <1>11, KeyFacts DEF OnceShares, EntryInv, TypeOK
  <2>5. SingleFlight'
    BY <1>11, KeyFacts DEF OnceShares, SingleFlight, Callers, TypeOK
  <2>6. AnswerInv'
    BY <1>11, KeyFacts DEF OnceShares, AnswerInv, TypeOK
  <2>7. ResultInv'
    BY <1>11, KeyFacts DEF OnceShares, ResultInv, TypeOK
  <2>8. WorkerBound'
    BY <1>11, HoldersStay DEF OnceShares, Places, Holding
  <2>. QED BY <2>1, <2>2, <2>3, <2>4, <2>5, <2>6, <2>7, <2>8
<1>12. CASE Conclude(s)
  <2>0. /\ pc[s] = "answered" /\ question[s] = FirstKey(s) /\ FirstKey(s) \in Keys
        /\ entries[FirstKey(s)].once = "done"
        /\ Answer(s) = entries[FirstKey(s)].answer
    BY <1>12, KeyFacts DEF Conclude, EntryInv, Answer
  <2>1. PICK t \in Sites : FirstKey(t) = FirstKey(s) /\ Answer(s) \in Replies(t, FirstKey(t))
    BY <2>0, KeyFacts DEF AnswerInv
  <2>2. located[s] \in Versions \cup {Blank}
    BY DEF TypeOK
  <2>3. DEFINE r == Reading(s, located[s], Answer(s), FALSE)
  <2>4. /\ r \in SiteResults /\ r.verdict \in {"ok", "failed"}
        /\ ~IsCommand(s) /\ r.verdict = "ok" => Answer(s) # Failed /\ r.latest = Answer(s)
    BY <2>1, <2>2, ReadingFacts
  <2>5. results' = [results EXCEPT ![s] = r] /\ pc' = [pc EXCEPT ![s] = "leaving"]
    BY <1>12 DEF Conclude, Finish
  <2>. HIDE DEF r
  <2>6. TypeOK'
    BY <1>12, <2>4, <2>5 DEF Conclude, TypeOK, Places
  <2>7. FoundInv' /\ QuestionInv' /\ EntryInv' /\ AnswerInv'
    BY <1>12, <2>5 DEF Conclude, FoundInv, QuestionInv, EntryInv, AnswerInv, AtMemo, TypeOK
  <2>8. SingleFlight'
    BY <1>12, <2>5 DEF Conclude, SingleFlight, Callers, TypeOK
  <2>9. ResultInv'
    BY <1>12, <2>0, <2>4, <2>5 DEF Conclude, ResultInv, TypeOK
  <2>. QED BY <1>12, <2>5, <2>6, <2>7, <2>8, <2>9, HoldersStay DEF Conclude, Places, Holding
<1>13. CASE AskDetail(s)
  <2>0. /\ pc[s] = "answered" /\ question[s] = FirstKey(s) /\ FirstKey(s) \in Keys
        /\ entries[FirstKey(s)].once = "done"
        /\ Answer(s) = entries[FirstKey(s)].answer /\ Answer(s) # Failed
        /\ s \in DetailSites /\ ~IsCommand(s)
    BY <1>13, KeyFacts DEF AskDetail, WantsDetail, EntryInv, Answer, DetailSites
  <2>1. PICK t \in Sites : FirstKey(t) = FirstKey(s) /\ Answer(s) \in Replies(t, FirstKey(t))
    BY <2>0, KeyFacts DEF AnswerInv
  <2>2. Answer(s) \in Versions \cup {Blank}
    BY <2>0, <2>1, ReplyFacts, SharedKindFacts
  <2>3. located[s] \in Versions
    BY <2>0, LocatedAssumption DEF FoundInv, AtMemo, IsCommand, Config
  <2>4. DEFINE k == DetailKey(s, located[s], Answer(s))
  <2>5. k \in Keys
    BY <2>0, <2>2, <2>3, KeyFacts
  <2>6. question' = [question EXCEPT ![s] = k] /\ pc' = [pc EXCEPT ![s] = "memo"]
    BY <1>13 DEF AskDetail, Ask
  <2>7. TypeOK'
    BY <1>13, <2>5, <2>6 DEF AskDetail, TypeOK, Places
  <2>8. FoundInv' /\ EntryInv' /\ AnswerInv' /\ ResultInv'
    BY <1>13, <2>0, <2>6 DEF AskDetail, FoundInv, EntryInv, AnswerInv, ResultInv, AtMemo, TypeOK
  <2>9. QuestionInv'
    BY <1>13, <2>0, <2>2, <2>6 DEF AskDetail, QuestionInv, AtMemo, TypeOK
  <2>10. SingleFlight'
    BY <1>13, <2>0, <2>6 DEF AskDetail, SingleFlight, Callers, TypeOK
  <2>. QED BY <1>13, <2>0, <2>6, <2>7, <2>8, <2>9, <2>10, HoldersStay DEF AskDetail, Places, Holding
<1>14. CASE ConcludeDetail(s)
  <2>0. /\ pc[s] = "answered" /\ s \in DetailSites
        /\ entries[FirstKey(s)].once = "done"
        /\ entries[FirstKey(s)].answer \in Versions \cup {Blank}
        /\ question[s] = DetailKey(s, located[s], entries[FirstKey(s)].answer)
    BY <1>14 DEF ConcludeDetail, QuestionInv, AtMemo
  <2>1. question[s].latest = entries[FirstKey(s)].answer
    BY <2>0 DEF DetailKey
  <2>2. entries[FirstKey(s)].answer # Failed
    BY <2>0, DistinctAssumption
  <2>3. DEFINE r == Outcome("ok", located[s], question[s].latest, Answer(s) # Failed)
  <2>4. r \in SiteResults /\ r.verdict = "ok" /\ r.latest = entries[FirstKey(s)].answer
    BY <2>0, <2>1 DEF Outcome, SiteResults, Verdicts, TypeOK
  <2>5. results' = [results EXCEPT ![s] = r] /\ pc' = [pc EXCEPT ![s] = "leaving"]
    BY <1>14 DEF ConcludeDetail, Finish
  <2>. HIDE DEF r
  <2>6. TypeOK'
    BY <1>14, <2>4, <2>5 DEF ConcludeDetail, TypeOK, Places
  <2>7. FoundInv' /\ QuestionInv' /\ EntryInv' /\ AnswerInv'
    BY <1>14, <2>5 DEF ConcludeDetail, FoundInv, QuestionInv, EntryInv, AnswerInv, AtMemo, TypeOK
  <2>8. SingleFlight'
    BY <1>14, <2>5 DEF ConcludeDetail, SingleFlight, Callers, TypeOK
  <2>9. ResultInv'
    BY <1>14, <2>0, <2>2, <2>4, <2>5 DEF ConcludeDetail, ResultInv, TypeOK
  <2>. QED BY <1>14, <2>0, <2>5, <2>6, <2>7, <2>8, <2>9, HoldersStay DEF ConcludeDetail, Places, Holding
<1>15. CASE Release(s)
  <2>1. Holders' = Holders \ {s} /\ s \in Holders
    BY <1>15 DEF Release, Holders, Holding, TypeOK
  <2>2. Cardinality(Holders') = Cardinality(Holders) - 1
    BY <2>1, HoldersFinite, FS_RemoveElement
  <2>3. Holders' \subseteq Holders /\ Cardinality(Holders') \in Nat
    BY <2>1, HoldersFinite, FS_RemoveElement, FS_CardinalityType
  <2>4. Workers \in Nat
    BY WorkersAssumption DEF Workers
  <2>5. WorkerBound'
    BY <1>15, <2>2, <2>3, <2>4, HoldersFinite DEF Release, WorkerBound
  <2>6. TypeOK'
    BY <1>15, <2>2, <2>3 DEF Release, TypeOK, Places, WorkerBound
  <2>7. FoundInv' /\ QuestionInv' /\ EntryInv' /\ AnswerInv' /\ ResultInv'
    BY <1>15 DEF Release, FoundInv, QuestionInv, EntryInv, AnswerInv, ResultInv, AtMemo, TypeOK
  <2>8. SingleFlight'
    BY <1>15 DEF Release, SingleFlight, Callers, TypeOK
  <2>. QED BY <2>5, <2>6, <2>7, <2>8
<1>. QED BY <1>1, <1>2, <1>3, <1>4, <1>5, <1>6, <1>7, <1>8, <1>9, <1>10, <1>11, <1>12, <1>13, <1>14, <1>15 DEF Step

\* So does the return of RunSites, which only waits for them.
LEMMA NextIInv == IInv /\ [Next]_vars => IInv'
<1>. SUFFICES ASSUME IInv, [Next]_vars PROVE IInv'
  OBVIOUS
<1>1. ASSUME NEW s \in Sites, Step(s) PROVE IInv'
  BY <1>1, StepIInv
<1>2. CASE Return \/ UNCHANGED vars
  <2>. USE <1>2 DEF Return, vars
  <2>1. TypeOK' /\ FoundInv' /\ QuestionInv' /\ EntryInv'
    BY DEF IInv, TypeOK, FoundInv, QuestionInv, EntryInv
  <2>2. SingleFlight' /\ WorkerBound'
    BY DEF IInv, SingleFlight, Callers, WorkerBound, Holders, Holding
  <2>3. AnswerInv' /\ ResultInv'
    BY DEF IInv, AnswerInv, ResultInv
  <2>. QED BY <2>1, <2>2, <2>3 DEF IInv
<1>. QED BY <1>1, <1>2 DEF Next, Done

\* Hence the invariant holds throughout every run of the engine.
THEOREM Invariance == Spec => []IInv
<1>1. Init => IInv
  BY InitIInv
<1>2. IInv /\ [Next]_vars => IInv'
  BY NextIInv
<1>. QED BY <1>1, <1>2, PTL DEF Spec

----------------------------------------------------------------------------
(* What follows from it.                                                    *)

\* Every variable of the engine keeps its type, whatever the config.
THEOREM TypeCorrect == Spec => []TypeOK
BY Invariance, PTL DEF IInv

\* For any number of sites and any --workers value, RunSites never has more
\* sites past its semaphore than Workers, and the tokens in the semaphore's
\* channel count exactly those.
THEOREM WorkersBounded == Spec => []WorkerBound
BY Invariance, PTL DEF IInv

\* For any config, a memo never has two calls for one key under way, and a
\* running entry always has a goroutine with a slot behind it.
THEOREM SingleFlightHolds == Spec => []SingleFlight
BY Invariance, PTL DEF IInv

\* For any config, a registry site whose memo key is shared only by sites
\* under the same hold is never offered a version at or above its ceiling,
\* whichever site's call answered for it.
THEOREM HoldsRespected == Spec => []HoldsRespectedWhereShared
<1>1. IInv => HoldsRespectedWhereShared
  <2>. SUFFICES ASSUME IInv, NEW s \in Sites, ~IsCommand(s),
                       Config(s).resolver \notin BranchKinds,
                       \A t \in Sharers(s) : Ceiling(t) = Ceiling(s),
                       Crosses(s)
                PROVE  FALSE
    BY DEF HoldsRespectedWhereShared
  <2>1. /\ results[s].latest = entries[FirstKey(s)].answer
        /\ entries[FirstKey(s)].answer # Failed
        /\ entries[FirstKey(s)].once = "done"
    BY DEF IInv, ResultInv, Crosses
  <2>2. PICK t \in Sites : /\ FirstKey(t) = FirstKey(s)
                           /\ results[s].latest \in Replies(t, FirstKey(t))
    BY <2>1, KeyFacts DEF IInv, AnswerInv
  <2>3. /\ ~IsCommand(t)
        /\ Config(t).resolver \notin BranchKinds
        /\ Ceiling(t) = Ceiling(s)
    BY <2>2, SharedKindFacts DEF Sharers
  <2>4. results[s].latest \in {Blank} \cup Offered(t)
    BY <2>1, <2>2, <2>3, ReplyFacts
  <2>5. Ceiling(s) \in Nat \ {0}
    <3>1. Config(s) \in ToolConfig
      BY ConfigAssumption DEF Config
    <3>. QED BY <3>1, ConfigAssumption DEF Ceiling, ToolConfig, Crosses, NoCeiling
  <2>6. CASE results[s].latest = Blank
    BY <2>5, <2>6 DEF Crosses, Blank
  <2>7. CASE results[s].latest \in Offered(t)
    <3>1. results[s].latest \in Nat /\ results[s].latest < Ceiling(s)
      BY <2>3, <2>5, <2>7, ConfigAssumption DEF Offered, Matches, NoCeiling
    <3>. QED BY <2>5, <3>1 DEF Crosses
  <2>. QED BY <2>4, <2>6, <2>7
<1>. QED BY <1>1, Invariance, PTL

\* When RunSites returns, every goroutine has left, with its verdict written.
THEOREM ReturnsCompletely == Spec => []ReturnsComplete
<1>. DEFINE AllGone == returned => \A s \in Sites : pc[s] = "gone"
<1>1. Init => AllGone
  BY DEF Init
<1>2. IInv /\ AllGone /\ [Next]_vars => AllGone'
  <2>. SUFFICES ASSUME IInv, AllGone, [Next]_vars PROVE AllGone'
    OBVIOUS
  <2>1. ASSUME NEW s \in Sites, Step(s) PROVE ~returned /\ returned' = returned
    BY <2>1 DEF Step, Acquire, FindFails, FindMismatches, FindMatches, NothingToFind,
       RouteFails, Route, EnterMemo, OnceRuns, CallReturns, OnceShares, Conclude,
       AskDetail, ConcludeDetail, Release
  <2>2. CASE Return \/ Done \/ UNCHANGED vars
    BY <2>2 DEF Return, Done, vars
  <2>. QED BY <2>1, <2>2 DEF Next
<1>3. IInv /\ AllGone => ReturnsComplete
  <2>. SUFFICES ASSUME IInv, AllGone, returned PROVE ReturnsComplete
    BY DEF ReturnsComplete
  <2>1. Holders = {}
    BY DEF Holders, Holding
  <2>2. slots = 0
    BY <2>1, FS_EmptySet DEF IInv, WorkerBound
  <2>. QED BY <2>2 DEF IInv, ResultInv, ReturnsComplete
<1>. QED BY <1>1, <1>2, <1>3, Invariance, PTL DEF Spec

----------------------------------------------------------------------------
(* RunSites implements SharedAnswers.                                       *)

\* The instance's constant operators are those of PinConfig.
LEMMA SharedOperators ==
    /\ \A s \in Sites : Shared!FirstKey(s) = FirstKey(s)
    /\ Shared!FirstKeys = FirstKeys
    /\ \A s, k : Shared!Replies(s, k) = Replies(s, k)
    /\ \A s, c, a, d : Shared!Reading(s, c, a, d) = Reading(s, c, a, d)
    /\ \A v, c : Shared!Failure(v, c) = Failure(v, c)
    /\ Shared!Pending = Pending
    /\ Shared!Blank = Blank
<1>. USE DEF Shared!Config, Config, Shared!IsCommand, IsCommand, Shared!ResolverName,
       ResolverName, Shared!Raw, Raw, Shared!Blank, Blank, Shared!Ceiling, Ceiling,
       Shared!NoCeiling, NoCeiling
<1>1. \A s : Shared!ResolveKey(s) = ResolveKey(s) /\ Shared!CommandKey(s) = CommandKey(s)
  BY DEF Shared!ResolveKey, ResolveKey, Shared!CommandKey, CommandKey
<1>2. \A s : Shared!FirstKey(s) = FirstKey(s)
  BY <1>1 DEF Shared!FirstKey, FirstKey
<1>3. Shared!FirstKeys = FirstKeys
  BY <1>2 DEF Shared!FirstKeys, FirstKeys
<1>4. \A s, c, l : Shared!DetailKey(s, c, l) = DetailKey(s, c, l)
  BY <1>1 DEF Shared!DetailKey, DetailKey
<1>5. Shared!DetailSites = DetailSites
  BY DEF Shared!DetailSites, DetailSites
<1>6. Shared!DetailKeys = DetailKeys
  BY <1>4, <1>5 DEF Shared!DetailKeys, DetailKeys
<1>7. \A s : Shared!Offered(s) = Offered(s)
  BY DEF Shared!Offered, Offered, Shared!Matches, Matches
<1>8. \A s, k : Shared!Replies(s, k) = Replies(s, k)
  BY <1>6, <1>7 DEF Shared!Replies, Replies
<1>9. \A v, c, l, d : Shared!Outcome(v, c, l, d) = Outcome(v, c, l, d)
  BY DEF Shared!Outcome, Outcome
<1>10. (\A v, c : Shared!Failure(v, c) = Failure(v, c)) /\ Shared!Pending = Pending
  BY <1>9 DEF Shared!Failure, Failure, Shared!Pending, Pending
<1>11. \A s, c, o : Shared!FromOutput(s, c, o) = FromOutput(s, c, o)
  BY DEF Shared!FromOutput, FromOutput, Shared!Outcome, Outcome, Shared!Failure, Failure
<1>12. \A s, c, a, d : Shared!Reading(s, c, a, d) = Reading(s, c, a, d)
  BY <1>9, <1>10, <1>11 DEF Shared!Reading, Reading
<1>. QED BY <1>2, <1>3, <1>8, <1>10, <1>12

\* A call that returns on a first question settles it.
LEMMA SettleMaps ==
    ASSUME IInv, NEW s \in Sites, CallReturns(s)
    PROVE  (Shared!Settle(s) \/ UNCHANGED Shared!vars)
<1>0. question[s] \in Keys /\ entries[question[s]].answer = Unset
      /\ (question[s] \in FirstKeys => question[s] = FirstKey(s))
  BY QuestionFacts DEF CallReturns, IInv, AtMemo, SingleFlight, Callers, AnswerInv
<1>1. PICK a \in Replies(s, question[s]) :
        entries' = [entries EXCEPT ![question[s]] = MemoEntry("done", a)]
  BY DEF CallReturns
<1>2. results' = results
  BY DEF CallReturns
<1>3. \A k \in Keys : entries'[k].answer = IF k = question[s] THEN a ELSE entries[k].answer
  BY <1>0, <1>1 DEF IInv, TypeOK, MemoEntry
<1>4. FirstKeys \subseteq Keys
  BY DEF Keys
<1>5. CASE question[s] \in FirstKeys
  <2>1. [k \in FirstKeys |-> entries'[k].answer]
          = [[k \in FirstKeys |-> entries[k].answer] EXCEPT ![FirstKey(s)] = a]
    BY <1>0, <1>3, <1>4, <1>5
  <2>2. [k \in FirstKeys |-> entries[k].answer][FirstKey(s)] = Unset
    BY <1>0, <1>5
  <2>. QED BY <1>0, <1>2, <1>5, <2>1, <2>2, SharedOperators DEF Shared!Settle
<1>6. CASE question[s] \notin FirstKeys
  <2>1. [k \in FirstKeys |-> entries'[k].answer] = [k \in FirstKeys |-> entries[k].answer]
    BY <1>3, <1>4, <1>6
  <2>. QED BY <1>2, <2>1, SharedOperators DEF Shared!vars
<1>. QED BY <1>5, <1>6

\* A site that ends on its own account fails alone.
LEMMA FailAloneMaps ==
    ASSUME IInv, NEW s \in Sites, FindFails(s) \/ FindMismatches(s) \/ RouteFails(s)
    PROVE  Shared!FailAlone(s)
<1>1. results[s] = Pending /\ entries' = entries
  BY DEF IInv, ResultInv, FindFails, FindMismatches, RouteFails
<1>2. located[s] \in Versions \cup {Blank} /\ Blank \in Versions \cup {Blank}
  BY DEF IInv, TypeOK
<1>3. PICK v \in {"mismatch", "failed"}, c \in Versions \cup {Blank} :
        results' = [results EXCEPT ![s] = Failure(v, c)]
  BY <1>2 DEF FindFails, FindMismatches, RouteFails, Finish
<1>. QED BY <1>1, <1>3, SharedOperators DEF Shared!FailAlone

\* A site that concludes takes the settled answer to its first question.
LEMMA TakeMaps ==
    ASSUME IInv, NEW s \in Sites, Conclude(s) \/ ConcludeDetail(s)
    PROVE  Shared!Take(s)
<1>0. pc[s] = "answered" /\ entries' = entries
  BY DEF Conclude, ConcludeDetail
<1>1. results[s] = Pending /\ located[s] \in Versions \cup {Blank}
  BY <1>0 DEF IInv, ResultInv, TypeOK
<1>2. /\ FirstKey(s) \in FirstKeys /\ FirstKey(s) \in Keys
      /\ entries[FirstKey(s)].once = "done"
  BY <1>0, KeyFacts DEF IInv, QuestionInv, EntryInv, AtMemo
<1>3. entries[FirstKey(s)].answer # Unset
  BY <1>2, ReplyFacts DEF IInv, AnswerInv
<1>4. PICK d \in BOOLEAN :
        results' = [results EXCEPT
                      ![s] = Reading(s, located[s], entries[FirstKey(s)].answer, d)]
  <2>1. CASE Conclude(s)
    BY <2>1 DEF Conclude, Finish, Answer
  <2>2. CASE ConcludeDetail(s)
    <3>1. /\ s \in DetailSites
          /\ entries[FirstKey(s)].answer \in Versions \cup {Blank}
          /\ question[s] = DetailKey(s, located[s], entries[FirstKey(s)].answer)
      BY <2>2, <1>0 DEF ConcludeDetail, IInv, QuestionInv, AtMemo
    <3>2. /\ question[s].latest = entries[FirstKey(s)].answer
          /\ entries[FirstKey(s)].answer # Failed
          /\ ~IsCommand(s)
      BY <3>1, DistinctAssumption DEF DetailKey, DetailSites
    <3>3. results' = [results EXCEPT ![s] = Outcome("ok", located[s],
                        entries[FirstKey(s)].answer, Answer(s) # Failed)]
      BY <2>2, <3>2 DEF ConcludeDetail, Finish
    <3>4. \A d : Reading(s, located[s], entries[FirstKey(s)].answer, d)
                   = Outcome("ok", located[s], entries[FirstKey(s)].answer, d)
      BY <3>2 DEF Reading
    <3>. DEFINE told == (Answer(s) # Failed)
    <3>5. told \in BOOLEAN
      OBVIOUS
    <3>6. results' = [results EXCEPT
                        ![s] = Outcome("ok", located[s], entries[FirstKey(s)].answer, told)]
      BY <3>3
    <3>. HIDE DEF told
    <3>7. Reading(s, located[s], entries[FirstKey(s)].answer, told)
            = Outcome("ok", located[s], entries[FirstKey(s)].answer, told)
      BY <3>4
    <3>. QED BY <3>5, <3>6, <3>7
  <2>. QED BY <2>1, <2>2
<1>. QED BY <1>0, <1>1, <1>2, <1>3, <1>4, SharedOperators DEF Shared!Take

\* For every config and every interleaving, RunSites behaves as if each
\* question were settled once and every site told that one answer.
THEOREM Refinement == Spec => ImplementsShared
<1>1. Init => Shared!Init
  <2>. SUFFICES ASSUME Init PROVE Shared!Init
    OBVIOUS
  <2>1. \A k \in FirstKeys : entries[k].answer = Unset
    BY DEF Init, MemoEntry, Keys
  <2>. QED BY <2>1, SharedOperators DEF Init, Shared!Init
<1>2. IInv /\ [Next]_vars => [Shared!Next]_Shared!vars
  <2>. SUFFICES ASSUME IInv, [Next]_vars PROVE Shared!Next \/ UNCHANGED Shared!vars
    OBVIOUS
  <2>1. ASSUME NEW s \in Sites, Step(s) PROVE Shared!Next \/ UNCHANGED Shared!vars
    <3>1. CASE CallReturns(s)
      BY <3>1, SettleMaps DEF Shared!Next
    <3>2. CASE FindFails(s) \/ FindMismatches(s) \/ RouteFails(s)
      BY <3>2, FailAloneMaps DEF Shared!Next
    <3>3. CASE Conclude(s) \/ ConcludeDetail(s)
      BY <3>3, TakeMaps DEF Shared!Next
    <3>4. CASE \/ Acquire(s) \/ FindMatches(s) \/ NothingToFind(s) \/ Route(s)
               \/ OnceShares(s) \/ AskDetail(s) \/ Release(s)
      <4>1. entries' = entries /\ results' = results
        BY <3>4 DEF Acquire, FindMatches, NothingToFind, Route, OnceShares, AskDetail,
           Release
      <4>. QED BY <4>1, SharedOperators DEF Shared!vars
    <3>5. CASE EnterMemo(s) \/ OnceRuns(s)
      <4>1. question[s] \in Keys /\ results' = results
        BY <3>5, QuestionFacts DEF EnterMemo, OnceRuns, IInv, AtMemo
      <4>2. \A k \in Keys : entries'[k].answer = entries[k].answer
        BY <3>5, <4>1 DEF EnterMemo, OnceRuns, IInv, TypeOK, AnswerInv, MemoEntry
      <4>3. [k \in FirstKeys |-> entries'[k].answer] = [k \in FirstKeys |-> entries[k].answer]
        BY <4>2 DEF Keys
      <4>. QED BY <4>1, <4>3, SharedOperators DEF Shared!vars
    <3>. QED BY <2>1, <3>1, <3>2, <3>3, <3>4, <3>5 DEF Step
  <2>2. CASE Return \/ UNCHANGED vars
    <3>1. entries' = entries /\ results' = results
      BY <2>2 DEF Return, vars
    <3>. QED BY <3>1, SharedOperators DEF Shared!vars
  <2>. QED BY <2>1, <2>2 DEF Next, Done
<1>. QED BY <1>1, <1>2, Invariance, PTL DEF Spec, ImplementsShared, Shared!Spec

----------------------------------------------------------------------------
(* One call a question, over the whole run.                                  *)

OnceRank == [o \in {"absent", "fresh", "running", "done"} |->
               CASE o = "absent" -> 0 [] o = "fresh" -> 1 [] o = "running" -> 2 [] OTHER -> 3]

\* What a step makes of the entry of a key: no entry ever goes back to an
\* earlier state of its once, so that each of the calls it stands for is made
\* once in a run, and what a call returned is there for good.
Advances(k) ==
    /\ OnceRank[entries[k].once] <= OnceRank[entries'[k].once]
    /\ entries[k].once = "done" => entries'[k] = entries[k]

EntriesAdvance == [][\A k \in Keys : Advances(k)]_vars

\* An entry that a step leaves alone has not gone back.
LEMMA Unchanged ==
    ASSUME TypeOK, NEW k \in Keys, entries'[k] = entries[k]
    PROVE  Advances(k)
<1>1. entries[k].once \in {"absent", "fresh", "running", "done"}
  BY DEF TypeOK, Entries
<1>2. OnceRank[entries[k].once] \in Nat
  BY <1>1 DEF OnceRank
<1>. QED BY <1>2 DEF Advances

\* No step takes an entry back.
LEMMA StepAdvances ==
    ASSUME IInv, [Next]_vars
    PROVE  \A k \in Keys : Advances(k)
<1>1. ASSUME IInv, NEW s \in Sites, EnterMemo(s) \/ OnceRuns(s) \/ CallReturns(s)
      PROVE  \A k \in Keys : Advances(k)
  <2>. DEFINE q == question[s]
  <2>1. q \in Keys /\ TypeOK
    BY <1>1, QuestionFacts DEF IInv, AtMemo, EnterMemo, OnceRuns, CallReturns
  <2>2. \A k \in Keys \ {q} : entries'[k] = entries[k]
    BY <1>1, <2>1 DEF TypeOK, EnterMemo, OnceRuns, CallReturns
  <2>3. CASE EnterMemo(s)
    <3>1. CASE entries[q].once = "absent"
      <4>1. entries'[q].once = "fresh"
        BY <2>1, <2>3, <3>1 DEF TypeOK, EnterMemo, MemoEntry
      <4>. QED BY <3>1, <4>1, <2>2, <2>1, Unchanged DEF Advances, OnceRank
    <3>2. CASE entries[q].once # "absent"
      BY <2>1, <2>2, <2>3, <3>2, Unchanged DEF EnterMemo
    <3>. QED BY <3>1, <3>2
  <2>4. CASE OnceRuns(s)
    <3>1. entries[q].once = "fresh" /\ entries'[q].once = "running"
      BY <2>1, <2>4 DEF TypeOK, OnceRuns, MemoEntry
    <3>. QED BY <3>1, <2>2, <2>1, Unchanged DEF Advances, OnceRank
  <2>5. CASE CallReturns(s)
    <3>1. s \in Callers(q)
      BY <2>5 DEF Callers, CallReturns
    <3>2. entries[q].once = "running" /\ entries'[q].once = "done"
      BY <1>1, <2>1, <2>5, <3>1 DEF IInv, SingleFlight, TypeOK, CallReturns, MemoEntry
    <3>. QED BY <3>2, <2>2, <2>1, Unchanged DEF Advances, OnceRank
  <2>. QED BY <1>1, <2>3, <2>4, <2>5
<1>2. CASE entries' = entries
  BY <1>2, Unchanged DEF IInv
<1>3. ASSUME NEW s \in Sites, Step(s)
      PROVE  \A k \in Keys : Advances(k)
  BY <1>1, <1>2, <1>3 DEF Step, Acquire, FindFails, FindMismatches, FindMatches,
     NothingToFind, RouteFails, Route, OnceShares, Conclude, AskDetail,
     ConcludeDetail, Release
<1>. QED BY <1>2, <1>3 DEF Next, Return, Done, vars

\* A memo's entry is made, run and finished, in that order, and one goroutine
\* at most is between the last two: for every config a question is asked once.
THEOREM EntriesOnlyAdvance == Spec => EntriesAdvance
<1>1. IInv /\ [Next]_vars => [\A k \in Keys : Advances(k)]_vars
  BY StepAdvances
<1>. QED BY <1>1, Invariance, PTL DEF Spec, EntriesAdvance

----------------------------------------------------------------------------
(* What the config run takes for granted.                                    *)

\* Why a registry's site fails after its file was read: its tool's resolver
\* does not exist, or the one call for its question failed.
FailInv ==
    \A s \in Sites : ~IsCommand(s) =>
      /\ pc[s] \in AtMemo \/ results[s].verdict = "ok" => ~Unroutable(s)
      /\ results[s].verdict = "failed" /\ results[s].current # Blank =>
           \/ Unroutable(s)
           \/ /\ entries[FirstKey(s)].once = "done"
              /\ entries[FirstKey(s)].answer = Failed

\* PinPatch has one answer a tool, which for a command's is what the output says
\* of it. What the engine's results give of that for the others: when one site of a tool that asks a registry has a version, every other
\* either could not be read as declared or has the same version.
ToolsAgree ==
    \A s, t \in Sites :
      ToolOf[s] = ToolOf[t] /\ ~IsCommand(s) /\ results[s].verdict = "ok" =>
        \/ results[t].verdict \in {"pending", "mismatch"}
        \/ results[t].verdict = "failed" /\ results[t].current = Blank
        \/ results[t].verdict = "ok" /\ results[t].latest = results[s].latest

\* A step does not make a site fail for another reason.
LEMMA FailStep == IInv /\ IInv' /\ FailInv /\ [Next]_vars => FailInv'
<1>. SUFFICES ASSUME IInv, IInv', FailInv, [Next]_vars, NEW t \in Sites, ~IsCommand(t)
              PROVE  /\ pc'[t] \in AtMemo \/ results'[t].verdict = "ok" => ~Unroutable(t)
                     /\ results'[t].verdict = "failed" /\ results'[t].current # Blank =>
                          \/ Unroutable(t)
                          \/ /\ entries'[FirstKey(t)].once = "done"
                             /\ entries'[FirstKey(t)].answer = Failed
  BY DEF FailInv, Unroutable, IsCommand, Config, FirstKey, ResolveKey, CommandKey, Raw,
     ResolverName
<1>1. entries[FirstKey(t)].once = "done" => entries'[FirstKey(t)] = entries[FirstKey(t)]
  BY StepAdvances, KeyFacts DEF Advances
<1>2. CASE (pc'[t] \in AtMemo => pc[t] \in AtMemo) /\ results'[t] = results[t]
  BY <1>1, <1>2 DEF FailInv
<1>3. ASSUME NEW s \in Sites, Step(s), s # t
      PROVE  pc'[t] = pc[t] /\ results'[t] = results[t]
  BY <1>3 DEF Step, Acquire, FindFails, FindMismatches, FindMatches, NothingToFind,
     RouteFails, Route, EnterMemo, OnceRuns, CallReturns, OnceShares, Conclude,
     AskDetail, ConcludeDetail, Release, Finish, Ask, IInv, TypeOK
<1>4. CASE \/ Acquire(t) \/ FindMatches(t) \/ NothingToFind(t) \/ EnterMemo(t) \/ OnceRuns(t)
           \/ CallReturns(t) \/ OnceShares(t) \/ AskDetail(t) \/ Release(t)
  <2>1. (pc'[t] \in AtMemo => pc[t] \in AtMemo) /\ results'[t] = results[t]
    BY <1>4 DEF Acquire, FindMatches, NothingToFind, EnterMemo, OnceRuns, CallReturns,
       OnceShares, AskDetail, Release, Ask, IInv, TypeOK, AtMemo
  <2>. QED BY <1>2, <2>1
<1>5. CASE FindFails(t) \/ FindMismatches(t) \/ RouteFails(t)
  <2>1. pc'[t] = "leaving" /\ results'[t].verdict # "ok"
        /\ (results'[t].verdict = "failed" => results'[t].current = Blank \/ Unroutable(t))
    BY <1>5 DEF FindFails, FindMismatches, RouteFails, Finish, Failure, Outcome, IInv, TypeOK
  <2>. QED BY <2>1 DEF AtMemo
<1>6. CASE Route(t)
  <2>1. ~Unroutable(t) /\ results'[t] = results[t] /\ results[t].verdict = "pending"
    BY <1>6 DEF Route, IInv, ResultInv
  <2>. QED BY <2>1
<1>7. CASE Conclude(t)
  <2>1. /\ pc[t] = "answered" /\ question[t] = FirstKey(t) /\ entries' = entries
        /\ pc'[t] = "leaving"
        /\ results'[t] = Reading(t, located[t], entries[FirstKey(t)].answer, FALSE)
    BY <1>7 DEF Conclude, Finish, Answer, IInv, TypeOK
  <2>2. ~Unroutable(t) /\ entries[FirstKey(t)].once = "done"
    BY <2>1 DEF FailInv, AtMemo, IInv, EntryInv
  <2>3. entries[FirstKey(t)].answer # Failed => results'[t].verdict = "ok"
    BY <2>1 DEF Reading, Outcome
  <2>. QED BY <2>1, <2>2, <2>3 DEF AtMemo
<1>8. CASE ConcludeDetail(t)
  <2>1. pc[t] = "answered" /\ pc'[t] = "leaving" /\ results'[t].verdict = "ok"
    BY <1>8 DEF ConcludeDetail, Finish, Outcome, IInv, TypeOK
  <2>2. ~Unroutable(t)
    BY <2>1 DEF FailInv, AtMemo
  <2>. QED BY <2>1, <2>2 DEF AtMemo
<1>9. CASE Return \/ Done \/ UNCHANGED vars
  BY <1>2, <1>9 DEF Return, Done, vars
<1>. QED BY <1>2, <1>3, <1>4, <1>5, <1>6, <1>7, <1>8, <1>9 DEF Next, Step

\* For any config, workers and sites, and whatever fails, the engine hands over
\* one version a tool that asks a registry: two of its sites never differ in
\* more than whether their own file reads as declared.
THEOREM OneAnswerATool == Spec => []ToolsAgree
<1>1. Init => FailInv
  BY DEF Init, FailInv, Pending, Outcome, AtMemo
<1>2. IInv /\ FailInv => ToolsAgree
  <2>. SUFFICES ASSUME IInv, FailInv, NEW s \in Sites, NEW t \in Sites,
                       ToolOf[s] = ToolOf[t], ~IsCommand(s), results[s].verdict = "ok",
                       results[t].verdict \notin {"pending", "mismatch"},
                       ~(results[t].verdict = "failed" /\ results[t].current = Blank)
                PROVE  results[t].verdict = "ok" /\ results[t].latest = results[s].latest
    BY DEF ToolsAgree
  <2>1. /\ Config(t) = Config(s) /\ ~IsCommand(t) /\ FirstKey(t) = FirstKey(s)
        /\ Unroutable(t) <=> Unroutable(s)
    BY DEF Config, IsCommand, FirstKey, ResolveKey, Raw, ResolverName, Unroutable
  <2>2. /\ ~Unroutable(s)
        /\ entries[FirstKey(s)].answer # Failed
        /\ results[s].latest = entries[FirstKey(s)].answer
    BY DEF IInv, ResultInv, FailInv
  <2>3. results[t].verdict # "failed"
    BY <2>1, <2>2 DEF FailInv
  <2>4. results[t].verdict = "ok"
    BY <2>3 DEF IInv, TypeOK, SiteResults, Verdicts
  <2>. QED BY <2>1, <2>2, <2>4 DEF IInv, ResultInv
<1>. QED BY <1>1, <1>2, Invariance, FailStep, PTL DEF Spec

----------------------------------------------------------------------------
(* Of EventuallyReturns, what needs no fairness.                             *)

\* A goroutine has no step of its own: there is no token left, or the entry
\* it is at belongs to a call that is out.
Waits(s) ==
    \/ pc[s] = "spawned" /\ ~(slots < Workers)
    \/ pc[s] = "once" /\ entries[question[s]].once \notin {"fresh", "done"}

\* Whoever waits, waits for a goroutine that does not: at an entry for the
\* one inside the call, for a token for one that holds a token. So no chain of
\* waits closes, though goroutines wait at entries while they hold tokens.
WaitsEnd ==
    \A s \in Sites : Waits(s) =>
      \E t \in Sites : /\ pc[t] # "gone" /\ ~Waits(t)
                       /\ pc[s] = "once" => t \in Callers(question[s])
                       /\ pc[s] = "spawned" => Holding(t)

\* For any config and any number of workers and sites, a run that has not
\* returned has a goroutine with a step to take, or none left at all.
THEOREM NobodyWaitsInVain == Spec => []WaitsEnd
<1>1. ASSUME IInv, NEW s \in Sites, pc[s] = "once", Waits(s)
      PROVE  \E t \in Callers(question[s]) : pc[t] # "gone" /\ ~Waits(t) /\ Holding(t)
  <2>1. question[s] \in Keys
    BY <1>1, QuestionFacts DEF IInv, AtMemo
  <2>2. entries[question[s]].once = "running"
    BY <1>1, <2>1 DEF IInv, TypeOK, Entries, EntryInv, Waits
  <2>3. PICK t \in Callers(question[s]) : TRUE
    BY <1>1, <2>1, <2>2 DEF IInv, SingleFlight
  <2>. QED BY <2>3 DEF Callers, Waits, Holding
<1>2. ASSUME IInv, NEW s \in Sites, pc[s] = "spawned", Waits(s)
      PROVE  \E t \in Sites : pc[t] # "gone" /\ ~Waits(t) /\ Holding(t)
  <2>1. Workers \in Nat \ {0}
    BY WorkersAssumption DEF Workers
  <2>2. Cardinality(Holders) # 0
    BY <1>2, <2>1 DEF IInv, WorkerBound, TypeOK, Waits
  <2>3. PICK t \in Holders : TRUE
    BY <2>2, FS_EmptySet
  <2>4. t \in Sites /\ Holding(t)
    BY DEF Holders
  <2>5. CASE Waits(t)
    <3>1. pc[t] = "once"
      BY <2>4, <2>5 DEF Waits, Holding
    <3>. QED BY <1>1, <1>2, <2>4, <2>5, <3>1 DEF Callers
  <2>6. CASE ~Waits(t)
    BY <2>4, <2>6 DEF Holding
  <2>. QED BY <2>5, <2>6
<1>3. IInv => WaitsEnd
  BY <1>1, <1>2 DEF WaitsEnd, Waits, Callers
<1>. QED BY <1>3, Invariance, PTL

\* How many steps a goroutine has ahead of it, at most, were it to ask a
\* Detailer after its first question.
PlaceRank ==
    [p \in Places |->
       CASE p = "spawned" -> 12 [] p = "find" -> 11 [] p = "route" -> 10 [] p = "memo" -> 5
         [] p = "once" -> 4 [] p = "calling" -> 3 [] p = "answered" -> 2
         [] p = "leaving" -> 1 [] OTHER -> 0]

Ahead ==
    [s \in Sites |->
       IF pc[s] \in AtMemo /\ question[s] = FirstKey(s)
       THEN PlaceRank[pc[s]] + 4 ELSE PlaceRank[pc[s]]]

\* Every step of a run takes a goroutine nearer to its end and none further
\* from it, until RunSites returns: a run is at most 12 steps a site.
StepsCount ==
    [][/\ \A s \in Sites : Ahead'[s] <= Ahead[s]
       /\ (\E s \in Sites : Ahead'[s] < Ahead[s]) \/ (~returned /\ returned')]_vars

\* Each place has its number of steps.
LEMMA PlaceRanks ==
    /\ PlaceRank["spawned"] = 12 /\ PlaceRank["find"] = 11 /\ PlaceRank["route"] = 10
    /\ PlaceRank["memo"] = 5 /\ PlaceRank["once"] = 4 /\ PlaceRank["calling"] = 3
    /\ PlaceRank["answered"] = 2 /\ PlaceRank["leaving"] = 1 /\ PlaceRank["gone"] = 0
    /\ PlaceRank \in [Places -> Nat]
BY DEF PlaceRank, Places

\* The number of steps ahead is a natural number.
LEMMA AheadType ==
    ASSUME TypeOK, NEW s \in Sites
    PROVE  Ahead[s] \in Nat
<1>1. PlaceRank[pc[s]] \in Nat
  BY PlaceRanks DEF TypeOK
<1>. QED BY <1>1 DEF Ahead

\* Where a goroutine with a step to take goes, and what it then asks: on to
\* the next place of the same question, to its Detailer, or out.
LEMMA StepGoes ==
    ASSUME IInv, NEW s \in Sites, Step(s)
    PROVE  \E p \in Places :
             /\ pc' = [pc EXCEPT ![s] = p]
             /\ \A t \in Sites \ {s} : question'[t] = question[t]
             /\ \/ /\ PlaceRank[p] < PlaceRank[pc[s]]
                   /\ pc[s] \in AtMemo => question'[s] = question[s]
                   /\ pc[s] \notin AtMemo => PlaceRank[p] + 4 < PlaceRank[pc[s]] \/ p \notin AtMemo
                \/ /\ pc[s] = "answered" /\ p = "memo"
                   /\ question[s] = FirstKey(s) /\ question'[s] # FirstKey(s)
<1>. USE DEF Places, AtMemo
<1>1. CASE Acquire(s) \/ FindMatches(s) \/ NothingToFind(s) \/ Release(s)
  BY <1>1, PlaceRanks DEF Acquire, FindMatches, NothingToFind, Release
<1>2. CASE FindFails(s) \/ FindMismatches(s) \/ RouteFails(s) \/ Conclude(s) \/ ConcludeDetail(s)
  <2>1. /\ pc[s] \in {"find", "route", "answered"}
        /\ pc' = [pc EXCEPT ![s] = "leaving"] /\ question' = question
    BY <1>2 DEF FindFails, FindMismatches, RouteFails, Conclude, ConcludeDetail, Finish
  <2>. QED BY <2>1, PlaceRanks
<1>3. CASE Route(s)
  BY <1>3, PlaceRanks DEF Route, Ask, IInv, TypeOK
<1>4. CASE EnterMemo(s) \/ OnceRuns(s) \/ CallReturns(s) \/ OnceShares(s)
  BY <1>4, PlaceRanks DEF EnterMemo, OnceRuns, CallReturns, OnceShares
<1>5. CASE AskDetail(s)
  <2>1. /\ pc[s] = "answered" /\ question[s] = FirstKey(s) /\ WantsDetail(s)
        /\ pc' = [pc EXCEPT ![s] = "memo"]
        /\ question' = [question EXCEPT ![s] = DetailKey(s, located[s], Answer(s))]
    BY <1>5 DEF AskDetail, Ask
  <2>2. DetailKey(s, located[s], Answer(s)) # FirstKey(s)
    <3>1. DetailKey(s, located[s], Answer(s)).memo = "detailed"
      BY DEF DetailKey
    <3>2. FirstKey(s).memo \in {"resolved", "commands"}
      BY DEF FirstKey, ResolveKey, CommandKey
    <3>. QED BY <3>1, <3>2
  <2>. QED BY <2>1, <2>2 DEF IInv, TypeOK
<1>. QED BY <1>1, <1>2, <1>3, <1>4, <1>5 DEF Step

\* Whatever a goroutine does, it is nearer to its end, and it alone.
LEMMA StepNearer ==
    ASSUME IInv, NEW s \in Sites, Step(s)
    PROVE  /\ Ahead'[s] < Ahead[s]
           /\ \A t \in Sites : Ahead'[t] <= Ahead[t]
<1>1. PICK p \in Places :
        /\ pc' = [pc EXCEPT ![s] = p]
        /\ \A t \in Sites \ {s} : question'[t] = question[t]
        /\ \/ /\ PlaceRank[p] < PlaceRank[pc[s]]
              /\ pc[s] \in AtMemo => question'[s] = question[s]
              /\ pc[s] \notin AtMemo => PlaceRank[p] + 4 < PlaceRank[pc[s]] \/ p \notin AtMemo
           \/ /\ pc[s] = "answered" /\ p = "memo"
              /\ question[s] = FirstKey(s) /\ question'[s] # FirstKey(s)
  BY StepGoes
<1>2. pc'[s] = p /\ \A t \in Sites \ {s} : pc'[t] = pc[t]
  BY <1>1 DEF IInv, TypeOK
<1>3. \A t \in Sites \ {s} : Ahead'[t] = Ahead[t]
  <2>1. \A t \in Sites \ {s} : pc'[t] = pc[t] /\ question'[t] = question[t]
    BY <1>1, <1>2
  <2>. QED BY <2>1 DEF Ahead
<1>4. PlaceRank[p] \in Nat /\ PlaceRank[pc[s]] \in Nat
  BY PlaceRanks DEF IInv, TypeOK
<1>5. Ahead'[s] \in Int /\ Ahead'[s] < Ahead[s]
  <2>1. CASE /\ PlaceRank[p] < PlaceRank[pc[s]]
             /\ pc[s] \in AtMemo => question'[s] = question[s]
             /\ pc[s] \notin AtMemo => PlaceRank[p] + 4 < PlaceRank[pc[s]] \/ p \notin AtMemo
    <3>1. Ahead'[s] = IF p \in AtMemo /\ question'[s] = FirstKey(s)
                      THEN PlaceRank[p] + 4 ELSE PlaceRank[p]
      BY <1>2 DEF Ahead
    <3>2. Ahead[s] = IF pc[s] \in AtMemo /\ question[s] = FirstKey(s)
                     THEN PlaceRank[pc[s]] + 4 ELSE PlaceRank[pc[s]]
      BY DEF Ahead
    <3>. QED BY <1>4, <2>1, <3>1, <3>2
  <2>2. CASE /\ pc[s] = "answered" /\ p = "memo"
             /\ question[s] = FirstKey(s) /\ question'[s] # FirstKey(s)
    <3>1. Ahead'[s] = 5 /\ Ahead[s] = 6
      BY <1>2, <2>2, PlaceRanks DEF Ahead, AtMemo
    <3>. QED BY <3>1
  <2>. QED BY <1>1, <2>1, <2>2
<1>6. \A t \in Sites : Ahead[t] \in Int
  BY AheadType DEF IInv
<1>. QED BY <1>3, <1>5, <1>6

\* For any config, whatever is found, answered or shared, a goroutine takes at
\* most 12 steps and RunSites one more.
THEOREM EveryStepCounts == Spec => StepsCount
<1>1. IInv /\ [Next]_vars =>
        [/\ \A s \in Sites : Ahead'[s] <= Ahead[s]
         /\ (\E s \in Sites : Ahead'[s] < Ahead[s]) \/ (~returned /\ returned')]_vars
  <2>. SUFFICES ASSUME IInv, Next, vars' # vars
                PROVE  /\ \A s \in Sites : Ahead'[s] <= Ahead[s]
                       /\ (\E s \in Sites : Ahead'[s] < Ahead[s]) \/ (~returned /\ returned')
    OBVIOUS
  <2>1. CASE Return
    <3>1. Ahead' = Ahead
      BY <2>1 DEF Return, Ahead
    <3>2. \A s \in Sites : Ahead[s] \in Int
      BY AheadType DEF IInv
    <3>. QED BY <2>1, <3>1, <3>2 DEF Return
  <2>2. CASE \E s \in Sites : Step(s)
    BY <2>2, StepNearer
  <2>. QED BY <2>1, <2>2 DEF Next, Done
<1>. QED BY <1>1, Invariance, PTL DEF Spec, StepsCount
=============================================================================
