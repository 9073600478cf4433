------------------------- MODULE GazetteStoreProofs -------------------------
(***************************************************************************)
(* Theorems about GazetteStore, for any set of items, jobs, evaluations    *)
(* and laws and any number of failed writes and restarts.  Its safety      *)
(* invariants are proved from one inductive invariant, Sound: what is true *)
(* of a stored issue is true of the copies that jobs and evaluations hold  *)
(* between two transactions, links and stored issues are never taken away, *)
(* and so what a job has processed and what an evaluation has collected    *)
(* stays true until it is used.                                            *)
(***************************************************************************)
EXTENDS GazetteStore, TLAPS

USE DEF NoTime

(* What the constants' assumptions say of one item.                         *)
LEMMA ItemTypes ==
    ASSUME NEW it \in Items
    PROVE  /\ it.feed \in Feeds /\ it.id \in Numbers /\ it.id \in Nat \ {0}
           /\ it.title \in Titles /\ it.published \in Time
           /\ it.law \in Laws \cup {NoLaw}
           /\ it # NoItem
<1>1. it \in [feed : Feeds, id : Nat \ {0}, title : Titles,
              published : Time, law : Laws \cup {NoLaw}]
  BY ItemsAssumption
<1>2. it.id \in Numbers
  BY DEF Numbers
<1>3. it # NoItem
  BY <1>1 DEF NoItem, Feeds
<1>4. QED
  BY <1>1, <1>2, <1>3

LEMMA NumbersArePositive == Numbers \subseteq Nat \ {0}
BY ItemTypes DEF Numbers

LEMMA TimeTypes == NoTime \in Time /\ 1 \in Time \ {NoTime}
BY BoundAssumption DEF Time

LEMMA IdleTypes ==
    /\ NoIssue \in Issue
    /\ IdleJob \in JobState
    /\ IdleEval \in EvalState
    /\ NoLinks \in [Numbers -> LinkClasses]
<1>1. NoTime \in Time
  BY TimeTypes
<1>2. NoIssue \in Issue
  BY <1>1 DEF NoIssue, Issue, Titles
<1>3. Nothing \in [Numbers -> Issue] /\ NoLinks \in [Numbers -> LinkClasses]
  BY <1>2 DEF Nothing, NoLinks, LinkClasses
<1>4. IdleJob \in JobState
  BY <1>2 DEF IdleJob, JobState
<1>5. IdleEval \in EvalState
  BY <1>1, <1>3 DEF IdleEval, EvalState
<1>6. QED
  BY <1>2, <1>3, <1>4, <1>5

LEMMA NewIssueType ==
    ASSUME NEW it \in Items, NEW old \in Issue, NEW now \in Time
    PROVE  NewIssue(it, old, now) \in Issue
BY ItemTypes DEF NewIssue, Issue

(* The verdicts of Evaluate.                                                *)
LEMMA EvaluateRecord ==
    ASSUME NEW in
    PROVE  /\ Evaluate(in).state \in States
           /\ Evaluate(in).newer \in {{}, NewerIssueIDs(in)}
BY DEF Evaluate, Verdict, States

(* confirmed_current is out of the question when a linked issue is newer.   *)
LEMMA NewerIsNotCurrent ==
    ASSUME NEW in, NewerIssueIDs(in) # {}
    PROVE  Evaluate(in).state # "confirmed_current"
BY DEF Evaluate, Verdict

(* confirmed_stale names the newer issues.                                  *)
LEMMA StaleNamesNewer ==
    ASSUME NEW in, Evaluate(in).state = "confirmed_stale"
    PROVE  Evaluate(in).newer = NewerIssueIDs(in) /\ NewerIssueIDs(in) # {}
BY DEF Evaluate, Verdict

(* In this model staleness comes from the linked issues only.               *)
LEMMA NewerAreLinked ==
    ASSUME NEW ev, NEW n \in NewerIssueIDs(EvalInput(ev))
    PROVE  \E x \in ev.linked : x.id = n
BY DEF NewerIssueIDs, NewerLinkedIssues, NewerInstrumentIssues, EvalInput

-----------------------------------------------------------------------------
(* Type correctness.                                                        *)

LEMMA TypeInit == Init => TypeOK
<1> SUFFICES ASSUME Init PROVE TypeOK
  OBVIOUS
<1>1. NoTime \in Time /\ 1 \in Time \ {NoTime}
  BY TimeTypes
<1>2. refreshes \in 0..MaxRefreshes /\ failures \in 0..MaxFailures /\ restarts \in 0..MaxRestarts
  BY BoundAssumption DEF Init
<1>3. stand \in [Laws -> Nat]
  BY CatalogAssumption DEF Init
<1>4. QED
  BY <1>1, <1>2, <1>3, IdleTypes DEF Init, TypeOK, NoRecord, LinkClasses

(* The updates of a job's state that touch several of its fields.           *)
LEMMA JobUpdates ==
    ASSUME NEW q \in JobState, NEW pc \in {"next", "link", "matched"}
    PROVE  /\ [q EXCEPT !.pc = pc, !.failed = TRUE] \in JobState
           /\ [q EXCEPT !.pc = pc, !.new.matched = TRUE] \in JobState
           /\ [q EXCEPT !.pc = pc, !.new.matched = TRUE, !.failed = TRUE] \in JobState
<1>1. [q.new EXCEPT !.matched = TRUE] \in Issue
  BY DEF JobState, Issue
<1>2. QED
  BY <1>1 DEF JobState

LEMMA TypeJobStep ==
    ASSUME TypeOK, NEW j \in Jobs, JobStep(j) \/ WriteFails(j)
    PROVE  TypeOK'
<1> /\ job \in [Jobs -> JobState] /\ issues \in [Numbers -> Issue]
    /\ links \in [Numbers \X Laws -> LinkClasses]
    /\ clock \in Time /\ giiStamp \in Time
    /\ covered \subseteq Items /\ shown \subseteq Items
    /\ failures \in 0..MaxFailures
  BY DEF TypeOK
<1>1. ASSUME JobOnly, job' \in [Jobs -> JobState],
             issues' \in [Numbers -> Issue], links' \in [Numbers \X Laws -> LinkClasses],
             giiStamp' \in Time, faultCounts' = faultCounts, covered' \subseteq Items
      PROVE  TypeOK'
  BY <1>1 DEF TypeOK, JobOnly, faultCounts
<1>2. CASE Fetch(j)
  <2>1. ItemsToRead(j) \subseteq Items
    BY DEF ItemsToRead
  <2>2. job' \in [Jobs -> JobState]
    BY <1>2, <2>1, IdleTypes DEF Fetch, JobState
  <2>3. QED
    BY <1>1, <1>2, <2>2 DEF Fetch
<1>3. ASSUME NEW it \in job[j].todo, NoPermalink(j, it)
      PROVE  TypeOK'
  <2>1. job' \in [Jobs -> JobState]
    BY <1>3 DEF NoPermalink, JobState
  <2>2. QED
    BY <1>1, <1>3, <2>1 DEF NoPermalink
<1>4. ASSUME NEW it \in job[j].todo, GetIssue(j, it)
      PROVE  TypeOK'
  <2>1. it \in Items
    BY DEF JobState
  <2>2. NewIssue(it, issues[it.id], clock) \in Issue
    BY <2>1, ItemTypes, NewIssueType
  <2>3. job' \in [Jobs -> JobState]
    BY <1>4, <2>1, <2>2 DEF GetIssue, JobState
  <2>4. QED
    BY <1>1, <1>4, <2>3 DEF GetIssue
<1>5. CASE UpsertIssue(j)
  <2> job[j].new \in Issue /\ AfterUpsert(job[j].item) \in {"link", "next"}
    BY DEF JobState, AfterUpsert
  <2>1. job' \in [Jobs -> JobState] /\ issues' \in [Numbers -> Issue]
    BY <1>5 DEF UpsertIssue, JobState
  <2>2. QED
    BY <1>1, <1>5, <2>1 DEF UpsertIssue
<1>6. CASE UpsertLink(j)
  <2>1. job' \in [Jobs -> JobState]
    BY <1>6, JobUpdates DEF UpsertLink
  <2> links' \in [Numbers \X Laws -> LinkClasses]
    BY <1>6 DEF UpsertLink, LinkClasses
  <2>2. QED
    BY <1>1, <1>6, <2>1 DEF UpsertLink
<1>7. CASE UpsertMatched(j)
  <2>1. job' \in [Jobs -> JobState] /\ issues' \in [Numbers -> Issue]
    BY <1>7 DEF UpsertMatched, JobState
  <2>2. QED
    BY <1>1, <1>7, <2>1 DEF UpsertMatched
<1>8. CASE Finish(j)
  <2>1. job' \in [Jobs -> JobState]
    BY <1>8, IdleTypes DEF Finish
  <2>2. giiStamp' \in Time /\ covered' \subseteq Items
    BY <1>8 DEF Finish, JobState
  <2>3. QED
    BY <1>1, <1>8, <2>1, <2>2 DEF Finish
<1>9. CASE WriteFails(j)
  <2>1. job' \in [Jobs -> JobState]
    <3> AfterUpsert(job[j].item) \in {"link", "next"}
      BY DEF AfterUpsert
    <3>1. CASE job' = [job EXCEPT ![j].pc = AfterUpsert(job[j].item), ![j].failed = TRUE]
      BY <3>1, JobUpdates
    <3>2. CASE job' = [job EXCEPT ![j].pc = "matched", ![j].new.matched = TRUE,
                                  ![j].failed = TRUE]
      BY <3>2, JobUpdates
    <3>3. CASE job' = [job EXCEPT ![j].pc = "next", ![j].failed = TRUE]
      BY <3>3, JobUpdates
    <3>4. QED
      BY <1>9, <3>1, <3>2, <3>3 DEF WriteFails
  <2>2. failures' \in 0..MaxFailures
    BY <1>9, BoundAssumption DEF WriteFails
  <2>3. QED
    BY <1>9, <2>1, <2>2 DEF TypeOK, WriteFails, JobOnly
<1>10. QED
  BY <1>2, <1>3, <1>4, <1>5, <1>6, <1>7, <1>8, <1>9 DEF JobStep

LEMMA EvaluatedType ==
    ASSUME NEW ev \in EvalState
    PROVE  LET rec == Evaluate(EvalInput(ev))
           IN  [state |-> rec.state, newer |-> rec.newer]
                 \in [state : States \cup {"none"}, newer : SUBSET Numbers]
<1> DEFINE in == EvalInput(ev)
<1>1. NewerIssueIDs(in) \subseteq Numbers
  BY NewerAreLinked DEF EvalState, LinkedIssue
<1>2. Evaluate(in).state \in States /\ Evaluate(in).newer \in SUBSET Numbers
  BY <1>1, EvaluateRecord
<1>3. QED
  BY <1>2

LEMMA NextLawType ==
    ASSUME TypeOK, NEW e \in Evals, NextLaw(e)
    PROVE  eval' \in [Evals -> EvalState]
<1>1. eval \in [Evals -> EvalState]
  BY DEF TypeOK
<1>2. IdleEval \in EvalState
  BY IdleTypes
<1>3. [IdleEval EXCEPT !.pc = "nextLaw", !.now = eval[e].now, !.stamp = eval[e].stamp,
                       !.covered = eval[e].covered, !.laws = eval[e].laws] \in EvalState
  BY <1>1, <1>2 DEF EvalState
<1>4. QED
  BY <1>1, <1>2, <1>3 DEF NextLaw

(* An evaluation has a law when it asks for the links of that law.          *)
LawChosen == \A e \in Evals : eval[e].pc = "links" => eval[e].law \in Laws

LEMMA TypeEvalStep ==
    ASSUME TypeOK, LawChosen, NEW e \in Evals,
           EvalStep(e) \/ EvalWriteFails(e) \/ \E l \in Laws : BeginRequest(e, l)
    PROVE  TypeOK'
<1> /\ eval \in [Evals -> EvalState] /\ eval[e] \in EvalState
    /\ issues \in [Numbers -> Issue] /\ links \in [Numbers \X Laws -> LinkClasses]
    /\ clock \in Time /\ giiStamp \in Time /\ covered \subseteq Items
    /\ stand \in [Laws -> Nat] /\ failures \in 0..MaxFailures
    /\ records \in [Laws -> [state : States \cup {"none"}, newer : SUBSET Numbers]]
  BY DEF TypeOK
<1> DEFINE q == eval[e]
<1>1. ASSUME EvalReads, failures' \in 0..MaxFailures, eval' \in [Evals -> EvalState],
             issues' \in [Numbers -> Issue], links' \in [Numbers \X Laws -> LinkClasses],
             records' \in [Laws -> [state : States \cup {"none"}, newer : SUBSET Numbers]]
      PROVE  TypeOK'
  BY <1>1 DEF TypeOK, EvalReads
<1>2. ASSUME EvalOnly, eval' \in [Evals -> EvalState], UNCHANGED <<issues, links, records>>
      PROVE  TypeOK'
  BY <1>1, <1>2 DEF EvalOnly
<1>3. CASE BeginReconcile(e)
  <2>1. [IdleEval EXCEPT !.pc = "stamp", !.now = clock] \in EvalState
    BY IdleTypes DEF EvalState
  <2>2. eval' \in [Evals -> EvalState]
    BY <1>3, <2>1 DEF BeginReconcile
  <2>3. QED
    BY <1>2, <1>3, <2>2 DEF BeginReconcile
<1>4. ASSUME NEW l \in Laws, BeginRequest(e, l)
      PROVE  TypeOK'
  <2>1. [IdleEval EXCEPT !.pc = "nextLaw", !.laws = {l}] \in EvalState
    BY IdleTypes DEF EvalState
  <2>2. eval' \in [Evals -> EvalState]
    BY <1>4, <2>1 DEF BeginRequest
  <2>3. QED
    BY <1>2, <1>4, <2>2 DEF BeginRequest
<1>5. CASE ReadStamp(e)
  <2> DEFINE now == IF e \in Reconcilers THEN q.now ELSE clock
             pc == IF e \in Reconcilers THEN "listIssues" ELSE "put"
             r == [q EXCEPT !.stamp = giiStamp, !.covered = covered, !.now = now, !.pc = pc]
  <2>1. now \in Time /\ pc \in {"listIssues", "put"}
    BY DEF EvalState
  <2>2. r \in EvalState
    BY <2>1 DEF EvalState
  <2>3. eval' = [eval EXCEPT ![e] = r]
    BY <1>5 DEF ReadStamp
  <2>4. QED
    BY <1>2, <1>5, <2>2, <2>3 DEF ReadStamp
<1>6. CASE ListIssues(e)
  <2> DEFINE u == {n \in Numbers : Linkable(n, q.now)}
             r == [q EXCEPT !.snapshot = issues, !.unmatched = u, !.pc = "heuristicLink"]
  <2>1. u \in SUBSET Numbers
    OBVIOUS
  <2> HIDE DEF u
  <2>2. r \in EvalState
    BY <2>1 DEF EvalState
  <2>3. eval' = [eval EXCEPT ![e] = r]
    BY <1>6 DEF ListIssues, u
  <2>4. QED
    BY <1>2, <1>6, <2>2, <2>3 DEF ListIssues
<1>7. ASSUME NEW n \in Numbers, HeuristicLink(e, n)
      PROVE  TypeOK'
  <2> DEFINE r == [q EXCEPT !.pc = "heuristicIssue", !.unmatched = q.unmatched \ {n}, !.todo = {n}]
  <2>1. r \in EvalState
    BY DEF EvalState
  <2>2. eval' = [eval EXCEPT ![e] = r]
    BY <1>7 DEF HeuristicLink
  <2>3. links' \in [Numbers \X Laws -> LinkClasses]
    BY <1>7 DEF HeuristicLink, LinkClasses
  <2>4. QED
    BY <1>1, <1>7, <2>1, <2>2, <2>3 DEF HeuristicLink, EvalOnly
<1>8. ASSUME NEW n \in Numbers, HeuristicIssue(e, n)
      PROVE  TypeOK'
  <2> DEFINE r == [q EXCEPT !.pc = "heuristicLink", !.todo = {}]
  <2>1. r \in EvalState
    BY DEF EvalState
  <2>2. eval' = [eval EXCEPT ![e] = r]
    BY <1>8 DEF HeuristicIssue
  <2>3. q.snapshot[n] \in Issue
    BY DEF EvalState
  <2>4. [q.snapshot[n] EXCEPT !.matched = TRUE] \in Issue
    BY <2>3 DEF Issue
  <2>5. issues' \in [Numbers -> Issue]
    BY <1>8, <2>4 DEF HeuristicIssue
  <2>6. QED
    BY <1>1, <1>8, <2>1, <2>2, <2>5 DEF HeuristicIssue, EvalOnly
<1>9. CASE ListLaws(e)
  <2> DEFINE r == [q EXCEPT !.pc = "nextLaw", !.laws = Laws, !.snapshot = Nothing]
  <2>1. Nothing \in [Numbers -> Issue]
    BY IdleTypes DEF Nothing
  <2>2. r \in EvalState
    BY <2>1 DEF EvalState
  <2>3. eval' = [eval EXCEPT ![e] = r]
    BY <1>9 DEF ListLaws
  <2>4. QED
    BY <1>2, <1>9, <2>2, <2>3 DEF ListLaws
<1>10. ASSUME NEW l \in Laws, GetStand(e, l)
       PROVE  TypeOK'
  <2> DEFINE r == [q EXCEPT !.pc = "links", !.laws = q.laws \ {l}, !.law = l, !.stand = stand[l],
                     !.base = {}]
  <2>1. r \in EvalState
    BY DEF EvalState
  <2>2. eval' = [eval EXCEPT ![e] = r]
    BY <1>10 DEF GetStand
  <2>3. QED
    BY <1>2, <1>10, <2>1, <2>2 DEF GetStand
<1>11. CASE LinksForLaw(e)
  <2> DEFINE cs == [n \in Numbers |-> links[<<n, q.law>>]]
             u == LinkedNumbers(q.law)
             b == {it \in covered : it.law = q.law}
             r == [q EXCEPT !.pc = "issues", !.todo = u, !.classes = cs, !.linked = {},
                            !.base = b]
  <2>1. q.law \in Laws
    BY <1>11 DEF LinksForLaw, LawChosen
  <2>2. cs \in [Numbers -> LinkClasses] /\ u \in SUBSET Numbers /\ b \in SUBSET Items
    BY <2>1 DEF LinkedNumbers
  <2> HIDE DEF cs, u, b
  <2>3. r \in EvalState
    BY <2>2 DEF EvalState
  <2>4. eval' = [eval EXCEPT ![e] = r]
    BY <1>11 DEF LinksForLaw, cs, u, b
  <2>5. EvalOnly /\ UNCHANGED <<issues, links, records>>
    BY <1>11 DEF LinksForLaw
  <2>6. QED
    BY <1>2, <2>3, <2>4, <2>5
<1>12. ASSUME NEW n \in Numbers, GetLinkedIssue(e, n)
       PROVE  TypeOK'
  <2> DEFINE x == IF Stored(n) THEN q.linked \cup {AsGazetteIssue(n)} ELSE q.linked
             r == [q EXCEPT !.todo = q.todo \ {n}, !.linked = x]
  <2>1. issues[n] \in Issue
    OBVIOUS
  <2>2. AsGazetteIssue(n) \in LinkedIssue
    BY <2>1 DEF AsGazetteIssue, LinkedIssue, Issue
  <2>3. x \in SUBSET LinkedIssue
    BY <2>2 DEF EvalState
  <2> HIDE DEF x
  <2>4. r \in EvalState
    BY <2>3 DEF EvalState
  <2>5. eval' = [eval EXCEPT ![e] = r]
    BY <1>12 DEF GetLinkedIssue, x
  <2>6. QED
    BY <1>2, <1>12, <2>4, <2>5 DEF GetLinkedIssue
<1>13. CASE AllIssuesRead(e)
  <2> DEFINE pc == IF e \in Reconcilers THEN "put" ELSE "stamp"
             r == [q EXCEPT !.pc = pc]
  <2>1. r \in EvalState
    BY DEF EvalState
  <2>2. eval' = [eval EXCEPT ![e] = r]
    BY <1>13 DEF AllIssuesRead
  <2>3. QED
    BY <1>2, <1>13, <2>1, <2>2 DEF AllIssuesRead
<1>14. CASE PutFreshness(e)
  <2>1. eval' \in [Evals -> EvalState]
    BY <1>14, NextLawType DEF PutFreshness
  <2>2. records' \in [Laws -> [state : States \cup {"none"}, newer : SUBSET Numbers]]
    BY <1>14, EvaluatedType DEF PutFreshness
  <2>3. QED
    BY <1>1, <1>14, <2>1, <2>2 DEF PutFreshness, EvalOnly
<1>15. CASE EvalWriteFails(e)
  <2>1. eval' \in [Evals -> EvalState]
    <3>1. ASSUME NEW n \in Numbers,
                 eval' = [eval EXCEPT ![e].pc = "heuristicIssue", ![e].unmatched = @ \ {n},
                                      ![e].todo = {n}]
          PROVE  eval' \in [Evals -> EvalState]
      <4>1. [q EXCEPT !.pc = "heuristicIssue", !.unmatched = q.unmatched \ {n}, !.todo = {n}]
              \in EvalState
        BY DEF EvalState
      <4>2. QED
        BY <3>1, <4>1
    <3>2. CASE eval' = [eval EXCEPT ![e].pc = "heuristicLink", ![e].todo = {}]
      <4>1. [q EXCEPT !.pc = "heuristicLink", !.todo = {}] \in EvalState
        BY DEF EvalState
      <4>2. QED
        BY <3>2, <4>1
    <3>3. q.unmatched \subseteq Numbers
      BY DEF EvalState
    <3>4. QED
      BY <1>15, <3>1, <3>2, <3>3, NextLawType DEF EvalWriteFails
  <2>2. failures < MaxFailures /\ failures' = failures + 1
    BY <1>15, Zenon DEF EvalWriteFails
  <2>3. failures' \in 0..MaxFailures
    BY <2>2, BoundAssumption
  <2>4. EvalReads /\ UNCHANGED <<issues, links, records>>
    BY <1>15, Zenon DEF EvalWriteFails
  <2>5. QED
    BY <1>1, <2>1, <2>3, <2>4
<1>16. CASE EvalStep(e)
  BY <1>3, <1>5, <1>6, <1>7, <1>8, <1>9, <1>10, <1>11, <1>12, <1>13, <1>14, <1>16, Zenon
     DEF EvalStep
<1>17. QED
  BY <1>4, <1>15, <1>16

LEMMA LawChosenStep ==
    ASSUME TypeOK, LawChosen, [Next]_vars
    PROVE  LawChosen'
<1> eval \in [Evals -> EvalState]
  BY DEF TypeOK
<1> SUFFICES ASSUME NEW d \in Evals, eval'[d].pc = "links"
             PROVE  eval'[d].law \in Laws
  BY DEF LawChosen
<1>1. CASE eval' = eval
  BY <1>1 DEF LawChosen
<1>2. CASE eval' = [x \in Evals |-> IdleEval]
  BY <1>2 DEF IdleEval
<1>3. ASSUME NEW e \in Evals,
             EvalStep(e) \/ EvalWriteFails(e) \/ \E l \in Laws : BeginRequest(e, l)
      PROVE  eval'[d].law \in Laws
  <2>1. CASE d # e
    <3>1. eval'[d] = eval[d]
      BY <1>3, <2>1 DEF EvalStep, EvalWriteFails, BeginRequest, BeginReconcile, ReadStamp,
            ListIssues, HeuristicLink, HeuristicIssue, ListLaws, GetStand, LinksForLaw,
            GetLinkedIssue, AllIssuesRead, PutFreshness, NextLaw
    <3>2. QED
      BY <3>1 DEF LawChosen
  <2>2. CASE d = e
    <3> eval[e] \in EvalState
      OBVIOUS
    <3>1. CASE \E l \in Laws : GetStand(e, l)
      BY <2>2, <3>1 DEF GetStand
    <3>2. CASE \E l \in Laws : BeginRequest(e, l)
      BY <2>2, <3>2 DEF BeginRequest, IdleEval
    <3>3. CASE \E n \in Numbers : HeuristicLink(e, n) \/ HeuristicIssue(e, n)
      BY <2>2, <3>3 DEF HeuristicLink, HeuristicIssue, EvalState
    <3>4. CASE \E n \in Numbers : GetLinkedIssue(e, n)
      BY <2>2, <3>4 DEF GetLinkedIssue, EvalState
    <3>5. CASE BeginReconcile(e)
      BY <2>2, <3>5 DEF BeginReconcile, EvalState, IdleEval
    <3>6. CASE ReadStamp(e)
      BY <2>2, <3>6 DEF ReadStamp, EvalState
    <3>7. CASE ListIssues(e)
      BY <2>2, <3>7 DEF ListIssues, EvalState
    <3>8. CASE ListLaws(e)
      BY <2>2, <3>8 DEF ListLaws, EvalState
    <3>9. CASE LinksForLaw(e)
      BY <2>2, <3>9 DEF LinksForLaw, EvalState
    <3>10. CASE AllIssuesRead(e)
      BY <2>2, <3>10 DEF AllIssuesRead, EvalState
    <3>11. CASE NextLaw(e)
      BY <2>2, <3>11 DEF NextLaw, IdleEval
    <3>12. CASE EvalWriteFails(e) /\ ~NextLaw(e)
      <4>1. ASSUME NEW n \in Numbers,
                   eval' = [eval EXCEPT ![e].pc = "heuristicIssue", ![e].unmatched = @ \ {n},
                                        ![e].todo = {n}]
            PROVE  eval'[e].pc = "heuristicIssue"
        BY <4>1 DEF EvalState
      <4>2. CASE eval' = [eval EXCEPT ![e].pc = "heuristicLink", ![e].todo = {}]
        BY <2>2, <4>2 DEF EvalState
      <4>3. eval[e].unmatched \subseteq Numbers
        BY DEF EvalState
      <4>4. QED
        BY <2>2, <3>12, <4>1, <4>2, <4>3 DEF EvalWriteFails
    <3>13. QED
      BY <1>3, <3>1, <3>2, <3>3, <3>4, <3>5, <3>6, <3>7, <3>8, <3>9, <3>10, <3>11, <3>12, Zenon
         DEF EvalStep, PutFreshness
  <2>3. QED
    BY <2>1, <2>2
<1>4. QED
  BY <1>1, <1>2, <1>3 DEF Next, vars, Tick, Publish, RefreshStand, Restart, JobStep, WriteFails,
     Fetch, NoPermalink, GetIssue, UpsertIssue, UpsertLink, UpsertMatched, Finish, JobOnly

LEMMA TypeStep ==
    ASSUME TypeOK, LawChosen, [Next]_vars
    PROVE  TypeOK'
<1>1. CASE Tick
  <2>1. clock' \in Time \ {NoTime}
    BY <1>1, BoundAssumption DEF Tick, TypeOK, Time
  <2>2. QED
    BY <1>1, <2>1 DEF Tick, TypeOK, faultCounts
<1>2. ASSUME NEW it \in Items, Publish(it)
      PROVE  TypeOK'
  BY <1>2 DEF Publish, TypeOK, faultCounts
<1>3. ASSUME NEW l \in Laws, NEW n \in Numbers, RefreshStand(l, n)
      PROVE  TypeOK'
  <2>1. refreshes' \in 0..MaxRefreshes /\ stand' \in [Laws -> Nat]
    BY <1>3, NumbersArePositive, BoundAssumption DEF RefreshStand, TypeOK
  <2>2. QED
    BY <1>3, <2>1 DEF RefreshStand, TypeOK, faultCounts
<1>4. CASE Restart
  <2>1. restarts' \in 0..MaxRestarts
    BY <1>4, BoundAssumption DEF Restart, TypeOK
  <2>2. job' \in [Jobs -> JobState] /\ eval' \in [Evals -> EvalState]
    BY <1>4, IdleTypes DEF Restart
  <2>3. QED
    BY <1>4, <2>1, <2>2 DEF Restart, TypeOK
<1>5. CASE UNCHANGED vars
  BY <1>5 DEF vars, TypeOK
<1>6. QED
  BY <1>1, <1>2, <1>3, <1>4, <1>5, TypeJobStep, TypeEvalStep DEF Next

(* Every variable keeps its type: no sequence of jobs, evaluations, failed  *)
(* writes and restarts leaves a record of another shape in the store.       *)
THEOREM TypeCorrect == Spec => []TypeOK
<1>1. Init => TypeOK /\ LawChosen
  BY TypeInit DEF Init, LawChosen, IdleEval
<1>2. TypeOK /\ LawChosen /\ [Next]_vars => (TypeOK /\ LawChosen)'
  BY TypeStep, LawChosenStep
<1>3. QED
  BY <1>1, <1>2, PTL DEF Spec

-----------------------------------------------------------------------------
(* The inductive invariant.                                                 *)

HasLink(n) == \E l \in Laws : links[<<n, l>>] # "none"

Kept(it) == Stored(it.id) /\ (it.law # NoLaw => links[<<it.id, it.law>>] # "none")

TitlesOf(n) == {it.title : it \in {x \in Items : x.id = n}}

(* A record for issue n that may be written.                                *)
GoodIssue(i, n) ==
    /\ i.confidence = "high" <=> i.sources \cap {"gii", "bgbl"} # {}
    /\ i.sources # {} => i.title \in TitlesOf(n)
    /\ failures = 0 /\ i.matched => HasLink(n)

IssuesGood == \A n \in Numbers : GoodIssue(issues[n], n)

JobGood(j) ==
    LET q == job[j]
    IN  /\ q.pc \in {"upsert", "link", "matched"} =>
              q.item \in Items /\ q.new.sources # {} /\ GoodIssue(q.new, q.item.id)
        /\ q.pc = "link" => q.item.law \in Laws
        /\ JobFeed[j] = "gii" /\ ~q.failed /\ q.pc # "idle" =>
              \A it \in q.fetched \ q.todo :
                 \/ Kept(it)
                 \/ it = q.item /\ q.pc = "upsert"
                 \/ it = q.item /\ q.pc = "link" /\ Stored(it.id)

CoveredKept == \A it \in covered : Kept(it)

(* The law is chosen and its links are being, or have been, collected.      *)
Collecting(e) ==
    eval[e].pc \in {"issues", "put"} \/ (eval[e].pc = "stamp" /\ e \notin Reconcilers)

SnapshotGood(e) ==
    LET q == eval[e]
    IN  /\ \A n \in Numbers : GoodIssue(q.snapshot[n], n)
        /\ q.pc \in {"heuristicLink", "heuristicIssue"} =>
              \A n \in q.unmatched :
                 q.snapshot[n].sources # {} /\ TitleLaw[q.snapshot[n].title] \in Laws
        /\ q.pc = "heuristicIssue" =>
              \A n \in q.todo :
                 q.snapshot[n].sources # {} /\ (failures = 0 => HasLink(n))

LinkedGood(x, l) ==
    /\ Stored(x.id) /\ links[<<x.id, l>>] # "none"
    /\ x.number = <<x.id, 0>> /\ x.title \in TitlesOf(x.id)

CollectedGood(e) ==
    LET q == eval[e]
    IN  /\ q.pc = "links" => q.law \in Laws
        /\ Collecting(e) => q.law \in Laws /\ \A x \in q.linked : LinkedGood(x, q.law)
        /\ q.pc = "issues" => \A n \in q.todo : links[<<n, q.law>>] # "none"

(* What the stamp that an evaluation read covers is collected.              *)
CoverGood(e) ==
    LET q == eval[e]
    IN  /\ \A it \in q.covered : Kept(it)
        /\ e \in Reconcilers /\ q.pc \in {"issues", "put"} =>
              \A it \in q.covered :
                 it.law = q.law =>
                    \/ q.pc = "issues" /\ it.id \in q.todo
                    \/ \E x \in q.linked : x.id = it.id

Sound ==
    /\ IssuesGood
    /\ \A j \in Jobs : JobGood(j)
    /\ CoveredKept
    /\ \A e \in Evals : SnapshotGood(e) /\ CollectedGood(e) /\ CoverGood(e)
    /\ StaleIsBacked

-----------------------------------------------------------------------------
(* Nothing that was stored or linked is taken away.                         *)

Grows ==
    /\ \A k \in Numbers \X Laws : links[k] # "none" => links'[k] # "none"
    /\ \A n \in Numbers : issues[n].sources # {} => issues'[n].sources # {}
    /\ failures' = 0 => failures = 0

JobWrites(n) ==
    \E j \in Jobs : /\ job[j].pc \in {"upsert", "matched"}
                    /\ n = job[j].item.id
                    /\ issues'[n] = job[j].new

EvalWrites(n) ==
    \E e \in Evals : /\ eval[e].pc = "heuristicIssue"
                     /\ n \in eval[e].todo
                     /\ issues'[n] = [eval[e].snapshot[n] EXCEPT !.matched = TRUE]

LEMMA WrittenIssues ==
    ASSUME TypeOK, [Next]_vars, NEW n \in Numbers
    PROVE  issues'[n] = issues[n] \/ JobWrites(n) \/ EvalWrites(n)
<1> issues \in [Numbers -> Issue]
  BY DEF TypeOK
<1>1. ASSUME NEW j \in Jobs, UpsertIssue(j) \/ UpsertMatched(j)
      PROVE  issues'[n] = issues[n] \/ JobWrites(n)
  BY <1>1 DEF UpsertIssue, UpsertMatched, JobWrites
<1>2. ASSUME NEW e \in Evals, NEW m \in Numbers, HeuristicIssue(e, m)
      PROVE  issues'[n] = issues[n] \/ EvalWrites(n)
  BY <1>2 DEF HeuristicIssue, EvalWrites
<1>3. ASSUME NEW j \in Jobs, JobStep(j) \/ WriteFails(j),
             ~UpsertIssue(j), ~UpsertMatched(j)
      PROVE  issues' = issues
  BY <1>3, Zenon DEF JobStep, WriteFails, Fetch, NoPermalink, GetIssue, UpsertLink, Finish
<1>4. ASSUME NEW e \in Evals, EvalStep(e) \/ EvalWriteFails(e),
             ~\E m \in Numbers : HeuristicIssue(e, m)
      PROVE  issues' = issues
  BY <1>4, Zenon DEF EvalStep, EvalWriteFails, BeginReconcile, ReadStamp, ListIssues,
     HeuristicLink, ListLaws, GetStand, LinksForLaw, GetLinkedIssue, AllIssuesRead, PutFreshness
<1>5. ASSUME Tick \/ (\E it \in Items : Publish(it))
             \/ (\E l \in Laws, m \in Numbers : RefreshStand(l, m))
             \/ (\E e \in Evals, l \in Laws : BeginRequest(e, l))
             \/ Restart \/ UNCHANGED vars
      PROVE  issues' = issues
  BY <1>5, Zenon DEF Tick, Publish, RefreshStand, BeginRequest, Restart, vars
<1>6. QED
  BY <1>1, <1>2, <1>3, <1>4, <1>5 DEF Next

LEMMA WrittenLinks ==
    ASSUME TypeOK, [Next]_vars, NEW k \in Numbers \X Laws
    PROVE  links'[k] = links[k] \/ links'[k] \in {"confirmed", "heuristic"}
<1> links \in [Numbers \X Laws -> LinkClasses]
  BY DEF TypeOK
<1>1. ASSUME NEW j \in Jobs, UpsertLink(j)
      PROVE  links'[k] = links[k] \/ links'[k] = "confirmed"
  BY <1>1 DEF UpsertLink
<1>2. ASSUME NEW e \in Evals, NEW m \in Numbers, HeuristicLink(e, m)
      PROVE  links'[k] = links[k] \/ links'[k] = "heuristic"
  BY <1>2 DEF HeuristicLink
<1>3. ASSUME NEW j \in Jobs, JobStep(j) \/ WriteFails(j), ~UpsertLink(j)
      PROVE  links' = links
  BY <1>3, Zenon DEF JobStep, WriteFails, Fetch, NoPermalink, GetIssue, UpsertIssue,
     UpsertMatched, Finish
<1>4. ASSUME NEW e \in Evals, EvalStep(e) \/ EvalWriteFails(e),
             ~\E m \in Numbers : HeuristicLink(e, m)
      PROVE  links' = links
  BY <1>4, Zenon DEF EvalStep, EvalWriteFails, BeginReconcile, ReadStamp, ListIssues,
     HeuristicIssue, ListLaws, GetStand, LinksForLaw, GetLinkedIssue, AllIssuesRead, PutFreshness
<1>5. ASSUME Tick \/ (\E it \in Items : Publish(it))
             \/ (\E l \in Laws, m \in Numbers : RefreshStand(l, m))
             \/ (\E e \in Evals, l \in Laws : BeginRequest(e, l))
             \/ Restart \/ UNCHANGED vars
      PROVE  links' = links
  BY <1>5, Zenon DEF Tick, Publish, RefreshStand, BeginRequest, Restart, vars
<1>6. QED
  BY <1>1, <1>2, <1>3, <1>4, <1>5 DEF Next

LEMMA FailuresStep ==
    ASSUME TypeOK, [Next]_vars
    PROVE  failures' = failures \/ failures' = failures + 1
<1>1. ASSUME NEW j \in Jobs, JobStep(j) \/ WriteFails(j)
      PROVE  failures' = failures \/ failures' = failures + 1
  BY <1>1, Zenon DEF JobStep, WriteFails, Fetch, NoPermalink, GetIssue, UpsertIssue,
     UpsertLink, UpsertMatched, Finish, faultCounts
<1>2. ASSUME NEW e \in Evals, EvalStep(e) \/ EvalWriteFails(e)
      PROVE  failures' = failures \/ failures' = failures + 1
  BY <1>2, Zenon DEF EvalStep, EvalWriteFails, BeginReconcile, ReadStamp, ListIssues,
     HeuristicLink, HeuristicIssue, ListLaws, GetStand, LinksForLaw, GetLinkedIssue,
     AllIssuesRead, PutFreshness, EvalOnly
<1>3. ASSUME Tick \/ (\E it \in Items : Publish(it))
             \/ (\E l \in Laws, m \in Numbers : RefreshStand(l, m))
             \/ (\E e \in Evals, l \in Laws : BeginRequest(e, l))
             \/ Restart \/ UNCHANGED vars
      PROVE  failures' = failures
  BY <1>3, Zenon DEF Tick, Publish, RefreshStand, BeginRequest, Restart, vars, EvalOnly, faultCounts
<1>4. QED
  BY <1>1, <1>2, <1>3 DEF Next

LEMMA GrowsStep ==
    ASSUME TypeOK, Sound, [Next]_vars
    PROVE  Grows
<1>1. \A k \in Numbers \X Laws : links[k] # "none" => links'[k] # "none"
  BY WrittenLinks
<1>2. ASSUME NEW n \in Numbers, issues[n].sources # {}
      PROVE  issues'[n].sources # {}
  <2>1. CASE JobWrites(n)
    BY <2>1 DEF JobWrites, Sound, JobGood
  <2>2. CASE EvalWrites(n)
    <3>1. PICK e \in Evals : /\ eval[e].pc = "heuristicIssue" /\ n \in eval[e].todo
                             /\ issues'[n] = [eval[e].snapshot[n] EXCEPT !.matched = TRUE]
      BY <2>2 DEF EvalWrites
    <3>2. eval[e].snapshot[n].sources # {}
      BY <3>1 DEF Sound, SnapshotGood
    <3>3. eval[e].snapshot[n] \in Issue
      BY DEF TypeOK, EvalState
    <3>4. QED
      BY <3>1, <3>2, <3>3 DEF Issue
  <2>3. QED
    BY <1>2, <2>1, <2>2, WrittenIssues
<1>3. failures' = 0 => failures = 0
  BY FailuresStep DEF TypeOK
<1>4. QED
  BY <1>1, <1>2, <1>3 DEF Grows

(* So what is good or kept stays good or kept.                              *)
LEMMA GoodIssueStays ==
    ASSUME Grows, NEW n \in Numbers, NEW i, GoodIssue(i, n)
    PROVE  GoodIssue(i, n)'
BY DEF Grows, GoodIssue, HasLink

LEMMA KeptStays ==
    ASSUME Grows, NEW it \in Items, Kept(it)
    PROVE  Kept(it)'
BY ItemTypes DEF Grows, Kept, Stored

LEMMA HasLinkStays ==
    ASSUME Grows, NEW n \in Numbers, HasLink(n)
    PROVE  HasLink(n)'
BY DEF Grows, HasLink

LEMMA LinkedGoodStays ==
    ASSUME Grows, NEW x \in LinkedIssue, NEW l \in Laws, LinkedGood(x, l)
    PROVE  LinkedGood(x, l)'
BY DEF Grows, LinkedGood, LinkedIssue, Stored

-----------------------------------------------------------------------------
(* Stored issues and the jobs.                                              *)

LEMMA IssuesGoodStep ==
    ASSUME TypeOK, Sound, [Next]_vars
    PROVE  IssuesGood'
<1> SUFFICES ASSUME NEW n \in Numbers
             PROVE  GoodIssue(issues[n], n)'
  BY DEF IssuesGood
<1>1. Grows
  BY GrowsStep
<1>2. CASE issues'[n] = issues[n]
  <2>1. GoodIssue(issues[n], n)
    BY DEF Sound, IssuesGood
  <2>2. QED
    BY <1>1, <1>2, <2>1 DEF Grows, GoodIssue, HasLink
<1>3. CASE JobWrites(n)
  <2>1. PICK j \in Jobs : /\ job[j].pc \in {"upsert", "matched"} /\ n = job[j].item.id
                          /\ issues'[n] = job[j].new
    BY <1>3 DEF JobWrites
  <2>2. GoodIssue(job[j].new, n)
    BY <2>1 DEF Sound, JobGood
  <2>3. QED
    BY <1>1, <2>1, <2>2 DEF Grows, GoodIssue, HasLink
<1>4. CASE EvalWrites(n)
  <2>1. PICK e \in Evals : /\ eval[e].pc = "heuristicIssue" /\ n \in eval[e].todo
                           /\ issues'[n] = [eval[e].snapshot[n] EXCEPT !.matched = TRUE]
    BY <1>4 DEF EvalWrites
  <2>2. GoodIssue(eval[e].snapshot[n], n) /\ (failures = 0 => HasLink(n))
    BY <2>1 DEF Sound, SnapshotGood
  <2>3. eval[e].snapshot[n] \in Issue
    BY DEF TypeOK, EvalState
  <2>4. /\ issues'[n].confidence = eval[e].snapshot[n].confidence
        /\ issues'[n].sources = eval[e].snapshot[n].sources
        /\ issues'[n].title = eval[e].snapshot[n].title
    BY <2>1, <2>3 DEF Issue
  <2>5. QED
    BY <1>1, <2>2, <2>4 DEF Grows, GoodIssue, HasLink
<1>5. QED
  BY <1>2, <1>3, <1>4, WrittenIssues

(* What GetIssue prepares may be written.                                   *)
LEMMA NewIssueGood ==
    ASSUME NEW it \in Items, NEW old \in Issue, NEW now \in Time, GoodIssue(old, it.id)
    PROVE  GoodIssue(NewIssue(it, old, now), it.id) /\ NewIssue(it, old, now).sources # {}
<1> DEFINE new == NewIssue(it, old, now)
<1>1. new.sources = old.sources \cup {it.feed} /\ new.title = it.title
  BY DEF NewIssue
<1>2. new.title \in TitlesOf(it.id)
  BY <1>1 DEF TitlesOf
<1>3. new.matched => old.matched
  BY DEF NewIssue
<1>4. CASE it.feed = "eli"
  BY <1>1, <1>2, <1>3, <1>4 DEF NewIssue, GoodIssue
<1>5. CASE it.feed # "eli"
  <2>1. it.feed \in {"gii", "bgbl"}
    BY <1>5, ItemTypes DEF Feeds
  <2>2. new.confidence = "high"
    BY <1>5 DEF NewIssue
  <2>3. QED
    BY <1>1, <1>2, <1>3, <2>1, <2>2 DEF GoodIssue
<1>6. QED
  BY <1>4, <1>5

LEMMA JobFrame ==
    ASSUME TypeOK, [Next]_vars, NEW d \in Jobs
    PROVE  job'[d] = job[d] \/ job'[d] = IdleJob \/ JobStep(d) \/ WriteFails(d)
<1> job \in [Jobs -> JobState]
  BY DEF TypeOK
<1>1. ASSUME NEW j \in Jobs, JobStep(j) \/ WriteFails(j), j # d
      PROVE  job'[d] = job[d]
  BY <1>1 DEF JobStep, WriteFails, Fetch, NoPermalink, GetIssue, UpsertIssue, UpsertLink,
     UpsertMatched, Finish
<1>2. ASSUME NEW e \in Evals,
             EvalStep(e) \/ EvalWriteFails(e) \/ \E l \in Laws : BeginRequest(e, l)
      PROVE  job' = job
  BY <1>2, Zenon DEF EvalStep, EvalWriteFails, BeginRequest, BeginReconcile, ReadStamp,
     ListIssues, HeuristicLink, HeuristicIssue, ListLaws, GetStand, LinksForLaw, GetLinkedIssue,
     AllIssuesRead, PutFreshness, EvalOnly, EvalReads
<1>3. ASSUME Tick \/ (\E it \in Items : Publish(it))
             \/ (\E l \in Laws, m \in Numbers : RefreshStand(l, m)) \/ UNCHANGED vars
      PROVE  job' = job
  BY <1>3, Zenon DEF Tick, Publish, RefreshStand, vars
<1>4. CASE Restart
  BY <1>4 DEF Restart
<1>5. QED
  BY <1>1, <1>2, <1>3, <1>4 DEF Next

LEMMA JobGoodStep ==
    ASSUME TypeOK, Sound, [Next]_vars, NEW d \in Jobs
    PROVE  JobGood(d)'
<1> DEFINE q == job[d]
<1> /\ job \in [Jobs -> JobState] /\ q \in JobState /\ issues \in [Numbers -> Issue]
    /\ links \in [Numbers \X Laws -> LinkClasses] /\ clock \in Time
  BY DEF TypeOK
<1>1. Grows /\ JobGood(d)
  BY GrowsStep DEF Sound
<1>2. q.fetched \subseteq Items /\ q.new \in Issue
  BY DEF JobState
<1>3. \A it \in Items : it.id \in Numbers
  BY ItemTypes
<1>4. CASE job'[d] = q
  <2>1. q.pc \in {"upsert", "link", "matched"} =>
          q.item \in Items /\ q.new.sources # {} /\ GoodIssue(job[d].new, job[d].item.id)'
    BY <1>1, <1>3, <1>4 DEF JobGood, GoodIssue, Grows, HasLink
  <2>2. \A it \in q.fetched : Kept(it) => Kept(it)'
    BY <1>1, <1>2, KeptStays
  <2>3. \A it \in q.fetched : Stored(it.id) => Stored(it.id)'
    BY <1>1, <1>2, <1>3 DEF Grows, Stored
  <2>4. QED
    BY <1>1, <1>4, <2>1, <2>2, <2>3 DEF JobGood
<1>5. CASE job'[d] = IdleJob
  BY <1>5 DEF JobGood, IdleJob
<1>6. CASE Fetch(d)
  <2>1. job'[d].pc = "next" /\ job'[d].fetched = job'[d].todo
    BY <1>6 DEF Fetch, IdleJob
  <2>2. QED
    BY <2>1 DEF JobGood
<1>7. ASSUME NEW it \in q.todo, NoPermalink(d, it)
      PROVE  JobGood(d)'
  <2>1. job'[d].pc = "next" /\ JobFeed[d] # "gii"
    BY <1>7 DEF NoPermalink, Turn, JobState
  <2>2. QED
    BY <2>1 DEF JobGood
<1>8. ASSUME NEW it \in q.todo, GetIssue(d, it)
      PROVE  JobGood(d)'
  <2> DEFINE new == NewIssue(it, issues[it.id], clock)
             r == [q EXCEPT !.pc = "upsert", !.todo = q.todo \ {it}, !.item = it, !.new = new]
  <2>1. it \in Items /\ it.id \in Numbers /\ issues[it.id] \in Issue
    BY <1>3 DEF JobState
  <2>2. GoodIssue(new, it.id) /\ new.sources # {}
    BY <2>1, NewIssueGood DEF Sound, IssuesGood
  <2> HIDE DEF new
  <2>3. job'[d] = r
    BY <1>8 DEF GetIssue, new
  <2>4. /\ r.pc = "upsert" /\ r.item = it /\ r.new = new
        /\ r.failed = q.failed /\ r.fetched = q.fetched /\ r.todo = q.todo \ {it}
    BY DEF JobState
  <2>5. GoodIssue(job[d].new, job[d].item.id)'
    BY <1>1, <2>1, <2>2, <2>3, <2>4 DEF GoodIssue, Grows, HasLink
  <2>6. q.pc = "next"
    BY <1>8 DEF GetIssue, Turn
  <2>7. JobFeed[d] = "gii" /\ ~q.failed => \A x \in q.fetched \ q.todo : Kept(x)
    BY <1>1, <2>6 DEF JobGood
  <2>8. \A x \in q.fetched : Kept(x) => Kept(x)'
    BY <1>1, <1>2, KeptStays
  <2>9. JobFeed[d] = "gii" /\ ~q.failed =>
          \A x \in q.fetched \ (q.todo \ {it}) : Kept(x)' \/ x = it
    BY <2>7, <2>8
  <2>10. QED
    BY <2>1, <2>2, <2>3, <2>4, <2>5, <2>9 DEF JobGood
<1>9. CASE UpsertIssue(d)
  <2> DEFINE pc == AfterUpsert(q.item)
             r == [q EXCEPT !.pc = pc]
  <2>1. q.pc = "upsert" /\ job'[d] = r /\ issues' = [issues EXCEPT ![q.item.id] = q.new]
    BY <1>9 DEF UpsertIssue
  <2>2. /\ r.pc = pc /\ r.item = q.item /\ r.new = q.new
        /\ r.failed = q.failed /\ r.fetched = q.fetched /\ r.todo = q.todo
    BY DEF JobState
  <2>3. q.item \in Items /\ q.new.sources # {} /\ GoodIssue(q.new, q.item.id)
    BY <1>1, <2>1 DEF JobGood
  <2>4. GoodIssue(job[d].new, job[d].item.id)'
    BY <1>1, <1>3, <2>1, <2>2, <2>3 DEF GoodIssue, Grows, HasLink
  <2>5. Stored(q.item.id)'
    BY <1>3, <2>1, <2>2, <2>3 DEF Stored
  <2>6. pc \in {"link", "next"} /\ (pc = "link" => q.item.law \in Laws)
        /\ (pc = "next" => q.item.law = NoLaw)
    BY <2>3, ItemTypes DEF AfterUpsert
  <2>7. JobFeed[d] = "gii" /\ ~q.failed =>
          \A x \in q.fetched \ q.todo : Kept(x) \/ x = q.item
    BY <1>1, <2>1 DEF JobGood
  <2>8. \A x \in q.fetched : Kept(x) => Kept(x)'
    BY <1>1, <1>2, KeptStays
  <2>9. pc = "next" => Kept(job[d].item)'
    BY <2>1, <2>2, <2>5, <2>6 DEF Kept, Stored
  <2>10. JobFeed[d] = "gii" /\ ~q.failed =>
          \A x \in q.fetched \ q.todo :
             Kept(x)' \/ (x = q.item /\ pc = "link" /\ Stored(x.id)')
    BY <2>1, <2>2, <2>5, <2>6, <2>7, <2>8, <2>9 DEF Kept, Stored
  <2>11. QED
    BY <2>1, <2>2, <2>3, <2>4, <2>6, <2>10 DEF JobGood
<1>10. ASSUME q.pc = "link",
              \/ /\ links' = [links EXCEPT ![<<q.item.id, q.item.law>>] = "confirmed"]
                 /\ job'[d] = [q EXCEPT !.pc = "matched", !.new.matched = TRUE]
              \/ /\ failures' # 0
                 /\ job'[d] = [q EXCEPT !.pc = "matched", !.new.matched = TRUE, !.failed = TRUE]
       PROVE  JobGood(d)'
  <2> DEFINE new == [q.new EXCEPT !.matched = TRUE]
  <2>1. q.item \in Items /\ q.new.sources # {} /\ GoodIssue(q.new, q.item.id) /\ q.item.law \in Laws
    BY <1>1, <1>10 DEF JobGood
  <2>2. /\ job'[d].pc = "matched" /\ job'[d].item = q.item /\ job'[d].new = new
        /\ job'[d].fetched = q.fetched /\ job'[d].todo = q.todo
        /\ ~job'[d].failed => ~q.failed /\ links' = [links EXCEPT ![<<q.item.id, q.item.law>>] = "confirmed"]
    BY <1>10 DEF JobState
  <2>3. new.confidence = q.new.confidence /\ new.sources = q.new.sources /\ new.title = q.new.title
    BY <1>2 DEF Issue
  <2>4. links' = [links EXCEPT ![<<q.item.id, q.item.law>>] = "confirmed"]
          => links'[<<q.item.id, q.item.law>>] # "none"
    BY <1>3, <2>1
  <2>5. failures' = 0 => links' = [links EXCEPT ![<<q.item.id, q.item.law>>] = "confirmed"]
    BY <1>10
  <2>6. GoodIssue(job[d].new, job[d].item.id)'
    BY <1>1, <1>3, <2>1, <2>2, <2>3, <2>4, <2>5 DEF GoodIssue, Grows, HasLink
  <2>7. JobFeed[d] = "gii" /\ ~q.failed =>
          \A x \in q.fetched \ q.todo : Kept(x) \/ (x = q.item /\ Stored(x.id))
    BY <1>1, <1>10 DEF JobGood
  <2>8. \A x \in q.fetched : (Kept(x) => Kept(x)') /\ (Stored(x.id) => Stored(x.id)')
    BY <1>1, <1>2, <1>3, KeptStays DEF Grows, Stored
  <2>9. JobFeed[d] = "gii" /\ ~job'[d].failed => \A x \in q.fetched \ q.todo : Kept(x)'
    BY <2>2, <2>4, <2>7, <2>8 DEF Kept, Stored
  <2>10. QED
    BY <2>1, <2>2, <2>3, <2>6, <2>9 DEF JobGood
<1>11. ASSUME q.pc = "matched",
              \/ job'[d] = [q EXCEPT !.pc = "next"]
              \/ job'[d] = [q EXCEPT !.pc = "next", !.failed = TRUE]
       PROVE  JobGood(d)'
  <2>1. /\ job'[d].pc = "next" /\ job'[d].fetched = q.fetched /\ job'[d].todo = q.todo
        /\ ~job'[d].failed => ~q.failed
    BY <1>11 DEF JobState
  <2>2. JobFeed[d] = "gii" /\ ~q.failed => \A x \in q.fetched \ q.todo : Kept(x)
    BY <1>1, <1>11 DEF JobGood
  <2>3. \A x \in q.fetched : Kept(x) => Kept(x)'
    BY <1>1, <1>2, KeptStays
  <2>4. QED
    BY <2>1, <2>2, <2>3 DEF JobGood
<1>12. ASSUME q.pc = "upsert",
              job'[d] = [q EXCEPT !.pc = AfterUpsert(q.item), !.failed = TRUE]
       PROVE  JobGood(d)'
  <2>1. /\ job'[d].pc = AfterUpsert(q.item) /\ job'[d].item = q.item /\ job'[d].new = q.new
        /\ job'[d].failed
    BY <1>12 DEF JobState
  <2>2. q.item \in Items /\ q.new.sources # {} /\ GoodIssue(q.new, q.item.id)
    BY <1>1, <1>12 DEF JobGood
  <2>3. AfterUpsert(q.item) \in {"link", "next"}
        /\ (AfterUpsert(q.item) = "link" => q.item.law \in Laws)
    BY <2>2, ItemTypes DEF AfterUpsert
  <2>4. GoodIssue(job[d].new, job[d].item.id)'
    BY <1>1, <1>3, <2>1, <2>2 DEF GoodIssue, Grows, HasLink
  <2>5. QED
    BY <2>1, <2>2, <2>3, <2>4 DEF JobGood
<1>13. CASE WriteFails(d)
  <2>1. failures' # 0
    BY <1>13, FailuresStep DEF WriteFails, TypeOK
  <2>2. QED
    BY <1>10, <1>11, <1>12, <1>13, <2>1 DEF WriteFails
<1>14. CASE UpsertLink(d)
  BY <1>10, <1>14 DEF UpsertLink
<1>15. CASE UpsertMatched(d)
  BY <1>11, <1>15 DEF UpsertMatched
<1>16. CASE Finish(d)
  BY <1>5, <1>16 DEF Finish
<1>20. QED
  BY <1>4, <1>5, <1>6, <1>7, <1>8, <1>9, <1>13, <1>14, <1>15, <1>16, JobFrame DEF JobStep

LEMMA CoveredKeptStep ==
    ASSUME TypeOK, Sound, [Next]_vars
    PROVE  CoveredKept'
<1>1. Grows
  BY GrowsStep
<1>2. covered \subseteq Items /\ \A it \in covered : Kept(it)
  BY DEF TypeOK, Sound, CoveredKept
<1>3. \A it \in covered : Kept(it)'
  BY <1>1, <1>2, KeptStays
<1>4. CASE covered' = covered
  BY <1>3, <1>4 DEF CoveredKept
<1>5. ASSUME NEW j \in Jobs, Finish(j), JobFeed[j] = "gii", ~job[j].failed
      PROVE  CoveredKept'
  <2>1. /\ job[j].pc = "next" /\ job[j].todo = {} /\ covered' = covered \cup job[j].fetched
        /\ job[j].fetched \subseteq Items
    BY <1>5 DEF Finish, TypeOK, JobState
  <2>2. \A it \in job[j].fetched : Kept(it)
    BY <1>5, <2>1 DEF Sound, JobGood
  <2>3. \A it \in job[j].fetched : Kept(it)'
    BY <1>1, <2>1, <2>2, KeptStays
  <2>4. QED
    BY <1>3, <2>1, <2>3 DEF CoveredKept
<1>6. ASSUME NEW j \in Jobs, JobStep(j) \/ WriteFails(j),
             ~(Finish(j) /\ JobFeed[j] = "gii" /\ ~job[j].failed)
      PROVE  covered' = covered
  BY <1>6, Zenon DEF JobStep, WriteFails, Fetch, NoPermalink, GetIssue, UpsertIssue, UpsertLink,
     UpsertMatched, Finish
<1>7. ASSUME NEW e \in Evals,
             EvalStep(e) \/ EvalWriteFails(e) \/ \E l \in Laws : BeginRequest(e, l)
      PROVE  covered' = covered
  BY <1>7, Zenon DEF EvalStep, EvalWriteFails, BeginRequest, BeginReconcile, ReadStamp,
     ListIssues, HeuristicLink, HeuristicIssue, ListLaws, GetStand, LinksForLaw, GetLinkedIssue,
     AllIssuesRead, PutFreshness, EvalOnly, EvalReads
<1>8. ASSUME Tick \/ (\E it \in Items : Publish(it))
             \/ (\E l \in Laws, m \in Numbers : RefreshStand(l, m)) \/ Restart \/ UNCHANGED vars
      PROVE  covered' = covered
  BY <1>8, Zenon DEF Tick, Publish, RefreshStand, Restart, vars
<1>9. QED
  BY <1>4, <1>5, <1>6, <1>7, <1>8 DEF Next

-----------------------------------------------------------------------------
(* The evaluations.                                                         *)

EvalGood(e) == SnapshotGood(e) /\ CollectedGood(e) /\ CoverGood(e)

LEMMA EvalFrame ==
    ASSUME TypeOK, [Next]_vars, NEW d \in Evals
    PROVE  \/ eval'[d] = eval[d] \/ eval'[d] = IdleEval
           \/ EvalStep(d) \/ EvalWriteFails(d) \/ \E l \in Laws : BeginRequest(d, l)
<1> eval \in [Evals -> EvalState]
  BY DEF TypeOK
<1>1. ASSUME NEW e \in Evals, d # e,
             EvalStep(e) \/ EvalWriteFails(e) \/ \E l \in Laws : BeginRequest(e, l)
      PROVE  eval'[d] = eval[d]
  BY <1>1 DEF EvalStep, EvalWriteFails, BeginRequest, BeginReconcile, ReadStamp, ListIssues,
     HeuristicLink, HeuristicIssue, ListLaws, GetStand, LinksForLaw, GetLinkedIssue,
     AllIssuesRead, PutFreshness, NextLaw
<1>2. ASSUME NEW j \in Jobs, JobStep(j) \/ WriteFails(j)
      PROVE  eval' = eval
  BY <1>2, Zenon DEF JobStep, WriteFails, Fetch, NoPermalink, GetIssue, UpsertIssue, UpsertLink,
     UpsertMatched, Finish, JobOnly
<1>3. ASSUME Tick \/ (\E it \in Items : Publish(it))
             \/ (\E l \in Laws, m \in Numbers : RefreshStand(l, m)) \/ UNCHANGED vars
      PROVE  eval' = eval
  BY <1>3, Zenon DEF Tick, Publish, RefreshStand, vars
<1>4. CASE Restart
  BY <1>4 DEF Restart
<1>5. QED
  BY <1>1, <1>2, <1>3, <1>4 DEF Next

(* A snapshot is kept, taken or dropped; so is what a stamp covers.         *)
LEMMA EvalCommon ==
    ASSUME TypeOK, Sound, [Next]_vars, NEW d \in Evals,
           eval'[d].snapshot \in {eval[d].snapshot, issues, Nothing},
           eval'[d].covered \in {eval[d].covered, covered, {}}
    PROVE  /\ \A n \in Numbers : GoodIssue(eval[d].snapshot[n], n)'
           /\ \A it \in eval'[d].covered : Kept(it)'
<1>1. Grows
  BY GrowsStep
<1>2. eval[d].covered \subseteq Items /\ covered \subseteq Items
  BY DEF TypeOK, EvalState
<1>3. ASSUME NEW n \in Numbers
      PROVE  GoodIssue(eval[d].snapshot[n], n)'
  <2>1. GoodIssue(eval[d].snapshot[n], n) /\ GoodIssue(issues[n], n)
    BY DEF Sound, SnapshotGood, IssuesGood
  <2>2. GoodIssue(Nothing[n], n)
    BY DEF GoodIssue, Nothing, NoIssue
  <2>3. CASE eval'[d].snapshot = eval[d].snapshot
    BY <1>1, <2>1, <2>3 DEF GoodIssue, Grows, HasLink
  <2>4. CASE eval'[d].snapshot = issues
    BY <1>1, <2>1, <2>4 DEF GoodIssue, Grows, HasLink
  <2>5. CASE eval'[d].snapshot = Nothing
    BY <1>1, <2>2, <2>5 DEF GoodIssue, Grows, HasLink
  <2>6. QED
    BY <2>3, <2>4, <2>5
<1>4. \A it \in eval'[d].covered : it \in Items /\ Kept(it)
  BY <1>2 DEF Sound, CoveredKept, CoverGood
<1>5. \A it \in eval'[d].covered : Kept(it)'
  BY <1>1, <1>4, KeptStays
<1>6. QED
  BY <1>3, <1>5

(* Nothing else is claimed of an evaluation that is between two laws.       *)
LEMMA EvalQuiet ==
    ASSUME TypeOK, Sound, [Next]_vars, NEW d \in Evals,
           eval'[d].snapshot \in {eval[d].snapshot, issues, Nothing},
           eval'[d].covered \in {eval[d].covered, covered, {}},
           \/ eval'[d].pc \in {"idle", "listIssues", "nextLaw"}
           \/ eval'[d].pc = "stamp" /\ d \in Reconcilers
    PROVE  EvalGood(d)'
BY EvalCommon DEF EvalGood, SnapshotGood, CollectedGood, CoverGood, Collecting

LEMMA EvalUnchanged ==
    ASSUME TypeOK, Sound, [Next]_vars, NEW d \in Evals, eval'[d] = eval[d]
    PROVE  EvalGood(d)'
<1> DEFINE q == eval[d]
<1>1. Grows /\ SnapshotGood(d) /\ CollectedGood(d) /\ CoverGood(d)
  BY GrowsStep DEF Sound
<1>2. /\ q.unmatched \subseteq Numbers /\ q.todo \subseteq Numbers
      /\ q.linked \subseteq LinkedIssue /\ q.covered \subseteq Items
  BY DEF TypeOK, EvalState
<1>3. /\ \A n \in Numbers : GoodIssue(eval[d].snapshot[n], n)'
      /\ \A it \in eval'[d].covered : Kept(it)'
  BY EvalCommon
<1>4. SnapshotGood(d)'
  <2>1. \A n \in Numbers : HasLink(n) => HasLink(n)'
    BY <1>1, HasLinkStays
  <2>2. failures' = 0 => failures = 0
    BY <1>1 DEF Grows
  <2>3. QED
    BY <1>1, <1>2, <1>3, <2>1, <2>2 DEF SnapshotGood
<1>5. CollectedGood(d)'
  <2>1. \A x \in q.linked : \A l \in Laws : LinkedGood(x, l) => LinkedGood(x, l)'
    BY <1>1, <1>2, LinkedGoodStays
  <2>2. Collecting(d)' <=> Collecting(d)
    BY DEF Collecting
  <2>3. Collecting(d)' => eval'[d].law \in Laws /\ \A x \in q.linked : LinkedGood(x, eval[d].law)'
    BY <1>1, <2>1, <2>2 DEF CollectedGood, LinkedGood
  <2>4. q.pc = "issues" => \A n \in q.todo : links'[<<n, q.law>>] # "none"
    BY <1>1, <1>2 DEF CollectedGood, Grows, Collecting
  <2>5. QED
    BY <1>1, <2>3, <2>4 DEF CollectedGood
<1>6. CoverGood(d)'
  BY <1>1, <1>3 DEF CoverGood
<1>7. QED
  BY <1>4, <1>5, <1>6 DEF EvalGood

(* heuristicLink goes on with what is left of its list.                     *)
LEMMA HeuristicGood ==
    ASSUME TypeOK, Sound, [Next]_vars, NEW d \in Evals,
           eval[d].pc \in {"heuristicLink", "heuristicIssue"},
           eval'[d].pc \in {"heuristicLink", "heuristicIssue"},
           eval'[d].snapshot = eval[d].snapshot,
           eval'[d].covered = eval[d].covered,
           eval'[d].unmatched \subseteq eval[d].unmatched,
           eval'[d].pc = "heuristicIssue" =>
              /\ eval'[d].todo \subseteq eval[d].unmatched
              /\ failures' = 0 => \A n \in eval'[d].todo : HasLink(n)'
    PROVE  EvalGood(d)'
<1>1. /\ \A n \in Numbers : GoodIssue(eval[d].snapshot[n], n)'
      /\ \A it \in eval'[d].covered : Kept(it)'
  BY EvalCommon
<1>2. \A n \in eval[d].unmatched : /\ eval[d].snapshot[n].sources # {}
                                   /\ TitleLaw[eval[d].snapshot[n].title] \in Laws
  BY DEF Sound, SnapshotGood
<1>3. SnapshotGood(d)'
  BY <1>1, <1>2 DEF SnapshotGood
<1>4. CollectedGood(d)' /\ CoverGood(d)'
  BY <1>1 DEF CollectedGood, CoverGood, Collecting
<1>5. QED
  BY <1>3, <1>4 DEF EvalGood

LEMMA ListIssuesGood ==
    ASSUME TypeOK, Sound, [Next]_vars, NEW d \in Evals, ListIssues(d)
    PROVE  EvalGood(d)'
<1> DEFINE u == {n \in Numbers : Linkable(n, eval[d].now)}
           r == [eval[d] EXCEPT !.snapshot = issues, !.unmatched = u, !.pc = "heuristicLink"]
<1>1. eval[d] \in EvalState /\ eval'[d] = r /\ issues \in [Numbers -> Issue]
  BY DEF ListIssues, TypeOK
<1>2. \A n \in u : issues[n].sources # {} /\ TitleLaw[issues[n].title] \in Laws
  BY <1>1, CatalogAssumption DEF Linkable, Stored, Issue
<1> HIDE DEF u
<1>3. /\ r.snapshot = issues /\ r.unmatched = u /\ r.pc = "heuristicLink"
      /\ r.covered = eval[d].covered
  BY <1>1 DEF EvalState
<1>4. /\ \A n \in Numbers : GoodIssue(eval[d].snapshot[n], n)'
      /\ \A it \in eval'[d].covered : Kept(it)'
  BY <1>1, <1>3, EvalCommon
<1>5. SnapshotGood(d)'
  BY <1>1, <1>2, <1>3, <1>4 DEF SnapshotGood
<1>6. CollectedGood(d)' /\ CoverGood(d)'
  BY <1>1, <1>3, <1>4 DEF CollectedGood, CoverGood, Collecting
<1>7. QED
  BY <1>5, <1>6 DEF EvalGood

LEMMA HeuristicStepsGood ==
    ASSUME TypeOK, Sound, [Next]_vars, NEW d \in Evals,
           \/ \E n \in Numbers : HeuristicLink(d, n) \/ HeuristicIssue(d, n)
           \/ EvalWriteFails(d) /\ eval[d].pc \in {"heuristicLink", "heuristicIssue"}
    PROVE  EvalGood(d)'
<1> DEFINE q == eval[d]
<1> q \in EvalState /\ eval \in [Evals -> EvalState] /\ links \in [Numbers \X Laws -> LinkClasses]
  BY DEF TypeOK
<1>1. ASSUME NEW m \in q.unmatched, q.pc = "heuristicLink",
             eval' = [eval EXCEPT ![d].pc = "heuristicIssue", ![d].unmatched = @ \ {m},
                                  ![d].todo = {m}],
             failures' = 0 => HasLink(m)'
      PROVE  EvalGood(d)'
  <2>1. /\ eval'[d].pc = "heuristicIssue" /\ eval'[d].snapshot = q.snapshot
        /\ eval'[d].covered = q.covered /\ eval'[d].unmatched = q.unmatched \ {m}
        /\ eval'[d].todo = {m}
    BY <1>1 DEF EvalState
  <2>2. failures' = 0 => \A x \in eval'[d].todo : HasLink(x)'
    BY <1>1, <2>1
  <2>3. QED
    BY <1>1, <2>1, <2>2, HeuristicGood
<1>2. ASSUME q.pc = "heuristicIssue",
             eval' = [eval EXCEPT ![d].pc = "heuristicLink", ![d].todo = {}]
      PROVE  EvalGood(d)'
  <2>1. /\ eval'[d].pc = "heuristicLink" /\ eval'[d].snapshot = q.snapshot
        /\ eval'[d].covered = q.covered /\ eval'[d].unmatched = q.unmatched
    BY <1>2 DEF EvalState
  <2>2. QED
    BY <1>2, <2>1, HeuristicGood
<1>3. ASSUME NEW n \in Numbers, HeuristicLink(d, n)
      PROVE  EvalGood(d)'
  <2>1. q.pc = "heuristicLink" /\ n \in q.unmatched
    BY <1>3 DEF HeuristicLink
  <2>2. TitleLaw[q.snapshot[n].title] \in Laws
    BY <2>1 DEF Sound, SnapshotGood
  <2>3. links'[<<n, TitleLaw[q.snapshot[n].title]>>] = "heuristic"
    BY <1>3, <2>2 DEF HeuristicLink
  <2>4. HasLink(n)'
    BY <2>2, <2>3 DEF HasLink
  <2>5. QED
    BY <1>1, <1>3, <2>1, <2>4 DEF HeuristicLink
<1>4. ASSUME NEW n \in Numbers, HeuristicIssue(d, n)
      PROVE  EvalGood(d)'
  BY <1>2, <1>4 DEF HeuristicIssue
<1>5. CASE EvalWriteFails(d) /\ q.pc = "heuristicLink"
  <2>1. failures' # 0
    <3>1. failures' = failures + 1
      BY <1>5, Zenon DEF EvalWriteFails
    <3>2. QED
      BY <3>1 DEF TypeOK
  <2>2. PICK m \in q.unmatched :
          eval' = [eval EXCEPT ![d].pc = "heuristicIssue", ![d].unmatched = @ \ {m},
                               ![d].todo = {m}]
    BY <1>5 DEF EvalWriteFails
  <2>3. QED
    BY <1>1, <1>5, <2>1, <2>2
<1>6. CASE EvalWriteFails(d) /\ q.pc = "heuristicIssue"
  BY <1>2, <1>6 DEF EvalWriteFails
<1>7. QED
  BY <1>3, <1>4, <1>5, <1>6

LEMMA LinksForLawGood ==
    ASSUME TypeOK, Sound, [Next]_vars, NEW d \in Evals, LinksForLaw(d)
    PROVE  EvalGood(d)'
<1> DEFINE q == eval[d]
           u == LinkedNumbers(q.law)
           cs == [n \in Numbers |-> links[<<n, q.law>>]]
           b == {it \in covered : it.law = q.law}
           r == [q EXCEPT !.pc = "issues", !.todo = u, !.classes = cs, !.linked = {}, !.base = b]
<1>1. q \in EvalState /\ eval'[d] = r /\ links' = links /\ q.pc = "links"
  BY DEF LinksForLaw, TypeOK
<1>2. q.law \in Laws /\ q.covered \subseteq Items /\ \A it \in q.covered : Kept(it)
  BY <1>1 DEF Sound, CollectedGood, CoverGood, EvalState
<1>3. \A n \in u : links[<<n, q.law>>] # "none"
  BY DEF LinkedNumbers
<1>4. \A it \in q.covered : it.law = q.law => it.id \in u
  BY <1>2, ItemTypes, CatalogAssumption DEF Kept, LinkedNumbers
<1> HIDE DEF u, cs, b
<1>5. /\ r.pc = "issues" /\ r.todo = u /\ r.linked = {} /\ r.law = q.law
      /\ r.covered = q.covered /\ r.snapshot = q.snapshot
  BY <1>1 DEF EvalState
<1>6. /\ \A n \in Numbers : GoodIssue(eval[d].snapshot[n], n)'
      /\ \A it \in eval'[d].covered : Kept(it)'
  BY <1>1, <1>5, EvalCommon
<1>7. SnapshotGood(d)'
  BY <1>1, <1>5, <1>6 DEF SnapshotGood
<1>8. CollectedGood(d)'
  BY <1>1, <1>2, <1>3, <1>5 DEF CollectedGood, Collecting
<1>9. CoverGood(d)'
  BY <1>1, <1>4, <1>5, <1>6 DEF CoverGood
<1>10. QED
  BY <1>7, <1>8, <1>9 DEF EvalGood

LEMMA GetLinkedIssueGood ==
    ASSUME TypeOK, Sound, [Next]_vars, NEW d \in Evals, NEW n \in Numbers, GetLinkedIssue(d, n)
    PROVE  EvalGood(d)'
<1> DEFINE q == eval[d]
           x == IF Stored(n) THEN q.linked \cup {AsGazetteIssue(n)} ELSE q.linked
           r == [q EXCEPT !.todo = q.todo \ {n}, !.linked = x]
<1>1. /\ q \in EvalState /\ eval'[d] = r /\ links' = links /\ issues' = issues
      /\ q.pc = "issues" /\ n \in q.todo
  BY DEF GetLinkedIssue, TypeOK
<1>2. /\ q.law \in Laws /\ q.covered \subseteq Items /\ q.linked \subseteq LinkedIssue
      /\ \A it \in q.covered : Kept(it)
      /\ \A y \in q.linked : LinkedGood(y, q.law)
      /\ \A m \in q.todo : links[<<m, q.law>>] # "none"
  BY <1>1 DEF Sound, CollectedGood, CoverGood, EvalState, Collecting
<1>3. AsGazetteIssue(n).id = n
  BY DEF AsGazetteIssue
<1>4. Stored(n) => LinkedGood(AsGazetteIssue(n), q.law)
  BY <1>1, <1>2 DEF AsGazetteIssue, LinkedGood, Sound, IssuesGood, GoodIssue, Stored
<1>5. \A y \in x : LinkedGood(y, q.law)
  BY <1>2, <1>4
<1>6. ASSUME d \in Reconcilers, NEW it \in q.covered, it.law = q.law
      PROVE  it.id \in q.todo \ {n} \/ \E y \in x : y.id = it.id
  <2>1. it.id \in q.todo \/ \E y \in q.linked : y.id = it.id
    BY <1>1, <1>6 DEF Sound, CoverGood
  <2>2. it.id = n => Stored(n)
    BY <1>2 DEF Kept
  <2>3. QED
    BY <1>3, <2>1, <2>2
<1> HIDE DEF x
<1>7. /\ r.pc = "issues" /\ r.todo = q.todo \ {n} /\ r.linked = x /\ r.law = q.law
      /\ r.covered = q.covered /\ r.snapshot = q.snapshot
  BY <1>1 DEF EvalState
<1>8. /\ \A m \in Numbers : GoodIssue(eval[d].snapshot[m], m)'
      /\ \A it \in eval'[d].covered : Kept(it)'
  BY <1>1, <1>7, EvalCommon
<1>9. SnapshotGood(d)'
  BY <1>1, <1>7, <1>8 DEF SnapshotGood
<1>10. CollectedGood(d)'
  BY <1>1, <1>2, <1>5, <1>7 DEF CollectedGood, Collecting, LinkedGood, Stored
<1>11. CoverGood(d)'
  BY <1>1, <1>6, <1>7, <1>8 DEF CoverGood
<1>12. QED
  BY <1>9, <1>10, <1>11 DEF EvalGood

(* The links are read: the stamp is next for a request, the record for      *)
(* Reconcile; after the stamp of a request the record is next.              *)
LEMMA CollectedStays ==
    ASSUME TypeOK, Sound, [Next]_vars, NEW d \in Evals,
           AllIssuesRead(d) \/ (ReadStamp(d) /\ d \notin Reconcilers)
    PROVE  EvalGood(d)'
<1> DEFINE q == eval[d]
<1>1. q \in EvalState /\ eval \in [Evals -> EvalState] /\ links' = links /\ issues' = issues
  BY DEF AllIssuesRead, ReadStamp, TypeOK
<1>2. /\ eval'[d].pc \in {"put", "stamp"} /\ (eval'[d].pc = "stamp" => d \notin Reconcilers)
      /\ eval'[d].snapshot = q.snapshot /\ eval'[d].law = q.law /\ eval'[d].linked = q.linked
      /\ eval'[d].covered \in {q.covered, covered}
      /\ d \in Reconcilers => q.pc = "issues" /\ q.todo = {} /\ eval'[d].covered = q.covered
      /\ Collecting(d)
  BY <1>1 DEF AllIssuesRead, ReadStamp, EvalState, Collecting
<1>3. q.law \in Laws /\ \A x \in q.linked : LinkedGood(x, q.law)
  BY <1>2 DEF Sound, CollectedGood
<1>4. /\ \A n \in Numbers : GoodIssue(eval[d].snapshot[n], n)'
      /\ \A it \in eval'[d].covered : Kept(it)'
  BY <1>2, EvalCommon
<1>5. SnapshotGood(d)'
  BY <1>2, <1>4 DEF SnapshotGood
<1>6. CollectedGood(d)'
  BY <1>1, <1>2, <1>3 DEF CollectedGood, LinkedGood, Stored
<1>7. CoverGood(d)'
  BY <1>2, <1>4 DEF CoverGood, Sound
<1>8. QED
  BY <1>5, <1>6, <1>7 DEF EvalGood

LEMMA NextLawGood ==
    ASSUME TypeOK, Sound, [Next]_vars, NEW d \in Evals, NextLaw(d)
    PROVE  EvalGood(d)'
<1>1. /\ eval'[d].pc \in {"idle", "nextLaw"} /\ eval'[d].snapshot = Nothing
      /\ eval'[d].covered \in {eval[d].covered, {}}
  BY DEF NextLaw, IdleEval, TypeOK
<1>2. QED
  BY <1>1, EvalQuiet

LEMMA EvalGoodStep ==
    ASSUME TypeOK, Sound, [Next]_vars, NEW d \in Evals
    PROVE  EvalGood(d)'
<1> eval \in [Evals -> EvalState] /\ eval[d] \in EvalState
  BY DEF TypeOK
<1>1. CASE eval'[d] = IdleEval
  BY <1>1, EvalQuiet DEF IdleEval
<1>2. CASE \E l \in Laws : BeginRequest(d, l)
  <2>1. eval'[d].pc = "nextLaw" /\ eval'[d].snapshot = Nothing /\ eval'[d].covered = {}
    BY <1>2 DEF BeginRequest, IdleEval
  <2>2. QED
    BY <2>1, EvalQuiet
<1>3. CASE BeginReconcile(d)
  <2>1. /\ eval'[d].pc = "stamp" /\ eval'[d].snapshot = Nothing /\ eval'[d].covered = {}
        /\ d \in Reconcilers
    BY <1>3 DEF BeginReconcile, IdleEval
  <2>2. QED
    BY <2>1, EvalQuiet
<1>4. CASE ReadStamp(d) /\ d \in Reconcilers
  <2>1. /\ eval'[d].pc = "listIssues" /\ eval'[d].snapshot = eval[d].snapshot
        /\ eval'[d].covered = covered
    BY <1>4 DEF ReadStamp, EvalState
  <2>2. QED
    BY <2>1, EvalQuiet
<1>5. CASE ListLaws(d)
  <2>1. /\ eval'[d].pc = "nextLaw" /\ eval'[d].snapshot = Nothing
        /\ eval'[d].covered = eval[d].covered
    BY <1>5 DEF ListLaws, EvalState
  <2>2. QED
    BY <2>1, EvalQuiet
<1>6. ASSUME NEW l \in Laws, GetStand(d, l)
      PROVE  EvalGood(d)'
  <2>1. /\ eval'[d].pc = "links" /\ eval'[d].snapshot = eval[d].snapshot /\ eval'[d].law = l
        /\ eval'[d].covered = eval[d].covered
    BY <1>6 DEF GetStand, EvalState
  <2>2. /\ \A n \in Numbers : GoodIssue(eval[d].snapshot[n], n)'
        /\ \A it \in eval'[d].covered : Kept(it)'
    BY <2>1, EvalCommon
  <2>3. QED
    BY <2>1, <2>2 DEF EvalGood, SnapshotGood, CollectedGood, CoverGood, Collecting
<1>7. CASE EvalWriteFails(d)
  <2>1. NextLaw(d) \/ eval[d].pc \in {"heuristicLink", "heuristicIssue"}
    BY <1>7, Zenon DEF EvalWriteFails
  <2>2. QED
    BY <1>7, <2>1, NextLawGood, HeuristicStepsGood
<1>8. CASE EvalStep(d)
  BY <1>3, <1>4, <1>5, <1>6, <1>8, ListIssuesGood, HeuristicStepsGood, LinksForLawGood,
     GetLinkedIssueGood, CollectedStays, NextLawGood DEF EvalStep, PutFreshness
<1>9. QED
  BY <1>1, <1>2, <1>7, <1>8, EvalFrame, EvalUnchanged

-----------------------------------------------------------------------------
(* The records, and the invariant as a whole.                               *)

LEMMA StaleStep ==
    ASSUME TypeOK, Sound, [Next]_vars
    PROVE  StaleIsBacked'
<1>1. Grows
  BY GrowsStep
<1> records \in [Laws -> [state : States \cup {"none"}, newer : SUBSET Numbers]]
  BY DEF TypeOK
<1> SUFFICES ASSUME NEW l \in Laws, records'[l].state = "confirmed_stale"
             PROVE  /\ records'[l].newer # {}
                    /\ \A n \in records'[l].newer : issues'[n].sources # {} /\ links'[<<n, l>>] # "none"
  BY DEF StaleIsBacked, Stored
<1>2. CASE records'[l] = records[l]
  <2>1. records[l].newer \subseteq Numbers
    OBVIOUS
  <2>2. QED
    BY <1>1, <1>2, <2>1 DEF Sound, StaleIsBacked, Grows, Stored
<1>3. ASSUME NEW e \in Evals, PutFreshness(e), records'[l] # records[l]
      PROVE  /\ records'[l].newer # {}
             /\ \A n \in records'[l].newer : issues'[n].sources # {} /\ links'[<<n, l>>] # "none"
  <2> DEFINE in == EvalInput(eval[e])
             rec == Evaluate(in)
  <2>1. /\ eval[e].pc = "put" /\ issues' = issues /\ links' = links
        /\ records' = [records EXCEPT ![eval[e].law] = [state |-> rec.state, newer |-> rec.newer]]
    BY <1>3 DEF PutFreshness
  <2>2. l = eval[e].law /\ records'[l].state = rec.state /\ records'[l].newer = rec.newer
    BY <1>3, <2>1
  <2>3. rec.newer = NewerIssueIDs(in) /\ NewerIssueIDs(in) # {}
    BY <2>2, StaleNamesNewer
  <2>4. \A x \in eval[e].linked : LinkedGood(x, l)
    BY <2>1, <2>2 DEF Sound, CollectedGood, Collecting
  <2>5. \A n \in NewerIssueIDs(in) : \E x \in eval[e].linked : x.id = n
    BY NewerAreLinked
  <2>6. \A n \in rec.newer : issues[n].sources # {} /\ links[<<n, l>>] # "none"
    BY <2>3, <2>4, <2>5 DEF LinkedGood, Stored
  <2>7. QED
    BY <2>1, <2>2, <2>3, <2>6
<1>4. ASSUME NEW j \in Jobs, JobStep(j) \/ WriteFails(j)
      PROVE  records' = records
  BY <1>4, Zenon DEF JobStep, WriteFails, Fetch, NoPermalink, GetIssue, UpsertIssue, UpsertLink,
     UpsertMatched, Finish, JobOnly
<1>5. ASSUME NEW e \in Evals, ~PutFreshness(e),
             EvalStep(e) \/ EvalWriteFails(e) \/ \E k \in Laws : BeginRequest(e, k)
      PROVE  records' = records
  BY <1>5, Zenon DEF EvalStep, EvalWriteFails, BeginRequest, BeginReconcile, ReadStamp,
     ListIssues, HeuristicLink, HeuristicIssue, ListLaws, GetStand, LinksForLaw, GetLinkedIssue,
     AllIssuesRead
<1>6. ASSUME Tick \/ (\E it \in Items : Publish(it))
             \/ (\E k \in Laws, m \in Numbers : RefreshStand(k, m)) \/ Restart \/ UNCHANGED vars
      PROVE  records' = records
  BY <1>6, Zenon DEF Tick, Publish, RefreshStand, Restart, vars
<1>7. QED
  BY <1>2, <1>3, <1>4, <1>5, <1>6 DEF Next

LEMMA SoundInit == Init => Sound
<1> SUFFICES ASSUME Init PROVE Sound
  OBVIOUS
<1>1. \A n \in Numbers : GoodIssue(NoIssue, n)
  BY DEF GoodIssue, NoIssue
<1>2. IssuesGood /\ CoveredKept /\ StaleIsBacked
  BY <1>1 DEF Init, IssuesGood, CoveredKept, StaleIsBacked, NoRecord
<1>3. \A j \in Jobs : JobGood(j)
  BY DEF Init, JobGood, IdleJob
<1>4. \A e \in Evals : SnapshotGood(e) /\ CollectedGood(e) /\ CoverGood(e)
  BY <1>1 DEF Init, SnapshotGood, CollectedGood, CoverGood, Collecting, IdleEval, Nothing
<1>5. QED
  BY <1>2, <1>3, <1>4 DEF Sound

LEMMA SoundStep ==
    ASSUME TypeOK, Sound, [Next]_vars
    PROVE  Sound'
<1>1. \A j \in Jobs : JobGood(j)'
  BY JobGoodStep
<1>2. \A e \in Evals : EvalGood(e)'
  BY EvalGoodStep
<1>3. QED
  BY <1>1, <1>2, IssuesGoodStep, CoveredKeptStep, StaleStep DEF Sound, EvalGood

(* Sound is an invariant of the specification.                              *)
THEOREM SoundInvariant == Spec => []Sound
<1>1. Init => Sound
  BY SoundInit
<1>2. TypeOK /\ Sound /\ [Next]_vars => Sound'
  BY SoundStep
<1>3. QED
  BY <1>1, <1>2, TypeCorrect, PTL DEF Spec

-----------------------------------------------------------------------------
(* The safety invariants of the runs.                                       *)

(* The confidence of a stored issue is high exactly when an official feed   *)
(* is among its sources, although RunGIIFeed, RunBGBlFeeds, RunELIProbe and *)
(* heuristicLink overwrite each other's records.                            *)
THEOREM ConfidenceFromFeeds == Spec => []HighIffFeed
<1>1. Sound => HighIffFeed
  BY DEF Sound, IssuesGood, GoodIssue, HighIffFeed
<1>2. QED
  BY <1>1, SoundInvariant, PTL

(* Unless a write failed, an issue that heuristicLink will pass over has a  *)
(* link, wherever a restart interrupts RunGIIFeed or heuristicLink.         *)
THEOREM MatchedIsLinked == Spec => []MatchedHasLink
<1>1. Sound => MatchedHasLink
  BY DEF Sound, IssuesGood, GoodIssue, HasLink, MatchedHasLink
<1>2. QED
  BY <1>1, SoundInvariant, PTL

(* last_gii_feed_success promises that the items of that run of RunGIIFeed  *)
(* are stored and linked, for any number of failed writes and restarts.     *)
THEOREM StampIsBacked == Spec => []StampMeansLinked
<1>1. Sound => StampMeansLinked
  BY DEF Sound, CoveredKept, Kept, StampMeansLinked
<1>2. QED
  BY <1>1, SoundInvariant, PTL

(* confirmed_stale always names stored issues that the law is linked to.    *)
THEOREM StaleHasEvidence == Spec => []StaleIsBacked
<1>1. Sound => StaleIsBacked
  BY DEF Sound
<1>2. QED
  BY <1>1, SoundInvariant, PTL

(* A collected issue with a higher number than the Stand is newer.          *)
LEMMA CollectedIsNewer ==
    ASSUME NEW ev \in EvalState, NEW x \in ev.linked, x \in LinkedIssue,
           x.number = <<x.id, 0>>, x.title # "bek", ev.stand # 0, x.id > ev.stand
    PROVE  NewerIssueIDs(EvalInput(ev)) # {}
<1> DEFINE in == EvalInput(ev)
<1>1. ev.stand \in Nat /\ x.id \in Nat /\ x.year = 1 /\ x.teil = 1
  BY NumbersArePositive DEF EvalState, LinkedIssue
<1>2. in.stand = StandCitation(ev.law, ev.stand) /\ x \in in.linked
  BY DEF EvalInput
<1>3. Compare(in.stand, AsCitation(x)) = "older"
  BY <1>1, <1>2 DEF Compare, AsCitation, StandCitation, IssueNum, Order
<1>4. IssueNewerThanStand(x, in.stand)
  BY <1>2, <1>3 DEF IssueNewerThanStand, StandCitation
<1>5. x \in NewerLinkedIssues(in)
  BY <1>2, <1>4 DEF NewerLinkedIssues, IsBareBekanntmachungIssue
<1>6. QED
  BY <1>5 DEF NewerIssueIDs

(* Reconcile reads the stamp before the links, so that an issue covered by  *)
(* the stamp and newer than the Stand keeps it from confirmed_current.      *)
THEOREM ReconcileSound == Spec => []ReconcileMissesNothing
<1>1. TypeOK /\ Sound => ReconcileMissesNothing
  <2> SUFFICES ASSUME TypeOK, Sound, NEW e \in Reconcilers, eval[e].pc = "put",
                      NEW it \in MissedItems(eval[e])
               PROVE  Conclusion(e) # "confirmed_current"
    BY DEF ReconcileMissesNothing
  <2>1. e \in Evals /\ eval[e] \in EvalState
    BY ProcessAssumption DEF TypeOK
  <2>2. /\ it \in eval[e].covered /\ it.law = eval[e].law
        /\ eval[e].stand # 0 /\ it.id > eval[e].stand
        /\ \A other \in Items : other.id = it.id => other.title # "bek"
    BY DEF MissedItems
  <2>3. PICK x \in eval[e].linked : x.id = it.id
    BY <2>1, <2>2 DEF Sound, CoverGood
  <2>4. LinkedGood(x, eval[e].law) /\ x \in LinkedIssue
    BY <2>1 DEF Sound, CollectedGood, Collecting, EvalState
  <2>5. x.title # "bek"
    BY <2>2, <2>3, <2>4 DEF LinkedGood, TitlesOf
  <2>6. NewerIssueIDs(EvalInput(eval[e])) # {}
    BY <2>1, <2>2, <2>3, <2>4, <2>5, CollectedIsNewer DEF LinkedGood
  <2>7. QED
    BY <2>6, NewerIsNotCurrent DEF Conclusion
<1>2. QED
  BY <1>1, TypeCorrect, SoundInvariant, PTL

=============================================================================
