---------------------------- MODULE GazetteStore ----------------------------
(***************************************************************************)
(* The gazette issues and the links from issues to laws: who writes them   *)
(* (the GII feed, the two BGBl feeds, the ELI probe, heuristicLink), and   *)
(* what an evaluation concludes from them.  Every method of the store is   *)
(* one bbolt transaction and one action here; a job reads an issue, builds *)
(* the new record in memory and writes the whole record back, so that      *)
(* other jobs may write between its two transactions.                      *)
(*                                                                         *)
(* One Teil and one year stand for all: an issue is its number.  The other *)
(* stamps, their ages and the degraded marker are in SyncMeta; here TOC    *)
(* and BGBl evidence is fresh and the GII stamp only has to exist.         *)
(***************************************************************************)
EXTENDS Freshness, FiniteSetsExt

CONSTANTS
    Items,        \* what the sources will ever show: [feed, id, title, published, law]
    Jobs,         \* goroutines that run a sync job (a loop or POST /v1/recheck)
    JobFeed,      \* the source each of them syncs: "gii", "bgbl" or "eli"
    Evals,        \* goroutines that evaluate freshness
    Reconcilers,  \* those that run Reconcile, the others serve freshnessFor
    Laws,         \* the laws of the catalog
    NoLaw,        \* nothing in the catalog matches
    TitleLaw,     \* what Snapshot.Resolve makes of a stored title
    FirstStand,   \* the issue number each law's Stand names at first, 0 for none
    StandDate,    \* the date of each law's Stand
    Grace,        \* config.UnmatchedGrace (72h by default)
    MaxTime,      \* bound on the clock
    MaxRefreshes, \* bound on the Stand refreshes
    MaxFailures,  \* bound on failed store writes
    MaxRestarts   \* bound on process restarts

Feeds == {"gii", "bgbl", "eli"}
Titles == {"", "bek", "gesetz"}
Numbers == {it.id : it \in Items}
Time == 0..MaxTime

(* An item of a GII feed carries the law matchLawFromItem finds for it; the *)
(* other sources match nothing.  The ELI "item" is the permalink: it has    *)
(* neither title nor date.                                                  *)
ASSUME ItemsAssumption ==
    /\ Items \subseteq [feed : Feeds, id : Nat \ {0}, title : Titles,
                        published : Time, law : Laws \cup {NoLaw}]
    /\ IsFiniteSet(Items)
    /\ \A it \in Items : it.feed # "gii" => it.law = NoLaw
    /\ \A it \in Items : it.feed = "eli" => it.title = "" /\ it.published = NoTime

ASSUME CatalogAssumption ==
    /\ NoLaw \notin Laws
    /\ TitleLaw \in [Titles -> Laws \cup {NoLaw}]
    /\ TitleLaw[""] = NoLaw
    /\ FirstStand \in [Laws -> Nat] /\ StandDate \in [Laws -> Nat]

ASSUME ProcessAssumption ==
    /\ JobFeed \in [Jobs -> Feeds]
    /\ Reconcilers \subseteq Evals

ASSUME BoundAssumption ==
    /\ MaxTime \in Nat \ {0} /\ MaxTime <= MaxAge /\ Grace \in Nat
    /\ MaxRefreshes \in Nat /\ MaxFailures \in Nat /\ MaxRestarts \in Nat

VARIABLES
    clock,     \* time.Now()
    shown,     \* the items the sources show by now
    issues,    \* bucket issues
    links,     \* bucket links
    stand,     \* bucket stands: the issue number each law's Stand names
    giiStamp,  \* sync_meta: last_gii_feed_success
    records,   \* bucket freshness
    job,       \* where each sync job stands
    eval,      \* where each evaluation stands
    refreshes, \* Stand refreshes so far
    failures,  \* failed writes so far
    restarts,  \* restarts so far
    covered    \* history: the GII items of the runs that were stamped

vars == <<clock, shown, issues, links, stand, giiStamp, records, job, eval,
          refreshes, failures, restarts, covered>>
faultCounts == <<failures, restarts>>

NoIssue == [title |-> "", published |-> NoTime, sources |-> {}, confidence |-> "low",
            matched |-> FALSE, firstSeen |-> NoTime]
Issue == [title : Titles, published : Time, sources : SUBSET Feeds,
          confidence : {"high", "low"}, matched : BOOLEAN, firstSeen : Time]

Stored(n) == issues[n].sources # {}

NoItem == [feed |-> "none", id |-> 0]
NoRecord == [state |-> "none", newer |-> {}]
Nothing == [n \in Numbers |-> NoIssue]
NoLinks == [n \in Numbers |-> "none"]
LinkClasses == {"none", "confirmed", "heuristic"}

IdleJob == [pc |-> "idle", todo |-> {}, fetched |-> {}, item |-> NoItem,
            new |-> NoIssue, failed |-> FALSE]
IdleEval == [pc |-> "idle", now |-> NoTime, stamp |-> NoTime, covered |-> {},
             snapshot |-> Nothing, unmatched |-> {}, laws |-> {}, law |-> NoLaw,
             stand |-> 0, classes |-> NoLinks, todo |-> {}, linked |-> {}, base |-> {}]

JobState == [pc : {"idle", "next", "upsert", "link", "matched"},
             todo : SUBSET Items, fetched : SUBSET Items,
             item : Items \cup {NoItem}, new : Issue, failed : BOOLEAN]
LinkedIssue == [id : Numbers, teil : {1}, year : {1}, number : Numbers \X {0},
                title : Titles, published : Time]
EvalState == [pc : {"idle", "stamp", "listIssues", "heuristicLink", "heuristicIssue",
                    "nextLaw", "links", "issues", "put"},
              now : Time, stamp : Time, covered : SUBSET Items,
              snapshot : [Numbers -> Issue], unmatched : SUBSET Numbers,
              laws : SUBSET Laws, law : Laws \cup {NoLaw}, stand : Nat,
              classes : [Numbers -> LinkClasses],
              todo : SUBSET Numbers, linked : SUBSET LinkedIssue, base : SUBSET Items]

TypeOK ==
    /\ clock \in Time \ {NoTime}
    /\ shown \subseteq Items
    /\ issues \in [Numbers -> Issue]
    /\ links \in [Numbers \X Laws -> LinkClasses]
    /\ stand \in [Laws -> Nat]
    /\ giiStamp \in Time
    /\ records \in [Laws -> [state : States \cup {"none"}, newer : SUBSET Numbers]]
    /\ job \in [Jobs -> JobState]
    /\ eval \in [Evals -> EvalState]
    /\ refreshes \in 0..MaxRefreshes
    /\ failures \in 0..MaxFailures
    /\ restarts \in 0..MaxRestarts
    /\ covered \subseteq Items

Init ==
    /\ clock = 1
    /\ shown = {}
    /\ issues = [n \in Numbers |-> NoIssue]
    /\ links = [k \in Numbers \X Laws |-> "none"]
    /\ stand = FirstStand
    /\ giiStamp = NoTime
    /\ records = [l \in Laws |-> NoRecord]
    /\ job = [j \in Jobs |-> IdleJob]
    /\ eval = [e \in Evals |-> IdleEval]
    /\ refreshes = 0
    /\ failures = 0
    /\ restarts = 0
    /\ covered = {}

-----------------------------------------------------------------------------
(* The environment.                                                         *)

Tick ==
    /\ clock < MaxTime
    /\ clock' = clock + 1
    /\ UNCHANGED <<shown, issues, links, stand, giiStamp, records, job, eval,
                   refreshes, faultCounts, covered>>

(* A source shows another item.                                             *)
Publish(it) ==
    /\ it \notin shown
    /\ shown' = shown \cup {it}
    /\ UNCHANGED <<clock, issues, links, stand, giiStamp, records, job, eval,
                   refreshes, faultCounts, covered>>

(* refreshStandForLaw: the consolidated text reflects a later issue, and    *)
(* UpsertStand stores it.                                                   *)
RefreshStand(l, n) ==
    /\ refreshes < MaxRefreshes
    /\ n > stand[l]
    /\ stand' = [stand EXCEPT ![l] = n]
    /\ refreshes' = refreshes + 1
    /\ UNCHANGED <<clock, shown, issues, links, giiStamp, records, job, eval,
                   faultCounts, covered>>

-----------------------------------------------------------------------------
(* Sync jobs: RunGIIFeed, RunBGBlFeeds, RunELIProbe.                        *)

JobOnly == UNCHANGED <<clock, shown, stand, records, eval, refreshes>>

(* latestNumber: 1 when nothing is stored.                                  *)
LatestNumber == Max({1} \cup {n \in Numbers : Stored(n)})

(* The feeds are read once; the probe asks for the next permalinks after    *)
(* the highest number stored.                                               *)
ItemsToRead(j) ==
    IF JobFeed[j] = "eli"
    THEN {it \in Items : it.feed = "eli" /\ it.id \in LatestNumber..LatestNumber + 3}
    ELSE {it \in shown : it.feed = JobFeed[j]}

Fetch(j) ==
    /\ job[j].pc = "idle"
    /\ job' = [job EXCEPT ![j] = [IdleJob EXCEPT !.pc = "next",
                                                 !.todo = ItemsToRead(j),
                                                 !.fetched = ItemsToRead(j)]]
    /\ JobOnly
    /\ UNCHANGED <<issues, links, giiStamp, faultCounts, covered>>

(* The probe goes through the numbers in order, a feed lists its items as   *)
(* it likes.                                                                *)
Turn(j, it) ==
    /\ job[j].pc = "next"
    /\ it \in job[j].todo
    /\ JobFeed[j] = "eli" => \A other \in job[j].todo : it.id <= other.id

(* Exists: no such permalink, or the request failed.                        *)
NoPermalink(j, it) ==
    /\ Turn(j, it)
    /\ JobFeed[j] = "eli"
    /\ job' = [job EXCEPT ![j].todo = @ \ {it}]
    /\ JobOnly
    /\ UNCHANGED <<issues, links, giiStamp, faultCounts, covered>>

(* Mutants: the probe sets its own confidence; an unset confidence; Matched *)
(* set before the link is written.                                          *)
MutantProbeLowers(it, existing, now) ==
    [title |-> it.title, published |-> it.published,
     sources |-> existing.sources \cup {it.feed},
     confidence |-> IF it.feed = "eli" THEN "low" ELSE "high",
     matched |-> it.feed # "gii" /\ existing.matched,
     firstSeen |-> IF existing.sources = {} THEN now ELSE existing.firstSeen]
MutantUnsetConfidence(it, existing, now) ==
    [MutantProbeLowers(it, existing, now) EXCEPT
        !.confidence = IF it.feed # "eli" THEN "high"
                       ELSE IF existing.confidence = "high" THEN "high" ELSE ""]
MutantMatchedEarly(it, existing, now) ==
    [MutantProbeLowers(it, existing, now) EXCEPT !.matched = existing.matched \/ it.law # NoLaw]

(* The record a job builds from an item and the issue it just read.  The    *)
(* GII feed does not carry Matched over, the probe carries neither title    *)
(* nor date over.                                                           *)
NewIssue(it, existing, now) ==
    [title |-> it.title,
     published |-> it.published,
     sources |-> existing.sources \cup {it.feed},
     confidence |-> IF it.feed = "eli" THEN existing.confidence ELSE "high",
     matched |-> it.feed # "gii" /\ existing.matched,
     firstSeen |-> IF existing.sources = {} THEN now ELSE existing.firstSeen]

(* Mutant: an issue that is stored already is not processed again.          *)
MutantSkipKnown(j, it) ==
    /\ Turn(j, it)
    /\ it \in shown
    /\ job' = IF Stored(it.id)
              THEN [job EXCEPT ![j].todo = @ \ {it}]
              ELSE [job EXCEPT ![j].pc = "upsert", ![j].todo = @ \ {it}, ![j].item = it,
                               ![j].new = NewIssue(it, issues[it.id], clock)]
    /\ JobOnly
    /\ UNCHANGED <<issues, links, giiStamp, faultCounts, covered>>

GetIssue(j, it) ==
    /\ Turn(j, it)
    /\ it \in shown
    /\ job' = [job EXCEPT ![j].pc = "upsert",
                          ![j].todo = @ \ {it},
                          ![j].item = it,
                          ![j].new = NewIssue(it, issues[it.id], clock)]
    /\ JobOnly
    /\ UNCHANGED <<issues, links, giiStamp, faultCounts, covered>>

AfterUpsert(it) == IF it.law # NoLaw THEN "link" ELSE "next"

UpsertIssue(j) ==
    /\ job[j].pc = "upsert"
    /\ issues' = [issues EXCEPT ![job[j].item.id] = job[j].new]
    /\ job' = [job EXCEPT ![j].pc = AfterUpsert(job[j].item)]
    /\ JobOnly
    /\ UNCHANGED <<links, giiStamp, faultCounts, covered>>

UpsertLink(j) ==
    /\ job[j].pc = "link"
    /\ links' = [links EXCEPT ![<<job[j].item.id, job[j].item.law>>] = "confirmed"]
    /\ job' = [job EXCEPT ![j].pc = "matched", ![j].new.matched = TRUE]
    /\ JobOnly
    /\ UNCHANGED <<issues, giiStamp, faultCounts, covered>>

UpsertMatched(j) ==
    /\ job[j].pc = "matched"
    /\ issues' = [issues EXCEPT ![job[j].item.id] = job[j].new]
    /\ job' = [job EXCEPT ![j].pc = "next"]
    /\ JobOnly
    /\ UNCHANGED <<links, giiStamp, faultCounts, covered>>

(* A write fails: the error is kept for the end and the run goes on.        *)
WriteFails(j) ==
    /\ failures < MaxFailures
    /\ failures' = failures + 1
    /\ \/ /\ job[j].pc = "upsert"
          /\ job' = [job EXCEPT ![j].pc = AfterUpsert(job[j].item), ![j].failed = TRUE]
       \/ /\ job[j].pc = "link"
          /\ job' = [job EXCEPT ![j].pc = "matched", ![j].new.matched = TRUE,
                                ![j].failed = TRUE]
       \/ /\ job[j].pc = "matched"
          /\ job' = [job EXCEPT ![j].pc = "next", ![j].failed = TRUE]
    /\ JobOnly
    /\ UNCHANGED <<issues, links, giiStamp, restarts, covered>>

(* Mutant: the stamp is moved whatever happened to the writes.              *)
MutantStampAnyway(j) ==
    /\ job[j].pc = "next"
    /\ job[j].todo = {}
    /\ IF JobFeed[j] = "gii"
       THEN giiStamp' = clock /\ covered' = covered \cup job[j].fetched
       ELSE UNCHANGED <<giiStamp, covered>>
    /\ job' = [job EXCEPT ![j] = IdleJob]
    /\ JobOnly
    /\ UNCHANGED <<issues, links, faultCounts>>

(* The end of a run: the stamp is moved unless a write failed (the stamps   *)
(* of the other sources are in SyncMeta).                                   *)
Finish(j) ==
    /\ job[j].pc = "next"
    /\ job[j].todo = {}
    /\ IF JobFeed[j] = "gii" /\ ~job[j].failed
       THEN /\ giiStamp' = clock
            /\ covered' = covered \cup job[j].fetched
       ELSE UNCHANGED <<giiStamp, covered>>
    /\ job' = [job EXCEPT ![j] = IdleJob]
    /\ JobOnly
    /\ UNCHANGED <<issues, links, faultCounts>>

JobStep(j) ==
    \/ Fetch(j)
    \/ (\E it \in job[j].todo : NoPermalink(j, it) \/ GetIssue(j, it))
    \/ UpsertIssue(j) \/ UpsertLink(j) \/ UpsertMatched(j)
    \/ Finish(j)

-----------------------------------------------------------------------------
(* Evaluations.  Reconcile reads the stamps, links heuristically, then goes *)
(* through the laws.  freshnessFor has one law, reads its links first and   *)
(* the stamps afterwards.                                                   *)

EvalReads == UNCHANGED <<clock, shown, stand, giiStamp, job, refreshes, restarts, covered>>
EvalOnly == EvalReads /\ UNCHANGED failures

BeginReconcile(e) ==
    /\ e \in Reconcilers
    /\ eval[e].pc = "idle"
    /\ eval' = [eval EXCEPT ![e] = [IdleEval EXCEPT !.pc = "stamp", !.now = clock]]
    /\ EvalOnly
    /\ UNCHANGED <<issues, links, records>>

BeginRequest(e, l) ==
    /\ e \notin Reconcilers
    /\ eval[e].pc = "idle"
    /\ eval' = [eval EXCEPT ![e] = [IdleEval EXCEPT !.pc = "nextLaw", !.laws = {l}]]
    /\ EvalOnly
    /\ UNCHANGED <<issues, links, records>>

ReadStamp(e) ==
    /\ eval[e].pc = "stamp"
    /\ eval' = [eval EXCEPT ![e].stamp = giiStamp,
                            ![e].covered = covered,
                            ![e].now = IF e \in Reconcilers THEN @ ELSE clock,
                            ![e].pc = IF e \in Reconcilers THEN "listIssues" ELSE "put"]
    /\ EvalOnly
    /\ UNCHANGED <<issues, links, records>>

(* heuristicLink: one snapshot of the issues, then two writes for each      *)
(* unmatched one that is out of its grace and whose title resolves.         *)
Linkable(n, now) ==
    /\ Stored(n)
    /\ ~issues[n].matched
    /\ now - issues[n].firstSeen >= Grace
    /\ TitleLaw[issues[n].title] # NoLaw

ListIssues(e) ==
    /\ eval[e].pc = "listIssues"
    /\ eval' = [eval EXCEPT ![e].snapshot = issues,
                            ![e].unmatched = {n \in Numbers : Linkable(n, eval[e].now)},
                            ![e].pc = "heuristicLink"]
    /\ EvalOnly
    /\ UNCHANGED <<issues, links, records>>

HeuristicLink(e, n) ==
    /\ eval[e].pc = "heuristicLink"
    /\ n \in eval[e].unmatched
    /\ links' = [links EXCEPT ![<<n, TitleLaw[eval[e].snapshot[n].title]>>] = "heuristic"]
    /\ eval' = [eval EXCEPT ![e].pc = "heuristicIssue", ![e].unmatched = @ \ {n},
                            ![e].todo = {n}]
    /\ EvalOnly
    /\ UNCHANGED <<issues, records>>

HeuristicIssue(e, n) ==
    /\ eval[e].pc = "heuristicIssue"
    /\ n \in eval[e].todo
    /\ issues' = [issues EXCEPT ![n] = [eval[e].snapshot[n] EXCEPT !.matched = TRUE]]
    /\ eval' = [eval EXCEPT ![e].pc = "heuristicLink", ![e].todo = {}]
    /\ EvalOnly
    /\ UNCHANGED <<links, records>>

(* ListLaws; the snapshot is not used any more.                             *)
ListLaws(e) ==
    /\ eval[e].pc = "heuristicLink"
    /\ eval[e].unmatched = {}
    /\ eval' = [eval EXCEPT ![e].pc = "nextLaw", ![e].laws = Laws, ![e].snapshot = Nothing]
    /\ EvalOnly
    /\ UNCHANGED <<issues, links, records>>

GetStand(e, l) ==
    /\ eval[e].pc = "nextLaw"
    /\ l \in eval[e].laws
    /\ eval' = [eval EXCEPT ![e].pc = "links", ![e].laws = @ \ {l}, ![e].law = l,
                            ![e].stand = stand[l], ![e].base = {}]
    /\ EvalOnly
    /\ UNCHANGED <<issues, links, records>>

(* Mutants: every stored issue counts as linked; heuristic links do not.    *)
MutantAllIssues(l) == {n \in Numbers : Stored(n)}
MutantConfirmedOnly(l) == {n \in Numbers : links[<<n, l>>] = "confirmed"}

LinkedNumbers(l) == {n \in Numbers : links[<<n, l>>] # "none"}

(* The field base is history: what the stamp covers when the links are read.*)
LinksForLaw(e) ==
    /\ eval[e].pc = "links"
    /\ LET l == eval[e].law
       IN  eval' = [eval EXCEPT ![e].pc = "issues",
                                ![e].todo = LinkedNumbers(l),
                                ![e].classes = [n \in Numbers |-> links[<<n, l>>]],
                                ![e].linked = {},
                                ![e].base = {it \in covered : it.law = l}]
    /\ EvalOnly
    /\ UNCHANGED <<issues, links, records>>

AsGazetteIssue(n) ==
    [id |-> n, teil |-> 1, year |-> 1, number |-> <<n, 0>>,
     title |-> issues[n].title, published |-> issues[n].published]

(* An issue that is not there is skipped.                                   *)
GetLinkedIssue(e, n) ==
    /\ eval[e].pc = "issues"
    /\ n \in eval[e].todo
    /\ eval' = [eval EXCEPT ![e].todo = @ \ {n},
                            ![e].linked = IF Stored(n) THEN @ \cup {AsGazetteIssue(n)} ELSE @]
    /\ EvalOnly
    /\ UNCHANGED <<issues, links, records>>

(* Mutant: the stamp is read again after the issues.                        *)
MutantStampLate(e) ==
    /\ eval[e].pc = "issues"
    /\ eval[e].todo = {}
    /\ eval' = [eval EXCEPT ![e].pc = "put", ![e].stamp = giiStamp, ![e].covered = covered]
    /\ EvalOnly
    /\ UNCHANGED <<issues, links, records>>

AllIssuesRead(e) ==
    /\ eval[e].pc = "issues"
    /\ eval[e].todo = {}
    /\ eval' = [eval EXCEPT ![e].pc = IF e \in Reconcilers THEN "put" ELSE "stamp"]
    /\ EvalOnly
    /\ UNCHANGED <<issues, links, records>>

(* A Stand with a number names an issue, one without names a page.          *)
StandCitation(l, n) ==
    [parseOK |-> TRUE, year |-> 1, teil |-> 1, number |-> <<n, 0>>,
     page |-> IF n = 0 THEN 1 ELSE 0, date |-> StandDate[l]]

EvalInput(ev) ==
    [now |-> ev.now, toc |-> ev.now, gii |-> ev.stamp, bgbl |-> ev.now,
     probeOnly |-> FALSE, linksReadFailed |-> FALSE,
     stand |-> StandCitation(ev.law, ev.stand),
     linked |-> ev.linked, classes |-> ev.classes,
     refs |-> {}, instrIssues |-> {}, hasSeeded |-> FALSE,
     proofAware |-> FALSE, resolutions |-> <<>>]

NextLaw(e) ==
    eval' = [eval EXCEPT ![e] =
               IF eval[e].laws = {} THEN IdleEval
               ELSE [IdleEval EXCEPT !.pc = "nextLaw", !.now = eval[e].now,
                                     !.stamp = eval[e].stamp,
                                     !.covered = eval[e].covered,
                                     !.laws = eval[e].laws]]

PutFreshness(e) ==
    /\ eval[e].pc = "put"
    /\ LET rec == Evaluate(EvalInput(eval[e]))
       IN  records' = [records EXCEPT ![eval[e].law] =
                          [state |-> rec.state, newer |-> rec.newer]]
    /\ NextLaw(e)
    /\ EvalOnly
    /\ UNCHANGED <<issues, links>>

(* The errors of these three writes are dropped.                            *)
EvalWriteFails(e) ==
    /\ failures < MaxFailures
    /\ failures' = failures + 1
    /\ \/ /\ eval[e].pc = "heuristicLink"
          /\ \E n \in eval[e].unmatched :
                eval' = [eval EXCEPT ![e].pc = "heuristicIssue", ![e].unmatched = @ \ {n},
                                     ![e].todo = {n}]
       \/ /\ eval[e].pc = "heuristicIssue"
          /\ eval' = [eval EXCEPT ![e].pc = "heuristicLink", ![e].todo = {}]
       \/ /\ eval[e].pc = "put"
          /\ NextLaw(e)
    /\ EvalReads
    /\ UNCHANGED <<issues, links, records>>

EvalStep(e) ==
    \/ BeginReconcile(e)
    \/ ReadStamp(e) \/ ListIssues(e)
    \/ (\E n \in Numbers : HeuristicLink(e, n) \/ HeuristicIssue(e, n))
    \/ ListLaws(e)
    \/ (\E l \in Laws : GetStand(e, l))
    \/ LinksForLaw(e)
    \/ (\E n \in Numbers : GetLinkedIssue(e, n))
    \/ AllIssuesRead(e) \/ PutFreshness(e)

(* The process dies and starts again on the same database.                  *)
Restart ==
    /\ restarts < MaxRestarts
    /\ restarts' = restarts + 1
    /\ job' = [j \in Jobs |-> IdleJob]
    /\ eval' = [e \in Evals |-> IdleEval]
    /\ UNCHANGED <<clock, shown, issues, links, stand, giiStamp, records,
                   refreshes, failures, covered>>

Next ==
    \/ Tick
    \/ \E it \in Items : Publish(it)
    \/ \E l \in Laws, n \in Numbers : RefreshStand(l, n)
    \/ \E j \in Jobs : JobStep(j) \/ WriteFails(j)
    \/ \E e \in Evals : EvalStep(e) \/ EvalWriteFails(e)
    \/ \E e \in Evals, l \in Laws : BeginRequest(e, l)
    \/ Restart

Spec == Init /\ [][Next]_vars

(* The timers of StartBackground keep firing and goroutines keep running;   *)
(* requests need not arrive, but one that was started is carried through.   *)
FairSpec ==
    /\ Spec
    /\ \A j \in Jobs : WF_vars(JobStep(j))
    /\ \A e \in Evals : WF_vars(EvalStep(e))

-----------------------------------------------------------------------------
(* Properties.                                                              *)

(* An issue is marked as existing with high confidence exactly when one of  *)
(* the official feeds is among its recorded sources, whichever jobs         *)
(* overwrite each other's records.                                          *)
HighIffFeed ==
    \A n \in Numbers :
        issues[n].confidence = "high" <=> issues[n].sources \cap {"gii", "bgbl"} # {}

(* Matched stops heuristicLink for good: an issue only carries it when a    *)
(* link of it is stored, whoever overwrites whom and wherever a restart cuts *)
(* an item short (a failed write of the link itself does leave it matched). *)
MatchedHasLink ==
    failures = 0 => \A n \in Numbers : issues[n].matched => \E l \in Laws : links[<<n, l>>] # "none"

(* last_gii_feed_success is a promise about the store: every item of a run  *)
(* that was stamped is stored, and linked to the law it names.              *)
StampMeansLinked ==
    \A it \in covered :
        /\ Stored(it.id)
        /\ it.law # NoLaw => links[<<it.id, it.law>>] # "none"

(* The covered items that a Stand with a number does not reflect.           *)
MissedItems(ev) ==
    {it \in ev.covered : /\ it.law = ev.law
                         /\ ev.stand # 0 /\ it.id > ev.stand
                         /\ \A other \in Items : other.id = it.id => other.title # "bek"}

Conclusion(e) == Evaluate(EvalInput(eval[e])).state

(* Reconcile never concludes confirmed_current for a law when the GII stamp *)
(* it relies on covers an issue of that law newer than its Stand.           *)
ReconcileMissesNothing ==
    \A e \in Reconcilers :
        eval[e].pc = "put" /\ MissedItems(eval[e]) # {} => Conclusion(e) # "confirmed_current"

(* README.md:108, the same for the requests: confirmed_current is verified  *)
(* against the signals whose stamps the answer shows.                       *)
RequestMissesNothing ==
    \A e \in Evals \ Reconcilers :
        eval[e].pc = "put" /\ MissedItems(eval[e]) # {} => Conclusion(e) # "confirmed_current"

(* A record that says confirmed_stale names an issue that a link of the law *)
(* leads to.                                                                *)
StaleIsBacked ==
    \A l \in Laws : records[l].state = "confirmed_stale" =>
        /\ records[l].newer # {}
        /\ \A n \in records[l].newer : Stored(n) /\ links[<<n, l>>] # "none"

(* The store and its many writers and readers as Watch, where an evaluation *)
(* looks at the promise of the stamp in one instant, that of LinksForLaw.   *)
PromisedPairs == {<<it.id, it.law>> : it \in {x \in covered : x.law # NoLaw}}
KnownPairs == {k \in Numbers \X Laws : Stored(k[1]) /\ links[k] # "none"}
View(q) == [law |-> q.law, stand |-> q.stand, base |-> {it.id : it \in q.base}]
Readers == [e \in Evals |-> View(eval[e])]
Notices == {it.id : it \in {x \in Items : x.title = "bek"}}

W == INSTANCE Watch WITH known <- KnownPairs, promised <- PromisedPairs, reflected <- stand,
                         reader <- Readers, verdict <- records

(* Issues, links, stamp and records, written in single transactions in any  *)
(* order, behave as Watch: every verdict is one that an evaluation in one   *)
(* instant could have given (freshnessFor and Reconcile alike).             *)
EvaluatesAtomically == W!Spec

(* Once a GII item shows an amendment of a law, stored records stop saying  *)
(* confirmed_current until the Stand reflects it.                           *)
AmendmentEndsCurrent ==
    \A it \in Items :
        it.feed = "gii" /\ it.law # NoLaw /\ it.title = "gesetz" =>
            [](it \in shown =>
                 <>[](\/ records[it.law].state # "confirmed_current"
                      \/ stand[it.law] >= it.id))

=============================================================================
