------------------------------ MODULE SyncMeta ------------------------------
(***************************************************************************)
(* The sync stamps and the evaluations that rely on them.  Background jobs *)
(* (and POST /v1/recheck, which calls the same functions) fetch a source   *)
(* and stamp its last success in sync_meta; a partial BGBl failure writes  *)
(* a degraded marker instead.  Reconcile and freshnessFor read the stamps  *)
(* one View transaction at a time, evaluate and put one freshness record   *)
(* per law.  Every transaction of the store is one action; everything that *)
(* happens between two transactions of one goroutine may interleave, and a  *)
(* write may fail: most callers drop the error.                             *)
(***************************************************************************)
EXTENDS Freshness

CONSTANTS
    Runs,         \* goroutines that can execute a sync job
    RunSource,    \* the source each of them syncs
    Evals,        \* goroutines that evaluate freshness
    Reconcilers,  \* those that run Reconcile, the others serve freshnessFor
    Laws,         \* the laws that may be in the catalog
    InitialMeta,  \* what an earlier process may have left in sync_meta
    InitialCatalogs, \* and in the catalog
    MaxTime,      \* bound on the wall clock
    MayJumpBack,  \* whether the wall clock may be set back
    MaxInterrupts \* bound on restarts, abandoned Reconcile passes and failed writes

Sources == {"toc", "gii", "bgbl", "eli"}
MetaKeys == Sources \cup {"degraded"}

ASSUME SyncMetaAssumption ==
    /\ RunSource \in [Runs -> Sources]
    /\ Reconcilers \subseteq Evals
    /\ MaxTime \in Nat \ {0} /\ MaxInterrupts \in Nat
    /\ MayJumpBack \in BOOLEAN
    /\ InitialMeta \subseteq [MetaKeys -> 0..1]
    /\ InitialCatalogs \subseteq SUBSET Laws

VARIABLES
    clock,          \* time.Now(), never the zero time
    meta,           \* sync_meta: last_<source>_success and last_bgbl_feed_degraded
    lastReconcile,  \* sync_meta: last_reconcile_at
    run,            \* where each sync job stands
    eval,           \* where each evaluation stands
    catalog,        \* bucket laws
    records,        \* bucket freshness
    interrupts,     \* restarts, abandoned passes and failed writes so far
    succeeded,      \* history: the times at which a run of a source succeeded
    feedOK,         \* history: the last BGBl run that reported had both feeds
    sawFeedOK,      \* history: evaluations during which feedOK held
    covered,        \* history: the laws listed by a Reconcile that was stamped
    lost            \* history: the laws whose last record could not be written

vars == <<clock, meta, lastReconcile, run, eval, catalog, records, interrupts,
          succeeded, feedOK, sawFeedOK, covered, lost>>
storeVars == <<meta, lastReconcile, catalog, records>>
passHistory == <<covered, lost>>
history == <<succeeded, feedOK, sawFeedOK, covered, lost>>

Time == 0..MaxTime
NoRecord == [state |-> "none", at |-> NoTime]
IdleRun == [pc |-> "idle", at |-> NoTime]
NothingRead == [k \in MetaKeys |-> NoTime]
IdleEval == [pc |-> "idle", now |-> NoTime, seen |-> NothingRead,
             listed |-> {}, todo |-> {}]

(* Reconcile and freshnessFor read the five keys in this order.             *)
ReadSteps == {"toc", "gii", "bgbl", "degraded", "eli"}
AfterRead(k) ==
    CASE k = "toc" -> "gii"
      [] k = "gii" -> "bgbl"
      [] k = "bgbl" -> "degraded"
      [] k = "degraded" -> "eli"
      [] k = "eli" -> "gathered"

RunState == [pc : {"idle", "fetch", "degrade", "clear", "capture", "compare", "write"},
             at : Time]
EvalState == [pc : {"idle", "gathered", "put"} \cup ReadSteps,
              now : Time,
              seen : [MetaKeys -> Time],
              listed : SUBSET Laws,
              todo : SUBSET Laws]
Record == [state : States \cup {"none"}, at : Time]

TypeOK ==
    /\ clock \in Time \ {NoTime}
    /\ meta \in [MetaKeys -> Time]
    /\ lastReconcile \in Time
    /\ run \in [Runs -> RunState]
    /\ eval \in [Evals -> EvalState]
    /\ catalog \subseteq Laws
    /\ records \in [Laws -> Record]
    /\ interrupts \in 0..MaxInterrupts
    /\ succeeded \in [Sources -> SUBSET Time]
    /\ feedOK \in BOOLEAN
    /\ sawFeedOK \subseteq Evals
    /\ covered \subseteq Laws /\ lost \subseteq Laws

(* The process starts on the stamps an earlier process left behind.         *)
Init ==
    /\ clock = 1
    /\ meta \in InitialMeta
    /\ lastReconcile = NoTime
    /\ run = [r \in Runs |-> IdleRun]
    /\ eval = [e \in Evals |-> IdleEval]
    /\ catalog \in InitialCatalogs
    /\ records = [l \in Laws |-> NoRecord]
    /\ interrupts = 0
    /\ succeeded = [s \in Sources |-> {meta[s]} \ {NoTime}]
    /\ feedOK = (EffectiveBGBlFeedTime(meta["bgbl"], meta["degraded"]) # NoTime)
    /\ sawFeedOK = {}
    /\ covered = {} /\ lost = {}

-----------------------------------------------------------------------------
(* The wall clock.                                                          *)

Tick ==
    /\ clock < MaxTime
    /\ clock' = clock + 1
    /\ UNCHANGED <<storeVars, run, eval, interrupts, history>>

JumpBack ==
    /\ MayJumpBack
    /\ clock > 1
    /\ clock' = clock - 1
    /\ UNCHANGED <<storeVars, run, eval, interrupts, history>>

-----------------------------------------------------------------------------
(* Sync jobs (orchestrator.go: RunTOC, RunGIIFeed, RunBGBlFeeds,            *)
(* RunELIProbe; meta.go).  What they write besides the stamps is modelled   *)
(* in GazetteStore.                                                         *)

Start(r) ==
    /\ run[r].pc = "idle"
    /\ run' = [run EXCEPT ![r] = [pc |-> "fetch", at |-> clock]]
    /\ UNCHANGED <<clock, storeVars, eval, interrupts, history>>

(* A fetch takes time: its outcome is known at another instant.             *)
Answered(r) == run[r].pc = "fetch" /\ clock # run[r].at

(* The job returns an error without touching the stamps: HTTP error, unsafe *)
(* or unparsable XML, no items, or a failed store write.                    *)
Fail(r) ==
    /\ Answered(r)
    /\ run' = [run EXCEPT ![r] = IdleRun]
    /\ UNCHANGED <<clock, storeVars, eval, interrupts, history>>

(* One of the two BGBl feeds failed; the failure time is taken ...          *)
FeedFails(r) ==
    /\ Answered(r)
    /\ RunSource[r] = "bgbl"
    /\ run' = [run EXCEPT ![r] = [pc |-> "degrade", at |-> clock]]
    /\ UNCHANGED <<clock, storeVars, eval, interrupts, history>>

(* Mutant: the marker is dated ahead of the clock.                          *)
MutantMarkAhead(r) ==
    /\ run[r].pc = "degrade"
    /\ meta' = [meta EXCEPT !["degraded"] = run[r].at + 1]
    /\ run' = [run EXCEPT ![r] = IdleRun]
    /\ feedOK' = FALSE
    /\ UNCHANGED <<clock, lastReconcile, eval, catalog, records, interrupts, succeeded, sawFeedOK,
                   passHistory>>

(* ... and written, whatever the success stamp says.                        *)
MarkBGBlFeedDegraded(r) ==
    /\ run[r].pc = "degrade"
    /\ meta' = [meta EXCEPT !["degraded"] = run[r].at]
    /\ run' = [run EXCEPT ![r] = IdleRun]
    /\ feedOK' = FALSE
    /\ UNCHANGED <<clock, lastReconcile, eval, catalog, records, interrupts, succeeded, sawFeedOK,
                   passHistory>>

Succeed(r) ==
    /\ Answered(r)
    /\ run' = [run EXCEPT ![r].pc = IF RunSource[r] = "bgbl" THEN "clear" ELSE "capture"]
    /\ UNCHANGED <<clock, storeVars, eval, interrupts, history>>

ClearBGBlFeedDegraded(r) ==
    /\ run[r].pc = "clear"
    /\ meta' = [meta EXCEPT !["degraded"] = NoTime]
    /\ run' = [run EXCEPT ![r].pc = "capture"]
    /\ feedOK' = TRUE
    /\ sawFeedOK' = Evals
    /\ UNCHANGED <<clock, lastReconcile, eval, catalog, records, interrupts, succeeded, passHistory>>

(* stampSuccessMeta: the time is an argument, then one transaction reads    *)
(* the stored stamp and another one writes it.                              *)
CaptureTime(r) ==
    /\ run[r].pc = "capture"
    /\ run' = [run EXCEPT ![r] = [pc |-> "compare", at |-> clock]]
    /\ succeeded' = [succeeded EXCEPT ![RunSource[r]] = @ \cup {clock}]
    /\ UNCHANGED <<clock, storeVars, eval, interrupts, feedOK, sawFeedOK, passHistory>>

(* Mutant: the stamp is written without looking at the stored one.          *)
MutantNoComparison(r) ==
    /\ run[r].pc = "compare"
    /\ run' = [run EXCEPT ![r].pc = "write"]
    /\ UNCHANGED <<clock, storeVars, eval, interrupts, history>>

CompareStamp(r) ==
    /\ run[r].pc = "compare"
    /\ run' = [run EXCEPT ![r] = IF meta[RunSource[r]] > run[r].at
                                 THEN IdleRun
                                 ELSE [run[r] EXCEPT !.pc = "write"]]
    /\ UNCHANGED <<clock, storeVars, eval, interrupts, history>>

WriteStamp(r) ==
    /\ run[r].pc = "write"
    /\ meta' = [meta EXCEPT ![RunSource[r]] = run[r].at]
    /\ run' = [run EXCEPT ![r] = IdleRun]
    /\ UNCHANGED <<clock, lastReconcile, eval, catalog, records, interrupts, history>>

(* A write of the job fails.  The errors of the marker and of its clearing  *)
(* are dropped (meta.go:15, 19), so a failed clear is followed by the stamp *)
(* all the same; a failed stamp is returned.                                *)
StampWriteFails(r) ==
    /\ interrupts < MaxInterrupts
    /\ interrupts' = interrupts + 1
    /\ \/ /\ run[r].pc \in {"degrade", "write"}
          /\ run' = [run EXCEPT ![r] = IdleRun]
          /\ UNCHANGED <<feedOK, sawFeedOK>>
       \/ /\ run[r].pc = "clear"
          /\ run' = [run EXCEPT ![r].pc = "capture"]
          /\ feedOK' = TRUE
          /\ sawFeedOK' = Evals
    /\ UNCHANGED <<clock, storeVars, eval, succeeded, passHistory>>

RunStep(r) ==
    \/ Start(r) \/ Fail(r) \/ FeedFails(r) \/ MarkBGBlFeedDegraded(r)
    \/ Succeed(r) \/ ClearBGBlFeedDegraded(r)
    \/ CaptureTime(r) \/ CompareStamp(r) \/ WriteStamp(r) \/ StampWriteFails(r)

-----------------------------------------------------------------------------
(* Laws enter the catalog at any time and never leave it: RunTOC, and the   *)
(* stubs of linked laws that requests and Reconcile itself put in.          *)
AddLaws ==
    /\ \E new \in SUBSET (Laws \ catalog) : new # {} /\ catalog' = catalog \cup new
    /\ UNCHANGED <<clock, meta, lastReconcile, run, eval, records, interrupts, history>>

-----------------------------------------------------------------------------
(* Evaluations.  Reconcile (orchestrator.go:459-585) takes the time first   *)
(* and goes through all laws; freshnessFor (service.go:164-277) takes it    *)
(* after the reads and evaluates one law.                                   *)

BeginEval(e) ==
    /\ eval[e].pc = "idle"
    /\ e \in Reconcilers \/ catalog # {}
    /\ eval' = [eval EXCEPT ![e] = [IdleEval EXCEPT !.pc = "toc", !.now = clock]]
    /\ sawFeedOK' = IF feedOK THEN sawFeedOK \cup {e} ELSE sawFeedOK \ {e}
    /\ UNCHANGED <<clock, storeVars, run, interrupts, succeeded, feedOK, passHistory>>

ReadMeta(e) ==
    /\ eval[e].pc \in ReadSteps
    /\ eval' = [eval EXCEPT ![e].seen[eval[e].pc] = meta[eval[e].pc],
                            ![e].pc = AfterRead(eval[e].pc)]
    /\ UNCHANGED <<clock, storeVars, run, interrupts, history>>

(* Reconcile lists the catalog as it now is; a request has its one law and  *)
(* its time.                                                                *)
GatherLaws(e) ==
    /\ eval[e].pc = "gathered"
    /\ \/ /\ e \in Reconcilers
          /\ eval' = [eval EXCEPT ![e].pc = "put", ![e].listed = catalog, ![e].todo = catalog]
       \/ /\ e \notin Reconcilers
          /\ \E l \in catalog :
                eval' = [eval EXCEPT ![e].pc = "put", ![e].listed = {l}, ![e].todo = {l},
                                     ![e].now = clock]
    /\ UNCHANGED <<clock, storeVars, run, interrupts, history>>

(* The input of Evaluate: the stamps as they were read.  What the law's     *)
(* links and citations contribute is either nothing newer or one linked     *)
(* newer issue.                                                             *)
CurrentStand == [parseOK |-> TRUE, year |-> 1, teil |-> 1, number |-> <<1, 0>>,
                 page |-> 0, date |-> NoTime]
NewerIssue == [id |-> "newer", teil |-> 1, year |-> 1, number |-> <<2, 0>>,
               title |-> "gesetz", published |-> NoTime]

EvalInput(seen, now, linked) ==
    LET bgbl == EffectiveBGBlFeedTime(seen["bgbl"], seen["degraded"])
        evidence == BGBLEvidence(bgbl, seen["eli"], now)
    IN  [now |-> now, toc |-> seen["toc"], gii |-> seen["gii"],
         bgbl |-> evidence.at, probeOnly |-> evidence.probeOnly,
         linksReadFailed |-> FALSE, stand |-> CurrentStand,
         linked |-> linked, classes |-> [i \in {} |-> "confirmed"],
         refs |-> {}, instrIssues |-> {}, hasSeeded |-> FALSE,
         proofAware |-> FALSE, resolutions |-> <<>>]

PutFreshness(e, l) ==
    /\ eval[e].pc = "put"
    /\ l \in eval[e].todo
    /\ \E linked \in {{}, {NewerIssue}} :
          records' = [records EXCEPT ![l] =
              [state |-> Evaluate(EvalInput(eval[e].seen, eval[e].now, linked)).state,
               at |-> eval[e].now]]
    /\ lost' = lost \ {l}
    /\ eval' = [eval EXCEPT ![e].todo = @ \ {l}]
    /\ UNCHANGED <<clock, meta, lastReconcile, catalog, run, interrupts,
                   succeeded, feedOK, sawFeedOK, covered>>

(* The record is not written; Reconcile and freshnessFor drop the error and *)
(* go on, Reconcile up to its own stamp.                                    *)
PutFreshnessFails(e, l) ==
    /\ eval[e].pc = "put"
    /\ l \in eval[e].todo
    /\ interrupts < MaxInterrupts
    /\ interrupts' = interrupts + 1
    /\ lost' = lost \cup {l}
    /\ eval' = [eval EXCEPT ![e].todo = @ \ {l}]
    /\ UNCHANGED <<clock, storeVars, run, succeeded, feedOK, sawFeedOK, covered>>

EndEval(e) ==
    /\ eval[e].pc = "put"
    /\ eval[e].todo = {}
    /\ IF e \in Reconcilers
       THEN lastReconcile' = eval[e].now /\ covered' = covered \cup eval[e].listed
       ELSE UNCHANGED <<lastReconcile, covered>>
    /\ eval' = [eval EXCEPT ![e] = IdleEval]
    /\ UNCHANGED <<clock, meta, catalog, run, records, interrupts,
                   succeeded, feedOK, sawFeedOK, lost>>

(* Mutant: the timeout ends the loop instead of the pass.                   *)
MutantTimeoutBreaks(e) ==
    /\ e \in Reconcilers
    /\ eval[e].pc = "put"
    /\ eval[e].todo # {}
    /\ interrupts < MaxInterrupts
    /\ interrupts' = interrupts + 1
    /\ eval' = [eval EXCEPT ![e].todo = {}]
    /\ UNCHANGED <<clock, storeVars, run, history>>

(* Reconcile gives up: ListLaws failed, ctx.Err() at the top of its loop,   *)
(* or last_reconcile_at could not be written (an error that is dropped).    *)
AbandonPass(e) ==
    /\ e \in Reconcilers
    /\ eval[e].pc \in {"gathered", "put"}
    /\ interrupts < MaxInterrupts
    /\ interrupts' = interrupts + 1
    /\ eval' = [eval EXCEPT ![e] = IdleEval]
    /\ UNCHANGED <<clock, storeVars, run, history>>

EvalStep(e) ==
    \/ BeginEval(e) \/ ReadMeta(e) \/ GatherLaws(e)
    \/ (\E l \in Laws : PutFreshness(e, l))
    \/ EndEval(e)

(* The process dies and is started again on the same database.              *)
Restart ==
    /\ interrupts < MaxInterrupts
    /\ interrupts' = interrupts + 1
    /\ run' = [r \in Runs |-> IdleRun]
    /\ eval' = [e \in Evals |-> IdleEval]
    /\ UNCHANGED <<clock, storeVars, history>>

Next ==
    \/ Tick
    \/ JumpBack
    \/ \E r \in Runs : RunStep(r)
    \/ AddLaws
    \/ \E e \in Evals :
          \/ EvalStep(e)
          \/ \E l \in Laws : PutFreshnessFails(e, l)
          \/ AbandonPass(e)
    \/ Restart

Spec == Init /\ [][Next]_vars

(* Time passes and the Reconcile timer keeps firing (StartBackground); no   *)
(* fairness of the sources is assumed.  MaxInterrupts makes the abandoned   *)
(* passes and the lost records finitely many.                               *)
FairSpec ==
    /\ Spec
    /\ WF_vars(Tick)
    /\ \A e \in Reconcilers : WF_vars(EvalStep(e))

-----------------------------------------------------------------------------
(* Properties.                                                              *)

Required == {"toc", "gii", "bgbl"}

(* A record that says confirmed_current is backed, for each of the three    *)
(* required sources, by a run that really succeeded no more than MaxAge     *)
(* before the evaluation (and not after it, but for the tolerance), however *)
(* runs, evaluations, restarts and clock changes interleave: no stamp is    *)
(* ever invented, and an ELI probe never stands in for the BGBl feed.       *)
CurrentIsBacked ==
    \A l \in Laws : records[l].state = "confirmed_current" =>
        \A s \in Required : \E t \in succeeded[s] :
            t <= records[l].at + Tolerance /\ records[l].at - t <= MaxAge

(* A partial BGBl feed failure invalidates the last success: an evaluation  *)
(* all of which runs after the failure was recorded, and before a complete  *)
(* success, cannot conclude confirmed_current.                              *)
FailedFeedBlocksCurrent ==
    \A e \in Evals \ sawFeedOK :
        eval[e].pc = "put" =>
            Evaluate(EvalInput(eval[e].seen, eval[e].now, {})).state # "confirmed_current"

(* meta.go:27-31: a clock jump never moves a success stamp backwards.       *)
StampsNeverMoveBackwards ==
    [][\A s \in Sources : meta'[s] >= meta[s]]_meta

(* last_reconcile_at is only stamped by a pass that dealt with every law of *)
(* its list: each of them has a record, unless the last attempt to write it *)
(* failed (orchestrator.go:581 drops that error and 583 stamps).  Laws that *)
(* came in after the list was taken are not spoken for.                     *)
ReconcileCoversAll ==
    \A l \in covered : records[l] # NoRecord \/ l \in lost

(* Fail closed: once a required source has not succeeded for longer than    *)
(* MaxAge, no stored record stays confirmed_current, whatever the others    *)
(* do: in the end (the clock of the model stops at MaxTime) either there is *)
(* no such record or every required source did succeed within MaxAge.       *)
OutageEndsClaims ==
    <>[](\/ \A l \in Laws : records[l].state # "confirmed_current"
         \/ \A s \in Required : \E t \in succeeded[s] : t + MaxAge >= MaxTime)

=============================================================================
