--------------------------- MODULE SyncMetaProofs ---------------------------
(***************************************************************************)
(* Theorems about SyncMeta, for any number of jobs, evaluations and laws,  *)
(* any bounds, and a wall clock that may jump back.                        *)
(***************************************************************************)
EXTENDS SyncMeta, TLAPS

USE DEF NoTime

(* Evaluate answers with one of the three states.                           *)
LEMMA EvaluateState ==
    ASSUME NEW in
    PROVE  Evaluate(in).state \in States
BY DEF Evaluate, Verdict, States

(* The fail-closed order of Evaluate: confirmed_current is only reached     *)
(* past the checks of the stamps and of the probe.                          *)
LEMMA CurrentNeedsSync ==
    ASSUME NEW in, Evaluate(in).state = "confirmed_current"
    PROVE  SyncWithinMaxAge(in) /\ ~in.probeOnly
<1>1. CASE ~SyncWithinMaxAge(in)
  BY <1>1 DEF Evaluate, Verdict
<1>2. CASE SyncWithinMaxAge(in) /\ in.probeOnly
  BY <1>2 DEF Evaluate, Verdict
<1> QED BY <1>1, <1>2

(* Evidence that is not probe only is the feed stamp itself.                *)
LEMMA FeedEvidence ==
    ASSUME NEW bgbl, NEW degraded, NEW eli, NEW now,
           LET ev == BGBLEvidence(EffectiveBGBlFeedTime(bgbl, degraded), eli, now)
           IN  ev.at # NoTime /\ ~ev.probeOnly
    PROVE  BGBLEvidence(EffectiveBGBlFeedTime(bgbl, degraded), eli, now).at = bgbl
BY DEF BGBLEvidence, EffectiveBGBlFeedTime, TimestampFresh

LEMMA SourcesAreKeys == Sources \subseteq MetaKeys
BY DEF MetaKeys

-----------------------------------------------------------------------------
(* Type correctness.                                                        *)

LEMMA IdleTypes == IdleRun \in RunState /\ IdleEval \in EvalState /\ NoRecord \in Record
<1>1. NoTime \in Time
  BY SyncMetaAssumption DEF Time
<1>2. NothingRead \in [MetaKeys -> Time]
  BY <1>1 DEF NothingRead
<1>3. QED
  BY <1>1, <1>2 DEF IdleRun, RunState, IdleEval, EvalState, NoRecord, Record

(* Either way an evaluation gathers laws, it goes on with a list of them.   *)
LEMMA GatheredLaws ==
    ASSUME TypeOK, NEW e \in Evals, GatherLaws(e)
    PROVE  \E listed \in SUBSET Laws, now \in Time :
               eval' = [eval EXCEPT ![e].pc = "put", ![e].listed = listed,
                                    ![e].todo = listed, ![e].now = now]
<1> eval \in [Evals -> EvalState] /\ catalog \subseteq Laws /\ clock \in Time
  BY DEF TypeOK
<1>1. CASE eval' = [eval EXCEPT ![e].pc = "put", ![e].listed = catalog, ![e].todo = catalog]
  <2>1. eval' = [eval EXCEPT ![e].pc = "put", ![e].listed = catalog,
                             ![e].todo = catalog, ![e].now = eval[e].now]
    BY <1>1 DEF EvalState
  <2>2. eval[e].now \in Time
    BY DEF EvalState
  <2>3. QED
    BY <2>1, <2>2
<1>2. ASSUME NEW l \in catalog,
             eval' = [eval EXCEPT ![e].pc = "put", ![e].listed = {l}, ![e].todo = {l},
                                  ![e].now = clock]
      PROVE  \E listed \in SUBSET Laws, now \in Time :
                 eval' = [eval EXCEPT ![e].pc = "put", ![e].listed = listed,
                                      ![e].todo = listed, ![e].now = now]
  <2>1. {l} \in SUBSET Laws
    OBVIOUS
  <2>2. QED
    BY <1>2, <2>1
<1>3. QED
  BY <1>1, <1>2 DEF GatherLaws

LEMMA TypeInit == Init => TypeOK
<1> SUFFICES ASSUME Init PROVE TypeOK
  OBVIOUS
<1>1. 0..1 \subseteq Time /\ 1 \in Time \ {NoTime} /\ NoTime \in Time
  BY SyncMetaAssumption DEF Time
<1>2. meta \in [MetaKeys -> Time]
  BY <1>1, SyncMetaAssumption DEF Init
<1>3. succeeded \in [Sources -> SUBSET Time]
  BY <1>2, SourcesAreKeys DEF Init
<1>4. interrupts \in 0..MaxInterrupts
  BY SyncMetaAssumption DEF Init
<1>5. /\ feedOK \in BOOLEAN /\ sawFeedOK \subseteq Evals
      /\ catalog \subseteq Laws /\ covered \subseteq Laws /\ lost \subseteq Laws
  BY SyncMetaAssumption DEF Init
<1>6. QED
  BY <1>1, <1>2, <1>3, <1>4, <1>5, IdleTypes DEF Init, TypeOK

LEMMA TypeStep == TypeOK /\ [Next]_vars => TypeOK'
<1> SUFFICES ASSUME TypeOK, [Next]_vars PROVE TypeOK'
  OBVIOUS
<1> USE DEF TypeOK
<1>1. CASE Tick
  BY <1>1, SyncMetaAssumption DEF Tick, storeVars, history, Time
<1>2. CASE JumpBack
  BY <1>2, SyncMetaAssumption DEF JumpBack, storeVars, history, Time
<1>3. ASSUME NEW r \in Runs, RunStep(r)
      PROVE  TypeOK'
  <2> RunSource[r] \in Sources
    BY SyncMetaAssumption
  <2> run[r] \in RunState
    OBVIOUS
  <2> NoTime \in Time
    BY SyncMetaAssumption DEF Time
  <2>1. CASE Start(r)
    BY <2>1 DEF Start, storeVars, history, RunState
  <2>2. CASE Fail(r)
    BY <2>2, IdleTypes DEF Fail, storeVars, history
  <2>3. CASE FeedFails(r)
    BY <2>3 DEF FeedFails, storeVars, history, RunState
  <2>4. CASE MarkBGBlFeedDegraded(r)
    BY <2>4, IdleTypes DEF MarkBGBlFeedDegraded, passHistory, RunState
  <2>5. CASE Succeed(r)
    BY <2>5 DEF Succeed, storeVars, history, RunState
  <2>6. CASE ClearBGBlFeedDegraded(r)
    BY <2>6 DEF ClearBGBlFeedDegraded, passHistory, RunState
  <2>7. CASE CaptureTime(r)
    BY <2>7 DEF CaptureTime, storeVars, passHistory, RunState
  <2>8. CASE CompareStamp(r)
    BY <2>8, IdleTypes DEF CompareStamp, storeVars, history, RunState
  <2>9. CASE WriteStamp(r)
    BY <2>9, IdleTypes DEF WriteStamp, history, RunState
  <2>10. CASE StampWriteFails(r)
    <3>1. UNCHANGED <<clock, storeVars, eval, succeeded, passHistory>>
      BY <2>10 DEF StampWriteFails
    <3>2. interrupts' \in 0..MaxInterrupts
      BY <2>10, SyncMetaAssumption DEF StampWriteFails
    <3>3. run' \in [Runs -> RunState]
      BY <2>10, IdleTypes DEF StampWriteFails, RunState
    <3>4. feedOK' \in BOOLEAN /\ sawFeedOK' \subseteq Evals
      BY <2>10 DEF StampWriteFails
    <3>5. QED
      BY <3>1, <3>2, <3>3, <3>4 DEF storeVars, passHistory
  <2>11. QED
    BY <1>3, <2>1, <2>2, <2>3, <2>4, <2>5, <2>6, <2>7, <2>8, <2>9, <2>10 DEF RunStep
<1>4. ASSUME NEW e \in Evals, EvalStep(e) \/ AbandonPass(e)
      PROVE  TypeOK'
  <2> eval[e] \in EvalState
    OBVIOUS
  <2>1. CASE BeginEval(e)
    BY <2>1, IdleTypes DEF BeginEval, storeVars, passHistory, EvalState, ReadSteps
  <2>2. CASE ReadMeta(e)
    <3>1. ReadSteps \subseteq MetaKeys
      BY DEF ReadSteps, MetaKeys, Sources
    <3>2. AfterRead(eval[e].pc) \in ReadSteps \cup {"gathered"}
      BY <2>2 DEF ReadMeta, AfterRead, ReadSteps
    <3>3. QED
      BY <2>2, <3>1, <3>2 DEF ReadMeta, storeVars, history, EvalState
  <2>3. CASE GatherLaws(e)
    <3>1. UNCHANGED <<clock, storeVars, run, interrupts, history>>
      BY <2>3 DEF GatherLaws
    <3>2. ASSUME NEW listed \in SUBSET Laws, NEW now \in Time,
                 eval' = [eval EXCEPT ![e].pc = "put", ![e].listed = listed,
                                      ![e].todo = listed, ![e].now = now]
          PROVE  TypeOK'
      BY <3>1, <3>2 DEF storeVars, history, EvalState
    <3>3. QED
      BY <2>3, <3>2, GatheredLaws
  <2>4. ASSUME NEW l \in Laws, PutFreshness(e, l)
        PROVE  TypeOK'
    <3>1. eval' \in [Evals -> EvalState]
      BY <2>4 DEF PutFreshness, EvalState
    <3>2. records' \in [Laws -> Record]
      <4>1. PICK linked \in {{}, {NewerIssue}} :
               records' = [records EXCEPT ![l] =
                   [state |-> Evaluate(EvalInput(eval[e].seen, eval[e].now, linked)).state,
                    at |-> eval[e].now]]
        BY <2>4 DEF PutFreshness
      <4>2. Evaluate(EvalInput(eval[e].seen, eval[e].now, linked)).state \in States
        BY EvaluateState
      <4>3. QED
        BY <4>1, <4>2 DEF Record, EvalState
    <3>3. /\ UNCHANGED <<clock, meta, lastReconcile, catalog, run, interrupts,
                         succeeded, feedOK, sawFeedOK, covered>>
          /\ lost' \subseteq lost
      BY <2>4 DEF PutFreshness
    <3>4. QED
      BY <3>1, <3>2, <3>3
  <2>5. CASE EndEval(e)
    BY <2>5, IdleTypes DEF EndEval, EvalState
  <2>6. CASE AbandonPass(e)
    BY <2>6, IdleTypes, SyncMetaAssumption DEF AbandonPass, storeVars, history
  <2>7. QED
    BY <1>4, <2>1, <2>2, <2>3, <2>4, <2>5, <2>6 DEF EvalStep
<1>5. ASSUME NEW e \in Evals, NEW l \in Laws, PutFreshnessFails(e, l)
      PROVE  TypeOK'
  BY <1>5, SyncMetaAssumption DEF PutFreshnessFails, storeVars, EvalState
<1>6. CASE AddLaws
  BY <1>6 DEF AddLaws, history
<1>7. CASE Restart
  BY <1>7, IdleTypes, SyncMetaAssumption DEF Restart, storeVars, history
<1>8. CASE UNCHANGED vars
  BY <1>8 DEF vars
<1>9. QED
  BY <1>1, <1>2, <1>3, <1>4, <1>5, <1>6, <1>7, <1>8 DEF Next

(* The store, the jobs and the evaluations keep their types.                *)
THEOREM TypeCorrect == Spec => []TypeOK
BY TypeInit, TypeStep, PTL DEF Spec

-----------------------------------------------------------------------------
(* CurrentIsBacked.  The property alone is not inductive: what an           *)
(* evaluation concludes depends on the stamps it has read, these on what    *)
(* was written, and that on the times the jobs took along.  None of them is *)
(* ever anything but the time of a real success.                            *)

StampsAreSuccesses ==
    \A s \in Sources : meta[s] # NoTime => meta[s] \in succeeded[s]

TakenAreSuccesses ==
    \A r \in Runs : run[r].pc \in {"compare", "write"} => run[r].at \in succeeded[RunSource[r]]

SeenAreSuccesses ==
    \A e \in Evals, s \in Sources :
        eval[e].seen[s] # NoTime => eval[e].seen[s] \in succeeded[s]

BackedInv ==
    TypeOK /\ StampsAreSuccesses /\ TakenAreSuccesses /\ SeenAreSuccesses /\ CurrentIsBacked

(* What one evaluation concludes: confirmed_current needs three stamps that *)
(* were seen, are fresh, and the BGBl one is the feed's.                    *)
LEMMA CurrentIsSeen ==
    ASSUME NEW seen, NEW now, NEW linked, NEW s \in Required,
           Evaluate(EvalInput(seen, now, linked)).state = "confirmed_current"
    PROVE  TimestampFresh(seen[s], now)
<1> DEFINE in == EvalInput(seen, now, linked)
<1>1. SyncWithinMaxAge(in) /\ ~in.probeOnly
  BY CurrentNeedsSync
<1>2. in.now = now /\ in.toc = seen["toc"] /\ in.gii = seen["gii"]
  BY DEF EvalInput
<1>3. /\ in.bgbl = BGBLEvidence(EffectiveBGBlFeedTime(seen["bgbl"], seen["degraded"]),
                                seen["eli"], now).at
      /\ in.probeOnly = BGBLEvidence(EffectiveBGBlFeedTime(seen["bgbl"], seen["degraded"]),
                                     seen["eli"], now).probeOnly
  BY DEF EvalInput
<1>4. \A ts \in {in.toc, in.gii, in.bgbl} : TimestampFresh(ts, now)
  BY <1>1, <1>2 DEF SyncWithinMaxAge
<1>5. in.bgbl # NoTime
  BY <1>4 DEF TimestampFresh
<1>6. in.bgbl = seen["bgbl"]
  BY <1>1, <1>3, <1>5, FeedEvidence
<1>7. QED
  BY <1>2, <1>4, <1>6 DEF Required

LEMMA BackedInit == Init => BackedInv
<1> SUFFICES ASSUME Init PROVE BackedInv
  OBVIOUS
<1>1. TypeOK
  BY TypeInit
<1>2. StampsAreSuccesses
  BY DEF Init, StampsAreSuccesses
<1>3. TakenAreSuccesses
  BY DEF Init, TakenAreSuccesses, IdleRun
<1>4. SeenAreSuccesses
  BY SourcesAreKeys DEF Init, SeenAreSuccesses, IdleEval, NothingRead
<1>5. CurrentIsBacked
  BY DEF Init, CurrentIsBacked, NoRecord
<1>6. QED
  BY <1>1, <1>2, <1>3, <1>4, <1>5 DEF BackedInv

(* A step that leaves the stamps, jobs, evaluations and records alone.      *)
LEMMA BackedStutter ==
    ASSUME BackedInv, UNCHANGED <<meta, run, eval, records, succeeded>>
    PROVE  StampsAreSuccesses' /\ TakenAreSuccesses' /\ SeenAreSuccesses' /\ CurrentIsBacked'
BY DEF BackedInv, StampsAreSuccesses, TakenAreSuccesses, SeenAreSuccesses, CurrentIsBacked

(* Jobs: whatever they write was timed when they succeeded.                 *)
LEMMA BackedRunStep ==
    ASSUME BackedInv, NEW r \in Runs, RunStep(r)
    PROVE  StampsAreSuccesses' /\ TakenAreSuccesses' /\ SeenAreSuccesses' /\ CurrentIsBacked'
<1> TypeOK /\ RunSource[r] \in Sources /\ run \in [Runs -> RunState] /\ meta \in [MetaKeys -> Time]
  BY SyncMetaAssumption DEF BackedInv, TypeOK
<1> USE SourcesAreKeys
<1>1. ASSUME UNCHANGED <<meta, eval, records, succeeded>>,
             \A q \in Runs : run'[q].pc \in {"compare", "write"}
                               => run[q].pc \in {"compare", "write"} /\ run'[q].at = run[q].at
      PROVE  StampsAreSuccesses' /\ TakenAreSuccesses' /\ SeenAreSuccesses' /\ CurrentIsBacked'
  BY <1>1 DEF BackedInv, StampsAreSuccesses, TakenAreSuccesses, SeenAreSuccesses, CurrentIsBacked
<1>2. CASE Start(r) \/ Fail(r) \/ FeedFails(r) \/ Succeed(r)
  BY <1>1, <1>2 DEF Start, Fail, FeedFails, Succeed, storeVars, history, IdleRun, RunState
<1>3. CASE MarkBGBlFeedDegraded(r) \/ ClearBGBlFeedDegraded(r)
  <2>1. \A s \in Sources : meta'[s] = meta[s]
    BY <1>3 DEF MarkBGBlFeedDegraded, ClearBGBlFeedDegraded, Sources, MetaKeys
  <2>2. \A q \in Runs : run'[q].pc \in {"compare", "write"}
                          => run[q].pc \in {"compare", "write"} /\ run'[q].at = run[q].at
    BY <1>3 DEF MarkBGBlFeedDegraded, ClearBGBlFeedDegraded, IdleRun, RunState
  <2>3. UNCHANGED <<eval, records, succeeded>>
    BY <1>3 DEF MarkBGBlFeedDegraded, ClearBGBlFeedDegraded
  <2>4. QED
    BY <2>1, <2>2, <2>3
    DEF BackedInv, StampsAreSuccesses, TakenAreSuccesses, SeenAreSuccesses, CurrentIsBacked
<1>4. CASE CaptureTime(r)
  <2>1. succeeded' = [succeeded EXCEPT ![RunSource[r]] = @ \cup {clock}]
    BY <1>4 DEF CaptureTime
  <2>2. \A s \in Sources : succeeded[s] \subseteq succeeded'[s]
    BY <2>1 DEF TypeOK
  <2>3. clock \in succeeded'[RunSource[r]]
    BY <2>1 DEF TypeOK
  <2>4. run' = [run EXCEPT ![r] = [pc |-> "compare", at |-> clock]]
        /\ UNCHANGED <<meta, eval, records>>
    BY <1>4 DEF CaptureTime, storeVars
  <2>5. StampsAreSuccesses' /\ SeenAreSuccesses'
    BY <2>2, <2>4 DEF BackedInv, StampsAreSuccesses, SeenAreSuccesses
  <2>6. TakenAreSuccesses'
    BY <2>2, <2>3, <2>4, SyncMetaAssumption DEF BackedInv, TakenAreSuccesses
  <2>7. CurrentIsBacked'
    BY <2>2, <2>4 DEF BackedInv, CurrentIsBacked, Required, Sources
  <2>8. QED
    BY <2>5, <2>6, <2>7
<1>5. CASE CompareStamp(r)
  BY <1>1, <1>5 DEF CompareStamp, storeVars, history, IdleRun, RunState
<1>6. CASE WriteStamp(r)
  <2>1. run[r].at \in succeeded[RunSource[r]]
    BY <1>6 DEF WriteStamp, BackedInv, TakenAreSuccesses
  <2>2. meta' = [meta EXCEPT ![RunSource[r]] = run[r].at] /\ run' = [run EXCEPT ![r] = IdleRun]
        /\ UNCHANGED <<eval, records, succeeded>>
    BY <1>6 DEF WriteStamp, history
  <2>3. StampsAreSuccesses'
    BY <2>1, <2>2 DEF BackedInv, StampsAreSuccesses
  <2>4. TakenAreSuccesses' /\ SeenAreSuccesses' /\ CurrentIsBacked'
    BY <2>2 DEF BackedInv, TakenAreSuccesses, SeenAreSuccesses, CurrentIsBacked, IdleRun
  <2>5. QED
    BY <2>3, <2>4
<1>7. CASE StampWriteFails(r)
  BY <1>1, <1>7 DEF StampWriteFails, storeVars, IdleRun, RunState
<1>8. QED
  BY <1>2, <1>3, <1>4, <1>5, <1>6, <1>7 DEF RunStep

(* Evaluations: what they have seen was stamped, what they conclude is seen.*)
LEMMA BackedEvalStep ==
    ASSUME BackedInv, NEW e \in Evals, EvalStep(e) \/ AbandonPass(e)
    PROVE  StampsAreSuccesses' /\ TakenAreSuccesses' /\ SeenAreSuccesses' /\ CurrentIsBacked'
<1> TypeOK /\ eval \in [Evals -> EvalState] /\ records \in [Laws -> Record]
  BY DEF BackedInv, TypeOK
<1> USE SourcesAreKeys
<1>1. ASSUME UNCHANGED <<meta, run, records, succeeded>>,
             \A f \in Evals, s \in Sources : eval'[f].seen[s] \in {eval[f].seen[s], NoTime, meta[s]}
      PROVE  StampsAreSuccesses' /\ TakenAreSuccesses' /\ SeenAreSuccesses' /\ CurrentIsBacked'
  BY <1>1 DEF BackedInv, StampsAreSuccesses, TakenAreSuccesses, SeenAreSuccesses, CurrentIsBacked
<1>2. CASE BeginEval(e)
  BY <1>1, <1>2 DEF BeginEval, storeVars, IdleEval, NothingRead, EvalState
<1>3. CASE ReadMeta(e)
  <2>1. UNCHANGED <<meta, run, records, succeeded>>
    BY <1>3 DEF ReadMeta, storeVars, history
  <2>2. eval' = [eval EXCEPT ![e].seen[eval[e].pc] = meta[eval[e].pc], ![e].pc = AfterRead(eval[e].pc)]
    BY <1>3 DEF ReadMeta
  <2>3. \A f \in Evals, s \in Sources : eval'[f].seen[s] \in {eval[f].seen[s], meta[s]}
    BY <2>2 DEF EvalState
  <2>4. QED
    BY <1>1, <2>1, <2>3
<1>4. CASE GatherLaws(e)
  <2>1. UNCHANGED <<meta, run, records, succeeded>>
    BY <1>4 DEF GatherLaws, storeVars, history
  <2>2. \A f \in Evals : eval'[f].seen = eval[f].seen
    <3>1. PICK listed \in SUBSET Laws, now \in Time :
              eval' = [eval EXCEPT ![e].pc = "put", ![e].listed = listed,
                                   ![e].todo = listed, ![e].now = now]
      BY <1>4, GatheredLaws
    <3>2. QED
      BY <3>1 DEF EvalState
  <2>3. QED
    BY <1>1, <2>1, <2>2
<1>5. ASSUME NEW l \in Laws, PutFreshness(e, l)
      PROVE  StampsAreSuccesses' /\ TakenAreSuccesses' /\ SeenAreSuccesses' /\ CurrentIsBacked'
  <2>1. PICK linked \in {{}, {NewerIssue}} :
          records' = [records EXCEPT ![l] =
              [state |-> Evaluate(EvalInput(eval[e].seen, eval[e].now, linked)).state,
               at |-> eval[e].now]]
    BY <1>5 DEF PutFreshness
  <2>2. UNCHANGED <<meta, run, succeeded>> /\ eval' = [eval EXCEPT ![e].todo = @ \ {l}]
    BY <1>5 DEF PutFreshness
  <2>3. StampsAreSuccesses' /\ TakenAreSuccesses' /\ SeenAreSuccesses'
    BY <2>2 DEF BackedInv, StampsAreSuccesses, TakenAreSuccesses, SeenAreSuccesses, EvalState
  <2>4. CurrentIsBacked'
    <3> SUFFICES ASSUME NEW k \in Laws, records'[k].state = "confirmed_current",
                        NEW s \in Required
                 PROVE  \E t \in succeeded[s] :
                            t <= records'[k].at + Tolerance /\ records'[k].at - t <= MaxAge
      BY <2>2 DEF CurrentIsBacked
    <3>1. CASE k # l
      BY <3>1, <2>1 DEF BackedInv, CurrentIsBacked
    <3>2. CASE k = l
      <4>1. TimestampFresh(eval[e].seen[s], eval[e].now)
        BY <3>2, <2>1, CurrentIsSeen
      <4>2. eval[e].seen[s] \in succeeded[s]
        BY <4>1 DEF TimestampFresh, BackedInv, SeenAreSuccesses, Required, Sources
      <4>3. records'[k].at = eval[e].now
        BY <3>2, <2>1
      <4>4. QED
        BY <4>1, <4>2, <4>3 DEF TimestampFresh
    <3>3. QED
      BY <3>1, <3>2
  <2>5. QED
    BY <2>3, <2>4
<1>6. CASE EndEval(e) \/ AbandonPass(e)
  BY <1>1, <1>6 DEF EndEval, AbandonPass, storeVars, history, IdleEval, NothingRead, EvalState
<1>7. QED
  BY <1>2, <1>3, <1>4, <1>5, <1>6 DEF EvalStep

LEMMA BackedStep == BackedInv /\ [Next]_vars => BackedInv'
<1> SUFFICES ASSUME BackedInv, [Next]_vars PROVE BackedInv'
  OBVIOUS
<1>1. TypeOK'
  BY TypeStep DEF BackedInv
<1>2. CASE Tick \/ JumpBack
  BY <1>1, <1>2, BackedStutter DEF Tick, JumpBack, storeVars, history, BackedInv
<1>3. ASSUME NEW r \in Runs, RunStep(r) PROVE BackedInv'
  BY <1>1, <1>3, BackedRunStep DEF BackedInv
<1>4. ASSUME NEW e \in Evals, EvalStep(e) \/ AbandonPass(e) PROVE BackedInv'
  BY <1>1, <1>4, BackedEvalStep DEF BackedInv
<1>5. ASSUME NEW e \in Evals, NEW l \in Laws, PutFreshnessFails(e, l) PROVE BackedInv'
  <2>1. UNCHANGED <<meta, run, records, succeeded>> /\ eval' = [eval EXCEPT ![e].todo = @ \ {l}]
    BY <1>5 DEF PutFreshnessFails, storeVars
  <2>2. \A f \in Evals : eval'[f].seen = eval[f].seen
    BY <2>1 DEF BackedInv, TypeOK, EvalState
  <2>3. QED
    BY <1>1, <2>1, <2>2
    DEF BackedInv, StampsAreSuccesses, TakenAreSuccesses, SeenAreSuccesses, CurrentIsBacked
<1>6. CASE Restart
  BY <1>1, <1>6, SourcesAreKeys
  DEF Restart, storeVars, history, BackedInv, StampsAreSuccesses, TakenAreSuccesses,
      SeenAreSuccesses, CurrentIsBacked, IdleRun, IdleEval, NothingRead
<1>7. CASE AddLaws \/ UNCHANGED vars
  BY <1>1, <1>7, BackedStutter DEF AddLaws, history, vars, BackedInv
<1>8. QED
  BY <1>2, <1>3, <1>4, <1>5, <1>6, <1>7 DEF Next

(* A stored confirmed_current is backed by a real, recent success of every  *)
(* required source: for any number of jobs per source, any interleaving of  *)
(* their transactions, restarts, failed writes, and a clock that may jump.  *)
THEOREM CurrentBacked == Spec => []CurrentIsBacked
<1>1. BackedInv => CurrentIsBacked
  BY DEF BackedInv
<1>2. QED
  BY <1>1, BackedInit, BackedStep, PTL DEF Spec

-----------------------------------------------------------------------------
(* StampsNeverMoveBackwards, when no two goroutines sync the same source:   *)
(* of two that do, one may write between the other's comparison and its     *)
(* write.                                                                   *)

OneRunPerSource == \A q, r \in Runs : RunSource[q] = RunSource[r] => q = r

(* A job about to write its stamp has a time no earlier than the stored one.*)
WritesAreLater ==
    \A r \in Runs : run[r].pc = "write" => meta[RunSource[r]] <= run[r].at

LEMMA WritesInit == Init => WritesAreLater
BY DEF Init, WritesAreLater, IdleRun

LEMMA WritesStep ==
    ASSUME OneRunPerSource, TypeOK, WritesAreLater, [Next]_vars
    PROVE  WritesAreLater'
<1> USE SourcesAreKeys, SyncMetaAssumption
<1> run \in [Runs -> RunState] /\ meta \in [MetaKeys -> Time] /\ RunSource \in [Runs -> Sources]
  BY DEF TypeOK
<1>1. ASSUME \A q \in Runs : run'[q].pc = "write" => run[q].pc = "write" /\ run'[q].at = run[q].at,
             \A s \in Sources : meta'[s] = meta[s]
      PROVE  WritesAreLater'
  BY <1>1 DEF WritesAreLater
<1>2. CASE UNCHANGED <<meta, run>>
  BY <1>1, <1>2
<1>3. ASSUME NEW r \in Runs, RunStep(r)
      PROVE  WritesAreLater'
  <2>1. CASE Start(r) \/ Fail(r) \/ FeedFails(r) \/ Succeed(r)
    BY <1>1, <2>1 DEF Start, Fail, FeedFails, Succeed, storeVars, IdleRun, RunState
  <2>2. CASE MarkBGBlFeedDegraded(r) \/ ClearBGBlFeedDegraded(r)
    <3>1. \A s \in Sources : meta'[s] = meta[s]
      BY <2>2 DEF MarkBGBlFeedDegraded, ClearBGBlFeedDegraded, Sources, MetaKeys
    <3>2. QED
      BY <1>1, <2>2, <3>1 DEF MarkBGBlFeedDegraded, ClearBGBlFeedDegraded, IdleRun, RunState
  <2>3. CASE CaptureTime(r)
    BY <1>1, <2>3 DEF CaptureTime, storeVars, RunState
  <2>4. CASE CompareStamp(r)
    <3>1. meta' = meta /\ run' = [run EXCEPT ![r] = IF meta[RunSource[r]] > run[r].at
                                                   THEN IdleRun
                                                   ELSE [run[r] EXCEPT !.pc = "write"]]
      BY <2>4 DEF CompareStamp, storeVars
    <3>2. meta[RunSource[r]] \in Time /\ run[r].at \in Time
      BY DEF RunState
    <3>3. QED
      BY <3>1, <3>2 DEF WritesAreLater, IdleRun, RunState, Time
  <2>5. CASE WriteStamp(r)
    BY <2>5 DEF WriteStamp, OneRunPerSource, WritesAreLater, IdleRun, RunState
  <2>6. CASE StampWriteFails(r)
    BY <1>1, <2>6 DEF StampWriteFails, storeVars, IdleRun, RunState
  <2>7. QED
    BY <1>3, <2>1, <2>2, <2>3, <2>4, <2>5, <2>6 DEF RunStep
<1>4. ASSUME NEW e \in Evals, EvalStep(e) \/ AbandonPass(e)
      PROVE  WritesAreLater'
  <2>1. UNCHANGED <<meta, run>>
    <3>1. ASSUME NEW l \in Laws, PutFreshness(e, l) PROVE UNCHANGED <<meta, run>>
      BY <3>1 DEF PutFreshness
    <3>2. CASE GatherLaws(e)
      BY <3>2 DEF GatherLaws, storeVars
    <3>3. QED
      BY <1>4, <3>1, <3>2 DEF EvalStep, BeginEval, ReadMeta, EndEval, AbandonPass, storeVars
  <2>2. QED
    BY <1>2, <2>1
<1>5. CASE Restart
  BY <1>1, <1>5 DEF Restart, storeVars, IdleRun
<1>6. CASE Tick \/ JumpBack \/ AddLaws \/ (\E e \in Evals, l \in Laws : PutFreshnessFails(e, l))
  BY <1>2, <1>6 DEF Tick, JumpBack, AddLaws, PutFreshnessFails, storeVars
<1>7. CASE UNCHANGED vars
  BY <1>2, <1>7 DEF vars
<1>8. QED
  BY <1>3, <1>4, <1>5, <1>6, <1>7 DEF Next

(* No step lowers a stamp.                                                  *)
LEMMA StampsStep ==
    ASSUME TypeOK, WritesAreLater, [Next]_vars
    PROVE  \A s \in Sources : meta'[s] >= meta[s]
<1> USE SourcesAreKeys, SyncMetaAssumption
<1> run \in [Runs -> RunState] /\ meta \in [MetaKeys -> Time] /\ RunSource \in [Runs -> Sources]
  BY DEF TypeOK
<1>1. CASE \A s \in Sources : meta'[s] = meta[s]
  BY <1>1 DEF Time
<1>2. ASSUME NEW r \in Runs, WriteStamp(r)
      PROVE  \A s \in Sources : meta'[s] >= meta[s]
  <2>1. meta' = [meta EXCEPT ![RunSource[r]] = run[r].at] /\ meta[RunSource[r]] <= run[r].at
    BY <1>2 DEF WriteStamp, WritesAreLater
  <2>2. QED
    BY <2>1 DEF Time, RunState
<1>3. ASSUME NEW r \in Runs, RunStep(r), ~WriteStamp(r)
      PROVE  \A s \in Sources : meta'[s] = meta[s]
  BY <1>3 DEF RunStep, Start, Fail, FeedFails, Succeed, MarkBGBlFeedDegraded,
     ClearBGBlFeedDegraded, CaptureTime, CompareStamp, StampWriteFails, storeVars, Sources, MetaKeys
<1>4. ASSUME NEW e \in Evals, EvalStep(e) \/ AbandonPass(e)
      PROVE  meta' = meta
  <2>1. ASSUME NEW l \in Laws, PutFreshness(e, l) PROVE meta' = meta
    BY <2>1 DEF PutFreshness
  <2>2. CASE GatherLaws(e)
    BY <2>2 DEF GatherLaws, storeVars
  <2>3. QED
    BY <1>4, <2>1, <2>2 DEF EvalStep, BeginEval, ReadMeta, EndEval, AbandonPass, storeVars
<1>5. CASE Tick \/ JumpBack \/ Restart \/ AddLaws \/ UNCHANGED vars
  BY <1>1, <1>5 DEF Tick, JumpBack, Restart, AddLaws, storeVars, vars
<1>6. ASSUME NEW e \in Evals, NEW l \in Laws, PutFreshnessFails(e, l)
      PROVE  meta' = meta
  BY <1>6 DEF PutFreshnessFails, storeVars
<1>7. QED
  BY <1>1, <1>2, <1>3, <1>4, <1>5, <1>6 DEF Next

(* With one goroutine per source, meta.go:27-31 keeps every success stamp   *)
(* from moving backwards, whatever the wall clock does.                     *)
THEOREM StampsMonotone ==
    ASSUME OneRunPerSource
    PROVE  Spec => StampsNeverMoveBackwards
<1>1. Init => TypeOK /\ WritesAreLater
  BY TypeInit, WritesInit
<1>2. TypeOK /\ WritesAreLater /\ [Next]_vars => (TypeOK /\ WritesAreLater)'
  BY TypeStep, WritesStep
<1>3. TypeOK /\ WritesAreLater /\ [Next]_vars
        => [\A s \in Sources : meta'[s] >= meta[s]]_meta
  BY StampsStep
<1>4. QED
  BY <1>1, <1>2, <1>3, PTL DEF Spec, StampsNeverMoveBackwards

-----------------------------------------------------------------------------
(* ReconcileCoversAll: a pass has dealt with every law of its list that is  *)
(* not left to do.                                                          *)

Dealt(l) == records[l] # NoRecord \/ l \in lost

PassCovers ==
    \A e \in Evals : eval[e].pc = "put" =>
        \A l \in eval[e].listed \ eval[e].todo : Dealt(l)

CoverInv == TypeOK /\ PassCovers /\ ReconcileCoversAll

LEMMA CoverInit == Init => CoverInv
BY TypeInit DEF Init, CoverInv, PassCovers, ReconcileCoversAll, IdleEval

(* No record is ever taken away, and a lost one is only forgotten when the  *)
(* law gets a record: what was dealt with stays dealt with.                 *)
LEMMA CoverKept ==
    ASSUME CoverInv, covered' = covered,
           \A l \in Laws : Dealt(l) => Dealt(l)',
           \A f \in Evals : eval'[f].pc = "put" =>
               /\ eval'[f].listed \subseteq Laws
               /\ \/ eval'[f].todo = eval'[f].listed
                  \/ /\ eval[f].pc = "put" /\ eval'[f].listed = eval[f].listed
                     /\ \A l \in eval[f].todo \ eval'[f].todo : Dealt(l)'
    PROVE  PassCovers' /\ ReconcileCoversAll'
<1>1. ReconcileCoversAll'
  BY DEF CoverInv, TypeOK, ReconcileCoversAll, Dealt
<1>2. PassCovers'
  BY DEF CoverInv, PassCovers, Dealt
<1>3. QED
  BY <1>1, <1>2

LEMMA CoverStep == CoverInv /\ [Next]_vars => CoverInv'
<1> SUFFICES ASSUME CoverInv, [Next]_vars PROVE CoverInv'
  OBVIOUS
<1>1. TypeOK'
  BY TypeStep DEF CoverInv
<1> TypeOK /\ eval \in [Evals -> EvalState] /\ \A f \in Evals : eval[f].listed \subseteq Laws
  BY DEF CoverInv, TypeOK, EvalState
<1>2. CASE UNCHANGED <<records, lost, covered, eval>>
  BY <1>1, <1>2, CoverKept DEF CoverInv, Dealt
<1>3. ASSUME NEW r \in Runs, RunStep(r)
      PROVE  UNCHANGED <<records, lost, covered, eval>>
  BY <1>3 DEF RunStep, Start, Fail, FeedFails, MarkBGBlFeedDegraded, Succeed,
     ClearBGBlFeedDegraded, CaptureTime, CompareStamp, WriteStamp, StampWriteFails,
     storeVars, history, passHistory
<1>4. ASSUME NEW e \in Evals, BeginEval(e) \/ ReadMeta(e) \/ AbandonPass(e)
      PROVE  CoverInv'
  <2>1. UNCHANGED <<records, lost, covered>>
    BY <1>4 DEF BeginEval, ReadMeta, AbandonPass, storeVars, history, passHistory
  <2>2. \A f \in Evals : eval'[f].pc = "put" => eval'[f] = eval[f]
    <3>1. CASE BeginEval(e)
      BY <3>1, IdleTypes DEF BeginEval, EvalState
    <3>2. CASE ReadMeta(e)
      <4>1. AfterRead(eval[e].pc) # "put"
        BY <3>2 DEF ReadMeta, AfterRead, ReadSteps
      <4>2. QED
        BY <3>2, <4>1 DEF ReadMeta, EvalState
    <3>3. CASE AbandonPass(e)
      BY <3>3 DEF AbandonPass, IdleEval
    <3>4. QED
      BY <1>4, <3>1, <3>2, <3>3
  <2>3. QED
    BY <1>1, <2>1, <2>2, CoverKept DEF CoverInv, Dealt
<1>5. ASSUME NEW e \in Evals, GatherLaws(e)
      PROVE  CoverInv'
  <2>1. UNCHANGED <<records, lost, covered>>
    BY <1>5 DEF GatherLaws, storeVars, history
  <2>2. PICK listed \in SUBSET Laws, now \in Time :
            eval' = [eval EXCEPT ![e].pc = "put", ![e].listed = listed,
                                 ![e].todo = listed, ![e].now = now]
    BY <1>5, GatheredLaws
  <2>3. eval'[e].todo = eval'[e].listed /\ \A f \in Evals : f # e => eval'[f] = eval[f]
    BY <2>2 DEF EvalState
  <2>4. \A f \in Evals : eval'[f].listed \subseteq Laws
    BY <1>1 DEF TypeOK, EvalState
  <2>5. QED
    BY <1>1, <2>1, <2>3, <2>4, CoverKept DEF CoverInv, Dealt
<1>6. ASSUME NEW e \in Evals, NEW l \in Laws, PutFreshness(e, l) \/ PutFreshnessFails(e, l)
      PROVE  CoverInv'
  <2>1. covered' = covered /\ eval' = [eval EXCEPT ![e].todo = @ \ {l}]
    BY <1>6 DEF PutFreshness, PutFreshnessFails
  <2>2. Dealt(l)' /\ \A k \in Laws : Dealt(k) => Dealt(k)'
    <3>1. CASE PutFreshness(e, l)
      <4>1. PICK linked \in {{}, {NewerIssue}} :
              records' = [records EXCEPT ![l] =
                  [state |-> Evaluate(EvalInput(eval[e].seen, eval[e].now, linked)).state,
                   at |-> eval[e].now]]
        BY <3>1 DEF PutFreshness
      <4>2. records'[l].state \in States
        BY <4>1, EvaluateState DEF TypeOK
      <4>3. records'[l] # NoRecord
        BY <4>2 DEF NoRecord, States
      <4>4. \A k \in Laws : k # l => records'[k] = records[k]
        BY <4>1 DEF TypeOK
      <4>5. lost' = lost \ {l}
        BY <3>1 DEF PutFreshness
      <4>6. QED
        BY <4>3, <4>4, <4>5 DEF Dealt
    <3>2. CASE PutFreshnessFails(e, l)
      BY <3>2 DEF PutFreshnessFails, storeVars, Dealt
    <3>3. QED
      BY <1>6, <3>1, <3>2
  <2>3. /\ \A f \in Evals : f # e => eval'[f] = eval[f]
        /\ eval'[e].pc = eval[e].pc /\ eval'[e].listed = eval[e].listed
        /\ eval'[e].todo = eval[e].todo \ {l}
    BY <2>1 DEF EvalState
  <2>4. QED
    BY <1>1, <2>1, <2>2, <2>3, CoverKept DEF CoverInv
<1>7. ASSUME NEW e \in Evals, EndEval(e)
      PROVE  CoverInv'
  <2>1. /\ eval[e].pc = "put" /\ eval[e].todo = {} /\ UNCHANGED <<records, lost>>
        /\ covered' = covered \/ covered' = covered \cup eval[e].listed
        /\ eval' = [eval EXCEPT ![e] = IdleEval]
    BY <1>7 DEF EndEval
  <2>2. \A l \in eval[e].listed : Dealt(l)
    BY <2>1 DEF CoverInv, PassCovers
  <2>3. PassCovers' /\ ReconcileCoversAll'
    BY <2>1, <2>2 DEF CoverInv, PassCovers, ReconcileCoversAll, Dealt, IdleEval
  <2>4. QED
    BY <1>1, <2>3 DEF CoverInv
<1>8. CASE Restart
  BY <1>1, <1>8, CoverKept DEF Restart, storeVars, history, CoverInv, IdleEval, Dealt
<1>9. CASE Tick \/ JumpBack \/ AddLaws \/ UNCHANGED vars
  BY <1>2, <1>9 DEF Tick, JumpBack, AddLaws, storeVars, history, vars
<1>10. QED
  BY <1>2, <1>3, <1>4, <1>5, <1>6, <1>7, <1>8, <1>9 DEF Next, EvalStep

(* last_reconcile_at speaks for every law that the stamped pass listed: it  *)
(* has a record, or the last write of one failed and went unnoticed         *)
(* (orchestrator.go:581); however passes are abandoned, overlap with        *)
(* requests or are cut off, and whatever laws come in meanwhile.            *)
THEOREM ReconcileCovers == Spec => []ReconcileCoversAll
<1>1. CoverInv => ReconcileCoversAll
  BY DEF CoverInv
<1>2. QED
  BY <1>1, CoverInit, CoverStep, PTL DEF Spec

-----------------------------------------------------------------------------
(* FailedFeedBlocksCurrent, when the clock is not set back and no two       *)
(* goroutines sync the BGBl feeds.  Both are needed: after a jump the       *)
(* marker may be older than the stamp, and a second goroutine may write the *)
(* stamp of an earlier success after the marker.                            *)

FeedAlone == ~MayJumpBack /\ \A q, r \in Runs : RunSource[q] = "bgbl" /\ RunSource[r] = "bgbl" => q = r

FeedUnusable(bgbl, degraded) == EffectiveBGBlFeedTime(bgbl, degraded) = NoTime

(* The run of the feeds: its failure is later than the stamp, and the stamp *)
(* it writes is of a success that nothing followed.                         *)
FeedRunInTime ==
    /\ meta["bgbl"] <= clock
    /\ \A r \in Runs : run[r].pc \in {"degrade", "clear"} => RunSource[r] = "bgbl"
    /\ \A r \in Runs : RunSource[r] = "bgbl" =>
           /\ run[r].pc # "idle" => run[r].at <= clock
           /\ run[r].pc = "fetch" => meta["bgbl"] <= run[r].at
           /\ run[r].pc = "degrade" => meta["bgbl"] < run[r].at
           /\ run[r].pc \in {"capture", "compare", "write"} => feedOK

FailureIsStored == ~feedOK => FeedUnusable(meta["bgbl"], meta["degraded"])

(* An evaluation that never saw the feeds in order has read, or will read,  *)
(* a stamp and a marker that is newer.                                      *)
FailureIsSeen ==
    \A e \in Evals \ sawFeedOK :
        /\ eval[e].pc # "idle" => ~feedOK
        /\ eval[e].pc = "degraded" => eval[e].seen["bgbl"] = meta["bgbl"]
        /\ eval[e].pc \in {"eli", "gathered", "put"} =>
               FeedUnusable(eval[e].seen["bgbl"], eval[e].seen["degraded"])

FailureInv == TypeOK /\ FeedRunInTime /\ FailureIsStored /\ FailureIsSeen

(* Without a usable feed stamp there is no conclusion that a law is current.*)
LEMMA UnusableBlocks ==
    ASSUME NEW seen, NEW now, NEW linked, FeedUnusable(seen["bgbl"], seen["degraded"])
    PROVE  Evaluate(EvalInput(seen, now, linked)).state # "confirmed_current"
<1> SUFFICES ASSUME Evaluate(EvalInput(seen, now, linked)).state = "confirmed_current"
             PROVE  FALSE
  OBVIOUS
<1>1. "bgbl" \in Required
  BY DEF Required
<1> DEFINE in == EvalInput(seen, now, linked)
           ev == BGBLEvidence(EffectiveBGBlFeedTime(seen["bgbl"], seen["degraded"]), seen["eli"], now)
<1>2. SyncWithinMaxAge(in) /\ ~in.probeOnly
  BY CurrentNeedsSync
<1>3. in.bgbl = ev.at /\ in.probeOnly = ev.probeOnly /\ in.now = now
  BY DEF EvalInput
<1>4. ev.at # NoTime
  BY <1>2, <1>3 DEF SyncWithinMaxAge, TimestampFresh
<1>5. QED
  BY <1>2, <1>3, <1>4 DEF FeedUnusable, BGBLEvidence, TimestampFresh

LEMMA FailureInit == Init => FailureInv
<1> SUFFICES ASSUME Init PROVE FailureInv
  OBVIOUS
<1>1. TypeOK
  BY TypeInit
<1>2. meta \in [MetaKeys -> 0..1] /\ clock = 1
  BY SyncMetaAssumption DEF Init
<1>3. FeedRunInTime
  BY <1>2 DEF Init, FeedRunInTime, IdleRun, MetaKeys, Sources
<1>4. FailureIsStored /\ FailureIsSeen
  BY DEF Init, FailureIsStored, FailureIsSeen, FeedUnusable, IdleEval
<1>5. QED
  BY <1>1, <1>3, <1>4 DEF FailureInv

(* Steps of jobs.                                                           *)
LEMMA FailureRunStep ==
    ASSUME FeedAlone, FailureInv, NEW r \in Runs, RunStep(r)
    PROVE  FeedRunInTime' /\ FailureIsStored' /\ FailureIsSeen'
<1> /\ TypeOK /\ RunSource[r] \in Sources /\ run \in [Runs -> RunState]
    /\ meta \in [MetaKeys -> Time] /\ clock \in Nat /\ run[r].at \in Nat /\ meta["bgbl"] \in Nat
  BY SyncMetaAssumption DEF FailureInv, TypeOK, RunState, Time, MetaKeys, Sources
<1> eval' = eval /\ clock' = clock
  BY DEF RunStep, Start, Fail, FeedFails, MarkBGBlFeedDegraded, Succeed,
     ClearBGBlFeedDegraded, CaptureTime, CompareStamp, WriteStamp, StampWriteFails, storeVars
<1> \A q \in Runs : q # r /\ RunSource[r] = "bgbl" => RunSource[q] # "bgbl"
  BY DEF FeedAlone
<1>1. ASSUME UNCHANGED <<meta, feedOK, sawFeedOK>>
      PROVE  FailureIsStored' /\ FailureIsSeen'
  BY <1>1 DEF FailureInv, FailureIsStored, FailureIsSeen
<1>2. CASE Start(r)
  <2>1. run' = [run EXCEPT ![r] = [pc |-> "fetch", at |-> clock]]
        /\ UNCHANGED <<meta, feedOK, sawFeedOK>>
    BY <1>2 DEF Start, storeVars, history
  <2>2. QED
    BY <1>1, <2>1 DEF FailureInv, FeedRunInTime
<1>3. CASE Fail(r)
  <2>1. run' = [run EXCEPT ![r] = IdleRun] /\ UNCHANGED <<meta, feedOK, sawFeedOK>>
    BY <1>3 DEF Fail, storeVars, history
  <2>2. QED
    BY <1>1, <2>1 DEF FailureInv, FeedRunInTime, IdleRun
<1>4. CASE FeedFails(r)
  <2>1. run' = [run EXCEPT ![r] = [pc |-> "degrade", at |-> clock]]
        /\ UNCHANGED <<meta, feedOK, sawFeedOK>>
    BY <1>4 DEF FeedFails, storeVars, history
  <2>2. meta["bgbl"] < clock /\ RunSource[r] = "bgbl"
    BY <1>4 DEF FeedFails, Answered, FailureInv, FeedRunInTime
  <2>3. QED
    BY <1>1, <2>1, <2>2 DEF FailureInv, FeedRunInTime
<1>5. CASE MarkBGBlFeedDegraded(r)
  <2>1. /\ run[r].pc = "degrade" /\ meta' = [meta EXCEPT !["degraded"] = run[r].at]
        /\ run' = [run EXCEPT ![r] = IdleRun] /\ feedOK' = FALSE /\ sawFeedOK' = sawFeedOK
    BY <1>5 DEF MarkBGBlFeedDegraded
  <2>2. meta'["bgbl"] = meta["bgbl"] /\ meta'["degraded"] = run[r].at
    BY <2>1 DEF MetaKeys, Sources
  <2>3. RunSource[r] = "bgbl" /\ meta["bgbl"] < run[r].at
    BY <2>1 DEF FailureInv, FeedRunInTime
  <2>4. FeedRunInTime'
    BY <2>1, <2>2, <2>3 DEF FailureInv, FeedRunInTime, IdleRun
  <2>5. FeedUnusable(meta'["bgbl"], meta'["degraded"])
    BY <2>2, <2>3 DEF FeedUnusable, EffectiveBGBlFeedTime
  <2>6. FailureIsStored' /\ FailureIsSeen'
    BY <2>1, <2>2, <2>5 DEF FailureInv, FailureIsStored, FailureIsSeen
  <2>7. QED
    BY <2>4, <2>6
<1>6. CASE Succeed(r)
  <2>1. /\ run' = [run EXCEPT ![r].pc = IF RunSource[r] = "bgbl" THEN "clear" ELSE "capture"]
        /\ run[r].pc = "fetch" /\ UNCHANGED <<meta, feedOK, sawFeedOK>>
    BY <1>6 DEF Succeed, Answered, storeVars, history
  <2>2. \A q \in Runs : q # r => run'[q] = run[q]
    BY <2>1
  <2>3. /\ run'[r].at = run[r].at
        /\ run'[r].pc = IF RunSource[r] = "bgbl" THEN "clear" ELSE "capture"
    BY <2>1 DEF RunState
  <2>4. FeedRunInTime'
    BY <2>1, <2>2, <2>3 DEF FailureInv, FeedRunInTime
  <2>5. QED
    BY <1>1, <2>1, <2>4
<1>7. CASE ClearBGBlFeedDegraded(r)
  <2>1. /\ run[r].pc = "clear" /\ meta' = [meta EXCEPT !["degraded"] = NoTime]
        /\ run' = [run EXCEPT ![r].pc = "capture"] /\ feedOK' = TRUE /\ sawFeedOK' = Evals
    BY <1>7 DEF ClearBGBlFeedDegraded
  <2>2. meta'["bgbl"] = meta["bgbl"]
    BY <2>1 DEF MetaKeys, Sources
  <2>3. \A q \in Runs : q # r => run'[q] = run[q]
    BY <2>1
  <2>4. run'[r].at = run[r].at /\ run'[r].pc = "capture"
    BY <2>1 DEF RunState
  <2>5. FeedRunInTime'
    BY <2>1, <2>2, <2>3, <2>4 DEF FailureInv, FeedRunInTime
  <2>6. FailureIsStored' /\ FailureIsSeen'
    BY <2>1 DEF FailureIsStored, FailureIsSeen
  <2>7. QED
    BY <2>5, <2>6
<1>8. CASE CaptureTime(r)
  <2>1. /\ run[r].pc = "capture" /\ run' = [run EXCEPT ![r] = [pc |-> "compare", at |-> clock]]
        /\ UNCHANGED <<meta, feedOK, sawFeedOK>>
    BY <1>8 DEF CaptureTime, storeVars
  <2>2. QED
    BY <1>1, <2>1 DEF FailureInv, FeedRunInTime
<1>9. CASE CompareStamp(r)
  <2>1. /\ run[r].pc = "compare" /\ UNCHANGED <<meta, feedOK, sawFeedOK>>
        /\ run' = [run EXCEPT ![r] = IF meta[RunSource[r]] > run[r].at
                                     THEN IdleRun ELSE [run[r] EXCEPT !.pc = "write"]]
    BY <1>9 DEF CompareStamp, storeVars, history
  <2>2. \A q \in Runs : q # r => run'[q] = run[q]
    BY <2>1
  <2>3. run'[r] = IdleRun \/ (run'[r].at = run[r].at /\ run'[r].pc = "write")
    BY <2>1 DEF RunState
  <2>4. FeedRunInTime'
    BY <2>1, <2>2, <2>3 DEF FailureInv, FeedRunInTime, IdleRun
  <2>5. QED
    BY <1>1, <2>1, <2>4
<1>10. CASE WriteStamp(r)
  <2>1. /\ run[r].pc = "write" /\ meta' = [meta EXCEPT ![RunSource[r]] = run[r].at]
        /\ run' = [run EXCEPT ![r] = IdleRun] /\ UNCHANGED <<feedOK, sawFeedOK>>
    BY <1>10 DEF WriteStamp, history
  <2>2. CASE RunSource[r] = "bgbl"
    <3>1. feedOK /\ run[r].at <= clock
      BY <2>1, <2>2 DEF FailureInv, FeedRunInTime
    <3>2. FeedRunInTime'
      BY <2>1, <2>2, <3>1 DEF FailureInv, FeedRunInTime, IdleRun, MetaKeys, Sources
    <3>3. FailureIsStored' /\ FailureIsSeen'
      BY <2>1, <3>1 DEF FailureInv, FailureIsStored, FailureIsSeen
    <3>4. QED
      BY <3>2, <3>3
  <2>3. CASE RunSource[r] # "bgbl"
    <3>1. meta'["bgbl"] = meta["bgbl"] /\ meta'["degraded"] = meta["degraded"]
      BY <2>1, <2>3 DEF MetaKeys, Sources
    <3>2. FeedRunInTime'
      BY <2>1, <2>3, <3>1 DEF FailureInv, FeedRunInTime, IdleRun
    <3>3. FailureIsStored' /\ FailureIsSeen'
      BY <2>1, <3>1 DEF FailureInv, FailureIsStored, FailureIsSeen
    <3>4. QED
      BY <3>2, <3>3
  <2>4. QED
    BY <2>2, <2>3
<1>11. CASE StampWriteFails(r)
  <2>1. CASE run[r].pc \in {"degrade", "write"}
    <3>1. run' = [run EXCEPT ![r] = IdleRun] /\ UNCHANGED <<meta, feedOK, sawFeedOK>>
      BY <1>11, <2>1 DEF StampWriteFails, storeVars
    <3>2. QED
      BY <1>1, <3>1 DEF FailureInv, FeedRunInTime, IdleRun
  <2>2. CASE run[r].pc = "clear"
    <3>1. /\ run' = [run EXCEPT ![r].pc = "capture"] /\ feedOK' = TRUE /\ sawFeedOK' = Evals
          /\ meta' = meta
      BY <1>11, <2>2 DEF StampWriteFails, storeVars
    <3>2. \A q \in Runs : q # r => run'[q] = run[q]
      BY <3>1
    <3>3. run'[r].at = run[r].at /\ run'[r].pc = "capture"
      BY <3>1 DEF RunState
    <3>4. FeedRunInTime'
      BY <2>2, <3>1, <3>2, <3>3 DEF FailureInv, FeedRunInTime
    <3>5. QED
      BY <3>1, <3>4 DEF FailureIsStored, FailureIsSeen
  <2>3. QED
    BY <1>11, <2>1, <2>2 DEF StampWriteFails
<1>12. QED
  BY <1>2, <1>3, <1>4, <1>5, <1>6, <1>7, <1>8, <1>9, <1>10, <1>11 DEF RunStep

(* Steps of evaluations.                                                    *)
LEMMA FailureEvalStep ==
    ASSUME FailureInv, NEW e \in Evals, EvalStep(e) \/ AbandonPass(e)
    PROVE  FeedRunInTime' /\ FailureIsStored' /\ FailureIsSeen'
<1> TypeOK /\ eval \in [Evals -> EvalState] /\ eval[e] \in EvalState
  BY DEF FailureInv, TypeOK
<1>1. UNCHANGED <<clock, meta, run, feedOK>>
  <2>1. ASSUME NEW l \in Laws, PutFreshness(e, l) PROVE UNCHANGED <<clock, meta, run, feedOK>>
    BY <2>1 DEF PutFreshness
  <2>2. CASE GatherLaws(e)
    BY <2>2 DEF GatherLaws, storeVars, history
  <2>3. QED
    BY <2>1, <2>2 DEF EvalStep, BeginEval, ReadMeta, EndEval, AbandonPass, storeVars, history
<1>2. FeedRunInTime' /\ FailureIsStored'
  BY <1>1 DEF FailureInv, FeedRunInTime, FailureIsStored
<1>3. ASSUME sawFeedOK' = sawFeedOK, \A f \in Evals : f # e => eval'[f] = eval[f],
             eval'[e].pc = "idle" \/ (eval'[e].pc \in {"gathered", "put"}
                                       /\ eval[e].pc \in {"gathered", "put"}
                                       /\ eval'[e].seen = eval[e].seen)
      PROVE  FailureIsSeen'
  BY <1>1, <1>3 DEF FailureInv, FailureIsSeen
<1>4. CASE BeginEval(e)
  <2>1. /\ eval' = [eval EXCEPT ![e] = [IdleEval EXCEPT !.pc = "toc", !.now = clock]]
        /\ sawFeedOK' = IF feedOK THEN sawFeedOK \cup {e} ELSE sawFeedOK \ {e}
    BY <1>4 DEF BeginEval
  <2>2. eval'[e].pc = "toc" /\ \A f \in Evals : f # e => eval'[f] = eval[f]
    BY <2>1 DEF IdleEval
  <2>3. e \notin sawFeedOK' => ~feedOK
    BY <2>1
  <2>4. \A f \in Evals : f # e /\ f \notin sawFeedOK' => f \notin sawFeedOK
    BY <2>1
  <2>5. QED
    BY <1>1, <1>2, <2>2, <2>3, <2>4 DEF FailureInv, FailureIsSeen
<1>5. CASE ReadMeta(e)
  <2>1. /\ eval' = [eval EXCEPT ![e].seen[eval[e].pc] = meta[eval[e].pc],
                                ![e].pc = AfterRead(eval[e].pc)]
        /\ eval[e].pc \in ReadSteps /\ sawFeedOK' = sawFeedOK
    BY <1>5 DEF ReadMeta, history
  <2>2. /\ eval'[e].pc = AfterRead(eval[e].pc)
        /\ eval'[e].seen = [eval[e].seen EXCEPT ![eval[e].pc] = meta[eval[e].pc]]
        /\ \A f \in Evals : f # e => eval'[f] = eval[f]
    BY <2>1 DEF EvalState
  <2>3. eval[e].seen \in [MetaKeys -> Time]
    BY DEF EvalState
  <2>4. ASSUME e \notin sawFeedOK
        PROVE  /\ ~feedOK
               /\ eval'[e].pc = "degraded" => eval'[e].seen["bgbl"] = meta["bgbl"]
               /\ eval'[e].pc \in {"eli", "gathered", "put"} =>
                      FeedUnusable(eval'[e].seen["bgbl"], eval'[e].seen["degraded"])
    <3>1. ~feedOK
      BY <2>1, <2>4 DEF FailureInv, FailureIsSeen, ReadSteps
    <3>2. CASE eval[e].pc \in {"toc", "gii"}
      BY <2>2, <3>1, <3>2 DEF AfterRead
    <3>3. CASE eval[e].pc = "bgbl"
      BY <2>2, <2>3, <3>1, <3>3 DEF AfterRead, MetaKeys, Sources
    <3>4. CASE eval[e].pc = "degraded"
      <4>1. eval'[e].seen["bgbl"] = meta["bgbl"] /\ eval'[e].seen["degraded"] = meta["degraded"]
        BY <2>2, <2>3, <2>4, <3>4 DEF FailureInv, FailureIsSeen, MetaKeys, Sources
      <4>2. eval'[e].pc = "eli"
        BY <2>2, <3>4 DEF AfterRead
      <4>3. QED
        BY <3>1, <4>1, <4>2 DEF FailureInv, FailureIsStored
    <3>5. CASE eval[e].pc = "eli"
      <4>1. /\ eval'[e].seen["bgbl"] = eval[e].seen["bgbl"]
            /\ eval'[e].seen["degraded"] = eval[e].seen["degraded"]
        BY <2>2, <2>3, <3>5 DEF MetaKeys, Sources
      <4>2. eval'[e].pc = "gathered"
        BY <2>2, <3>5 DEF AfterRead
      <4>3. QED
        BY <2>4, <3>1, <3>5, <4>1, <4>2 DEF FailureInv, FailureIsSeen
    <3>6. QED
      BY <2>1, <3>2, <3>3, <3>4, <3>5 DEF ReadSteps
  <2>5. QED
    BY <1>1, <1>2, <2>1, <2>2, <2>4 DEF FailureInv, FailureIsSeen
<1>6. CASE GatherLaws(e)
  <2>1. sawFeedOK' = sawFeedOK /\ eval[e].pc = "gathered"
    BY <1>6 DEF GatherLaws, history
  <2>2. PICK listed \in SUBSET Laws, now \in Time :
            eval' = [eval EXCEPT ![e].pc = "put", ![e].listed = listed,
                                 ![e].todo = listed, ![e].now = now]
    BY <1>6, GatheredLaws
  <2>3. QED
    BY <1>2, <1>3, <2>1, <2>2 DEF EvalState
<1>7. ASSUME NEW l \in Laws, PutFreshness(e, l)
      PROVE  FailureIsSeen'
  BY <1>3, <1>7 DEF PutFreshness, EvalState
<1>8. CASE EndEval(e) \/ AbandonPass(e)
  BY <1>2, <1>3, <1>8 DEF EndEval, AbandonPass, history, IdleEval
<1>9. QED
  BY <1>2, <1>4, <1>5, <1>6, <1>7, <1>8 DEF EvalStep

LEMMA FailureStep ==
    ASSUME FeedAlone, FailureInv, [Next]_vars
    PROVE  FailureInv'
<1>1. TypeOK'
  BY TypeStep DEF FailureInv
<1> clock \in Nat /\ meta["bgbl"] \in Nat /\ \A r \in Runs : run[r].at \in Nat
  BY SyncMetaAssumption DEF FailureInv, TypeOK, RunState, Time, MetaKeys, Sources
<1>2. CASE UNCHANGED <<meta, run, eval, feedOK, sawFeedOK>> /\ clock' \in Nat /\ clock <= clock'
  <2>1. FeedRunInTime'
    BY <1>2 DEF FailureInv, FeedRunInTime
  <2>2. FailureIsStored' /\ FailureIsSeen'
    BY <1>2 DEF FailureInv, FailureIsStored, FailureIsSeen
  <2>3. QED
    BY <1>1, <2>1, <2>2 DEF FailureInv
<1>3. CASE Tick
  BY <1>2, <1>3 DEF Tick, storeVars, history
<1>4. CASE JumpBack
  BY <1>4 DEF JumpBack, FeedAlone
<1>5. ASSUME NEW r \in Runs, RunStep(r) PROVE FailureInv'
  BY <1>1, <1>5, FailureRunStep DEF FailureInv
<1>6. ASSUME NEW e \in Evals, EvalStep(e) \/ AbandonPass(e) PROVE FailureInv'
  BY <1>1, <1>6, FailureEvalStep DEF FailureInv
<1>7. CASE Restart
  BY <1>1, <1>7 DEF Restart, storeVars, history, FailureInv, FeedRunInTime, FailureIsStored,
     FailureIsSeen, IdleRun, IdleEval
<1>8. ASSUME NEW e \in Evals, NEW l \in Laws, PutFreshnessFails(e, l) PROVE FailureInv'
  <2>1. /\ UNCHANGED <<clock, meta, run, feedOK, sawFeedOK>>
        /\ eval' = [eval EXCEPT ![e].todo = @ \ {l}]
    BY <1>8 DEF PutFreshnessFails, storeVars
  <2>2. \A f \in Evals : eval'[f].pc = eval[f].pc /\ eval'[f].seen = eval[f].seen
    BY <2>1 DEF FailureInv, TypeOK, EvalState
  <2>3. QED
    BY <1>1, <2>1, <2>2 DEF FailureInv, FeedRunInTime, FailureIsStored, FailureIsSeen
<1>9. CASE AddLaws \/ UNCHANGED vars
  BY <1>2, <1>9 DEF AddLaws, history, vars
<1>10. QED
  BY <1>3, <1>4, <1>5, <1>6, <1>7, <1>8, <1>9 DEF Next

(* A partial failure of the BGBl feeds takes the claim away until both      *)
(* feeds have been read: an evaluation begun after it cannot combine the    *)
(* stamp of one success with the marker of another, in whatever order its   *)
(* reads fall between the writes of the job, restarts included.             *)
THEOREM FailedFeedBlocks ==
    ASSUME FeedAlone
    PROVE  Spec => []FailedFeedBlocksCurrent
<1>1. FailureInv => FailedFeedBlocksCurrent
  BY UnusableBlocks DEF FailureInv, FailureIsSeen, FailedFeedBlocksCurrent
<1>2. FailureInv /\ [Next]_vars => FailureInv'
  BY FailureStep
<1>3. QED
  BY <1>1, <1>2, FailureInit, PTL DEF Spec
=============================================================================
