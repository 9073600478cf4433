------------------------- MODULE GazetteWatchProofs -------------------------
(***************************************************************************)
(* GazetteStore implements Watch: whatever the jobs, requests, Reconcile   *)
(* runs, failed writes and restarts do to each other, every stored verdict *)
(* is one that Watch allows, for any sizes of the constants.               *)
(***************************************************************************)
EXTENDS GazetteStoreProofs

-----------------------------------------------------------------------------
(* What the stamp promised when the links were read is collected.           *)

BaseGood(e) ==
    Collecting(e) =>
        \A it \in eval[e].base :
            /\ it.law = eval[e].law /\ Kept(it)
            /\ \/ eval[e].pc = "issues" /\ it.id \in eval[e].todo
               \/ \E x \in eval[e].linked : x.id = it.id

BaseInv == \A e \in Evals : BaseGood(e)

(* The same fields, or fewer items to collect, and nothing taken away.      *)
LEMMA BaseStays ==
    ASSUME TypeOK, Sound, [Next]_vars, NEW d \in Evals, BaseGood(d), Collecting(d),
           eval'[d].base = eval[d].base, eval'[d].law = eval[d].law,
           \A it \in eval[d].base :
              it.id \in eval[d].todo /\ eval[d].pc = "issues" =>
                 \/ eval'[d].pc = "issues" /\ it.id \in eval'[d].todo
                 \/ \E x \in eval'[d].linked : x.id = it.id,
           eval[d].linked \subseteq eval'[d].linked
    PROVE  BaseGood(d)'
<1>1. Grows
  BY GrowsStep
<1>2. eval[d].base \subseteq Items
  BY DEF TypeOK, EvalState
<1>3. \A it \in eval[d].base : Kept(it)'
  BY <1>1, <1>2, KeptStays DEF BaseGood
<1>4. QED
  BY <1>3 DEF BaseGood

LEMMA BaseGoodStep ==
    ASSUME TypeOK, Sound, BaseInv, [Next]_vars, NEW d \in Evals
    PROVE  BaseGood(d)'
<1> DEFINE q == eval[d]
<1> eval \in [Evals -> EvalState] /\ q \in EvalState /\ BaseGood(d)
  BY DEF TypeOK, BaseInv
<1>1. CASE eval'[d] = q
  <2>1. Collecting(d)' <=> Collecting(d)
    BY <1>1 DEF Collecting
  <2>2. QED
    BY <1>1, <2>1, BaseStays DEF BaseGood
<1>2. ASSUME eval'[d].pc \notin {"issues", "put"},
             eval'[d].pc = "stamp" => d \in Reconcilers
      PROVE  BaseGood(d)'
  BY <1>2 DEF BaseGood, Collecting
<1>3. CASE LinksForLaw(d)
  <2> DEFINE u == LinkedNumbers(q.law)
             cs == [n \in Numbers |-> links[<<n, q.law>>]]
             b == {it \in covered : it.law = q.law}
             r == [q EXCEPT !.pc = "issues", !.todo = u, !.classes = cs, !.linked = {}, !.base = b]
  <2>1. eval'[d] = r /\ q.pc = "links" /\ UNCHANGED <<issues, links>>
    BY <1>3 DEF LinksForLaw
  <2>2. q.law \in Laws
    BY <2>1 DEF Sound, CollectedGood
  <2>3. \A it \in b : it.law = q.law /\ Kept(it) /\ it \in Items
    BY DEF Sound, CoveredKept, TypeOK
  <2>4. \A it \in b : it.id \in u
    BY <2>2, <2>3, ItemTypes, CatalogAssumption DEF Kept, LinkedNumbers
  <2> HIDE DEF u, cs, b
  <2>5. r.pc = "issues" /\ r.todo = u /\ r.base = b /\ r.law = q.law
    BY DEF EvalState
  <2>6. \A it \in b : Kept(it)'
    BY <2>1, <2>3 DEF Kept, Stored
  <2>7. QED
    BY <2>1, <2>3, <2>4, <2>5, <2>6 DEF BaseGood
<1>4. ASSUME NEW n \in Numbers, GetLinkedIssue(d, n)
      PROVE  BaseGood(d)'
  <2> DEFINE x == IF Stored(n) THEN q.linked \cup {AsGazetteIssue(n)} ELSE q.linked
             r == [q EXCEPT !.todo = q.todo \ {n}, !.linked = x]
  <2>1. eval'[d] = r /\ q.pc = "issues"
    BY <1>4 DEF GetLinkedIssue
  <2>2. Collecting(d)
    BY <2>1 DEF Collecting
  <2>3. AsGazetteIssue(n).id = n
    BY DEF AsGazetteIssue
  <2>4. \A it \in q.base : Kept(it)
    BY <2>2 DEF BaseGood
  <2>5. \A it \in q.base : it.id = n => \E y \in x : y.id = it.id
    BY <2>3, <2>4 DEF Kept
  <2>6. q.linked \subseteq x
    OBVIOUS
  <2> HIDE DEF x
  <2>7. /\ r.pc = q.pc /\ r.todo = q.todo \ {n} /\ r.linked = x
        /\ r.law = q.law /\ r.base = q.base
    BY DEF EvalState
  <2>8. QED
    BY <2>1, <2>2, <2>5, <2>6, <2>7, BaseStays
<1>5. CASE AllIssuesRead(d)
  <2>1. /\ q.pc = "issues" /\ q.todo = {} /\ eval'[d].base = q.base /\ eval'[d].law = q.law
        /\ eval'[d].linked = q.linked
    BY <1>5 DEF AllIssuesRead, EvalState
  <2>2. QED
    BY <2>1, BaseStays DEF Collecting
<1>6. CASE ReadStamp(d)
  <2>1. /\ q.pc = "stamp" /\ eval'[d].base = q.base /\ eval'[d].law = q.law
        /\ eval'[d].linked = q.linked
        /\ d \in Reconcilers => eval'[d].pc = "listIssues"
    BY <1>6 DEF ReadStamp, EvalState
  <2>2. CASE d \notin Reconcilers
    BY <2>1, <2>2, BaseStays DEF Collecting
  <2>3. QED
    BY <1>2, <2>1, <2>2
<1>7. CASE NextLaw(d) \/ eval'[d] = IdleEval
  <2>1. ASSUME NextLaw(d) PROVE eval'[d].pc \in {"idle", "nextLaw"}
    BY <2>1 DEF NextLaw, IdleEval
  <2>2. eval'[d].pc \in {"idle", "nextLaw"}
    BY <1>7, <2>1 DEF IdleEval
  <2>3. QED
    BY <1>2, <2>2
<1>8. CASE BeginReconcile(d) \/ \E l \in Laws : BeginRequest(d, l)
  <2>1. eval'[d].pc = "nextLaw" \/ (eval'[d].pc = "stamp" /\ d \in Reconcilers)
    BY <1>8 DEF BeginReconcile, BeginRequest, IdleEval
  <2>2. QED
    BY <1>2, <2>1
<1>9. CASE \/ ListIssues(d) \/ ListLaws(d) \/ \E l \in Laws : GetStand(d, l)
           \/ \E n \in Numbers : HeuristicLink(d, n) \/ HeuristicIssue(d, n)
  <2>1. CASE ListIssues(d) \/ ListLaws(d)
    <3>1. CASE ListIssues(d)
      <4>1. PICK u : eval' = [eval EXCEPT ![d].snapshot = issues, ![d].unmatched = u,
                                          ![d].pc = "heuristicLink"]
        BY <3>1 DEF ListIssues
      <4>2. QED
        BY <1>2, <4>1 DEF EvalState
    <3>2. CASE ListLaws(d)
      BY <1>2, <3>2 DEF ListLaws, EvalState
    <3>3. QED
      BY <2>1, <3>1, <3>2
  <2>2. CASE \E l \in Laws : GetStand(d, l)
    BY <1>2, <2>2 DEF GetStand, EvalState
  <2>3. CASE \E n \in Numbers : HeuristicLink(d, n) \/ HeuristicIssue(d, n)
    BY <1>2, <2>3 DEF HeuristicLink, HeuristicIssue, EvalState
  <2>4. QED
    BY <1>9, <2>1, <2>2, <2>3
<1>10. CASE EvalWriteFails(d) /\ ~NextLaw(d)
  <2>1. PICK n : \/ eval' = [eval EXCEPT ![d].pc = "heuristicIssue", ![d].unmatched = @ \ {n},
                                        ![d].todo = {n}]
                 \/ eval' = [eval EXCEPT ![d].pc = "heuristicLink", ![d].todo = {}]
    BY <1>10 DEF EvalWriteFails
  <2>2. eval'[d].pc \in {"heuristicLink", "heuristicIssue"}
    BY <2>1 DEF EvalState
  <2>3. QED
    BY <1>2, <2>2
<1>11. QED
  BY <1>1, <1>3, <1>4, <1>5, <1>6, <1>7, <1>8, <1>9, <1>10, EvalFrame DEF EvalStep, PutFreshness

LEMMA BaseInvariant == Spec => []BaseInv
<1>1. Init => BaseInv
  BY DEF Init, BaseInv, BaseGood, Collecting, IdleEval
<1>2. TypeOK /\ Sound /\ BaseInv /\ [Next]_vars => BaseInv'
  BY BaseGoodStep DEF BaseInv
<1>3. QED
  BY <1>1, <1>2, TypeCorrect, SoundInvariant, PTL DEF Spec

-----------------------------------------------------------------------------
(* What an evaluation shows of itself.                                      *)

LEMMA ReadersUpdate ==
    ASSUME NEW d \in Evals, NEW r, eval' = [eval EXCEPT ![d] = r], eval \in [Evals -> EvalState]
    PROVE  Readers' = [Readers EXCEPT ![d] = View(r)]
BY DEF Readers, View

LEMMA ReadersSame ==
    ASSUME NEW d \in Evals, NEW r, eval' = [eval EXCEPT ![d] = r], eval \in [Evals -> EvalState],
           r.law = eval[d].law, r.stand = eval[d].stand, r.base = eval[d].base
    PROVE  Readers' = Readers
BY ReadersUpdate DEF Readers, View

LEMMA KnownStep ==
    ASSUME TypeOK, Sound, [Next]_vars
    PROVE  KnownPairs \subseteq KnownPairs' /\ KnownPairs' \subseteq Numbers \X Laws
<1>1. Grows
  BY GrowsStep
<1>2. QED
  BY <1>1 DEF Grows, KnownPairs, Stored

LEMMA IdleView == View(IdleEval) = W!Idle
BY DEF View, IdleEval, W!Idle

(* An evaluation leaves a law, or starts with the next.                     *)
LEMMA NextLawLeaves ==
    ASSUME TypeOK, NEW d \in Evals, NextLaw(d)
    PROVE  Readers' = [Readers EXCEPT ![d] = W!Idle]
<1> DEFINE r == IF eval[d].laws = {} THEN IdleEval
                ELSE [IdleEval EXCEPT !.pc = "nextLaw", !.now = eval[d].now,
                                      !.stamp = eval[d].stamp, !.covered = eval[d].covered,
                                      !.laws = eval[d].laws]
<1>1. r.law = NoLaw /\ r.stand = 0 /\ r.base = {}
  BY DEF IdleEval
<1>2. View(r) = W!Idle
  BY <1>1 DEF View, W!Idle
<1>3. eval' = [eval EXCEPT ![d] = r]
  BY DEF NextLaw
<1> HIDE DEF r
<1>4. QED
  BY <1>2, <1>3, ReadersUpdate DEF TypeOK

-----------------------------------------------------------------------------
(* The verdict.                                                             *)

(* With a numbered Stand a linked issue is newer when its number is higher. *)
LEMMA NewerIsBeyond ==
    ASSUME NEW ev \in EvalState, ev.linked \subseteq LinkedIssue,
           \A x \in ev.linked : x.number = <<x.id, 0>>,
           NEW n \in NewerIssueIDs(EvalInput(ev))
    PROVE  W!Beyond(n, ev.stand)
<1> DEFINE in == EvalInput(ev)
<1>1. in.stand = StandCitation(ev.law, ev.stand) /\ in.linked = ev.linked /\ in.instrIssues = {}
  BY DEF EvalInput
<1>2. PICK x \in ev.linked : x.id = n /\ IssueNewerThanStand(x, in.stand)
  BY <1>1 DEF NewerIssueIDs, NewerLinkedIssues, NewerInstrumentIssues
<1>3. ev.stand \in Nat /\ x.id \in Nat \ {0} /\ x.year = 1 /\ x.teil = 1
  BY NumbersArePositive DEF EvalState, LinkedIssue
<1>4. ASSUME ev.stand # 0 PROVE x.id > ev.stand
  <2>1. Compare(in.stand, AsCitation(x)) = Order(ev.stand, x.id)
    BY <1>1, <1>3, <1>4 DEF Compare, AsCitation, StandCitation, IssueNum
  <2>2. in.stand.parseOK
    BY <1>1 DEF StandCitation
  <2>3. Order(ev.stand, x.id) = "older"
    BY <1>2, <2>1, <2>2 DEF IssueNewerThanStand, Order
  <2>4. QED
    BY <1>3, <2>3 DEF Order
<1>5. QED
  BY <1>2, <1>4 DEF W!Beyond

(* Newer issues are what makes the verdict confirmed_stale.                 *)
LEMMA StaleIffNewer ==
    ASSUME NEW in
    PROVE  Evaluate(in).state = "confirmed_stale" <=> Evaluate(in).newer # {}
BY DEF Evaluate, Verdict

LEMMA VerdictAllowed ==
    ASSUME TypeOK, Sound, BaseInv, NEW d \in Evals, eval[d].pc = "put"
    PROVE  LET rec == Evaluate(EvalInput(eval[d]))
           IN  W!Allowed([state |-> rec.state, newer |-> rec.newer], View(eval[d]))
<1> DEFINE q == eval[d]
           rec == Evaluate(EvalInput(q))
           v == [state |-> rec.state, newer |-> rec.newer]
<1>1. q \in EvalState /\ q.linked \subseteq LinkedIssue /\ Collecting(d)
  BY DEF TypeOK, EvalState, Collecting
<1>2. q.law \in Laws /\ \A x \in q.linked : LinkedGood(x, q.law)
  BY <1>1 DEF Sound, CollectedGood
<1>3. rec.state \in States /\ rec.newer \in {{}, NewerIssueIDs(EvalInput(q))}
  BY EvaluateRecord
<1>4. rec.state = "confirmed_stale" <=> rec.newer # {}
  BY StaleIffNewer
<1>5. ASSUME NEW n \in rec.newer
      PROVE  <<n, q.law>> \in KnownPairs /\ W!Beyond(n, q.stand)
  <2>1. n \in NewerIssueIDs(EvalInput(q))
    BY <1>3
  <2>2. PICK x \in q.linked : x.id = n
    BY <2>1, NewerAreLinked
  <2>3. n \in Numbers
    BY <1>1, <2>2 DEF LinkedIssue
  <2>4. <<n, q.law>> \in KnownPairs
    BY <1>2, <2>2, <2>3 DEF LinkedGood, KnownPairs
  <2>5. W!Beyond(n, q.stand)
    BY <1>1, <1>2, <2>1, NewerIsBeyond DEF LinkedGood
  <2>6. QED
    BY <2>4, <2>5
<1>6. ASSUME rec.state = "confirmed_current", NEW it \in q.base, it.id \notin Notices,
             q.stand # 0
      PROVE  ~W!Beyond(it.id, q.stand)
  <2>1. PICK x \in q.linked : x.id = it.id
    BY <1>1 DEF BaseInv, BaseGood
  <2>2. x.title # "bek"
    BY <1>2, <1>6, <2>1 DEF LinkedGood, TitlesOf, Notices
  <2>3. ~(x.id > q.stand)
    BY <1>1, <1>2, <1>6, <2>1, <2>2, CollectedIsNewer, NewerIsNotCurrent DEF LinkedGood
  <2>4. QED
    BY <1>6, <2>1, <2>3 DEF W!Beyond
<1> HIDE DEF rec
<1>7. /\ v.state = rec.state /\ v.newer = rec.newer
      /\ View(q).law = q.law /\ View(q).stand = q.stand
      /\ View(q).base = {it.id : it \in q.base}
  BY DEF View
<1> HIDE DEF v
<1>8. W!Allowed(v, View(q))
  BY <1>3, <1>4, <1>5, <1>6, <1>7 DEF W!Allowed, States
<1>9. QED
  BY <1>8 DEF v, rec

-----------------------------------------------------------------------------
(* Every step of the store is a step of Watch or none.                      *)

LEMMA JobImplements ==
    ASSUME TypeOK, Sound, [Next]_vars, NEW j \in Jobs, JobStep(j) \/ WriteFails(j)
    PROVE  W!Learn \/ W!Promise
<1>1. stand' = stand /\ Readers' = Readers /\ records' = records
  BY Zenon DEF JobStep, WriteFails, Fetch, NoPermalink, GetIssue, UpsertIssue, UpsertLink,
     UpsertMatched, Finish, JobOnly, Readers, View
<1>2. KnownPairs \subseteq KnownPairs' /\ KnownPairs' \subseteq Numbers \X Laws
  BY KnownStep
<1>3. CASE Finish(j)
  <2>1. UNCHANGED <<issues, links>> /\ covered \subseteq covered'
    BY <1>3 DEF Finish
  <2>2. KnownPairs' = KnownPairs
    BY <2>1 DEF KnownPairs, Stored
  <2>3. PromisedPairs \subseteq PromisedPairs'
    BY <2>1 DEF PromisedPairs
  <2>4. covered' \subseteq Items
    BY <1>3 DEF Finish, TypeOK, JobState
  <2>5. \A it \in covered' : it.law # NoLaw => <<it.id, it.law>> \in KnownPairs'
    BY <2>4, CoveredKeptStep, ItemTypes DEF CoveredKept, Kept, KnownPairs
  <2>6. PromisedPairs' \subseteq KnownPairs
    BY <2>2, <2>5 DEF PromisedPairs
  <2>7. QED
    BY <1>1, <2>2, <2>3, <2>6 DEF W!Promise
<1>4. CASE ~Finish(j)
  <2>1. covered' = covered
    BY <1>4, Zenon DEF JobStep, WriteFails, Fetch, NoPermalink, GetIssue, UpsertIssue, UpsertLink,
       UpsertMatched
  <2>2. PromisedPairs' = PromisedPairs
    BY <2>1 DEF PromisedPairs
  <2>3. QED
    BY <1>1, <1>2, <2>2 DEF W!Learn
<1>5. QED
  BY <1>3, <1>4

LEMMA EvalImplements ==
    ASSUME TypeOK, Sound, BaseInv, [Next]_vars, NEW d \in Evals,
           EvalStep(d) \/ EvalWriteFails(d) \/ \E l \in Laws : BeginRequest(d, l)
    PROVE  [W!Next]_(W!vars)
<1> DEFINE q == eval[d]
<1> eval \in [Evals -> EvalState] /\ q \in EvalState
  BY DEF TypeOK
<1>1. stand' = stand /\ PromisedPairs' = PromisedPairs
  BY Zenon DEF EvalStep, EvalWriteFails, BeginRequest, BeginReconcile, ReadStamp, ListIssues,
     HeuristicLink, HeuristicIssue, ListLaws, GetStand, LinksForLaw, GetLinkedIssue, AllIssuesRead,
     PutFreshness, EvalOnly, EvalReads, PromisedPairs
<1>2. KnownPairs \subseteq KnownPairs' /\ KnownPairs' \subseteq Numbers \X Laws
  BY KnownStep
<1>3. UNCHANGED <<issues, links>> => KnownPairs' = KnownPairs
  BY DEF KnownPairs, Stored
<1>4. ASSUME Readers' = Readers, records' = records
      PROVE  W!Learn
  BY <1>1, <1>2, <1>4 DEF W!Learn
<1>5. ASSUME Readers' = [Readers EXCEPT ![d] = W!Idle], UNCHANGED <<issues, links, records>>
      PROVE  W!Leave(d)
  BY <1>1, <1>3, <1>5 DEF W!Leave
<1>6. CASE BeginReconcile(d)
  <2> DEFINE r == [IdleEval EXCEPT !.pc = "stamp", !.now = clock]
  <2>1. r.law = NoLaw /\ r.stand = 0 /\ r.base = {}
    BY DEF IdleEval
  <2>2. eval' = [eval EXCEPT ![d] = r] /\ UNCHANGED <<issues, links, records>>
    BY <1>6 DEF BeginReconcile
  <2>3. View(r) = W!Idle
    BY <2>1 DEF View, W!Idle
  <2> HIDE DEF r
  <2>4. W!Leave(d)
    BY <1>5, <2>2, <2>3, ReadersUpdate
  <2>5. QED
    BY <2>4 DEF W!Next
<1>7. ASSUME NEW l \in Laws, BeginRequest(d, l)
      PROVE  W!Next
  <2> DEFINE r == [IdleEval EXCEPT !.pc = "nextLaw", !.laws = {l}]
  <2>1. r.law = NoLaw /\ r.stand = 0 /\ r.base = {}
    BY DEF IdleEval
  <2>2. eval' = [eval EXCEPT ![d] = r] /\ UNCHANGED <<issues, links, records>>
    BY <1>7 DEF BeginRequest
  <2>3. View(r) = W!Idle
    BY <2>1 DEF View, W!Idle
  <2> HIDE DEF r
  <2>4. W!Leave(d)
    BY <1>5, <2>2, <2>3, ReadersUpdate
  <2>5. QED
    BY <2>4 DEF W!Next
<1>8. ASSUME NEW r, eval' = [eval EXCEPT ![d] = r], records' = records,
             r.law = q.law, r.stand = q.stand, r.base = q.base
      PROVE  W!Next
  BY <1>4, <1>8, ReadersSame DEF W!Next
<1>9. CASE ReadStamp(d)
  <2> DEFINE now == IF d \in Reconcilers THEN q.now ELSE clock
             pc == IF d \in Reconcilers THEN "listIssues" ELSE "put"
             r == [q EXCEPT !.stamp = giiStamp, !.covered = covered, !.now = now, !.pc = pc]
  <2>1. eval' = [eval EXCEPT ![d] = r] /\ records' = records
    BY <1>9 DEF ReadStamp
  <2>2. r.law = q.law /\ r.stand = q.stand /\ r.base = q.base
    BY DEF EvalState
  <2> HIDE DEF r
  <2>3. QED
    BY <1>8, <2>1, <2>2
<1>10. CASE ListIssues(d)
  <2>1. PICK u : /\ eval' = [eval EXCEPT ![d] = [q EXCEPT !.snapshot = issues, !.unmatched = u,
                                                         !.pc = "heuristicLink"]]
                 /\ records' = records
    BY <1>10 DEF ListIssues
  <2> DEFINE r == [q EXCEPT !.snapshot = issues, !.unmatched = u, !.pc = "heuristicLink"]
  <2>2. r.law = q.law /\ r.stand = q.stand /\ r.base = q.base
    BY DEF EvalState
  <2>3. eval' = [eval EXCEPT ![d] = r]
    BY <2>1
  <2> HIDE DEF r
  <2>4. QED
    BY <1>8, <2>1, <2>2, <2>3
<1>11. ASSUME NEW n \in Numbers, HeuristicLink(d, n)
       PROVE  W!Next
  <2> DEFINE r == [q EXCEPT !.pc = "heuristicIssue", !.unmatched = q.unmatched \ {n}, !.todo = {n}]
  <2>1. eval' = [eval EXCEPT ![d] = r] /\ records' = records
    BY <1>11 DEF HeuristicLink
  <2>2. r.law = q.law /\ r.stand = q.stand /\ r.base = q.base
    BY DEF EvalState
  <2> HIDE DEF r
  <2>3. QED
    BY <1>8, <2>1, <2>2
<1>12. ASSUME NEW n \in Numbers, HeuristicIssue(d, n)
       PROVE  W!Next
  <2> DEFINE r == [q EXCEPT !.pc = "heuristicLink", !.todo = {}]
  <2>1. eval' = [eval EXCEPT ![d] = r] /\ records' = records
    BY <1>12 DEF HeuristicIssue
  <2>2. r.law = q.law /\ r.stand = q.stand /\ r.base = q.base
    BY DEF EvalState
  <2> HIDE DEF r
  <2>3. QED
    BY <1>8, <2>1, <2>2
<1>13. CASE ListLaws(d)
  <2> DEFINE r == [q EXCEPT !.pc = "nextLaw", !.laws = Laws, !.snapshot = Nothing]
  <2>1. eval' = [eval EXCEPT ![d] = r] /\ records' = records
    BY <1>13 DEF ListLaws
  <2>2. r.law = q.law /\ r.stand = q.stand /\ r.base = q.base
    BY DEF EvalState
  <2> HIDE DEF r
  <2>3. QED
    BY <1>8, <2>1, <2>2
<1>14. ASSUME NEW l \in Laws, GetStand(d, l)
       PROVE  W!Next
  <2> DEFINE r == [q EXCEPT !.pc = "links", !.laws = q.laws \ {l}, !.law = l,
                            !.stand = stand[l], !.base = {}]
  <2>1. eval' = [eval EXCEPT ![d] = r] /\ UNCHANGED <<issues, links, records>>
    BY <1>14 DEF GetStand
  <2>2. r.law = l /\ r.stand = stand[l] /\ r.base = {}
    BY DEF EvalState
  <2>3. View(r) = [law |-> l, stand |-> stand[l], base |-> {}]
    BY <2>2 DEF View
  <2> HIDE DEF r
  <2>4. W!ReadStand(d, l)
    BY <1>1, <1>3, <2>1, <2>3, ReadersUpdate DEF W!ReadStand
  <2>5. QED
    BY <2>4 DEF W!Next
<1>15. CASE LinksForLaw(d)
  <2> DEFINE u == LinkedNumbers(q.law)
             cs == [n \in Numbers |-> links[<<n, q.law>>]]
             b == {it \in covered : it.law = q.law}
             looked == {k[1] : k \in {p \in PromisedPairs : p[2] = Readers[d].law}}
             r == [q EXCEPT !.pc = "issues", !.todo = u, !.classes = cs, !.linked = {}, !.base = b]
  <2>1. eval' = [eval EXCEPT ![d] = r] /\ UNCHANGED <<issues, links, records>> /\ q.pc = "links"
    BY <1>15 DEF LinksForLaw
  <2>2. q.law # NoLaw
    BY <2>1, CatalogAssumption DEF Sound, CollectedGood
  <2>3. Readers[d].law = q.law
    BY DEF Readers, View
  <2>4. {it.id : it \in b} = looked
    <3>1. ASSUME NEW it \in b PROVE it.id \in looked
      <4>1. <<it.id, it.law>> \in PromisedPairs /\ it.law = q.law
        BY <2>2 DEF PromisedPairs
      <4>2. QED
        BY <2>3, <4>1
    <3>2. ASSUME NEW p \in PromisedPairs, p[2] = q.law PROVE \E it \in b : it.id = p[1]
      BY <3>2 DEF PromisedPairs
    <3>3. QED
      BY <2>3, <3>1, <3>2
  <2> HIDE DEF u, cs, b, looked
  <2>5. r.law = q.law /\ r.stand = q.stand /\ r.base = b
    BY DEF EvalState
  <2>6. View(r) = [Readers[d] EXCEPT !.base = looked]
    <3>1. View(r) = [law |-> q.law, stand |-> q.stand, base |-> looked]
      BY <2>4, <2>5 DEF View
    <3>2. Readers[d] = [law |-> q.law, stand |-> q.stand, base |-> {it.id : it \in q.base}]
      BY DEF Readers, View
    <3>3. QED
      BY <3>1, <3>2
  <2> HIDE DEF r
  <2>7. Readers' = [Readers EXCEPT ![d].base = looked]
    BY <2>1, <2>6, ReadersUpdate
  <2>8. W!Look(d)
    BY <1>1, <1>3, <2>1, <2>7 DEF W!Look, looked
  <2>9. QED
    BY <2>8 DEF W!Next
<1>16. ASSUME NEW n \in Numbers, GetLinkedIssue(d, n)
       PROVE  W!Next
  <2> DEFINE x == IF Stored(n) THEN q.linked \cup {AsGazetteIssue(n)} ELSE q.linked
             r == [q EXCEPT !.todo = q.todo \ {n}, !.linked = x]
  <2>1. eval' = [eval EXCEPT ![d] = r] /\ records' = records
    BY <1>16 DEF GetLinkedIssue
  <2> HIDE DEF x
  <2>2. r.law = q.law /\ r.stand = q.stand /\ r.base = q.base
    BY DEF EvalState
  <2> HIDE DEF r
  <2>3. QED
    BY <1>8, <2>1, <2>2
<1>17. CASE AllIssuesRead(d)
  <2> DEFINE pc == IF d \in Reconcilers THEN "put" ELSE "stamp"
             r == [q EXCEPT !.pc = pc]
  <2>1. eval' = [eval EXCEPT ![d] = r] /\ records' = records
    BY <1>17 DEF AllIssuesRead
  <2>2. r.law = q.law /\ r.stand = q.stand /\ r.base = q.base
    BY DEF EvalState
  <2> HIDE DEF r
  <2>3. QED
    BY <1>8, <2>1, <2>2
<1>18. CASE PutFreshness(d)
  <2> DEFINE rec == Evaluate(EvalInput(q))
             v == [state |-> rec.state, newer |-> rec.newer]
  <2>1. /\ q.pc = "put" /\ UNCHANGED <<issues, links>> /\ NextLaw(d)
        /\ records' = [records EXCEPT ![q.law] = v]
    BY <1>18 DEF PutFreshness
  <2>2. W!Allowed(v, View(q))
    BY <2>1, VerdictAllowed
  <2> HIDE DEF v
  <2>3. q.law \in Laws
    BY <2>1 DEF Sound, CollectedGood, Collecting
  <2>4. Readers[d] = View(q) /\ Readers[d].law = q.law
    BY DEF Readers, View
  <2>5. records \in [Laws -> [state : States \cup {"none"}, newer : SUBSET Numbers]]
    BY DEF TypeOK
  <2>6. records'[q.law] = v
    BY <2>1, <2>3, <2>5
  <2>7. W!Conclude(d)
    BY <1>1, <1>3, <2>1, <2>2, <2>3, <2>4, <2>6, NextLawLeaves DEF W!Conclude
  <2>8. QED
    BY <2>7 DEF W!Next
<1>19. CASE EvalWriteFails(d)
  <2>1. UNCHANGED <<issues, links, records>>
    BY <1>19, Zenon DEF EvalWriteFails
  <2>2. CASE NextLaw(d)
    BY <1>5, <2>1, <2>2, NextLawLeaves DEF W!Next
  <2>3. ASSUME NEW n, eval' = [eval EXCEPT ![d] = [q EXCEPT !.pc = "heuristicIssue",
                                  !.unmatched = q.unmatched \ {n}, !.todo = {n}]]
        PROVE  W!Next
    <3> DEFINE r == [q EXCEPT !.pc = "heuristicIssue", !.unmatched = q.unmatched \ {n}, !.todo = {n}]
    <3>1. r.law = q.law /\ r.stand = q.stand /\ r.base = q.base
      BY DEF EvalState
    <3>2. eval' = [eval EXCEPT ![d] = r]
      BY <2>3
    <3> HIDE DEF r
    <3>3. QED
      BY <1>8, <2>1, <3>1, <3>2
  <2>4. ASSUME eval' = [eval EXCEPT ![d] = [q EXCEPT !.pc = "heuristicLink", !.todo = {}]]
        PROVE  W!Next
    <3> DEFINE r == [q EXCEPT !.pc = "heuristicLink", !.todo = {}]
    <3>1. r.law = q.law /\ r.stand = q.stand /\ r.base = q.base
      BY DEF EvalState
    <3>2. eval' = [eval EXCEPT ![d] = r]
      BY <2>4
    <3> HIDE DEF r
    <3>3. QED
      BY <1>8, <2>1, <3>1, <3>2
  <2>5. \/ NextLaw(d)
        \/ \E n : eval' = [eval EXCEPT ![d] = [q EXCEPT !.pc = "heuristicIssue",
                                              !.unmatched = q.unmatched \ {n}, !.todo = {n}]]
        \/ eval' = [eval EXCEPT ![d] = [q EXCEPT !.pc = "heuristicLink", !.todo = {}]]
    BY <1>19 DEF EvalWriteFails
  <2>6. QED
    BY <2>2, <2>3, <2>4, <2>5
<1>20. CASE EvalStep(d)
  BY <1>6, <1>9, <1>10, <1>11, <1>12, <1>13, <1>14, <1>15, <1>16, <1>17, <1>18, <1>20, Zenon
     DEF EvalStep
<1>21. QED
  BY <1>7, <1>19, <1>20

LEMMA StepImplements ==
    ASSUME TypeOK, Sound, BaseInv, [Next]_vars
    PROVE  [W!Next]_(W!vars)
<1>1. ASSUME Tick \/ (\E it \in Items : Publish(it)) \/ UNCHANGED vars
      PROVE  UNCHANGED W!vars
  BY <1>1, Zenon DEF Tick, Publish, vars, W!vars, KnownPairs, PromisedPairs, Readers, View, Stored
<1>2. ASSUME NEW l \in Laws, NEW n \in Numbers, RefreshStand(l, n)
      PROVE  W!Next
  <2>1. UNCHANGED <<KnownPairs, PromisedPairs, Readers, records>>
    BY <1>2 DEF RefreshStand, KnownPairs, PromisedPairs, Readers, View, Stored
  <2>2. W!Reflect
    BY <1>2, <2>1 DEF RefreshStand, W!Reflect
  <2>3. QED
    BY <2>2 DEF W!Next
<1>3. ASSUME NEW j \in Jobs, JobStep(j) \/ WriteFails(j)
      PROVE  W!Next
  BY <1>3, JobImplements DEF W!Next
<1>4. CASE Restart
  <2>1. UNCHANGED <<KnownPairs, PromisedPairs, stand, records>>
    BY <1>4 DEF Restart, KnownPairs, PromisedPairs, Stored
  <2>2. \A e \in Evals : View(eval'[e]) = W!Idle
    BY <1>4, IdleView DEF Restart
  <2>3. Readers' = [e \in Evals |-> W!Idle]
    BY <2>2 DEF Readers, View
  <2>4. W!Crash
    BY <2>1, <2>3 DEF W!Crash
  <2>5. QED
    BY <2>4 DEF W!Next
<1>5. QED
  BY <1>1, <1>2, <1>3, <1>4, EvalImplements, Zenon DEF Next

LEMMA InitImplements == Init => W!Init
<1> SUFFICES ASSUME Init PROVE W!Init
  OBVIOUS
<1>1. KnownPairs = {} /\ PromisedPairs = {}
  BY DEF Init, KnownPairs, PromisedPairs, Stored, NoIssue
<1>2. Readers = [e \in Evals |-> W!Idle]
  BY IdleView DEF Init, Readers
<1>3. records = [l \in Laws |-> W!Unevaluated]
  BY DEF Init, NoRecord, W!Unevaluated
<1>4. stand \in [Laws -> Nat]
  BY CatalogAssumption DEF Init
<1>5. QED
  BY <1>1, <1>2, <1>3, <1>4 DEF W!Init

(* The store with all its writers and readers implements Watch: a verdict   *)
(* is one that an evaluation in one instant could have given, although      *)
(* freshnessFor and Reconcile read Stand, links, issues and stamps in       *)
(* transactions of their own while the sync jobs write.                     *)
THEOREM ImplementsWatch == Spec => EvaluatesAtomically
<1>1. Init => W!Init
  BY InitImplements
<1>2. TypeOK /\ Sound /\ BaseInv /\ [Next]_vars => [W!Next]_(W!vars)
  BY StepImplements
<1>3. QED
  BY <1>1, <1>2, TypeCorrect, SoundInvariant, BaseInvariant, PTL DEF Spec, EvaluatesAtomically, W!Spec

=============================================================================
