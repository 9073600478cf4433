----------------------------- MODULE Discovery -----------------------------
(***************************************************************************)
(* The links from parent laws to ordinances: IngestLawXML writes them from *)
(* the text of an ordinance (at startup, on a recheck, on an export), and  *)
(* the evaluation of a parent reads them, reads the ordinances they name,  *)
(* and proves the citations of the parent.  Every method of the store is   *)
(* one transaction; an ingest and an evaluation are many of them.          *)
(*                                                                         *)
(* The sync stamps are fresh here (their age is in SyncMeta) and the       *)
(* parent has no gazette issue of its own (they are in GazetteStore).  The *)
(* reads one evaluation step makes of several ordinances are one action.   *)
(***************************************************************************)
EXTENDS LinkedProof

CONSTANTS
    Parents,      \* the laws that may have linked ordinances
    Seeds,        \* linked_instruments.tsv: the rows of each parent, by slug
    Families,     \* fortschreibung_families.tsv: the families of each parent
    Editorial,    \* meta editorial:<law>: the citations in the notes of a law
    ParentStand,  \* the issue number the Stand of each parent names
    Versions,     \* what GII serves of each ordinance, one text after the other
    InTOC,        \* the ordinances the table of contents lists
    Gesetze,      \* those whose title there is that of a Gesetz
    Amendments,   \* the gazette issues the feed will link: <<ordinance, number>>
    Ingestors,    \* goroutines that ingest the text of an ordinance
    Evals,        \* goroutines that evaluate a parent
    Requests,     \* the requests clients make: <<ordinance, "recheck" or "export">>
    MaxPerCycle,  \* config.DiscoveryMaxPerCycle
    MaxDay,       \* bound on the days
    MaxIssue,     \* bound on the numbers of the gazette issues
    MaxFailures,  \* bound on failed store writes
    MaxRestarts   \* bound on process restarts

Issues == 1..MaxIssue
Numbers == 0..MaxIssue
Days == 1..MaxDay
Laws == Parents \cup Slug

(* A text has the issue of its Fundstelle, 0 if none can be parsed, and per *)
(* parent the sections its Ermaechtigung names, joined; NoSection if the    *)
(* parent is not, or not uniquely, named.                                   *)
Section == STRING \cup {NoSection}
Text == [number : Numbers, hint : [Parents -> Section]]

ASSUME SourcesAssumption ==
    /\ Versions \in [Slug -> Seq(Text)]
    /\ \A v \in Slug : Len(Versions[v]) > 0
    /\ ParentStand \in [Parents -> Numbers]
    /\ InTOC \subseteq Slug /\ Gesetze \subseteq InTOC
    /\ Amendments \subseteq Slug \X Issues
    /\ Requests \subseteq Slug \X {"recheck", "export"}
    /\ \A p \in Parents :
          /\ DOMAIN Seeds[p] \subseteq Slug
          /\ \A v \in DOMAIN Seeds[p] : Seeds[p][v].source = "seeded" /\ Seeds[p][v].from \in Nat
    /\ DOMAIN Editorial = Laws
    /\ Parents \cap Slug = {}

ASSUME BoundAssumption ==
    /\ MaxPerCycle \in Nat /\ MaxDay \in Nat \ {0} /\ MaxIssue \in Nat
    /\ MaxFailures \in Nat /\ MaxRestarts \in Nat

VARIABLES
    today,     \* the day of time.Now()
    version,   \* which text of each ordinance GII serves
    amended,   \* the latest gazette issue linked to each ordinance, 0 for none
    catalog,   \* bucket laws: "absent", "stub" (EnsureLawFromSlug) or "toc"
    stands,    \* bucket stands: the issue number of each ordinance, 0 for none
    edges,     \* bucket discovered_links
    index,     \* bucket bgbl_index
    ingested,  \* meta discovery_ingested:<law>
    queued,    \* meta discovery_queue:<law>
    ingest,    \* where each ingest stands
    booted,    \* InitialSync has run its discovery
    eval,      \* where each evaluation stands
    records,   \* bucket freshness, of the parents
    failures,  \* failed writes so far
    restarts   \* restarts so far

vars == <<today, version, amended, catalog, stands, edges, index, ingested, queued,
          ingest, booted, eval, records, failures, restarts>>
sources == <<today, version, amended>>
discovered == <<edges, index, ingested, queued>>
faultCounts == <<failures, restarts>>

NoEdge == [number |-> 0, section |-> NoSection]
EdgeOf(text, p) ==
    IF text.number # 0 /\ text.hint[p] # NoSection
    THEN [number |-> text.number, section |-> text.hint[p]]
    ELSE NoEdge
(* Only edges of high confidence are kept: a unique parent, a section and a *)
(* Fundstelle.                                                              *)
HighParents(text) == {p \in Parents : EdgeOf(text, p) # NoEdge}

NoText == [number |-> 0, hint |-> [p \in Parents |-> NoSection]]
IdleIngest == [pc |-> "idle", kind |-> "", slug |-> NoSlug, text |-> NoText,
               todo |-> {}, queue |-> {}, rest |-> {}, done |-> 0]
NoParent == "none"
IdleEval == [pc |-> "idle", parent |-> NoParent, today |-> 0, overdue |-> {}, rows |-> <<>>,
             refs |-> <<>>, issues |-> {}, stands |-> <<>>, indexed |-> <<>>,
             resolutions |-> <<>>, at |-> 1]

Citations == {<<0, 0>>} \cup (Issues \X {0})
IngestPcs == {"idle", "next", "stand", "upsertStand", "xml", "index", "delete", "upsert",
              "xmlAgain", "indexAgain", "deleteAgain", "upsertAgain", "mark", "unqueue"}

TypeOK ==
    /\ today \in Days
    /\ \A v \in Slug : version[v] \in DOMAIN Versions[v]
    /\ amended \in [Slug -> Numbers]
    /\ catalog \in [Slug -> {"absent", "stub", "toc"}]
    /\ stands \in [Slug -> Numbers]
    /\ edges \in [Parents \X Slug -> [number : Numbers, section : Section]]
    /\ index \in [Citations -> Slug \cup {NoSlug}]
    /\ ingested \subseteq Slug /\ queued \subseteq Slug
    /\ booted \in BOOLEAN
    /\ \A i \in Ingestors :
          /\ ingest[i].pc \in IngestPcs
          /\ ingest[i].slug \in Slug \cup {NoSlug}
          /\ ingest[i].text \in Text
          /\ ingest[i].todo \subseteq HighParents(ingest[i].text)
          /\ ingest[i].done \in 0..MaxPerCycle
    /\ \A e \in Evals :
          /\ eval[e].pc \in {"idle", "edges", "evidence", "stubs", "resolve", "prove", "put"}
          /\ eval[e].pc # "idle" => eval[e].parent \in Parents
          /\ eval[e].at \in Nat \ {0}
    /\ records \in [Parents -> States \cup {"none"}]
    /\ failures \in 0..MaxFailures
    /\ restarts \in 0..MaxRestarts

Init ==
    /\ today = 1
    /\ version = [v \in Slug |-> 1]
    /\ amended = [v \in Slug |-> 0]
    /\ catalog = [v \in Slug |-> "absent"]
    /\ stands = [v \in Slug |-> 0]
    /\ edges = [k \in Parents \X Slug |-> NoEdge]
    /\ index = [c \in Citations |-> NoSlug]
    /\ ingested = {} /\ queued = {}
    /\ ingest = [i \in Ingestors |-> IdleIngest]
    /\ booted = FALSE
    /\ eval = [e \in Evals |-> IdleEval]
    /\ records = [p \in Parents |-> "none"]
    /\ failures = 0 /\ restarts = 0

-----------------------------------------------------------------------------
(* The environment.                                                         *)

NextDay ==
    /\ today < MaxDay
    /\ today' = today + 1
    /\ UNCHANGED <<version, amended, catalog, stands, discovered, ingest, booted, eval,
                   records, faultCounts>>

(* GII serves another text of an ordinance.                                 *)
PublishText(v) ==
    /\ version[v] < Len(Versions[v])
    /\ version' = [version EXCEPT ![v] = @ + 1]
    /\ UNCHANGED <<today, amended, catalog, stands, discovered, ingest, booted, eval,
                   records, faultCounts>>

(* RunGIIFeed links an issue to an ordinance and queues it.                 *)
Amend(v, n) ==
    /\ <<v, n>> \in Amendments
    /\ catalog[v] # "absent"
    /\ n > amended[v]
    /\ amended' = [amended EXCEPT ![v] = n]
    /\ queued' = queued \cup ({v} \ Gesetze)
    /\ UNCHANGED <<today, version, catalog, stands, edges, index, ingested, ingest, booted,
                   eval, records, faultCounts>>

RunTOC ==
    /\ catalog' = [v \in Slug |-> IF v \in InTOC THEN "toc" ELSE catalog[v]]
    /\ UNCHANGED <<sources, stands, discovered, ingest, booted, eval, records, faultCounts>>

-----------------------------------------------------------------------------
(* IngestLawXML and its callers.                                            *)

IngestOnly == UNCHANGED <<sources, catalog, eval, records, restarts>>
Served(v) == Versions[v][version[v]]

(* DiscoverOrdinances, once per start: the candidates, queued ones first.   *)
BeginDiscovery(i) ==
    /\ ingest[i].pc = "idle"
    /\ ~booted
    /\ booted' = TRUE
    /\ LET candidates == {v \in Slug \ Gesetze : catalog[v] # "absent"}
       IN  ingest' = [ingest EXCEPT ![i] =
                        [IdleIngest EXCEPT !.pc = "next", !.kind = "initial",
                                           !.queue = candidates \cap queued,
                                           !.rest = candidates \ queued]]
    /\ IngestOnly
    /\ UNCHANGED <<stands, discovered, failures>>

(* Mutant: no limit on the ordinances of a cycle.                           *)
MutantNoCap(i, v) ==
    /\ ingest[i].pc = "next"
    /\ v \in IF ingest[i].queue # {} THEN ingest[i].queue ELSE ingest[i].rest
    /\ ingest' = [ingest EXCEPT ![i].queue = @ \ {v}, ![i].rest = @ \ {v},
                                ![i].slug = IF v \in ingested THEN NoSlug ELSE v,
                                ![i].pc = IF v \in ingested THEN "next" ELSE "stand"]
    /\ IngestOnly
    /\ UNCHANGED <<stands, discovered, booted, failures>>

(* The next candidate; one that is marked as ingested is passed over.       *)
NextCandidate(i, v) ==
    /\ ingest[i].pc = "next"
    /\ ingest[i].done < MaxPerCycle
    /\ v \in IF ingest[i].queue # {} THEN ingest[i].queue ELSE ingest[i].rest
    /\ ingest' = [ingest EXCEPT ![i].queue = @ \ {v}, ![i].rest = @ \ {v},
                                ![i].slug = IF v \in ingested THEN NoSlug ELSE v,
                                ![i].pc = IF v \in ingested THEN "next" ELSE "stand"]
    /\ IngestOnly
    /\ UNCHANGED <<stands, discovered, booted, failures>>

EndDiscovery(i) ==
    /\ ingest[i].pc = "next"
    /\ ingest[i].done = MaxPerCycle \/ (ingest[i].queue \cup ingest[i].rest = {})
    /\ ingest' = [ingest EXCEPT ![i] = IdleIngest]
    /\ IngestOnly
    /\ UNCHANGED <<stands, discovered, booted, failures>>

(* ForceRecheck refreshes a linked ordinance through RefreshStandForLaw;    *)
(* exportLaw only fetches and ingests its text (an ordinance alone).        *)
BeginRequest(i, v, kind) ==
    /\ ingest[i].pc = "idle"
    /\ <<v, kind>> \in Requests
    /\ catalog[v] # "absent"
    /\ kind = "export" => v \notin Gesetze
    /\ ingest' = [ingest EXCEPT ![i] =
                    [IdleIngest EXCEPT !.pc = IF kind = "recheck" THEN "stand" ELSE "xml",
                                       !.kind = kind, !.slug = v]]
    /\ IngestOnly
    /\ UNCHANGED <<stands, discovered, booted, failures>>

(* Where an ingest goes when it is over, or given up.                       *)
Over(ing) ==
    IF ing.kind = "initial"
    THEN [ing EXCEPT !.pc = "next", !.slug = NoSlug, !.text = NoText, !.todo = {}]
    ELSE IdleIngest

(* The first ingest of DiscoverOrdinances (inside refreshStandForLaw) is    *)
(* followed by a second one of its own.                                     *)
FirstOver(ing) ==
    IF ing.kind = "initial"
    THEN [ing EXCEPT !.pc = "xmlAgain", !.text = NoText, !.todo = {}]
    ELSE IdleIngest

FetchStand(i) ==
    /\ ingest[i].pc = "stand"
    /\ ingest' = [ingest EXCEPT ![i].text = Served(ingest[i].slug),
                                ![i].pc = IF Served(ingest[i].slug).number = 0 THEN "xml"
                                          ELSE "upsertStand"]
    /\ IngestOnly
    /\ UNCHANGED <<stands, discovered, booted, failures>>

UpsertStand(i) ==
    /\ ingest[i].pc = "upsertStand"
    /\ stands' = [stands EXCEPT ![ingest[i].slug] = ingest[i].text.number]
    /\ ingest' = [ingest EXCEPT ![i].pc = "xml"]
    /\ IngestOnly
    /\ UNCHANGED <<discovered, booted, failures>>

FetchXML(i) ==
    /\ ingest[i].pc \in {"xml", "xmlAgain"}
    /\ ingest' = [ingest EXCEPT ![i].text = Served(ingest[i].slug),
                                ![i].pc = IF @ = "xml" THEN "index" ELSE "indexAgain"]
    /\ IngestOnly
    /\ UNCHANGED <<stands, discovered, booted, failures>>

(* A request to GII fails.  refreshStandForLaw gives up with an error when  *)
(* neither page nor text can be had, and without one when only the text     *)
(* fails; the second ingest gives up.                                       *)
FetchFails(i) ==
    /\ ingest[i].pc \in {"stand", "xml", "xmlAgain"}
    /\ \/ /\ ingest[i].pc # "xml"
          /\ ingest' = [ingest EXCEPT ![i] = Over(@)]
       \/ /\ ingest[i].pc # "xmlAgain"
          /\ ingest' = [ingest EXCEPT ![i] = FirstOver(@)]
    /\ IngestOnly
    /\ UNCHANGED <<stands, discovered, booted, failures>>

UpsertBGBlIndex(i) ==
    /\ ingest[i].pc \in {"index", "indexAgain"}
    /\ LET text == ingest[i].text
       IN  index' = IF text.number = 0 THEN index
                    ELSE [index EXCEPT ![<<text.number, 0>>] = ingest[i].slug]
    /\ ingest' = [ingest EXCEPT ![i].pc = IF @ = "index" THEN "delete" ELSE "deleteAgain"]
    /\ IngestOnly
    /\ UNCHANGED <<stands, edges, ingested, queued, booted, failures>>

(* Mutant: prior edges are left in place.                                   *)
MutantKeepPrior(i) ==
    /\ ingest[i].pc \in {"delete", "deleteAgain"}
    /\ ingest' = [ingest EXCEPT ![i].todo = HighParents(ingest[i].text),
                                ![i].pc = IF @ = "delete" THEN "upsert" ELSE "upsertAgain"]
    /\ IngestOnly
    /\ UNCHANGED <<stands, edges, index, ingested, queued, booted, failures>>

(* Prior edges of the ordinance go only when there are new ones.            *)
DeleteDiscoveredBySlug(i) ==
    /\ ingest[i].pc \in {"delete", "deleteAgain"}
    /\ LET high == HighParents(ingest[i].text)
       IN  /\ edges' = IF high = {} THEN edges
                       ELSE [k \in Parents \X Slug |->
                               IF k[2] = ingest[i].slug THEN NoEdge ELSE edges[k]]
           /\ ingest' = [ingest EXCEPT ![i].todo = high,
                                       ![i].pc = IF @ = "delete" THEN "upsert" ELSE "upsertAgain"]
    /\ IngestOnly
    /\ UNCHANGED <<stands, index, ingested, queued, booted, failures>>

UpsertDiscoveredLink(i, p) ==
    /\ ingest[i].pc \in {"upsert", "upsertAgain"}
    /\ p \in ingest[i].todo
    /\ edges' = [edges EXCEPT ![<<p, ingest[i].slug>>] = EdgeOf(ingest[i].text, p)]
    /\ ingest' = [ingest EXCEPT ![i].todo = @ \ {p}]
    /\ IngestOnly
    /\ UNCHANGED <<stands, index, ingested, queued, booted, failures>>

EndIngest(i) ==
    /\ ingest[i].pc \in {"upsert", "upsertAgain"}
    /\ ingest[i].todo = {}
    /\ ingest' = [ingest EXCEPT ![i] = IF @.pc = "upsert" THEN FirstOver(@)
                                       ELSE [@ EXCEPT !.pc = "mark"]]
    /\ IngestOnly
    /\ UNCHANGED <<stands, discovered, booted, failures>>

(* The errors of the two writes after an ordinance are dropped.             *)
LastWriteFails == failures < MaxFailures /\ failures' = failures + 1

MarkIngested(i) ==
    /\ ingest[i].pc = "mark"
    /\ \/ ingested' = ingested \cup {ingest[i].slug} /\ UNCHANGED failures
       \/ LastWriteFails /\ UNCHANGED ingested
    /\ ingest' = [ingest EXCEPT ![i].pc = "unqueue"]
    /\ IngestOnly
    /\ UNCHANGED <<stands, edges, index, queued, booted>>

Unqueue(i) ==
    /\ ingest[i].pc = "unqueue"
    /\ \/ queued' = queued \ {ingest[i].slug} /\ UNCHANGED failures
       \/ LastWriteFails /\ UNCHANGED queued
    /\ LET over == Over(ingest[i])
       IN  ingest' = [ingest EXCEPT ![i] = [over EXCEPT !.done = over.done + 1]]
    /\ IngestOnly
    /\ UNCHANGED <<stands, edges, index, ingested, booted>>

(* Another write of an ingest fails: the ingest ends there.                       *)
IngestWriteFails(i) ==
    /\ failures < MaxFailures
    /\ failures' = failures + 1
    /\ \/ /\ ingest[i].pc \in {"index", "delete", "upsert"}
          /\ ingest[i].pc = "upsert" => ingest[i].todo # {}
          /\ ingest' = [ingest EXCEPT ![i] = FirstOver(@)]
       \/ /\ ingest[i].pc \in {"upsertStand", "indexAgain", "deleteAgain", "upsertAgain"}
          /\ ingest[i].pc = "upsertAgain" => ingest[i].todo # {}
          /\ ingest' = [ingest EXCEPT ![i] = Over(@)]
    /\ IngestOnly
    /\ UNCHANGED <<stands, discovered, booted>>

IngestStep(i) ==
    \/ (\E v \in Slug : NextCandidate(i, v))
    \/ EndDiscovery(i) \/ FetchStand(i) \/ UpsertStand(i) \/ FetchXML(i)
    \/ UpsertBGBlIndex(i) \/ DeleteDiscoveredBySlug(i)
    \/ (\E p \in Parents : UpsertDiscoveredLink(i, p))
    \/ EndIngest(i) \/ MarkIngested(i) \/ Unqueue(i)

-----------------------------------------------------------------------------
(* The evaluation of a parent, by Reconcile or freshnessFor.                *)

EvalOnly == UNCHANGED <<sources, stands, discovered, ingest, booted, faultCounts>>

StandCitation(number) ==
    [parseOK |-> number # 0, teil |-> 1, year |-> 1, number |-> <<number, 0>>,
     page |-> 0, date |-> NoTime]
Stand(v) == StandCitation(stands[v])
GazetteIssue(n) ==
    [id |-> n, teil |-> 1, year |-> 1, number |-> <<n, 0>>, title |-> "", published |-> NoTime]
StoredIssues == {amended[v] : v \in Slug} \ {0}

(* What Evaluate is given when the stamps are fresh and the links readable. *)
EvalInput(stand, linked, refs, issues, hasSeeded, proofAware, resolutions) ==
    [now |-> 1, toc |-> 1, gii |-> 1, bgbl |-> 1, probeOnly |-> FALSE,
     linksReadFailed |-> FALSE, stand |-> stand,
     linked |-> linked, classes |-> [n \in {x.id : x \in linked} |-> "confirmed"],
     refs |-> refs, instrIssues |-> issues, hasSeeded |-> hasSeeded,
     proofAware |-> proofAware, resolutions |-> resolutions]

(* The text of an ordinance does not reflect a gazette issue linked to it.  *)
Amended(v) == amended[v] > stands[v] /\ stands[v] # 0

(* An evaluation begins.  Nothing is read yet; for LinkedParentNeedsProof   *)
(* we remember which of the linked ordinances are already amended.          *)
BeginEval(e, p) ==
    /\ eval[e].pc = "idle"
    /\ eval' = [eval EXCEPT ![e] =
                  [IdleEval EXCEPT !.pc = "edges", !.parent = p, !.today = today,
                                   !.overdue = {v \in Slug : edges[<<p, v>>] # NoEdge /\ Amended(v)}]]
    /\ EvalOnly
    /\ UNCHANGED <<catalog, records>>

StoredEdges(p) ==
    [v \in {u \in Slug : edges[<<p, u>>] # NoEdge} |->
        [notes |-> <<Citation("", edges[<<p, v>>].number, NoSection)>>,
         section |-> edges[<<p, v>>].section]]

(* linkedInstrumentsFor and FilterOperativeLinked; only the table of        *)
(* contents knows that an ordinance is none.                                *)
ReadEdges(e) ==
    /\ eval[e].pc = "edges"
    /\ LET p == eval[e].parent
           known == {v \in Slug : catalog[v] # "absent"}
           rows == LinkedInstrumentsFor(Seeds[p], Families[p], StoredEdges(p), known)
           soft == {v \in Gesetze : catalog[v] = "toc"}
       IN  eval' = [eval EXCEPT ![e].pc = "evidence",
                                ![e].rows = FilterOperativeLinked(rows, soft)]
    /\ EvalOnly
    /\ UNCHANGED <<catalog, records>>

ReadEvidence(e) ==
    /\ eval[e].pc = "evidence"
    /\ LET p == eval[e].parent
           refs == CollectEvidence(StandCitation(ParentStand[p]), Editorial[p], eval[e].rows,
                                   [v \in DOMAIN eval[e].rows |-> Stand(v)])
       IN  eval' = [eval EXCEPT ![e].pc = "stubs",
                                ![e].refs = refs,
                                ![e].issues = {n \in StoredIssues :
                                                \E r \in ToSet(refs) : r.number = <<n, 0>>}]
    /\ EvalOnly
    /\ UNCHANGED <<catalog, records>>

(* EnsureLawFromSlug for every row.                                         *)
EnsureStubs(e) ==
    /\ eval[e].pc = "stubs"
    /\ catalog' = [v \in Slug |-> IF v \in DOMAIN eval[e].rows /\ catalog[v] = "absent"
                                  THEN "stub" ELSE catalog[v]]
    /\ eval' = [eval EXCEPT ![e].pc = "resolve"]
    /\ EvalOnly
    /\ UNCHANGED records

Status(ev) == AnnotateChain(ev.rows, ev.today)

(* BuildChildStands and ResolveOperativeVRefs.                              *)
Resolve(e) ==
    /\ eval[e].pc = "resolve"
    /\ LET ev == eval[e]
           childStands == [v \in DOMAIN ev.rows |-> Stand(v)]
           current == [c \in {d \in Citations : index[d] # NoSlug} |-> index[c]]
       IN  eval' = [eval EXCEPT
                      ![e].pc = "prove", ![e].stands = childStands, ![e].indexed = current,
                      ![e].resolutions =
                          ResolveOperativeVRefs(ev.refs, ev.rows, Status(ev), childStands,
                                                current, StandCitation(ParentStand[ev.parent]))]
    /\ EvalOnly
    /\ UNCHANGED <<catalog, records>>

(* EvaluateLeafChildFreshness: its own Stand, notes and links, and nothing  *)
(* of the ordinances linked to it.                                          *)
LeafRefs(v) == DedupeRefs(StandRefs(Stand(v)) \o Editorial[v])
EvaluateLeaf(v) ==
    Evaluate(EvalInput(Stand(v),
                       {GazetteIssue(n) : n \in {amended[v]} \ {0}},
                       ToSet(LeafRefs(v)),
                       {GazetteIssue(n) : n \in {m \in StoredIssues :
                            \E r \in ToSet(LeafRefs(v)) : r.number = <<m, 0>>}},
                       FALSE, FALSE, <<>>)).state

(* EvaluateLeafChildFreshness and ApplyChildFreshnessProof for one citation *)
(* after the other; then the past ordinances.                               *)
ProveNext(e) ==
    /\ eval[e].pc = "prove"
    /\ LET i == eval[e].at
           res == eval[e].resolutions
       IN  IF i > Len(res)
           THEN eval' = [eval EXCEPT ![e].pc = "put",
                            ![e].resolutions =
                                MarkSupersededPastKindV(res, eval[e].rows, Status(eval[e]),
                                                        eval[e].stands)]
           ELSE eval' = [eval EXCEPT ![e].at = i + 1,
                            ![e].resolutions[i] =
                                ApplyChildFreshnessProof(
                                    res[i],
                                    IF NeedsChild(res[i]) THEN EvaluateLeaf(res[i].slug) ELSE "")]
    /\ EvalOnly
    /\ UNCHANGED <<catalog, records>>

Conclusion(ev) ==
    Evaluate(EvalInput(StandCitation(ParentStand[ev.parent]), {}, ToSet(ev.refs),
                       {GazetteIssue(n) : n \in ev.issues},
                       DOMAIN ev.rows # {}, TRUE, ev.resolutions)).state

PutFreshness(e) ==
    /\ eval[e].pc = "put"
    /\ records' = [records EXCEPT ![eval[e].parent] = Conclusion(eval[e])]
    /\ eval' = [eval EXCEPT ![e] = IdleEval]
    /\ EvalOnly
    /\ UNCHANGED catalog

EvalStep(e) ==
    \/ ReadEdges(e) \/ ReadEvidence(e) \/ EnsureStubs(e) \/ Resolve(e)
    \/ ProveNext(e) \/ PutFreshness(e)

-----------------------------------------------------------------------------

(* The process is killed; only the store survives.                          *)
Restart ==
    /\ restarts < MaxRestarts
    /\ restarts' = restarts + 1
    /\ ingest' = [i \in Ingestors |-> IdleIngest]
    /\ eval' = [e \in Evals |-> IdleEval]
    /\ booted' = FALSE
    /\ UNCHANGED <<sources, catalog, stands, discovered, records, failures>>

Next ==
    \/ NextDay
    \/ (\E v \in Slug : PublishText(v))
    \/ (\E v \in Slug, n \in Issues : Amend(v, n))
    \/ RunTOC
    \/ (\E i \in Ingestors : BeginDiscovery(i))
    \/ (\E i \in Ingestors, v \in Slug, kind \in {"recheck", "export"} : BeginRequest(i, v, kind))
    \/ (\E i \in Ingestors : IngestStep(i) \/ FetchFails(i) \/ IngestWriteFails(i))
    \/ (\E e \in Evals, p \in Parents : BeginEval(e, p))
    \/ (\E e \in Evals : EvalStep(e))
    \/ Restart

Spec == Init /\ [][Next]_vars

(* The Reconcile timer comes again and again for every parent, and an       *)
(* evaluation that has begun ends: it waits for nobody.  Ingests wait for a *)
(* restart or a request, and may hang in a request to GII.                  *)
FairSpec ==
    /\ Spec
    /\ \A p \in Parents : SF_vars(\E e \in Evals : BeginEval(e, p))
    /\ \A e \in Evals : []<>(eval[e].pc = "idle")

-----------------------------------------------------------------------------
(* Properties.                                                              *)

(* ingest.go:484-493, store/discovery.go:80: the edges of an ordinance are  *)
(* always edges of one of its texts, never a mix of two, also in the middle *)
(* of an ingest and after one that was killed or failed.  (For ingests one  *)
(* at a time: two of the same ordinance can leave a mix.)                   *)
NoMixedAttribution ==
    \A v \in Slug :
        \E k \in 1..version[v] :
            \A p \in Parents : edges[<<p, v>>] \in {NoEdge, EdgeOf(Versions[v][k], p)}

(* vref_resolve.go:34, README.md:82: when an evaluation concludes that a    *)
(* parent is current, every citation it had to prove has been resolved: an  *)
(* ordinance in force carries it (in its notes or Stand, or by the index as *)
(* it was read) and was confirmed; or, not being a V citation, one that is  *)
(* past carries it and no two in force do; or, being one, one that is past  *)
(* does and another one in force was confirmed in the section of the        *)
(* citation, or else of all the past ones.  The resolution names the issue, *)
(* kind and section of the citation (eval.go:331-343).                      *)
MustBeProven(ev, r) ==
    /\ HasIdentity(r) /\ ~StandReflectsRef(StandCitation(ParentStand[ev.parent]), r)
    /\ \/ r.kind = "V"
       \/ r.kind = "BEK" /\ r.section # NoSection
       \/ r.kind = "" /\ DOMAIN ev.rows # {}

Confirmed(ev) == ConfirmedSlugs(ev.resolutions)
Carriers(ev, r, among) ==
    {s \in among : \E n \in ToSet(ev.rows[s].notes) \cup ToSet(StandRefs(ev.stands[s])) :
                       SameIdentity(n, r)}
Carried(ev, r) ==
    \E s \in CurrentRows(Status(ev)) \cap Confirmed(ev) :
        \/ s \in Carriers(ev, r, CurrentRows(Status(ev)))
        \/ r.number \in DOMAIN ev.indexed /\ ev.indexed[r.number] = s
OnlyPast(ev, r) ==
    /\ r.kind # "V"
    /\ Carriers(ev, r, PastRows(Status(ev))) # {}
    /\ Cardinality(Carriers(ev, r, CurrentRows(Status(ev)))) <= 1
Replaced(ev, r) ==
    LET past == Carriers(ev, r, PastRows(Status(ev)))
    IN  /\ r.kind = "V" /\ past # {}
        /\ \E s \in CurrentRows(Status(ev)) \cap Confirmed(ev) :
              /\ ev.rows[s].section # NoSection
              /\ IF r.section # NoSection THEN ev.rows[s].section = r.section
                 ELSE \A t \in past : ev.rows[s].section = ev.rows[t].section
ProvenBy(ev, r) == Carried(ev, r) \/ OnlyPast(ev, r) \/ Replaced(ev, r)

ProofHasChild ==
    \A e \in Evals :
        eval[e].pc = "put" /\ Conclusion(eval[e]) = "confirmed_current" =>
            \A r \in ToSet(eval[e].refs) : MustBeProven(eval[e], r) =>
                \E res \in ToSet(eval[e].resolutions) :
                    RefIdentityEqual(res.ref, r) /\ ProvenBy(eval[e], res.ref)

(* chain.go:19-90: on any day exactly one dated row of a section is current *)
(* when one is in force, and it is one of the latest.                       *)
OneCurrentPerSection ==
    \A e \in Evals :
        LET ev == eval[e]
            inForce(x) == {s \in DOMAIN ev.rows : ev.rows[s].section = x
                              /\ ev.rows[s].from \in 1..ev.today}
        IN  ev.pc # "idle" =>
            \A x \in {ev.rows[s].section : s \in DOMAIN ev.rows} :
                inForce(x) # {} =>
                    \E s \in inForce(x) :
                        /\ \A t \in inForce(x) : ev.rows[t].from <= ev.rows[s].from
                        /\ {t \in inForce(x) : Status(ev)[t] = "current"} = {s}

(* bundle.go:123, chain.go:111: what an evaluation rests its proof on, the  *)
(* operative bundle of the parent contains (an undated seeded row, which    *)
(* bundles always drop, apart).                                             *)
ProofIsInBundle ==
    \A e \in Evals :
        eval[e].pc = "put" =>
            \A s \in Confirmed(eval[e]) :
                \/ s \in FilterBundleMembers(eval[e].rows, Status(eval[e]), FALSE)
                \/ eval[e].rows[s].source = "seeded" /\ eval[e].rows[s].from = Undated

(* README.md:82: once an ordinance has a gazette issue its text does not    *)
(* reflect, and stays linked, a parent to which it is linked by its text    *)
(* alone does not stay current.                                             *)
RestsOn(p, v) ==
    /\ edges[<<p, v>>] # NoEdge
    /\ edges[<<p, v>>].number # ParentStand[p]
    /\ v \notin DOMAIN Seeds[p]
AmendedChildEndsCurrent ==
    \A p \in Parents, v \in Slug :
        <>[](Amended(v) /\ RestsOn(p, v)) => <>[](records[p] # "confirmed_current")

(* README.md:82: "Parents with linked ordinances stay uncertain until each  *)
(* operative citation is proven against a current linked child": an         *)
(* evaluation that began when an amended ordinance was linked does not      *)
(* conclude that the parent is current while that ordinance still is        *)
(* amended.                                                                 *)
LinkedParentNeedsProof ==
    \A e \in Evals :
        eval[e].pc = "put" /\ Conclusion(eval[e]) = "confirmed_current" =>
            \A v \in eval[e].overdue : ~Amended(v)

=============================================================================
