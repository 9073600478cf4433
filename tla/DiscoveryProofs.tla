--------------------------- MODULE DiscoveryProofs ---------------------------
(***************************************************************************)
(* Theorems about Discovery, for any laws, texts, seeds, families and      *)
(* citations, and any number of ingests and evaluations at once.           *)
(***************************************************************************)
EXTENDS Discovery, FiniteSetTheorems, WellFoundedInduction, TLAPS

-----------------------------------------------------------------------------
(* Type correctness.  TypeOK is not inductive: an ingest marks and counts   *)
(* the ordinance it has carried along since it began, and an evaluation     *)
(* rests on rows of a known shape.                                          *)

IngestRecord == [pc : IngestPcs, kind : {"", "initial", "recheck", "export"},
                 slug : Slug \cup {NoSlug}, text : Text, todo : SUBSET Parents,
                 queue : SUBSET Slug, rest : SUBSET Slug, done : 0..MaxPerCycle]

(* What an ingest carries along at each step; only DiscoverOrdinances gets  *)
(* to a second ingest, and it has not reached its limit then.               *)
CarriesSlug(ing) ==
    /\ ing.pc \notin {"idle", "next"} => ing.slug \in Slug
    /\ ing.pc \notin {"idle", "next"} /\ ing.kind = "initial" => ing.done < MaxPerCycle
    /\ ing.pc \in {"xmlAgain", "indexAgain", "deleteAgain", "upsertAgain", "mark", "unqueue"}
          => ing.kind = "initial"
    /\ ing.pc \notin {"upsert", "upsertAgain"} => ing.todo = {}
    /\ ing.todo \subseteq HighParents(ing.text)

(* A row is seeded, or was found with high confidence.                      *)
RowTypes(rows) ==
    /\ DOMAIN rows \subseteq Slug
    /\ \A s \in DOMAIN rows :
          /\ rows[s].from \in Nat
          /\ \/ rows[s].source = "seeded"
             \/ rows[s].source = "discovered" /\ rows[s].confidence = "high"

EvalPcs == {"idle", "edges", "evidence", "stubs", "resolve", "prove", "put"}
EvalFields == {"pc", "parent", "today", "overdue", "rows", "refs", "issues", "stands", "indexed",
               "resolutions", "at"}
IsEval(ev) == ev = [f \in EvalFields |-> ev[f]]
EvalTypes(ev) ==
    /\ IsEval(ev)
    /\ ev.pc \in EvalPcs
    /\ ev.pc # "idle" => ev.parent \in Parents /\ ev.today \in Days
    /\ ev.at \in Nat \ {0}
    /\ RowTypes(ev.rows)

TypeInv ==
    /\ today \in Days
    /\ version \in [Slug -> Nat] /\ \A v \in Slug : version[v] \in DOMAIN Versions[v]
    /\ amended \in [Slug -> Numbers]
    /\ catalog \in [Slug -> {"absent", "stub", "toc"}]
    /\ stands \in [Slug -> Numbers]
    /\ edges \in [Parents \X Slug -> [number : Numbers, section : Section]]
    /\ index \in [Citations -> Slug \cup {NoSlug}]
    /\ ingested \subseteq Slug /\ queued \subseteq Slug
    /\ booted \in BOOLEAN
    /\ ingest \in [Ingestors -> IngestRecord] /\ \A i \in Ingestors : CarriesSlug(ingest[i])
    /\ DOMAIN eval = Evals /\ \A e \in Evals : EvalTypes(eval[e])
    /\ records \in [Parents -> States \cup {"none"}]
    /\ failures \in 0..MaxFailures
    /\ restarts \in 0..MaxRestarts

LEMMA SlugIsFinite == IsFiniteSet(Slug) /\ NoSlug \notin Slug
<1>1. Slugs \in Seq(STRING)
  BY SlugsAssumption
<1>2. IsFiniteSet(1..Len(Slugs))
  BY <1>1, FS_Interval
<1>3. Slug = {Slugs[i] : i \in 1..Len(Slugs)}
  BY <1>1 DEF Slug, ToSet
<1>4. IsFiniteSet(Slug)
  <2> DEFINE f == [i \in 1..Len(Slugs) |-> Slugs[i]]
  <2>1. f \in Surjection(1..Len(Slugs), Slug)
    BY <1>3 DEF Surjection
  <2>2. QED
    BY <1>2, <2>1, FS_Surjection
<1>5. QED
  BY <1>4, SlugsAssumption DEF Slug

LEMMA TextsOfSlug ==
    ASSUME NEW v \in Slug
    PROVE  /\ Versions[v] \in Seq(Text) /\ Len(Versions[v]) \in Nat \ {0}
           /\ DOMAIN Versions[v] = 1..Len(Versions[v]) /\ 1 \in DOMAIN Versions[v]
           /\ \A k \in DOMAIN Versions[v] : Versions[v][k] \in Text
<1>1. Versions[v] \in Seq(Text) /\ Len(Versions[v]) > 0
  BY SourcesAssumption
<1>2. QED
  BY <1>1

LEMMA NumbersAreNat == Numbers \subseteq Nat /\ 0 \in Numbers /\ Issues \subseteq Numbers
BY BoundAssumption DEF Numbers, Issues

LEMMA ServedIsText ==
    ASSUME TypeInv, NEW v \in Slug
    PROVE  Served(v) \in Text
BY TextsOfSlug DEF TypeInv, Served

LEMMA EdgeIsTyped ==
    ASSUME NEW text \in Text, NEW p \in Parents
    PROVE  EdgeOf(text, p) \in [number : Numbers, section : Section]
<1>1. NoSection \in Section
  BY DEF Section
<1>2. text.number \in Numbers /\ text.hint[p] \in Section
  BY DEF Text
<1>3. QED
  BY <1>1, <1>2, NumbersAreNat DEF EdgeOf, NoEdge

LEMMA IdleTypes ==
    /\ IdleIngest \in IngestRecord /\ CarriesSlug(IdleIngest) /\ NoText \in Text
    /\ EvalTypes(IdleEval)
<1>1. NoText \in Text
  <2>1. NoSection \in Section
    BY DEF Section
  <2>2. QED
    BY <2>1, NumbersAreNat DEF NoText, Text
<1>2. /\ IdleIngest.pc = "idle" /\ IdleIngest.todo = {} /\ IdleIngest \in IngestRecord
  BY <1>1, BoundAssumption DEF IdleIngest, IngestRecord, IngestPcs
<1>3. CarriesSlug(IdleIngest)
  BY <1>2 DEF CarriesSlug
<1>4. EvalTypes(IdleEval)
  <2>1. RowTypes(<<>>)
    BY DEF RowTypes
  <2>2. IsEval(IdleEval)
    BY DEF IsEval, EvalFields, IdleEval
  <2>3. IdleEval.pc = "idle" /\ IdleEval.at = 1 /\ IdleEval.rows = <<>>
    BY DEF IdleEval
  <2>4. QED
    BY <2>1, <2>2, <2>3 DEF EvalTypes, EvalPcs
<1>5. QED
  BY <1>1, <1>2, <1>3, <1>4

LEMMA TypeInit == Init => TypeInv
<1> SUFFICES ASSUME Init PROVE TypeInv
  OBVIOUS
<1>1. today \in Days /\ failures \in 0..MaxFailures /\ restarts \in 0..MaxRestarts
  BY BoundAssumption DEF Init, Days
<1>2. version \in [Slug -> Nat] /\ \A v \in Slug : version[v] \in DOMAIN Versions[v]
  BY TextsOfSlug DEF Init
<1>3. amended \in [Slug -> Numbers] /\ stands \in [Slug -> Numbers]
      /\ catalog \in [Slug -> {"absent", "stub", "toc"}]
  BY NumbersAreNat DEF Init
<1>4. edges \in [Parents \X Slug -> [number : Numbers, section : Section]]
  <2>1. NoEdge \in [number : Numbers, section : Section]
    BY NumbersAreNat DEF NoEdge, Section
  <2>2. QED
    BY <2>1 DEF Init
<1>5. /\ index \in [Citations -> Slug \cup {NoSlug}] /\ ingested \subseteq Slug
      /\ queued \subseteq Slug /\ booted \in BOOLEAN
      /\ records \in [Parents -> States \cup {"none"}]
  BY DEF Init
<1>6. /\ ingest \in [Ingestors -> IngestRecord] /\ \A i \in Ingestors : CarriesSlug(ingest[i])
      /\ DOMAIN eval = Evals /\ \A e \in Evals : EvalTypes(eval[e])
  BY IdleTypes DEF Init
<1>7. QED
  BY <1>1, <1>2, <1>3, <1>4, <1>5, <1>6 DEF TypeInv

(* Where an ingest goes.                                                    *)
LEMMA OverTypes ==
    ASSUME NEW ing \in IngestRecord, CarriesSlug(ing), ing.pc \notin {"idle", "next"}
    PROVE  /\ Over(ing) \in IngestRecord /\ CarriesSlug(Over(ing))
           /\ FirstOver(ing) \in IngestRecord /\ CarriesSlug(FirstOver(ing))
           /\ Over(ing).pc \in {"idle", "next"}
           /\ FirstOver(ing).pc \in {"idle", "xmlAgain"}
           /\ ing.kind = "initial" => Over(ing).done = ing.done /\ Over(ing).pc = "next"
<1>1. CASE ing.kind = "initial"
  <2> DEFINE over == [ing EXCEPT !.pc = "next", !.slug = NoSlug, !.text = NoText, !.todo = {}]
             again == [ing EXCEPT !.pc = "xmlAgain", !.text = NoText, !.todo = {}]
  <2>1. over \in IngestRecord /\ again \in IngestRecord
    BY IdleTypes DEF IngestRecord, IngestPcs
  <2>2. /\ over.pc = "next" /\ over.todo = {} /\ over.done = ing.done
        /\ again.pc = "xmlAgain" /\ again.todo = {} /\ again.done = ing.done
        /\ again.slug = ing.slug /\ again.kind = ing.kind
    BY DEF IngestRecord
  <2>3. Over(ing) = over /\ FirstOver(ing) = again
    BY <1>1 DEF Over, FirstOver
  <2> HIDE DEF over, again
  <2>4. CarriesSlug(over)
    BY <2>2 DEF CarriesSlug
  <2>5. CarriesSlug(again)
    BY <1>1, <2>2 DEF CarriesSlug
  <2>6. QED
    BY <2>1, <2>2, <2>3, <2>4, <2>5
<1>2. CASE ing.kind # "initial"
  <2>1. IdleIngest.pc = "idle"
    BY DEF IdleIngest
  <2>2. QED
    BY <1>2, <2>1, IdleTypes DEF Over, FirstOver
<1>3. QED
  BY <1>1, <1>2

LEMMA OneIngest ==
    ASSUME TypeInv, NEW i \in Ingestors, NEW new \in IngestRecord, CarriesSlug(new),
           ingest' = [ingest EXCEPT ![i] = new]
    PROVE  /\ ingest' \in [Ingestors -> IngestRecord]
           /\ \A j \in Ingestors : CarriesSlug(ingest'[j])
BY DEF TypeInv

LEMMA TypeIngestStep ==
    ASSUME TypeInv, NEW i \in Ingestors, IngestStep(i) \/ FetchFails(i) \/ IngestWriteFails(i)
    PROVE  /\ ingest' \in [Ingestors -> IngestRecord]
           /\ \A j \in Ingestors : CarriesSlug(ingest'[j])
<1> DEFINE ing == ingest[i]
           Done == /\ ingest' \in [Ingestors -> IngestRecord]
                   /\ \A j \in Ingestors : CarriesSlug(ingest'[j])
<1>1. ing \in IngestRecord /\ CarriesSlug(ing) /\ ingest \in [Ingestors -> IngestRecord]
  BY DEF TypeInv
<1>2. ASSUME NEW new \in IngestRecord, CarriesSlug(new), ingest' = [ingest EXCEPT ![i] = new]
      PROVE  Done
  BY <1>2, OneIngest
<1>3. ASSUME NEW v \in Slug, NextCandidate(i, v) PROVE Done
  <2> DEFINE new == [ing EXCEPT !.queue = @ \ {v}, !.rest = @ \ {v},
                                !.slug = IF v \in ingested THEN NoSlug ELSE v,
                                !.pc = IF v \in ingested THEN "next" ELSE "stand"]
  <2>1. ingest' = [ingest EXCEPT ![i] = new] /\ ing.pc = "next" /\ ing.done < MaxPerCycle
    BY <1>1, <1>3 DEF NextCandidate
  <2>2. new \in IngestRecord
    BY <1>1 DEF IngestRecord, IngestPcs
  <2>3. /\ new.pc = IF v \in ingested THEN "next" ELSE "stand"
        /\ new.slug = IF v \in ingested THEN NoSlug ELSE v
        /\ new.done = ing.done /\ new.todo = ing.todo /\ new.text = ing.text
    BY <1>1 DEF IngestRecord
  <2> HIDE DEF new
  <2>4. CarriesSlug(new)
    BY <1>1, <2>1, <2>3 DEF CarriesSlug
  <2>5. QED
    BY <1>2, <2>1, <2>2, <2>4
<1>4. CASE EndDiscovery(i)
  BY <1>2, <1>4, IdleTypes DEF EndDiscovery
<1>5. CASE FetchStand(i)
  <2> DEFINE new == [ing EXCEPT !.text = Served(ing.slug),
                                !.pc = IF Served(ing.slug).number = 0 THEN "xml"
                                       ELSE "upsertStand"]
  <2>1. ingest' = [ingest EXCEPT ![i] = new] /\ ing.pc = "stand"
    BY <1>1, <1>5 DEF FetchStand
  <2>2. ing.slug \in Slug /\ ing.todo = {}
    BY <1>1, <2>1 DEF CarriesSlug
  <2>3. Served(ing.slug) \in Text
    BY <2>2, ServedIsText
  <2>4. new \in IngestRecord
    BY <1>1, <2>3 DEF IngestRecord, IngestPcs
  <2>5. /\ new.pc \in {"xml", "upsertStand"} /\ new.slug = ing.slug /\ new.kind = ing.kind
        /\ new.done = ing.done /\ new.todo = ing.todo
    BY <1>1 DEF IngestRecord
  <2> HIDE DEF new
  <2>6. CarriesSlug(new)
    BY <1>1, <2>1, <2>2, <2>5 DEF CarriesSlug
  <2>7. QED
    BY <1>2, <2>1, <2>4, <2>6
<1>6. CASE UpsertStand(i)
  <2> DEFINE new == [ing EXCEPT !.pc = "xml"]
  <2>1. ingest' = [ingest EXCEPT ![i] = new] /\ ing.pc = "upsertStand"
    BY <1>1, <1>6 DEF UpsertStand
  <2>2. new \in IngestRecord
    BY <1>1 DEF IngestRecord, IngestPcs
  <2>3. /\ new.pc = "xml" /\ new.slug = ing.slug /\ new.kind = ing.kind
        /\ new.done = ing.done /\ new.todo = ing.todo /\ new.text = ing.text
    BY <1>1 DEF IngestRecord
  <2> HIDE DEF new
  <2>4. CarriesSlug(new)
    BY <1>1, <2>1, <2>3 DEF CarriesSlug
  <2>5. QED
    BY <1>2, <2>1, <2>2, <2>4
<1>7. CASE FetchXML(i)
  <2> DEFINE new == [ing EXCEPT !.text = Served(ing.slug),
                                !.pc = IF @ = "xml" THEN "index" ELSE "indexAgain"]
  <2>1. ingest' = [ingest EXCEPT ![i] = new] /\ ing.pc \in {"xml", "xmlAgain"}
    BY <1>1, <1>7 DEF FetchXML
  <2>2. ing.slug \in Slug /\ ing.todo = {}
    BY <1>1, <2>1 DEF CarriesSlug
  <2>3. Served(ing.slug) \in Text
    BY <2>2, ServedIsText
  <2>4. new \in IngestRecord
    BY <1>1, <2>3 DEF IngestRecord, IngestPcs
  <2>5. /\ new.pc = IF ing.pc = "xml" THEN "index" ELSE "indexAgain"
        /\ new.slug = ing.slug /\ new.kind = ing.kind
        /\ new.done = ing.done /\ new.todo = ing.todo
    BY <1>1 DEF IngestRecord
  <2> HIDE DEF new
  <2>6. CarriesSlug(new)
    BY <1>1, <2>1, <2>2, <2>5 DEF CarriesSlug
  <2>7. QED
    BY <1>2, <2>1, <2>4, <2>6
<1>8. CASE UpsertBGBlIndex(i)
  <2> DEFINE new == [ing EXCEPT !.pc = IF @ = "index" THEN "delete" ELSE "deleteAgain"]
  <2>1. ingest' = [ingest EXCEPT ![i] = new] /\ ing.pc \in {"index", "indexAgain"}
    BY <1>1, <1>8 DEF UpsertBGBlIndex
  <2>2. new \in IngestRecord
    BY <1>1 DEF IngestRecord, IngestPcs
  <2>3. /\ new.pc = IF ing.pc = "index" THEN "delete" ELSE "deleteAgain"
        /\ new.slug = ing.slug /\ new.kind = ing.kind
        /\ new.done = ing.done /\ new.todo = ing.todo /\ new.text = ing.text
    BY <1>1 DEF IngestRecord
  <2> HIDE DEF new
  <2>4. CarriesSlug(new)
    BY <1>1, <2>1, <2>3 DEF CarriesSlug
  <2>5. QED
    BY <1>2, <2>1, <2>2, <2>4
<1>9. CASE DeleteDiscoveredBySlug(i)
  <2> DEFINE new == [ing EXCEPT !.todo = HighParents(ing.text),
                                !.pc = IF @ = "delete" THEN "upsert" ELSE "upsertAgain"]
  <2>1. ingest' = [ingest EXCEPT ![i] = new] /\ ing.pc \in {"delete", "deleteAgain"}
    BY <1>1, <1>9 DEF DeleteDiscoveredBySlug
  <2>2. HighParents(ing.text) \subseteq Parents
    BY DEF HighParents
  <2>3. new \in IngestRecord
    BY <1>1, <2>2 DEF IngestRecord, IngestPcs
  <2>4. /\ new.pc = IF ing.pc = "delete" THEN "upsert" ELSE "upsertAgain"
        /\ new.slug = ing.slug /\ new.kind = ing.kind
        /\ new.done = ing.done /\ new.todo = HighParents(ing.text) /\ new.text = ing.text
    BY <1>1 DEF IngestRecord
  <2> HIDE DEF new
  <2>5. CarriesSlug(new)
    BY <1>1, <2>1, <2>4 DEF CarriesSlug
  <2>6. QED
    BY <1>2, <2>1, <2>3, <2>5
<1>10. ASSUME NEW p \in Parents, UpsertDiscoveredLink(i, p) PROVE Done
  <2> DEFINE new == [ing EXCEPT !.todo = @ \ {p}]
  <2>1. ingest' = [ingest EXCEPT ![i] = new] /\ ing.pc \in {"upsert", "upsertAgain"}
    BY <1>1, <1>10 DEF UpsertDiscoveredLink
  <2>2. new \in IngestRecord
    BY <1>1 DEF IngestRecord
  <2>3. /\ new.pc = ing.pc /\ new.slug = ing.slug /\ new.kind = ing.kind
        /\ new.done = ing.done /\ new.todo = ing.todo \ {p} /\ new.text = ing.text
    BY <1>1 DEF IngestRecord
  <2> HIDE DEF new
  <2>4. CarriesSlug(new)
    BY <1>1, <2>1, <2>3 DEF CarriesSlug
  <2>5. QED
    BY <1>2, <2>1, <2>2, <2>4
<1>11. CASE EndIngest(i)
  <2>1. ing.pc \in {"upsert", "upsertAgain"} /\ ing.todo = {}
    BY <1>11 DEF EndIngest
  <2>2. CASE ing.pc = "upsert"
    <3>1. ingest' = [ingest EXCEPT ![i] = FirstOver(ing)]
      BY <1>1, <1>11, <2>2 DEF EndIngest
    <3>2. QED
      BY <1>1, <1>2, <2>1, <3>1, OverTypes
  <2>3. CASE ing.pc = "upsertAgain"
    <3> DEFINE new == [ing EXCEPT !.pc = "mark"]
    <3>1. ingest' = [ingest EXCEPT ![i] = new]
      BY <1>1, <1>11, <2>3 DEF EndIngest
    <3>2. new \in IngestRecord
      BY <1>1 DEF IngestRecord, IngestPcs
    <3>3. /\ new.pc = "mark" /\ new.slug = ing.slug /\ new.kind = ing.kind
          /\ new.done = ing.done /\ new.todo = ing.todo /\ new.text = ing.text
      BY <1>1 DEF IngestRecord
    <3> HIDE DEF new
    <3>4. CarriesSlug(new)
      BY <1>1, <2>1, <2>3, <3>3 DEF CarriesSlug
    <3>5. QED
      BY <1>2, <3>1, <3>2, <3>4
  <2>4. QED
    BY <2>1, <2>2, <2>3
<1>12. CASE MarkIngested(i)
  <2> DEFINE new == [ing EXCEPT !.pc = "unqueue"]
  <2>1. ingest' = [ingest EXCEPT ![i] = new] /\ ing.pc = "mark"
    BY <1>1, <1>12 DEF MarkIngested
  <2>2. new \in IngestRecord
    BY <1>1 DEF IngestRecord, IngestPcs
  <2>3. /\ new.pc = "unqueue" /\ new.slug = ing.slug /\ new.kind = ing.kind
        /\ new.done = ing.done /\ new.todo = ing.todo /\ new.text = ing.text
    BY <1>1 DEF IngestRecord
  <2> HIDE DEF new
  <2>4. CarriesSlug(new)
    BY <1>1, <2>1, <2>3 DEF CarriesSlug
  <2>5. QED
    BY <1>2, <2>1, <2>2, <2>4
<1>13. CASE Unqueue(i)
  <2> DEFINE over == Over(ing)
             new == [over EXCEPT !.done = over.done + 1]
  <2>1. ingest' = [ingest EXCEPT ![i] = new] /\ ing.pc = "unqueue"
    BY <1>1, <1>13 DEF Unqueue
  <2>2. ing.kind = "initial" /\ ing.done < MaxPerCycle
    BY <1>1, <2>1 DEF CarriesSlug
  <2>3. over \in IngestRecord /\ CarriesSlug(over) /\ over.done = ing.done /\ over.pc = "next"
    BY <1>1, <2>1, <2>2, OverTypes
  <2> HIDE DEF over
  <2>4. over.done + 1 \in 0..MaxPerCycle
    <3>1. over.done \in 0..MaxPerCycle
      BY <2>3 DEF IngestRecord
    <3>2. QED
      BY <2>2, <2>3, <3>1, BoundAssumption
  <2>5. new \in IngestRecord
    BY <2>3, <2>4 DEF IngestRecord
  <2>6. new.pc = "next" /\ new.todo = over.todo /\ new.text = over.text
    BY <2>3 DEF IngestRecord
  <2> HIDE DEF new
  <2>7. CarriesSlug(new)
    BY <2>3, <2>6 DEF CarriesSlug
  <2>8. QED
    BY <1>2, <2>1, <2>5, <2>7
<1>14. CASE FetchFails(i) \/ IngestWriteFails(i)
  <2>1. /\ ing.pc \notin {"idle", "next"}
        /\ \/ ingest' = [ingest EXCEPT ![i] = Over(ing)]
           \/ ingest' = [ingest EXCEPT ![i] = FirstOver(ing)]
    BY <1>1, <1>14 DEF FetchFails, IngestWriteFails
  <2>2. QED
    BY <1>1, <1>2, <2>1, OverTypes
<1>15. QED
  BY <1>3, <1>4, <1>5, <1>6, <1>7, <1>8, <1>9, <1>10, <1>11, <1>12, <1>13, <1>14 DEF IngestStep

(* A row that is expanded from a family, or read from an edge.              *)
LEMMA LinkedRowTypes ==
    ASSUME NEW p \in Parents, NEW known \in SUBSET Slug
    PROVE  RowTypes(LinkedInstrumentsFor(Seeds[p], Families[p], StoredEdges(p), known))
<1> DEFINE expanded == ExpandForParent(Families[p], known)
           seeded == [s \in DOMAIN Seeds[p] \cup DOMAIN expanded |->
                         IF s \in DOMAIN expanded THEN expanded[s] ELSE Seeds[p][s]]
           fromEdges == [s \in DOMAIN StoredEdges(p) |-> EdgeToLinked(StoredEdges(p)[s])]
           kept == FilterDiscoveredByFamilyPrefixes(fromEdges, Families[p], DOMAIN expanded)
           rows == Merge(seeded, kept)
<1>1. /\ DOMAIN Seeds[p] \subseteq Slug
      /\ \A v \in DOMAIN Seeds[p] : Seeds[p][v].source = "seeded" /\ Seeds[p][v].from \in Nat
  BY SourcesAssumption
<1>2. /\ DOMAIN expanded \subseteq Slug
      /\ \A s \in DOMAIN expanded : expanded[s].from \in Nat /\ expanded[s].source = "seeded"
  <2>1. DOMAIN expanded = UNION {LatestSlugByPrefix(f, known) : f \in Families[p]}
    BY DEF ExpandForParent
  <2>2. \A f \in Families[p] : LatestSlugByPrefix(f, known) \subseteq Slug
    BY DEF LatestSlugByPrefix
  <2>3. \A s \in DOMAIN expanded : expanded[s].from = Undated /\ expanded[s].source = "seeded"
    BY DEF ExpandForParent
  <2>4. QED
    BY <2>1, <2>2, <2>3 DEF Undated
<1> HIDE DEF expanded
<1>3. /\ DOMAIN seeded \subseteq Slug
      /\ \A s \in DOMAIN seeded : seeded[s].from \in Nat /\ seeded[s].source = "seeded"
  BY <1>1, <1>2
<1>4. /\ DOMAIN fromEdges \subseteq Slug
      /\ \A s \in DOMAIN fromEdges :
            /\ fromEdges[s].from \in Nat /\ fromEdges[s].source = "discovered"
            /\ fromEdges[s].confidence = "high"
  BY DEF StoredEdges, EdgeToLinked, Undated
<1>5. DOMAIN kept \subseteq DOMAIN fromEdges /\ \A s \in DOMAIN kept : kept[s] = fromEdges[s]
  BY DEF FilterDiscoveredByFamilyPrefixes
<1> HIDE DEF seeded, fromEdges, kept
<1>6. /\ DOMAIN rows \subseteq DOMAIN seeded \cup DOMAIN kept
      /\ \A s \in DOMAIN rows : rows[s] = IF s \in DOMAIN seeded THEN seeded[s] ELSE kept[s]
  BY DEF Merge
<1> HIDE DEF rows
<1>7. RowTypes(rows)
  BY <1>3, <1>4, <1>5, <1>6 DEF RowTypes
<1>8. QED
  BY <1>7 DEF LinkedInstrumentsFor, rows, kept, fromEdges, seeded, expanded

LEMMA EvaluateState ==
    ASSUME NEW in
    PROVE  Evaluate(in).state \in States
BY DEF Evaluate, Verdict, States

LEMMA OneEval ==
    ASSUME TypeInv, NEW e \in Evals, NEW new, EvalTypes(new), eval' = [eval EXCEPT ![e] = new]
    PROVE  DOMAIN eval' = Evals /\ \A f \in Evals : EvalTypes(eval'[f])
BY DEF TypeInv

(* What each step of an evaluation makes of it.                             *)
LEMMA TypeEvalStep ==
    ASSUME TypeInv, NEW e \in Evals, EvalStep(e)
    PROVE  DOMAIN eval' = Evals /\ \A f \in Evals : EvalTypes(eval'[f])
<1> DEFINE ev == eval[e]
           Done == DOMAIN eval' = Evals /\ \A f \in Evals : EvalTypes(eval'[f])
<1>1. EvalTypes(ev) /\ DOMAIN eval = Evals
  BY DEF TypeInv
<1>2. ASSUME NEW new, EvalTypes(new), eval' = [eval EXCEPT ![e] = new] PROVE Done
  BY <1>2, OneEval
<1>3. CASE ReadEdges(e)
  <2> DEFINE known == {v \in Slug : catalog[v] # "absent"}
             rows == LinkedInstrumentsFor(Seeds[ev.parent], Families[ev.parent],
                                          StoredEdges(ev.parent), known)
             soft == {v \in Gesetze : catalog[v] = "toc"}
             left == FilterOperativeLinked(rows, soft)
             new == [ev EXCEPT !.pc = "evidence", !.rows = left]
  <2>1. eval' = [eval EXCEPT ![e] = new] /\ ev.pc = "edges"
    BY <1>1, <1>3 DEF ReadEdges
  <2>2. RowTypes(rows)
    BY <1>1, <2>1, LinkedRowTypes DEF EvalTypes
  <2> HIDE DEF rows
  <2>3. RowTypes(left)
    BY <2>2 DEF RowTypes, FilterOperativeLinked
  <2> HIDE DEF left
  <2>4. EvalTypes(new)
    BY <1>1, <2>1, <2>3 DEF EvalTypes, IsEval, EvalFields, EvalPcs
  <2>5. QED
    BY <1>2, <2>1, <2>4
<1>4. CASE ReadEvidence(e)
  <2>1. PICK refs, issues :
           /\ eval' = [eval EXCEPT ![e] = [ev EXCEPT !.pc = "stubs", !.refs = refs,
                                                     !.issues = issues]]
           /\ ev.pc = "evidence"
    BY <1>1, <1>4 DEF ReadEvidence
  <2>2. EvalTypes([ev EXCEPT !.pc = "stubs", !.refs = refs, !.issues = issues])
    BY <1>1, <2>1 DEF EvalTypes, IsEval, EvalFields, EvalPcs
  <2>3. QED
    BY <1>2, <2>1, <2>2
<1>5. CASE EnsureStubs(e)
  <2>1. eval' = [eval EXCEPT ![e] = [ev EXCEPT !.pc = "resolve"]] /\ ev.pc = "stubs"
    BY <1>1, <1>5 DEF EnsureStubs
  <2>2. EvalTypes([ev EXCEPT !.pc = "resolve"])
    BY <1>1, <2>1 DEF EvalTypes, IsEval, EvalFields, EvalPcs
  <2>3. QED
    BY <1>2, <2>1, <2>2
<1>6. CASE Resolve(e)
  <2>1. PICK childStands, current, resolutions :
           /\ eval' = [eval EXCEPT ![e] = [ev EXCEPT !.pc = "prove", !.stands = childStands,
                                                     !.indexed = current,
                                                     !.resolutions = resolutions]]
           /\ ev.pc = "resolve"
    BY <1>1, <1>6 DEF Resolve
  <2>2. EvalTypes([ev EXCEPT !.pc = "prove", !.stands = childStands, !.indexed = current,
                             !.resolutions = resolutions])
    BY <1>1, <2>1 DEF EvalTypes, IsEval, EvalFields, EvalPcs
  <2>3. QED
    BY <1>2, <2>1, <2>2
<1>7. CASE ProveNext(e)
  <2>1. PICK pc, at, resolutions :
           /\ eval' = [eval EXCEPT ![e] = [ev EXCEPT !.pc = pc, !.at = at,
                                                     !.resolutions = resolutions]]
           /\ ev.pc = "prove" /\ pc \in {"prove", "put"} /\ at \in {ev.at, ev.at + 1}
    <3>1. CASE ev.at > Len(ev.resolutions)
      <4> DEFINE marked == MarkSupersededPastKindV(ev.resolutions, ev.rows, Status(ev), ev.stands)
      <4>1. eval' = [eval EXCEPT ![e] = [ev EXCEPT !.pc = "put", !.resolutions = marked]]
            /\ ev.pc = "prove"
        BY <1>1, <1>7, <3>1 DEF ProveNext
      <4>2. [ev EXCEPT !.pc = "put", !.resolutions = marked]
              = [ev EXCEPT !.pc = "put", !.at = ev.at, !.resolutions = marked]
        BY <1>1 DEF EvalTypes, IsEval, EvalFields
      <4>3. QED
        BY <4>1, <4>2
    <3>2. CASE ~(ev.at > Len(ev.resolutions))
      <4> DEFINE proved == ApplyChildFreshnessProof(
                     ev.resolutions[ev.at],
                     IF NeedsChild(ev.resolutions[ev.at])
                     THEN EvaluateLeaf(ev.resolutions[ev.at].slug) ELSE "")
                 res == [ev.resolutions EXCEPT ![ev.at] = proved]
      <4>1. eval' = [eval EXCEPT ![e] = [ev EXCEPT !.at = ev.at + 1, !.resolutions = res]]
            /\ ev.pc = "prove"
        BY <1>1, <1>7, <3>2 DEF ProveNext, EvalTypes, IsEval, EvalFields
      <4>2. [ev EXCEPT !.at = ev.at + 1, !.resolutions = res]
              = [ev EXCEPT !.pc = "prove", !.at = ev.at + 1, !.resolutions = res]
        BY <1>1, <4>1 DEF EvalTypes, IsEval, EvalFields
      <4>3. QED
        BY <4>1, <4>2
    <3>3. QED
      BY <3>1, <3>2
  <2> DEFINE new == [ev EXCEPT !.pc = pc, !.at = at, !.resolutions = resolutions]
  <2>2. /\ IsEval(new) /\ new.pc = pc /\ new.at = at /\ new.rows = ev.rows
        /\ new.parent = ev.parent /\ new.today = ev.today
    BY <1>1 DEF EvalTypes, IsEval, EvalFields
  <2> HIDE DEF new
  <2>3. EvalTypes(new)
    BY <1>1, <2>1, <2>2 DEF EvalTypes, EvalPcs
  <2>4. QED
    BY <1>2, <2>1, <2>3 DEF new
<1>8. CASE PutFreshness(e)
  <2>1. eval' = [eval EXCEPT ![e] = IdleEval]
    BY <1>8 DEF PutFreshness
  <2>2. QED
    BY <1>2, <2>1, IdleTypes
<1>9. QED
  BY <1>3, <1>4, <1>5, <1>6, <1>7, <1>8 DEF EvalStep

(* What an ingest writes to the store.                                      *)
LEMMA StoredTypes ==
    ASSUME TypeInv, NEW i \in Ingestors, IngestStep(i) \/ FetchFails(i) \/ IngestWriteFails(i)
    PROVE  /\ stands' \in [Slug -> Numbers]
           /\ edges' \in [Parents \X Slug -> [number : Numbers, section : Section]]
           /\ index' \in [Citations -> Slug \cup {NoSlug}]
           /\ ingested' \subseteq Slug /\ queued' \subseteq Slug /\ booted' \in BOOLEAN
           /\ failures' \in 0..MaxFailures
           /\ UNCHANGED <<sources, catalog, eval, records, restarts>>
<1> DEFINE ing == ingest[i]
<1>1. /\ ing \in IngestRecord /\ CarriesSlug(ing)
      /\ stands \in [Slug -> Numbers]
      /\ edges \in [Parents \X Slug -> [number : Numbers, section : Section]]
      /\ index \in [Citations -> Slug \cup {NoSlug}]
      /\ ingested \subseteq Slug /\ queued \subseteq Slug /\ booted \in BOOLEAN
      /\ failures \in 0..MaxFailures
  BY DEF TypeInv
<1>2. ing.text \in Text
  BY <1>1 DEF IngestRecord
<1>3. \/ UNCHANGED <<stands, discovered, booted, failures>>
      \/ UpsertStand(i) \/ UpsertBGBlIndex(i) \/ DeleteDiscoveredBySlug(i)
      \/ (\E p \in Parents : UpsertDiscoveredLink(i, p)) \/ MarkIngested(i) \/ Unqueue(i)
      \/ IngestWriteFails(i)
  BY DEF IngestStep, NextCandidate, EndDiscovery, FetchStand, FetchXML, EndIngest, FetchFails
<1>4. UNCHANGED <<sources, catalog, eval, records, restarts>>
  BY DEF IngestStep, NextCandidate, EndDiscovery, FetchStand, FetchXML, EndIngest, FetchFails,
         UpsertStand, UpsertBGBlIndex, DeleteDiscoveredBySlug, UpsertDiscoveredLink,
         MarkIngested, Unqueue, IngestWriteFails, IngestOnly
<1>5. CASE UNCHANGED <<stands, discovered, booted, failures>>
  BY <1>1, <1>4, <1>5 DEF discovered
<1>6. CASE UpsertStand(i)
  <2>1. ing.text.number \in Numbers
    BY <1>2 DEF Text
  <2>2. stands' \in [Slug -> Numbers]
    BY <1>1, <1>6, <2>1 DEF UpsertStand
  <2>3. UNCHANGED <<edges, index, ingested, queued, booted, failures>>
    BY <1>6 DEF UpsertStand, discovered
  <2>4. QED
    BY <1>1, <1>4, <2>2, <2>3
<1>7. CASE UpsertBGBlIndex(i)
  <2>1. ing.slug \in Slug
    BY <1>1, <1>7 DEF UpsertBGBlIndex, CarriesSlug
  <2>2. index' \in [Citations -> Slug \cup {NoSlug}]
    BY <1>1, <1>7, <2>1 DEF UpsertBGBlIndex
  <2>3. UNCHANGED <<stands, edges, ingested, queued, booted, failures>>
    BY <1>7 DEF UpsertBGBlIndex
  <2>4. QED
    BY <1>1, <1>4, <2>2, <2>3
<1>8. CASE DeleteDiscoveredBySlug(i)
  <2>1. NoEdge \in [number : Numbers, section : Section]
    BY NumbersAreNat DEF NoEdge, Section
  <2>2. edges' \in [Parents \X Slug -> [number : Numbers, section : Section]]
    BY <1>1, <1>8, <2>1 DEF DeleteDiscoveredBySlug
  <2>3. UNCHANGED <<stands, index, ingested, queued, booted, failures>>
    BY <1>8 DEF DeleteDiscoveredBySlug
  <2>4. QED
    BY <1>1, <1>4, <2>2, <2>3
<1>9. ASSUME NEW p \in Parents, UpsertDiscoveredLink(i, p)
      PROVE  /\ edges' \in [Parents \X Slug -> [number : Numbers, section : Section]]
             /\ UNCHANGED <<stands, index, ingested, queued, booted, failures>>
  <2>1. EdgeOf(ing.text, p) \in [number : Numbers, section : Section]
    BY <1>2, EdgeIsTyped
  <2>2. edges' = [edges EXCEPT ![<<p, ing.slug>>] = EdgeOf(ing.text, p)]
        /\ UNCHANGED <<stands, index, ingested, queued, booted, failures>>
    BY <1>9 DEF UpsertDiscoveredLink
  <2>3. QED
    BY <1>1, <2>1, <2>2
<1>10. CASE MarkIngested(i)
  <2>1. ing.slug \in Slug
    BY <1>1, <1>10 DEF MarkIngested, CarriesSlug
  <2>2. ingested' \subseteq Slug /\ UNCHANGED <<stands, edges, index, queued, booted>>
    BY <1>1, <1>10, <2>1 DEF MarkIngested
  <2>3. failures' \in 0..MaxFailures
    BY <1>1, <1>10, BoundAssumption DEF MarkIngested, LastWriteFails
  <2>4. QED
    BY <1>1, <1>4, <2>2, <2>3
<1>11. CASE Unqueue(i)
  <2>1. queued' \subseteq queued /\ UNCHANGED <<stands, edges, index, ingested, booted>>
    BY <1>11 DEF Unqueue
  <2>2. failures' \in 0..MaxFailures
    BY <1>1, <1>11, BoundAssumption DEF Unqueue, LastWriteFails
  <2>3. QED
    BY <1>1, <1>4, <2>1, <2>2
<1>12. CASE IngestWriteFails(i)
  <2>1. failures' \in 0..MaxFailures
    BY <1>1, <1>12, BoundAssumption DEF IngestWriteFails
  <2>2. UNCHANGED <<stands, edges, index, ingested, queued, booted>>
    BY <1>12 DEF IngestWriteFails, discovered
  <2>3. QED
    BY <1>1, <1>4, <2>1, <2>2
<1>13. QED
  BY <1>1, <1>3, <1>4, <1>5, <1>6, <1>7, <1>8, <1>9, <1>10, <1>11, <1>12

LEMMA TypeStep == TypeInv /\ [Next]_vars => TypeInv'
<1> SUFFICES ASSUME TypeInv, [Next]_vars PROVE TypeInv'
  OBVIOUS
<1>1. CASE NextDay
  <2>1. today' \in Days
    BY <1>1, BoundAssumption DEF TypeInv, NextDay, Days
  <2>2. QED
    BY <1>1, <2>1 DEF TypeInv, NextDay, discovered, faultCounts
<1>2. ASSUME NEW v \in Slug, PublishText(v) PROVE TypeInv'
  <2>1. version[v] \in Nat /\ version[v] + 1 \in DOMAIN Versions[v]
    BY <1>2, TextsOfSlug DEF TypeInv, PublishText
  <2>2. version' \in [Slug -> Nat] /\ \A u \in Slug : version'[u] \in DOMAIN Versions[u]
    BY <1>2, <2>1 DEF TypeInv, PublishText
  <2>3. QED
    BY <1>2, <2>2 DEF TypeInv, PublishText, discovered, faultCounts
<1>3. ASSUME NEW v \in Slug, NEW n \in Issues, Amend(v, n) PROVE TypeInv'
  <2>1. amended' \in [Slug -> Numbers] /\ queued' \subseteq Slug
    BY <1>3, NumbersAreNat DEF TypeInv, Amend
  <2>2. QED
    BY <1>3, <2>1 DEF TypeInv, Amend, faultCounts
<1>4. CASE RunTOC
  <2>1. catalog' \in [Slug -> {"absent", "stub", "toc"}]
    BY <1>4 DEF TypeInv, RunTOC
  <2>2. QED
    BY <1>4, <2>1 DEF TypeInv, RunTOC, sources, discovered, faultCounts
<1>5. ASSUME NEW i \in Ingestors, BeginDiscovery(i) PROVE TypeInv'
  <2>1. PICK queue \in SUBSET Slug, rest \in SUBSET Slug :
           ingest' = [ingest EXCEPT ![i] = [IdleIngest EXCEPT !.pc = "next", !.kind = "initial",
                                                              !.queue = queue, !.rest = rest]]
    BY <1>5 DEF BeginDiscovery
  <2> DEFINE new == [IdleIngest EXCEPT !.pc = "next", !.kind = "initial",
                                       !.queue = queue, !.rest = rest]
  <2>2. new \in IngestRecord
    BY IdleTypes DEF IngestRecord, IngestPcs
  <2>3. new.pc = "next" /\ new.todo = {}
    BY DEF IdleIngest
  <2> HIDE DEF new
  <2>4. CarriesSlug(new)
    BY <2>3 DEF CarriesSlug
  <2>5. /\ ingest' \in [Ingestors -> IngestRecord]
        /\ \A j \in Ingestors : CarriesSlug(ingest'[j])
    BY <2>1, <2>2, <2>4, OneIngest DEF new
  <2>6. booted' \in BOOLEAN
    BY <1>5 DEF BeginDiscovery
  <2>7. QED
    BY <1>5, <2>5, <2>6 DEF TypeInv, BeginDiscovery, IngestOnly, sources, discovered
<1>6. ASSUME NEW i \in Ingestors, NEW v \in Slug, NEW kind \in {"recheck", "export"},
             BeginRequest(i, v, kind)
      PROVE  TypeInv'
  <2> DEFINE new == [IdleIngest EXCEPT !.pc = IF kind = "recheck" THEN "stand" ELSE "xml",
                                       !.kind = kind, !.slug = v]
  <2>1. ingest' = [ingest EXCEPT ![i] = new]
    BY <1>6 DEF BeginRequest
  <2>2. new \in IngestRecord
    BY IdleTypes DEF IngestRecord, IngestPcs
  <2>3. new.pc \in {"stand", "xml"} /\ new.todo = {} /\ new.slug = v /\ new.kind # "initial"
    BY DEF IdleIngest
  <2> HIDE DEF new
  <2>4. CarriesSlug(new)
    BY <2>3 DEF CarriesSlug
  <2>5. /\ ingest' \in [Ingestors -> IngestRecord]
        /\ \A j \in Ingestors : CarriesSlug(ingest'[j])
    BY <2>1, <2>2, <2>4, OneIngest
  <2>6. QED
    BY <1>6, <2>5 DEF TypeInv, BeginRequest, IngestOnly, sources, discovered
<1>7. ASSUME NEW i \in Ingestors, IngestStep(i) \/ FetchFails(i) \/ IngestWriteFails(i)
      PROVE  TypeInv'
  BY <1>7, StoredTypes, TypeIngestStep DEF TypeInv, sources
<1>8. ASSUME NEW e \in Evals, NEW p \in Parents, BeginEval(e, p) PROVE TypeInv'
  <2>1. PICK overdue :
           eval' = [eval EXCEPT ![e] = [IdleEval EXCEPT !.pc = "edges", !.parent = p,
                                                        !.today = today, !.overdue = overdue]]
    BY <1>8 DEF BeginEval
  <2> DEFINE new == [IdleEval EXCEPT !.pc = "edges", !.parent = p,
                                     !.today = today, !.overdue = overdue]
  <2>2. /\ IsEval(new) /\ new.pc = "edges" /\ new.at = IdleEval.at /\ new.rows = IdleEval.rows
        /\ new.parent = p /\ new.today = today
    BY IdleTypes DEF EvalTypes, IsEval, EvalFields
  <2> HIDE DEF new
  <2>3. EvalTypes(new)
    BY <2>2, IdleTypes DEF EvalTypes, EvalPcs, TypeInv
  <2>4. DOMAIN eval' = Evals /\ \A f \in Evals : EvalTypes(eval'[f])
    BY <2>1, <2>3, OneEval DEF new
  <2>5. QED
    BY <1>8, <2>4 DEF TypeInv, BeginEval, EvalOnly, sources, discovered, faultCounts
<1>9. ASSUME NEW e \in Evals, EvalStep(e) PROVE TypeInv'
  <2>1. DOMAIN eval' = Evals /\ \A f \in Evals : EvalTypes(eval'[f])
    BY <1>9, TypeEvalStep
  <2>2. EvalOnly
    BY <1>9 DEF EvalStep, ReadEdges, ReadEvidence, EnsureStubs, Resolve, ProveNext, PutFreshness
  <2>3. catalog' \in [Slug -> {"absent", "stub", "toc"}]
    <3>1. CASE EnsureStubs(e)
      BY <3>1 DEF EnsureStubs, TypeInv
    <3>2. CASE ~EnsureStubs(e)
      <4>1. catalog' = catalog
        BY <1>9, <3>2 DEF EvalStep, ReadEdges, ReadEvidence, Resolve, ProveNext, PutFreshness
      <4>2. QED
        BY <4>1 DEF TypeInv
    <3>3. QED
      BY <3>1, <3>2
  <2>4. records' \in [Parents -> States \cup {"none"}]
    <3>1. CASE PutFreshness(e)
      <4>1. Conclusion(eval[e]) \in States
        BY EvaluateState DEF Conclusion
      <4>2. QED
        BY <3>1, <4>1 DEF PutFreshness, TypeInv
    <3>2. CASE ~PutFreshness(e)
      <4>1. records' = records
        BY <1>9, <3>2 DEF EvalStep, ReadEdges, ReadEvidence, EnsureStubs, Resolve, ProveNext
      <4>2. QED
        BY <4>1 DEF TypeInv
    <3>3. QED
      BY <3>1, <3>2
  <2>5. QED
    BY <2>1, <2>2, <2>3, <2>4 DEF TypeInv, EvalOnly, sources, discovered, faultCounts
<1>10. CASE Restart
  <2>1. restarts' \in 0..MaxRestarts
    BY <1>10, BoundAssumption DEF TypeInv, Restart
  <2>2. /\ ingest' \in [Ingestors -> IngestRecord] /\ \A i \in Ingestors : CarriesSlug(ingest'[i])
        /\ DOMAIN eval' = Evals /\ \A e \in Evals : EvalTypes(eval'[e])
    BY <1>10, IdleTypes DEF Restart
  <2>3. QED
    BY <1>10, <2>1, <2>2 DEF TypeInv, Restart, sources, discovered
<1>11. CASE UNCHANGED vars
  BY <1>11 DEF vars, TypeInv
<1>12. QED
  BY <1>1, <1>2, <1>3, <1>4, <1>5, <1>6, <1>7, <1>8, <1>9, <1>10, <1>11 DEF Next

LEMMA TypeHolds == Spec => []TypeInv
<1>1. Init => TypeInv
  BY TypeInit
<1>2. TypeInv /\ [Next]_vars => TypeInv'
  BY TypeStep
<1>3. QED
  BY <1>1, <1>2, PTL DEF Spec

(* Ingests, evaluations and the store hold what they should, and            *)
(* DiscoverOrdinances ingests no more ordinances than its limit, whatever   *)
(* requests to GII and writes fail.                                         *)
THEOREM TypeCorrect == Spec => []TypeOK
<1>1. TypeInv => TypeOK
  <2> SUFFICES ASSUME TypeInv PROVE TypeOK
    OBVIOUS
  <2>1. \A i \in Ingestors :
           /\ ingest[i].pc \in IngestPcs /\ ingest[i].slug \in Slug \cup {NoSlug}
           /\ ingest[i].text \in Text /\ ingest[i].todo \subseteq HighParents(ingest[i].text)
           /\ ingest[i].done \in 0..MaxPerCycle
    BY DEF TypeInv, IngestRecord, CarriesSlug
  <2>2. \A e \in Evals :
           /\ eval[e].pc \in {"idle", "edges", "evidence", "stubs", "resolve", "prove", "put"}
           /\ eval[e].pc # "idle" => eval[e].parent \in Parents
           /\ eval[e].at \in Nat \ {0}
    BY DEF TypeInv, EvalTypes, EvalPcs
  <2>3. QED
    BY <2>1, <2>2 DEF TypeInv, TypeOK
<1>2. QED
  BY <1>1, TypeHolds, PTL

-----------------------------------------------------------------------------
(* NoMixedAttribution, as long as no two ingests are of one ordinance.      *)
(* Between the transactions of an ingest the text it holds is one that GII  *)
(* has served, and while edges are still to be written all stored ones of   *)
(* its ordinance are missing or of that text: the prior edges went before.  *)

Apart ==
    \A i, j \in Ingestors :
        i # j /\ ingest[i].slug = ingest[j].slug => ingest[i].slug = NoSlug

HoldsText == {"index", "delete", "upsert", "indexAgain", "deleteAgain", "upsertAgain"}

WritesOneText(ing, es, ver) ==
    /\ ing.pc \in HoldsText => \E k \in 1..ver[ing.slug] : ing.text = Versions[ing.slug][k]
    /\ ing.todo # {} =>
          \A p \in Parents : es[<<p, ing.slug>>] \in {NoEdge, EdgeOf(ing.text, p)}

MixInv ==
    /\ NoMixedAttribution
    /\ \A i \in Ingestors : WritesOneText(ingest[i], edges, version)

(* A step that leaves the edges alone and only takes the ingest on.         *)
LEMMA MixStaysWhileEdgesDo ==
    ASSUME MixInv, UNCHANGED <<edges, version>>,
           \A i \in Ingestors : \/ ingest'[i].pc \notin HoldsText /\ ingest'[i].todo = {}
                                \/ ingest'[i] = ingest[i]
                                \/ /\ ingest[i].pc \in HoldsText /\ ingest'[i].todo = {}
                                   /\ ingest'[i].slug = ingest[i].slug
                                   /\ ingest'[i].text = ingest[i].text
    PROVE  MixInv'
<1>1. NoMixedAttribution'
  BY DEF MixInv, NoMixedAttribution
<1>2. ASSUME NEW i \in Ingestors PROVE WritesOneText(ingest'[i], edges, version)
  BY DEF MixInv, WritesOneText
<1>3. QED
  BY <1>1, <1>2 DEF MixInv

LEMMA MixIngestStep ==
    ASSUME Apart, TypeInv, MixInv, NEW i \in Ingestors,
           IngestStep(i) \/ FetchFails(i) \/ IngestWriteFails(i)
    PROVE  MixInv'
<1> DEFINE ing == ingest[i]
<1>1. /\ ing \in IngestRecord /\ CarriesSlug(ing) /\ ingest \in [Ingestors -> IngestRecord]
      /\ edges \in [Parents \X Slug -> [number : Numbers, section : Section]]
      /\ WritesOneText(ing, edges, version)
  BY DEF TypeInv, MixInv
<1>2. version' = version
  BY DEF IngestStep, NextCandidate, EndDiscovery, FetchStand, FetchXML, EndIngest, FetchFails,
         UpsertStand, UpsertBGBlIndex, DeleteDiscoveredBySlug, UpsertDiscoveredLink,
         MarkIngested, Unqueue, IngestWriteFails, IngestOnly, sources
<1>3. \A j \in Ingestors \ {i} : ingest'[j] = ingest[j]
  <2>1. CASE \E v \in Slug : NextCandidate(i, v)
    BY <1>1, <2>1 DEF NextCandidate
  <2>2. CASE EndDiscovery(i) \/ FetchStand(i) \/ UpsertStand(i) \/ FetchXML(i) \/ UpsertBGBlIndex(i)
    BY <1>1, <2>2 DEF EndDiscovery, FetchStand, UpsertStand, FetchXML, UpsertBGBlIndex
  <2>3. CASE DeleteDiscoveredBySlug(i) \/ \E q \in Parents : UpsertDiscoveredLink(i, q)
    BY <1>1, <2>3 DEF DeleteDiscoveredBySlug, UpsertDiscoveredLink
  <2>4. CASE EndIngest(i) \/ MarkIngested(i) \/ Unqueue(i) \/ FetchFails(i) \/ IngestWriteFails(i)
    BY <1>1, <2>4 DEF EndIngest, MarkIngested, Unqueue, FetchFails, IngestWriteFails
  <2>5. QED
    BY <2>1, <2>2, <2>3, <2>4 DEF IngestStep
<1>3a. ASSUME edges' = edges, ingest'[i].pc \notin HoldsText, ingest'[i].todo = {}
       PROVE  MixInv'
  BY <1>2, <1>3, <1>3a, MixStaysWhileEdgesDo
<1>3b. ASSUME ing.slug \in Slug, WritesOneText(ingest'[i], edges', version'), NoMixedAttribution',
              \A p \in Parents, v \in Slug : v # ing.slug => edges'[<<p, v>>] = edges[<<p, v>>]
       PROVE  MixInv'
  <2>1. ASSUME NEW j \in Ingestors, j # i PROVE WritesOneText(ingest[j], edges', version)
    <3>1. CarriesSlug(ingest[j]) /\ WritesOneText(ingest[j], edges, version)
      BY DEF TypeInv, MixInv
    <3>2. ingest[j].todo # {} => ingest[j].slug \in Slug /\ ingest[j].slug # ing.slug
      <4>1. ing.slug # NoSlug
        BY <1>3b, SlugIsFinite
      <4>2. ingest[j].slug # ing.slug
        BY <2>1, <4>1 DEF Apart
      <4>3. QED
        BY <3>1, <4>2 DEF CarriesSlug
    <3>3. QED
      BY <1>3b, <3>1, <3>2 DEF WritesOneText
  <2>2. \A j \in Ingestors : WritesOneText(ingest'[j], edges', version')
    BY <1>2, <1>3, <1>3b, <2>1
  <2>3. QED
    BY <1>3b, <2>2 DEF MixInv
<1>4. ASSUME NEW v \in Slug, NextCandidate(i, v) PROVE MixInv'
  <2>1. /\ edges' = edges /\ ing.pc = "next"
        /\ ingest'[i].pc \in {"next", "stand"} /\ ingest'[i].todo = ing.todo
    BY <1>1, <1>4 DEF NextCandidate, discovered, IngestRecord
  <2>2. QED
    BY <1>1, <1>3a, <2>1 DEF CarriesSlug, HoldsText
<1>5. CASE EndDiscovery(i)
  <2>1. edges' = edges /\ ingest'[i] = IdleIngest
    BY <1>1, <1>5 DEF EndDiscovery, discovered
  <2>2. IdleIngest.pc \notin HoldsText /\ IdleIngest.todo = {}
    BY DEF IdleIngest, HoldsText
  <2>3. QED
    BY <1>3a, <2>1, <2>2
<1>6. CASE FetchStand(i) \/ UpsertStand(i)
  <2>1. edges' = edges /\ ing.pc \in {"stand", "upsertStand"}
    BY <1>6 DEF FetchStand, UpsertStand, discovered
  <2>2. ingest'[i].pc \in {"xml", "upsertStand"} /\ ingest'[i].todo = ing.todo
    <3>1. CASE FetchStand(i)
      <4> DEFINE pc == IF Served(ing.slug).number = 0 THEN "xml" ELSE "upsertStand"
      <4>1. ingest' = [ingest EXCEPT ![i] = [ing EXCEPT !.text = Served(ing.slug), !.pc = pc]]
        BY <1>1, <3>1 DEF FetchStand
      <4>2. pc \in {"xml", "upsertStand"}
        OBVIOUS
      <4> HIDE DEF pc
      <4>3. QED
        BY <1>1, <4>1, <4>2 DEF IngestRecord
    <3>2. CASE UpsertStand(i)
      BY <1>1, <3>2 DEF UpsertStand, IngestRecord
    <3>3. QED
      BY <1>6, <3>1, <3>2
  <2>3. QED
    BY <1>1, <1>3a, <2>1, <2>2 DEF CarriesSlug, HoldsText
<1>7. CASE FetchXML(i)
  <2>1. /\ edges' = edges /\ ing.pc \in {"xml", "xmlAgain"}
        /\ ingest'[i].text = Served(ing.slug) /\ ingest'[i].slug = ing.slug
        /\ ingest'[i].todo = ing.todo
    BY <1>1, <1>7 DEF FetchXML, discovered, IngestRecord
  <2>2. ing.slug \in Slug /\ ing.todo = {}
    BY <1>1, <2>1 DEF CarriesSlug
  <2>3. version[ing.slug] \in 1..version[ing.slug]
    <3>1. version[ing.slug] \in 1..Len(Versions[ing.slug])
      BY <2>2, TextsOfSlug DEF TypeInv
    <3>2. QED
      BY <3>1
  <2>4. WritesOneText(ingest'[i], edges', version')
    BY <1>2, <2>1, <2>2, <2>3 DEF WritesOneText, Served
  <2>5. NoMixedAttribution'
    BY <1>2, <2>1 DEF MixInv, NoMixedAttribution
  <2>6. QED
    BY <1>3b, <2>1, <2>2, <2>4, <2>5
<1>8. CASE UpsertBGBlIndex(i)
  <2>1. /\ edges' = edges /\ ing.pc \in {"index", "indexAgain"}
        /\ ingest'[i].text = ing.text /\ ingest'[i].slug = ing.slug
        /\ ingest'[i].todo = ing.todo
    BY <1>1, <1>8 DEF UpsertBGBlIndex, IngestRecord
  <2>2. ing.todo = {} /\ ing.pc \in HoldsText
    BY <1>1, <2>1 DEF CarriesSlug, HoldsText
  <2>3. QED
    BY <1>2, <1>3, <2>1, <2>2, MixStaysWhileEdgesDo
<1>9. CASE DeleteDiscoveredBySlug(i)
  <2> DEFINE high == HighParents(ing.text)
  <2>1. /\ ing.pc \in {"delete", "deleteAgain"}
        /\ edges' = IF high = {} THEN edges
                    ELSE [k \in Parents \X Slug |-> IF k[2] = ing.slug THEN NoEdge ELSE edges[k]]
    BY <1>9 DEF DeleteDiscoveredBySlug
  <2>2. ingest'[i].text = ing.text /\ ingest'[i].slug = ing.slug /\ ingest'[i].todo = high
    BY <1>1, <1>9 DEF DeleteDiscoveredBySlug, IngestRecord
  <2> HIDE DEF high
  <2>3. ing.slug \in Slug /\ ing.pc \in HoldsText
    BY <1>1, <2>1 DEF CarriesSlug, HoldsText
  <2>4. \A p \in Parents, v \in Slug :
           edges'[<<p, v>>] = IF high # {} /\ v = ing.slug THEN NoEdge ELSE edges[<<p, v>>]
    BY <2>1
  <2>5. WritesOneText(ingest'[i], edges', version')
    BY <1>1, <1>2, <2>2, <2>3, <2>4 DEF WritesOneText
  <2>6. NoMixedAttribution'
    BY <1>2, <2>4 DEF MixInv, NoMixedAttribution
  <2>7. QED
    BY <1>3b, <2>3, <2>4, <2>5, <2>6
<1>10. ASSUME NEW q \in Parents, UpsertDiscoveredLink(i, q) PROVE MixInv'
  <2>1. /\ ing.pc \in {"upsert", "upsertAgain"} /\ q \in ing.todo
        /\ edges' = [edges EXCEPT ![<<q, ing.slug>>] = EdgeOf(ing.text, q)]
    BY <1>10 DEF UpsertDiscoveredLink
  <2>2. /\ ingest'[i].text = ing.text /\ ingest'[i].slug = ing.slug
        /\ ingest'[i].todo \subseteq ing.todo
    BY <1>1, <1>10 DEF UpsertDiscoveredLink, IngestRecord
  <2>3. ing.slug \in Slug /\ ing.pc \in HoldsText
    BY <1>1, <2>1 DEF CarriesSlug, HoldsText
  <2>4. \A p \in Parents, v \in Slug :
           edges'[<<p, v>>] = IF p = q /\ v = ing.slug THEN EdgeOf(ing.text, q)
                              ELSE edges[<<p, v>>]
    BY <1>1, <2>1, <2>3
  <2>5. \A p \in Parents : edges'[<<p, ing.slug>>] \in {NoEdge, EdgeOf(ing.text, p)}
    BY <1>1, <2>1, <2>3, <2>4 DEF WritesOneText
  <2>6. PICK k \in 1..version[ing.slug] : ing.text = Versions[ing.slug][k]
    BY <1>1, <2>3 DEF WritesOneText
  <2>7. WritesOneText(ingest'[i], edges', version')
    BY <1>2, <2>2, <2>5, <2>6 DEF WritesOneText
  <2>8. ASSUME NEW v \in Slug
        PROVE  \E j \in 1..version'[v] :
                  \A p \in Parents : edges'[<<p, v>>] \in {NoEdge, EdgeOf(Versions[v][j], p)}
    <3>1. CASE v = ing.slug
      BY <1>2, <2>5, <2>6, <3>1
    <3>2. CASE v # ing.slug
      BY <1>2, <2>4, <3>2 DEF MixInv, NoMixedAttribution
    <3>3. QED
      BY <3>1, <3>2
  <2>9. NoMixedAttribution'
    BY <2>8 DEF NoMixedAttribution
  <2>10. QED
    BY <1>3b, <2>3, <2>4, <2>7, <2>9
<1>11. CASE EndIngest(i) \/ FetchFails(i) \/ IngestWriteFails(i)
  <2>1. /\ edges' = edges /\ ing.pc \notin {"idle", "next"}
        /\ \/ ingest' = [ingest EXCEPT ![i] = Over(ing)]
           \/ ingest' = [ingest EXCEPT ![i] = FirstOver(ing)]
           \/ /\ ingest' = [ingest EXCEPT ![i] = [ing EXCEPT !.pc = "mark"]]
              /\ ing.todo = {}
    BY <1>1, <1>11 DEF EndIngest, FetchFails, IngestWriteFails, discovered
  <2>2. /\ Over(ing).pc \in {"idle", "next"} /\ FirstOver(ing).pc \in {"idle", "xmlAgain"}
        /\ CarriesSlug(Over(ing)) /\ CarriesSlug(FirstOver(ing))
    BY <1>1, <2>1, OverTypes
  <2>3. Over(ing).todo = {} /\ FirstOver(ing).todo = {}
    BY <2>2 DEF CarriesSlug
  <2>4. [ing EXCEPT !.pc = "mark"].pc = "mark" /\ [ing EXCEPT !.pc = "mark"].todo = ing.todo
    BY <1>1 DEF IngestRecord
  <2>5. ingest'[i].pc \in {"idle", "next", "xmlAgain", "mark"} /\ ingest'[i].todo = {}
    BY <1>1, <2>1, <2>2, <2>3, <2>4
  <2>6. QED
    BY <1>3a, <2>1, <2>5 DEF HoldsText
<1>12. CASE MarkIngested(i)
  <2>1. /\ edges' = edges /\ ing.pc = "mark"
        /\ ingest'[i].pc = "unqueue" /\ ingest'[i].todo = ing.todo
    BY <1>1, <1>12 DEF MarkIngested, IngestRecord
  <2>2. QED
    BY <1>1, <1>3a, <2>1 DEF CarriesSlug, HoldsText
<1>13. CASE Unqueue(i)
  <2> DEFINE over == Over(ing)
  <2>1. /\ edges' = edges /\ ing.pc = "unqueue"
        /\ ingest' = [ingest EXCEPT ![i] = [over EXCEPT !.done = over.done + 1]]
    BY <1>1, <1>13 DEF Unqueue
  <2>2. over.pc \in {"idle", "next"} /\ CarriesSlug(over) /\ over \in IngestRecord
    BY <1>1, <2>1, OverTypes
  <2> HIDE DEF over
  <2>3. ingest'[i].pc = over.pc /\ ingest'[i].todo = over.todo
    BY <1>1, <2>1, <2>2 DEF IngestRecord
  <2>4. QED
    BY <1>3a, <2>1, <2>2, <2>3 DEF CarriesSlug, HoldsText
<1>14. QED
  BY <1>4, <1>5, <1>6, <1>7, <1>8, <1>9, <1>10, <1>11, <1>12, <1>13 DEF IngestStep

LEMMA MixStep == Apart /\ TypeInv /\ MixInv /\ [Next]_vars => MixInv'
<1> SUFFICES ASSUME Apart, TypeInv, MixInv, [Next]_vars PROVE MixInv'
  OBVIOUS
<1>1. ASSUME UNCHANGED <<edges, version, ingest>> PROVE MixInv'
  BY <1>1, MixStaysWhileEdgesDo
<1>2. CASE NextDay \/ RunTOC \/ \E v \in Slug, n \in Issues : Amend(v, n)
  BY <1>1, <1>2 DEF NextDay, RunTOC, Amend, sources, discovered
<1>3. ASSUME NEW v \in Slug, PublishText(v) PROVE MixInv'
  <2>1. edges' = edges /\ ingest' = ingest /\ version' = [version EXCEPT ![v] = @ + 1]
    BY <1>3 DEF PublishText, discovered
  <2>2. \A u \in Slug : 1..version[u] \subseteq 1..version'[u]
    BY <2>1 DEF TypeInv
  <2>3. NoMixedAttribution'
    BY <2>1, <2>2 DEF MixInv, NoMixedAttribution
  <2>4. ASSUME NEW i \in Ingestors PROVE WritesOneText(ingest[i], edges, version')
    <3>1. ingest[i].pc \in HoldsText => ingest[i].slug \in Slug
      BY DEF TypeInv, CarriesSlug, HoldsText
    <3>2. QED
      BY <2>2, <3>1 DEF MixInv, WritesOneText
  <2>5. QED
    BY <2>1, <2>3, <2>4 DEF MixInv
<1>4. ASSUME NEW i \in Ingestors,
             \/ BeginDiscovery(i)
             \/ \E v \in Slug, kind \in {"recheck", "export"} : BeginRequest(i, v, kind)
      PROVE  MixInv'
  <2>1. UNCHANGED <<edges, version>>
    BY <1>4 DEF BeginDiscovery, BeginRequest, IngestOnly, sources, discovered
  <2>2. PICK new : /\ ingest' = [ingest EXCEPT ![i] = new]
                   /\ new.pc \in {"next", "stand", "xml"} /\ new.todo = {}
    <3>1. CASE BeginDiscovery(i)
      <4>1. PICK queue, rest :
               ingest' = [ingest EXCEPT ![i] = [IdleIngest EXCEPT !.pc = "next",
                            !.kind = "initial", !.queue = queue, !.rest = rest]]
        BY <3>1 DEF BeginDiscovery
      <4> DEFINE idle == [IdleIngest EXCEPT !.pc = "next", !.kind = "initial",
                                            !.queue = queue, !.rest = rest]
      <4>2. idle.pc = "next" /\ idle.todo = {}
        BY DEF IdleIngest
      <4> HIDE DEF idle
      <4>3. ingest' = [ingest EXCEPT ![i] = idle]
        BY <4>1 DEF idle
      <4>4. QED
        BY <4>2, <4>3
    <3>2. ASSUME NEW v \in Slug, NEW kind \in {"recheck", "export"}, BeginRequest(i, v, kind)
          PROVE  \E new : /\ ingest' = [ingest EXCEPT ![i] = new]
                          /\ new.pc \in {"next", "stand", "xml"} /\ new.todo = {}
      <4> DEFINE idle == [IdleIngest EXCEPT !.pc = IF kind = "recheck" THEN "stand" ELSE "xml",
                                            !.kind = kind, !.slug = v]
      <4>1. idle.pc \in {"stand", "xml"} /\ idle.todo = {}
        BY DEF IdleIngest
      <4>2. ingest' = [ingest EXCEPT ![i] = idle]
        BY <3>2 DEF BeginRequest
      <4> HIDE DEF idle
      <4>3. QED
        BY <4>1, <4>2
    <3>3. QED
      BY <1>4, <3>1, <3>2
  <2>3. \A j \in Ingestors : ingest'[j] = IF j = i THEN new ELSE ingest[j]
    BY <2>2 DEF TypeInv
  <2>4. QED
    BY <2>1, <2>2, <2>3, MixStaysWhileEdgesDo DEF HoldsText
<1>5. ASSUME NEW i \in Ingestors, IngestStep(i) \/ FetchFails(i) \/ IngestWriteFails(i)
      PROVE  MixInv'
  BY <1>5, MixIngestStep
<1>6. ASSUME NEW e \in Evals, EvalStep(e) \/ \E p \in Parents : BeginEval(e, p) PROVE MixInv'
  <2>1. EvalOnly
    BY <1>6 DEF EvalStep, ReadEdges, ReadEvidence, EnsureStubs, Resolve, ProveNext,
                PutFreshness, BeginEval
  <2>2. QED
    BY <1>1, <2>1 DEF EvalOnly, sources, discovered
<1>7. CASE Restart
  <2>1. UNCHANGED <<edges, version>> /\ \A i \in Ingestors : ingest'[i] = IdleIngest
    BY <1>7 DEF Restart, sources, discovered
  <2>2. IdleIngest.pc \notin HoldsText /\ IdleIngest.todo = {}
    BY DEF IdleIngest, HoldsText
  <2>3. QED
    BY <2>1, <2>2, MixStaysWhileEdgesDo
<1>8. CASE UNCHANGED vars
  BY <1>1, <1>8 DEF vars
<1>9. QED
  BY <1>2, <1>3, <1>4, <1>5, <1>6, <1>7, <1>8 DEF Next

(* As long as no two ingests of one ordinance run at once, its stored edges *)
(* are always of one text of it, also in the middle of an ingest and after  *)
(* one that failed or was killed, whatever ingests of other ordinances do.  *)
THEOREM NoMix == Spec /\ []Apart => []NoMixedAttribution
<1>1. Init => MixInv
  <2> SUFFICES ASSUME Init PROVE MixInv
    OBVIOUS
  <2>1. NoMixedAttribution
    <3>1. \A v \in Slug : 1 \in 1..version[v]
      BY DEF Init
    <3>2. \A p \in Parents, v \in Slug : edges[<<p, v>>] = NoEdge
      BY DEF Init
    <3>3. QED
      BY <3>1, <3>2 DEF NoMixedAttribution
  <2>2. IdleIngest.pc \notin HoldsText /\ IdleIngest.todo = {}
    BY DEF IdleIngest, HoldsText
  <2>3. \A i \in Ingestors : ingest[i] = IdleIngest
    BY DEF Init
  <2>4. QED
    BY <2>1, <2>2, <2>3 DEF MixInv, WritesOneText
<1>2. Apart /\ TypeInv /\ MixInv /\ [Next]_vars => MixInv'
  BY MixStep
<1>3. MixInv => NoMixedAttribution
  BY DEF MixInv
<1>4. QED
  BY <1>1, <1>2, <1>3, TypeHolds, PTL DEF Spec

-----------------------------------------------------------------------------
(* The chain of a section: the dates and then the keys order its rows.      *)

LEMMA RankOrders ==
    /\ \A s \in Slug : Rank(s) \in 1..Len(Slugs)
    /\ \A s, t \in Slug : Rank(s) = Rank(t) => s = t
    /\ Len(Slugs) \in Nat
<1>1. Slugs \in Seq(STRING)
  BY SlugsAssumption
<1>2. ASSUME NEW s \in Slug
      PROVE  Rank(s) \in DOMAIN Slugs /\ Slugs[Rank(s)] = s
  <2>1. \E i \in DOMAIN Slugs : Slugs[i] = s
    BY DEF Slug, ToSet
  <2>2. QED
    BY <2>1 DEF Rank
<1>3. QED
  BY <1>1, <1>2

LEMMA HasMinimum ==
    ASSUME NEW T, T \subseteq Nat, T # {}
    PROVE  \E x \in T : \A y \in T : x <= y
<1>1. PICK x \in T : \A y \in T : ~ (<<y, x>> \in OpToRel(<, Nat))
  BY NatLessThanWellFounded, WFMin, Zenon
<1>2. ASSUME NEW y \in T PROVE ~ (y < x)
  BY <1>1, Zenon DEF OpToRel
<1>3. QED
  BY <1>2

LEMMA HasMaximum ==
    ASSUME NEW S \in SUBSET Nat, S # {}, NEW m \in Nat, \A n \in S : n <= m
    PROVE  \E x \in S : \A y \in S : y <= x
<1> DEFINE T == {m - n : n \in S}
<1>1. T \subseteq Nat /\ T # {}
  <2>1. \A n \in S : m - n \in Nat
    OBVIOUS
  <2>2. QED
    BY <2>1
<1> HIDE DEF T
<1>2. PICK x \in T : \A y \in T : x <= y
  BY <1>1, HasMinimum
<1>3. PICK n \in S : x = m - n
  BY DEF T
<1>4. ASSUME NEW k \in S PROVE k <= n
  <2>1. m - k \in T
    BY DEF T
  <2>2. m - n <= m - k
    BY <1>2, <1>3, <2>1
  <2>3. QED
    BY <2>2
<1>5. QED
  BY <1>4

InForce(rows, asOf, x) ==
    {s \in DOMAIN rows : rows[s].section = x /\ rows[s].from \in 1..asOf}

LEMMA LatestIsCurrent ==
    ASSUME NEW rows, RowTypes(rows), NEW asOf \in Nat, NEW x, InForce(rows, asOf, x) # {}
    PROVE  \E s \in InForce(rows, asOf, x) :
              /\ \A t \in InForce(rows, asOf, x) : rows[t].from <= rows[s].from
              /\ {t \in InForce(rows, asOf, x) : AnnotateChain(rows, asOf)[t] = "current"} = {s}
<1> DEFINE set == InForce(rows, asOf, x)
           dates == {rows[s].from : s \in set}
<1>1. /\ set \subseteq Slug /\ set \subseteq DOMAIN rows
      /\ \A s \in set : rows[s].from \in 1..asOf /\ rows[s].section = x
  BY DEF InForce, RowTypes
<1>2. dates \in SUBSET Nat /\ dates # {} /\ \A n \in dates : n <= asOf
  BY <1>1
<1>3. PICK last \in dates : \A n \in dates : n <= last
  BY <1>2, HasMaximum
<1> DEFINE latest == {s \in set : rows[s].from = last}
           ranks == {Rank(s) : s \in latest}
<1>4. ranks \in SUBSET Nat /\ ranks # {} /\ \A n \in ranks : n <= Len(Slugs)
  <2>1. latest # {} /\ latest \subseteq Slug
    BY <1>1
  <2>2. QED
    BY <2>1, RankOrders
<1>5. PICK top \in ranks : \A n \in ranks : n <= top
  BY <1>4, RankOrders, HasMaximum
<1>6. PICK s \in latest : Rank(s) = top
  OBVIOUS
<1>7. s \in set /\ rows[s].from = last /\ \A t \in set : rows[t].from <= rows[s].from
  BY <1>3, <1>6
<1>8. \A t \in set : rows[t].from = rows[s].from => Rank(t) <= Rank(s)
  BY <1>5, <1>6, <1>7
<1> HIDE DEF set, dates, latest, ranks
<1>9. AnnotateChain(rows, asOf)[s] = "current"
  <2>1. ASSUME NEW t \in DOMAIN rows, Supersedes(rows, t, s, asOf) PROVE FALSE
    <3>1. /\ rows[t].section = x /\ rows[t].from # 0 /\ rows[t].from <= asOf
          /\ rows[t].from > rows[s].from \/ (rows[t].from = rows[s].from /\ Before(s, t))
      BY <1>1, <1>7, <2>1 DEF Supersedes, Undated
    <3>2. t \in set
      BY <3>1 DEF set, InForce, RowTypes
    <3>3. Rank(s) \in Nat /\ Rank(t) \in Nat
      BY <1>1, <1>7, <3>2, RankOrders
    <3>4. rows[t].from \in Nat /\ rows[s].from \in Nat
      BY <1>1, <1>7, <3>2
    <3>5. QED
      BY <1>7, <1>8, <3>1, <3>2, <3>3, <3>4 DEF Before
  <2>2. rows[s].from # Undated /\ ~(rows[s].from > asOf)
    BY <1>1, <1>7 DEF Undated
  <2>3. QED
    BY <1>1, <1>7, <2>1, <2>2 DEF AnnotateChain
<1>10. ASSUME NEW t \in set, t # s PROVE AnnotateChain(rows, asOf)[t] # "current"
  <2>1. Rank(t) # Rank(s) /\ Rank(t) \in Nat /\ Rank(s) \in Nat
    BY <1>1, <1>7, <1>10, RankOrders
  <2>2. rows[s].from > rows[t].from \/ (rows[s].from = rows[t].from /\ Before(t, s))
    <3>1. rows[t].from \in Nat /\ rows[s].from \in Nat
      BY <1>1, <1>7
    <3>2. QED
      BY <1>7, <1>8, <2>1, <3>1 DEF Before
  <2>3. Supersedes(rows, s, t, asOf)
    BY <1>1, <1>7, <2>2 DEF Supersedes, Undated
  <2>4. rows[t].from # Undated /\ ~(rows[t].from > asOf)
    BY <1>1 DEF Undated
  <2>5. QED
    BY <1>1, <1>7, <2>3, <2>4 DEF AnnotateChain
<1>11. QED
  BY <1>7, <1>9, <1>10 DEF set

(* In every section that has an ordinance in force on the day of an         *)
(* evaluation exactly one is current, and it is one of the latest, for any  *)
(* rows: two of the same date, or more, do not matter.                      *)
THEOREM OneCurrent == Spec => []OneCurrentPerSection
<1>1. TypeInv => OneCurrentPerSection
  <2> SUFFICES ASSUME TypeInv, NEW e \in Evals, eval[e].pc # "idle",
                      NEW x, InForce(eval[e].rows, eval[e].today, x) # {}
               PROVE  \E s \in InForce(eval[e].rows, eval[e].today, x) :
                        /\ \A t \in InForce(eval[e].rows, eval[e].today, x) :
                              eval[e].rows[t].from <= eval[e].rows[s].from
                        /\ {t \in InForce(eval[e].rows, eval[e].today, x) :
                              Status(eval[e])[t] = "current"} = {s}
    BY DEF OneCurrentPerSection, InForce
  <2>1. RowTypes(eval[e].rows) /\ eval[e].today \in Nat
    BY DEF TypeInv, EvalTypes, Days
  <2>2. QED
    BY <2>1, LatestIsCurrent DEF Status
<1>2. QED
  BY <1>1, TypeHolds, PTL

-----------------------------------------------------------------------------
(* Proof C.  Neither ProofHasChild nor ProofIsInBundle is inductive: they   *)
(* speak of the end of an evaluation.  From the moment on that citations    *)
(* are resolved, each resolution says how it was found (EvalProof).         *)

ResolutionFields == {"ref", "slug", "method", "childConfirmed", "resolved", "historical",
                     "supersededBy"}
IsResolution(res) == res = [f \in ResolutionFields |-> res[f]]

(* A resolution that names an ordinance names one in force that carries the *)
(* citation; only such a one can be confirmed.                              *)
Founded(ev, res) ==
    /\ IsResolution(res)
    /\ res.resolved /\ res.childConfirmed => res.slug # NoSlug
    /\ res.slug # NoSlug =>
          /\ res.slug \in CurrentRows(Status(ev))
          /\ \/ res.slug \in Carriers(ev, res.ref, CurrentRows(Status(ev)))
             \/ /\ res.ref.number \in DOMAIN ev.indexed
                /\ ev.indexed[res.ref.number] = res.slug

EvalProof(ev) ==
    ev.pc \in {"prove", "put"} =>
        /\ DOMAIN ev.resolutions \subseteq Nat
        /\ \A i \in DOMAIN ev.resolutions :
              /\ Founded(ev, ev.resolutions[i])
              /\ ev.resolutions[i].historical =>
                    \/ OnlyPast(ev, ev.resolutions[i].ref)
                    \/ ev.pc = "put" /\ Replaced(ev, ev.resolutions[i].ref)

ProofInv == \A e \in Evals : EvalProof(eval[e])

(* The rows that carry a citation are those that match it.                  *)
LEMMA CarriersMatch ==
    ASSUME NEW ev, NEW ref, NEW among
    PROVE  MatchChildrenByIdentity(ref, among, ev.rows, ev.stands) = Carriers(ev, ref, among)
BY DEF MatchChildrenByIdentity, ChildMatchesRef, Carriers, SameIdentity

LEMMA RowsAreSlugs ==
    ASSUME NEW ev, RowTypes(ev.rows)
    PROVE  /\ CurrentRows(Status(ev)) \subseteq DOMAIN ev.rows
           /\ PastRows(Status(ev)) \subseteq DOMAIN ev.rows
           /\ DOMAIN ev.rows \subseteq Slug
           /\ IsFiniteSet(CurrentRows(Status(ev))) /\ IsFiniteSet(PastRows(Status(ev)))
<1>1. DOMAIN Status(ev) = DOMAIN ev.rows /\ DOMAIN ev.rows \subseteq Slug
  BY DEF Status, AnnotateChain, RowTypes
<1>2. /\ CurrentRows(Status(ev)) \subseteq DOMAIN ev.rows
      /\ PastRows(Status(ev)) \subseteq DOMAIN ev.rows
  BY <1>1 DEF CurrentRows, PastRows
<1>3. QED
  BY <1>1, <1>2, SlugIsFinite, FS_Subset

LEMMA ResolvedIsFounded ==
    ASSUME NEW ev, RowTypes(ev.rows), NEW ref, NEW indexed,
           indexed = IF ref.number \in DOMAIN ev.indexed THEN ev.indexed[ref.number] ELSE NoSlug
    PROVE  LET res == ResolveRef(ref, ev.rows, Status(ev), ev.stands, indexed)
           IN  Founded(ev, res) /\ (res.historical => OnlyPast(ev, res.ref))
<1> DEFINE status == Status(ev)
           res == ResolveRef(ref, ev.rows, status, ev.stands, indexed)
           matches == MatchChildrenByIdentity(ref, CurrentRows(status), ev.rows, ev.stands)
           past == MatchChildrenByIdentity(ref, PastRows(status), ev.rows, ev.stands)
           match == TheMatch(ref, matches, ev.rows)
           found == {indexed} \cap CurrentRows(status)
           first == CHOOSE s \in match : TRUE
           Goal(r) == Founded(ev, r) /\ (r.historical => OnlyPast(ev, r.ref))
<1>1. /\ matches = Carriers(ev, ref, CurrentRows(status))
      /\ past = Carriers(ev, ref, PastRows(status))
  BY CarriersMatch
<1>2. /\ matches \subseteq CurrentRows(status) /\ CurrentRows(status) \subseteq Slug
      /\ IsFiniteSet(matches)
  <2>1. matches \subseteq CurrentRows(status)
    BY DEF MatchChildrenByIdentity
  <2>2. QED
    BY <2>1, RowsAreSlugs, FS_Subset
<1>3. match \subseteq matches
  BY DEF TheMatch, FilterChildrenBySectionHint
<1>4. res = IF match # {} THEN Resolution(ref, first, "notes_identity", FALSE)
            ELSE IF Cardinality(matches) > 1 THEN Resolution(ref, NoSlug, "", FALSE)
            ELSE IF found # {} THEN Resolution(ref, indexed, "bgbl_index", FALSE)
            ELSE IF ref.kind # "V" /\ past # {}
            THEN Resolution(ref, NoSlug, "notes_identity", TRUE)
            ELSE Resolution(ref, NoSlug, "", FALSE)
  BY DEF ResolveRef
<1>5. NoSlug \notin CurrentRows(status)
  BY <1>2, SlugIsFinite
<1> HIDE DEF res, matches, past, match, found, first, status
<1>6. CASE match # {}
  <2> DEFINE r == Resolution(ref, first, "notes_identity", FALSE)
  <2>1. first \in matches
    BY <1>3, <1>6 DEF first
  <2>2. IsResolution(r) /\ r.ref = ref /\ r.slug = first /\ ~r.historical /\ ~r.resolved
    BY DEF Resolution, IsResolution, ResolutionFields
  <2>3. res = r
    BY <1>4, <1>6
  <2> HIDE DEF r
  <2>4. Goal(r)
    BY <1>1, <1>2, <2>1, <2>2 DEF Founded, status
  <2>5. QED
    BY <2>3, <2>4 DEF res, status
<1>7. ASSUME NEW method, res = Resolution(ref, NoSlug, method, FALSE) PROVE Goal(res)
  <2>1. IsResolution(res) /\ res.slug = NoSlug /\ ~res.historical /\ ~res.resolved
    BY <1>7 DEF Resolution, IsResolution, ResolutionFields
  <2>2. QED
    BY <2>1 DEF Founded
<1>8. CASE match = {} /\ ~(Cardinality(matches) > 1) /\ found # {}
  <2> DEFINE r == Resolution(ref, indexed, "bgbl_index", FALSE)
  <2>1. indexed \in CurrentRows(status)
    BY <1>8 DEF found
  <2>2. IsResolution(r) /\ r.ref = ref /\ r.slug = indexed /\ ~r.historical /\ ~r.resolved
    BY DEF Resolution, IsResolution, ResolutionFields
  <2>3. res = r
    BY <1>4, <1>8
  <2>4. ref.number \in DOMAIN ev.indexed /\ ev.indexed[ref.number] = indexed
    BY <1>5, <2>1
  <2> HIDE DEF r
  <2>5. Goal(r)
    BY <2>1, <2>2, <2>4 DEF Founded, status
  <2>6. QED
    BY <2>3, <2>5 DEF res, status
<1>9. CASE /\ match = {} /\ ~(Cardinality(matches) > 1) /\ found = {}
           /\ ref.kind # "V" /\ past # {}
  <2> DEFINE r == Resolution(ref, NoSlug, "notes_identity", TRUE)
  <2>1. Cardinality(matches) <= 1
    BY <1>2, <1>9, FS_CardinalityType
  <2>2. IsResolution(r) /\ r.ref = ref /\ r.slug = NoSlug /\ ~r.resolved
    BY DEF Resolution, IsResolution, ResolutionFields
  <2>3. res = r
    BY <1>4, <1>9
  <2> HIDE DEF r
  <2>4. OnlyPast(ev, ref)
    BY <1>1, <1>9, <2>1 DEF OnlyPast, status
  <2>5. Goal(r)
    BY <2>2, <2>4 DEF Founded
  <2>6. QED
    BY <2>3, <2>5 DEF res, status
<1>10. QED
  <2>1. CASE \/ match = {} /\ Cardinality(matches) > 1
             \/ /\ match = {} /\ ~(Cardinality(matches) > 1) /\ found = {}
                /\ ~(ref.kind # "V" /\ past # {})
    <3>1. Goal(res)
      BY <1>4, <1>7, <2>1
    <3>2. QED
      BY <3>1 DEF res, status
  <2>2. QED
    BY <1>6, <1>8, <1>9, <2>1

(* What is said of a resolution does not depend on the other ones.          *)
LEMMA SameEvidence ==
    ASSUME NEW old, NEW new, new.rows = old.rows, new.stands = old.stands,
           new.indexed = old.indexed, new.today = old.today
    PROVE  /\ Status(new) = Status(old)
           /\ \A ref, among : Carriers(new, ref, among) = Carriers(old, ref, among)
           /\ \A ref : OnlyPast(new, ref) <=> OnlyPast(old, ref)
           /\ \A res : Founded(new, res) <=> Founded(old, res)
<1>1. Status(new) = Status(old)
  BY DEF Status
<1>2. ASSUME NEW ref, NEW among PROVE Carriers(new, ref, among) = Carriers(old, ref, among)
  BY DEF Carriers
<1>3. ASSUME NEW ref PROVE OnlyPast(new, ref) <=> OnlyPast(old, ref)
  BY <1>1, <1>2 DEF OnlyPast
<1>4. ASSUME NEW res PROVE Founded(new, res) <=> Founded(old, res)
  BY <1>1, <1>2 DEF Founded
<1>5. QED
  BY <1>1, <1>2, <1>3, <1>4

LEMMA AppliedIsFounded ==
    ASSUME NEW ev, NEW res, NEW state, Founded(ev, res),
           res.historical => OnlyPast(ev, res.ref)
    PROVE  LET new == ApplyChildFreshnessProof(res, state)
           IN  Founded(ev, new) /\ (new.historical => OnlyPast(ev, new.ref))
<1> DEFINE new == [res EXCEPT !.childConfirmed = TRUE, !.resolved = TRUE]
<1>1. CASE NeedsChild(res) /\ state = "confirmed_current"
  <2>1. IsResolution(res) /\ res.slug # NoSlug
    BY <1>1 DEF Founded, NeedsChild
  <2>2. /\ IsResolution(new) /\ new.slug = res.slug /\ new.ref = res.ref
        /\ new.historical = res.historical
    BY <2>1 DEF IsResolution, ResolutionFields
  <2>3. ApplyChildFreshnessProof(res, state) = new
    BY <1>1 DEF ApplyChildFreshnessProof
  <2> HIDE DEF new
  <2>4. Founded(ev, new) /\ (new.historical => OnlyPast(ev, new.ref))
    BY <2>1, <2>2 DEF Founded
  <2>5. QED
    BY <2>3, <2>4
<1>2. CASE ~(NeedsChild(res) /\ state = "confirmed_current")
  BY <1>2 DEF ApplyChildFreshnessProof
<1>3. QED
  BY <1>1, <1>2

(* Replaced, by an ordinance of a given set.                                *)
ReplacedBy(ev, r, confirmed) ==
    LET past == Carriers(ev, r, PastRows(Status(ev)))
    IN  /\ r.kind = "V" /\ past # {}
        /\ \E s \in CurrentRows(Status(ev)) \cap confirmed :
              /\ ev.rows[s].section # NoSection
              /\ IF r.section # NoSection THEN ev.rows[s].section = r.section
                 ELSE \A t \in past : ev.rows[s].section = ev.rows[t].section

(* The section MarkSupersededPastKindV looks in is that of the citation, or *)
(* else of every past ordinance that carries it.                            *)
LEMMA SectionOfAllPast ==
    ASSUME NEW ref, NEW rows, NEW past, IsFiniteSet(past),
           SupersededSection(ref, past, rows) # NoSection, ref.section = NoSection
    PROVE  \A t \in past : rows[t].section = SupersededSection(ref, past, rows)
<1> DEFINE sections == {rows[s].section : s \in past}
           f == [s \in past |-> rows[s].section]
<1>1. IsFiniteSet(sections)
  <2>1. f \in Surjection(past, sections)
    BY DEF Surjection
  <2>2. QED
    BY <2>1, FS_Surjection
<1>2. /\ Cardinality(sections) = 1
      /\ SupersededSection(ref, past, rows) = CHOOSE x \in sections : TRUE
  BY DEF SupersededSection
<1>3. \A t \in past : rows[t].section \in sections
  OBVIOUS
<1> HIDE DEF sections
<1>4. PICK x : sections = {x}
  BY <1>1, <1>2, FS_Singleton
<1>5. QED
  BY <1>2, <1>3, <1>4

LEMMA MarkedIsFounded ==
    ASSUME NEW ev, RowTypes(ev.rows), NEW res, Founded(ev, res),
           res.historical => OnlyPast(ev, res.ref), NEW confirmed
    PROVE  LET new == MarkSuperseded(res, ev.rows, Status(ev), ev.stands, confirmed)
           IN  /\ Founded(ev, new) /\ new.slug = res.slug
               /\ new.resolved = res.resolved /\ new.childConfirmed = res.childConfirmed
               /\ new.historical => OnlyPast(ev, new.ref) \/ ReplacedBy(ev, new.ref, confirmed)
<1> DEFINE status == Status(ev)
           past == MatchChildrenByIdentity(res.ref, PastRows(status), ev.rows, ev.stands)
           section == SupersededSection(res.ref, past, ev.rows)
           siblings == {s \in CurrentRows(status) \cap confirmed : ev.rows[s].section = section}
           last == CHOOSE s \in siblings : \A t \in siblings : ~Before(t, s)
           new == [res EXCEPT !.historical = TRUE, !.method = "superseded_past_v",
                              !.supersededBy = last]
           marks == /\ ~Proved(res) /\ res.slug = NoSlug /\ res.ref.kind = "V"
                    /\ past # {} /\ section # NoSection /\ siblings # {}
           marked == MarkSuperseded(res, ev.rows, status, ev.stands, confirmed)
<1>1. marked = IF marks THEN new ELSE res
  BY DEF MarkSuperseded
<1>2. past = Carriers(ev, res.ref, PastRows(status)) /\ past \subseteq PastRows(status)
  BY CarriersMatch DEF Carriers
<1>3. IsFiniteSet(past)
  BY <1>2, RowsAreSlugs, FS_Subset
<1> HIDE DEF last
<1>4. /\ new.slug = res.slug /\ new.ref = res.ref /\ new.resolved = res.resolved
      /\ new.childConfirmed = res.childConfirmed /\ IsResolution(new)
  <2>1. IsResolution(res)
    BY DEF Founded
  <2>2. QED
    BY <2>1 DEF IsResolution, ResolutionFields
<1> HIDE DEF new, marked, past, section
<1>5. ASSUME marks PROVE Founded(ev, new) /\ ReplacedBy(ev, new.ref, confirmed)
  <2>1. Founded(ev, new)
    BY <1>4, <1>5 DEF Founded
  <2>2. PICK s \in CurrentRows(status) \cap confirmed : ev.rows[s].section = section
    BY <1>5
  <2>3. section # NoSection /\ res.ref.section # NoSection => section = res.ref.section
    BY DEF section, SupersededSection
  <2>4. res.ref.section = NoSection => \A t \in past : ev.rows[t].section = section
    BY <1>3, <1>5, SectionOfAllPast DEF section
  <2>5. ReplacedBy(ev, res.ref, confirmed)
    BY <1>2, <1>5, <2>2, <2>3, <2>4 DEF ReplacedBy
  <2>6. QED
    BY <1>4, <2>1, <2>5
<1>6. CASE marks
  BY <1>1, <1>4, <1>5, <1>6 DEF marked
<1>7. CASE ~marks
  BY <1>1, <1>7 DEF marked
<1>8. QED
  BY <1>6, <1>7

LEMMA ProofOneEval ==
    ASSUME TypeInv, ProofInv, NEW e \in Evals, NEW new, EvalProof(new),
           eval' = [eval EXCEPT ![e] = new]
    PROVE  ProofInv'
<1>1. \A f \in Evals : eval'[f] = IF f = e THEN new ELSE eval[f]
  BY DEF TypeInv
<1>2. \A f \in Evals : EvalProof(eval'[f])
  BY <1>1 DEF ProofInv
<1>3. QED
  BY <1>2 DEF ProofInv

LEMMA ProofResolve ==
    ASSUME TypeInv, ProofInv, NEW e \in Evals, Resolve(e)
    PROVE  ProofInv'
<1> DEFINE ev == eval[e]
           childStands == [v \in DOMAIN ev.rows |-> Stand(v)]
           current == [c \in {d \in Citations : index[d] # NoSlug} |-> index[c]]
           stand == StandCitation(ParentStand[ev.parent])
           resolutions == ResolveOperativeVRefs(ev.refs, ev.rows, Status(ev), childStands,
                                                current, stand)
           todo == ToResolve(ev.refs, stand, DOMAIN ev.rows # {})
           new == [ev EXCEPT !.pc = "prove", !.stands = childStands, !.indexed = current,
                             !.resolutions = resolutions]
           At(i) == IF todo[i].number \in DOMAIN current THEN current[todo[i].number] ELSE NoSlug
<1>1. EvalTypes(ev) /\ DOMAIN eval = Evals
  BY DEF TypeInv
<1>2. eval' = [eval EXCEPT ![e] = new]
  BY <1>1 DEF Resolve
<1> HIDE DEF childStands, current, todo
<1>3. resolutions = [i \in 1..Len(todo) |->
                        ResolveRef(todo[i], ev.rows, Status(ev), childStands, At(i))]
  BY DEF ResolveOperativeVRefs, todo
<1> HIDE DEF resolutions
<1>4. /\ new.pc = "prove" /\ new.rows = ev.rows /\ new.today = ev.today
      /\ new.stands = childStands /\ new.indexed = current /\ new.resolutions = resolutions
  BY <1>1 DEF EvalTypes, IsEval, EvalFields
<1> HIDE DEF new
<1>5. RowTypes(new.rows) /\ Status(new) = Status(ev)
  BY <1>1, <1>4 DEF EvalTypes, Status
<1>6. ASSUME NEW i \in DOMAIN resolutions
      PROVE  Founded(new, resolutions[i])
             /\ (resolutions[i].historical => OnlyPast(new, resolutions[i].ref))
  <2>1. resolutions[i] = ResolveRef(todo[i], new.rows, Status(new), new.stands, At(i))
    BY <1>3, <1>4, <1>5, <1>6
  <2>2. At(i) = IF todo[i].number \in DOMAIN new.indexed THEN new.indexed[todo[i].number]
                ELSE NoSlug
    BY <1>4
  <2> HIDE DEF At
  <2>3. QED
    BY <1>5, <2>1, <2>2, ResolvedIsFounded
<1>7. DOMAIN resolutions \subseteq Nat
  BY <1>3
<1>8. EvalProof(new)
  BY <1>4, <1>6, <1>7 DEF EvalProof
<1>9. QED
  BY <1>2, <1>8, ProofOneEval

LEMMA ConfirmedAre ==
    ASSUME NEW resolutions
    PROVE  \A x : x \in ConfirmedSlugs(resolutions) <=>
                  \E i \in DOMAIN resolutions :
                     /\ resolutions[i].resolved /\ resolutions[i].childConfirmed
                     /\ resolutions[i].slug = x
BY Zenon DEF ConfirmedSlugs, ToSet

LEMMA ConfirmedStay ==
    ASSUME NEW some, NEW others,
           \A i \in DOMAIN some : /\ i \in DOMAIN others
                                  /\ some[i].slug = others[i].slug
                                  /\ some[i].resolved <=> others[i].resolved
                                  /\ some[i].childConfirmed <=> others[i].childConfirmed
    PROVE  ConfirmedSlugs(some) \subseteq ConfirmedSlugs(others)
<1> SUFFICES ASSUME NEW x \in ConfirmedSlugs(some) PROVE x \in ConfirmedSlugs(others)
  OBVIOUS
<1>1. PICK i \in DOMAIN some : /\ some[i].resolved /\ some[i].childConfirmed
                               /\ some[i].slug = x
  BY ConfirmedAre, Zenon
<1>2. i \in DOMAIN others /\ others[i].resolved /\ others[i].childConfirmed /\ others[i].slug = x
  BY <1>1, Zenon
<1>3. QED
  BY <1>2, ConfirmedAre, Zenon

LEMMA ProofProveNext ==
    ASSUME TypeInv, ProofInv, NEW e \in Evals, ProveNext(e)
    PROVE  ProofInv'
<1> DEFINE ev == eval[e]
           res == ev.resolutions
<1>1. EvalTypes(ev) /\ DOMAIN eval = Evals /\ ev.pc = "prove"
  BY DEF TypeInv, ProveNext
<1>2. /\ DOMAIN res \subseteq Nat
      /\ \A i \in DOMAIN res : Founded(ev, res[i]) /\ (res[i].historical => OnlyPast(ev, res[i].ref))
  BY <1>1 DEF ProofInv, EvalProof
<1>3. CASE ~(ev.at > Len(res))
  <2> DEFINE state == IF NeedsChild(res[ev.at]) THEN EvaluateLeaf(res[ev.at].slug) ELSE ""
             proved == ApplyChildFreshnessProof(res[ev.at], state)
             after == [res EXCEPT ![ev.at] = proved]
             new == [ev EXCEPT !.at = ev.at + 1, !.resolutions = after]
  <2>1. eval' = [eval EXCEPT ![e] = new]
    BY <1>1, <1>3 DEF ProveNext, EvalTypes, IsEval, EvalFields
  <2> HIDE DEF state
  <2>2. ev.at \in DOMAIN res => Founded(ev, proved) /\ (proved.historical => OnlyPast(ev, proved.ref))
    BY <1>2, AppliedIsFounded
  <2> HIDE DEF proved
  <2>3. /\ DOMAIN after = DOMAIN res
        /\ \A i \in DOMAIN after : after[i] = IF i = ev.at THEN proved ELSE res[i]
    OBVIOUS
  <2> HIDE DEF after
  <2>4. /\ new.pc = "prove" /\ new.rows = ev.rows /\ new.today = ev.today
        /\ new.stands = ev.stands /\ new.indexed = ev.indexed /\ new.resolutions = after
    BY <1>1 DEF EvalTypes, IsEval, EvalFields
  <2> HIDE DEF new
  <2>5. \A i \in DOMAIN after : Founded(new, after[i]) /\ (after[i].historical => OnlyPast(new, after[i].ref))
    BY <1>2, <2>2, <2>3, <2>4, SameEvidence
  <2>6. EvalProof(new)
    BY <1>2, <2>3, <2>4, <2>5 DEF EvalProof
  <2>7. QED
    BY <2>1, <2>6, ProofOneEval
<1>4. CASE ev.at > Len(res)
  <2> DEFINE after == MarkSupersededPastKindV(res, ev.rows, Status(ev), ev.stands)
             confirmed == ConfirmedSlugs(res)
             new == [ev EXCEPT !.pc = "put", !.resolutions = after]
  <2>1. eval' = [eval EXCEPT ![e] = new]
    BY <1>1, <1>4 DEF ProveNext
  <2>2. /\ DOMAIN after = DOMAIN res
        /\ \A i \in DOMAIN after :
              after[i] = MarkSuperseded(res[i], ev.rows, Status(ev), ev.stands, confirmed)
    BY DEF MarkSupersededPastKindV
  <2> HIDE DEF after, confirmed
  <2>3. \A i \in DOMAIN after :
           /\ Founded(ev, after[i]) /\ after[i].slug = res[i].slug
           /\ after[i].resolved = res[i].resolved
           /\ after[i].childConfirmed = res[i].childConfirmed
           /\ after[i].historical => OnlyPast(ev, after[i].ref)
                                     \/ ReplacedBy(ev, after[i].ref, confirmed)
    BY <1>1, <1>2, <2>2, MarkedIsFounded DEF EvalTypes
  <2>4. ConfirmedSlugs(after) = confirmed
    <3>1. \A i \in DOMAIN after : /\ i \in DOMAIN res
                                  /\ after[i].slug = res[i].slug
                                  /\ after[i].resolved <=> res[i].resolved
                                  /\ after[i].childConfirmed <=> res[i].childConfirmed
      BY <2>2, <2>3, Zenon
    <3>2. DOMAIN after = DOMAIN res
      BY <2>2
    <3>3. ConfirmedSlugs(after) \subseteq ConfirmedSlugs(res)
      BY <3>1, ConfirmedStay
    <3>4. ConfirmedSlugs(res) \subseteq ConfirmedSlugs(after)
      <4>1. \A i \in DOMAIN res : /\ i \in DOMAIN after
                                  /\ res[i].slug = after[i].slug
                                  /\ res[i].resolved <=> after[i].resolved
                                  /\ res[i].childConfirmed <=> after[i].childConfirmed
        BY <3>1, <3>2, Zenon
      <4>2. QED
        BY <4>1, ConfirmedStay
    <3>5. QED
      BY <3>3, <3>4 DEF confirmed
  <2>5. /\ new.pc = "put" /\ new.rows = ev.rows /\ new.today = ev.today
        /\ new.stands = ev.stands /\ new.indexed = ev.indexed /\ new.resolutions = after
    BY <1>1 DEF EvalTypes, IsEval, EvalFields
  <2> HIDE DEF new
  <2>6. \A r : ReplacedBy(ev, r, confirmed) => Replaced(new, r)
    <3>1. Confirmed(new) = confirmed
      BY <2>4, <2>5 DEF Confirmed
    <3>2. Status(new) = Status(ev) /\ \A r, among : Carriers(new, r, among) = Carriers(ev, r, among)
      BY <2>5, SameEvidence
    <3>3. QED
      BY <2>5, <3>1, <3>2 DEF ReplacedBy, Replaced
  <2>7. \A i \in DOMAIN after :
           /\ Founded(new, after[i])
           /\ after[i].historical => OnlyPast(new, after[i].ref) \/ Replaced(new, after[i].ref)
    BY <2>3, <2>5, <2>6, SameEvidence
  <2>8. EvalProof(new)
    BY <1>2, <2>2, <2>5, <2>7 DEF EvalProof
  <2>9. QED
    BY <2>1, <2>8, ProofOneEval
<1>5. QED
  BY <1>3, <1>4

LEMMA ProofStep == TypeInv /\ ProofInv /\ [Next]_vars => ProofInv'
<1> SUFFICES ASSUME TypeInv, ProofInv, [Next]_vars PROVE ProofInv'
  OBVIOUS
<1>1. ASSUME UNCHANGED eval PROVE ProofInv'
  BY <1>1 DEF ProofInv
<1>2. ASSUME NEW e \in Evals, NEW new, new.pc \notin {"prove", "put"},
             eval' = [eval EXCEPT ![e] = new]
      PROVE  ProofInv'
  <2>1. EvalProof(new)
    BY <1>2 DEF EvalProof
  <2>2. QED
    BY <1>2, <2>1, ProofOneEval
<1>3. ASSUME NEW e \in Evals, NEW p \in Parents, BeginEval(e, p) PROVE ProofInv'
  <2> DEFINE overdue == {v \in Slug : edges[<<p, v>>] # NoEdge /\ Amended(v)}
             new == [IdleEval EXCEPT !.pc = "edges", !.parent = p, !.today = today,
                                     !.overdue = overdue]
  <2>1. eval' = [eval EXCEPT ![e] = new]
    BY <1>3 DEF BeginEval
  <2> HIDE DEF overdue
  <2>2. new.pc = "edges"
    BY DEF IdleEval
  <2> HIDE DEF new
  <2>3. QED
    BY <1>2, <2>1, <2>2
<1>4. ASSUME NEW e \in Evals, EvalStep(e) PROVE ProofInv'
  <2> DEFINE ev == eval[e]
  <2>1. EvalTypes(ev) /\ DOMAIN eval = Evals
    BY DEF TypeInv
  <2>2. CASE ReadEdges(e)
    <3>1. PICK rows : eval' = [eval EXCEPT ![e] = [ev EXCEPT !.pc = "evidence", !.rows = rows]]
      BY <2>1, <2>2 DEF ReadEdges
    <3> DEFINE new == [ev EXCEPT !.pc = "evidence", !.rows = rows]
    <3>2. new.pc = "evidence"
      BY <2>1 DEF EvalTypes, IsEval, EvalFields
    <3> HIDE DEF new
    <3>3. QED
      BY <1>2, <3>1, <3>2 DEF new
  <2>3. CASE ReadEvidence(e)
    <3>1. PICK refs, issues :
             eval' = [eval EXCEPT ![e] = [ev EXCEPT !.pc = "stubs", !.refs = refs,
                                                    !.issues = issues]]
      BY <2>1, <2>3 DEF ReadEvidence
    <3> DEFINE new == [ev EXCEPT !.pc = "stubs", !.refs = refs, !.issues = issues]
    <3>2. new.pc = "stubs"
      BY <2>1 DEF EvalTypes, IsEval, EvalFields
    <3> HIDE DEF new
    <3>3. QED
      BY <1>2, <3>1, <3>2 DEF new
  <2>4. CASE EnsureStubs(e)
    <3> DEFINE new == [ev EXCEPT !.pc = "resolve"]
    <3>1. eval' = [eval EXCEPT ![e] = new]
      BY <2>1, <2>4 DEF EnsureStubs
    <3>2. new.pc = "resolve"
      BY <2>1 DEF EvalTypes, IsEval, EvalFields
    <3> HIDE DEF new
    <3>3. QED
      BY <1>2, <3>1, <3>2
  <2>5. CASE Resolve(e)
    BY <2>5, ProofResolve
  <2>6. CASE ProveNext(e)
    BY <2>6, ProofProveNext
  <2>7. CASE PutFreshness(e)
    <3>1. IdleEval.pc = "idle"
      BY DEF IdleEval
    <3>2. eval' = [eval EXCEPT ![e] = IdleEval]
      BY <2>7 DEF PutFreshness
    <3>3. QED
      BY <1>2, <3>1, <3>2
  <2>8. QED
    BY <1>4, <2>2, <2>3, <2>4, <2>5, <2>6, <2>7 DEF EvalStep
<1>5. CASE Restart
  <2>1. \A e \in Evals : eval'[e] = IdleEval
    BY <1>5 DEF Restart
  <2>2. EvalProof(IdleEval)
    BY DEF EvalProof, IdleEval
  <2>3. QED
    BY <2>1, <2>2 DEF ProofInv
<1>6. CASE NextDay
  BY <1>1, <1>6 DEF NextDay
<1>7. ASSUME NEW v \in Slug, PublishText(v) \/ \E n \in Issues : Amend(v, n) PROVE ProofInv'
  BY <1>1, <1>7 DEF PublishText, Amend
<1>8. CASE RunTOC
  BY <1>1, <1>8 DEF RunTOC
<1>9. ASSUME NEW i \in Ingestors,
             \/ BeginDiscovery(i) \/ IngestStep(i) \/ FetchFails(i) \/ IngestWriteFails(i)
             \/ \E v \in Slug, kind \in {"recheck", "export"} : BeginRequest(i, v, kind)
      PROVE  ProofInv'
  <2>1. IngestOnly
    BY <1>9 DEF BeginDiscovery, BeginRequest, IngestStep, FetchFails, IngestWriteFails,
                NextCandidate, EndDiscovery, FetchStand, UpsertStand, FetchXML,
                UpsertBGBlIndex, DeleteDiscoveredBySlug, UpsertDiscoveredLink, EndIngest,
                MarkIngested, Unqueue
  <2>2. QED
    BY <1>1, <2>1 DEF IngestOnly
<1>10. CASE UNCHANGED vars
  BY <1>1, <1>10 DEF vars
<1>11. QED
  BY <1>3, <1>4, <1>5, <1>6, <1>7, <1>8, <1>9, <1>10 DEF Next

LEMMA ProofHolds == Spec => []ProofInv
<1>1. Init => ProofInv
  <2>1. EvalProof(IdleEval)
    BY DEF EvalProof, IdleEval
  <2>2. QED
    BY <2>1 DEF Init, ProofInv
<1>2. TypeInv /\ ProofInv /\ [Next]_vars => ProofInv'
  BY ProofStep
<1>3. QED
  BY <1>1, <1>2, TypeHolds, PTL DEF Spec

LEMMA ConfirmedIsInForce ==
    ASSUME TypeInv, ProofInv, NEW e \in Evals, eval[e].pc = "put",
           NEW s \in Confirmed(eval[e])
    PROVE  s \in CurrentRows(Status(eval[e]))
<1> DEFINE ev == eval[e]
<1>1. PICK i \in DOMAIN ev.resolutions :
         /\ ev.resolutions[i].resolved /\ ev.resolutions[i].childConfirmed
         /\ ev.resolutions[i].slug = s
  BY ConfirmedAre, Zenon DEF Confirmed
<1>2. Founded(ev, ev.resolutions[i])
  BY DEF ProofInv, EvalProof
<1>3. QED
  BY <1>1, <1>2 DEF Founded

(* What an evaluation rests its proof on is in the operative bundle of the  *)
(* parent, or is an undated seeded row.                                     *)
THEOREM ProofInBundle == Spec => []ProofIsInBundle
<1>1. TypeInv /\ ProofInv => ProofIsInBundle
  <2> SUFFICES ASSUME TypeInv, ProofInv, NEW e \in Evals, eval[e].pc = "put",
                      NEW s \in Confirmed(eval[e])
               PROVE  \/ s \in FilterBundleMembers(eval[e].rows, Status(eval[e]), FALSE)
                      \/ eval[e].rows[s].source = "seeded" /\ eval[e].rows[s].from = Undated
    BY DEF ProofIsInBundle
  <2> DEFINE rows == eval[e].rows
             status == Status(eval[e])
  <2>1. RowTypes(rows)
    BY DEF TypeInv, EvalTypes
  <2>2. s \in DOMAIN rows /\ status[s] \in {"current", ""}
    <3>1. s \in CurrentRows(status)
      BY ConfirmedIsInForce
    <3>2. s \in DOMAIN rows
      BY <2>1, <3>1, RowsAreSlugs
    <3>3. QED
      BY <3>1, <3>2 DEF CurrentRows
  <2>3. status[s] = "" => rows[s].from = Undated
    BY <2>2 DEF Status, AnnotateChain
  <2>4. QED
    BY <2>1, <2>2, <2>3 DEF RowTypes, FilterBundleMembers
<1>2. QED
  BY <1>1, TypeHolds, ProofHolds, PTL

(* What a verdict that the parent is current says of a citation.            *)
LEMMA CurrentMeansProved ==
    ASSUME NEW in, Evaluate(in).state = "confirmed_current"
    PROVE  \A ref \in in.refs : ~Unmatched(in, ref) /\ ~UnconfirmedChild(in, ref)
BY DEF Evaluate, Verdict

LEMMA FirstMatching ==
    ASSUME NEW resolutions, DOMAIN resolutions \subseteq Nat, NEW ref,
           Matching(resolutions, ref) # {}
    PROVE  \E i \in DOMAIN resolutions :
              /\ FindVRefResolution(resolutions, ref) = resolutions[i]
              /\ RefIdentityEqual(resolutions[i].ref, ref)
<1> DEFINE set == Matching(resolutions, ref)
           first == CHOOSE i \in set : \A j \in set : i <= j
<1>1. set \subseteq Nat /\ set # {}
  BY DEF Matching
<1> HIDE DEF set
<1>2. first \in set
  <2>1. \E i \in set : \A j \in set : i <= j
    BY <1>1, HasMinimum
  <2>2. QED
    BY <2>1
<1>3. FindVRefResolution(resolutions, ref) = resolutions[first]
  BY DEF FindVRefResolution, set
<1> HIDE DEF first
<1>4. QED
  BY <1>2, <1>3 DEF Matching, set

(* When an evaluation concludes that a parent is current, each citation it  *)
(* had to prove is proved: by an ordinance in force that carries it and was *)
(* confirmed, by a past one, or, for a V, by the confirmed ordinance in     *)
(* force that replaced the past one.  For any citations, rows and chains,   *)
(* and whatever ingests and other evaluations do meanwhile.                 *)
THEOREM CurrentIsProved == Spec => []ProofHasChild
<1>1. TypeInv /\ ProofInv => ProofHasChild
  <2> SUFFICES ASSUME TypeInv, ProofInv, NEW e \in Evals, eval[e].pc = "put",
                      Conclusion(eval[e]) = "confirmed_current",
                      NEW r \in ToSet(eval[e].refs), MustBeProven(eval[e], r)
               PROVE  \E res \in ToSet(eval[e].resolutions) :
                         RefIdentityEqual(res.ref, r) /\ ProvenBy(eval[e], res.ref)
    BY DEF ProofHasChild
  <2> DEFINE ev == eval[e]
             stand == StandCitation(ParentStand[ev.parent])
             issues == {GazetteIssue(n) : n \in ev.issues}
             in == EvalInput(stand, {}, ToSet(ev.refs), issues, DOMAIN ev.rows # {}, TRUE,
                             ev.resolutions)
             found == FindVRefResolution(ev.resolutions, r)
  <2>1. Evaluate(in).state = "confirmed_current"
    BY DEF Conclusion
  <2> HIDE DEF issues
  <2>2. /\ in.refs = ToSet(ev.refs) /\ in.stand = stand /\ in.resolutions = ev.resolutions
        /\ in.proofAware /\ (in.hasSeeded <=> DOMAIN ev.rows # {})
    BY DEF EvalInput
  <2> HIDE DEF in
  <2>3. ~Unmatched(in, r) /\ ~UnconfirmedChild(in, r)
    BY <2>1, <2>2, CurrentMeansProved
  <2>4. NeedsProof(in, r)
    BY <2>2 DEF MustBeProven, NeedsProof, IsOperativeInstrumentRef, SectionScopedBek
  <2>5. Matching(ev.resolutions, r) # {} /\ Proved(found)
    BY <2>2, <2>3, <2>4 DEF Unmatched, UnconfirmedChild, Found
  <2>6. DOMAIN ev.resolutions \subseteq Nat
    BY DEF ProofInv, EvalProof
  <2>7. PICK i \in DOMAIN ev.resolutions :
           found = ev.resolutions[i] /\ RefIdentityEqual(ev.resolutions[i].ref, r)
    BY <2>5, <2>6, FirstMatching
  <2> HIDE DEF found
  <2>8. /\ Founded(ev, found)
        /\ found.historical => OnlyPast(ev, found.ref) \/ Replaced(ev, found.ref)
    BY <2>7 DEF ProofInv, EvalProof
  <2>9. found.resolved /\ found.childConfirmed => Carried(ev, found.ref)
    <3> SUFFICES ASSUME found.resolved, found.childConfirmed PROVE Carried(ev, found.ref)
      BY Zenon
    <3>1. found.slug \in Confirmed(ev)
      BY <2>7, ConfirmedAre, Zenon DEF Confirmed
    <3>2. found.slug \in CurrentRows(Status(ev))
          /\ \/ found.slug \in Carriers(ev, found.ref, CurrentRows(Status(ev)))
             \/ /\ found.ref.number \in DOMAIN ev.indexed
                /\ ev.indexed[found.ref.number] = found.slug
      BY <2>8 DEF Founded
    <3>3. QED
      BY <3>1, <3>2 DEF Carried
  <2>10. ProvenBy(ev, found.ref)
    BY <2>5, <2>8, <2>9, Zenon DEF Proved, ProvenBy
  <2>11. found \in ToSet(ev.resolutions)
    BY <2>7 DEF ToSet
  <2>12. QED
    BY <2>7, <2>10, <2>11
<1>2. QED
  BY <1>1, TypeHolds, ProofHolds, PTL

=============================================================================
