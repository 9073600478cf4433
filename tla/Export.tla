------------------------------- MODULE Export -------------------------------
(***************************************************************************)
(* Exports of one law (exportLaw) and of a law with its operative          *)
(* ordinances (exportOperativeBundleLaw), the cache of parsed texts, and   *)
(* ForceRecheck, which writes Stands and empties the cache next to them.   *)
(* Both store the citations of the editorial notes of a text they fetched, *)
(* which the evaluation requires to be proved.                             *)
(*                                                                         *)
(* A write of the store that fails is logged or passed over, and the       *)
(* export or recheck goes on; it has an action of its own beside the write. *)
(*                                                                         *)
(* A law is evaluated in one action here (its reads are those of           *)
(* GazetteStore and Discovery) while all sources are fresh.  The ingest at *)
(* the end of exportLaw is in Discovery.  A bundle may export a law a      *)
(* second time for the placement of its members; the result is thrown      *)
(* away, and its effects are those of another export.                      *)
(***************************************************************************)
EXTENDS LinkedProof

CONSTANTS
    Parents,      \* laws that are exported as bundles; Slug are their ordinances
    Members,      \* the operative ordinances of every law
    Cites,        \* the ordinances that the editorial notes of each text cite
    Versions,     \* the Stands of the texts that GII serves of each law, 0 for none
    KnownStands,  \* the Stands in the store at the beginning, 0 for none
    Amendments,   \* the issues that the feed will link: <<law, number>>
    RefuseStale,  \* config.RefuseExportStale
    MaxMembers,   \* MaxOperativeBundleMembers
    CacheMax,     \* capacity of export.Cache
    Exporters,    \* goroutines that answer an export or a bundle
    Recheckers    \* goroutines in ForceRecheck

Laws == Parents \cup Slug
Numbers == (UNION {ToSet(Versions[l]) : l \in Laws}) \cup {KnownStands[l] : l \in Laws}
               \cup {a[2] : a \in Amendments} \cup {0}

ASSUME SourcesAssumption ==
    /\ Parents \cap Slug = {}
    /\ Versions \in [Laws -> Seq(Nat)] /\ \A l \in Laws : Len(Versions[l]) > 0
    /\ KnownStands \in [Laws -> Nat]
    /\ Members \in [Laws -> SUBSET Slug]
    /\ \A l \in Laws : Cites[l] \in [DOMAIN Versions[l] -> SUBSET Slug]
    /\ Amendments \subseteq Laws \X Nat
    /\ Exporters \cap Recheckers = {}

ASSUME BoundAssumption ==
    /\ RefuseStale \in BOOLEAN
    /\ MaxMembers \in Nat /\ CacheMax \in Nat \ {0}

VARIABLES
    version,  \* which text of each law GII serves
    linked,   \* the latest gazette issue linked to each law, 0 for none
    stands,   \* bucket stands: the number of the Stand of each law, 0 for none
    editorial, \* keys editorial:<law>: the text whose citations are stored, 0 for none
    cache,    \* export.Cache.entries
    request,  \* where each export stands
    recheck   \* where each recheck stands

vars == <<version, linked, stands, editorial, cache, request, recheck>>

(* early: the text was fetched before the Stand it is filed under was read. *)
NoEntry == [text |-> 0, early |-> FALSE]
NoLaw == "none"
IdleRequest == [pc |-> "idle", bundle |-> FALSE, root |-> NoLaw, law |-> NoLaw, todo |-> {},
                allow |-> FALSE, state |-> "", stand |-> 0, xml |-> 0, early |-> FALSE,
                ir |-> NoEntry, out |-> <<>>, overdue |-> {}, otherText |-> FALSE]
IdleRecheck == [pc |-> "idle", law |-> NoLaw, todo |-> {}, number |-> 0, xml |-> 0]

-----------------------------------------------------------------------------
(* The evaluation of a law (freshnessFor).                                  *)

StandCitation(number) ==
    [parseOK |-> number # 0, teil |-> 1, year |-> 1, number |-> <<number, 0>>,
     page |-> 0, date |-> NoTime]
GazetteIssue(n) ==
    [id |-> n, teil |-> 1, year |-> 1, number |-> <<n, 0>>, title |-> "", published |-> NoTime]

(* The citation of an ordinance, in a volume of its own.                    *)
CitationOf(m) == [Citation("V", Rank(m), NoSection) EXCEPT !.teil = 2]

EvalInput(l, resolutions) ==
    [now |-> 1, toc |-> 1, gii |-> 1, bgbl |-> 1, probeOnly |-> FALSE,
     linksReadFailed |-> FALSE, stand |-> StandCitation(stands[l]),
     linked |-> {GazetteIssue(n) : n \in {linked[l]} \ {0}},
     classes |-> [n \in {linked[l]} |-> "confirmed"],
     refs |-> {r.ref : r \in ToSet(resolutions)}, instrIssues |-> {},
     hasSeeded |-> resolutions # <<>>, proofAware |-> TRUE, resolutions |-> resolutions]

(* The citations that CollectEvidence takes from the editorial notes; one   *)
(* of an ordinance that is no member of the law has no child to prove it.   *)
Cited(l, text) == IF text = 0 THEN {} ELSE Cites[l][text]

LeafState(m) == Evaluate(EvalInput(m, <<>>)).state
Resolutions(l) ==
    LET todo == InKeyOrder(Cited(l, editorial[l]))
        child(m) == IF m \in Members[l] THEN m ELSE NoSlug
    IN  [i \in DOMAIN todo |->
            ApplyChildFreshnessProof(
                Resolution(CitationOf(todo[i]), child(todo[i]), "notes_identity", FALSE),
                LeafState(todo[i]))]
FreshnessFor(l) == Evaluate(EvalInput(l, Resolutions(l))).state

-----------------------------------------------------------------------------

TypeOK ==
    /\ \A l \in Laws : version[l] \in DOMAIN Versions[l]
    /\ linked \in [Laws -> Numbers]
    /\ stands \in [Laws -> Numbers]
    /\ \A l \in Laws : editorial[l] \in {0} \cup DOMAIN Versions[l]
    /\ \A k \in DOMAIN cache : k \in Laws \X Numbers /\ cache[k].text \in DOMAIN Versions[k[1]]
    /\ \A e \in Exporters :
          /\ request[e].pc \in {"idle", "bundleGate", "standXML", "writeStand", "reEvaluate", "gate",
                                "fetch", "put", "persist", "final", "member", "done"}
          /\ request[e].pc # "idle" => request[e].root \in Laws /\ request[e].law \in Laws
          /\ request[e].pc \in {"writeStand", "put"} =>
                request[e].xml \in DOMAIN Versions[request[e].law]
          /\ DOMAIN request[e].out \cap request[e].todo = {}
    /\ \A r \in Recheckers :
          /\ recheck[r].pc \in {"idle", "page", "xml", "upsert", "notes", "persist", "invalidate", "next"}
          /\ recheck[r].pc # "idle" => recheck[r].law \in Laws

Init ==
    /\ version = [l \in Laws |-> 1]
    /\ linked = [l \in Laws |-> 0]
    /\ stands = KnownStands
    /\ editorial = [l \in Laws |-> 0]
    /\ cache = <<>>
    /\ request = [e \in Exporters |-> IdleRequest]
    /\ recheck = [r \in Recheckers |-> IdleRecheck]

(* GII serves the next text of a law.                                       *)
PublishText(l) ==
    /\ version[l] < Len(Versions[l])
    /\ version' = [version EXCEPT ![l] = @ + 1]
    /\ UNCHANGED <<linked, stands, editorial, cache, request, recheck>>

(* A feed links an issue to a law.                                          *)
Amend(l, n) ==
    /\ <<l, n>> \in Amendments
    /\ n > linked[l]
    /\ linked' = [linked EXCEPT ![l] = n]
    /\ UNCHANGED <<version, stands, editorial, cache, request, recheck>>

-----------------------------------------------------------------------------
(* The cache (export/export.go:64-121).                                     *)

Evicted == IF CacheMax \div 2 > 1 THEN CacheMax \div 2 ELSE 1

(* Mutant: entries go only when there are more than the capacity.           *)
MutantEvictLate(entries, k, ir) ==
    IF Cardinality(DOMAIN entries) <= CacheMax
    THEN {[j \in DOMAIN entries \cup {k} |-> IF j = k THEN ir ELSE entries[j]]}
    ELSE {[j \in (DOMAIN entries \ gone) \cup {k} |-> IF j = k THEN ir ELSE entries[j]] :
            gone \in {g \in SUBSET DOMAIN entries : Cardinality(g) = Evicted}}

(* What Put may leave: when the cache is full any max/2 entries, and one at *)
(* least, go first, also when the key is there already.                     *)
Put(entries, k, ir) ==
    LET goneSets == IF Cardinality(DOMAIN entries) < CacheMax THEN {{}}
                    ELSE {g \in SUBSET DOMAIN entries : Cardinality(g) = Evicted}
    IN  {[j \in (DOMAIN entries \ gone) \cup {k} |-> IF j = k THEN ir ELSE entries[j]] :
            gone \in goneSets}

InvalidateLaw(entries, l) == [k \in {j \in DOMAIN entries : j[1] # l} |-> entries[k]]

-----------------------------------------------------------------------------
(* Exports.                                                                 *)

RequestOnly == UNCHANGED <<version, linked, recheck>>

(* The evaluation before exportLaw.  For the properties a request remembers *)
(* which laws were stale when it began; one whose Stand is written since    *)
(* leaves the set.                                                          *)
Evaluated(req, l, pc) ==
    [req EXCEPT !.law = l, !.state = FreshnessFor(l), !.stand = stands[l],
                !.xml = 0, !.early = FALSE, !.ir = NoEntry, !.pc = pc]
StandFirst(number) == IF number = 0 THEN "standXML" ELSE "gate"
Overdue == {l \in Laws : FreshnessFor(l) = "confirmed_stale"}

BeginExport(e, l, allow) ==
    /\ request[e].pc = "idle"
    /\ request' = [request EXCEPT ![e] =
                     Evaluated([IdleRequest EXCEPT !.root = l, !.allow = allow, !.overdue = Overdue],
                               l, StandFirst(stands[l]))]
    /\ RequestOnly
    /\ UNCHANGED <<stands, editorial, cache>>

(* A bundle that is too large is refused with the list of its members.      *)
BeginBundle(e, p, allow) ==
    /\ request[e].pc = "idle"
    /\ Cardinality(Members[p]) <= MaxMembers
    /\ request' = [request EXCEPT ![e] =
                     Evaluated([IdleRequest EXCEPT !.bundle = TRUE, !.root = p, !.todo = Members[p],
                                                   !.allow = allow, !.overdue = Overdue],
                               p, "bundleGate")]
    /\ RequestOnly
    /\ UNCHANGED <<stands, editorial, cache>>

(* Mutant: the gate looks at the law that was asked for only.               *)
MutantRootOnly(req) ==
    RefuseStale /\ ~req.allow /\ req.state = "confirmed_stale" /\ req.law = req.root

Refused(req) == RefuseStale /\ ~req.allow /\ req.state = "confirmed_stale"

(* One refusal or error ends the whole bundle.                              *)
Refuse(e) ==
    /\ request[e].pc \in {"bundleGate", "gate"}
    /\ Refused(request[e])
    /\ request' = [request EXCEPT ![e] = IdleRequest]
    /\ RequestOnly
    /\ UNCHANGED <<stands, editorial, cache>>

PassBundleGate(e) ==
    /\ request[e].pc = "bundleGate"
    /\ ~Refused(request[e])
    /\ request' = [request EXCEPT ![e].pc = StandFirst(request[e].stand)]
    /\ RequestOnly
    /\ UNCHANGED <<stands, editorial, cache>>

Served(l) == version[l]

(* No Stand: the text is fetched for its standangabe.                       *)
FetchForStand(e) ==
    /\ request[e].pc = "standXML"
    /\ LET l == request[e].law
       IN  request' = [request EXCEPT ![e].xml = Served(l), ![e].early = TRUE,
                                      ![e].pc = IF Versions[l][Served(l)] = 0 THEN "gate"
                                                ELSE "writeStand"]
    /\ RequestOnly
    /\ UNCHANGED <<stands, editorial, cache>>

FetchForStandFails(e) ==
    /\ request[e].pc = "standXML"
    /\ request' = [request EXCEPT ![e].pc = "gate"]
    /\ RequestOnly
    /\ UNCHANGED <<stands, editorial, cache>>

(* A Stand is written: the law is not overdue any more.                     *)
StandWritten(l, reqs) == [e \in Exporters |-> [reqs[e] EXCEPT !.overdue = @ \ {l}]]

WriteStand(e) ==
    /\ request[e].pc = "writeStand"
    /\ LET l == request[e].law
       IN  /\ stands' = [stands EXCEPT ![l] = Versions[l][request[e].xml]]
           /\ request' = StandWritten(l, [request EXCEPT ![e].pc = "reEvaluate"])
    /\ RequestOnly
    /\ UNCHANGED <<editorial, cache>>

(* The error of UpsertStand is dropped: the former Stand stays.             *)
WriteStandFails(e) ==
    /\ request[e].pc = "writeStand"
    /\ request' = [request EXCEPT ![e].pc = "reEvaluate"]
    /\ RequestOnly
    /\ UNCHANGED <<stands, editorial, cache>>

ReEvaluate(e) ==
    /\ request[e].pc = "reEvaluate"
    /\ request' = [request EXCEPT ![e].state = FreshnessFor(request[e].law),
                                  ![e].stand = stands[request[e].law], ![e].pc = "gate"]
    /\ RequestOnly
    /\ UNCHANGED <<stands, editorial, cache>>

Key(req) == <<req.law, req.stand>>

Lookup(e) ==
    /\ request[e].pc = "gate"
    /\ ~Refused(request[e])
    /\ LET req == request[e]
       IN  request' = [request EXCEPT ![e] =
                IF Key(req) \in DOMAIN cache
                THEN [req EXCEPT !.ir = cache[Key(req)], !.pc = "persist"]
                ELSE [req EXCEPT !.pc = IF req.xml = 0 THEN "fetch" ELSE "put"]]
    /\ RequestOnly
    /\ UNCHANGED <<stands, editorial, cache>>

FetchText(e) ==
    /\ request[e].pc = "fetch"
    /\ request' = [request EXCEPT ![e].xml = Served(request[e].law), ![e].pc = "put"]
    /\ RequestOnly
    /\ UNCHANGED <<stands, editorial, cache>>

FetchTextFails(e) ==
    /\ request[e].pc = "fetch"
    /\ request' = [request EXCEPT ![e] = IdleRequest]
    /\ RequestOnly
    /\ UNCHANGED <<stands, editorial, cache>>

(* Mutant: the text is filed under the Stand that is in the store by now.   *)
MutantPutNewest(e) ==
    /\ request[e].pc = "put"
    /\ LET req == request[e]
           ir == [text |-> req.xml, early |-> req.early]
       IN  /\ cache' \in Put(cache, <<req.law, stands[req.law]>>, ir)
           /\ request' = [request EXCEPT ![e].ir = ir, ![e].pc = "persist"]
    /\ RequestOnly
    /\ UNCHANGED <<stands, editorial>>

PutIR(e) ==
    /\ request[e].pc = "put"
    /\ LET req == request[e]
           ir == [text |-> req.xml, early |-> req.early]
       IN  /\ cache' \in Put(cache, Key(req), ir)
           /\ request' = [request EXCEPT ![e].ir = ir, ![e].pc = "persist"]
    /\ RequestOnly
    /\ UNCHANGED <<stands, editorial>>

(* What SetMeta leaves: a text without notes leaves the former citations.   *)
Persisted(l, text) ==
    IF Cites[l][text] = {} THEN editorial ELSE [editorial EXCEPT ![l] = text]

(* For the property a request remembers that the stored citations of its   *)
(* law may be those of another text: here, because somebody else writes    *)
(* them.                                                                   *)
Replaced(by, l) ==
    [e \in Exporters |-> IF e # by /\ request[e].law = l THEN [request[e] EXCEPT !.otherText = TRUE]
                         ELSE request[e]]

(* Mutant of PersistEditorial: only with a text that was just fetched.     *)
MutantPersistOnMiss(e) ==
    /\ request[e].pc = "persist"
    /\ LET req == request[e]
           reqs == Replaced(e, req.law)
       IN  /\ editorial' = IF req.xml = 0 THEN editorial ELSE Persisted(req.law, req.ir.text)
           /\ request' = [reqs EXCEPT ![e].otherText = FALSE, ![e].pc = "final"]
    /\ RequestOnly
    /\ UNCHANGED <<stands, cache>>

(* PersistEditorialInstruments, also with a text from the cache.           *)
PersistEditorial(e) ==
    /\ request[e].pc = "persist"
    /\ LET req == request[e]
           reqs == Replaced(e, req.law)
       IN  /\ editorial' = Persisted(req.law, req.ir.text)
           /\ request' = [reqs EXCEPT ![e].otherText = FALSE, ![e].pc = "final"]
    /\ RequestOnly
    /\ UNCHANGED <<stands, cache>>

(* SetMeta fails, which is logged only: the former citations stay, maybe   *)
(* those of another text.                                                  *)
PersistEditorialFails(e) ==
    /\ request[e].pc = "persist"
    /\ LET req == request[e]
       IN  /\ Cites[req.law][req.ir.text] # {}
           /\ request' = [request EXCEPT ![e].otherText = editorial[req.law] # req.ir.text,
                                         ![e].pc = "final"]
    /\ RequestOnly
    /\ UNCHANGED <<stands, editorial, cache>>

(* The texts of a bundle with one more.                                     *)
WithLabel(out, l, label) ==
    [k \in {l} \cup DOMAIN out |-> IF k = l THEN label ELSE out[k]]

(* The last evaluation gives the state and the Stand the text is labelled   *)
(* with.                                                                    *)
FinalEvaluation(e) ==
    /\ request[e].pc = "final"
    /\ LET req == request[e]
           l == req.law
           labelled == [text |-> req.ir.text, stand |-> stands[l], state |-> FreshnessFor(l),
                       proved |-> req.otherText \/ Cites[l][req.ir.text] \subseteq Cited(l, editorial[l])]
       IN  request' = [request EXCEPT ![e] =
               [IdleRequest EXCEPT !.root = req.root, !.bundle = req.bundle, !.law = l,
                                   !.todo = req.todo, !.allow = req.allow, !.overdue = req.overdue,
                                   !.out = WithLabel(req.out, l, labelled),
                                   !.pc = IF req.todo = {} THEN "done" ELSE "member"]]
    /\ RequestOnly
    /\ UNCHANGED <<stands, editorial, cache>>

(* Mutant: a member with two rows is exported twice.                        *)
MutantMemberAgain(e) ==
    /\ request[e].pc = "member"
    /\ \E m \in request[e].todo :
           /\ IsFirst(m, request[e].todo)
           /\ request' = [request EXCEPT ![e] = Evaluated(request[e], m, "bundleGate")]
    /\ RequestOnly
    /\ UNCHANGED <<stands, editorial, cache>>

(* Members come in the order of Merge.                                      *)
NextMember(e) ==
    /\ request[e].pc = "member"
    /\ \E m \in request[e].todo :
           /\ IsFirst(m, request[e].todo)
           /\ request' = [request EXCEPT ![e] =
                             Evaluated([request[e] EXCEPT !.todo = @ \ {m}], m, "bundleGate")]
    /\ RequestOnly
    /\ UNCHANGED <<stands, editorial, cache>>

Answer(e) ==
    /\ request[e].pc = "done"
    /\ request' = [request EXCEPT ![e] = IdleRequest]
    /\ RequestOnly
    /\ UNCHANGED <<stands, editorial, cache>>

ExportStep(e) ==
    \/ PassBundleGate(e) \/ Refuse(e)
    \/ FetchForStand(e) \/ FetchForStandFails(e) \/ WriteStand(e)
    \/ WriteStandFails(e) \/ ReEvaluate(e)
    \/ Lookup(e) \/ FetchText(e) \/ FetchTextFails(e) \/ PutIR(e)
    \/ PersistEditorial(e) \/ PersistEditorialFails(e)
    \/ FinalEvaluation(e) \/ NextMember(e) \/ Answer(e)

(* Mutant: only the state of the parent counts.                             *)
MutantParentCounts(root, out) == out[root].state

(* aggregateBundleFreshness: the worst state of all members.                *)
AggregateBundleFreshness(root, out) ==
    LET states == {out[l].state : l \in DOMAIN out}
    IN  IF "confirmed_stale" \in states THEN "confirmed_stale"
        ELSE IF "uncertain" \in states THEN "uncertain" ELSE "confirmed_current"

SafeToServe(req) == AggregateBundleFreshness(req.root, req.out) = "confirmed_current"

-----------------------------------------------------------------------------
(* ForceRecheck of a law and then of its ordinances.                        *)

RecheckOnly == UNCHANGED <<version, linked>>

BeginRecheck(r, l) ==
    /\ recheck[r].pc = "idle"
    /\ recheck' = [recheck EXCEPT ![r] = [IdleRecheck EXCEPT !.pc = "page", !.law = l,
                                                            !.todo = Members[l]]]
    /\ RecheckOnly
    /\ UNCHANGED <<stands, editorial, cache, request>>

(* The index page of the law names the Stand, or else its XML does.         *)
FetchPage(r) ==
    /\ recheck[r].pc = "page"
    /\ LET l == recheck[r].law
           number == Versions[l][Served(l)]
       IN  recheck' = [recheck EXCEPT ![r].number = number,
                                      ![r].pc = IF number = 0 THEN "xml" ELSE "upsert"]
    /\ RecheckOnly
    /\ UNCHANGED <<stands, editorial, cache, request>>

FetchPageFails(r) ==
    /\ recheck[r].pc = "page"
    /\ recheck' = [recheck EXCEPT ![r].pc = "xml"]
    /\ RecheckOnly
    /\ UNCHANGED <<stands, editorial, cache, request>>

FetchStandXML(r) ==
    /\ recheck[r].pc = "xml"
    /\ LET l == recheck[r].law
           number == Versions[l][Served(l)]
       IN  recheck' = [recheck EXCEPT ![r].number = number, ![r].xml = Served(l),
                                      ![r].pc = IF number = 0 THEN "persist" ELSE "upsert"]
    /\ RecheckOnly
    /\ UNCHANGED <<stands, editorial, cache, request>>

(* The refresh fails: the deadline ends the recheck, other errors do not.   *)
FetchStandXMLFails(r) ==
    /\ recheck[r].pc = "xml"
    /\ \/ recheck' = [recheck EXCEPT ![r] = IdleRecheck]
       \/ recheck' = [recheck EXCEPT ![r].pc = "invalidate"]
    /\ RecheckOnly
    /\ UNCHANGED <<stands, editorial, cache, request>>

RecheckStand(r) ==
    /\ recheck[r].pc = "upsert"
    /\ stands' = [stands EXCEPT ![recheck[r].law] = recheck[r].number]
    /\ request' = StandWritten(recheck[r].law, request)
    /\ recheck' = [recheck EXCEPT ![r].pc = IF recheck[r].xml = 0 THEN "notes" ELSE "persist"]
    /\ RecheckOnly
    /\ UNCHANGED <<editorial, cache>>

(* The XML for the editorial notes; an error is passed over.                *)
FetchNotes(r) ==
    /\ recheck[r].pc = "notes"
    /\ \/ recheck' = [recheck EXCEPT ![r].xml = Served(recheck[r].law), ![r].pc = "persist"]
       \/ recheck' = [recheck EXCEPT ![r].pc = "invalidate"]
    /\ RecheckOnly
    /\ UNCHANGED <<stands, editorial, cache, request>>

PersistNotes(r) ==
    /\ recheck[r].pc = "persist"
    /\ LET l == recheck[r].law
       IN  /\ editorial' = Persisted(l, recheck[r].xml)
           /\ request' = Replaced(r, l)
    /\ recheck' = [recheck EXCEPT ![r].pc = "invalidate"]
    /\ RecheckOnly
    /\ UNCHANGED <<stands, cache>>

(* A failed UpsertStand ends the refresh, its error is passed over; a       *)
(* failed SetMeta is logged.  Either way the cache is emptied next.         *)
RecheckWriteFails(r) ==
    /\ \/ recheck[r].pc = "upsert"
       \/ recheck[r].pc = "persist" /\ Cites[recheck[r].law][recheck[r].xml] # {}
    /\ recheck' = [recheck EXCEPT ![r].pc = "invalidate"]
    /\ RecheckOnly
    /\ UNCHANGED <<stands, editorial, cache, request>>

Invalidate(r) ==
    /\ recheck[r].pc = "invalidate"
    /\ cache' = InvalidateLaw(cache, recheck[r].law)
    /\ recheck' = [recheck EXCEPT ![r].pc = "next", ![r].number = 0, ![r].xml = 0]
    /\ RecheckOnly
    /\ UNCHANGED <<stands, editorial, request>>

NextLinked(r) ==
    /\ recheck[r].pc = "next"
    /\ \/ /\ recheck[r].todo = {}
          /\ recheck' = [recheck EXCEPT ![r] = IdleRecheck]
       \/ \E m \in recheck[r].todo :
              /\ IsFirst(m, recheck[r].todo)
              /\ recheck' = [recheck EXCEPT ![r].law = m, ![r].todo = @ \ {m}, ![r].pc = "page"]
    /\ RecheckOnly
    /\ UNCHANGED <<stands, editorial, cache, request>>

RecheckStep(r) ==
    \/ FetchPage(r) \/ FetchPageFails(r) \/ FetchStandXML(r) \/ FetchStandXMLFails(r)
    \/ RecheckStand(r) \/ FetchNotes(r) \/ PersistNotes(r)
    \/ RecheckWriteFails(r) \/ Invalidate(r) \/ NextLinked(r)

-----------------------------------------------------------------------------

Next ==
    \/ (\E l \in Laws : PublishText(l))
    \/ (\E l \in Laws, n \in Numbers : Amend(l, n))
    \/ (\E e \in Exporters, l \in Laws, allow \in BOOLEAN : BeginExport(e, l, allow))
    \/ (\E e \in Exporters, p \in Parents, allow \in BOOLEAN : BeginBundle(e, p, allow))
    \/ (\E e \in Exporters : ExportStep(e))
    \/ (\E r \in Recheckers, l \in Laws : BeginRecheck(r, l))
    \/ (\E r \in Recheckers : RecheckStep(r))

Spec == Init /\ [][Next]_vars

-----------------------------------------------------------------------------
(* Properties.                                                              *)

Number(l, text) == Versions[l][text]

(* export/export.go:89, service.go:642: a text that is cached under a Stand *)
(* is not older than that Stand, whatever recheck writes and invalidates    *)
(* between the evaluation, the fetch and Put.  A text that was fetched      *)
(* before the Stand was read (exportLaw without a Stand) is excepted: a     *)
(* recheck in between may have written a newer one.  GII is taken to serve  *)
(* no text that is older than the one before (TextsOnlyGrow): otherwise the *)
(* text itself has gone back.                                               *)
TextsOnlyGrow ==
    \A l \in Laws : \A i \in DOMAIN Versions[l] :
        /\ KnownStands[l] <= Number(l, i)
        /\ \A j \in DOMAIN Versions[l] : i <= j => Number(l, i) <= Number(l, j)

CacheNotOlder ==
    \A k \in DOMAIN cache : ~cache[k].early => Number(k[1], cache[k].text) >= k[2]

(* export/export.go:92: the cache stays within its capacity.                *)
CacheBounded == Cardinality(DOMAIN cache) <= CacheMax

(* README.md:115: a law that was stale when the request began and has had   *)
(* no new Stand since makes the whole bundle unsafe, be it the parent or a  *)
(* member, with allow_stale too.                                            *)
StaleIsNotSafe ==
    \A e \in Exporters :
        request[e].pc = "done" /\ SafeToServe(request[e]) =>
            request[e].overdue \cap DOMAIN request[e].out = {}

(* README.md:120: when refusal is configured, such a law is not exported    *)
(* without allow_stale, neither alone nor as a member of a bundle.          *)
StaleIsRefused ==
    \A e \in Exporters :
        request[e].pc = "done" /\ RefuseStale /\ ~request[e].allow =>
            request[e].overdue \cap DOMAIN request[e].out = {}

(* README.md:82: a text that an export labels as current has had the        *)
(* citations of its own editorial notes proved, be it fetched or cached,    *)
(* also when the notes in the store were those of another text before.      *)
(* The store keeps one blob per law, so two laws are excepted: the one      *)
(* whose notes another export or a recheck writes between this one's write  *)
(* and its last evaluation, and the one whose own write failed while the    *)
(* store holds the notes of another text (service.go:384 logs the error and *)
(* the export goes on to its label).                                        *)
TextIsProved ==
    \A e \in Exporters :
        request[e].pc = "done" =>
            \A l \in DOMAIN request[e].out :
                LET o == request[e].out[l]
                IN  o.state = "confirmed_current" => o.proved

(* README.md:83: "Do not index or serve text as current unless freshness    *)
(* allows it": a text that an export labels as current is not older than    *)
(* the Stand in that label.                                                 *)
LabelMatchesText ==
    \A e \in Exporters :
        request[e].pc = "done" =>
            \A l \in DOMAIN request[e].out :
                LET o == request[e].out[l]
                IN  o.state = "confirmed_current" => Number(l, o.text) >= o.stand

=============================================================================
