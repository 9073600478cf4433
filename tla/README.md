# Gesetzeswache in TLA+

Gesetzeswache tells its users whether the text of a German federal law is up to
date: it follows the table of contents and the feed of gesetze-im-internet.de
(GII) and the feeds and permalinks of recht.bund.de (BGBl, ELI), stores what it
sees in one bbolt database, and answers with `confirmed_current`,
`confirmed_stale` or `uncertain`. The answer is a contract ("Freshness is a
contract, not decoration", README.md:83 of the repository). The modules here
model what that contract depends on; TLC checks them on small instances and TLAPS
proves all of the safety properties for every value of the constants, and
that the central module implements an abstract specification of what the verdicts
promise.

    tlc -workers 2 -config SyncMetaClock.cfg MCSyncMeta      # any run of the table below
    tlapm SyncMetaProofs.tla                                  # any of the eight proof modules

## The system

| Part | State | Operations | Talks to |
|---|---|---|---|
| Freshness verdict (`freshness/`) | none | `Evaluate`, `BGBLEvidence`, `EffectiveBGBlFeedTime`, `CollectUnresolvedRefs` | called by Reconcile, every request, Proof C |
| Sync stamps and timers (`sync/meta.go`, `sync/orchestrator.go`) | `last_*_success`, `last_bgbl_feed_degraded`, `last_reconcile_at` | five loops, `stampSuccessMeta`, `Reconcile` | store; started by `serve`, also run by `POST /v1/recheck` |
| Gazette issues and links (`sync/orchestrator.go`, `store/store.go`) | buckets `issues`, `links`, `stands`, `freshness` | `RunGIIFeed`, `RunBGBlFeeds`, `RunELIProbe`, `heuristicLink`, `freshnessFor` | each other, only through the store |
| Linked ordinances and Proof C (`instruments/`, `discovery/merge.go`) | none of its own | merge of seeded, family and discovered rows, chain by date, resolution of citations, proof by the ordinance | reads `discovered_links`, `bgbl_index`, `stands` |
| Discovery (`discovery/ingest.go`, `store/discovery.go`) | `discovered_links`, `bgbl_index`, marks `discovery_queue`, `discovery_ingested` | `DiscoverOrdinances`, `IngestLawXML` | startup, recheck and export ingest; evaluations read |
| Export, bundle, cache (`service/`, `export/`) | `export.Cache` in memory | `ExportText`, `ExportOperativeBundle`, `ForceRecheck` | evaluations, GII, the store |
| Catalog and search (`RunTOC`, `instruments/ensure.go`, `search/`) | bucket `laws`, an atomic snapshot of it | `RunTOC`, `EnsureLawFromSlug`, `refreshSearchIndex`, `Resolve`, `matchLawFromItem` | every request; feeds name laws by it |
| HTTP client (`httpx/`) | the time of the last request per host | `Get`, `waitHost` | every loop, request and recheck |
| Process (`cmd/gesetzeswache`, `apihttp/`) | context, server, two WaitGroups | `serve`, `InitialSync`, `StartBackground`, `Wait`, the recheck handler | all of the above |
| CLI, MCP, metrics, config | none that is read back | see `components` in PROJECT.json | |

What makes it hard. Five loops, requests and rechecks run at the same time and
share nothing but the store, of which every method is one transaction and every
operation is several. Reads that belong together (links and stamps, issue and
its new record, text and Stand) are made at different moments. Any request to
GII or BGBl may fail or hang, any write may fail and many errors are dropped,
the process may be killed between two transactions, and the wall clock, on
which all ages rest, may be set back. The 40 hazards in PROJECT.json name the
line of each.

What makes each part correct:
- stamps: a stamp is the time of a real success and never moves back; a verdict
  `confirmed_current` rests on fresh stamps of TOC, GII and BGBl; an outage ends it;
- issues and links: no interleaving makes confidence and sources disagree, a
  stamped run has stored and linked what it saw, an amendment that GII showed
  ends `confirmed_current`, `confirmed_stale` can name its evidence;
- linked ordinances: a parent is current only if every operative citation is
  proved by a confirmed ordinance in force which its bundle contains;
- discovery: edges are those of one text of the ordinance, not a mix;
- export: no text under a newer Stand, no stale law unasked or in a safe bundle;
- catalog: an id stays with its path for good, the snapshot names stored laws and
  keeps the published ones, no item or query is given a law that is merely alike;
- client and process: a gap between any two requests to a host, an end after
  every signal with nobody but late handlers at the closed store, one run of a
  source at a time, and no source given up.

## The modules

`Freshness` (pure: the verdict) is extended by `SyncMeta`, `GazetteStore` and
`LinkedProof`, and `LinkedProof` (pure: rows and citations) by `Discovery` and
`Export`. `Serve` extends `HttpClient`; `GazetteStore` instantiates `Watch`, its
abstract specification. Each `MC` module gives the
constants of one of them values for its configurations. Components share the
store; they are composed by letting each module keep the part of the store it
is about and take the rest as given, and a header comment says what is taken.

**Freshness** translates `Evaluate` branch by branch. A law's evidence is a record
(stamps, Stand, linked issues, citations, resolutions); the result has state,
newer issues and the unresolved citations. Issue numbers are pairs of number
and letter, compared as `citation.Compare` does; times are naturals, 0 the zero
time.

**SyncMeta**: `meta` is the bucket `sync_meta`, `run[r]` a goroutine in a run of a
source (fetch, degraded marker, clear, capture of the time, comparison, write),
`eval[e]` a Reconcile or a request that reads the five keys one after the other.
`JumpBack` sets the clock back, `Restart` empties all but the store,
`AbandonPass` is a Reconcile that gives up (the deadline of the loop, or
`ListLaws`). `catalog` is the bucket `laws`, which grows at any moment
(`AddLaws`) while a pass goes through the list it took. A write of a marker or a
stamp may fail (`StampWriteFails`), and one of a record (`PutFreshnessFails`),
whose error the code drops. `succeeded`, `feedOK`, `sawFeedOK`, `covered` (the laws
listed by stamped passes) and `lost` (those whose last record could not be
written) are history variables of the properties. A failure of a BGBl feed
whose marker could not be written is not recorded anywhere, and
`FailedFeedBlocksCurrent` speaks of recorded ones.

**GazetteStore**: `issues`, `links`, `stand`, `records`, `giiStamp` are the buckets;
`job[j]` is one of the runs with the copy of an issue it holds between
`GetIssue` and `UpsertIssue`; `eval[e]` goes through `heuristicLink` (Reconcile
only), the laws, Stand, links, issues and the stamp in the order of the code,
which differs between Reconcile and `freshnessFor`. An issue is its number in
one Teil and year; a title is "", that of a bare Bekanntmachung or that of a
Gesetz.

**LinkedProof**: rows are functions from slugs, in the order of their keys, to
records; a citation is kind, number and section. `AnnotateChain`,
`FilterBundleMembers`, `CollectEvidence`, `ResolveOperativeVRefs`,
`ApplyChildFreshnessProof` and `MarkSupersededPastKindV` carry the names of the
functions they translate.

**Discovery**: `edges`, `index`, `ingested`, `queued`, `stands`, `catalog` are the
buckets, `ingest[i]` an ingest from startup (twice per ordinance, as
`DiscoverOrdinances` does), recheck or export; `eval[e]` the evaluation of a
parent: edges, evidence, stubs, resolution, one child after the other,
superseded rows, record. A text of an ordinance is the number of its Fundstelle
and, per parent, the sections its Ermaechtigung names. `ProofHasChild` is stated
of the resolution that proves a citation: `dedupeRefs` leaves the section out
of its key, so the same issue may be cited for another section, and
`FindVRefResolution` finds a resolution by issue, kind and section. The field
`indexed` keeps the `bgbl_index` as the evaluation read it, since an ingest may
rewrite the bucket before the verdict is stored. Any write of an ingest may
fail; the errors of the two marks at its end are dropped, and the ordinance
counts all the same.

**Export**: `request[e]` is an `ExportText` or a bundle (gate, text for a missing
Stand, second evaluation, cache, fetch, Put, last evaluation, next member),
`recheck[r]` a `ForceRecheck`, `cache` the entries of `export.Cache` by law and
Stand. A text is known by its version, of which the Stand is a constant. The
field `early` marks a text that was fetched before the Stand it is filed under
was read; `overdue` is history: the laws stale since the request began.
`editorial[l]` is the text whose editorial citations are stored: a recheck
writes it with a second fetch after the Stand, an export with its text, cached
or not, and the evaluation requires the ordinances they cite to be proved. The
writes of a Stand and of citations fail in actions of their own
(`WriteStandFails`, `PersistEditorialFails`, `RecheckWriteFails`), after which the
export or recheck goes on, as the code does. `otherText` is history: the
stored citations of the law may be those of another text, because somebody else
wrote them or because the request could not. `PublishText` changes the index
page and the XML of a law in one step.

**Watch** is what the verdicts promise, without jobs, transactions and records of
issues: amendments (pairs of an issue and a law) become known, the GII stamp
promises some of the known ones, and an evaluation reads the Stand, looks at the
promise *in one instant* and concludes. `confirmed_stale` names known amendments
beyond the Stand; `confirmed_current` has no promised amendment beyond it that
is not a notice. `GazetteStore` gives the refinement mapping (`KnownPairs`,
`PromisedPairs`, `View`): the many transactions in which an evaluation reads
links, issues and stamp appear to happen at one moment, the transaction of
`LinksForLaw`, whose promise the history field `base` holds. The promise of
an evaluation that read the links before a stamp covers what was promised then
and not what came afterwards; GazetteRequest below is this difference.

**Catalog**: `laws` is the bucket, `index` the snapshot of `search.Engine`, `toc` a
`RunTOC` between fetch, `UpsertLaws` and `Swap`, `request[r]` a request, recheck
or Reconcile that makes stubs of linked ordinances (`GetLaw`, then
`UpsertLawIfAbsent`) and refreshes the snapshot (`ListLaws`, then `Swap`; a
request at every stub, a recheck at the end, Reconcile never). `Resolve` is the
choice of `Snapshot.Resolve` with its scores for aliases, titles and variants;
strings are elements of a set with `Key` as the table of `normalize.Key`,
and similarities are tables. `FeedNamesTheLaw` is a property of the step that
links: later the law may be out of the snapshot again. What the model showed along the way, and no
property forbids: a run of RunTOC takes every stub out of the search; a stub
made by Reconcile is not searchable until somebody else refreshes; an empty
table of contents empties the search and stamps a success; and a stored law
asked for by its own id can lose to one that bears that id as abbreviation.

**HttpClient**: `since[h]` is the age of the map entry `last[h]`, `get[g]` a `Get` that
asks `waitHost`, sleeps as long as it was told and asks again. `Tick` is time,
for hosts and timers together. Slots are not handed out in order, and a redirect
asks for none.

**Serve** is one life of the process: `main` goes through `serve` (serving, Shutdown,
`orch.Wait`, the WaitGroup of the initial sync, `Close`, exit), `proc[p]` is
InitialSync, a loop or a handler in a recheck, each with the sources it has
still to run. A run of a source is its Get and its last write to the
store. A fetch may fail or be cut off by its deadline, and a run that asks no
host, Reconcile, may end in an error too (`StoreAs`: `ListLaws`, or the context of
InitialSync has expired), after which InitialSync and a loop go on and a recheck
ends. A deadline is minutes and a gap a quarter of a second, so it passes while
an answer is awaited; a timer of a loop that is set when the context is done
already cannot fire. What the model showed, and no document denies:
handlers that outlive the ten seconds of Shutdown use the closed store
(`misused` may contain them and nobody else), a source that fails in InitialSync
waits for its own timer (six hours for the table of contents), and `serve`
returns without error also when the listener failed.

Every definition of these modules has its lines in the `map` of PROJECT.json.

## The runs

| Run | Instance | Shows |
|---|---|---|
| SyncMetaClock | BGBl loop, ELI loop, a request, 2 instants, clock jumps | `CurrentIsBacked`, `StampsNeverMoveBackwards`: with one goroutine per source no clock jump can make a stamp move back or a verdict rest on anything but real successes |
| SyncMetaOutage | BGBl loop, Reconcile, two laws of which one enters the catalog at any moment, 3 instants, one kill, abandoned pass or failed write | `FailedFeedBlocksCurrent`, `OutageEndsClaims`, `TypeOK`, `ReconcileCoversAll`: a stamped pass has left a record of each law it listed, but for one whose last write failed |
| GazetteWriters | GII, BGBl and ELI write one issue, one restart | `HighIffFeed`, `TypeOK` |
| GazetteAmendment | GII loop, Reconcile and a request, one failed write | `StampMeansLinked`, `MatchedHasLink`, `ReconcileMissesNothing`, `StaleIsBacked`, `AmendmentEndsCurrent`, `EvaluatesAtomically` (the refinement of Watch) |
| GazetteRequest | GII loop and a request | violation, see below |
| DiscoveryIngest | two ordinances, two parents, a text that changes its parent, one failed write, one restart | `NoMixedAttribution`; `TypeOK` also keeps the limit of a discovery cycle |
| DiscoveryProof | a chain of two dated ordinances of one section, a discovered one, a family of two, a seeded row with the title of a Gesetz; two days, rechecks | `ProofHasChild`, `OneCurrentPerSection`, `ProofIsInBundle`, `AmendedChildEndsCurrent` |
| DiscoveryWindow | one ordinance, a recheck, an evaluation | violation, see below |
| Export | a parent whose text and citations change, two ordinances, a cache of one entry, so that every second text evicts the first, an exporter and a rechecker; the theorems are for every capacity | `CacheNotOlder`, `CacheBounded`, `StaleIsNotSafe`, `StaleIsRefused`, `TextIsProved`, `TypeOK` |
| ExportText | one law, an exporter and a rechecker | violation, see below |
| Catalog | two tables of contents, an ordinance that is a stub first and in the table later, an SGB book, two laws of one abbreviation, two requests, one failure or restart | `IndexIsStored`, `FeedNamesTheLaw`, `IndexKeepsCatalog`, `NameBeatsLikeness`, `RecordsKept`, `PublishedIsFound`, `TypeOK` |
| Serve | InitialSync, the loops of BGBl and Reconcile, one recheck, one host, a signal at any moment | `GapKept`, `OneRunPerSource`, `BackgroundStopsFirst`, `SignalEndsProcess`, `UsesClient`, `TypeOK`, `EverySourceSucceeds`: failing at the start or at any tick ends no source, be it a host's or Reconcile |

The passing runs take from seconds to three minutes each. Deadlock is checked in
all of them but Serve, where the process really ends. Every property has a mutant
in PROJECT.json, a plausible mistake in one definition that makes TLC refute it.

**Bounds.** Two goroutines are enough for a lost update and for a read before and a
read after a write, three writers for every pair of sources with a third in
between. Ages matter through three cases, fresh, exactly MaxAge old and older,
which 2 or 3 instants with MaxAge 0 or 1 contain. One failed write or one
restart may happen at any step; a second one adds no step at which the first
could not happen (`MaxInterrupts` of SyncMeta counts restarts, abandoned passes and
failed writes together). Reconcile has the outage and the request the clock jumps,
since an evaluation meets others only in the records it writes; the proofs
cover all of them together. Issue numbers are compared only: the numbers 1 to 5 hold the
Stand, an earlier and a later issue. Two texts make an ordinance change its
parent once, two days make one row of a chain replace the other. MaxPerCycle 1
with two candidates and a cache of one entry with three laws reach their limits. The
bounds are constants named `Max...`, and guards use them only where the program
has no limit. In Catalog two tables are the least with which a refresh can be
older than one of them, and an item can change the id another one had; a third
document repeats the second step. In Serve one host and a gap of one tick give three sleepers that
wake together (initial sync, loop, handler), which is where the slot could be
given twice; the proof covers more of each.

**Fairness.** SyncMetaOutage: time passes and the goroutine of Reconcile takes its
steps, since its timer fires again after every pass; no run of a source is
fair, so nothing is assumed about the source that fails. That passes are given up
and records lost only finitely often (`MaxInterrupts`) is an assumption: a
Reconcile that never gets through to a law leaves its record as it is. GazetteAmendment: each
loop and each evaluation that can take a step takes one, which the timers of
`StartBackground` and the deadlines of `sourceTimeout` justify; publication of
items, failures and restarts are never fair. DiscoveryProof: the evaluation of
the parent begins again and again (strong fairness, as another evaluation may
hold the model's goroutine) and ends, for it waits for nobody; ingests and
requests are not fair. Catalog: RunTOC goes on, since its timer fires after
every run, and a request ends, for it waits for nobody; publication, feed and
new requests are not fair. Serve: main and time
go on, and so do the goroutines of InitialSync and the loops and their timers; handlers
are not fair, since Shutdown waits ten seconds for them at most. That a run of a source succeeds
some time, when its loop begins one again and again, is an assumption (strong
fairness of `Succeeds`, for `EverySourceSucceeds` only): for a source with a host
that it answers, for Reconcile that a pass gets through within its deadline.
The rechecks are
bounded by `MaxRequests`: endless ones could take each slot of a host before the
sleeper that waits for it, so without the bound the code does not give the
liveness.

## What the code does differently from what it says

Three runs refute one sentence of the repository each:
- **GazetteRequest**: `freshnessFor` reads the links first and the stamp later; it
  can say `confirmed_current` on a stamp that covers an amendment it did not
  look at (README.md:108). Reconcile reads in the safe order, which is proved.
- **DiscoveryWindow**: between the deletion and the rewriting of the edges of an
  ordinance its parent has none, and an evaluation calls it current
  (README.md:82).
- **ExportText**: the text is taken before the evaluation that labels it; with a
  recheck in between an old text is labelled current under the new Stand
  (README.md:83).

Two more disagreements show in the models without a run of their own.
`stampSuccessMeta` reads and writes in two transactions, so that a recheck next
to the loop moves a stamp backwards, which it says it does not
(sync/meta.go:29); `StampsMonotone` therefore has the hypothesis of one run per
source. The ELI probe rewrites a stored issue without its title, after which a
bare Bekanntmachung drives `confirmed_stale` (README.md:82).

`CacheNotOlder`, `NoMixedAttribution` and `TextIsProved` say in their comments what
they except (a text fetched before any Stand was known; two ingests of one
ordinance at once; a law whose citations somebody else writes during the
export, or the export itself could not write over those of another text): there the code promises nothing and the stronger property fails.

## What is proved

For every value of the constants that satisfies the named assumptions:

- `SyncMetaProofs`. `TypeCorrect` from `SyncMetaAssumption`. `CurrentBacked`: the
  invariant `CurrentIsBacked` is not inductive, since a verdict is drawn from
  stamps read earlier; `BackedInv` adds that a stored stamp, a time a run is
  about to stamp and a stamp an evaluation has seen are times of successes.
  `StampsMonotone` has the hypothesis `OneRunPerSource` (which Serve shows for
  loops and initial sync, and a recheck breaks) and the invariant `WritesAreLater`: between the
  comparison and the write of a run nobody else writes that stamp. `ReconcileCovers`
  has the invariant that each law of a pass's list that it has behind it has a
  record or has lost its last one to a failed write (`PassCovers`); the exception is
  real, since orchestrator.go:581 drops the error and 583 stamps. `FailedFeedBlocks` has the hypothesis `FeedAlone` (the
  clock is not set back and one goroutine syncs the feeds). `FailureInv` says that
  after a failure stamp and marker in the store are unusable (`FailureIsStored`,
  since a run in time writes its marker later than any stamp), and that an
  evaluation that never saw the feeds in order ends with such a pair
  (`FailureIsSeen`).
- `GazetteStoreProofs`. `TypeCorrect`, with `LawChosen` as strengthening, and what
  `Evaluate` can and cannot conclude from newer issues (`NewerIsNotCurrent`,
  `StaleNamesNewer`, `NewerAreLinked`). Then one invariant, `Sound`: every copy of an issue that a job
  or an evaluation holds between two transactions may be written (confidence
  agrees with sources, matched has a link unless a write failed), what a job has
  processed is stored and linked, what the stamp covers is kept, and what an
  evaluation has collected is linked. It rests on the lemma `GrowsStep`: issues and
  links are never taken away. From it follow `ConfidenceFromFeeds`,
  `MatchedIsLinked`, `StampIsBacked`, `StaleHasEvidence` and `ReconcileSound`.
- `GazetteWatchProofs`. `ImplementsWatch`: every behaviour of GazetteStore is one of
  Watch under the refinement mapping. Its invariant `BaseInv` says that while an
  evaluation collects, each item promised when it read the links is among the
  issues it has still to read or has read; together with `Sound` the verdict
  then is one that Watch allows. One lemma per action maps it to a step of
  Watch or a stutter.
- `HttpClientProofs`. `GapIsKept`, from the invariant `ClientInv`: besides the type,
  `LastIsLatest` (the age of a host is at most that of any slot given for it),
  without which a second slot could be given early.
- `ServeProofs`. The invariant `Inv` couples goroutines and Gets (`Coupled`), says
  that no loop runs while the initial sync does (`StartInv`) and what each wait
  of main leaves behind (`StopInv`: after the first wait every loop is off or
  has a timer that cannot fire, after the second the initial sync is off). It gives
  `TypeCorrect`, `OneRun` and `BackgroundIsThrough`. `IsUserOfClient` shows that each
  step of the process is a step of HttpClient or leaves it alone, so that
  `GapInProcess` follows from `GapIsKept`.
- `DiscoveryProofs`. `TypeCorrect` needs what an ingest carries along (`CarriesSlug`:
  only `DiscoverOrdinances` comes to a second ingest, and it has not reached its
  limit then) and the shape of the rows of an evaluation (`RowTypes`, kept by the
  merge of seeds, families and edges: `LinkedRowTypes`). `NoMix`: as long as no two
  ingests of one ordinance run at once (`Apart`), `NoMixedAttribution` follows from
  `MixInv`: a text that an ingest holds was served, and while edges are still to be
  written those stored are missing or of that text. `OneCurrent` is the chain of a
  section for any rows, dates and days (the last of the latest supersedes all
  others). `CurrentIsProved` and `ProofInBundle` speak of the end of an
  evaluation; `ProofInv` says of each resolution, from the step that makes it on,
  how it was found (`Founded`), and that one that counts as historical has a
  past ordinance, or a confirmed successor of it (`MarkedIsFounded`).
- `ExportProofs`. `CacheIsNotOlder` has the hypothesis that GII serves no text with an
  older Stand than before (`TextsOnlyGrow`, which the instance of the run
  satisfies). Its invariant `AgeInv` says that no Stand in the store or on its way
  there is newer than the text served now, so that what is fetched next is not
  older, and that a text brought to `Put` is not older than its Stand unless it
  was fetched early. `StaleNeverSafe` and `StaleRefused` follow from `StaleInv`: a
  request that has met an overdue law says so until its Stand is written, and
  holds its text back where refusal is configured. `LabelledTextIsProved` follows
  from `NotesInv`: between a write of citations and the last evaluation the store
  holds those of the text, or the request knows that it may not, because somebody
  else wrote them or its own write failed over those of another text.
  `CacheStaysBounded` is for any capacity, `TypeCorrect` needs what each step of a
  request carries along.
- `CatalogProofs`. The laws of a table are the value of a recursive function
  (`LawsOfTypes`); that it exists and what its values are is shown by the least
  length at which it fails. Lists and stores make snapshots that find one law of
  each id (`ListIndexes`, `StoreIndexes`, the predicate `Indexes`). `CatalogIsKept`
  rests on `KeepInv`: no id leaves the store, and a list that a request is going to
  swap in has the laws of the last table, or of the one before if RunTOC swapped
  since the request began (`old`); RunTOC runs again only hours later, when these
  requests have ended.
  `IndexStored` and `RecordsStay` follow from `PathInv`: every law in the store, a
  snapshot, a list or a run has a table or a linked ordinance as its origin and
  the path stored under its id. `NameWins` and `FeedIsNamed` follow from `UniqueInv`
  (no snapshot has two laws of one id) and lemmas about `Resolve`: 100 is scored
  by bearers only and the best score wins (`BearerWins`), and a score that no
  likeness reaches is that of a name, title or variant (`HighScores`).

The assumptions are those of the modules: MaxTime is at most MaxAge in
GazetteStore (`BoundAssumption`), because the age of stamps is the matter of
SyncMeta, items of BGBl and ELI name no law (`ItemsAssumption`), because only
`RunGIIFeed` calls `matchLawFromItem`, and rows of the TSV are seeded rows with a
day or none (`SourcesAssumption` of Discovery), because the loader makes no others.
Hypotheses of a theorem beyond them (`OneRunPerSource`, `FeedAlone`, the clock not set
back, `Apart`, `TextsOnlyGrow`, and `PathsKept`, `IdsApart` and `AlikeIsLess` of Catalog)
are named in its statement, and each of them fails where the comment of the
property says the code promises nothing. Those of Catalog speak of the tables
of contents, the feed items and the likeness alone, and the instance of the run
meets them, which TLC checks (ASSUME in MCCatalog). They are not idle: RunTOC gives an id to whoever is
listed first, so a table with a new law of an old abbreviation before the old
one moves the id to another path, and one that has both the abbreviation and
the slug of an item taken gives one id to two laws and loses the earlier.

Checked by TLC only: `OutageEndsClaims`, `AmendmentEndsCurrent`,
`AmendedChildEndsCurrent`, `PublishedIsFound`, `SignalEndsProcess` and
`EverySourceSucceeds`, because liveness is out of the prover's reach. What needs induction over data is not proved: that the loop of
`ProveNext` ends after as many steps as there are citations, and what
`dedupeRefs` and the other folds keep of a list.

## What is not modelled

Reads of the store are taken not to fail (bbolt's `View` fails only once the
database is closed); the code drops most of their errors and goes on with zero
values. `RefreshStand` of GazetteStore is one step, without the fetch before it,
and moves the Stand forward only; Export has the two steps and the way back.

Similarity scores, citation and Ermaechtigung regular expressions, building and
emitting text, HTTP decoding and authentication, CLI, MCP, configuration and
metrics: sequential processing of strings that examples test well, and whose
result the modules take as a constant or a choice. Of the HTTP client, the checks of
addresses, redirects and sizes. `RefreshMissingStands`, which writes
Stands and nothing else, and `AppendSyncAttempt`, a log nobody decides on.
`repairStandIfNeeded` has state and is planned. In DiscoveryProof the citation of
the family is the one the Stand of the parent already names, so a family decides
which rows the parent has and not which child proves the citation.

## Plan

1. Done: Freshness, SyncMeta, GazetteStore (the verdict and what it rests on,
   first because everything else calls it), LinkedProof, Discovery, Export;
   Watch, the abstract specification, and the proof that GazetteStore implements
   it; Catalog; HttpClient and Serve; proofs of all their safety properties.
2. LinkedProof on larger tables: equal dates, two sections of one issue, and a
   family with a citation of its own.
3. The whole `ForceRecheck` (feed, Stand, invalidation, Reconcile) as one
   composition, and `repairStandIfNeeded`.
4. Proofs: lemmas about the folds of LinkedProof, as far as they need no induction
   over data.
