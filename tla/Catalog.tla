------------------------------ MODULE Catalog -------------------------------
(***************************************************************************)
(* The catalog of laws: the bucket laws, the search snapshot, and those    *)
(* who write them side by side: RunTOC, requests and rechecks that create  *)
(* stubs of linked ordinances and refresh the snapshot, Reconcile that     *)
(* creates stubs and does not, and the GII feed that names laws by it.     *)
(*                                                                         *)
(* A text is an element of Name and Key[n] what normalize.Key makes of it; *)
(* the scores of similarity are given as tables in percent.  Errors of     *)
(* reading the store are left out.                                         *)
(***************************************************************************)
EXTENDS Integers, SequencesExt

CONSTANTS
    Name,        \* texts: queries, abbreviations, titles, slugs and ids
    Key,         \* normalize.Key
    Folded,      \* the further keys of AlternateKeys: umlauts folded back
    Book,        \* ParseSGBBookQuery: the number of an SGB book, 0 for other texts
    BookKeys,    \* the keys sgb5 and sgbv of every book
    Guess,       \* guessAbbr of a slug
    Likeness,    \* <<key, text>>: score of a key against an abbreviation
    TitleLike,   \* <<key, text>>: score of a key against a title
    Documents,   \* the tables of contents GII publishes, one after the other
    VariantFile, \* the law a key of the variants file names, "" for none
    FeedItems,   \* items of the GII feed: [abbr, title]
    Children,    \* the linked slugs of every law
    Queries,     \* the texts that clients ask for
    Threshold,   \* config.MatchThreshold
    Requests,    \* goroutines: requests, rechecks, Reconcile
    MaxFaults    \* bound on failed fetches and writes and restarts together

NoName == ""
(* The zero domain.Law.                                                    *)
NoLaw == [id |-> NoName, slug |-> NoName, abbr |-> NoName, title |-> NoName]
Slug == DOMAIN Guess
Keys == {Key[n] : n \in Name} \ {NoName}
(* The keys that can become ids of laws.                                   *)
Id == ({Key[s] : s \in Slug}
           \cup UNION {{Key[it.abbr] : it \in ToSet(Documents[d])} : d \in DOMAIN Documents})
               \ {NoName}

ASSUME NameAssumption ==
    /\ NoName \in Name /\ Key \in [Name -> Name] /\ Key[NoName] = NoName
    /\ \A n \in Name : Key[Key[n]] = Key[n]
    /\ Book \in [Name -> Nat] /\ Folded \in [Name -> SUBSET Name]
    /\ Likeness \in [Keys \X Name -> 0..91] /\ TitleLike \in [Keys \X Name -> 0..84]
    /\ Slug \subseteq Name /\ Guess \in [Slug -> Name]
    /\ VariantFile \in [Keys -> Id \cup {NoName}]
    /\ Children \in [Id -> SUBSET Slug]
    /\ Queries \subseteq Name \ {NoName}
    /\ \A s \in Slug : Key[s] # NoName /\ Key[Guess[s]] = Key[s]

ASSUME DocumentAssumption ==
    /\ Len(Documents) > 0
    /\ Documents \in Seq(Seq([slug : Slug, abbr : Name, title : Name \ {NoName}]))
    /\ FeedItems \subseteq [abbr : Name, title : Name]

ASSUME BoundAssumption ==
    Threshold \in 1..100 /\ MaxFaults \in Nat

VARIABLES
    published,  \* the table of contents GII serves
    laws,       \* bucket laws
    index,      \* search.Engine.snap
    links,      \* which law each feed item was linked to
    toc,        \* the run of RunTOC
    request,    \* the goroutines
    last, prev, \* the documents of the last two snapshots of RunTOC (history)
    faults      \* failed fetches and writes, restarts

vars == <<published, laws, index, links, toc, request, last, prev, faults>>

IdleToc == [pc |-> "idle", doc |-> 0, list |-> <<>>]
Idle == [pc |-> "idle", kind |-> "", todo |-> {}, slug |-> NoName,
         list |-> {}, neu |-> FALSE, old |-> FALSE]
Kinds == {"request", "recheck", "reconcile"}
-----------------------------------------------------------------------------
(* Snapshots.                                                              *)

Stored == {i \in Id : laws[i] # NoLaw}

(* SGBBookLawIDKeys: the further keys an SGB book is found under.          *)
Aliases(l) == {l.id, Key[l.abbr]} \cup BookKeys[IF Book[l.id] <= 20 THEN Book[l.id] ELSE 0]
                  \cup BookKeys[IF Book[l.abbr] <= 20 THEN Book[l.abbr] ELSE 0]

(* build: of two laws with one id the later wins in byID; both are ranked. *)
BuildFromList(list) ==
    [laws |-> ToSet(list),
     byID |-> [i \in Id |-> LET at == {n \in DOMAIN list : list[n].id = i}
                            IN  IF at = {} THEN NoLaw ELSE list[Max(at)]]]

BuildFromStore(set) ==
    [laws |-> set,
     byID |-> [i \in Id |-> IF \E l \in set : l.id = i THEN CHOOSE l \in set : l.id = i
                            ELSE NoLaw]]

StoredLaws == {laws[i] : i \in Stored}

AlternateKeys(q) ==
    {Key[q]} \cup Folded[q] \cup BookKeys[IF Book[q] <= 20 THEN Book[q] ELSE 0]

(* The scores a law collects for one key.                                  *)
KeyScores(k, l) ==
    {Likeness[<<k, l.abbr>>], TitleLike[<<k, l.title>>]}
        \cup (IF k \in Aliases(l) THEN {100} ELSE {})
        \cup (IF k = Key[l.title] THEN {98} ELSE {})

(* The laws that the variants file means by a query.                       *)
Meant(q) == {VariantFile[k] : k \in AlternateKeys(q) \cap Keys} \ {NoName}

(* All scores of the law of one id.                                        *)
Scores(ix, q, i) ==
    {0} \cup (UNION {KeyScores(k, l) : k \in AlternateKeys(q) \cap Keys,
                                      l \in {m \in ix.laws : m.id = i}})
        \cup (IF i \in Meant(q) THEN {95} ELSE {})

(* The ids that score for a query, each with its best score.  A variant    *)
(* may name a law that the snapshot does not have; it scores with the zero *)
(* Law.                                                                    *)
Candidates(ix, q) ==
    LET all == {[law |-> ix.byID[i], score |-> Max(Scores(ix, q, i))] :
                    i \in Meant(q) \cup {l.id : l \in ix.laws}}
    IN  {c \in all : c.score > 0}

(* sgbBookNumber: the abbreviation, else the id as far as it is a number.  *)
SGBBookNumber(l) ==
    IF Book[l.abbr] # 0 THEN Book[l.abbr]
    ELSE IF Book[l.id] <= 20 THEN Book[l.id] ELSE 0

(* Mutant of Resolve: the first law over the threshold, not the best.      *)
MutantFirstOverThreshold(ix, q, threshold) ==
    LET over == {c \in Candidates(ix, q) : c.score >= threshold}
    IN  IF over = {} THEN {[found |-> FALSE, ambiguous |-> FALSE, law |-> NoLaw]}
        ELSE {[found |-> TRUE, ambiguous |-> FALSE, law |-> c.law] : c \in over}

(* Snapshot.Resolve: the laws that may come back as best match, none or    *)
(* ambiguous.  Laws of one score and one abbreviation come in any order,   *)
(* which is left open for all laws of one score.                           *)
Resolve(ix, q, threshold) ==
    LET all == Candidates(ix, q)
        best == Max({c.score : c \in all})
        chosen == IF Book[q] # 0 THEN {c \in all : SGBBookNumber(c.law) = Book[q]}
                  ELSE {c \in all : c.score = best}
        none == [found |-> FALSE, ambiguous |-> FALSE, law |-> NoLaw]
    IN  IF all = {} THEN {none}
        ELSE IF Book[q] # 0 /\ Cardinality(chosen) # 1 THEN {[none EXCEPT !.ambiguous = TRUE]}
        ELSE IF Book[q] # 0 \/ best >= threshold
        THEN {[found |-> TRUE, ambiguous |-> FALSE, law |-> c.law] : c \in chosen}
        ELSE {none}

(* Mutant of MatchLawFromItem: the threshold of requests.                  *)
MutantLowThreshold(it) ==
    {IF o.found THEN o.law.id ELSE NoName :
        o \in Resolve(index, it.abbr, Threshold) \cup Resolve(index, it.title, Threshold)}

(* matchLawFromItem: the abbreviation in parentheses at 0.9, the title at  *)
(* 0.85.  The empty id stands for no law.                                  *)
MatchLawFromItem(it) ==
    LET named == IF it.abbr = NoName THEN {} ELSE Resolve(index, it.abbr, 90)
    IN  IF \E o \in named : o.found THEN {o.law.id : o \in named}
        ELSE {IF o.found THEN o.law.id ELSE NoName : o \in Resolve(index, it.title, 85)}
-----------------------------------------------------------------------------
(* RunTOC.                                                                 *)

(* The law an item becomes after the laws before it: the key of the        *)
(* abbreviation is its id, that of the slug if the abbreviation is taken.  *)
LawOfItem(before, it) ==
    LET abbr == IF it.abbr = NoName THEN Guess[it.slug] ELSE it.abbr
        id == IF Key[abbr] = NoName \/ \E n \in DOMAIN before : before[n].id = Key[abbr]
              THEN Key[it.slug] ELSE Key[abbr]
    IN  [id |-> id, slug |-> it.slug, abbr |-> abbr, title |-> it.title]

LawsOf(doc) ==
    LET upTo[n \in 0..Len(doc)] ==
            IF n = 0 THEN <<>>
            ELSE LET before == upTo[n - 1] IN Append(before, LawOfItem(before, doc[n]))
    IN  upTo[Len(doc)]

TocLaws == [d \in DOMAIN Documents |-> LawsOf(Documents[d])]

(* Mutant of UpsertLaws: stored under the key of the slug.                 *)
MutantUnderSlug(list) ==
    laws' = [i \in Id |-> LET at == {n \in DOMAIN list : Key[list[n].slug] = i}
                          IN  IF at = {} THEN laws[i] ELSE list[Max(at)]]

(* UpsertLaws: one transaction, a later law of one id replaces an earlier. *)
UpsertLaws(list) ==
    laws' = [i \in Id |-> LET l == BuildFromList(list).byID[i]
                          IN  IF l = NoLaw THEN laws[i] ELSE l]

Publish ==
    /\ published < Len(Documents)
    /\ published' = published + 1
    /\ UNCHANGED <<laws, index, links, toc, request, last, prev, faults>>

(* The timer of RunTOC fires after TOCInterval, hours after its last run:  *)
(* no request that was under way then is still running (field old).        *)
TocFetch ==
    /\ toc.pc = "idle"
    /\ \A r \in Requests : ~request[r].old
    /\ \/ toc' = [pc |-> "store", doc |-> published, list |-> TocLaws[published]]
          /\ UNCHANGED faults
       \/ /\ faults < MaxFaults
          /\ faults' = faults + 1
          /\ UNCHANGED toc
    /\ UNCHANGED <<published, laws, index, links, request, last, prev>>

(* Mutant of TocStore: a failed write is only logged.                      *)
MutantSwapAnyway ==
    /\ toc.pc = "store"
    /\ toc' = [toc EXCEPT !.pc = "swap"]
    /\ \/ UpsertLaws(toc.list) /\ UNCHANGED faults
       \/ faults < MaxFaults /\ faults' = faults + 1 /\ UNCHANGED laws
    /\ UNCHANGED <<published, index, links, request, last, prev>>

TocStore ==
    /\ toc.pc = "store"
    /\ \/ /\ UpsertLaws(toc.list)
          /\ toc' = [toc EXCEPT !.pc = "swap"]
          /\ UNCHANGED faults
       \/ /\ faults < MaxFaults
          /\ faults' = faults + 1
          /\ toc' = IdleToc
          /\ UNCHANGED laws
    /\ UNCHANGED <<published, index, links, request, last, prev>>

(* Mutant of TocSwap: only laws the snapshot does not have are added.      *)
MutantMerge ==
    /\ toc.pc = "swap"
    /\ LET new == BuildFromList(toc.list) IN
           index' = [laws |-> index.laws \cup new.laws,
                     byID |-> [i \in Id |-> IF index.byID[i] # NoLaw THEN index.byID[i]
                                            ELSE new.byID[i]]]
    /\ last' = toc.doc /\ prev' = last
    /\ toc' = IdleToc
    /\ request' = [r \in Requests |-> [request[r] EXCEPT !.old = request[r].pc # "idle"]]
    /\ UNCHANGED <<published, laws, links, faults>>

(* The snapshot has the laws of the table of contents and no others.       *)
TocSwap ==
    /\ toc.pc = "swap"
    /\ index' = BuildFromList(toc.list)
    /\ last' = toc.doc /\ prev' = last
    /\ toc' = IdleToc
    /\ request' = [r \in Requests |-> [request[r] EXCEPT !.old = request[r].pc # "idle"]]
    /\ UNCHANGED <<published, laws, links, faults>>
-----------------------------------------------------------------------------
(* RunGIIFeed: a link to the law an item names.                            *)

FeedMatch ==
    \E it \in FeedItems, i \in Id :
        /\ i \in MatchLawFromItem(it)
        /\ links' = links \cup {<<it, i>>}
        /\ UNCHANGED <<published, laws, index, toc, request, last, prev, faults>>
-----------------------------------------------------------------------------
(* Requests, rechecks and Reconcile.                                       *)

(* The law a request is about.  Service.Resolve asks the snapshot, then    *)
(* the store; Service.Freshness and ForceRecheck first the store.          *)
ResolvedLaw(q) ==
    LET outcomes == Resolve(index, q, Threshold)
    IN  IF Stored = {} \/ \E o \in outcomes : o.ambiguous THEN {}
        ELSE IF \E o \in outcomes : o.found THEN {o.law.id : o \in outcomes}
        ELSE {Key[q]}

NamedLaw(q) ==
    IF q \in Stored THEN {q}
    ELSE {o.law.id : o \in {o \in Resolve(index, q, Threshold) : o.found}}

Subjects(kind) ==
    CASE kind = "request" -> UNION {ResolvedLaw(q) \cup NamedLaw(q) : q \in Queries}
      [] kind = "recheck" -> UNION {NamedLaw(q) : q \in Queries}
      [] kind = "reconcile" -> Id

(* Nobody found, or a law that is not stored, ends the request at once; a  *)
(* law without linked ordinances writes nothing.                           *)
Begin(r) ==
    /\ request[r].pc = "idle"
    /\ \E kind \in Kinds : \E i \in Subjects(kind) \cap Stored :
           /\ Children[i] # {}
           /\ request' = [request EXCEPT ![r] =
                  [Idle EXCEPT !.pc = "look", !.kind = kind, !.todo = Children[i]]]
    /\ UNCHANGED <<published, laws, index, links, toc, last, prev, faults>>

(* EnsureLawFromSlug, first half: GetLaw.                                  *)
Look(r) ==
    /\ request[r].pc = "look"
    /\ \E s \in request[r].todo :
           request' = [request EXCEPT
               ![r].todo = @ \ {s},
               ![r].slug = IF Key[s] \in Stored THEN NoName ELSE s,
               ![r].pc = IF Key[s] \in Stored THEN "look" ELSE "insert"]
    /\ UNCHANGED <<published, laws, index, links, toc, last, prev, faults>>

StubOf(s) == [id |-> Key[s], slug |-> s, abbr |-> Key[s], title |-> s]

(* Mutant of Insert: GetLaw said that there is none.                       *)
MutantBlindInsert(r) ==
    /\ request[r].pc = "insert"
    /\ laws' = [laws EXCEPT ![Key[request[r].slug]] = StubOf(request[r].slug)]
    /\ request' = [request EXCEPT ![r].slug = NoName, ![r].pc = "look",
                                  ![r].neu = request[r].kind # "reconcile"]
    /\ UNCHANGED <<published, index, links, toc, last, prev, faults>>

(* Second half: UpsertLawIfAbsent.  A new law is refreshed into the        *)
(* snapshot at once by a request, at the end by a recheck, never by        *)
(* Reconcile.                                                              *)
Insert(r) ==
    LET s == request[r].slug
        neu == Key[s] \notin Stored
    IN  /\ request[r].pc = "insert"
        /\ laws' = IF neu THEN [laws EXCEPT ![Key[s]] = StubOf(s)] ELSE laws
        /\ request' = [request EXCEPT
               ![r].slug = NoName,
               ![r].neu = @ \/ (neu /\ request[r].kind = "recheck"),
               ![r].pc = IF neu /\ request[r].kind = "request" THEN "list"
                         ELSE "look"]
        /\ UNCHANGED <<published, index, links, toc, last, prev, faults>>

(* Mutant of List: the refresh has the stubs alone.                        *)
MutantListStubs(r) ==
    /\ request[r].pc = "list" \/ (request[r].pc = "look" /\ request[r].todo = {} /\ request[r].neu)
    /\ request' = [request EXCEPT ![r].pc = "swap", ![r].neu = FALSE,
                                  ![r].list = {l \in StoredLaws : l.title = l.slug}]
    /\ UNCHANGED <<published, laws, index, links, toc, last, prev, faults>>

(* refreshSearchIndex: ListLaws, then Swap.                                *)
List(r) ==
    /\ \/ request[r].pc = "list"
       \/ request[r].pc = "look" /\ request[r].todo = {} /\ request[r].neu
    /\ request' = [request EXCEPT ![r].pc = "swap", ![r].list = StoredLaws, ![r].neu = FALSE]
    /\ UNCHANGED <<published, laws, index, links, toc, last, prev, faults>>

Swap(r) ==
    /\ request[r].pc = "swap"
    /\ index' = BuildFromStore(request[r].list)
    /\ request' = [request EXCEPT ![r].pc = "look", ![r].list = {}]
    /\ UNCHANGED <<published, laws, links, toc, last, prev, faults>>

End(r) ==
    /\ request[r].pc = "look" /\ request[r].todo = {} /\ ~request[r].neu
    /\ request' = [request EXCEPT ![r] = Idle]
    /\ UNCHANGED <<published, laws, index, links, toc, last, prev, faults>>
-----------------------------------------------------------------------------
(* The start of the process: the snapshot of what is stored, then the      *)
(* variants file, before any goroutine.                                    *)

Restart ==
    /\ faults < MaxFaults
    /\ faults' = faults + 1
    /\ index' = BuildFromStore(StoredLaws)
    /\ toc' = IdleToc
    /\ request' = [r \in Requests |-> Idle]
    /\ UNCHANGED <<published, laws, links, last, prev>>

Init ==
    /\ published = 1
    /\ laws = [i \in Id |-> NoLaw]
    /\ index = BuildFromStore({})
    /\ links = {}
    /\ toc = IdleToc
    /\ request = [r \in Requests |-> Idle]
    /\ last = 0 /\ prev = 0
    /\ faults = 0

TocStep == TocFetch \/ TocStore \/ TocSwap
Proceed(r) == Look(r) \/ Insert(r) \/ List(r) \/ Swap(r) \/ End(r)

Next ==
    \/ Publish
    \/ TocStep
    \/ FeedMatch
    \/ Restart
    \/ \E r \in Requests : Begin(r) \/ Proceed(r)

(* The timer of RunTOC fires again after every run, and a request waits    *)
(* for nobody.                                                             *)
Fairness == WF_vars(TocStep) /\ \A r \in Requests : WF_vars(Proceed(r))

Spec == Init /\ [][Next]_vars /\ Fairness
-----------------------------------------------------------------------------
LawRecord == [id : Id, slug : Slug, abbr : Name, title : Name]

(* Types, and that a law is stored under its id.                           *)
TypeOK ==
    /\ published \in 1..Len(Documents) /\ {last, prev} \subseteq 0..Len(Documents)
    /\ laws \in [Id -> LawRecord \cup {NoLaw}] /\ \A i \in Stored : laws[i].id = i
    /\ index.laws \subseteq LawRecord
    /\ index.byID \in [Id -> LawRecord \cup {NoLaw}]
    /\ links \subseteq FeedItems \X Id /\ faults \in 0..MaxFaults
    /\ toc.pc \in {"idle", "store", "swap"} /\ toc.doc \in 0..Len(Documents)
    /\ \A n \in DOMAIN toc.list : toc.list[n] \in LawRecord
    /\ \A r \in Requests :
           /\ request[r].pc \in {"idle", "look", "insert", "list", "swap"}
           /\ request[r].todo \subseteq Slug
           /\ request[r].slug \in Slug \cup {NoName} /\ request[r].list \subseteq LawRecord

(* What RecordsKept and IndexIsStored rest on: GII lists a law under one   *)
(* path in all tables of contents, none of its laws takes the id of a      *)
(* linked ordinance of another path, and no law is titled by its path.     *)
PathsKept ==
    \A d \in DOMAIN Documents : \A l \in ToSet(TocLaws[d]) :
        /\ \A e \in DOMAIN Documents : \A k \in ToSet(TocLaws[e]) : k.id = l.id => k.slug = l.slug
        /\ \A i \in Id : \A s \in Children[i] : Key[s] = l.id => s = l.slug
        /\ l.title # l.slug

(* What NameBeatsLikeness rests on: no table gives one id to two laws.  It  *)
(* would, were both the abbreviation and the slug of an item taken.         *)
IdsApart ==
    \A d \in DOMAIN Documents : \A l, k \in ToSet(TocLaws[d]) : l.id = k.id => l = k

(* A law that the search returns is stored under its id as the law of the  *)
(* same GII path, whoever swapped the snapshot in and however old it is:   *)
(* the Stand, links and text that Service.Resolve and ForceRecheck read by *)
(* the id are those of the law the client was matched with.                *)
IndexIsStored ==
    \A i \in Id : index.byID[i] # NoLaw => laws[i].slug = index.byID[i].slug

(* A law that the last two tables of contents list is in the snapshot: no  *)
(* refresh of a request, begun before the one or the other was stored,     *)
(* takes a law out of the search that has been in it for an interval.      *)
IndexKeepsCatalog ==
    last # 0 /\ prev # 0 =>
        LET old == ToSet(TocLaws[prev])
        IN  \A l \in ToSet(TocLaws[last]) : l \in old => index.byID[l.id] # NoLaw

(* An id, once given, stays with its GII path, through every later table   *)
(* of contents, stub and restart, and a law of the table of contents never *)
(* becomes a stub again ("Lost the race to TOC sync", ensure.go:50): the   *)
(* Stand, the links and the cached texts are filed under the id alone.     *)
RecordsKept ==
    [][\A i \in Stored : /\ laws'[i].slug = laws[i].slug
                         /\ laws[i].title # laws[i].slug => laws'[i].title # laws'[i].slug]_vars

(* A law bears a query that is its abbreviation, id or name of an SGB book *)
(* in one of the spellings AlternateKeys knows.                            *)
Bears(l, q) == AlternateKeys(q) \cap Keys \cap Aliases(l) # {}

(* A query that a law of the snapshot bears is never answered with a law   *)
(* that is merely alike, and one for an SGB book never with another book   *)
(* (README.md:89).                                                         *)
NameBeatsLikeness ==
    \A q \in Queries : \A o \in Resolve(index, q, Threshold) :
        /\ o.found /\ Book[q] # 0 => SGBBookNumber(o.law) = Book[q]
        /\ o.found /\ Book[q] = 0 /\ (\E l \in index.laws : Bears(l, q)) => Bears(o.law, q)

(* A text names a law that bears it or its title, that a variant means by  *)
(* it, or that is the SGB book of that number.                             *)
NamesLaw(text, l) ==
    \/ Bears(l, text) \/ Key[l.title] \in AlternateKeys(text) \cap Keys
    \/ l.id \in Meant(text)
    \/ Book[text] # 0 /\ SGBBookNumber(l) = Book[text]

(* The GII feed links an issue only to a law of the snapshot that the      *)
(* abbreviation or the title of the item names, never to one that is       *)
(* merely alike (matchLawFromItem), also while the law that is meant is    *)
(* missing in the snapshot.                                                *)
FeedNamesTheLaw ==
    [][\A link \in links' \ links :
           LET l == index.byID[link[2]]
           IN  l # NoLaw /\ (NamesLaw(link[1].abbr, l) \/ NamesLaw(link[1].title, l))]_vars

(* What it rests on besides IdsApart: no likeness to an abbreviation, at   *)
(* most 0.92 of the similarity, reaches the thresholds of the feed.  It    *)
(* would with one other letter among 46 for an abbreviation of an item,    *)
(* among 14 for a title.                                                   *)
AlikeIsLess ==
    \A it \in FeedItems : \A n \in Name :
        /\ \A k \in AlternateKeys(it.abbr) \cap Keys : Likeness[<<k, n>>] < 90
        /\ \A k \in AlternateKeys(it.title) \cap Keys : Likeness[<<k, n>>] < 85

(* Every law of a published table of contents is some time later in the    *)
(* snapshot as the table has it, although requests swap older snapshots in *)
(* between, a run may fail and the process may be restarted.               *)
PublishedIsFound ==
    \A d \in DOMAIN Documents :
        published = d ~> \A n \in DOMAIN TocLaws[d] :
                            index.byID[TocLaws[d][n].id] = TocLaws[d][n]
=============================================================================
