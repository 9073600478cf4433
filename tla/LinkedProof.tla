---------------------------- MODULE LinkedProof ----------------------------
(***************************************************************************)
(* Packages instruments and discovery as pure functions: which ordinances  *)
(* are linked to a parent law, which of them are in force on a day, and    *)
(* how a citation of the parent is proved against one of them ("Proof C"). *)
(* Nothing is stored here; module Discovery calls these operators where    *)
(* freshnessFor and Reconcile do.                                          *)
(*                                                                         *)
(* The linked rows of a parent are a function from slugs to rows, because  *)
(* Merge keys them by slug; the slice Merge returns is sorted by slug, and *)
(* Slugs lists the slugs in that order.  A law id and its slug are one     *)
(* name.  The notes of a row and the text of a Stand are the citations     *)
(* ParseLinkedInstruments finds in them.                                   *)
(***************************************************************************)
EXTENDS Freshness, SequencesExt

CONSTANT Slugs  \* the GII slugs of all ordinances, in the order of the keys of Merge

ASSUME SlugsAssumption ==
    /\ Slugs \in Seq(STRING)
    /\ NoSlug \notin ToSet(Slugs)
    /\ \A i, j \in DOMAIN Slugs : Slugs[i] = Slugs[j] => i = j

Slug == ToSet(Slugs)
Rank(s) == CHOOSE i \in DOMAIN Slugs : Slugs[i] = s
Before(s, t) == Rank(s) < Rank(t)
InKeyOrder(S) == SelectSeq(Slugs, LAMBDA s : s \in S)
IsFirst(s, S) == s \in S /\ \A t \in S \ {s} : Before(s, t)

Undated == 0

-----------------------------------------------------------------------------
(* Which rows a parent has (discovery/merge.go, family_prefix.go,           *)
(* instruments/family.go, gesetz.go).                                       *)

(* EdgeToLinked: a stored edge never has a date.                            *)
EdgeToLinked(edge) ==
    [notes |-> edge.notes, from |-> Undated, section |-> edge.section,
     source |-> "discovered", confidence |-> "high"]

(* A family maps slugs of one prefix to their year; the latest one that is  *)
(* in the catalog is the row of the parent.                                 *)
LatestSlugByPrefix(family, catalog) ==
    LET members == DOMAIN family.years \cap catalog
    IN  {s \in members : \A t \in members : family.years[t] <= family.years[s]}

ExpandForParent(families, catalog) ==
    [s \in UNION {LatestSlugByPrefix(f, catalog) : f \in families} |->
        LET f == CHOOSE g \in families : s \in LatestSlugByPrefix(g, catalog)
        IN  [notes |-> f.notes, from |-> Undated, section |-> f.section,
             source |-> "seeded", confidence |-> ""]]

FilterDiscoveredByFamilyPrefixes(discovered, families, keep) ==
    [s \in {t \in DOMAIN discovered :
                t \in keep \/ \A f \in families : t \notin DOMAIN f.years} |-> discovered[s]]

Merge(seeded, discovered) ==
    [s \in DOMAIN seeded \cup {t \in DOMAIN discovered : discovered[t].confidence = "high"} |->
        IF s \in DOMAIN seeded THEN seeded[s] ELSE discovered[s]]

(* linkedInstrumentsFor: TSV rows, the latest member of each family (which  *)
(* is appended to them and so replaces a TSV row of the same slug), and the *)
(* edges that no family suppresses.                                         *)
LinkedInstrumentsFor(seeds, families, edges, catalog) ==
    LET expanded == ExpandForParent(families, catalog)
        seeded == [s \in DOMAIN seeds \cup DOMAIN expanded |->
                      IF s \in DOMAIN expanded THEN expanded[s] ELSE seeds[s]]
        discovered == [s \in DOMAIN edges |-> EdgeToLinked(edges[s])]
    IN  Merge(seeded, FilterDiscoveredByFamilyPrefixes(discovered, families, DOMAIN expanded))

(* Rows whose law has the title of a Gesetz are not operative.              *)
FilterOperativeLinked(rows, gesetze) == [s \in DOMAIN rows \ gesetze |-> rows[s]]

-----------------------------------------------------------------------------
(* AnnotateChain (chain.go:19-90).                                          *)

(* Within a section dated rows come in the order of their dates, then of    *)
(* their keys.                                                              *)
Supersedes(rows, t, s, asOf) ==
    /\ rows[t].section = rows[s].section
    /\ rows[t].from # Undated
    /\ rows[t].from <= asOf
    /\ rows[t].from > rows[s].from \/ (rows[t].from = rows[s].from /\ Before(s, t))

(* Mutant: a row is in force from the day after its date.                   *)
MutantInForceNextDay(rows, asOf) ==
    [s \in DOMAIN rows |->
        IF rows[s].from = Undated THEN ""
        ELSE IF rows[s].from >= asOf THEN "future"
        ELSE IF \E t \in DOMAIN rows : Supersedes(rows, t, s, asOf) THEN "past"
        ELSE "current"]

(* The status of every row: undated rows have none.                         *)
AnnotateChain(rows, asOf) ==
    [s \in DOMAIN rows |->
        IF rows[s].from = Undated THEN ""
        ELSE IF rows[s].from > asOf THEN "future"
        ELSE IF \E t \in DOMAIN rows : Supersedes(rows, t, s, asOf) THEN "past"
        ELSE "current"]

(* Mutant: bundles have rows with a date only.                              *)
MutantDatedOnly(rows, status, includePast) ==
    {s \in DOMAIN rows : status[s] = "current" \/ (status[s] = "past" /\ includePast)}

FilterBundleMembers(rows, status, includePast) ==
    {s \in DOMAIN rows :
        \/ status[s] = "current"
        \/ status[s] = "past" /\ includePast
        \/ status[s] = "" /\ rows[s].source = "discovered" /\ rows[s].confidence = "high"}

-----------------------------------------------------------------------------
(* CollectEvidence (evidence.go:20-78).                                     *)

Citation(kind, number, section) ==
    [kind |-> kind, teil |-> 1, year |-> 1, number |-> <<number, 0>>, section |-> section]

(* What ParseLinkedInstruments reads from the text of a Stand: the issue    *)
(* without a kind.                                                          *)
StandRefs(stand) ==
    IF stand.number = NoNumber THEN <<>>
    ELSE <<[kind |-> "", teil |-> stand.teil, year |-> stand.year,
            number |-> stand.number, section |-> NoSection]>>

(* dedupeRefs: the first of several citations of an issue and kind stays,   *)
(* the section does not count.                                              *)
SameCitation(a, b) ==
    <<a.kind, a.teil, a.year, a.number>> = <<b.kind, b.teil, b.year, b.number>>

DedupeRefs(refs) ==
    FoldLeft(LAMBDA kept, r :
                IF \E k \in ToSet(kept) : SameCitation(k, r) THEN kept ELSE Append(kept, r),
             <<>>, refs)

AllRefs(stand, editorial, rows, stands) ==
    StandRefs(stand) \o editorial
        \o FoldLeft(LAMBDA acc, s : acc \o rows[s].notes \o StandRefs(stands[s]),
                    <<>>, InKeyOrder(DOMAIN rows))

CollectEvidence(stand, editorial, rows, stands) ==
    DedupeRefs(AllRefs(stand, editorial, rows, stands))

-----------------------------------------------------------------------------
(* ResolveOperativeVRefs (vref_resolve.go:36-112).                          *)

ChildMatchesRef(ref, row, stand) ==
    \/ \E n \in ToSet(row.notes) : SameIdentity(ref, n)
    \/ \E n \in ToSet(StandRefs(stand)) : SameIdentity(ref, n)

MatchChildrenByIdentity(ref, children, rows, stands) ==
    {s \in children : ChildMatchesRef(ref, rows[s], stands[s])}

FilterChildrenBySectionHint(children, rows, section) ==
    {s \in children : section # NoSection /\ rows[s].section = section}

CurrentRows(status) == {s \in DOMAIN status : status[s] \in {"current", ""}}
PastRows(status) == {s \in DOMAIN status : status[s] = "past"}

Resolution(ref, slug, method, historical) ==
    [ref |-> ref, slug |-> slug, method |-> method, childConfirmed |-> FALSE,
     resolved |-> FALSE, historical |-> historical, supersededBy |-> NoSlug]

(* One match, or the one match of several with the section of the citation. *)
TheMatch(ref, matches, rows) ==
    IF Cardinality(matches) = 1 THEN matches
    ELSE LET scoped == FilterChildrenBySectionHint(matches, rows, ref.section)
         IN  IF Cardinality(scoped) = 1 THEN scoped ELSE {}

ResolveRef(ref, rows, status, stands, indexed) ==
    LET matches == MatchChildrenByIdentity(ref, CurrentRows(status), rows, stands)
        match == TheMatch(ref, matches, rows)
        found == {indexed} \cap CurrentRows(status)
    IN  IF match # {} THEN Resolution(ref, CHOOSE s \in match : TRUE, "notes_identity", FALSE)
        ELSE IF Cardinality(matches) > 1 THEN Resolution(ref, NoSlug, "", FALSE)
        ELSE IF found # {} THEN Resolution(ref, indexed, "bgbl_index", FALSE)
        ELSE IF /\ ref.kind # "V"
                /\ MatchChildrenByIdentity(ref, PastRows(status), rows, stands) # {}
        THEN Resolution(ref, NoSlug, "notes_identity", TRUE)
        ELSE Resolution(ref, NoSlug, "", FALSE)

(* The citations that have to be resolved, in their order.                  *)
ToResolve(refs, stand, hasLinked) ==
    SelectSeq(refs, LAMBDA r : /\ HasIdentity(r)
                               /\ ~StandReflectsRef(stand, r)
                               /\ IsOperativeInstrumentRef(r, hasLinked))

ResolveOperativeVRefs(refs, rows, status, stands, index, stand) ==
    LET todo == ToResolve(refs, stand, DOMAIN rows # {})
    IN  [i \in 1..Len(todo) |->
            ResolveRef(todo[i], rows, status, stands,
                       IF todo[i].number \in DOMAIN index THEN index[todo[i].number] ELSE NoSlug)]

-----------------------------------------------------------------------------
(* The proof (vref_proof.go).                                               *)

NeedsChild(res) == ~res.historical /\ res.slug # NoSlug

(* Mutant: a citation that names one child is proved, whatever its state.   *)
MutantNoChildCheck(res, state) ==
    IF NeedsChild(res) THEN [res EXCEPT !.childConfirmed = TRUE, !.resolved = TRUE] ELSE res

ApplyChildFreshnessProof(res, state) ==
    IF NeedsChild(res) /\ state = "confirmed_current"
    THEN [res EXCEPT !.childConfirmed = TRUE, !.resolved = TRUE]
    ELSE res

ConfirmedSlugs(resolutions) ==
    {r.slug : r \in {x \in ToSet(resolutions) : x.resolved /\ x.childConfirmed}}

(* The section in which a past ordinance was superseded: that of the        *)
(* citation, else the one section of all past matches.                      *)
SupersededSection(ref, past, rows) ==
    LET sections == {rows[s].section : s \in past}
    IN  IF ref.section # NoSection THEN ref.section
        ELSE IF Cardinality(sections) = 1 THEN CHOOSE x \in sections : TRUE
        ELSE NoSection

(* Mutant: the sibling in force need not be confirmed.                      *)
MutantAnySibling(res, rows, status, stands, confirmed) ==
    LET past == MatchChildrenByIdentity(res.ref, PastRows(status), rows, stands)
        section == SupersededSection(res.ref, past, rows)
        siblings == {s \in CurrentRows(status) : rows[s].section = section}
    IN  IF /\ ~Proved(res) /\ res.slug = NoSlug /\ res.ref.kind = "V"
           /\ past # {} /\ section # NoSection /\ siblings # {}
        THEN [res EXCEPT !.historical = TRUE, !.method = "superseded_past_v",
                         !.supersededBy = CHOOSE s \in siblings : \A t \in siblings : ~Before(t, s)]
        ELSE res

(* A V citation that only a past ordinance carries is historical once its   *)
(* successor in the section is confirmed.                                   *)
MarkSuperseded(res, rows, status, stands, confirmed) ==
    LET past == MatchChildrenByIdentity(res.ref, PastRows(status), rows, stands)
        section == SupersededSection(res.ref, past, rows)
        siblings == {s \in CurrentRows(status) \cap confirmed : rows[s].section = section}
    IN  IF /\ ~Proved(res) /\ res.slug = NoSlug /\ res.ref.kind = "V"
           /\ past # {} /\ section # NoSection /\ siblings # {}
        THEN [res EXCEPT !.historical = TRUE, !.method = "superseded_past_v",
                         !.supersededBy = CHOOSE s \in siblings : \A t \in siblings : ~Before(t, s)]
        ELSE res

MarkSupersededPastKindV(resolutions, rows, status, stands) ==
    [i \in DOMAIN resolutions |->
        MarkSuperseded(resolutions[i], rows, status, stands, ConfirmedSlugs(resolutions))]

=============================================================================
