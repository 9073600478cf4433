----------------------------- MODULE Freshness -----------------------------
(***************************************************************************)
(* Package freshness: the pure functions that turn what the store knows    *)
(* about one law (its Stand, the gazette issues linked to it, the          *)
(* instruments it cites and the ages of the sync stamps) into a freshness  *)
(* record.  No state is kept here: the state machines of this project call *)
(* Evaluate where the program does.                                        *)
(*                                                                         *)
(* Times are natural numbers, NoTime is Go's zero time.Time.  A gazette    *)
(* number such as "12a" is a pair <<12, 1>> (digits, letter suffix); the   *)
(* empty string is <<0, 0>>.  Page 0 is the empty page.  Titles matter     *)
(* only by whether they start as a Bekanntmachung, Stand texts only by     *)
(* whether they are empty.                                                 *)
(***************************************************************************)
EXTENDS Integers, FiniteSets, Sequences

CONSTANTS
    MaxAge,     \* config.FreshnessMaxAge (6h by default)
    Tolerance   \* FutureTimestampTolerance (5 minutes)

ASSUME FreshnessAssumption == MaxAge \in Nat /\ Tolerance \in Nat

NoTime == 0
NoNumber == <<0, 0>>
NoSlug == "none"
NoSection == "none"

States == {"confirmed_current", "confirmed_stale", "uncertain"}
Confidences == {"high", "medium", "low"}

-----------------------------------------------------------------------------
(* Age of the evidence (evidence.go, eval.go:135-149).                      *)

(* Mutant: no bound on the age.                                             *)
MutantFreshForever(ts, now) == ts # NoTime /\ ts <= now + Tolerance

TimestampFresh(ts, now) ==
    /\ ts # NoTime
    /\ ts <= now + Tolerance
    /\ now - ts <= MaxAge

(* Mutant: the marker only counts when there is no success stamp.           *)
MutantMarkerIgnored(feedSuccess, degradedAt) ==
    IF degradedAt # NoTime /\ feedSuccess = NoTime THEN NoTime ELSE feedSuccess

(* A partial BGBl feed failure that is newer than the success stamp makes   *)
(* the stamp unusable.                                                      *)
EffectiveBGBlFeedTime(feedSuccess, degradedAt) ==
    IF degradedAt # NoTime /\ (feedSuccess = NoTime \/ degradedAt > feedSuccess)
    THEN NoTime
    ELSE feedSuccess

(* Mutant: a probe counts as the feed.                                      *)
MutantProbeAsFeed(bgbl, eli, now) ==
    [at |-> IF TimestampFresh(bgbl, now) THEN bgbl
            ELSE IF TimestampFresh(eli, now) /\ eli > bgbl THEN eli ELSE NoTime,
     probeOnly |-> FALSE]

(* The BGBl evidence: the feed while it is fresh, else a newer ELI probe,   *)
(* marked as probe only, else nothing.                                      *)
BGBLEvidence(bgbl, eli, now) ==
    IF TimestampFresh(bgbl, now)
    THEN [at |-> bgbl, probeOnly |-> FALSE]
    ELSE IF TimestampFresh(eli, now) /\ eli > bgbl
         THEN [at |-> eli, probeOnly |-> TRUE]
         ELSE [at |-> NoTime, probeOnly |-> FALSE]

SyncWithinMaxAge(in) ==
    \A ts \in {in.toc, in.gii, in.bgbl} : TimestampFresh(ts, in.now)

-----------------------------------------------------------------------------
(* Order of citations (citation/parse.go:250-304).                          *)

IssueNum(number) == number[1]

Order(x, y) == IF x < y THEN "older" ELSE IF x > y THEN "newer" ELSE "equal"

Compare(a, b) ==
    IF \/ 0 \in {a.year, b.year, a.teil, b.teil}
       \/ a.teil # b.teil
    THEN "incomparable"
    ELSE IF a.year # b.year THEN Order(a.year, b.year)
    ELSE IF IssueNum(a.number) > 0 /\ IssueNum(b.number) > 0
         THEN Order(IssueNum(a.number), IssueNum(b.number))
    ELSE IF a.page # 0 /\ b.page # 0 THEN Order(a.page, b.page)
    ELSE "incomparable"

(* A gazette issue as the pseudo Stand it is compared as: it has no page.   *)
AsCitation(iss) ==
    [teil |-> iss.teil, year |-> iss.year, number |-> iss.number, page |-> 0]

(* eval.go:151-170.  An unparsed Stand reflects nothing; incomparable       *)
(* citations fall back to the two dates.                                    *)
IssueNewerThanStand(iss, stand) ==
    IF ~stand.parseOK
    THEN iss.year > 0 /\ iss.number # NoNumber
    ELSE LET cmp == Compare(stand, AsCitation(iss))
         IN  \/ cmp = "older"
             \/ /\ cmp = "incomparable"
                /\ stand.date # NoTime
                /\ iss.published # NoTime
                /\ iss.published > stand.date

-----------------------------------------------------------------------------
(* Instrument references (eval.go:266-343).                                 *)

StandReflectsRef(stand, ref) ==
    /\ stand.parseOK
    /\ <<stand.year, stand.teil, stand.number>> = <<ref.year, ref.teil, ref.number>>

HasIdentity(ref) == ref.year # 0 /\ (ref.number # NoNumber \/ ref.teil # 0)

SectionScopedBek(ref) == ref.kind = "BEK" /\ ref.section # NoSection

IsOperativeInstrumentRef(ref, hasSeeded) ==
    \/ ref.kind = "V"
    \/ SectionScopedBek(ref)
    \/ ref.kind = "" /\ hasSeeded

IsStaleRelevantInstrumentRef(ref) ==
    ref.kind \in {"G", "V"} \/ SectionScopedBek(ref)

SameIdentity(a, b) ==
    /\ a.year = b.year
    /\ a.number = b.number
    /\ (a.teil # 0 /\ b.teil # 0) => a.teil = b.teil

InstrumentIssueIsStaleRelevant(iss, refs) ==
    \E ref \in refs : SameIdentity(iss, ref) /\ IsStaleRelevantInstrumentRef(ref)

IsBareBekanntmachungIssue(iss) == iss.title = "bek"

RefIdentityEqual(a, b) ==
    SameIdentity(a, b) /\ a.kind = b.kind /\ a.section = b.section

(* The first resolution of the list that has the identity of ref.           *)
Matching(resolutions, ref) ==
    {i \in DOMAIN resolutions : RefIdentityEqual(resolutions[i].ref, ref)}

FindVRefResolution(resolutions, ref) ==
    resolutions[CHOOSE i \in Matching(resolutions, ref) :
                    \A j \in Matching(resolutions, ref) : i <= j]

(* An operative citation that the Stand does not already reflect has to be  *)
(* proved.                                                                  *)
NeedsProof(in, ref) ==
    /\ HasIdentity(ref)
    /\ ~StandReflectsRef(in.stand, ref)
    /\ IsOperativeInstrumentRef(ref, in.hasSeeded)

Found(in, ref) == Matching(in.resolutions, ref) # {}

Proved(res) == res.historical \/ (res.resolved /\ res.childConfirmed)

Unmatched(in, ref) ==
    /\ NeedsProof(in, ref)
    /\ \/ ~in.proofAware
       \/ ~Found(in, ref)
       \/ LET res == FindVRefResolution(in.resolutions, ref)
          IN  ~Proved(res) /\ res.slug = NoSlug

UnconfirmedChild(in, ref) ==
    /\ in.proofAware
    /\ NeedsProof(in, ref)
    /\ Found(in, ref)
    /\ LET res == FindVRefResolution(in.resolutions, ref)
       IN  ~Proved(res) /\ res.slug # NoSlug

-----------------------------------------------------------------------------
(* Evaluate (eval.go:33-133).                                               *)

(* The two sources of staleness: linked issues and cited instruments.       *)
NewerLinkedIssues(in) ==
    {iss \in in.linked : /\ ~IsBareBekanntmachungIssue(iss)
                         /\ IssueNewerThanStand(iss, in.stand)}

NewerInstrumentIssues(in) ==
    {iss \in in.instrIssues : /\ InstrumentIssueIsStaleRelevant(iss, in.refs)
                              /\ IssueNewerThanStand(iss, in.stand)}

NewerIssueIDs(in) ==
    {iss.id : iss \in NewerLinkedIssues(in) \cup NewerInstrumentIssues(in)}

(* in.classes maps the id of a linked issue to its link class.              *)
OnlyHeuristicLinks(in) ==
    LET classes == {in.classes[iss.id] : iss \in {x \in in.linked : x.id \in DOMAIN in.classes}}
    IN  "heuristic" \in classes /\ "confirmed" \notin classes

LowerConfidence(c) == IF c = "high" THEN "medium" ELSE "low"

FeedConfidence(in) == IF OnlyHeuristicLinks(in) THEN LowerConfidence("high") ELSE "high"

Verdict(state, confidence, rationale, newer) ==
    [state |-> state, confidence |-> confidence, rationale |-> rationale, newer |-> newer]

Evaluate(in) ==
    IF ~SyncWithinMaxAge(in)
    THEN Verdict("uncertain", "low", "sync data older than max age", {})
    ELSE IF in.probeOnly
    THEN Verdict("uncertain", "low", "bgbl_evidence_probe_only", {})
    ELSE IF in.linksReadFailed
    THEN Verdict("uncertain", "low", "links_read_failed", {})
    ELSE IF NewerIssueIDs(in) # {}
    THEN Verdict("confirmed_stale", FeedConfidence(in),
                 "newer gazette issue linked than reflected Stand", NewerIssueIDs(in))
    ELSE IF ~in.stand.parseOK
    THEN Verdict("uncertain", "low", "stand_unparsed_or_missing", {})
    ELSE IF \E ref \in in.refs : Unmatched(in, ref)
    THEN Verdict("uncertain", LowerConfidence("high"), "unresolved_linked_instrument_refs", {})
    ELSE IF \E ref \in in.refs : UnconfirmedChild(in, ref)
    THEN Verdict("uncertain", LowerConfidence("high"), "linked_child_not_confirmed", {})
    ELSE Verdict("confirmed_current", FeedConfidence(in),
                 "no newer linked gazette issue beyond Stand", {})

-----------------------------------------------------------------------------
(* CollectUnresolvedRefs (unresolved.go:15-73): the classification that     *)
(* operators read next to the rationale.  "" is a citation not listed.      *)

Classification(in, ref) ==
    IF ~HasIdentity(ref) \/ StandReflectsRef(in.stand, ref) THEN ""
    ELSE IF ref.kind = "BEK" /\ ~SectionScopedBek(ref) THEN "ignored_bare_bek"
    ELSE IF ref.kind = "" /\ ~in.hasSeeded THEN "missing_seed"
    ELSE IF ~IsOperativeInstrumentRef(ref, in.hasSeeded) THEN ""
    ELSE IF ~in.proofAware \/ ~Found(in, ref) THEN "unmatched"
    ELSE LET res == FindVRefResolution(in.resolutions, ref)
         IN  IF res.historical THEN "historical"
             ELSE IF res.resolved /\ res.childConfirmed THEN ""
             ELSE IF res.slug # NoSlug THEN "child_not_current"
             ELSE "unmatched"

CollectUnresolvedRefs(in) ==
    {[ref |-> ref, class |-> Classification(in, ref)] :
        ref \in {r \in in.refs : Classification(in, r) # ""}}

=============================================================================
