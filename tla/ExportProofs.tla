---------------------------- MODULE ExportProofs -----------------------------
(***************************************************************************)
(* Theorems about Export, for any laws, texts and citations, any number of *)
(* exports and rechecks at once, and any capacity of the cache.            *)
(***************************************************************************)
EXTENDS Export, FiniteSetTheorems, TLAPS

-----------------------------------------------------------------------------
(* Evaluate: the sources are fresh here, so that a law is stale exactly     *)
(* when an issue newer than its Stand is linked.                            *)

LEMMA EvaluateState ==
    ASSUME NEW in
    PROVE  Evaluate(in).state \in States
BY DEF Evaluate, Verdict, States

LEMMA NewerIsStale ==
    ASSUME NEW s \in Nat, NEW n \in Nat \ {0}
    PROVE  IssueNewerThanStand(GazetteIssue(n), StandCitation(s)) <=> n > s
<1> DEFINE iss == GazetteIssue(n)
           std == StandCitation(s)
<1>1. /\ iss.teil = 1 /\ iss.year = 1 /\ iss.number = <<n, 0>> /\ iss.published = NoTime
      /\ std.parseOK = (s # 0) /\ std.teil = 1 /\ std.year = 1 /\ std.number = <<s, 0>>
      /\ std.date = NoTime
  BY DEF GazetteIssue, StandCitation
<1> HIDE DEF iss, std
<1>2. CASE s = 0
  <2>1. iss.number # NoNumber
    BY <1>1 DEF NoNumber
  <2>2. IssueNewerThanStand(iss, std) <=> iss.year > 0 /\ iss.number # NoNumber
    BY <1>1, <1>2 DEF IssueNewerThanStand
  <2>3. QED
    BY <1>1, <1>2, <2>1, <2>2 DEF iss, std
<1>3. CASE s # 0
  <2>1. Compare(std, AsCitation(iss)) = Order(s, n)
    <3> DEFINE c == AsCitation(iss)
    <3>1. c.teil = 1 /\ c.year = 1 /\ c.number = <<n, 0>>
      BY <1>1 DEF AsCitation
    <3>2. IssueNum(std.number) = s /\ IssueNum(c.number) = n
      BY <1>1, <3>1 DEF IssueNum
    <3> HIDE DEF c
    <3>3. ~(0 \in {std.year, c.year, std.teil, c.teil} \/ std.teil # c.teil) /\ std.year = c.year
      BY <1>1, <3>1
    <3>4. IssueNum(std.number) > 0 /\ IssueNum(c.number) > 0
      BY <1>3, <3>2
    <3>5. Compare(std, c) = Order(IssueNum(std.number), IssueNum(c.number))
      BY <3>3, <3>4 DEF Compare
    <3>6. QED
      BY <3>2, <3>5 DEF c
  <2>2. IssueNewerThanStand(iss, std) <=> Order(s, n) = "older"
    BY <1>1, <1>3, <2>1 DEF IssueNewerThanStand, Order, NoTime
  <2>3. QED
    BY <2>2 DEF Order, iss, std
<1>4. QED
  BY <1>2, <1>3

LEMMA StaleIffNewer ==
    ASSUME NEW l, stands[l] \in Nat, linked[l] \in Nat
    PROVE  FreshnessFor(l) = "confirmed_stale" <=> linked[l] > stands[l]
<1> DEFINE in == EvalInput(l, Resolutions(l))
<1>1. /\ in.now = 1 /\ in.toc = 1 /\ in.gii = 1 /\ in.bgbl = 1
      /\ in.probeOnly = FALSE /\ in.linksReadFailed = FALSE
      /\ in.stand = StandCitation(stands[l])
      /\ in.linked = {GazetteIssue(n) : n \in {linked[l]} \ {0}} /\ in.instrIssues = {}
  BY DEF EvalInput
<1> HIDE DEF in
<1>2. SyncWithinMaxAge(in)
  BY <1>1, FreshnessAssumption DEF SyncWithinMaxAge, TimestampFresh, NoTime
<1>3. NewerIssueIDs(in) # {} <=> linked[l] > stands[l]
  <2>1. NewerInstrumentIssues(in) = {}
    BY <1>1 DEF NewerInstrumentIssues
  <2>2. NewerIssueIDs(in) # {} <=> NewerLinkedIssues(in) # {}
    BY <2>1 DEF NewerIssueIDs
  <2>3. CASE linked[l] = 0
    BY <1>1, <2>2, <2>3 DEF NewerLinkedIssues
  <2>4. CASE linked[l] # 0
    <3>1. in.linked = {GazetteIssue(linked[l])}
      BY <1>1, <2>4
    <3>2. ~IsBareBekanntmachungIssue(GazetteIssue(linked[l]))
      BY DEF IsBareBekanntmachungIssue, GazetteIssue
    <3>3. NewerLinkedIssues(in) # {}
            <=> IssueNewerThanStand(GazetteIssue(linked[l]), StandCitation(stands[l]))
      BY <1>1, <3>1, <3>2 DEF NewerLinkedIssues
    <3>4. QED
      BY <2>2, <2>4, <3>3, NewerIsStale
  <2>5. QED
    BY <2>3, <2>4
<1>4. Evaluate(in).state = "confirmed_stale" <=> NewerIssueIDs(in) # {}
  BY <1>1, <1>2 DEF Evaluate, Verdict
<1>5. QED
  BY <1>3, <1>4 DEF FreshnessFor, in

-----------------------------------------------------------------------------
(* Type correctness.  TypeOK is not inductive: a text is filed under the    *)
(* Stand and stored with the law that the request carries along since its   *)
(* evaluation.  RequestTypes and RecheckTypes say what they carry.          *)

Label == [text : Nat, stand : Nat, state : States, proved : BOOLEAN]
RequestPcs == {"idle", "bundleGate", "standXML", "writeStand", "reEvaluate", "gate",
               "fetch", "put", "persist", "final", "member", "done"}
Request == [pc : RequestPcs, bundle : BOOLEAN, root : Laws \cup {NoLaw}, law : Laws \cup {NoLaw},
            todo : SUBSET Slug, allow : BOOLEAN, state : States \cup {""}, stand : Numbers,
            xml : Nat, early : BOOLEAN, ir : [text : Nat, early : BOOLEAN],
            out : UNION {[S -> Label] : S \in SUBSET Laws},
            overdue : SUBSET Laws, otherText : BOOLEAN]
RecheckPcs == {"idle", "page", "xml", "upsert", "notes", "persist", "invalidate", "next"}
Recheck == [pc : RecheckPcs, law : Laws \cup {NoLaw}, todo : SUBSET Slug,
            number : Numbers, xml : Nat]

(* What a request knows of its law at each step.                            *)
Carries(req) ==
    /\ req.pc # "idle" => req.root \in Laws /\ req.law \in Laws
    /\ req.pc # "idle" => req.xml \in {0} \cup DOMAIN Versions[req.law]
    /\ req.pc \in {"writeStand", "put"} => req.xml # 0
    /\ req.pc \in {"persist", "final"} => req.ir.text \in DOMAIN Versions[req.law]
    /\ req.pc \notin {"idle", "done"} => req.law \notin req.todo
    /\ DOMAIN req.out \cap req.todo = {}

Rechecks(rec) ==
    /\ rec.pc # "idle" => rec.law \in Laws
    /\ rec.pc # "idle" => rec.xml \in {0} \cup DOMAIN Versions[rec.law]
    /\ rec.pc = "persist" => rec.xml # 0
    /\ rec.pc = "next" => rec.xml = 0

CacheTypes ==
    \A k \in DOMAIN cache :
        k \in Laws \X Numbers /\ cache[k] \in [text : DOMAIN Versions[k[1]], early : BOOLEAN]

TypeInv ==
    /\ version \in [Laws -> Nat] /\ \A l \in Laws : version[l] \in DOMAIN Versions[l]
    /\ linked \in [Laws -> Numbers]
    /\ stands \in [Laws -> Numbers]
    /\ editorial \in [Laws -> Nat] /\ \A l \in Laws : editorial[l] \in {0} \cup DOMAIN Versions[l]
    /\ CacheTypes
    /\ request \in [Exporters -> Request] /\ \A e \in Exporters : Carries(request[e])
    /\ recheck \in [Recheckers -> Recheck] /\ \A r \in Recheckers : Rechecks(recheck[r])

LEMMA NumbersAreNat == Numbers \subseteq Nat /\ 0 \in Numbers
<1>1. ASSUME NEW n \in UNION {ToSet(Versions[l]) : l \in Laws}
      PROVE  n \in Nat
  <2>1. PICK l \in Laws : n \in ToSet(Versions[l])
    OBVIOUS
  <2>2. Versions[l] \in Seq(Nat)
    BY SourcesAssumption
  <2>3. PICK i \in DOMAIN Versions[l] : n = Versions[l][i]
    BY <2>1 DEF ToSet
  <2>4. QED
    BY <2>2, <2>3
<1>2. {KnownStands[l] : l \in Laws} \subseteq Nat
  BY SourcesAssumption
<1>3. {a[2] : a \in Amendments} \subseteq Nat
  BY SourcesAssumption
<1>4. QED
  BY <1>1, <1>2, <1>3 DEF Numbers

(* Every law has a first text, and the Stand of a text is one of Numbers.   *)
LEMMA TextsOfLaws ==
    ASSUME NEW l \in Laws
    PROVE  /\ 1 \in DOMAIN Versions[l] /\ DOMAIN Versions[l] \subseteq Nat \ {0}
           /\ DOMAIN Versions[l] = 1..Len(Versions[l]) /\ Len(Versions[l]) \in Nat
           /\ \A i \in DOMAIN Versions[l] : Versions[l][i] \in Numbers
<1>1. Versions[l] \in Seq(Nat) /\ Len(Versions[l]) > 0
  BY SourcesAssumption
<1>2. ASSUME NEW i \in DOMAIN Versions[l]
      PROVE  Versions[l][i] \in Numbers
  <2>1. Versions[l][i] \in ToSet(Versions[l])
    BY DEF ToSet
  <2>2. QED
    BY <2>1 DEF Numbers
<1>3. QED
  BY <1>1, <1>2

LEMMA IdleTypes ==
    /\ IdleRequest \in Request /\ Carries(IdleRequest)
    /\ IdleRecheck \in Recheck /\ Rechecks(IdleRecheck)
<1>1. <<>> \in [{} -> Label]
  OBVIOUS
<1>2. IdleRequest.out = <<>> /\ IdleRequest.pc = "idle" /\ IdleRequest.todo = {}
  BY DEF IdleRequest
<1>3. IdleRequest \in Request
  BY <1>1, NumbersAreNat DEF IdleRequest, Request, RequestPcs, NoEntry
<1>4. Carries(IdleRequest)
  BY <1>2 DEF Carries
<1>5. IdleRecheck \in Recheck /\ Rechecks(IdleRecheck)
  BY NumbersAreNat DEF IdleRecheck, Recheck, RecheckPcs, Rechecks
<1>6. QED
  BY <1>3, <1>4, <1>5

LEMMA TypeInit == Init => TypeInv
<1> SUFFICES ASSUME Init PROVE TypeInv
  OBVIOUS
<1>1. version \in [Laws -> Nat] /\ \A l \in Laws : version[l] \in DOMAIN Versions[l]
  BY TextsOfLaws DEF Init
<1>2. stands \in [Laws -> Numbers]
  BY SourcesAssumption DEF Init, Numbers
<1>3. linked \in [Laws -> Numbers] /\ editorial \in [Laws -> Nat]
      /\ \A l \in Laws : editorial[l] \in {0} \cup DOMAIN Versions[l]
  BY NumbersAreNat DEF Init
<1>4. CacheTypes
  BY DEF Init, CacheTypes
<1>5. request \in [Exporters -> Request] /\ \A e \in Exporters : Carries(request[e])
  BY IdleTypes DEF Init
<1>6. recheck \in [Recheckers -> Recheck] /\ \A r \in Recheckers : Rechecks(recheck[r])
  BY IdleTypes DEF Init
<1>7. QED
  BY <1>1, <1>2, <1>3, <1>4, <1>5, <1>6 DEF TypeInv

(* Every evaluation ends in a state, and a request that is evaluated again  *)
(* carries nothing of a former law.                                         *)
LEMMA EvaluatedTypes ==
    ASSUME TypeInv, NEW req \in Request, NEW l \in Laws,
           NEW pc \in {"bundleGate", "standXML", "gate"},
           req.root \in Laws, l \notin req.todo, DOMAIN req.out \cap req.todo = {}
    PROVE  /\ Evaluated(req, l, pc) \in Request /\ Carries(Evaluated(req, l, pc))
<1> DEFINE new == Evaluated(req, l, pc)
<1>1. FreshnessFor(l) \in States /\ stands[l] \in Numbers
  BY EvaluateState DEF FreshnessFor, TypeInv
<1>2. new \in Request
  BY <1>1 DEF Evaluated, Request, RequestPcs, NoEntry
<1>3. /\ new.pc = pc /\ new.law = l /\ new.root = req.root /\ new.xml = 0
      /\ new.todo = req.todo /\ new.out = req.out
  BY DEF Evaluated, Request
<1>4. Carries(new)
  BY <1>3 DEF Carries
<1>5. QED
  BY <1>2, <1>4

(* What other requests notice of a Stand or of citations that are written.  *)
LEMMA NoticeTypes ==
    ASSUME NEW req \in Request, Carries(req), NEW l
    PROVE  /\ [req EXCEPT !.overdue = @ \ {l}] \in Request
           /\ Carries([req EXCEPT !.overdue = @ \ {l}])
           /\ [req EXCEPT !.otherText = TRUE] \in Request
           /\ Carries([req EXCEPT !.otherText = TRUE])
BY DEF Request, Carries

LEMMA AllNotice ==
    ASSUME NEW reqs \in [Exporters -> Request], \A e \in Exporters : Carries(reqs[e]), NEW l
    PROVE  /\ StandWritten(l, reqs) \in [Exporters -> Request]
           /\ \A e \in Exporters : Carries(StandWritten(l, reqs)[e])
BY NoticeTypes DEF StandWritten

LEMMA AllReplaced ==
    ASSUME TypeInv, NEW by, NEW l
    PROVE  /\ Replaced(by, l) \in [Exporters -> Request]
           /\ \A e \in Exporters : Carries(Replaced(by, l)[e])
<1>1. \A e \in Exporters : Replaced(by, l)[e] \in {request[e], [request[e] EXCEPT !.otherText = TRUE]}
  BY DEF Replaced
<1>2. \A e \in Exporters : request[e] \in Request /\ Carries(request[e])
  BY DEF TypeInv
<1>3. Replaced(by, l) = [e \in Exporters |-> Replaced(by, l)[e]]
  BY DEF Replaced
<1>4. \A e \in Exporters : Replaced(by, l)[e] \in Request /\ Carries(Replaced(by, l)[e])
  BY <1>1, <1>2, NoticeTypes
<1>5. QED
  BY <1>3, <1>4

LEMMA OneRequest ==
    ASSUME NEW reqs \in [Exporters -> Request], \A f \in Exporters : Carries(reqs[f]),
           NEW e \in Exporters, NEW new \in Request, Carries(new)
    PROVE  /\ [reqs EXCEPT ![e] = new] \in [Exporters -> Request]
           /\ \A f \in Exporters : Carries([reqs EXCEPT ![e] = new][f])
OBVIOUS

(* What is persisted is of a text of the law.                               *)
LEMMA PersistedTypes ==
    ASSUME TypeInv, NEW l \in Laws, NEW text \in DOMAIN Versions[l]
    PROVE  /\ Persisted(l, text) \in [Laws -> Nat]
           /\ \A k \in Laws : Persisted(l, text)[k] \in {0} \cup DOMAIN Versions[k]
<1>1. text \in Nat
  BY TextsOfLaws
<1>2. QED
  BY <1>1 DEF Persisted, TypeInv

(* Steps of an export that change nothing but the request.                  *)
LEMMA TypeRequestStep ==
    ASSUME TypeInv, NEW e \in Exporters,
           \/ PassBundleGate(e) \/ Refuse(e) \/ FetchForStand(e) \/ FetchForStandFails(e)
           \/ WriteStandFails(e) \/ ReEvaluate(e) \/ Lookup(e) \/ FetchText(e)
           \/ FetchTextFails(e) \/ PersistEditorialFails(e) \/ FinalEvaluation(e) \/ NextMember(e) \/ Answer(e)
    PROVE  /\ request' \in [Exporters -> Request]
           /\ \A f \in Exporters : Carries(request'[f])
<1> DEFINE req == request[e]
           Done == /\ request' \in [Exporters -> Request]
                   /\ \A f \in Exporters : Carries(request'[f])
<1>1. /\ req \in Request /\ Carries(req) /\ request \in [Exporters -> Request]
      /\ \A f \in Exporters : Carries(request[f])
  BY DEF TypeInv
<1>2. ASSUME NEW new \in Request, Carries(new), request' = [request EXCEPT ![e] = new]
      PROVE  Done
  BY <1>1, <1>2, OneRequest
<1>3. ASSUME req.pc # "idle" PROVE req.law \in Laws /\ req.root \in Laws
  BY <1>1, <1>3 DEF Carries
<1>4. CASE PassBundleGate(e)
  <2> DEFINE new == [req EXCEPT !.pc = StandFirst(req.stand)]
  <2>1. req.pc = "bundleGate" /\ request' = [request EXCEPT ![e] = new]
    BY <1>4 DEF PassBundleGate
  <2>2. new \in Request /\ Carries(new)
    BY <1>1, <2>1 DEF Request, RequestPcs, Carries, StandFirst
  <2>3. QED
    BY <1>2, <2>1, <2>2
<1>5. CASE Refuse(e) \/ FetchTextFails(e) \/ Answer(e)
  <2>1. request' = [request EXCEPT ![e] = IdleRequest]
    BY <1>5 DEF Refuse, FetchTextFails, Answer
  <2>2. QED
    BY <1>2, <2>1, IdleTypes
<1>6. CASE FetchForStand(e)
  <2> DEFINE new == [req EXCEPT !.xml = Served(req.law), !.early = TRUE,
                                !.pc = IF Versions[req.law][Served(req.law)] = 0 THEN "gate"
                                       ELSE "writeStand"]
  <2>1. req.pc = "standXML" /\ request' = [request EXCEPT ![e] = new]
    BY <1>6 DEF FetchForStand
  <2>2. Served(req.law) \in DOMAIN Versions[req.law] /\ Served(req.law) \in Nat \ {0}
    BY <1>3, <2>1, TextsOfLaws DEF TypeInv, Served
  <2>3. new \in Request
    BY <1>1, <2>2 DEF Request, RequestPcs
  <2>4. /\ new.pc \in {"gate", "writeStand"} /\ new.law = req.law /\ new.root = req.root
        /\ new.xml = Served(req.law) /\ new.todo = req.todo /\ new.out = req.out
    BY <1>1 DEF Request
  <2>5. Carries(new)
    BY <1>1, <2>1, <2>2, <2>4 DEF Carries
  <2>6. QED
    BY <1>2, <2>1, <2>3, <2>5
<1>7. CASE FetchForStandFails(e)
  <2> DEFINE new == [req EXCEPT !.pc = "gate"]
  <2>1. req.pc = "standXML" /\ request' = [request EXCEPT ![e] = new]
    BY <1>7 DEF FetchForStandFails
  <2>2. new \in Request /\ Carries(new)
    BY <1>1, <2>1 DEF Request, RequestPcs, Carries
  <2>3. QED
    BY <1>2, <2>1, <2>2
<1>8. CASE ReEvaluate(e)
  <2> DEFINE new == [req EXCEPT !.state = FreshnessFor(req.law), !.stand = stands[req.law],
                                !.pc = "gate"]
  <2>1. req.pc = "reEvaluate" /\ request' = [request EXCEPT ![e] = new]
    BY <1>8 DEF ReEvaluate
  <2>2. FreshnessFor(req.law) \in States /\ stands[req.law] \in Numbers
    BY <1>3, <2>1, EvaluateState DEF FreshnessFor, TypeInv
  <2>3. new \in Request /\ Carries(new)
    BY <1>1, <2>1, <2>2 DEF Request, RequestPcs, Carries
  <2>4. QED
    BY <1>2, <2>1, <2>3
<1>9. CASE Lookup(e)
  <2> DEFINE hit == [req EXCEPT !.ir = cache[Key(req)], !.pc = "persist"]
             miss == [req EXCEPT !.pc = IF req.xml = 0 THEN "fetch" ELSE "put"]
  <2>1. req.pc = "gate"
        /\ request' = [request EXCEPT ![e] = IF Key(req) \in DOMAIN cache THEN hit ELSE miss]
    BY <1>9 DEF Lookup
  <2>2. miss \in Request /\ Carries(miss)
    BY <1>1, <2>1 DEF Request, RequestPcs, Carries
  <2>3. ASSUME Key(req) \in DOMAIN cache
        PROVE  hit \in Request /\ Carries(hit)
    <3>1. cache[Key(req)] \in [text : DOMAIN Versions[req.law], early : BOOLEAN]
      BY <2>3 DEF TypeInv, CacheTypes, Key
    <3>2. cache[Key(req)] \in [text : Nat, early : BOOLEAN]
      BY <1>3, <2>1, <3>1, TextsOfLaws
    <3>3. QED
      BY <1>1, <2>1, <3>1, <3>2 DEF Request, RequestPcs, Carries
  <2>4. QED
    BY <1>2, <2>1, <2>2, <2>3
<1>10. CASE FetchText(e)
  <2> DEFINE new == [req EXCEPT !.xml = Served(req.law), !.pc = "put"]
  <2>1. req.pc = "fetch" /\ request' = [request EXCEPT ![e] = new]
    BY <1>10 DEF FetchText
  <2>2. Served(req.law) \in DOMAIN Versions[req.law] /\ Served(req.law) \in Nat \ {0}
    BY <1>3, <2>1, TextsOfLaws DEF TypeInv, Served
  <2>3. new \in Request /\ Carries(new)
    BY <1>1, <2>1, <2>2 DEF Request, RequestPcs, Carries
  <2>4. QED
    BY <1>2, <2>1, <2>3
<1>11. CASE FinalEvaluation(e)
  <2> DEFINE l == req.law
             labelled == [text |-> req.ir.text, stand |-> stands[l], state |-> FreshnessFor(l),
                          proved |-> req.otherText \/ Cites[l][req.ir.text] \subseteq Cited(l, editorial[l])]
             out == WithLabel(req.out, l, labelled)
             new == [IdleRequest EXCEPT !.root = req.root, !.bundle = req.bundle, !.law = l,
                                   !.todo = req.todo, !.allow = req.allow, !.overdue = req.overdue,
                                   !.out = out,
                                   !.pc = IF req.todo = {} THEN "done" ELSE "member"]
  <2>1. req.pc = "final" /\ request' = [request EXCEPT ![e] = new]
    BY <1>11 DEF FinalEvaluation
  <2>2. l \in Laws /\ req.root \in Laws
    BY <1>3, <2>1
  <2>3. labelled \in Label
    <3>1. req.ir.text \in Nat /\ req.otherText \in BOOLEAN
      BY <1>1 DEF Request
    <3>2. FreshnessFor(l) \in States /\ stands[l] \in Nat
      BY <2>2, EvaluateState, NumbersAreNat DEF FreshnessFor, TypeInv
    <3>3. QED
      BY <3>1, <3>2 DEF Label
  <2> HIDE DEF labelled
  <2>4. out \in UNION {[S -> Label] : S \in SUBSET Laws} /\ DOMAIN out = {l} \cup DOMAIN req.out
    <3>1. PICK S \in SUBSET Laws : req.out \in [S -> Label]
      BY <1>1 DEF Request
    <3>2. out \in [S \cup {l} -> Label] /\ DOMAIN out = S \cup {l}
      BY <2>3, <3>1 DEF WithLabel
    <3>3. QED
      BY <2>2, <3>1, <3>2
  <2> HIDE DEF out
  <2>5. new \in Request
    BY <1>1, <2>2, <2>4, IdleTypes DEF Request, RequestPcs
  <2>6. /\ new.pc \in {"done", "member"} /\ new.law = l /\ new.root = req.root
        /\ new.xml = 0 /\ new.todo = req.todo /\ new.out = out
    BY DEF IdleRequest
  <2>7. Carries(new)
    BY <1>1, <2>1, <2>2, <2>4, <2>6 DEF Carries
  <2>8. QED
    BY <1>2, <2>1, <2>5, <2>7
<1>12. CASE NextMember(e)
  <2>1. PICK m \in req.todo :
          request' = [request EXCEPT ![e] = Evaluated([req EXCEPT !.todo = @ \ {m}], m, "bundleGate")]
    BY <1>12 DEF NextMember
  <2>2. req.pc = "member"
    BY <1>12 DEF NextMember
  <2> DEFINE rest == [req EXCEPT !.todo = @ \ {m}]
  <2>3. rest \in Request /\ rest.todo = req.todo \ {m} /\ rest.out = req.out /\ rest.root = req.root
    BY <1>1 DEF Request
  <2>4. m \in Laws
    BY <1>1 DEF Request, Laws
  <2>5. DOMAIN rest.out \cap rest.todo = {} /\ m \notin rest.todo /\ rest.root \in Laws
    BY <1>1, <1>3, <2>2, <2>3 DEF Carries
  <2> HIDE DEF rest
  <2>6. Evaluated(rest, m, "bundleGate") \in Request /\ Carries(Evaluated(rest, m, "bundleGate"))
    BY <2>3, <2>4, <2>5, EvaluatedTypes
  <2>7. QED
    BY <1>2, <2>1, <2>6 DEF rest
<1>13. CASE WriteStandFails(e)
  <2> DEFINE new == [req EXCEPT !.pc = "reEvaluate"]
  <2>1. req.pc = "writeStand" /\ request' = [request EXCEPT ![e] = new]
    BY <1>13 DEF WriteStandFails
  <2>2. new \in Request /\ Carries(new)
    BY <1>1, <2>1 DEF Request, RequestPcs, Carries
  <2>3. QED
    BY <1>2, <2>1, <2>2
<1>14. CASE PersistEditorialFails(e)
  <2> DEFINE other == editorial[req.law] # req.ir.text
             new == [req EXCEPT !.otherText = other, !.pc = "final"]
  <2>1. req.pc = "persist" /\ request' = [request EXCEPT ![e] = new]
    BY <1>14 DEF PersistEditorialFails
  <2>2. other \in BOOLEAN
    OBVIOUS
  <2> HIDE DEF other
  <2>3. new \in Request
    BY <1>1, <2>2 DEF Request, RequestPcs
  <2>4. /\ new.pc = "final" /\ new.law = req.law /\ new.root = req.root /\ new.xml = req.xml
        /\ new.ir = req.ir /\ new.todo = req.todo /\ new.out = req.out
    BY <1>1 DEF Request
  <2>5. Carries(new)
    BY <1>1, <2>1, <2>4 DEF Carries
  <2>6. QED
    BY <1>2, <2>1, <2>3, <2>5
<1>15. QED
  BY <1>4, <1>5, <1>6, <1>7, <1>8, <1>9, <1>10, <1>11, <1>12, <1>13, <1>14

LEMMA TypeBegin ==
    ASSUME TypeInv, NEW e \in Exporters,
           \/ \E l \in Laws, allow \in BOOLEAN : BeginExport(e, l, allow)
           \/ \E p \in Parents, allow \in BOOLEAN : BeginBundle(e, p, allow)
    PROVE  /\ request' \in [Exporters -> Request]
           /\ \A f \in Exporters : Carries(request'[f])
<1>1. request \in [Exporters -> Request] /\ \A f \in Exporters : Carries(request[f])
  BY DEF TypeInv
<1>2. Overdue \subseteq Laws
  BY DEF Overdue
<1>3. CASE \E l \in Laws, allow \in BOOLEAN : BeginExport(e, l, allow)
  <2>1. PICK l \in Laws, allow \in BOOLEAN : BeginExport(e, l, allow)
    BY <1>3
  <2> DEFINE asked == [IdleRequest EXCEPT !.root = l, !.allow = allow, !.overdue = Overdue]
             new == Evaluated(asked, l, StandFirst(stands[l]))
  <2>2. asked \in Request
    BY <1>2, IdleTypes DEF Request
  <2>3. asked.root \in Laws /\ l \notin asked.todo /\ DOMAIN asked.out \cap asked.todo = {}
    BY DEF IdleRequest
  <2>4. StandFirst(stands[l]) \in {"bundleGate", "standXML", "gate"}
    BY DEF StandFirst
  <2>5. new \in Request /\ Carries(new)
    BY <2>2, <2>3, <2>4, EvaluatedTypes
  <2>6. request' = [request EXCEPT ![e] = new]
    BY <2>1 DEF BeginExport
  <2> HIDE DEF new
  <2>7. QED
    BY <1>1, <2>5, <2>6, OneRequest
<1>4. CASE \E p \in Parents, allow \in BOOLEAN : BeginBundle(e, p, allow)
  <2>1. PICK p \in Parents, allow \in BOOLEAN : BeginBundle(e, p, allow)
    BY <1>4
  <2> DEFINE asked == [IdleRequest EXCEPT !.bundle = TRUE, !.root = p, !.todo = Members[p],
                                          !.allow = allow, !.overdue = Overdue]
             new == Evaluated(asked, p, "bundleGate")
  <2>2. p \in Laws /\ Members[p] \subseteq Slug /\ p \notin Slug
    BY SourcesAssumption DEF Laws
  <2>3. asked \in Request
    BY <1>2, <2>2, IdleTypes DEF Request
  <2>4. asked.root \in Laws /\ p \notin asked.todo /\ DOMAIN asked.out \cap asked.todo = {}
    BY <2>2 DEF IdleRequest
  <2>5. new \in Request /\ Carries(new)
    BY <2>2, <2>3, <2>4, EvaluatedTypes
  <2>6. request' = [request EXCEPT ![e] = new]
    BY <2>1 DEF BeginBundle
  <2> HIDE DEF new
  <2>7. QED
    BY <1>1, <2>5, <2>6, OneRequest
<1>5. QED
  BY <1>3, <1>4

(* Steps of an export that write.                                           *)
LEMMA TypeExportWrites ==
    ASSUME TypeInv, NEW e \in Exporters,
           WriteStand(e) \/ PutIR(e) \/ PersistEditorial(e)
    PROVE  TypeInv'
<1> DEFINE req == request[e]
<1>1. /\ req \in Request /\ Carries(req) /\ request \in [Exporters -> Request]
      /\ \A f \in Exporters : Carries(request[f])
  BY DEF TypeInv
<1>2. req.pc # "idle" => req.law \in Laws /\ req.root \in Laws
  BY <1>1 DEF Carries
<1>3. CASE WriteStand(e)
  <2> DEFINE new == [req EXCEPT !.pc = "reEvaluate"]
  <2>1. /\ req.pc = "writeStand"
        /\ stands' = [stands EXCEPT ![req.law] = Versions[req.law][req.xml]]
        /\ request' = StandWritten(req.law, [request EXCEPT ![e] = new])
        /\ UNCHANGED <<version, linked, recheck, editorial, cache>>
    BY <1>3 DEF WriteStand, RequestOnly
  <2>2. new \in Request /\ Carries(new)
    BY <1>1, <2>1 DEF Request, RequestPcs, Carries
  <2> HIDE DEF new
  <2>3. request' \in [Exporters -> Request] /\ \A f \in Exporters : Carries(request'[f])
    BY <1>1, <2>1, <2>2, OneRequest, AllNotice
  <2>4. req.law \in Laws /\ req.xml \in DOMAIN Versions[req.law]
    BY <1>1, <1>2, <2>1 DEF Carries
  <2>5. Versions[req.law][req.xml] \in Numbers
    BY <2>4, TextsOfLaws
  <2>6. stands' \in [Laws -> Numbers]
    BY <2>1, <2>5 DEF TypeInv
  <2>7. QED
    BY <2>1, <2>3, <2>6 DEF TypeInv, CacheTypes
<1>4. CASE PutIR(e)
  <2> DEFINE ir == [text |-> req.xml, early |-> req.early]
             new == [req EXCEPT !.ir = ir, !.pc = "persist"]
  <2>1. /\ req.pc = "put" /\ cache' \in Put(cache, Key(req), ir)
        /\ request' = [request EXCEPT ![e] = new]
        /\ UNCHANGED <<version, linked, recheck, stands, editorial>>
    BY <1>4 DEF PutIR, RequestOnly
  <2>2. req.law \in Laws /\ req.xml \in DOMAIN Versions[req.law] /\ req.stand \in Numbers
    BY <1>1, <1>2, <2>1 DEF Carries, Request
  <2>3. req.xml \in Nat /\ req.early \in BOOLEAN
    BY <1>1 DEF Request
  <2>4. new \in Request /\ Carries(new)
    BY <1>1, <2>1, <2>2, <2>3 DEF Request, RequestPcs, Carries
  <2>5. ir \in [text : DOMAIN Versions[req.law], early : BOOLEAN]
    BY <2>2, <2>3
  <2> HIDE DEF ir, new
  <2>6. request' \in [Exporters -> Request] /\ \A f \in Exporters : Carries(request'[f])
    BY <1>1, <2>1, <2>4, OneRequest
  <2>7. PICK gone : cache' = [j \in (DOMAIN cache \ gone) \cup {Key(req)} |->
                                  IF j = Key(req) THEN ir ELSE cache[j]]
    BY <2>1 DEF Put
  <2>8. Key(req) \in Laws \X Numbers /\ Key(req)[1] = req.law
    BY <2>2 DEF Key
  <2>9. CacheTypes'
    BY <2>5, <2>7, <2>8 DEF TypeInv, CacheTypes
  <2>10. QED
    BY <2>1, <2>6, <2>9 DEF TypeInv
<1>5. CASE PersistEditorial(e)
  <2> DEFINE reqs == Replaced(e, req.law)
             new == [reqs[e] EXCEPT !.otherText = FALSE, !.pc = "final"]
  <2>1. /\ req.pc = "persist" /\ editorial' = Persisted(req.law, req.ir.text)
        /\ request' = [reqs EXCEPT ![e].otherText = FALSE, ![e].pc = "final"]
        /\ UNCHANGED <<version, linked, recheck, stands, cache>>
    BY <1>5 DEF PersistEditorial, RequestOnly
  <2>2. reqs \in [Exporters -> Request] /\ \A f \in Exporters : Carries(reqs[f])
    BY AllReplaced
  <2>3. reqs[e] = req
    BY DEF Replaced
  <2>4. request' = [reqs EXCEPT ![e] = new]
    BY <2>1, <2>2
  <2>5. new \in Request /\ Carries(new)
    BY <1>1, <2>1, <2>3 DEF Request, RequestPcs, Carries
  <2> HIDE DEF reqs, new
  <2>6. request' \in [Exporters -> Request] /\ \A f \in Exporters : Carries(request'[f])
    BY <2>2, <2>4, <2>5, OneRequest
  <2>7. req.law \in Laws /\ req.ir.text \in DOMAIN Versions[req.law]
    BY <1>1, <1>2, <2>1 DEF Carries
  <2>8. QED
    BY <2>1, <2>6, <2>7, PersistedTypes DEF TypeInv, CacheTypes
<1>6. QED
  BY <1>3, <1>4, <1>5

LEMMA OneRecheck ==
    ASSUME TypeInv, NEW r \in Recheckers, NEW new \in Recheck, Rechecks(new),
           recheck' = [recheck EXCEPT ![r] = new]
    PROVE  recheck' \in [Recheckers -> Recheck] /\ \A q \in Recheckers : Rechecks(recheck'[q])
BY DEF TypeInv

(* Steps of a recheck that change nothing but where it stands.              *)
LEMMA TypeRecheckStep ==
    ASSUME TypeInv, NEW r \in Recheckers,
           \/ \E l \in Laws : BeginRecheck(r, l)
           \/ FetchPage(r) \/ FetchPageFails(r) \/ FetchStandXML(r) \/ FetchStandXMLFails(r)
           \/ FetchNotes(r) \/ RecheckWriteFails(r) \/ NextLinked(r)
    PROVE  recheck' \in [Recheckers -> Recheck] /\ \A q \in Recheckers : Rechecks(recheck'[q])
<1> DEFINE rec == recheck[r]
           Done == recheck' \in [Recheckers -> Recheck] /\ \A q \in Recheckers : Rechecks(recheck'[q])
<1>1. rec \in Recheck /\ Rechecks(rec)
  BY DEF TypeInv
<1>2. ASSUME NEW new \in Recheck, Rechecks(new), recheck' = [recheck EXCEPT ![r] = new]
      PROVE  Done
  BY <1>2, OneRecheck
<1>3. ASSUME rec.pc # "idle"
      PROVE  /\ rec.law \in Laws
             /\ Served(rec.law) \in DOMAIN Versions[rec.law] /\ Served(rec.law) \in Nat \ {0}
             /\ Versions[rec.law][Served(rec.law)] \in Numbers
  BY <1>1, <1>3, TextsOfLaws DEF Rechecks, TypeInv, Served
<1>4. ASSUME NEW l \in Laws, BeginRecheck(r, l)
      PROVE  Done
  <2> DEFINE new == [IdleRecheck EXCEPT !.pc = "page", !.law = l, !.todo = Members[l]]
  <2>1. recheck' = [recheck EXCEPT ![r] = new]
    BY <1>4 DEF BeginRecheck
  <2>2. Members[l] \subseteq Slug
    BY SourcesAssumption
  <2>3. new \in Recheck /\ Rechecks(new)
    BY <2>2, NumbersAreNat DEF IdleRecheck, Recheck, RecheckPcs, Rechecks
  <2>4. QED
    BY <1>2, <2>1, <2>3
<1>5. CASE FetchPage(r)
  <2> DEFINE number == Versions[rec.law][Served(rec.law)]
             new == [rec EXCEPT !.number = number, !.pc = IF number = 0 THEN "xml" ELSE "upsert"]
  <2>1. rec.pc = "page" /\ recheck' = [recheck EXCEPT ![r] = new]
    BY <1>5 DEF FetchPage
  <2>2. new \in Recheck /\ Rechecks(new)
    BY <1>1, <1>3, <2>1 DEF Recheck, RecheckPcs, Rechecks
  <2>3. QED
    BY <1>2, <2>1, <2>2
<1>6. CASE FetchPageFails(r)
  <2> DEFINE new == [rec EXCEPT !.pc = "xml"]
  <2>1. rec.pc = "page" /\ recheck' = [recheck EXCEPT ![r] = new]
    BY <1>6 DEF FetchPageFails
  <2>2. new \in Recheck /\ Rechecks(new)
    BY <1>1, <2>1 DEF Recheck, RecheckPcs, Rechecks
  <2>3. QED
    BY <1>2, <2>1, <2>2
<1>7. CASE FetchStandXML(r)
  <2> DEFINE number == Versions[rec.law][Served(rec.law)]
             new == [rec EXCEPT !.number = number, !.xml = Served(rec.law),
                                !.pc = IF number = 0 THEN "persist" ELSE "upsert"]
  <2>1. rec.pc = "xml" /\ recheck' = [recheck EXCEPT ![r] = new]
    BY <1>7 DEF FetchStandXML
  <2>2. new \in Recheck /\ Rechecks(new)
    BY <1>1, <1>3, <2>1 DEF Recheck, RecheckPcs, Rechecks
  <2>3. QED
    BY <1>2, <2>1, <2>2
<1>8. CASE FetchStandXMLFails(r)
  <2> DEFINE new == [rec EXCEPT !.pc = "invalidate"]
  <2>1. /\ rec.pc = "xml"
        /\ \/ recheck' = [recheck EXCEPT ![r] = IdleRecheck]
           \/ recheck' = [recheck EXCEPT ![r] = new]
    BY <1>8 DEF FetchStandXMLFails
  <2>2. new \in Recheck /\ Rechecks(new)
    BY <1>1, <2>1 DEF Recheck, RecheckPcs, Rechecks
  <2>3. QED
    BY <1>2, <2>1, <2>2, IdleTypes
<1>9. CASE FetchNotes(r)
  <2> DEFINE new == [rec EXCEPT !.xml = Served(rec.law), !.pc = "persist"]
             none == [rec EXCEPT !.pc = "invalidate"]
  <2>1. /\ rec.pc = "notes"
        /\ \/ recheck' = [recheck EXCEPT ![r] = new]
           \/ recheck' = [recheck EXCEPT ![r] = none]
    BY <1>9 DEF FetchNotes
  <2>2. new \in Recheck /\ Rechecks(new)
    BY <1>1, <1>3, <2>1 DEF Recheck, RecheckPcs, Rechecks
  <2>3. none \in Recheck /\ Rechecks(none)
    BY <1>1, <2>1 DEF Recheck, RecheckPcs, Rechecks
  <2>4. QED
    BY <1>2, <2>1, <2>2, <2>3
<1>10. CASE NextLinked(r)
  <2>1. CASE recheck' = [recheck EXCEPT ![r] = IdleRecheck]
    BY <1>2, <2>1, IdleTypes
  <2>2. CASE \E m \in rec.todo :
                recheck' = [recheck EXCEPT ![r].law = m, ![r].todo = @ \ {m}, ![r].pc = "page"]
    <3>1. PICK m \in rec.todo :
             recheck' = [recheck EXCEPT ![r].law = m, ![r].todo = @ \ {m}, ![r].pc = "page"]
      BY <2>2
    <3> DEFINE new == [rec EXCEPT !.law = m, !.todo = @ \ {m}, !.pc = "page"]
    <3>2. recheck' = [recheck EXCEPT ![r] = new]
      BY <3>1
    <3>3. m \in Laws
      BY <1>1 DEF Recheck, Laws
    <3>4. rec.pc = "next"
      BY <1>10 DEF NextLinked
    <3>5. new \in Recheck /\ Rechecks(new)
      BY <1>1, <3>3, <3>4 DEF Recheck, RecheckPcs, Rechecks
    <3>6. QED
      BY <1>2, <3>2, <3>5
  <2>3. QED
    BY <1>10, <2>1, <2>2 DEF NextLinked
<1>11. CASE RecheckWriteFails(r)
  <2> DEFINE new == [rec EXCEPT !.pc = "invalidate"]
  <2>1. rec.pc \in {"upsert", "persist"} /\ recheck' = [recheck EXCEPT ![r] = new]
    BY <1>11 DEF RecheckWriteFails
  <2>2. new \in Recheck /\ Rechecks(new)
    BY <1>1, <2>1 DEF Recheck, RecheckPcs, Rechecks
  <2>3. QED
    BY <1>2, <2>1, <2>2
<1>12. QED
  BY <1>4, <1>5, <1>6, <1>7, <1>8, <1>9, <1>10, <1>11

(* Steps of a recheck that write.                                           *)
LEMMA TypeRecheckWrites ==
    ASSUME TypeInv, NEW r \in Recheckers,
           RecheckStand(r) \/ PersistNotes(r) \/ Invalidate(r)
    PROVE  TypeInv'
<1> DEFINE rec == recheck[r]
<1>1. rec \in Recheck /\ Rechecks(rec)
  BY DEF TypeInv
<1>2. rec.pc # "idle" => rec.law \in Laws
  BY <1>1 DEF Rechecks
<1>3. CASE RecheckStand(r)
  <2> DEFINE new == [rec EXCEPT !.pc = IF rec.xml = 0 THEN "notes" ELSE "persist"]
  <2>1. /\ rec.pc = "upsert" /\ stands' = [stands EXCEPT ![rec.law] = rec.number]
        /\ request' = StandWritten(rec.law, request) /\ recheck' = [recheck EXCEPT ![r] = new]
        /\ UNCHANGED <<version, linked, editorial, cache>>
    BY <1>3 DEF RecheckStand, RecheckOnly
  <2>2. new \in Recheck /\ Rechecks(new)
    BY <1>1, <2>1 DEF Recheck, RecheckPcs, Rechecks
  <2>3. recheck' \in [Recheckers -> Recheck] /\ \A q \in Recheckers : Rechecks(recheck'[q])
    BY <2>1, <2>2, OneRecheck
  <2>4. request' \in [Exporters -> Request] /\ \A f \in Exporters : Carries(request'[f])
    BY <2>1, AllNotice DEF TypeInv
  <2>5. stands' \in [Laws -> Numbers]
    BY <1>1, <2>1 DEF TypeInv, Recheck
  <2>6. QED
    BY <2>1, <2>3, <2>4, <2>5 DEF TypeInv, CacheTypes
<1>4. CASE PersistNotes(r)
  <2> DEFINE new == [rec EXCEPT !.pc = "invalidate"]
  <2>1. /\ rec.pc = "persist" /\ editorial' = Persisted(rec.law, rec.xml)
        /\ request' = Replaced(r, rec.law) /\ recheck' = [recheck EXCEPT ![r] = new]
        /\ UNCHANGED <<version, linked, stands, cache>>
    BY <1>4 DEF PersistNotes, RecheckOnly
  <2>2. new \in Recheck /\ Rechecks(new)
    BY <1>1, <2>1 DEF Recheck, RecheckPcs, Rechecks
  <2>3. recheck' \in [Recheckers -> Recheck] /\ \A q \in Recheckers : Rechecks(recheck'[q])
    BY <2>1, <2>2, OneRecheck
  <2>4. request' \in [Exporters -> Request] /\ \A f \in Exporters : Carries(request'[f])
    BY <2>1, AllReplaced
  <2>5. rec.law \in Laws /\ rec.xml \in DOMAIN Versions[rec.law]
    BY <1>1, <1>2, <2>1 DEF Rechecks
  <2>6. QED
    BY <2>1, <2>3, <2>4, <2>5, PersistedTypes DEF TypeInv, CacheTypes
<1>5. CASE Invalidate(r)
  <2> DEFINE new == [rec EXCEPT !.pc = "next", !.number = 0, !.xml = 0]
  <2>1. /\ rec.pc = "invalidate" /\ cache' = InvalidateLaw(cache, rec.law)
        /\ recheck' = [recheck EXCEPT ![r] = new]
        /\ UNCHANGED <<version, linked, stands, editorial, request>>
    BY <1>5 DEF Invalidate, RecheckOnly
  <2>2. new \in Recheck /\ Rechecks(new)
    BY <1>1, <2>1, NumbersAreNat DEF Recheck, RecheckPcs, Rechecks
  <2>3. recheck' \in [Recheckers -> Recheck] /\ \A q \in Recheckers : Rechecks(recheck'[q])
    BY <2>1, <2>2, OneRecheck
  <2>4. CacheTypes'
    BY <2>1 DEF TypeInv, CacheTypes, InvalidateLaw
  <2>5. QED
    BY <2>1, <2>3, <2>4 DEF TypeInv
<1>6. QED
  BY <1>3, <1>4, <1>5

(* The steps by what they write.                                            *)
RequestSteps(e) ==
    \/ PassBundleGate(e) \/ Refuse(e) \/ FetchForStand(e) \/ FetchForStandFails(e)
    \/ WriteStandFails(e) \/ ReEvaluate(e) \/ Lookup(e) \/ FetchText(e) \/ FetchTextFails(e)
    \/ PersistEditorialFails(e) \/ FinalEvaluation(e) \/ NextMember(e) \/ Answer(e)
BeginSteps(e) ==
    \/ \E l \in Laws, allow \in BOOLEAN : BeginExport(e, l, allow)
    \/ \E p \in Parents, allow \in BOOLEAN : BeginBundle(e, p, allow)
RecheckSteps(r) ==
    \/ \E l \in Laws : BeginRecheck(r, l)
    \/ FetchPage(r) \/ FetchPageFails(r) \/ FetchStandXML(r) \/ FetchStandXMLFails(r)
    \/ FetchNotes(r) \/ RecheckWriteFails(r) \/ NextLinked(r)

LEMMA StepsOfNext ==
    ASSUME Next
    PROVE  \/ \E l \in Laws : PublishText(l)
           \/ \E l \in Laws, n \in Numbers : Amend(l, n)
           \/ \E e \in Exporters : BeginSteps(e)
           \/ \E e \in Exporters : RequestSteps(e)
           \/ \E e \in Exporters : WriteStand(e)
           \/ \E e \in Exporters : PutIR(e)
           \/ \E e \in Exporters : PersistEditorial(e)
           \/ \E r \in Recheckers : RecheckSteps(r)
           \/ \E r \in Recheckers : RecheckStand(r)
           \/ \E r \in Recheckers : PersistNotes(r)
           \/ \E r \in Recheckers : Invalidate(r)
BY DEF Next, ExportStep, RecheckStep, BeginSteps, RequestSteps, RecheckSteps

LEMMA RequestOnlySteps ==
    ASSUME NEW e \in Exporters, BeginSteps(e) \/ RequestSteps(e)
    PROVE  UNCHANGED <<version, linked, stands, editorial, cache, recheck>>
BY DEF BeginSteps, RequestSteps, BeginExport, BeginBundle, PassBundleGate, Refuse, FetchForStand,
       FetchForStandFails, WriteStandFails, ReEvaluate, Lookup, FetchText, FetchTextFails,
       PersistEditorialFails, FinalEvaluation, NextMember, Answer, RequestOnly

LEMMA RecheckOnlySteps ==
    ASSUME NEW r \in Recheckers, RecheckSteps(r)
    PROVE  UNCHANGED <<version, linked, stands, editorial, cache, request>>
BY DEF RecheckSteps, BeginRecheck, FetchPage, FetchPageFails, FetchStandXML, FetchStandXMLFails,
       FetchNotes, RecheckWriteFails, NextLinked, RecheckOnly

LEMMA TypeStep == TypeInv /\ [Next]_vars => TypeInv'
<1> SUFFICES ASSUME TypeInv, [Next]_vars PROVE TypeInv'
  OBVIOUS
<1>1. CASE UNCHANGED vars
  BY <1>1 DEF TypeInv, CacheTypes, vars
<1>2. ASSUME NEW l \in Laws, PublishText(l) PROVE TypeInv'
  <2>1. version[l] + 1 \in DOMAIN Versions[l]
    BY <1>2, TextsOfLaws DEF PublishText, TypeInv
  <2>2. version' = [version EXCEPT ![l] = @ + 1]
        /\ UNCHANGED <<linked, stands, editorial, cache, request, recheck>>
    BY <1>2 DEF PublishText
  <2>3. version' \in [Laws -> Nat] /\ \A k \in Laws : version'[k] \in DOMAIN Versions[k]
    BY <2>1, <2>2 DEF TypeInv
  <2>4. QED
    BY <2>2, <2>3 DEF TypeInv, CacheTypes
<1>3. ASSUME NEW l \in Laws, NEW n \in Numbers, Amend(l, n) PROVE TypeInv'
  BY <1>3 DEF Amend, TypeInv, CacheTypes
<1>4. ASSUME NEW e \in Exporters, BeginSteps(e) PROVE TypeInv'
  <2>1. request' \in [Exporters -> Request] /\ \A f \in Exporters : Carries(request'[f])
    BY <1>4, TypeBegin DEF BeginSteps
  <2>2. QED
    BY <1>4, <2>1, RequestOnlySteps DEF TypeInv, CacheTypes
<1>5. ASSUME NEW e \in Exporters, RequestSteps(e) PROVE TypeInv'
  <2>1. request' \in [Exporters -> Request] /\ \A f \in Exporters : Carries(request'[f])
    BY <1>5, TypeRequestStep DEF RequestSteps
  <2>2. QED
    BY <1>5, <2>1, RequestOnlySteps DEF TypeInv, CacheTypes
<1>6. ASSUME NEW r \in Recheckers, RecheckSteps(r) PROVE TypeInv'
  <2>1. recheck' \in [Recheckers -> Recheck] /\ \A q \in Recheckers : Rechecks(recheck'[q])
    BY <1>6, TypeRecheckStep DEF RecheckSteps
  <2>2. QED
    BY <1>6, <2>1, RecheckOnlySteps DEF TypeInv, CacheTypes
<1>7. QED
  BY <1>1, <1>2, <1>3, <1>4, <1>5, <1>6, StepsOfNext, TypeExportWrites, TypeRecheckWrites

LEMMA TypeHolds == Spec => []TypeInv
<1>1. Init => TypeInv
  BY TypeInit
<1>2. TypeInv /\ [Next]_vars => TypeInv'
  BY TypeStep
<1>3. QED
  BY <1>1, <1>2, PTL DEF Spec

(* Requests, rechecks, the store and the cache hold what they should, and   *)
(* no law of a bundle is exported twice: what is done is not left to do.    *)
THEOREM TypeCorrect == Spec => []TypeOK
<1>1. TypeInv => TypeOK
  <2> SUFFICES ASSUME TypeInv PROVE TypeOK
    OBVIOUS
  <2>1. \A e \in Exporters : request[e] \in Request /\ Carries(request[e])
    BY DEF TypeInv
  <2>2. \A r \in Recheckers : recheck[r] \in Recheck /\ Rechecks(recheck[r])
    BY DEF TypeInv
  <2>3. ASSUME NEW e \in Exporters
        PROVE  /\ request[e].pc \in RequestPcs
               /\ request[e].pc # "idle" => request[e].root \in Laws /\ request[e].law \in Laws
               /\ request[e].pc \in {"writeStand", "put"} =>
                     request[e].xml \in DOMAIN Versions[request[e].law]
               /\ DOMAIN request[e].out \cap request[e].todo = {}
    BY <2>1 DEF Request, Carries
  <2>4. ASSUME NEW r \in Recheckers
        PROVE  recheck[r].pc \in RecheckPcs /\ (recheck[r].pc # "idle" => recheck[r].law \in Laws)
    BY <2>2 DEF Recheck, Rechecks
  <2>5. \A k \in DOMAIN cache : k \in Laws \X Numbers /\ cache[k].text \in DOMAIN Versions[k[1]]
    BY DEF TypeInv, CacheTypes
  <2>6. QED
    BY <2>3, <2>4, <2>5 DEF TypeInv, TypeOK, RequestPcs, RecheckPcs
<1>2. QED
  BY <1>1, TypeHolds, PTL

-----------------------------------------------------------------------------
(* The bound of the cache: an eviction makes room for one entry at least.   *)

Bounded == IsFiniteSet(DOMAIN cache) /\ CacheBounded

LEMMA PutIsBounded ==
    ASSUME Bounded, NEW k, NEW ir, NEW new \in Put(cache, k, ir)
    PROVE  IsFiniteSet(DOMAIN new) /\ Cardinality(DOMAIN new) <= CacheMax
<1> DEFINE D == DOMAIN cache
<1>1. IsFiniteSet(D) /\ Cardinality(D) \in Nat /\ Cardinality(D) <= CacheMax
  BY FS_CardinalityType DEF Bounded, CacheBounded
<1>2. CacheMax \in Nat \ {0} /\ Evicted \in Nat /\ Evicted >= 1
  BY BoundAssumption DEF Evicted
<1>3. PICK gone : /\ DOMAIN new = (D \ gone) \cup {k}
                  /\ \/ Cardinality(D) < CacheMax /\ gone = {}
                     \/ gone \in SUBSET D /\ Cardinality(gone) = Evicted
  BY DEF Put
<1> HIDE DEF D
<1>4. /\ IsFiniteSet(D \ gone)
      /\ Cardinality(D \ gone) = Cardinality(D) - Cardinality(D \cap gone)
      /\ Cardinality(D \ gone) \in Nat
  BY <1>1, FS_Difference, FS_CardinalityType
<1>5. Cardinality(D \ gone) < CacheMax
  <2>1. CASE Cardinality(D) < CacheMax /\ gone = {}
    <3>1. D \ gone = D
      BY <2>1
    <3>2. QED
      BY <2>1, <3>1
  <2>2. CASE gone \in SUBSET D /\ Cardinality(gone) = Evicted
    <3>1. D \cap gone = gone
      BY <2>2
    <3>2. QED
      BY <1>1, <1>2, <1>4, <2>2, <3>1
  <2>3. QED
    BY <1>3, <2>1, <2>2
<1>6. /\ IsFiniteSet((D \ gone) \cup {k})
      /\ Cardinality((D \ gone) \cup {k}) <= Cardinality(D \ gone) + 1
  <2> DEFINE S == D \ gone
  <2>1. IsFiniteSet(S) /\ Cardinality(S) \in Nat
    BY <1>4
  <2> HIDE DEF S
  <2>2. /\ IsFiniteSet(S \cup {k})
        /\ Cardinality(S \cup {k}) = IF k \in S THEN Cardinality(S) ELSE Cardinality(S) + 1
    BY <2>1, FS_AddElement
  <2>3. IsFiniteSet(S \cup {k}) /\ Cardinality(S \cup {k}) <= Cardinality(S) + 1
    BY <2>1, <2>2
  <2>4. QED
    BY <2>3 DEF S
<1>7. Cardinality((D \ gone) \cup {k}) \in Nat
  BY <1>6, FS_CardinalityType
<1>8. QED
  BY <1>2, <1>3, <1>4, <1>5, <1>6, <1>7

(* The steps that do not touch the cache.                                   *)
LEMMA CacheSteps ==
    ASSUME [Next]_vars
    PROVE  \/ UNCHANGED cache
           \/ \E e \in Exporters : PutIR(e)
           \/ \E r \in Recheckers : Invalidate(r)
<1>1. CASE UNCHANGED vars
  BY <1>1 DEF vars
<1>2. ASSUME NEW e \in Exporters, BeginSteps(e) \/ RequestSteps(e) PROVE UNCHANGED cache
  BY <1>2, RequestOnlySteps
<1>3. ASSUME NEW r \in Recheckers, RecheckSteps(r) PROVE UNCHANGED cache
  BY <1>3, RecheckOnlySteps
<1>4. ASSUME NEW l \in Laws, PublishText(l) PROVE UNCHANGED cache
  BY <1>4 DEF PublishText
<1>5. ASSUME NEW l \in Laws, NEW n \in Numbers, Amend(l, n) PROVE UNCHANGED cache
  BY <1>5 DEF Amend
<1>6. ASSUME NEW e \in Exporters, WriteStand(e) PROVE UNCHANGED cache
  BY <1>6 DEF WriteStand
<1>7. ASSUME NEW e \in Exporters, PersistEditorial(e) PROVE UNCHANGED cache
  BY <1>7 DEF PersistEditorial
<1>8. ASSUME NEW r \in Recheckers, RecheckStand(r) PROVE UNCHANGED cache
  BY <1>8 DEF RecheckStand
<1>9. ASSUME NEW r \in Recheckers, PersistNotes(r) PROVE UNCHANGED cache
  BY <1>9 DEF PersistNotes
<1>10. QED
  BY <1>1, <1>2, <1>3, <1>4, <1>5, <1>6, <1>7, <1>8, <1>9, StepsOfNext

(* The cache stays within its capacity, whatever it is.                     *)
THEOREM CacheStaysBounded == Spec => []CacheBounded
<1>1. Init => Bounded
  <2>1. ASSUME Init PROVE DOMAIN cache = {} /\ CacheMax \in Nat \ {0}
    BY <2>1, BoundAssumption DEF Init
  <2>2. QED
    BY <2>1, FS_EmptySet DEF Bounded, CacheBounded
<1>2. Bounded /\ [Next]_vars => Bounded'
  <2> SUFFICES ASSUME Bounded, [Next]_vars PROVE Bounded'
    OBVIOUS
  <2>1. CASE UNCHANGED cache
    BY <2>1 DEF Bounded, CacheBounded
  <2>2. ASSUME NEW e \in Exporters, PutIR(e) PROVE Bounded'
    <3>1. PICK k, ir : cache' \in Put(cache, k, ir)
      BY <2>2 DEF PutIR
    <3>2. QED
      BY <3>1, PutIsBounded DEF Bounded, CacheBounded
  <2>3. ASSUME NEW r \in Recheckers, Invalidate(r) PROVE Bounded'
    <3>1. DOMAIN cache' \in SUBSET DOMAIN cache
      BY <2>3 DEF Invalidate, InvalidateLaw
    <3>2. IsFiniteSet(DOMAIN cache') /\ Cardinality(DOMAIN cache') <= Cardinality(DOMAIN cache)
      BY <3>1, FS_Subset DEF Bounded
    <3>3. /\ Cardinality(DOMAIN cache) \in Nat /\ Cardinality(DOMAIN cache') \in Nat
          /\ CacheMax \in Nat
      BY <3>2, FS_CardinalityType, BoundAssumption DEF Bounded
    <3>4. QED
      BY <3>2, <3>3 DEF Bounded, CacheBounded
  <2>4. QED
    BY <2>1, <2>2, <2>3, CacheSteps
<1>3. Bounded => CacheBounded
  BY DEF Bounded
<1>4. QED
  BY <1>1, <1>2, <1>3, PTL DEF Spec

-----------------------------------------------------------------------------
(* The age of cached texts.                                                 *)

Current(l) == Number(l, version[l])

(* No Stand, in the store or on its way there, is newer than the text that  *)
(* is served now, so that the text that is fetched next is not older.  A    *)
(* text that a request brings to Put is not older than its Stand, unless it *)
(* was fetched for its standangabe.                                         *)
RequestAge(req) ==
    /\ req.pc # "idle" => req.stand <= Current(req.law) /\ req.xml <= version[req.law]
    /\ req.pc \in {"bundleGate", "standXML", "writeStand", "reEvaluate", "gate"} =>
          (req.xml # 0 => req.early)
    /\ req.pc = "put" /\ ~req.early => Number(req.law, req.xml) >= req.stand
RecheckAge(rec) == rec.pc = "upsert" => rec.number <= Current(rec.law)

AgeInv ==
    /\ \A l \in Laws : stands[l] <= Current(l)
    /\ \A e \in Exporters : RequestAge(request[e])
    /\ \A r \in Recheckers : RecheckAge(recheck[r])
    /\ CacheNotOlder

LEMMA CurrentIsNat ==
    ASSUME TypeInv, NEW l \in Laws
    PROVE  /\ Current(l) \in Nat /\ version[l] \in Nat \ {0} /\ stands[l] \in Nat
           /\ \A i \in DOMAIN Versions[l] : Number(l, i) \in Nat
<1>1. version[l] \in DOMAIN Versions[l] /\ stands[l] \in Numbers
  BY DEF TypeInv
<1>2. QED
  BY <1>1, TextsOfLaws, NumbersAreNat DEF Current, Number

(* The steps of one request leave the others alone.                         *)
LEMMA OthersStay ==
    ASSUME TypeInv, NEW e \in Exporters, BeginSteps(e) \/ RequestSteps(e),
           NEW f \in Exporters, f # e
    PROVE  request'[f] = request[f]
<1>1. \E new : request' = [request EXCEPT ![e] = new]
  <2>1. CASE PassBundleGate(e)
    BY <2>1 DEF PassBundleGate
  <2>2. CASE Refuse(e) \/ FetchTextFails(e) \/ Answer(e)
    BY <2>2 DEF Refuse, FetchTextFails, Answer
  <2>3. CASE FetchForStand(e) \/ FetchForStandFails(e)
    BY <2>3 DEF FetchForStand, FetchForStandFails
  <2>4. CASE WriteStandFails(e) \/ ReEvaluate(e) \/ Lookup(e) \/ FetchText(e)
    BY <2>4 DEF WriteStandFails, ReEvaluate, Lookup, FetchText
  <2>5. CASE FinalEvaluation(e) \/ NextMember(e)
    BY <2>5 DEF FinalEvaluation, NextMember
  <2>6. CASE BeginSteps(e)
    BY <2>6 DEF BeginSteps, BeginExport, BeginBundle
  <2>7. CASE PersistEditorialFails(e)
    BY <2>7 DEF PersistEditorialFails
  <2>8. QED
    BY <2>1, <2>2, <2>3, <2>4, <2>5, <2>6, <2>7 DEF RequestSteps
<1>2. QED
  BY <1>1 DEF TypeInv

(* A request begins with an evaluation and nothing exported.                *)
LEMMA BeginForm ==
    ASSUME TypeInv, NEW e \in Exporters, BeginSteps(e)
    PROVE  \E asked \in Request, l \in Laws, pc \in {"bundleGate", "standXML", "gate"} :
              /\ asked.overdue = Overdue /\ asked.out = <<>>
              /\ request'[e] = Evaluated(asked, l, pc)
<1>1. DOMAIN request = Exporters /\ Overdue \subseteq Laws
  BY DEF TypeInv, Overdue
<1>2. ASSUME NEW l \in Laws, NEW allow \in BOOLEAN, BeginExport(e, l, allow)
      PROVE  \E asked \in Request, pc \in {"bundleGate", "standXML", "gate"} :
                /\ asked.overdue = Overdue /\ asked.out = <<>>
                /\ request'[e] = Evaluated(asked, l, pc)
  <2> DEFINE asked == [IdleRequest EXCEPT !.root = l, !.allow = allow, !.overdue = Overdue]
  <2>1. asked \in Request
    BY <1>1, IdleTypes DEF Request
  <2>2. asked.overdue = Overdue /\ asked.out = <<>>
    BY DEF IdleRequest
  <2>3. StandFirst(stands[l]) \in {"standXML", "gate"}
    BY DEF StandFirst
  <2>4. request'[e] = Evaluated(asked, l, StandFirst(stands[l]))
    BY <1>1, <1>2 DEF BeginExport
  <2> HIDE DEF asked
  <2>5. QED
    BY <2>1, <2>2, <2>3, <2>4
<1>3. ASSUME NEW p \in Parents, NEW allow \in BOOLEAN, BeginBundle(e, p, allow)
      PROVE  \E asked \in Request :
                /\ asked.overdue = Overdue /\ asked.out = <<>>
                /\ request'[e] = Evaluated(asked, p, "bundleGate")
  <2> DEFINE asked == [IdleRequest EXCEPT !.bundle = TRUE, !.root = p, !.todo = Members[p],
                                          !.allow = allow, !.overdue = Overdue]
  <2>1. p \in Laws /\ Members[p] \subseteq Slug
    BY SourcesAssumption DEF Laws
  <2>2. asked \in Request
    BY <1>1, <2>1, IdleTypes DEF Request
  <2>3. asked.overdue = Overdue /\ asked.out = <<>>
    BY DEF IdleRequest
  <2>4. request'[e] = Evaluated(asked, p, "bundleGate")
    BY <1>1, <1>3 DEF BeginBundle
  <2> HIDE DEF asked
  <2>5. QED
    BY <2>2, <2>3, <2>4
<1>4. Parents \subseteq Laws
  BY DEF Laws
<1>5. QED
  <2>1. CASE \E l \in Laws, allow \in BOOLEAN : BeginExport(e, l, allow)
    BY <1>2, <2>1
  <2>2. CASE \E p \in Parents, allow \in BOOLEAN : BeginBundle(e, p, allow)
    <3>1. PICK p \in Parents, allow \in BOOLEAN : BeginBundle(e, p, allow)
      BY <2>2
    <3>2. p \in Laws
      BY <1>4
    <3>3. QED
      BY <1>3, <3>1, <3>2
  <2>3. QED
    BY <2>1, <2>2 DEF BeginSteps

LEMMA AgeRequestStep ==
    ASSUME TextsOnlyGrow, TypeInv, AgeInv, NEW e \in Exporters, BeginSteps(e) \/ RequestSteps(e)
    PROVE  RequestAge(request'[e])
<1> DEFINE req == request[e]
           new == request'[e]
<1>1. req \in Request /\ Carries(req) /\ RequestAge(req) /\ DOMAIN request = Exporters
  BY DEF TypeInv, AgeInv
<1>2. ASSUME NEW r \in Request, NEW l \in Laws, NEW pc \in {"bundleGate", "standXML", "gate"}
      PROVE  RequestAge(Evaluated(r, l, pc))
  <2>1. stands[l] <= Current(l) /\ version[l] \in Nat
    BY CurrentIsNat DEF AgeInv
  <2>2. LET ev == Evaluated(r, l, pc)
        IN  ev.law = l /\ ev.stand = stands[l] /\ ev.xml = 0 /\ ev.pc = pc
    BY DEF Evaluated, Request
  <2>3. QED
    BY <2>1, <2>2 DEF RequestAge
<1>3. req.pc # "idle" =>
         /\ Served(req.law) = version[req.law] /\ Served(req.law) \in Nat \ {0}
         /\ stands[req.law] <= Current(req.law)
         /\ Current(req.law) = Number(req.law, Served(req.law)) /\ Current(req.law) \in Nat
  BY <1>1, CurrentIsNat DEF Carries, Served, Current, AgeInv
<1>4. CASE PassBundleGate(e) \/ FetchForStandFails(e)
  <2>1. \E pc \in {"standXML", "gate"} : new = [req EXCEPT !.pc = pc]
    BY <1>1, <1>4 DEF PassBundleGate, FetchForStandFails, StandFirst
  <2>2. req.pc \in {"bundleGate", "standXML"}
    BY <1>4 DEF PassBundleGate, FetchForStandFails
  <2>3. /\ new.pc \in {"standXML", "gate"} /\ new.law = req.law
        /\ new.stand = req.stand /\ new.xml = req.xml /\ new.early = req.early
    BY <1>1, <2>1 DEF Request
  <2>4. QED
    BY <1>1, <2>2, <2>3 DEF RequestAge
<1>5. CASE Refuse(e) \/ FetchTextFails(e) \/ Answer(e)
  <2>1. new = IdleRequest
    BY <1>1, <1>5 DEF Refuse, FetchTextFails, Answer
  <2>2. IdleRequest.pc = "idle"
    BY DEF IdleRequest
  <2>3. QED
    BY <2>1, <2>2 DEF RequestAge
<1>6. CASE FetchForStand(e)
  <2>1. /\ req.pc = "standXML" /\ new.pc \in {"gate", "writeStand"} /\ new.law = req.law
        /\ new.stand = req.stand /\ new.xml = Served(req.law) /\ new.early
    BY <1>1, <1>6 DEF FetchForStand, Request
  <2>2. QED
    BY <1>1, <1>3, <2>1 DEF RequestAge
<1>7. CASE ReEvaluate(e)
  <2>1. /\ req.pc = "reEvaluate" /\ new.pc = "gate" /\ new.law = req.law
        /\ new.stand = stands[req.law] /\ new.xml = req.xml /\ new.early = req.early
    BY <1>1, <1>7 DEF ReEvaluate, Request
  <2>2. QED
    BY <1>1, <1>3, <2>1 DEF RequestAge
<1>8. CASE Lookup(e)
  <2>1. /\ req.pc = "gate" /\ new.law = req.law /\ new.stand = req.stand
        /\ new.xml = req.xml /\ new.early = req.early
        /\ new.pc \in {"persist", "fetch", "put"} /\ (new.pc = "put" => req.xml # 0)
    BY <1>1, <1>8 DEF Lookup, Request
  <2>2. QED
    BY <1>1, <2>1 DEF RequestAge
<1>9. CASE FetchText(e)
  <2>1. /\ req.pc = "fetch" /\ new.pc = "put" /\ new.law = req.law
        /\ new.stand = req.stand /\ new.xml = Served(req.law)
    BY <1>1, <1>9 DEF FetchText, Request
  <2>2. QED
    BY <1>1, <1>3, <2>1 DEF RequestAge
<1>10. CASE FinalEvaluation(e)
  <2>1. /\ req.pc = "final" /\ new.pc \in {"done", "member"} /\ new.law = req.law
        /\ new.stand = 0 /\ new.xml = 0
    BY <1>1, <1>10 DEF FinalEvaluation, IdleRequest
  <2>2. QED
    BY <1>1, <1>3, <2>1 DEF RequestAge
<1>11. CASE NextMember(e)
  <2>1. PICK m \in req.todo : new = Evaluated([req EXCEPT !.todo = @ \ {m}], m, "bundleGate")
    BY <1>1, <1>11 DEF NextMember
  <2>2. m \in Laws /\ [req EXCEPT !.todo = @ \ {m}] \in Request
    BY <1>1 DEF Request, Laws
  <2>3. QED
    BY <1>2, <2>1, <2>2
<1>12. CASE BeginSteps(e)
  BY <1>2, <1>12, BeginForm
<1>13. CASE WriteStandFails(e)
  <2>1. /\ req.pc = "writeStand" /\ new.pc = "reEvaluate" /\ new.law = req.law
        /\ new.stand = req.stand /\ new.xml = req.xml /\ new.early = req.early
    BY <1>1, <1>13 DEF WriteStandFails, Request
  <2>2. QED
    BY <1>1, <2>1 DEF RequestAge
<1>14. CASE PersistEditorialFails(e)
  <2>1. /\ req.pc = "persist" /\ new.pc = "final" /\ new.law = req.law
        /\ new.stand = req.stand /\ new.xml = req.xml /\ new.early = req.early
    BY <1>1, <1>14 DEF PersistEditorialFails, Request
  <2>2. QED
    BY <1>1, <2>1 DEF RequestAge
<1>15. QED
  BY <1>4, <1>5, <1>6, <1>7, <1>8, <1>9, <1>10, <1>11, <1>12, <1>13, <1>14 DEF RequestSteps

LEMMA AgeRecheckStep ==
    ASSUME TextsOnlyGrow, TypeInv, AgeInv, NEW r \in Recheckers, RecheckSteps(r),
           NEW q \in Recheckers
    PROVE  RecheckAge(recheck'[q])
<1> DEFINE rec == recheck[r]
           new == recheck'[q]
<1>1. rec \in Recheck /\ Rechecks(rec) /\ DOMAIN recheck = Recheckers /\ RecheckAge(recheck[q])
  BY DEF TypeInv, AgeInv
<1>2. new = recheck[q] \/ (q = r /\ new.pc # "upsert") \/ (q = r /\ FetchPage(r))
      \/ (q = r /\ FetchStandXML(r))
  <2>1. CASE FetchPage(r) \/ FetchStandXML(r)
    BY <1>1, <2>1 DEF FetchPage, FetchStandXML
  <2>2. CASE FetchPageFails(r) \/ FetchStandXMLFails(r) \/ FetchNotes(r) \/ RecheckWriteFails(r)
    BY <1>1, <2>2 DEF FetchPageFails, FetchStandXMLFails, FetchNotes, RecheckWriteFails,
                      IdleRecheck, Recheck
  <2>3. CASE NextLinked(r)
    <3>1. \E next : recheck' = [recheck EXCEPT ![r] = next] /\ next.pc \in {"idle", "page"}
      <4>1. CASE recheck' = [recheck EXCEPT ![r] = IdleRecheck]
        <5>1. IdleRecheck.pc = "idle"
          BY DEF IdleRecheck
        <5>2. QED
          BY <4>1, <5>1
      <4>2. ASSUME NEW m \in rec.todo,
                   recheck' = [recheck EXCEPT ![r].law = m, ![r].todo = @ \ {m}, ![r].pc = "page"]
            PROVE  \E next : /\ recheck' = [recheck EXCEPT ![r] = next]
                             /\ next.pc \in {"idle", "page"}
        <5> DEFINE next == [rec EXCEPT !.law = m, !.todo = @ \ {m}, !.pc = "page"]
        <5>1. recheck' = [recheck EXCEPT ![r] = next]
          BY <4>2
        <5>2. next.pc = "page"
          BY <1>1 DEF Recheck
        <5>3. QED
          BY <5>1, <5>2
      <4>3. QED
        BY <2>3, <4>1, <4>2 DEF NextLinked
    <3>2. QED
      BY <1>1, <3>1
  <2>4. CASE \E l \in Laws : BeginRecheck(r, l)
    BY <1>1, <2>4 DEF BeginRecheck, IdleRecheck
  <2>5. QED
    BY <2>1, <2>2, <2>3, <2>4 DEF RecheckSteps
<1>3. ASSUME q = r, FetchPage(r) \/ FetchStandXML(r)
      PROVE  RecheckAge(new)
  <2>1. new.law = rec.law /\ new.number = Current(rec.law) /\ rec.pc # "idle"
    BY <1>1, <1>3 DEF FetchPage, FetchStandXML, Recheck, Current, Number, Served
  <2>2. Current(rec.law) \in Nat
    BY <1>1, <2>1, CurrentIsNat DEF Rechecks
  <2>3. QED
    BY <2>1, <2>2 DEF RecheckAge
<1>4. QED
  BY <1>1, <1>2, <1>3 DEF RecheckAge

(* What another request notices of a write is not its age.                  *)
LEMMA AgeIsKept ==
    ASSUME NEW old \in Request, RequestAge(old),
           NEW new \in {[old EXCEPT !.overdue = x] : x \in SUBSET Laws}
                       \cup {[old EXCEPT !.otherText = TRUE]}
    PROVE  RequestAge(new)
<1>1. /\ new.pc = old.pc /\ new.law = old.law /\ new.stand = old.stand
      /\ new.xml = old.xml /\ new.early = old.early
  BY DEF Request
<1>2. QED
  BY <1>1 DEF RequestAge

(* All of AgeInv but for the requests and rechecks, which are carried over  *)
(* while GII serves the same texts.                                         *)
LEMMA AgeWhileTextsStay ==
    ASSUME AgeInv, UNCHANGED version,
           \A l \in Laws : stands'[l] <= Current(l),
           \A e \in Exporters : RequestAge(request'[e]),
           \A r \in Recheckers : RecheckAge(recheck'[r]),
           CacheNotOlder'
    PROVE  AgeInv'
<1>1. /\ \A l : Current(l)' = Current(l)
      /\ \A e \in Exporters : RequestAge(request[e])' <=> RequestAge(request'[e])
      /\ \A r \in Recheckers : RecheckAge(recheck[r])' <=> RecheckAge(recheck'[r])
  BY DEF Current, RequestAge, RecheckAge
<1>2. QED
  BY <1>1 DEF AgeInv

LEMMA AgeStep ==
    ASSUME TextsOnlyGrow, TypeInv, AgeInv, [Next]_vars
    PROVE  AgeInv'
<1>1. /\ \A l \in Laws : stands[l] <= Current(l)
      /\ \A e \in Exporters : RequestAge(request[e]) /\ request[e] \in Request /\ Carries(request[e])
      /\ \A r \in Recheckers : /\ RecheckAge(recheck[r])
                               /\ recheck[r] \in Recheck /\ Rechecks(recheck[r])
      /\ CacheNotOlder
      /\ DOMAIN stands = Laws /\ DOMAIN request = Exporters /\ DOMAIN recheck = Recheckers
  BY DEF AgeInv, TypeInv
<1>2. CASE UNCHANGED vars
  BY <1>1, <1>2, AgeWhileTextsStay DEF vars, CacheNotOlder
<1>3. ASSUME NEW l \in Laws, PublishText(l) PROVE AgeInv'
  <2>1. version[l] \in DOMAIN Versions[l] /\ version[l] + 1 \in DOMAIN Versions[l]
        /\ version[l] \in Nat
    BY <1>3, TextsOfLaws DEF PublishText, TypeInv
  <2>2. version' = [version EXCEPT ![l] = @ + 1] /\ version \in [Laws -> Nat]
        /\ UNCHANGED <<stands, request, recheck, cache>>
    BY <1>3 DEF PublishText, TypeInv
  <2>3. ASSUME NEW k \in Laws
        PROVE  /\ Current(k) <= Current(k)' /\ version[k] <= version'[k]
               /\ Current(k) \in Nat /\ Current(k)' \in Nat /\ version[k] \in Nat /\ version'[k] \in Nat
    <3>1. CASE k = l
      <4>1. Number(l, version[l]) <= Number(l, version[l] + 1)
        BY <2>1 DEF TextsOnlyGrow
      <4>2. Current(k)' = Number(l, version[l] + 1) /\ version'[k] = version[k] + 1
        BY <2>2, <3>1 DEF Current, Number
      <4>3. Number(l, version[l] + 1) \in Nat
        BY <2>1, CurrentIsNat
      <4>4. QED
        BY <2>1, <3>1, <4>1, <4>2, <4>3, CurrentIsNat DEF Current
    <3>2. CASE k # l
      BY <2>2, <3>2, CurrentIsNat DEF Current, Number
    <3>3. QED
      BY <3>1, <3>2
  <2>4. \A k \in Laws : stands'[k] <= Current(k)'
    BY <1>1, <2>2, <2>3, CurrentIsNat
  <2>5. ASSUME NEW e \in Exporters PROVE RequestAge(request[e])'
    <3>1. request[e].stand \in Nat /\ request[e].xml \in Nat
          /\ (request[e].pc # "idle" => request[e].law \in Laws)
      BY <1>1, NumbersAreNat DEF Request, Carries
    <3>2. request[e].pc # "idle" =>
             /\ request[e].stand <= Number(request[e].law, version'[request[e].law])
             /\ request[e].xml <= version'[request[e].law]
      BY <1>1, <2>3, <3>1 DEF RequestAge, Current, Number
    <3>3. QED
      BY <1>1, <2>2, <3>2 DEF RequestAge, Current, Number
  <2>6. ASSUME NEW r \in Recheckers PROVE RecheckAge(recheck[r])'
    <3>1. recheck[r].number \in Nat /\ (recheck[r].pc # "idle" => recheck[r].law \in Laws)
      BY <1>1, NumbersAreNat DEF Recheck, Rechecks
    <3>2. recheck[r].pc = "upsert" =>
             recheck[r].number <= Number(recheck[r].law, version'[recheck[r].law])
      BY <1>1, <2>3, <3>1 DEF RecheckAge, Current, Number
    <3>3. QED
      BY <2>2, <3>2 DEF RecheckAge, Current, Number
  <2>7. CacheNotOlder'
    BY <1>1, <2>2 DEF CacheNotOlder, Number
  <2>8. QED
    BY <2>4, <2>5, <2>6, <2>7 DEF AgeInv
<1>4. ASSUME NEW l \in Laws, NEW n \in Numbers, Amend(l, n) PROVE AgeInv'
  BY <1>1, <1>4, AgeWhileTextsStay DEF Amend, CacheNotOlder
<1>5. ASSUME NEW e \in Exporters, BeginSteps(e) \/ RequestSteps(e) PROVE AgeInv'
  <2>1. UNCHANGED <<version, linked, stands, editorial, cache, recheck>>
    BY <1>5, RequestOnlySteps
  <2>2. ASSUME NEW f \in Exporters PROVE RequestAge(request'[f])
    BY <1>1, <1>5, AgeRequestStep, OthersStay
  <2>3. QED
    BY <1>1, <2>1, <2>2, AgeWhileTextsStay DEF CacheNotOlder
<1>6. ASSUME NEW r \in Recheckers, RecheckSteps(r) PROVE AgeInv'
  <2>1. UNCHANGED <<version, linked, stands, editorial, cache, request>>
    BY <1>6, RecheckOnlySteps
  <2>2. ASSUME NEW q \in Recheckers PROVE RecheckAge(recheck'[q])
    BY <1>6, AgeRecheckStep
  <2>3. QED
    BY <1>1, <2>1, <2>2, AgeWhileTextsStay DEF CacheNotOlder
<1>7. ASSUME NEW e \in Exporters, WriteStand(e) PROVE AgeInv'
  <2> DEFINE req == request[e]
             mid == [request EXCEPT ![e].pc = "reEvaluate"]
  <2>1. /\ req.pc = "writeStand"
        /\ stands' = [stands EXCEPT ![req.law] = Versions[req.law][req.xml]]
        /\ request' = StandWritten(req.law, mid)
        /\ UNCHANGED <<version, recheck, cache>>
    BY <1>7 DEF WriteStand, RequestOnly
  <2>2. req.law \in Laws /\ req.xml \in DOMAIN Versions[req.law] /\ req.xml <= version[req.law]
    BY <1>1, <2>1 DEF Carries, RequestAge
  <2>3. Versions[req.law][req.xml] <= Current(req.law)
    BY <2>2 DEF TextsOnlyGrow, Current, Number, TypeInv
  <2>4. \A l \in Laws : stands'[l] <= Current(l)
    BY <1>1, <2>1, <2>3
  <2>5. ASSUME NEW f \in Exporters PROVE RequestAge(request'[f])
    <3>1. mid[f] \in Request /\ RequestAge(mid[f])
      <4>1. CASE f = e
        <5>1. /\ mid[f].pc = "reEvaluate" /\ mid[f].law = req.law /\ mid[f].stand = req.stand
              /\ mid[f].xml = req.xml /\ mid[f].early = req.early
          BY <1>1, <4>1 DEF Request
        <5>2. mid[f] \in Request
          <6>1. mid[f] = [req EXCEPT !.pc = "reEvaluate"]
            BY <1>1, <4>1
          <6>2. req \in Request
            BY <1>1
          <6> HIDE DEF req, mid
          <6>3. [req EXCEPT !.pc = "reEvaluate"] \in Request
            BY <6>2 DEF Request, RequestPcs
          <6>4. QED
            BY <6>1, <6>3
        <5>3. req.xml # 0 => req.early
          BY <1>1, <2>1 DEF RequestAge
        <5> HIDE DEF mid
        <5>4. QED
          BY <1>1, <2>1, <5>1, <5>2, <5>3 DEF RequestAge
      <4>2. CASE f # e
        BY <1>1, <4>2
      <4>3. QED
        BY <4>1, <4>2
    <3>2. request'[f] = [mid[f] EXCEPT !.overdue = mid[f].overdue \ {req.law}]
      BY <2>1 DEF StandWritten
    <3>3. mid[f].overdue \ {req.law} \in SUBSET Laws
      BY <3>1 DEF Request
    <3> HIDE DEF mid
    <3>4. QED
      BY <3>1, <3>2, <3>3, AgeIsKept
  <2>6. QED
    BY <1>1, <2>1, <2>4, <2>5, AgeWhileTextsStay DEF CacheNotOlder
<1>8. ASSUME NEW r \in Recheckers, RecheckStand(r) PROVE AgeInv'
  <2> DEFINE rec == recheck[r]
  <2>1. /\ rec.pc = "upsert" /\ stands' = [stands EXCEPT ![rec.law] = rec.number]
        /\ request' = StandWritten(rec.law, request)
        /\ recheck' = [recheck EXCEPT ![r].pc = IF rec.xml = 0 THEN "notes" ELSE "persist"]
        /\ UNCHANGED <<version, cache>>
    BY <1>8 DEF RecheckStand, RecheckOnly
  <2>2. \A l \in Laws : stands'[l] <= Current(l)
    BY <1>1, <2>1 DEF RecheckAge
  <2>3. ASSUME NEW f \in Exporters PROVE RequestAge(request'[f])
    <3>1. request'[f] = [request[f] EXCEPT !.overdue = request[f].overdue \ {rec.law}]
      BY <2>1 DEF StandWritten
    <3>2. request[f].overdue \ {rec.law} \in SUBSET Laws
      BY <1>1 DEF Request
    <3>3. QED
      BY <1>1, <3>1, <3>2, AgeIsKept
  <2>4. ASSUME NEW q \in Recheckers PROVE RecheckAge(recheck'[q])
    BY <1>1, <2>1 DEF RecheckAge, Recheck
  <2>5. QED
    BY <1>1, <2>1, <2>2, <2>3, <2>4, AgeWhileTextsStay DEF CacheNotOlder
<1>9. ASSUME NEW e \in Exporters, PersistEditorial(e) PROVE AgeInv'
  <2> DEFINE reqs == Replaced(e, request[e].law)
  <2>1. /\ request' = [reqs EXCEPT ![e].otherText = FALSE, ![e].pc = "final"]
        /\ UNCHANGED <<version, stands, recheck, cache>>
        /\ request[e].pc = "persist"
    BY <1>9 DEF PersistEditorial, RequestOnly
  <2>2. ASSUME NEW f \in Exporters PROVE RequestAge(request'[f])
    <3>1. CASE f = e
      <4>1. reqs[e] = request[e] /\ DOMAIN reqs = Exporters
        BY DEF Replaced
      <4>2. request'[e] = [request[e] EXCEPT !.otherText = FALSE, !.pc = "final"]
        BY <2>1, <4>1
      <4>3. /\ request'[e].pc = "final" /\ request'[e].law = request[e].law
            /\ request'[e].stand = request[e].stand /\ request'[e].xml = request[e].xml
        BY <1>1, <4>2 DEF Request
      <4>4. QED
        BY <1>1, <2>1, <3>1, <4>3 DEF RequestAge
    <3>2. CASE f # e
      <4>1. request'[f] \in {request[f], [request[f] EXCEPT !.otherText = TRUE]}
        BY <2>1, <3>2 DEF Replaced
      <4>2. QED
        BY <1>1, <4>1, AgeIsKept
    <3>3. QED
      BY <3>1, <3>2
  <2>3. QED
    BY <1>1, <2>1, <2>2, AgeWhileTextsStay DEF CacheNotOlder
<1>10. ASSUME NEW r \in Recheckers, PersistNotes(r) PROVE AgeInv'
  <2>1. /\ request' = Replaced(r, recheck[r].law)
        /\ recheck' = [recheck EXCEPT ![r].pc = "invalidate"]
        /\ UNCHANGED <<version, stands, cache>>
    BY <1>10 DEF PersistNotes, RecheckOnly
  <2>2. ASSUME NEW f \in Exporters PROVE RequestAge(request'[f])
    <3>1. request'[f] \in {request[f], [request[f] EXCEPT !.otherText = TRUE]}
      BY <2>1 DEF Replaced
    <3>2. QED
      BY <1>1, <3>1, AgeIsKept
  <2>3. ASSUME NEW q \in Recheckers PROVE RecheckAge(recheck'[q])
    BY <1>1, <2>1 DEF RecheckAge, Recheck
  <2>4. QED
    BY <1>1, <2>1, <2>2, <2>3, AgeWhileTextsStay DEF CacheNotOlder
<1>11. ASSUME NEW r \in Recheckers, Invalidate(r) PROVE AgeInv'
  <2>1. /\ cache' = InvalidateLaw(cache, recheck[r].law)
        /\ recheck' = [recheck EXCEPT ![r].pc = "next", ![r].number = 0, ![r].xml = 0]
        /\ UNCHANGED <<version, stands, request>>
    BY <1>11 DEF Invalidate, RecheckOnly
  <2>2. CacheNotOlder'
    BY <1>1, <2>1 DEF CacheNotOlder, InvalidateLaw
  <2>3. ASSUME NEW q \in Recheckers PROVE RecheckAge(recheck'[q])
    BY <1>1, <2>1 DEF RecheckAge, Recheck
  <2>4. QED
    BY <1>1, <2>1, <2>2, <2>3, AgeWhileTextsStay
<1>12. ASSUME NEW e \in Exporters, PutIR(e) PROVE AgeInv'
  <2> DEFINE req == request[e]
             ir == [text |-> req.xml, early |-> req.early]
             new == [req EXCEPT !.ir = ir, !.pc = "persist"]
  <2>1. /\ req.pc = "put" /\ cache' \in Put(cache, Key(req), ir)
        /\ request' = [request EXCEPT ![e] = new]
        /\ UNCHANGED <<version, stands, recheck>>
    BY <1>12 DEF PutIR, RequestOnly
  <2>2. RequestAge(new)
    <3>1. new.pc = "persist" /\ new.law = req.law /\ new.stand = req.stand /\ new.xml = req.xml
      BY <1>1 DEF Request
    <3>2. QED
      BY <1>1, <2>1, <3>1 DEF RequestAge
  <2>3. ir.text = req.xml /\ ir.early = req.early /\ Key(req)[1] = req.law /\ Key(req)[2] = req.stand
    BY DEF Key
  <2>4. ~ir.early => Number(Key(req)[1], ir.text) >= Key(req)[2]
    BY <1>1, <2>1, <2>3 DEF RequestAge
  <2> HIDE DEF ir, new
  <2>5. PICK gone : cache' = [j \in (DOMAIN cache \ gone) \cup {Key(req)} |->
                                  IF j = Key(req) THEN ir ELSE cache[j]]
    BY <2>1 DEF Put
  <2>6. CacheNotOlder'
    BY <1>1, <2>4, <2>5 DEF CacheNotOlder, Number
  <2>7. \A f \in Exporters : RequestAge(request'[f])
    BY <1>1, <2>1, <2>2
  <2>8. QED
    BY <1>1, <2>1, <2>6, <2>7, AgeWhileTextsStay
<1>13. QED
  BY <1>2, <1>3, <1>4, <1>5, <1>6, <1>7, <1>8, <1>9, <1>10, <1>11, <1>12, StepsOfNext

(* A text in the cache is not older than the Stand it is filed under, for   *)
(* any number of exports and rechecks, if GII serves no text that is older  *)
(* than the one before and the Stands in the store come from its texts.     *)
THEOREM CacheIsNotOlder ==
    ASSUME TextsOnlyGrow
    PROVE  Spec => []CacheNotOlder
<1>1. Init => AgeInv
  <2> SUFFICES ASSUME Init PROVE AgeInv
    OBVIOUS
  <2>1. ASSUME NEW l \in Laws PROVE stands[l] <= Current(l)
    BY TextsOfLaws DEF Init, Current, TextsOnlyGrow
  <2>2. \A e \in Exporters : request[e].pc = "idle"
    BY DEF Init, IdleRequest
  <2>3. \A r \in Recheckers : recheck[r].pc = "idle"
    BY DEF Init, IdleRecheck
  <2>4. CacheNotOlder
    BY DEF Init, CacheNotOlder
  <2>5. QED
    BY <2>1, <2>2, <2>3, <2>4 DEF AgeInv, RequestAge, RecheckAge
<1>2. TypeInv /\ AgeInv /\ [Next]_vars => AgeInv'
  BY AgeStep
<1>3. AgeInv => CacheNotOlder
  BY DEF AgeInv
<1>4. QED
  BY <1>1, <1>2, <1>3, TypeHolds, PTL DEF Spec

-----------------------------------------------------------------------------
(* Stale laws: a request that finds an overdue law says so until its Stand  *)
(* is written.                                                              *)

KnowsOverdue(req) ==
    /\ \A l \in req.overdue : linked[l] > stands[l]
    /\ req.pc \notin {"idle", "member", "done"} /\ req.law \in req.overdue =>
           req.state = "confirmed_stale"
    /\ \A l \in DOMAIN req.out \cap req.overdue : req.out[l].state = "confirmed_stale"

HoldsBack(req) ==
    RefuseStale /\ ~req.allow =>
        /\ req.overdue \cap DOMAIN req.out = {}
        /\ req.pc \in {"fetch", "put", "persist", "final"} => req.law \notin req.overdue

StaleInv == \A e \in Exporters : KnowsOverdue(request[e]) /\ HoldsBack(request[e])

OverdueOk(req) == KnowsOverdue(req) /\ HoldsBack(req)

LEMMA StaleLaws ==
    ASSUME TypeInv, NEW l \in Laws
    PROVE  /\ FreshnessFor(l) = "confirmed_stale" <=> linked[l] > stands[l]
           /\ linked[l] \in Nat /\ stands[l] \in Nat
<1>1. linked[l] \in Nat /\ stands[l] \in Nat
  BY NumbersAreNat DEF TypeInv
<1>2. QED
  BY <1>1, StaleIffNewer

(* A request that goes on with the same law.                                *)
LEMMA OverdueCarried ==
    ASSUME NEW req, NEW new, OverdueOk(req),
           new.overdue = req.overdue, new.out = req.out, new.allow = req.allow,
           new.law = req.law, new.state = req.state,
           req.pc \notin {"idle", "member", "done"},
           new.pc \in {"standXML", "writeStand", "reEvaluate", "gate"}
             \/ req.pc \in {"fetch", "put", "persist", "final"}
             \/ ~Refused(req)
    PROVE  OverdueOk(new)
<1>1. KnowsOverdue(new)
  BY DEF OverdueOk, KnowsOverdue
<1>2. HoldsBack(new)
  <2> SUFFICES ASSUME RefuseStale, ~req.allow, new.pc \in {"fetch", "put", "persist", "final"}
               PROVE  req.law \notin req.overdue
    BY DEF OverdueOk, HoldsBack
  <2>1. CASE req.pc \in {"fetch", "put", "persist", "final"}
    BY <2>1 DEF OverdueOk, HoldsBack
  <2>2. CASE ~Refused(req)
    BY <2>2 DEF OverdueOk, KnowsOverdue, Refused
  <2>3. QED
    BY <2>1, <2>2
<1>3. QED
  BY <1>1, <1>2 DEF OverdueOk

LEMMA OverdueEvaluated ==
    ASSUME TypeInv, NEW req \in Request, NEW l \in Laws,
           NEW pc \in {"bundleGate", "standXML", "gate"},
           \A k \in req.overdue : linked[k] > stands[k],
           \A k \in DOMAIN req.out \cap req.overdue : req.out[k].state = "confirmed_stale",
           RefuseStale /\ ~req.allow => req.overdue \cap DOMAIN req.out = {}
    PROVE  OverdueOk(Evaluated(req, l, pc))
<1> DEFINE new == Evaluated(req, l, pc)
<1>1. /\ new.overdue = req.overdue /\ new.out = req.out /\ new.allow = req.allow
      /\ new.law = l /\ new.state = FreshnessFor(l) /\ new.pc = pc
  BY DEF Evaluated, Request
<1> HIDE DEF new
<1>2. l \in req.overdue => FreshnessFor(l) = "confirmed_stale"
  BY StaleLaws
<1>3. KnowsOverdue(new)
  BY <1>1, <1>2 DEF KnowsOverdue
<1>4. HoldsBack(new)
  BY <1>1 DEF HoldsBack
<1>5. QED
  BY <1>3, <1>4 DEF OverdueOk, new

LEMMA StaleRequestStep ==
    ASSUME TypeInv, StaleInv, NEW e \in Exporters, BeginSteps(e) \/ RequestSteps(e)
    PROVE  OverdueOk(request'[e])
<1> DEFINE req == request[e]
           new == request'[e]
<1>1. req \in Request /\ Carries(req) /\ OverdueOk(req) /\ DOMAIN request = Exporters
  BY DEF TypeInv, StaleInv, OverdueOk
<1>2. CASE PassBundleGate(e) \/ FetchForStandFails(e) \/ FetchForStand(e)
  <2>1. req.pc \in {"bundleGate", "standXML"}
    BY <1>2 DEF PassBundleGate, FetchForStandFails, FetchForStand
  <2>2. /\ new.overdue = req.overdue /\ new.out = req.out /\ new.allow = req.allow
        /\ new.law = req.law /\ new.state = req.state
        /\ new.pc \in {"standXML", "writeStand", "gate"}
    <3>1. CASE PassBundleGate(e) \/ FetchForStandFails(e)
      <4>1. \E pc \in {"standXML", "gate"} : new = [req EXCEPT !.pc = pc]
        BY <1>1, <3>1 DEF PassBundleGate, FetchForStandFails, StandFirst
      <4>2. QED
        BY <1>1, <4>1 DEF Request
    <3>2. CASE FetchForStand(e)
      BY <1>1, <3>2 DEF FetchForStand, Request
    <3>3. QED
      BY <1>2, <3>1, <3>2
  <2>3. QED
    BY <1>1, <2>1, <2>2, OverdueCarried
<1>3. CASE Refuse(e) \/ FetchTextFails(e) \/ Answer(e)
  <2>1. new = IdleRequest
    BY <1>1, <1>3 DEF Refuse, FetchTextFails, Answer
  <2>2. IdleRequest.pc = "idle" /\ IdleRequest.overdue = {}
    BY DEF IdleRequest
  <2>3. QED
    BY <2>1, <2>2 DEF OverdueOk, KnowsOverdue, HoldsBack
<1>4. CASE ReEvaluate(e)
  <2>1. /\ new.overdue = req.overdue /\ new.out = req.out /\ new.allow = req.allow
        /\ new.law = req.law /\ new.state = FreshnessFor(req.law) /\ new.pc = "gate"
        /\ req.pc = "reEvaluate"
    BY <1>1, <1>4 DEF ReEvaluate, Request
  <2>2. req.law \in req.overdue => FreshnessFor(req.law) = "confirmed_stale"
    BY <1>1, <2>1, StaleLaws DEF Carries, OverdueOk, KnowsOverdue
  <2>3. QED
    BY <1>1, <2>1, <2>2 DEF OverdueOk, KnowsOverdue, HoldsBack
<1>5. CASE Lookup(e)
  <2>1. /\ new.overdue = req.overdue /\ new.out = req.out /\ new.allow = req.allow
        /\ new.law = req.law /\ new.state = req.state
        /\ req.pc = "gate" /\ ~Refused(req)
    BY <1>1, <1>5 DEF Lookup, Request
  <2>2. QED
    BY <1>1, <2>1, OverdueCarried
<1>6. CASE FetchText(e)
  <2>1. /\ new.overdue = req.overdue /\ new.out = req.out /\ new.allow = req.allow
        /\ new.law = req.law /\ new.state = req.state /\ req.pc = "fetch"
    BY <1>1, <1>6 DEF FetchText, Request
  <2>2. QED
    BY <1>1, <2>1, OverdueCarried
<1>7. CASE FinalEvaluation(e)
  <2> DEFINE l == req.law
  <2>1. PICK label : /\ label.state = FreshnessFor(l)
                     /\ new.out = WithLabel(req.out, l, label)
    <3> DEFINE label == [text |-> req.ir.text, stand |-> stands[l], state |-> FreshnessFor(l),
                         proved |-> req.otherText
                                      \/ Cites[l][req.ir.text] \subseteq Cited(l, editorial[l])]
    <3>1. new.out = WithLabel(req.out, l, label)
      BY <1>1, <1>7 DEF FinalEvaluation, IdleRequest
    <3>2. label.state = FreshnessFor(l)
      OBVIOUS
    <3> HIDE DEF label
    <3>3. QED
      BY <3>1, <3>2
  <2>2. /\ new.overdue = req.overdue /\ new.allow = req.allow /\ new.law = l
        /\ new.pc \in {"done", "member"} /\ req.pc = "final"
    BY <1>1, <1>7 DEF FinalEvaluation, IdleRequest
  <2>3. l \in Laws /\ (l \in req.overdue => FreshnessFor(l) = "confirmed_stale")
    BY <1>1, <2>2, StaleLaws DEF Carries, OverdueOk, KnowsOverdue
  <2>4. /\ DOMAIN new.out = {l} \cup DOMAIN req.out
        /\ new.out[l].state = FreshnessFor(l)
        /\ \A k \in DOMAIN req.out \ {l} : new.out[k] = req.out[k]
    BY <2>1 DEF WithLabel
  <2> HIDE DEF req, new
  <2>5. KnowsOverdue(new)
    BY <1>1, <2>2, <2>3, <2>4 DEF OverdueOk, KnowsOverdue
  <2>6. HoldsBack(new)
    BY <1>1, <2>2, <2>4 DEF OverdueOk, HoldsBack
  <2>7. QED
    BY <2>5, <2>6 DEF OverdueOk, new
<1>8. CASE NextMember(e)
  <2>1. PICK m \in req.todo : new = Evaluated([req EXCEPT !.todo = @ \ {m}], m, "bundleGate")
    BY <1>1, <1>8 DEF NextMember
  <2> DEFINE rest == [req EXCEPT !.todo = @ \ {m}]
  <2>2. /\ m \in Laws /\ rest \in Request /\ rest.overdue = req.overdue
        /\ rest.out = req.out /\ rest.allow = req.allow
    BY <1>1 DEF Request, Laws
  <2> HIDE DEF rest
  <2>3. OverdueOk(Evaluated(rest, m, "bundleGate"))
    BY <1>1, <2>2, OverdueEvaluated DEF OverdueOk, KnowsOverdue, HoldsBack
  <2>4. QED
    BY <2>1, <2>3 DEF rest
<1>9. CASE BeginSteps(e)
  <2>1. Overdue \subseteq Laws /\ \A k \in Overdue : linked[k] > stands[k]
    BY StaleLaws DEF Overdue
  <2>2. PICK asked \in Request, l \in Laws, pc \in {"bundleGate", "standXML", "gate"} :
             /\ asked.overdue = Overdue /\ asked.out = <<>>
             /\ new = Evaluated(asked, l, pc)
    BY <1>9, BeginForm
  <2>3. QED
    BY <2>1, <2>2, OverdueEvaluated
<1>10. CASE WriteStandFails(e)
  <2>1. /\ new.overdue = req.overdue /\ new.out = req.out /\ new.allow = req.allow
        /\ new.law = req.law /\ new.state = req.state
        /\ req.pc = "writeStand" /\ new.pc = "reEvaluate"
    BY <1>1, <1>10 DEF WriteStandFails, Request
  <2>2. QED
    BY <1>1, <2>1, OverdueCarried
<1>11. CASE PersistEditorialFails(e)
  <2>1. /\ new.overdue = req.overdue /\ new.out = req.out /\ new.allow = req.allow
        /\ new.law = req.law /\ new.state = req.state /\ req.pc = "persist"
    BY <1>1, <1>11 DEF PersistEditorialFails, Request
  <2>2. QED
    BY <1>1, <2>1, OverdueCarried
<1>12. QED
  BY <1>2, <1>3, <1>4, <1>5, <1>6, <1>7, <1>8, <1>9, <1>10, <1>11 DEF RequestSteps

(* A Stand is written: the law leaves the set of every request.            *)
LEMMA OverdueStandWritten ==
    ASSUME TypeInv, NEW req \in Request, OverdueOk(req), NEW l \in Laws, NEW n,
           stands' = [stands EXCEPT ![l] = n], UNCHANGED linked
    PROVE  /\ \A k \in req.overdue \ {l} : linked'[k] > stands'[k]
           /\ LET new == [req EXCEPT !.overdue = @ \ {l}]
              IN  OverdueOk(new) /\ new.overdue = req.overdue \ {l}
<1> DEFINE new == [req EXCEPT !.overdue = @ \ {l}]
<1>1. /\ new.overdue = req.overdue \ {l} /\ new.out = req.out /\ new.allow = req.allow
      /\ new.law = req.law /\ new.state = req.state /\ new.pc = req.pc
  BY DEF Request
<1>2. req.overdue \subseteq Laws
  BY DEF Request
<1> HIDE DEF new
<1>3. \A k \in req.overdue \ {l} : linked'[k] > stands'[k]
  BY <1>2 DEF OverdueOk, KnowsOverdue, TypeInv
<1>4. OverdueOk(new)
  BY <1>1 DEF OverdueOk, KnowsOverdue, HoldsBack
<1>5. QED
  BY <1>1, <1>3, <1>4 DEF new

LEMMA StaleStep ==
    ASSUME TypeInv, StaleInv, [Next]_vars
    PROVE  StaleInv'
<1>1. /\ \A e \in Exporters : OverdueOk(request[e]) /\ request[e] \in Request /\ Carries(request[e])
      /\ DOMAIN request = Exporters /\ DOMAIN stands = Laws
  BY DEF TypeInv, StaleInv, OverdueOk
<1>2. ASSUME UNCHANGED <<linked, stands>>, \A e \in Exporters : OverdueOk(request'[e])
      PROVE  StaleInv'
  BY <1>2 DEF StaleInv, OverdueOk, KnowsOverdue, HoldsBack
<1>3. CASE UNCHANGED vars
  BY <1>1, <1>2, <1>3 DEF vars
<1>4. ASSUME NEW l \in Laws, PublishText(l) PROVE StaleInv'
  BY <1>1, <1>2, <1>4 DEF PublishText
<1>5. ASSUME NEW l \in Laws, NEW n \in Numbers, Amend(l, n) PROVE StaleInv'
  <2>1. /\ linked' = [linked EXCEPT ![l] = n] /\ n > linked[l] /\ n \in Nat
        /\ UNCHANGED <<stands, request>>
    BY <1>5, NumbersAreNat DEF Amend
  <2>2. ASSUME NEW e \in Exporters, NEW k \in request[e].overdue
        PROVE  linked'[k] > stands[k]
    <3>1. k \in Laws /\ linked[k] > stands[k]
      BY <1>1 DEF Request, OverdueOk, KnowsOverdue
    <3>2. linked[k] \in Nat /\ stands[k] \in Nat
      BY <3>1, StaleLaws
    <3>3. linked'[k] = IF k = l THEN n ELSE linked[k]
      BY <2>1, <3>1 DEF TypeInv
    <3>4. QED
      BY <2>1, <3>1, <3>2, <3>3
  <2>3. QED
    BY <1>1, <2>1, <2>2 DEF StaleInv, OverdueOk, KnowsOverdue, HoldsBack
<1>6. ASSUME NEW e \in Exporters, BeginSteps(e) \/ RequestSteps(e) PROVE StaleInv'
  BY <1>1, <1>2, <1>6, RequestOnlySteps, StaleRequestStep, OthersStay
<1>7. ASSUME NEW r \in Recheckers, RecheckSteps(r) PROVE StaleInv'
  BY <1>1, <1>2, <1>7, RecheckOnlySteps
<1>8. ASSUME NEW l \in Laws, NEW n, NEW mid \in [Exporters -> Request],
             \A f \in Exporters : OverdueOk(mid[f]),
             stands' = [stands EXCEPT ![l] = n], UNCHANGED linked,
             request' = StandWritten(l, mid)
      PROVE  StaleInv'
  <2>1. ASSUME NEW f \in Exporters
        PROVE  /\ OverdueOk(request'[f])
               /\ \A k \in request'[f].overdue : linked'[k] > stands'[k]
    <3> DEFINE new == [mid[f] EXCEPT !.overdue = @ \ {l}]
    <3>1. request'[f] = new
      BY <1>8 DEF StandWritten
    <3>2. mid[f] \in Request /\ OverdueOk(mid[f])
      BY <1>8
    <3>3. /\ \A k \in mid[f].overdue \ {l} : linked'[k] > stands'[k]
          /\ OverdueOk(new) /\ new.overdue = mid[f].overdue \ {l}
      BY <1>8, <3>2, OverdueStandWritten
    <3> HIDE DEF new
    <3>4. QED
      BY <3>1, <3>3
  <2>2. QED
    BY <2>1 DEF StaleInv, OverdueOk, KnowsOverdue, HoldsBack
<1>9. ASSUME NEW e \in Exporters, WriteStand(e) PROVE StaleInv'
  <2> DEFINE req == request[e]
             new == [req EXCEPT !.pc = "reEvaluate"]
             mid == [request EXCEPT ![e] = new]
  <2>1. /\ req.pc = "writeStand"
        /\ stands' = [stands EXCEPT ![req.law] = Versions[req.law][req.xml]]
        /\ request' = StandWritten(req.law, mid) /\ UNCHANGED linked
    BY <1>9 DEF WriteStand, RequestOnly
  <2>2. req \in Request /\ OverdueOk(req) /\ req.law \in Laws
    BY <1>1, <2>1 DEF Carries
  <2>3. new \in Request
    <3> HIDE DEF req
    <3> QED
      BY <2>2 DEF Request, RequestPcs
  <2>4. /\ new.overdue = req.overdue /\ new.out = req.out /\ new.allow = req.allow
        /\ new.law = req.law /\ new.state = req.state /\ new.pc = "reEvaluate"
    <3> HIDE DEF req
    <3> QED
      BY <2>2 DEF Request
  <2>5. OverdueOk(new)
    BY <2>1, <2>2, <2>4, OverdueCarried
  <2> HIDE DEF new
  <2>6. mid \in [Exporters -> Request] /\ \A f \in Exporters : OverdueOk(mid[f])
    BY <1>1, <2>3, <2>5 DEF TypeInv
  <2> HIDE DEF mid
  <2>7. QED
    BY <1>8, <2>1, <2>2, <2>6
<1>10. ASSUME NEW r \in Recheckers, RecheckStand(r) PROVE StaleInv'
  <2>1. /\ recheck[r].pc = "upsert"
        /\ stands' = [stands EXCEPT ![recheck[r].law] = recheck[r].number]
        /\ request' = StandWritten(recheck[r].law, request) /\ UNCHANGED linked
    BY <1>10 DEF RecheckStand, RecheckOnly
  <2>2. recheck[r].law \in Laws /\ request \in [Exporters -> Request]
    BY <2>1 DEF TypeInv, Rechecks
  <2>3. QED
    BY <1>1, <1>8, <2>1, <2>2
<1>11. ASSUME NEW e \in Exporters, PutIR(e) PROVE StaleInv'
  <2> DEFINE req == request[e]
             new == [req EXCEPT !.ir = [text |-> req.xml, early |-> req.early], !.pc = "persist"]
  <2>1. req.pc = "put" /\ request' = [request EXCEPT ![e] = new] /\ UNCHANGED <<linked, stands>>
    BY <1>11 DEF PutIR, RequestOnly
  <2>2. /\ new.overdue = req.overdue /\ new.out = req.out /\ new.allow = req.allow
        /\ new.law = req.law /\ new.state = req.state
    BY <1>1 DEF Request
  <2>3. OverdueOk(req)
    BY <1>1
  <2> HIDE DEF new
  <2>4. OverdueOk(new)
    BY <2>1, <2>2, <2>3, OverdueCarried
  <2>5. QED
    BY <1>1, <1>2, <2>1, <2>4
<1>12. ASSUME NEW by, NEW l, NEW f \in Exporters,
              Replaced(by, l)[f] # request[f]
       PROVE  OverdueOk(Replaced(by, l)[f])
  <2>1. Replaced(by, l)[f] = [request[f] EXCEPT !.otherText = TRUE]
    BY <1>12 DEF Replaced
  <2> DEFINE new == [request[f] EXCEPT !.otherText = TRUE]
  <2>2. request[f] \in Request
    BY <1>1
  <2>3. /\ new.overdue = request[f].overdue /\ new.out = request[f].out
        /\ new.allow = request[f].allow /\ new.law = request[f].law
        /\ new.state = request[f].state /\ new.pc = request[f].pc
    BY <2>2 DEF Request
  <2> HIDE DEF new
  <2>4. OverdueOk(new)
    BY <1>1, <2>3 DEF OverdueOk, KnowsOverdue, HoldsBack
  <2>5. QED
    BY <2>1, <2>4 DEF new
<1>13. ASSUME NEW e \in Exporters, PersistEditorial(e) PROVE StaleInv'
  <2> DEFINE req == request[e]
             reqs == Replaced(e, req.law)
             new == [req EXCEPT !.otherText = FALSE, !.pc = "final"]
  <2>1. /\ req.pc = "persist" /\ UNCHANGED <<linked, stands>>
        /\ request' = [reqs EXCEPT ![e].otherText = FALSE, ![e].pc = "final"]
    BY <1>13 DEF PersistEditorial, RequestOnly
  <2>2. DOMAIN reqs = Exporters /\ reqs[e] = req
    BY DEF Replaced
  <2>3. request'[e] = new /\ \A f \in Exporters \ {e} : request'[f] = reqs[f]
    BY <2>1, <2>2
  <2>4. /\ new.overdue = req.overdue /\ new.out = req.out /\ new.allow = req.allow
        /\ new.law = req.law /\ new.state = req.state
    BY <1>1 DEF Request
  <2>5. OverdueOk(req)
    BY <1>1
  <2> HIDE DEF new, reqs
  <2>6. OverdueOk(new)
    BY <2>1, <2>4, <2>5, OverdueCarried
  <2>7. \A f \in Exporters : OverdueOk(reqs[f])
    BY <1>1, <1>12 DEF reqs
  <2>8. QED
    BY <1>2, <2>1, <2>3, <2>6, <2>7
<1>14. ASSUME NEW r \in Recheckers, PersistNotes(r) PROVE StaleInv'
  <2>1. request' = Replaced(r, recheck[r].law) /\ UNCHANGED <<linked, stands>>
    BY <1>14 DEF PersistNotes, RecheckOnly
  <2>2. QED
    BY <1>1, <1>2, <1>12, <2>1
<1>15. ASSUME NEW r \in Recheckers, Invalidate(r) PROVE StaleInv'
  BY <1>1, <1>2, <1>15 DEF Invalidate, RecheckOnly
<1>16. QED
  BY <1>3, <1>4, <1>5, <1>6, <1>7, <1>9, <1>10, <1>11, <1>13, <1>14, <1>15, StepsOfNext

LEMMA StaleHolds == Spec => []StaleInv
<1>1. Init => StaleInv
  <2>1. IdleRequest.overdue = {} /\ IdleRequest.pc = "idle"
    BY DEF IdleRequest
  <2>2. QED
    BY <2>1 DEF Init, StaleInv, KnowsOverdue, HoldsBack
<1>2. TypeInv /\ StaleInv /\ [Next]_vars => StaleInv'
  BY StaleStep
<1>3. QED
  BY <1>1, <1>2, TypeHolds, PTL DEF Spec

(* A bundle with a law that was stale when the request began, and has had   *)
(* no new Stand since, is never safe to serve.                              *)
THEOREM StaleNeverSafe == Spec => []StaleIsNotSafe
<1>1. StaleInv => StaleIsNotSafe
  <2> SUFFICES ASSUME StaleInv, NEW e \in Exporters, SafeToServe(request[e])
               PROVE  request[e].overdue \cap DOMAIN request[e].out = {}
    BY DEF StaleIsNotSafe
  <2>1. "confirmed_stale" \notin {request[e].out[l].state : l \in DOMAIN request[e].out}
    BY DEF SafeToServe, AggregateBundleFreshness
  <2>2. QED
    BY <2>1 DEF StaleInv, KnowsOverdue
<1>2. QED
  BY <1>1, StaleHolds, PTL

(* Where refusal is configured, no such law is exported without allow_stale.*)
THEOREM StaleRefused == Spec => []StaleIsRefused
<1>1. StaleInv => StaleIsRefused
  BY DEF StaleInv, HoldsBack, StaleIsRefused
<1>2. QED
  BY <1>1, StaleHolds, PTL

-----------------------------------------------------------------------------
(* Citations: between a write of them, failed or not, and the last          *)
(* evaluation the store holds those of the text, or the request knows that  *)
(* they may be those of another.                                            *)

NotesInStore(req, notes) ==
    /\ req.pc = "final" => \/ req.otherText
                           \/ Cites[req.law][req.ir.text] = {}
                           \/ notes[req.law] = req.ir.text
    /\ \A l \in DOMAIN req.out : req.out[l].proved

NotesInv == \A e \in Exporters : NotesInStore(request[e], editorial)

LEMMA NotesRequestStep ==
    ASSUME TypeInv, NotesInv, NEW e \in Exporters, BeginSteps(e) \/ RequestSteps(e)
    PROVE  NotesInStore(request'[e], editorial)
<1> DEFINE req == request[e]
           new == request'[e]
<1>1. req \in Request /\ Carries(req) /\ NotesInStore(req, editorial) /\ DOMAIN request = Exporters
  BY DEF TypeInv, NotesInv
<1>2. ASSUME new.out = req.out, new.pc # "final"
      PROVE  NotesInStore(new, editorial)
  BY <1>1, <1>2 DEF NotesInStore
<1>3. CASE PassBundleGate(e) \/ FetchForStandFails(e)
  <2>1. \E pc \in {"standXML", "gate"} : new = [req EXCEPT !.pc = pc]
    BY <1>1, <1>3 DEF PassBundleGate, FetchForStandFails, StandFirst
  <2>2. QED
    BY <1>1, <1>2, <2>1 DEF Request
<1>4. CASE FetchForStand(e)
  BY <1>1, <1>2, <1>4 DEF FetchForStand, Request
<1>5. CASE Refuse(e) \/ FetchTextFails(e) \/ Answer(e)
  <2>1. new = IdleRequest
    BY <1>1, <1>5 DEF Refuse, FetchTextFails, Answer
  <2>2. IdleRequest.pc = "idle" /\ DOMAIN IdleRequest.out = {}
    BY DEF IdleRequest
  <2>3. QED
    BY <2>1, <2>2 DEF NotesInStore
<1>6. CASE ReEvaluate(e)
  BY <1>1, <1>2, <1>6 DEF ReEvaluate, Request
<1>7. CASE Lookup(e)
  BY <1>1, <1>2, <1>7 DEF Lookup, Request
<1>8. CASE FetchText(e)
  BY <1>1, <1>2, <1>8 DEF FetchText, Request
<1>9. CASE FinalEvaluation(e)
  <2> DEFINE l == req.law
             label == [text |-> req.ir.text, stand |-> stands[l], state |-> FreshnessFor(l),
                       proved |-> req.otherText
                                    \/ Cites[l][req.ir.text] \subseteq Cited(l, editorial[l])]
  <2>1. req.pc = "final" /\ new.pc # "final" /\ new.out = WithLabel(req.out, l, label)
    BY <1>1, <1>9 DEF FinalEvaluation, IdleRequest
  <2>2. req.ir.text # 0
    <3>1. l \in Laws /\ req.ir.text \in DOMAIN Versions[l]
      BY <1>1, <2>1 DEF Carries
    <3>2. QED
      BY <3>1, TextsOfLaws
  <2>3. label.proved
    <3>1. req.otherText \/ Cites[l][req.ir.text] \subseteq Cited(l, editorial[l])
      BY <1>1, <2>1, <2>2 DEF NotesInStore, Cited
    <3>2. QED
      BY <3>1
  <2> HIDE DEF label
  <2>4. QED
    BY <1>1, <2>1, <2>3 DEF NotesInStore, WithLabel
<1>10. CASE NextMember(e)
  <2>1. PICK m : new = Evaluated([req EXCEPT !.todo = @ \ {m}], m, "bundleGate")
    BY <1>1, <1>10 DEF NextMember
  <2>2. new.out = req.out /\ new.pc = "bundleGate"
    BY <1>1, <2>1 DEF Evaluated, Request
  <2>3. QED
    BY <1>2, <2>2
<1>11. CASE BeginSteps(e)
  <2>1. PICK asked \in Request, l \in Laws, pc \in {"bundleGate", "standXML", "gate"} :
             asked.out = <<>> /\ new = Evaluated(asked, l, pc)
    BY <1>11, BeginForm
  <2>2. new.out = asked.out /\ new.pc = pc
    BY <2>1 DEF Evaluated, Request
  <2>3. QED
    BY <2>1, <2>2 DEF NotesInStore
<1>12. CASE WriteStandFails(e)
  BY <1>1, <1>2, <1>12 DEF WriteStandFails, Request
<1>13. CASE PersistEditorialFails(e)
  <2> DEFINE other == editorial[req.law] # req.ir.text
  <2>1. new = [req EXCEPT !.otherText = other, !.pc = "final"]
    BY <1>1, <1>13 DEF PersistEditorialFails
  <2>2. new.out = req.out /\ new.law = req.law /\ new.ir = req.ir /\ (new.otherText <=> other)
    BY <1>1, <2>1 DEF Request
  <2>3. QED
    BY <1>1, <2>2 DEF NotesInStore
<1>14. QED
  BY <1>3, <1>4, <1>5, <1>6, <1>7, <1>8, <1>9, <1>10, <1>11, <1>12, <1>13 DEF RequestSteps
(* A write of citations, by an export or a recheck: the requests of the law *)
(* notice it, and the citations of other laws stay as they are.             *)
LEMMA NotesReplaced ==
    ASSUME TypeInv, NotesInv, NEW by, NEW l \in Laws, NEW text,
           editorial' = Persisted(l, text), NEW f \in Exporters, f # by
    PROVE  NotesInStore(Replaced(by, l)[f], editorial')
<1> DEFINE req == request[f]
           new == Replaced(by, l)[f]
<1>1. req \in Request /\ NotesInStore(req, editorial) /\ Carries(req)
  BY DEF TypeInv, NotesInv
<1>2. CASE req.law = l
  <2>1. new = [req EXCEPT !.otherText = TRUE]
    BY <1>2 DEF Replaced
  <2>2. new.otherText /\ new.out = req.out
    BY <1>1, <2>1 DEF Request
  <2>3. QED
    BY <1>1, <2>2 DEF NotesInStore
<1>3. CASE req.law # l
  <2>1. new = req
    BY <1>3 DEF Replaced
  <2>2. req.pc = "final" => editorial'[req.law] = editorial[req.law]
    BY <1>1, <1>3 DEF Persisted, Carries, TypeInv
  <2>3. QED
    BY <1>1, <2>1, <2>2 DEF NotesInStore
<1>4. QED
  BY <1>2, <1>3

LEMMA NotesStep ==
    ASSUME TypeInv, NotesInv, [Next]_vars
    PROVE  NotesInv'
<1>1. /\ \A e \in Exporters : NotesInStore(request[e], editorial) /\ request[e] \in Request /\ Carries(request[e])
      /\ DOMAIN request = Exporters
  BY DEF TypeInv, NotesInv
<1>2. ASSUME UNCHANGED editorial, \A e \in Exporters : NotesInStore(request'[e], editorial)
      PROVE  NotesInv'
  BY <1>2 DEF NotesInv, NotesInStore
<1>3. CASE UNCHANGED vars
  BY <1>1, <1>2, <1>3 DEF vars
<1>4. ASSUME NEW l \in Laws, PublishText(l) PROVE NotesInv'
  BY <1>1, <1>2, <1>4 DEF PublishText
<1>5. ASSUME NEW l \in Laws, NEW n \in Numbers, Amend(l, n) PROVE NotesInv'
  BY <1>1, <1>2, <1>5 DEF Amend
<1>6. ASSUME NEW e \in Exporters, BeginSteps(e) \/ RequestSteps(e) PROVE NotesInv'
  BY <1>1, <1>2, <1>6, RequestOnlySteps, NotesRequestStep, OthersStay
<1>7. ASSUME NEW r \in Recheckers, RecheckSteps(r) PROVE NotesInv'
  BY <1>1, <1>2, <1>7, RecheckOnlySteps
<1>8. ASSUME NEW l, NEW mid, UNCHANGED editorial, request' = StandWritten(l, mid),
             \A f \in Exporters : mid[f] \in Request /\ NotesInStore(mid[f], editorial)
      PROVE  NotesInv'
  <2>1. ASSUME NEW f \in Exporters PROVE NotesInStore(request'[f], editorial)
    <3>1. request'[f] = [mid[f] EXCEPT !.overdue = @ \ {l}]
      BY <1>8 DEF StandWritten
    <3>2. mid[f] \in Request /\ NotesInStore(mid[f], editorial)
      BY <1>8
    <3>3. QED
      BY <3>1, <3>2 DEF NotesInStore, Request
  <2>2. QED
    BY <1>2, <1>8, <2>1
<1>9. ASSUME NEW e \in Exporters, WriteStand(e) PROVE NotesInv'
  <2> DEFINE req == request[e]
             new == [req EXCEPT !.pc = "reEvaluate"]
             mid == [request EXCEPT ![e] = new]
  <2>1. request' = StandWritten(req.law, mid) /\ UNCHANGED editorial
    BY <1>9 DEF WriteStand, RequestOnly
  <2>2. req \in Request /\ NotesInStore(req, editorial)
    BY <1>1
  <2>3. new \in Request /\ NotesInStore(new, editorial)
    <3> HIDE DEF req
    <3> QED
      BY <2>2 DEF Request, RequestPcs, NotesInStore
  <2> HIDE DEF new
  <2>4. \A f \in Exporters : mid[f] \in Request /\ NotesInStore(mid[f], editorial)
    BY <1>1, <2>3
  <2> HIDE DEF mid
  <2>5. QED
    BY <1>8, <2>1, <2>4
<1>10. ASSUME NEW r \in Recheckers, RecheckStand(r) PROVE NotesInv'
  <2>1. request' = StandWritten(recheck[r].law, request) /\ UNCHANGED editorial
    BY <1>10 DEF RecheckStand, RecheckOnly
  <2>2. QED
    BY <1>1, <1>8, <2>1
<1>11. ASSUME NEW e \in Exporters, PutIR(e) PROVE NotesInv'
  <2> DEFINE req == request[e]
             new == [req EXCEPT !.ir = [text |-> req.xml, early |-> req.early], !.pc = "persist"]
  <2>1. request' = [request EXCEPT ![e] = new] /\ UNCHANGED editorial
    BY <1>11 DEF PutIR, RequestOnly
  <2>2. new.out = req.out /\ new.pc = "persist"
    BY <1>1 DEF Request
  <2> HIDE DEF new
  <2>3. NotesInStore(new, editorial)
    BY <1>1, <2>2 DEF NotesInStore
  <2>4. QED
    BY <1>1, <1>2, <2>1, <2>3
<1>12. ASSUME NEW e \in Exporters, PersistEditorial(e) PROVE NotesInv'
  <2> DEFINE req == request[e]
             reqs == Replaced(e, req.law)
             new == [req EXCEPT !.otherText = FALSE, !.pc = "final"]
  <2>1. /\ req.pc = "persist" /\ editorial' = Persisted(req.law, req.ir.text)
        /\ request' = [reqs EXCEPT ![e].otherText = FALSE, ![e].pc = "final"]
    BY <1>12 DEF PersistEditorial, RequestOnly
  <2>2. DOMAIN reqs = Exporters /\ reqs[e] = req
    BY DEF Replaced
  <2>3. request'[e] = new /\ \A f \in Exporters \ {e} : request'[f] = reqs[f]
    BY <2>1, <2>2
  <2>4. req.law \in Laws
    BY <1>1, <2>1 DEF Carries
  <2>5. new.out = req.out /\ new.law = req.law /\ new.ir = req.ir /\ new.pc = "final"
    BY <1>1 DEF Request
  <2>6. Cites[req.law][req.ir.text] = {} \/ editorial'[req.law] = req.ir.text
    BY <2>1, <2>4 DEF Persisted, TypeInv
  <2> HIDE DEF new, reqs
  <2>7. NotesInStore(new, editorial')
    BY <1>1, <2>5, <2>6 DEF NotesInStore
  <2>8. \A f \in Exporters \ {e} : NotesInStore(reqs[f], editorial')
    BY <2>1, <2>4, NotesReplaced DEF reqs
  <2>9. QED
    BY <2>3, <2>7, <2>8 DEF NotesInv
<1>13. ASSUME NEW r \in Recheckers, PersistNotes(r) PROVE NotesInv'
  <2>1. /\ recheck[r].pc = "persist" /\ request' = Replaced(r, recheck[r].law)
        /\ editorial' = Persisted(recheck[r].law, recheck[r].xml)
    BY <1>13 DEF PersistNotes, RecheckOnly
  <2>2. recheck[r].law \in Laws
    BY <2>1 DEF TypeInv, Rechecks
  <2>3. r \notin Exporters
    BY SourcesAssumption
  <2>4. QED
    BY <2>1, <2>2, <2>3, NotesReplaced DEF NotesInv
<1>14. ASSUME NEW r \in Recheckers, Invalidate(r) PROVE NotesInv'
  BY <1>1, <1>2, <1>14 DEF Invalidate, RecheckOnly
<1>15. QED
  BY <1>3, <1>4, <1>5, <1>6, <1>7, <1>9, <1>10, <1>11, <1>12, <1>13, <1>14, StepsOfNext

(* A text that an export labels as current has had the citations of its own *)
(* editorial notes proved, unless somebody else wrote those of the law in   *)
(* between, or the export's own write of them failed while the store held   *)
(* those of another text; the cache does not matter.                        *)
THEOREM LabelledTextIsProved == Spec => []TextIsProved
<1>1. Init => NotesInv
  <2>1. IdleRequest.pc = "idle" /\ DOMAIN IdleRequest.out = {}
    BY DEF IdleRequest
  <2>2. QED
    BY <2>1 DEF Init, NotesInv, NotesInStore
<1>2. TypeInv /\ NotesInv /\ [Next]_vars => NotesInv'
  BY NotesStep
<1>3. NotesInv => TextIsProved
  BY DEF NotesInv, NotesInStore, TextIsProved
<1>4. QED
  BY <1>1, <1>2, <1>3, TypeHolds, PTL DEF Spec
=============================================================================
