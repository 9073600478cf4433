-------------------------- MODULE HttpClientProofs --------------------------
(***************************************************************************)
(* Theorems about HttpClient, for any goroutines, hosts and minimal gap.   *)
(***************************************************************************)
EXTENDS HttpClient, TLAPS

(* The last slot of a host is not older than any slot a goroutine holds.   *)
LastIsLatest ==
    \A g \in Goroutines : get[g].at \in Hosts => since[get[g].at] <= get[g].age

ClientInv == ClientTypeOK /\ LastIsLatest /\ GapKept

LEMMA LaterBound ==
    ASSUME NEW n \in 0..MinGap, NEW m \in 0..MinGap
    PROVE  /\ Later(n) \in 0..MinGap
           /\ n <= m => Later(n) <= Later(m)
           /\ n = MinGap => Later(n) = MinGap
BY GapAssumption DEF Later

LEMMA ClientInit == InitClient => ClientInv
<1> SUFFICES ASSUME InitClient PROVE ClientInv
  OBVIOUS
<1>1. NoGet \in GetRecord
  BY GapAssumption DEF NoGet, GetRecord
<1>2. ClientTypeOK
  BY <1>1, GapAssumption DEF InitClient, ClientTypeOK, NoGet
<1>3. \A g \in Goroutines : get[g].at \notin Hosts
  BY HostAssumption DEF InitClient, NoGet
<1>4. QED
  BY <1>2, <1>3 DEF ClientInv, LastIsLatest, GapKept

(* A step of one goroutine that is given no slot.                          *)
LEMMA NoSlotStep ==
    ASSUME ClientInv, NEW g \in Goroutines, NEW r \in GetRecord,
           get' = [get EXCEPT ![g] = r], since' = since,
           r.at = get[g].at, r.age = get[g].age,
           r.pc \notin {"none", "done"} => r.host \in Hosts
    PROVE  ClientInv'
<1> get \in [Goroutines -> GetRecord]
  BY DEF ClientInv, ClientTypeOK
<1>1. ClientTypeOK'
  BY DEF ClientInv, ClientTypeOK
<1>2. \A f \in Goroutines : get'[f].at = get[f].at /\ get'[f].age = get[f].age
  OBVIOUS
<1>3. LastIsLatest' /\ GapKept'
  BY <1>2 DEF ClientInv, LastIsLatest, GapKept
<1>4. QED
  BY <1>1, <1>3 DEF ClientInv

LEMMA GrantStep ==
    ASSUME ClientInv, NEW g \in Goroutines, Grant(g)
    PROVE  ClientInv'
<1> DEFINE h == get[g].host
           r == [get[g] EXCEPT !.pc = "send", !.at = h, !.age = 0]
<1>1. /\ get \in [Goroutines -> GetRecord] /\ since \in [Hosts -> 0..MinGap]
      /\ get[g] \in GetRecord /\ h \in Hosts /\ since[h] >= MinGap
  BY DEF ClientInv, ClientTypeOK, Grant, Granted
<1>2. get' = [get EXCEPT ![g] = r] /\ since' = [since EXCEPT ![h] = 0]
  BY DEF Grant
<1>3. r \in GetRecord /\ r.host = h /\ r.at = h /\ r.age = 0
  <2>1. 0 \in 0..MinGap /\ get[g] \in GetRecord /\ h \in Hosts
    BY <1>1, GapAssumption
  <2>2. r.host = h
    BY <2>1 DEF GetRecord
  <2> HIDE DEF h
  <2>3. r \in GetRecord /\ r.at = h /\ r.age = 0
    BY <2>1 DEF GetRecord
  <2>4. QED
    BY <2>2, <2>3
<1> HIDE DEF r
<1>4. ClientTypeOK'
  <2>1. since' \in [Hosts -> 0..MinGap]
    BY <1>1, <1>2, GapAssumption
  <2>2. get' \in [Goroutines -> GetRecord]
    BY <1>1, <1>2, <1>3
  <2>3. \A f \in Goroutines : get'[f].pc \notin {"none", "done"} => get'[f].host \in Hosts
    BY <1>1, <1>2, <1>3 DEF ClientInv, ClientTypeOK
  <2>4. QED
    BY <2>1, <2>2, <2>3 DEF ClientTypeOK
<1>5. \A f \in Goroutines : f # g => get'[f] = get[f]
  BY <1>2
<1>6. get'[g] = r
  BY <1>1, <1>2
(* Whoever was given an older slot of the host has had it for a gap.       *)
<1>7. \A f \in Goroutines : get[f].at = h => get[f].age = MinGap
  BY <1>1, GapAssumption DEF ClientInv, LastIsLatest, GetRecord
<1>8. LastIsLatest'
  BY <1>1, <1>2, <1>3, <1>5, <1>6, GapAssumption DEF ClientInv, LastIsLatest, GetRecord
<1>9. GapKept'
  BY <1>3, <1>5, <1>6, <1>7 DEF ClientInv, GapKept
<1>10. QED
  BY <1>4, <1>8, <1>9 DEF ClientInv

LEMMA TickStep ==
    ASSUME ClientInv, Tick
    PROVE  ClientInv'
<1>1. get \in [Goroutines -> GetRecord] /\ since \in [Hosts -> 0..MinGap]
  BY DEF ClientInv, ClientTypeOK
<1>2. ASSUME NEW g \in Goroutines
      PROVE  /\ get'[g] \in GetRecord /\ get'[g].pc = get[g].pc /\ get'[g].host = get[g].host
             /\ get'[g].at = get[g].at /\ get'[g].age = Later(get[g].age)
  <2>1. get[g] \in GetRecord /\ get'[g] = AfterTick(get[g])
    BY <1>1 DEF Tick
  <2>2. Later(get[g].age) \in 0..MinGap
    BY <2>1, LaterBound DEF GetRecord
  <2> DEFINE timer == IF get[g].timer > 0 THEN get[g].timer - 1 ELSE 0
             r == [get[g] EXCEPT !.timer = timer, !.age = Later(get[g].age)]
  <2>3. timer \in 0..MinGap
    BY <2>1, GapAssumption DEF GetRecord
  <2>4. AfterTick(get[g]) = r
    BY DEF AfterTick
  <2> HIDE DEF timer
  <2>5. /\ r \in GetRecord /\ r.pc = get[g].pc /\ r.host = get[g].host
        /\ r.at = get[g].at /\ r.age = Later(get[g].age)
    BY <2>1, <2>2, <2>3 DEF GetRecord
  <2>6. QED
    BY <2>1, <2>4, <2>5
<1>3. \A h \in Hosts : since'[h] = Later(since[h]) /\ since'[h] \in 0..MinGap
  BY <1>1, LaterBound DEF Tick
<1>4. ClientTypeOK'
  <2>1. get' = [g \in Goroutines |-> AfterTick(get[g])] /\ since' = [h \in Hosts |-> Later(since[h])]
    BY DEF Tick
  <2>2. get' \in [Goroutines -> GetRecord] /\ since' \in [Hosts -> 0..MinGap]
    BY <1>2, <1>3, <2>1
  <2>3. QED
    BY <1>2, <2>2 DEF ClientInv, ClientTypeOK
<1>5. LastIsLatest'
  <2> SUFFICES ASSUME NEW g \in Goroutines, get[g].at \in Hosts
               PROVE  Later(since[get[g].at]) <= Later(get[g].age)
    BY <1>2, <1>3 DEF LastIsLatest
  <2>1. since[get[g].at] <= get[g].age
    BY DEF ClientInv, LastIsLatest
  <2>2. QED
    BY <1>1, <2>1, LaterBound DEF GetRecord
<1>6. GapKept'
  <2>1. \A g \in Goroutines : get[g].age = MinGap => get'[g].age = MinGap
    BY <1>1, <1>2, LaterBound DEF GetRecord
  <2>2. QED
    BY <1>2, <2>1 DEF ClientInv, GapKept
<1>7. QED
  BY <1>4, <1>5, <1>6 DEF ClientInv

LEMMA ClientStepInv ==
    ASSUME ClientInv, [NextClient]_clientVars
    PROVE  ClientInv'
<1> get \in [Goroutines -> GetRecord] /\ since \in [Hosts -> 0..MinGap]
  BY DEF ClientInv, ClientTypeOK
<1>1. CASE UNCHANGED clientVars
  BY <1>1 DEF clientVars, ClientInv, ClientTypeOK, LastIsLatest, GapKept
<1>2. CASE Tick
  BY <1>2, TickStep
<1>3. ASSUME NEW g \in Goroutines, NEW h \in Hosts, AskFor(g, h), since' = since
      PROVE  ClientInv'
  <2> DEFINE r == [get[g] EXCEPT !.pc = "check", !.host = h]
  <2>1. r \in GetRecord /\ r.at = get[g].at /\ r.age = get[g].age /\ r.host \in Hosts
    BY DEF GetRecord
  <2>2. get' = [get EXCEPT ![g] = r]
    BY <1>3 DEF AskFor
  <2> HIDE DEF r
  <2>3. QED
    BY <1>3, <2>1, <2>2, NoSlotStep
<1>4. ASSUME NEW g \in Goroutines, Sleep(g)
      PROVE  ClientInv'
  <2> DEFINE r == [get[g] EXCEPT !.pc = "sleep", !.timer = MinGap - since[get[g].host]]
  <2>1. get[g].pc = "check" /\ get[g].host \in Hosts /\ since' = since
    BY <1>4 DEF Sleep, ClientInv, ClientTypeOK
  <2>2. MinGap - since[get[g].host] \in 0..MinGap
    BY <2>1, GapAssumption
  <2>3. r \in GetRecord /\ r.at = get[g].at /\ r.age = get[g].age /\ r.host \in Hosts
    BY <2>1, <2>2 DEF GetRecord
  <2>4. get' = [get EXCEPT ![g] = r]
    BY <1>4 DEF Sleep
  <2> HIDE DEF r
  <2>5. QED
    BY <2>1, <2>3, <2>4, NoSlotStep
<1>5. ASSUME NEW g \in Goroutines, Wake(g)
      PROVE  ClientInv'
  <2> DEFINE r == [get[g] EXCEPT !.pc = "check"]
  <2>1. get[g].pc = "sleep" /\ get[g].host \in Hosts /\ since' = since
    BY <1>5 DEF Wake, ClientInv, ClientTypeOK
  <2>2. r \in GetRecord /\ r.at = get[g].at /\ r.age = get[g].age /\ r.host \in Hosts
    BY <2>1 DEF GetRecord
  <2>3. get' = [get EXCEPT ![g] = r]
    BY <1>5 DEF Wake
  <2> HIDE DEF r
  <2>4. QED
    BY <2>1, <2>2, <2>3, NoSlotStep
<1>6. ASSUME NEW g \in Goroutines, NEW ok \in BOOLEAN, GiveUp(g) \/ Answer(g, ok)
      PROVE  ClientInv'
  <2>1. PICK b \in BOOLEAN : get' = [get EXCEPT ![g] = [get[g] EXCEPT !.pc = "done", !.ok = b]]
    BY <1>6 DEF GiveUp, Answer
  <2> DEFINE r == [get[g] EXCEPT !.pc = "done", !.ok = b]
  <2>2. r \in GetRecord /\ r.at = get[g].at /\ r.age = get[g].age /\ r.pc = "done"
    BY DEF GetRecord
  <2>3. get' = [get EXCEPT ![g] = r] /\ since' = since
    BY <1>6, <2>1 DEF GiveUp, Answer
  <2> HIDE DEF r
  <2>4. QED
    BY <2>2, <2>3, NoSlotStep
<1>7. ASSUME NEW g \in Goroutines, Return(g), since' = since
      PROVE  ClientInv'
  <2> DEFINE r == [get[g] EXCEPT !.pc = "none", !.host = NoHost, !.ok = FALSE]
  <2>1. r \in GetRecord /\ r.at = get[g].at /\ r.age = get[g].age /\ r.pc = "none"
    BY DEF GetRecord
  <2>2. get' = [get EXCEPT ![g] = r]
    BY <1>7 DEF Return
  <2> HIDE DEF r
  <2>3. QED
    BY <1>7, <2>1, <2>2, NoSlotStep
<1>8. QED
  BY <1>1, <1>2, <1>3, <1>4, <1>5, <1>6, <1>7, GrantStep DEF NextClient

(* Two slots of a host are MinGap apart, for any number of callers: that   *)
(* waitHost asks again after its sleep, under the mutex, is enough.        *)
THEOREM GapIsKept == ClientSpec => []GapKept
<1>1. InitClient => ClientInv
  BY ClientInit
<1>2. ClientInv /\ [NextClient]_clientVars => ClientInv'
  BY ClientStepInv
<1>3. ClientInv => GapKept
  BY DEF ClientInv
<1>4. QED
  BY <1>1, <1>2, <1>3, PTL DEF ClientSpec

THEOREM ClientTypeCorrect == ClientSpec => []ClientTypeOK
<1>1. InitClient => ClientInv
  BY ClientInit
<1>2. ClientInv /\ [NextClient]_clientVars => ClientInv'
  BY ClientStepInv
<1>3. ClientInv => ClientTypeOK
  BY DEF ClientInv
<1>4. QED
  BY <1>1, <1>2, <1>3, PTL DEF ClientSpec
=============================================================================
