----------------------------- MODULE ServeProofs -----------------------------
(***************************************************************************)
(* Theorems about Serve, for any sources, loops, handlers and hosts: the   *)
(* order in which the process starts and stops its goroutines, and that it *)
(* is a user of HttpClient, whose gap it therefore keeps.                  *)
(***************************************************************************)
EXTENDS Serve, HttpClientProofs, SequenceTheorems

ProcRecord == [pc : {"off", "timer", "next", "get", "store"},
               todo : Seq(Sources), src : Sources \cup {NoSource},
               expired : BOOLEAN, late : BOOLEAN]

(* A goroutine is in a Get of the client when it waits for one.            *)
Coupled ==
    \A p \in Goroutines :
        /\ get[p].pc # "none" <=> proc[p].pc = "get"
        /\ proc[p].pc \in {"get", "store"} => proc[p].src \in Sources

(* Loops are started by the initial sync, as its last step.                *)
StartInv ==
    /\ proc[Initial].pc # "timer"
    /\ proc[Initial].pc # "off" => \A s \in Loops : proc[s].pc = "off"

(* Whoever was waited for does not come back: the timer of a loop that     *)
(* begins afterwards was set when the context was done.                    *)
StopInv ==
    /\ main # "serving" => stop
    /\ main \in {"waitStartup", "close", "closed", "gone"} =>
           \A s \in Loops : proc[s].pc = "off" \/ (proc[s].pc = "timer" /\ proc[s].late)
    /\ main \in {"close", "closed", "gone"} => proc[Initial].pc = "off"
    /\ misused \subseteq Handlers

Inv == TypeOK /\ ClientInv /\ Coupled /\ StartInv /\ StopInv

LEMMA Members ==
    /\ Initial \in Goroutines /\ Loops \subseteq Goroutines /\ Handlers \subseteq Goroutines
    /\ Initial \notin Loops /\ Initial \notin Handlers /\ Loops \cap Handlers = {}
    /\ Goroutines = Loops \cup Handlers \cup {Initial}
BY ServeAssumption

LEMMA OffTypes ==
    ASSUME NEW todo \in Seq(Sources)
    PROVE  Off \in ProcRecord /\ Begun(todo) \in ProcRecord
<1>1. <<>> \in Seq(Sources)
  BY EmptySeq
<1>2. Off \in ProcRecord
  BY <1>1 DEF Off, ProcRecord
<1>3. QED
  BY <1>2 DEF Begun, Off, ProcRecord

(* Only the process of main changes.                                       *)
LEMMA MainInv ==
    ASSUME Inv, Signal \/ MainStep
    PROVE  Inv'
<1>1. UNCHANGED <<since, get, proc, asked, synced, misused>>
  BY DEF Signal, MainStep, Shutdown, ShutdownReturns, WaitForLoops, WaitForStartup, Close, Exit
<1>2. TypeOK'
  BY <1>1 DEF Inv, TypeOK, ClientTypeOK, Signal, MainStep, Shutdown, ShutdownReturns, WaitForLoops,
     WaitForStartup, Close, Exit
<1>3. Coupled' /\ StartInv' /\ ClientInv'
  BY <1>1 DEF Inv, Coupled, StartInv, ClientInv, ClientTypeOK, LastIsLatest, GapKept
<1>4. StopInv'
  BY <1>1 DEF Inv, StopInv, Signal, MainStep, Shutdown, ShutdownReturns, WaitForLoops,
     WaitForStartup, Close, Exit
<1>5. QED
  BY <1>2, <1>3, <1>4 DEF Inv

(* A goroutine takes a step of its own; the client may take one with it.   *)
LEMMA ProcInv ==
    ASSUME Inv, NEW p \in Goroutines, NEW r \in ProcRecord, proc' = [proc EXCEPT ![p] = r],
           ClientInv', \A q \in Goroutines : q # p => get'[q] = get[q],
           get'[p].pc # "none" <=> r.pc = "get",
           r.pc \in {"get", "store"} => r.src \in Sources,
           p \in Loops => \/ r.pc = "off"
                          \/ r.pc = "timer" /\ r.late = stop /\ proc[p].pc # "off"
                          \/ r.pc \notin {"timer", "off"} /\ proc[p].pc # "off"
                             /\ ~(proc[p].pc = "timer" /\ proc[p].late),
           p = Initial => r.pc # "timer" /\ proc[p].pc # "off",
           UNCHANGED lifeVars, misused' \subseteq misused \cup ({p} \cap Handlers),
           asked' \in 0..MaxRequests, synced' \subseteq Loops
    PROVE  Inv'
<1> proc \in [Goroutines -> ProcRecord] /\ misused \subseteq Goroutines
  BY DEF Inv, TypeOK, ProcRecord
<1>1. proc'[p] = r /\ \A q \in Goroutines : q # p => proc'[q] = proc[q]
  OBVIOUS
<1>2. proc' \in [Goroutines -> ProcRecord]
  OBVIOUS
<1>3. TypeOK'
  BY <1>2, Members DEF Inv, TypeOK, ProcRecord, lifeVars, ClientInv
<1>4. Coupled'
  BY <1>1 DEF Inv, Coupled
<1>5. StartInv'
  BY <1>1, Members DEF Inv, StartInv
<1>6. StopInv'
  BY <1>1, Members DEF Inv, StopInv, lifeVars
<1>7. QED
  BY <1>3, <1>4, <1>5, <1>6 DEF Inv

LEMMA TimerSteps ==
    ASSUME Inv, NEW p \in Goroutines, Request(p) \/ Fire(p) \/ LoopEnds(p)
    PROVE  Inv'
<1> /\ proc \in [Goroutines -> ProcRecord] /\ asked \in 0..MaxRequests
    /\ synced \subseteq Loops
  BY DEF Inv, TypeOK, ProcRecord
<1>1. UNCHANGED <<since, get, misused, synced, lifeVars>>
  BY DEF Request, Fire, LoopEnds
<1> ClientInv'
  BY <1>1 DEF Inv, ClientInv, ClientTypeOK, LastIsLatest, GapKept
<1>2. proc[p].pc \in {"off", "timer"} /\ get[p].pc = "none"
  BY DEF Inv, Coupled, Request, Fire, LoopEnds
<1>3. CASE Request(p)
  <2>1. Begun(Recheck) \in ProcRecord /\ Begun(Recheck).pc = "next"
    BY ServeAssumption, OffTypes DEF Begun, Off
  <2>2. asked' \in 0..MaxRequests
    BY <1>3, ServeAssumption DEF Request
  <2>3. p \in Handlers /\ proc' = [proc EXCEPT ![p] = Begun(Recheck)]
    BY <1>3 DEF Request
  <2>4. QED
    BY <1>1, <1>2, <2>1, <2>2, <2>3, Members, ProcInv
<1>4. CASE Fire(p)
  <2>1. p \in Loops /\ Loops \subseteq Sources /\ <<p>> \in Seq(Sources)
    BY <1>4, ServeAssumption DEF Fire
  <2>2. Begun(<<p>>) \in ProcRecord /\ Begun(<<p>>).pc = "next"
    BY <2>1, OffTypes DEF Begun, Off
  <2>3. asked' = asked /\ proc' = [proc EXCEPT ![p] = Begun(<<p>>)]
        /\ proc[p].pc = "timer" /\ ~proc[p].late
    BY <1>4 DEF Fire
  <2>4. QED
    BY <1>1, <1>2, <2>1, <2>2, <2>3, Members, ProcInv
<1>5. CASE LoopEnds(p)
  <2>1. Off \in ProcRecord /\ Off.pc = "off"
    BY EmptySeq, OffTypes DEF Off
  <2>2. p \in Loops /\ asked' = asked /\ proc' = [proc EXCEPT ![p] = Off]
    BY <1>5 DEF LoopEnds
  <2>3. QED
    BY <1>1, <1>2, <2>1, <2>2, Members, ProcInv
<1>6. QED
  BY <1>3, <1>4, <1>5


LEMMA FirstSource ==
    ASSUME NEW t \in Seq(Sources), t # <<>>
    PROVE  Head(t) \in Sources /\ Tail(t) \in Seq(Sources)
BY HeadTailProperties

(* The process calls the client as a goroutine may that is in no other Get. *)
LEMMA StepUsesClient ==
    ASSUME Inv, [Next]_vars
    PROVE  [NextClient]_clientVars
<1> proc \in [Goroutines -> ProcRecord]
  BY DEF Inv, TypeOK, ProcRecord
<1>1. CASE Signal \/ MainStep
  BY <1>1 DEF Signal, MainStep, Shutdown, ShutdownReturns, WaitForLoops, WaitForStartup, Close,
     Exit, clientVars
<1>2. CASE Pass
  BY <1>2 DEF Pass, NextClient
<1>3. ASSUME NEW p \in Goroutines, Request(p) \/ Fire(p) \/ LoopEnds(p) \/ Expire(p) \/ Finish(p)
      PROVE  UNCHANGED clientVars
  BY <1>3 DEF Request, Fire, LoopEnds, Expire, Finish, clientVars
<1>4. ASSUME NEW p \in Goroutines, NextSource(p)
      PROVE  [NextClient]_clientVars
  <2> DEFINE s == Head(proc[p].todo)
  <2>1. s \in Sources
    BY <1>4, FirstSource DEF NextSource, ProcRecord
  <2>2. get[p].pc = "none"
    BY <1>4 DEF NextSource, Inv, Coupled
  <2>3. HostOf[s] # NoHost => HostOf[s] \in Hosts
    BY <2>1, ServeAssumption
  <2> HIDE DEF s
  <2>4. since' = since /\ IF HostOf[s] = NoHost THEN UNCHANGED get ELSE AskFor(p, HostOf[s])
    BY <1>4 DEF NextSource, s
  <2>5. QED
    BY <2>2, <2>3, <2>4 DEF NextClient, clientVars
<1>5. ASSUME NEW p \in Goroutines, ClientStep(p)
      PROVE  NextClient
  BY <1>5 DEF ClientStep, NextClient
<1>6. ASSUME NEW p \in Goroutines, Store(p)
      PROVE  [NextClient]_clientVars
  BY <1>6 DEF Store, StoreAs, NextClient, clientVars
<1>7. CASE UNCHANGED vars
  BY <1>7 DEF vars, clientVars
<1>8. QED
  BY <1>1, <1>2, <1>3, <1>4, <1>5, <1>6, <1>7 DEF Next, Proceed

LEMMA NextSourceInv ==
    ASSUME Inv, ClientInv', NEW p \in Goroutines, NextSource(p)
    PROVE  Inv'
<1> DEFINE q == proc[p]
           s == Head(q.todo)
           pc == IF HostOf[s] = NoHost THEN "store" ELSE "get"
           r == [q EXCEPT !.todo = Tail(q.todo), !.src = s, !.pc = pc]
<1> /\ proc \in [Goroutines -> ProcRecord] /\ asked \in 0..MaxRequests
    /\ synced \subseteq Loops /\ get \in [Goroutines -> GetRecord]
  BY DEF Inv, TypeOK, ProcRecord, ClientTypeOK
<1>1. s \in Sources /\ Tail(q.todo) \in Seq(Sources) /\ q.pc = "next" /\ q \in ProcRecord
  BY FirstSource DEF NextSource, ProcRecord
<1>2. r \in ProcRecord /\ r.pc = pc /\ r.src = s
  BY <1>1 DEF ProcRecord
<1>3. get[p].pc = "none"
  BY <1>1 DEF Inv, Coupled
<1>4. /\ proc' = [proc EXCEPT ![p] = r] /\ UNCHANGED <<lifeVars, asked, synced, misused>>
      /\ IF HostOf[s] = NoHost THEN UNCHANGED get ELSE AskFor(p, HostOf[s])
  BY DEF NextSource
<1> HIDE DEF s, r
<1>5. /\ \A f \in Goroutines : f # p => get'[f] = get[f]
      /\ get'[p].pc # "none" <=> r.pc = "get"
  BY <1>2, <1>3, <1>4 DEF AskFor, GetRecord
<1>6. QED
  BY <1>1, <1>2, <1>4, <1>5, ProcInv

LEMMA ClientStepsInv ==
    ASSUME Inv, ClientInv', NEW p \in Goroutines, ClientStep(p)
    PROVE  Inv'
<1> /\ proc \in [Goroutines -> ProcRecord] /\ get \in [Goroutines -> GetRecord]
  BY DEF Inv, TypeOK, ProcRecord, ClientTypeOK
<1>1. UNCHANGED <<lifeVars, proc, asked, synced, misused>>
  BY DEF ClientStep
<1>2. proc[p].pc = "get" /\ get'[p].pc # "none" /\ \A f \in Goroutines : f # p => get'[f] = get[f]
  BY DEF ClientStep, Grant, Sleep, Wake, GiveUp, Answer, GetRecord
<1>3. TypeOK'
  BY <1>1 DEF Inv, TypeOK, ClientInv, lifeVars
<1>4. Coupled'
  BY <1>1, <1>2 DEF Inv, Coupled
<1>5. StartInv' /\ StopInv'
  BY <1>1 DEF Inv, StartInv, StopInv, lifeVars
<1>6. QED
  BY <1>3, <1>4, <1>5 DEF Inv

LEMMA ExpireInv ==
    ASSUME Inv, ClientInv', NEW p \in Goroutines, Expire(p)
    PROVE  Inv'
<1> DEFINE r == [proc[p] EXCEPT !.expired = TRUE]
<1> /\ proc \in [Goroutines -> ProcRecord] /\ asked \in 0..MaxRequests /\ synced \subseteq Loops
  BY DEF Inv, TypeOK, ProcRecord
<1>1. r \in ProcRecord /\ r.pc = proc[p].pc /\ r.src = proc[p].src
  BY DEF ProcRecord
<1>2. /\ proc' = [proc EXCEPT ![p] = r] /\ get' = get /\ p \notin Loops
      /\ UNCHANGED <<lifeVars, asked, synced, misused>> /\ get[p].pc = "send"
  BY DEF Expire
<1>3. /\ proc[p].pc = "get"
      /\ r.src \in Sources
  BY <1>1, <1>2 DEF Inv, Coupled
<1> HIDE DEF r
<1>4. QED
  BY <1>1, <1>2, <1>3, ProcInv

LEMMA StoreInv ==
    ASSUME Inv, ClientInv', NEW p \in Goroutines, NEW ok \in BOOLEAN, StoreAs(p, ok)
    PROVE  Inv'
<1> DEFINE q == proc[p]
           s == q.src
           rest == IF ~ok /\ p \in Handlers /\ (q.expired \/ q.pc = "store") THEN <<>>
                   ELSE IF ~ok /\ p \notin Loops /\ Fallback[s] # NoSource
                   THEN <<Fallback[s]>> \o q.todo ELSE q.todo
           r == [q EXCEPT !.pc = "next", !.src = NoSource, !.todo = rest]
<1> /\ proc \in [Goroutines -> ProcRecord] /\ asked \in 0..MaxRequests
    /\ synced \subseteq Loops /\ get \in [Goroutines -> GetRecord]
  BY DEF Inv, TypeOK, ProcRecord, ClientTypeOK
<1>1. q \in ProcRecord /\ q.pc \in {"get", "store"} /\ s \in Sources
  BY DEF StoreAs, Inv, Coupled
<1>2. rest \in Seq(Sources)
  <2>1. <<>> \in Seq(Sources) /\ q.todo \in Seq(Sources)
    BY <1>1, EmptySeq DEF ProcRecord
  <2>2. Fallback[s] # NoSource => <<Fallback[s]>> \o q.todo \in Seq(Sources)
    <3>1. Fallback[s] # NoSource => <<Fallback[s]>> \in Seq(Sources)
      BY <1>1, ServeAssumption
    <3>2. QED
      BY <2>1, <3>1, ConcatProperties
  <2>3. QED
    BY <2>1, <2>2
<1>3. /\ proc' = [proc EXCEPT ![p] = r] /\ UNCHANGED <<lifeVars, asked>>
  BY DEF StoreAs
<1>4. /\ misused' \subseteq misused \cup {p} /\ (main # "closed" => misused' = misused)
      /\ synced' \subseteq Loops
  BY DEF StoreAs
<1>5. main = "closed" => p \in Handlers
  BY <1>1, Members DEF Inv, StopInv
<1>6. /\ \A f \in Goroutines : f # p => get'[f] = get[f]
      /\ get'[p].pc = "none"
  BY DEF StoreAs, Return, Inv, Coupled, GetRecord
<1> HIDE DEF rest
<1>7. r \in ProcRecord /\ r.pc = "next"
  BY <1>1, <1>2 DEF ProcRecord
<1> HIDE DEF r
<1>8. QED
  BY <1>1, <1>3, <1>4, <1>5, <1>6, <1>7, ProcInv

LEMMA FinishInv ==
    ASSUME Inv, ClientInv', NEW p \in Goroutines, Finish(p)
    PROVE  Inv'
<1> DEFINE timer == [Off EXCEPT !.pc = "timer", !.late = stop]
           set == IF p = Initial THEN Loops ELSE {p} \cap Loops
<1> /\ proc \in [Goroutines -> ProcRecord] /\ asked \in 0..MaxRequests
    /\ synced \subseteq Loops /\ get \in [Goroutines -> GetRecord] /\ stop \in BOOLEAN
  BY DEF Inv, TypeOK, ProcRecord, ClientTypeOK
<1>1. UNCHANGED <<since, get, lifeVars, asked, synced, misused>> /\ proc[p].pc = "next"
  BY DEF Finish
<1>2. /\ timer \in ProcRecord /\ timer.pc = "timer" /\ timer.late = stop
      /\ Off \in ProcRecord /\ Off.pc = "off"
  BY OffTypes, EmptySeq DEF Off, ProcRecord
<1>3. proc' = [q \in Goroutines |-> IF q \in set THEN timer ELSE IF q = p THEN Off ELSE proc[q]]
  BY DEF Finish
<1>4. set \subseteq Loops /\ (p # Initial => set \subseteq {p}) /\ (p \in Loops => p \in set)
  BY Members
<1> HIDE DEF timer, set
<1>5. proc' \in [Goroutines -> ProcRecord]
  BY <1>2, <1>3
<1>6. TypeOK'
  BY <1>1, <1>5 DEF Inv, TypeOK, ClientInv, ProcRecord, lifeVars
<1>7. Coupled'
  <2>1. get[p].pc = "none"
    BY <1>1 DEF Inv, Coupled
  <2>2. \A q \in set : get[q].pc = "none"
    <3>1. CASE p = Initial
      BY <1>1, <1>4, <3>1, Members DEF Inv, Coupled, StartInv
    <3>2. CASE p # Initial
      BY <1>4, <2>1, <3>2
    <3>3. QED
      BY <3>1, <3>2
  <2>3. QED
    BY <1>1, <1>2, <1>3, <2>1, <2>2 DEF Inv, Coupled
<1>8. StartInv'
  <2>1. CASE p = Initial
    BY <1>2, <1>3, <1>4, <2>1, Members DEF StartInv
  <2>2. CASE p # Initial
    <3>1. proc'[Initial] = proc[Initial]
      BY <1>3, <1>4, <2>2, Members
    <3>2. p \in Loops => proc[Initial].pc = "off"
      BY <1>1 DEF Inv, StartInv
    <3>3. p \notin Loops => \A s \in Loops : proc'[s] = proc[s]
      BY <1>3, <1>4, <2>2, Members
    <3>4. QED
      BY <3>1, <3>2, <3>3 DEF Inv, StartInv
  <2>3. QED
    BY <2>1, <2>2
<1>9. StopInv'
  <2>1. ASSUME main \in {"waitStartup", "close", "closed", "gone"}, NEW s \in Loops
        PROVE  proc'[s].pc = "off" \/ (proc'[s].pc = "timer" /\ proc'[s].late)
    <3>1. stop
      BY <2>1 DEF Inv, StopInv
    <3>2. QED
      BY <1>2, <1>3, <2>1, <3>1, Members DEF Inv, StopInv
  <2>2. ASSUME main \in {"close", "closed", "gone"}
        PROVE  proc'[Initial].pc = "off"
    BY <1>1, <1>2, <1>3, <1>4, <2>2, Members DEF Inv, StopInv
  <2>3. QED
    BY <1>1, <2>1, <2>2 DEF Inv, StopInv, lifeVars
<1>10. QED
  BY <1>6, <1>7, <1>8, <1>9 DEF Inv

LEMMA PassInv ==
    ASSUME Inv, ClientInv', Pass
    PROVE  Inv'
<1>1. UNCHANGED <<lifeVars, proc, asked, synced, misused>>
  BY DEF Pass
<1>2. ASSUME NEW g \in Goroutines
      PROVE  get'[g].pc = get[g].pc
  <2>1. get'[g] = AfterTick(get[g]) /\ get[g] \in GetRecord
    BY DEF Pass, Tick, Inv, ClientInv, ClientTypeOK
  <2> DEFINE timer == IF get[g].timer > 0 THEN get[g].timer - 1 ELSE 0
             age == Later(get[g].age)
             r == [get[g] EXCEPT !.timer = timer, !.age = age]
  <2>2. AfterTick(get[g]) = r
    BY DEF AfterTick
  <2> HIDE DEF timer, age
  <2>3. r.pc = get[g].pc
    BY <2>1 DEF GetRecord
  <2>4. QED
    BY <2>1, <2>2, <2>3
<1>3. TypeOK'
  BY <1>1 DEF Inv, TypeOK, ClientInv, lifeVars
<1>4. Coupled' /\ StartInv' /\ StopInv'
  BY <1>1, <1>2 DEF Inv, Coupled, StartInv, StopInv, lifeVars
<1>5. QED
  BY <1>3, <1>4 DEF Inv

LEMMA InvInit == Init => Inv
<1> SUFFICES ASSUME Init PROVE Inv
  OBVIOUS
<1>1. ClientInv
  BY ClientInit DEF Init
<1>2. Begun(Startup) \in ProcRecord /\ Begun(Startup).pc = "next" /\ Off \in ProcRecord
      /\ Off.pc = "off"
  BY OffTypes, ServeAssumption, EmptySeq DEF Begun, Off
<1>3. proc \in [Goroutines -> ProcRecord]
  BY <1>2 DEF Init
<1>4. TypeOK
  <2>1. asked \in 0..MaxRequests
    BY ServeAssumption DEF Init
  <2>2. synced \subseteq Loops /\ misused \subseteq Goroutines
    BY DEF Init
  <2>3. main = "serving" /\ stop = FALSE /\ server = "up"
    BY DEF Init
  <2>4. QED
    BY <1>1, <1>3, <2>1, <2>2, <2>3 DEF TypeOK, ClientInv, ProcRecord
<1>5. Coupled
  BY <1>2 DEF Init, Coupled, InitClient, NoGet
<1>6. StartInv /\ StopInv
  BY <1>2, Members DEF Init, StartInv, StopInv
<1>7. QED
  BY <1>1, <1>4, <1>5, <1>6 DEF Inv

LEMMA InvStep ==
    ASSUME Inv, [Next]_vars
    PROVE  Inv'
<1>1. ClientInv'
  BY StepUsesClient, ClientStepInv DEF Inv
<1>2. CASE UNCHANGED vars
  BY <1>1, <1>2 DEF vars, Inv, TypeOK, ClientInv, Coupled, StartInv, StopInv
<1>3. QED
  BY <1>1, <1>2, MainInv, PassInv, TimerSteps, NextSourceInv, ClientStepsInv, StoreInv, FinishInv,
     ExpireInv DEF Next, Proceed, Store

THEOREM Invariant == Spec => []Inv
<1>1. QED
  BY InvInit, InvStep, PTL DEF Spec

-----------------------------------------------------------------------------
(* The properties of the run.                                              *)

(* No sequence of signals, rechecks, timers and deadlines leaves a         *)
(* goroutine of serve in a state of another shape.                         *)
THEOREM TypeCorrect == Spec => []TypeOK
<1>1. Inv => TypeOK
  BY DEF Inv
<1>2. QED
  BY <1>1, Invariant, PTL

(* InitialSync and the loop of a source never run at once, because         *)
(* StartBackground is the last thing the goroutine of InitialSync does.    *)
THEOREM OneRun == Spec => []OneRunPerSource
<1>1. Inv => OneRunPerSource
  BY DEF Inv, StartInv, OneRunPerSource, Running
<1>2. QED
  BY <1>1, Invariant, PTL

(* After WaitForLoops and WaitForStartup nothing in the background comes   *)
(* back to the store, for any number of loops and at any moment of signal. *)
THEOREM BackgroundIsThrough == Spec => []BackgroundStopsFirst
<1>1. Inv => BackgroundStopsFirst
  BY Members DEF Inv, StopInv, BackgroundStopsFirst, Background, Running
<1>2. QED
  BY <1>1, Invariant, PTL

(* Serve implements the specification of the client's users.               *)
THEOREM IsUserOfClient == Spec => UsesClient
<1>1. Init => InitClient
  BY DEF Init
<1>2. Inv /\ [Next]_vars => [NextClient]_clientVars
  BY StepUsesClient
<1>3. QED
  BY <1>1, <1>2, Invariant, PTL DEF Spec, UsesClient, ClientSpec

(* So the gap of waitHost is kept in the process: InitialSync, loops and   *)
(* handlers together never ask a host twice within it.                     *)
THEOREM GapInProcess == Spec => []GapKept
<1>1. QED
  BY IsUserOfClient, GapIsKept, PTL DEF UsesClient
=============================================================================
