------------------------------- MODULE Serve --------------------------------
(***************************************************************************)
(* The process gesetzeswache serve: main, the HTTP server with its         *)
(* handlers, InitialSync, the loops of StartBackground, and the HTTP       *)
(* client they share (HttpClient).  What a run of a source does with the   *)
(* answer is in SyncMeta, GazetteStore and Catalog; here it is its last    *)
(* write to the store, stamp or attempt.                                   *)
(***************************************************************************)
EXTENDS HttpClient, Sequences

CONSTANTS
    Sources,   \* the feeds and probes, and Reconcile
    Loops,     \* the sources that have a loop, which bears their name
    HostOf,    \* the host a source asks, NoHost for Reconcile
    Startup,   \* InitialSync: a sequence of sources
    Recheck,   \* ForceRecheck: a sequence of sources
    Fallback,  \* the source that is run if one fails: ELI for BGBl, or NoSource
    Handlers,  \* goroutines of the HTTP server in a recheck
    Initial,   \* the goroutine of InitialSync
    MaxRequests \* bound on the rechecks that are asked for

NoSource == "none"

ASSUME ServeAssumption ==
    /\ Loops \subseteq Sources /\ Goroutines = Loops \cup Handlers \cup {Initial}
    /\ Initial \notin Loops \cup Handlers /\ Loops \cap Handlers = {}
    /\ HostOf \in [Sources -> Hosts \cup {NoHost}]
    /\ Startup \in Seq(Sources) /\ Recheck \in Seq(Sources)
    /\ Fallback \in [Sources -> Sources \cup {NoSource}] /\ NoSource \notin Sources
    /\ MaxRequests \in Nat

VARIABLES
    main,     \* where serve stands
    stop,     \* the context of serve is done
    server,   \* whether the HTTP server accepts requests
    proc,     \* where each goroutine stands
    asked,    \* how many rechecks were asked for
    synced,   \* the sources that had success since the start
    misused   \* goroutines that used the store after it was closed (history)

vars == <<since, get, main, stop, server, proc, asked, synced, misused>>
lifeVars == <<main, stop, server>>

Background == Loops \cup {Initial}
Off == [pc |-> "off", todo |-> <<>>, src |-> NoSource, expired |-> FALSE, late |-> FALSE]
Begun(todo) == [Off EXCEPT !.pc = "next", !.todo = todo]

Running(p) == proc[p].pc \notin {"off", "timer"}
CtxDone(p) == proc[p].expired \/ (p \in Background /\ stop)
-----------------------------------------------------------------------------
(* The life of the process.                                                *)

(* A signal, or ListenAndServe fails: both cancel the context.             *)
Signal ==
    /\ ~stop /\ stop' = TRUE
    /\ \E s \in {server, "failed"} : server' = s
    /\ UNCHANGED <<since, get, main, proc, asked, synced, misused>>

(* Shutdown: no new requests; it returns when the handlers have ended or   *)
(* after ten seconds.                                                      *)
Shutdown ==
    /\ main = "serving" /\ stop
    /\ main' = "shutdown" /\ server' = "down"
    /\ UNCHANGED <<since, get, stop, proc, asked, synced, misused>>

ShutdownReturns ==
    /\ main = "shutdown"
    /\ main' = "wait"
    /\ UNCHANGED <<since, get, stop, server, proc, asked, synced, misused>>

(* orch.Wait: every loop started so far has ended.                         *)
WaitForLoops ==
    /\ main = "wait"
    /\ \A s \in Loops : proc[s].pc = "off"
    /\ main' = "waitStartup"
    /\ UNCHANGED <<since, get, stop, server, proc, asked, synced, misused>>

(* Mutant of WaitForStartup: without the second WaitGroup.                 *)
MutantNoStartupWait ==
    /\ main = "waitStartup" /\ main' = "close"
    /\ UNCHANGED <<since, get, stop, server, proc, asked, synced, misused>>

WaitForStartup ==
    /\ main = "waitStartup"
    /\ proc[Initial].pc = "off"
    /\ main' = "close"
    /\ UNCHANGED <<since, get, stop, server, proc, asked, synced, misused>>

(* The deferred Close; until the process is gone others still run.         *)
Close ==
    /\ main = "close"
    /\ main' = "closed"
    /\ UNCHANGED <<since, get, stop, server, proc, asked, synced, misused>>

Exit ==
    /\ main = "closed"
    /\ main' = "gone"
    /\ UNCHANGED <<since, get, stop, server, proc, asked, synced, misused>>

MainStep == Shutdown \/ ShutdownReturns \/ WaitForLoops \/ WaitForStartup \/ Close \/ Exit
-----------------------------------------------------------------------------
(* Goroutines.                                                             *)

Alive == main # "gone"

(* A request for a recheck, while the server accepts.                      *)
Request(p) ==
    /\ Alive /\ server = "up" /\ p \in Handlers /\ proc[p].pc = "off"
    /\ asked < MaxRequests /\ asked' = asked + 1
    /\ proc' = [proc EXCEPT ![p] = Begun(Recheck)]
    /\ UNCHANGED <<since, get, lifeVars, synced, misused>>

(* The timer of a loop.  The select of one that is set when the context is *)
(* done already takes ctx.Done, for its period has not passed (field late).*)
Fire(p) ==
    /\ Alive /\ p \in Loops /\ proc[p].pc = "timer" /\ ~proc[p].late
    /\ proc' = [proc EXCEPT ![p] = Begun(<<p>>)]
    /\ UNCHANGED <<since, get, lifeVars, asked, synced, misused>>

(* Mutant of LoopEnds: the context is looked at when the timer fires only.  *)
MutantEndsOnTick(p) ==
    /\ Alive /\ p \in Loops /\ proc[p].pc = "timer" /\ stop /\ ~proc[p].late
    /\ proc' = [proc EXCEPT ![p] = Off]
    /\ UNCHANGED <<since, get, lifeVars, asked, synced, misused>>

LoopEnds(p) ==
    /\ Alive /\ p \in Loops /\ proc[p].pc = "timer" /\ stop
    /\ proc' = [proc EXCEPT ![p] = Off]
    /\ UNCHANGED <<since, get, lifeVars, asked, synced, misused>>

(* The next source of a run; Reconcile asks nobody.                        *)
NextSource(p) ==
    /\ Alive /\ proc[p].pc = "next" /\ proc[p].todo # <<>>
    /\ LET s == Head(proc[p].todo) IN
           /\ proc' = [proc EXCEPT ![p].todo = Tail(@), ![p].src = s,
                                   ![p].pc = IF HostOf[s] = NoHost THEN "store" ELSE "get"]
           /\ IF HostOf[s] = NoHost THEN UNCHANGED get ELSE AskFor(p, HostOf[s])
    /\ UNCHANGED <<since, lifeVars, asked, synced, misused>>

(* The steps of the client.  A deadline is minutes, a gap a quarter of a   *)
(* second: a deadline passes while an answer is awaited.                   *)
ClientStep(p) ==
    /\ Alive /\ proc[p].pc = "get"
    /\ Grant(p) \/ Sleep(p) \/ Wake(p) \/ (CtxDone(p) /\ GiveUp(p)) \/ Answer(p, FALSE)
           \/ (~CtxDone(p) /\ Answer(p, TRUE))
    /\ UNCHANGED <<lifeVars, proc, asked, synced, misused>>

(* Mutant of Expire: a Get that asks for its slot is ended from outside.   *)
MutantCutGet(p) ==
    /\ Alive /\ get[p].pc \in {"check", "send"} /\ p \notin Loops /\ ~proc[p].expired
    /\ proc' = [proc EXCEPT ![p].expired = TRUE]
    /\ get' = [get EXCEPT ![p].pc = "done"]
    /\ UNCHANGED <<since, lifeVars, asked, synced, misused>>

Expire(p) ==
    /\ Alive /\ get[p].pc = "send" /\ p \notin Loops /\ ~proc[p].expired
    /\ proc' = [proc EXCEPT ![p].expired = TRUE]
    /\ UNCHANGED <<since, get, lifeVars, asked, synced, misused>>

(* The stamp of a success or the attempt of a failure.  A recheck whose    *)
(* deadline has passed ends there; a failed source has its fallback.  A     *)
(* pass of Reconcile comes to nothing, without a stamp, when its context is *)
(* done or the catalog cannot be listed: at any time, as far as is seen     *)
(* here.  A recheck ends with it.                                           *)
StoreAs(p, ok) ==
    LET s == proc[p].src
        rest == IF ~ok /\ p \in Handlers /\ (proc[p].expired \/ proc[p].pc = "store") THEN <<>>
                ELSE IF ~ok /\ p \notin Loops /\ Fallback[s] # NoSource
                THEN <<Fallback[s]>> \o proc[p].todo ELSE proc[p].todo
    IN  /\ Alive
        /\ \/ proc[p].pc = "get" /\ get[p].pc = "done" /\ ok = get[p].ok /\ Return(p)
           \/ proc[p].pc = "store" /\ UNCHANGED get
        /\ IF main = "closed" THEN misused' = misused \cup {p} /\ UNCHANGED synced
           ELSE synced' = (IF ok THEN synced \cup ({s} \cap Loops) ELSE synced) /\ UNCHANGED misused
        /\ proc' = [proc EXCEPT ![p].pc = "next", ![p].src = NoSource, ![p].todo = rest]
        /\ UNCHANGED <<since, lifeVars, asked>>

Store(p) == \E ok \in BOOLEAN : StoreAs(p, ok)

(* Mutant of Finish: a loop ends with its first run.                       *)
MutantLoopReturns(p) ==
    /\ Alive /\ proc[p].pc = "next" /\ proc[p].todo = <<>>
    /\ LET set == IF p = Initial THEN Loops ELSE {} IN
           proc' = [q \in Goroutines |->
                       IF q \in set THEN [Off EXCEPT !.pc = "timer", !.late = stop]
                       ELSE IF q = p THEN Off ELSE proc[q]]
    /\ UNCHANGED <<since, get, lifeVars, asked, synced, misused>>

(* InitialSync ends with StartBackground; a loop sets its timer again.     *)
Finish(p) ==
    /\ Alive /\ proc[p].pc = "next" /\ proc[p].todo = <<>>
    /\ LET set == IF p = Initial THEN Loops ELSE {p} \cap Loops IN
           proc' = [q \in Goroutines |->
                       IF q \in set THEN [Off EXCEPT !.pc = "timer", !.late = stop]
                       ELSE IF q = p THEN Off ELSE proc[q]]
    /\ UNCHANGED <<since, get, lifeVars, asked, synced, misused>>

Pass == Alive /\ Tick /\ UNCHANGED <<lifeVars, proc, asked, synced, misused>>

Proceed(p) == NextSource(p) \/ ClientStep(p) \/ Store(p) \/ Finish(p)

(* Mutant of Init: StartBackground before InitialSync.                     *)
MutantLoopsFirst ==
    /\ InitClient
    /\ main = "serving" /\ stop = FALSE /\ server = "up"
    /\ proc = [p \in Goroutines |-> IF p = Initial THEN Begun(Startup)
                                    ELSE IF p \in Loops THEN [Off EXCEPT !.pc = "timer"] ELSE Off]
    /\ asked = 0 /\ synced = {} /\ misused = {}

Init ==
    /\ InitClient
    /\ main = "serving" /\ stop = FALSE /\ server = "up"
    /\ proc = [p \in Goroutines |-> IF p = Initial THEN Begun(Startup) ELSE Off]
    /\ asked = 0 /\ synced = {} /\ misused = {}

Next ==
    \/ Signal \/ MainStep \/ Pass
    \/ \E p \in Goroutines : Request(p) \/ Fire(p) \/ LoopEnds(p) \/ Proceed(p) \/ Expire(p)

(* The step of a loop that can fail comes out well.                        *)
Succeeds(p) == IF HostOf[p] = NoHost THEN StoreAs(p, TRUE) ELSE ClientStep(p) /\ Answer(p, TRUE)

(* Main, time, InitialSync, the loops and their timers go on, a source that *)
(* is asked again and again answers some time, and a loop that reconciles  *)
(* again and again gets through some time.  Nothing is asked of handlers,  *)
(* but rechecks are finitely many: the slots of a host are not given in    *)
(* order, and endless requests could take each one before the sleeper      *)
(* whose timer has fired.                                                  *)
Fairness ==
    /\ WF_vars(MainStep) /\ WF_vars(Pass)
    /\ \A p \in Background : WF_vars(Proceed(p))
    /\ \A p \in Loops : WF_vars(LoopEnds(p) \/ Fire(p)) /\ SF_vars(Succeeds(p))

Spec == Init /\ [][Next]_vars /\ Fairness
-----------------------------------------------------------------------------
TypeOK ==
    /\ ClientTypeOK
    /\ main \in {"serving", "shutdown", "wait", "waitStartup", "close", "closed", "gone"}
    /\ stop \in BOOLEAN /\ server \in {"up", "failed", "down"}
    /\ proc \in [Goroutines -> [pc : {"off", "timer", "next", "get", "store"},
                                todo : Seq(Sources), src : Sources \cup {NoSource},
                                expired : BOOLEAN, late : BOOLEAN]]
    /\ asked \in 0..MaxRequests /\ synced \subseteq Loops /\ misused \subseteq Goroutines

(* No source is run by InitialSync and its loop at once: rechecks apart,   *)
(* the stamp of a source has one writer (the hypothesis OneRunPerSource of *)
(* the proof that stamps never move backwards).                            *)
OneRunPerSource ==
    \A s \in Loops : ~(Running(s) /\ Running(Initial))

(* When the store is closed neither a loop nor the initial sync uses it    *)
(* again, at whatever moment of the start the signal came; only a handler  *)
(* that outlived the ten seconds of Shutdown can.                          *)
BackgroundStopsFirst ==
    /\ misused \subseteq Handlers
    /\ main \in {"close", "closed"} => \A p \in Background : ~Running(p)

(* The process ends after a signal: Wait never waits for a loop that does  *)
(* not see the end of the context.                                         *)
SignalEndsProcess == stop ~> main = "gone"

(* Every source that fails at the start or at a tick is tried again until  *)
(* it has had success, while the process is not asked to stop.             *)
EverySourceSucceeds == \A s \in Loops : <>(stop \/ s \in synced)

(* The process uses the client through its operations only.                *)
UsesClient == ClientSpec
=============================================================================
