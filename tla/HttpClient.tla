----------------------------- MODULE HttpClient -----------------------------
(***************************************************************************)
(* httpx.Client as its callers see it: a Get asks waitHost for the next    *)
(* slot of its host, sleeps as long as that says and asks again, then      *)
(* sends its request and gets an answer or an error.                       *)
(*                                                                         *)
(* The only shared state is the map last, read and written under the       *)
(* mutex; since is its age, counted up to MinGap, for the clock of         *)
(* time.Since is monotonic.  Times are ticks.                              *)
(***************************************************************************)
EXTENDS Naturals

CONSTANTS
    Goroutines,  \* those that call Get
    Hosts,
    MinGap       \* config.RequestMinGap

NoHost == "none"

ASSUME GapAssumption == MinGap \in Nat
ASSUME HostAssumption == NoHost \notin Hosts

VARIABLES
    since,  \* ticks since the last slot of each host was given, at most MinGap
    get     \* where the Get of each goroutine stands

clientVars == <<since, get>>

(* timer: ticks the timer has still to run; at and age: the host whose slot *)
(* the goroutine was given last, and when (history).                       *)
NoGet == [pc |-> "none", host |-> NoHost, timer |-> 0, ok |-> FALSE, at |-> NoHost, age |-> 0]

InitClient ==
    /\ since = [h \in Hosts |-> MinGap]
    /\ get = [g \in Goroutines |-> NoGet]

AskFor(g, h) == get' = [get EXCEPT ![g].pc = "check", ![g].host = h]

(* One passage through the mutex: the slot, or the time to wait for it.    *)
Granted(g) == get[g].pc = "check" /\ since[get[g].host] >= MinGap

Grant(g) ==
    /\ Granted(g)
    /\ since' = [since EXCEPT ![get[g].host] = 0]
    /\ get' = [get EXCEPT ![g].pc = "send", ![g].at = get[g].host, ![g].age = 0]

(* Mutant of Sleep: one tick too many.                                     *)
MutantOverSleep(g) ==
    /\ get[g].pc = "check" /\ ~Granted(g)
    /\ get' = [get EXCEPT ![g].pc = "sleep", ![g].timer = MinGap + 1 - since[get[g].host]]
    /\ UNCHANGED since

Sleep(g) ==
    /\ get[g].pc = "check" /\ ~Granted(g)
    /\ get' = [get EXCEPT ![g].pc = "sleep", ![g].timer = MinGap - since[get[g].host]]
    /\ UNCHANGED since

(* Mutant of Wake: the timer was computed for this slot, so it is taken.   *)
MutantWakeTakes(g) ==
    /\ get[g].pc = "sleep" /\ get[g].timer = 0
    /\ since' = [since EXCEPT ![get[g].host] = 0]
    /\ get' = [get EXCEPT ![g].pc = "send", ![g].at = get[g].host, ![g].age = 0]

(* The timer fires: the loop begins again, for another goroutine may have  *)
(* been given the slot.                                                    *)
Wake(g) ==
    /\ get[g].pc = "sleep" /\ get[g].timer = 0
    /\ get' = [get EXCEPT ![g].pc = "check"]
    /\ UNCHANGED since

(* ctx.Done while waiting; the slot is not taken.                          *)
GiveUp(g) ==
    /\ get[g].pc = "sleep"
    /\ get' = [get EXCEPT ![g].pc = "done", ![g].ok = FALSE]
    /\ UNCHANGED since

(* hc.Do and the body: its timeout ends it at the latest.                  *)
Answer(g, ok) ==
    /\ get[g].pc = "send"
    /\ get' = [get EXCEPT ![g].pc = "done", ![g].ok = ok]
    /\ UNCHANGED since

Return(g) == get' = [get EXCEPT ![g].pc = "none", ![g].host = NoHost, ![g].ok = FALSE]

(* Time goes on for hosts, timers and the histories together.              *)
Later(n) == IF n < MinGap THEN n + 1 ELSE n
AfterTick(c) == [c EXCEPT !.timer = IF @ > 0 THEN @ - 1 ELSE 0, !.age = Later(@)]

Tick ==
    /\ \/ \E h \in Hosts : since[h] < MinGap
       \/ \E g \in Goroutines : get[g].timer > 0
    /\ since' = [h \in Hosts |-> Later(since[h])]
    /\ get' = [g \in Goroutines |-> AfterTick(get[g])]

NextClient ==
    \/ Tick
    \/ \E g \in Goroutines :
           \/ \E h \in Hosts : get[g].pc = "none" /\ AskFor(g, h) /\ UNCHANGED since
           \/ Grant(g) \/ Sleep(g) \/ Wake(g) \/ GiveUp(g)
           \/ \E ok \in BOOLEAN : Answer(g, ok)
           \/ get[g].pc = "done" /\ Return(g) /\ UNCHANGED since

ClientSpec == InitClient /\ [][NextClient]_clientVars
-----------------------------------------------------------------------------
GetRecord == [pc : {"none", "check", "sleep", "send", "done"}, host : Hosts \cup {NoHost},
              timer : 0..MinGap, ok : BOOLEAN, at : Hosts \cup {NoHost}, age : 0..MinGap]

ClientTypeOK ==
    /\ since \in [Hosts -> 0..MinGap]
    /\ get \in [Goroutines -> GetRecord]
    /\ \A g \in Goroutines : get[g].pc \notin {"none", "done"} => get[g].host \in Hosts

(* Any two goroutines, however many timers fired at once, were given slots *)
(* of one host at least MinGap apart.                                      *)
GapKept ==
    \A g, f \in Goroutines :
        g # f /\ get[g].at = get[f].at /\ get[g].at \in Hosts =>
            get[g].age = MinGap \/ get[f].age = MinGap
=============================================================================
