------------------------------- MODULE Watch --------------------------------
(***************************************************************************)
(* What the program promises of its verdicts, without jobs, transactions,  *)
(* issue records and link classes.  An amendment is a pair of a gazette    *)
(* issue and the law it changes.  Amendments become known, the stamp of    *)
(* the GII feed promises some of the known ones, and an evaluation reads   *)
(* the Stand of a law, looks at the promise in one instant and concludes.  *)
(***************************************************************************)
EXTENDS Naturals

CONSTANTS
    Laws,
    NoLaw,
    Numbers,  \* of gazette issues
    Notices,  \* issues some source calls a Bekanntmachung
    Evals     \* goroutines that evaluate

VARIABLES
    known,     \* amendments of which issue and link are stored
    promised,  \* those last_gii_feed_success stands for
    reflected, \* the issue the Stand of each law names, 0 for none
    reader,    \* what each evaluation read
    verdict    \* the stored freshness of each law

vars == <<known, promised, reflected, reader, verdict>>

Idle == [law |-> NoLaw, stand |-> 0, base |-> {}]
Unevaluated == [state |-> "none", newer |-> {}]

Init ==
    /\ known = {} /\ promised = {}
    /\ reflected \in [Laws -> Nat]
    /\ reader = [e \in Evals |-> Idle]
    /\ verdict = [l \in Laws |-> Unevaluated]

(* Nothing that is known is forgotten, nothing unknown is promised.        *)
Learn ==
    /\ known \subseteq known' /\ known' \subseteq Numbers \X Laws
    /\ UNCHANGED <<promised, reflected, reader, verdict>>

Promise ==
    /\ promised \subseteq promised' /\ promised' \subseteq known
    /\ UNCHANGED <<known, reflected, reader, verdict>>

Reflect ==
    /\ \E l \in Laws, n \in Numbers :
           n > reflected[l] /\ reflected' = [reflected EXCEPT ![l] = n]
    /\ UNCHANGED <<known, promised, reader, verdict>>

ReadStand(e, l) ==
    /\ reader' = [reader EXCEPT ![e] = [law |-> l, stand |-> reflected[l], base |-> {}]]
    /\ UNCHANGED <<known, promised, reflected, verdict>>

Look(e) ==
    /\ reader' = [reader EXCEPT ![e].base = {k[1] : k \in {p \in promised : p[2] = reader[e].law}}]
    /\ UNCHANGED <<known, promised, reflected, verdict>>

(* An evaluation begins, is done with a law, or fails to store its record. *)
Leave(e) ==
    /\ reader' = [reader EXCEPT ![e] = Idle]
    /\ UNCHANGED <<known, promised, reflected, verdict>>

Crash ==
    /\ reader' = [e \in Evals |-> Idle]
    /\ UNCHANGED <<known, promised, reflected, verdict>>

(* confirmed_stale names known amendments that the Stand does not reflect; *)
(* confirmed_current has none among the promised ones.  A Stand without a  *)
(* number is compared by dates, which are left out here.                   *)
Beyond(n, stand) == stand = 0 \/ n > stand

Allowed(v, r) ==
    /\ v.state \in {"confirmed_current", "confirmed_stale", "uncertain"}
    /\ v.state = "confirmed_stale" <=> v.newer # {}
    /\ \A n \in v.newer : <<n, r.law>> \in known /\ Beyond(n, r.stand)
    /\ v.state = "confirmed_current" =>
           \A n \in r.base \ Notices : r.stand # 0 => ~Beyond(n, r.stand)

Conclude(e) ==
    /\ reader[e].law \in Laws
    /\ Allowed(verdict'[reader[e].law], reader[e])
    /\ verdict' = [verdict EXCEPT ![reader[e].law] = verdict'[reader[e].law]]
    /\ reader' = [reader EXCEPT ![e] = Idle]
    /\ UNCHANGED <<known, promised, reflected>>

Next ==
    \/ Learn \/ Promise \/ Reflect \/ Crash
    \/ \E e \in Evals : Look(e) \/ Leave(e) \/ Conclude(e) \/ \E l \in Laws : ReadStand(e, l)

Spec == Init /\ [][Next]_vars
=============================================================================
