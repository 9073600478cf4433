----------------------------- MODULE MCSyncMeta -----------------------------
(* Instances of SyncMeta for TLC.                                           *)
EXTENDS SyncMeta, TLC

(* TOC and GII stamps are fresh at the start; the BGBl stamp is fresh,      *)
(* absent, or invalidated by a failure of the same instant.                 *)
Stamped(bgbl, degraded) ==
    [k \in MetaKeys |-> CASE k = "bgbl" -> bgbl
                         [] k = "degraded" -> degraded
                         [] k = "eli" -> NoTime
                         [] OTHER -> 1]
WarmStart == {Stamped(1, 0), Stamped(0, 0), Stamped(0, 1)}

FullCatalog == {Laws}
(* One law is there at the start, the others come in later.                 *)
GrowingCatalog == {{CHOOSE l \in Laws : TRUE}}

BGBlSource == "bgblLoop" :> "bgbl"
BGBlRuns == DOMAIN BGBlSource

LoopSource == ("bgblLoop" :> "bgbl") @@ ("eliLoop" :> "eli")
LoopRuns == DOMAIN LoopSource
=============================================================================
