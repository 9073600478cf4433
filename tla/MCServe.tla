------------------------------ MODULE MCServe -------------------------------
(* An instance of Serve for TLC: the BGBl feed with ELI as its fallback, on *)
(* one host, and Reconcile, which asks nobody.                              *)
EXTENDS Serve

OneHost == [s \in Sources |-> IF s = "reconcile" THEN NoHost ELSE "bund"]
InitialOrder == <<"bgbl", "reconcile">>
RecheckOrder == <<"bgbl">>
EliForBgbl == [s \in Sources |-> IF s = "bgbl" THEN "eli" ELSE NoSource]
=============================================================================
