------------------------------ MODULE MCExport ------------------------------
(* Instances of Export for TLC: law p with the ordinances v1, whose issue   *)
(* the Stand of p names, and v2, whose citation has to be proved.           *)
EXTENDS Export

OneSlug == <<"v1">>
TwoSlugs == <<"v1", "v2">>
BundleOfP == [l \in Laws |-> IF l = "p" THEN Slug ELSE {}]

(* The text of p changes, and the ordinance that it cites; v2 has no Stand  *)
(* in the store.                                                            *)
ChangingTexts == [l \in Laws |-> IF l = "p" THEN <<1, 2>> ELSE <<1>>]
ChangingNotes == [l \in Laws |-> IF l = "p" THEN <<{"v2"}, {"v1"}>> ELSE <<{}>>]
(* The text of v1 changes and cites nothing.                                *)
ChangingOrdinance == [l \in Laws |-> IF l = "v1" THEN <<1, 2>> ELSE <<1>>]
NoNotes == [l \in Laws |-> IF l = "v1" THEN <<{}, {}>> ELSE <<{}>>]
SomeStands == [l \in Laws |-> IF l = "v2" THEN 0 ELSE 1]
AmendV1 == {<<"v1", 2>>}

(* Both instances meet the hypothesis of ExportProofs!CacheIsNotOlder.      *)
ASSUME TextsGrow == TextsOnlyGrow
=============================================================================
