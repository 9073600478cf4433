---------------------------- MODULE MCDiscovery ----------------------------
(* Instances of Discovery for TLC.  Law p has seeded rows for v1 and v2,    *)
(* two years of the rate of one section (as MiLoV4 and MiLoV5 are), with    *)
(* their dates; v3 is found by the Ermaechtigung in its text; v4 and v5 are  *)
(* a family of which the later one counts; v6 has the title of a Gesetz.    *)
EXTENDS Discovery

Row(number, from, section) ==
    [notes |-> <<Citation("", number, NoSection)>>, from |-> from, section |-> section,
     source |-> "seeded", confidence |-> ""]

OneSlug == <<"v3">>
TwoSlugs == <<"v2", "v3">>
AllSlugs == <<"v1", "v2", "v3", "v4", "v5", "v6">>

(* The rate of day 1 and that of day 2; the Stand of p names the second.    *)
(* The Gesetz would replace the rates as long as it is a stub.              *)
ChainSeeds == [l \in Parents |-> ("v1" :> Row(1, 1, "s1")) @@ ("v2" :> Row(4, 2, "s1"))
                                    @@ ("v6" :> Row(4, 2, "s1"))]
NoSeeds == [l \in Parents |-> <<>>]
NoFamilies == [l \in Parents |-> {}]
OneFamily == [l \in Parents |-> {[years |-> ("v4" :> 1) @@ ("v5" :> 2),
                                  notes |-> <<Citation("", 4, NoSection)>>, section |-> "s4"]}]

(* The notes of p cite the first rate.                                      *)
ChainNotes == [l \in Laws |-> IF l = "p" THEN <<Citation("V", 1, "s1")>> ELSE <<>>]
NoNotes == [l \in Laws |-> <<>>]
StandFour == [l \in Parents |-> 4]

(* The text of v3 names p; in Moving it names q later on.                   *)
Txt(number, p, q) == [number |-> number, hint |-> [l \in Parents |-> IF l = "p" THEN p ELSE q]]
Moving == [v \in Slug |-> IF v = "v3" THEN <<Txt(1, "s2", NoSection), Txt(3, NoSection, "s2")>>
                          ELSE <<Txt(IF v = "v1" THEN 1 ELSE 4, NoSection, NoSection)>>]
Fixed == [v \in Slug |->
    CASE v = "v3" -> <<Txt(3, "s2", NoSection)>>
      [] v = "v1" -> <<Txt(1, NoSection, NoSection)>>
      [] OTHER -> <<Txt(4, NoSection, NoSection)>>]

AmendFound == {<<"v3", MaxIssue>>}
AllRequests == Slug \X {"recheck", "export"}
Rechecks == (Slug \cap {"v2", "v3"}) \X {"recheck"}
=============================================================================
