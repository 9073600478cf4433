--------------------------- MODULE MCGazetteStore ---------------------------
(* Instances of GazetteStore for TLC: issue 2 amends law l1 (whose Stand    *)
(* names issue 1, or only a page).                                          *)
EXTENDS GazetteStore, TLC

Item(feed, id, title, published, law) ==
    [feed |-> feed, id |-> id, title |-> title, published |-> published, law |-> law]

Amendment == Item("gii", 2, "gesetz", 1, "l1")
Announced == Item("bgbl", 2, "gesetz", 1, "none")
Permalink == Item("eli", 2, "", 0, "none")

GIIItems == {Amendment}
WriterItems == {Amendment, Announced, Permalink}

GIIJob == "giiLoop" :> "gii"
GIIJobNames == DOMAIN GIIJob
OfficialJobs == ("giiLoop" :> "gii") @@ ("bgblLoop" :> "bgbl")
AllJobs == OfficialJobs @@ ("eliLoop" :> "eli")
AllJobsNames == DOMAIN AllJobs

OneLaw == {"l1"}
ResolveL1 == ("" :> "none") @@ ("bek" :> "l1") @@ ("gesetz" :> "l1")
ResolveNone == [t \in Titles |-> "none"]

StandOne == [l \in Laws |-> 1]
Undated == [l \in Laws |-> 0]
=============================================================================
