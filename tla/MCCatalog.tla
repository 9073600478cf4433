----------------------------- MODULE MCCatalog ------------------------------
(* An instance of Catalog for TLC: MiLoG with the ordinances of 2022 (in    *)
(* the table of contents) and 2025 (first a stub, then in it), an SGB book  *)
(* and two laws that share the abbreviation MuSchG.                         *)
EXTENDS Catalog, TLC

KeyTable ==
    ("" :> "") @@ ("milog" :> "milog") @@ ("milov4" :> "milov4") @@ ("milov5" :> "milov5")
    @@ ("sgb_5" :> "sgb5") @@ ("sgb5" :> "sgb5") @@ ("SGB V" :> "sgbv") @@ ("sgbv" :> "sgbv")
    @@ ("muschg" :> "muschg") @@ ("muschg_2018" :> "muschg2018") @@ ("muschg2018" :> "muschg2018")
    @@ ("mindestlohng" :> "mindestlohng") @@ ("vierte" :> "vierte") @@ ("fuenfte" :> "fuenfte")
    @@ ("krankenvers" :> "krankenvers") @@ ("mutterschutz" :> "mutterschutz")
Names == DOMAIN KeyTable
AllKeys == {KeyTable[n] : n \in Names} \ {""}

NoFolds == [n \in Names |-> {}]
Books == [n \in Names |-> IF n \in {"sgb_5", "sgb5", "SGB V", "sgbv"} THEN 5
                          ELSE 0]
KeysOfBook == [n \in 0..20 |-> IF n = 5 THEN {"sgb5", "sgbv"} ELSE {}]
Guesses == [s \in {"milog", "milov4", "milov5", "sgb_5", "muschg", "muschg_2018"} |-> s]

(* similarity of engine.go on these keys, in percent, from 69 on: lower     *)
(* scores reach no threshold.                                               *)
Alike == [p \in AllKeys \X Names |->
    IF p \in {<<"milov4", "milov5">>, <<"milov5", "milov4">>} THEN 76
    ELSE IF p \in {<<"sgb5", "SGB V">>, <<"sgbv", "sgb_5">>, <<"sgbv", "sgb5">>} THEN 69
    ELSE IF p \in {<<"muschg2018", "muschg">>, <<"mutterschutz", "muschg">>} THEN 80 ELSE 0]
AlikeTitles == [p \in AllKeys \X Names |->
    IF p \in {<<"vierte", "fuenfte">>, <<"fuenfte", "vierte">>} THEN 76 ELSE 0]

Item(s, a, t) == [slug |-> s, abbr |-> a, title |-> t]
FirstToc == <<Item("milog", "", "mindestlohng"), Item("milov4", "", "vierte"),
              Item("muschg", "", "mutterschutz"), Item("sgb_5", "SGB V", "krankenvers")>>
Tocs == <<FirstToc,
          FirstToc \o <<Item("muschg_2018", "muschg", "mutterschutz"),
                        Item("milov5", "milov5", "fuenfte")>>>>

Variants == [i \in AllKeys |-> IF i = "mutterschutz" THEN "muschg2018" ELSE ""]
FeedNews == {[abbr |-> "milov5", title |-> "fuenfte"]}
LinkedSlugs == [i \in Id |-> IF i = "milog" THEN {"milov5"} ELSE {}]
Questions == {"milog", "milov5", "SGB V"}

(* The instance meets the hypotheses of CatalogProofs.                      *)
ASSUME PathsKept /\ IdsApart /\ AlikeIsLess
=============================================================================
