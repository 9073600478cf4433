---------------------------- MODULE CatalogProofs ----------------------------
(***************************************************************************)
(* Theorems about Catalog, for any tables of contents, any names and keys, *)
(* and any number of requests.                                             *)
(***************************************************************************)
EXTENDS Catalog, FiniteSetTheorems, WellFoundedInduction, TLAPS

-----------------------------------------------------------------------------
(* The laws of a table of contents.  LawsOf is a recursive function, and    *)
(* what its recursion defines is shown by its least counterexample.         *)

Item == [slug : Slug, abbr : Name, title : Name \ {NoName}]

NextList(list, it) == Append(list, LawOfItem(list, it))

(* f is the recursive function of LawsOf up to the item m.                  *)
Lists(doc, m, f) ==
    f = [n \in 0..m |-> IF n = 0 THEN <<>>
                        ELSE LET before == f[n - 1] IN Append(before, LawOfItem(before, doc[n]))]

LEMMA HasMinimum ==
    ASSUME NEW T, T \subseteq Nat, T # {}
    PROVE  \E x \in T : \A y \in T : x <= y
<1>1. PICK x \in T : \A y \in T : ~ (<<y, x>> \in OpToRel(<, Nat))
  BY NatLessThanWellFounded, WFMin, Zenon
<1>2. ASSUME NEW y \in T PROVE ~ (y < x)
  BY <1>1, Zenon DEF OpToRel
<1>3. QED
  BY <1>2

(* What holds of 0 and goes from each number to the next holds up to m.     *)
LEMMA UpTo ==
    ASSUME NEW m \in Nat, NEW T, 0 \in T, \A n \in 0..m : n \in T /\ n < m => n + 1 \in T
    PROVE  \A n \in 0..m : n \in T
<1> SUFFICES ASSUME NEW k \in 0..m, k \notin T
             PROVE  FALSE
  OBVIOUS
<1> DEFINE bad == {n \in 0..m : n \notin T}
<1>1. bad \subseteq Nat /\ bad # {}
  OBVIOUS
<1>2. PICK x \in bad : \A y \in bad : x <= y
  BY <1>1, HasMinimum
<1>3. x # 0 /\ x \in 0..m
  BY <1>2
<1>4. x - 1 \in 0..m /\ x - 1 < m
  BY <1>3
<1>5. x - 1 \in T
  <2>1. CASE x - 1 \in bad
    BY <1>2, <1>3, <2>1
  <2>2. QED
    BY <1>4, <2>1
<1>6. (x - 1) + 1 \in T
  BY <1>4, <1>5
<1>7. QED
  BY <1>2, <1>3, <1>6

LEMMA ListsExist ==
    ASSUME NEW doc, NEW m \in Nat
    PROVE  \E f : Lists(doc, m, f)
<1> DEFINE T == {n \in 0..m : \E f : Lists(doc, n, f)}
<1>1. 0 \in T
  <2> DEFINE f == [n \in 0..0 |-> <<>>]
  <2>1. Lists(doc, 0, f)
    BY DEF Lists
  <2>2. QED
    BY <2>1
<1>2. ASSUME NEW n \in 0..m, n \in T, n < m
      PROVE  n + 1 \in T
  <2>1. PICK f : Lists(doc, n, f)
    BY <1>2
  <2> DEFINE g == [k \in 0..(n + 1) |-> IF k = n + 1 THEN NextList(f[n], doc[n + 1]) ELSE f[k]]
             h == [k \in 0..(n + 1) |-> IF k = 0 THEN <<>> ELSE NextList(g[k - 1], doc[k])]
  <2>2. \A k \in 0..n : f[k] = IF k = 0 THEN <<>> ELSE NextList(f[k - 1], doc[k])
    BY <2>1 DEF Lists, NextList
  <2>3. ASSUME NEW k \in 0..(n + 1)
        PROVE  g[k] = h[k]
    <3>1. CASE k = n + 1
      <4>1. g[k - 1] = f[n]
        BY <3>1
      <4>2. QED
        BY <3>1, <4>1
    <3>2. CASE k = 0
      BY <2>2, <3>2
    <3>3. CASE k # 0 /\ k # n + 1
      <4>1. k \in 0..n /\ k - 1 \in 0..n /\ k - 1 \in 0..(n + 1) /\ k - 1 # n + 1
        BY <3>3
      <4>2. g[k - 1] = f[k - 1] /\ g[k] = f[k]
        BY <3>3, <4>1
      <4>3. QED
        BY <2>2, <3>3, <4>1, <4>2
    <3>4. QED
      BY <3>1, <3>2, <3>3
  <2>4. g = h
    BY <2>3
  <2>5. Lists(doc, n + 1, g)
    BY <2>4 DEF Lists, NextList
  <2>6. n + 1 \in 0..m /\ \E k : Lists(doc, n + 1, k)
    BY <1>2, <2>5
  <2>7. QED
    BY <2>6
<1>3. \A n \in 0..m : n \in T
  <2> HIDE DEF T
  <2>1. QED
    BY <1>1, <1>2, UpTo
<1>4. QED
  BY <1>3

LEMMA LawsOfLists ==
    ASSUME NEW doc, Len(doc) \in Nat
    PROVE  \E f : Lists(doc, Len(doc), f) /\ LawsOf(doc) = f[Len(doc)]
<1>1. \E f : Lists(doc, Len(doc), f)
  BY ListsExist
<1> DEFINE f == CHOOSE g : Lists(doc, Len(doc), g)
<1>2. Lists(doc, Len(doc), f)
  BY <1>1
<1>3. LawsOf(doc) = f[Len(doc)]
  BY DEF LawsOf, Lists
<1>4. QED
  BY <1>2, <1>3

LEMMA KeyTypes ==
    /\ \A n \in Name : Key[n] \in Name
    /\ \A s \in Slug : s \in Name /\ s # NoName /\ Key[s] \in Id /\ Guess[s] \in Name
    /\ \A d \in DOMAIN Documents : \A n \in DOMAIN Documents[d] :
          /\ Documents[d][n] \in Item
          /\ Key[Documents[d][n].abbr] # NoName => Key[Documents[d][n].abbr] \in Id
<1>1. \A n \in Name : Key[n] \in Name
  BY NameAssumption
<1>2. \A s \in Slug : s \in Name /\ s # NoName /\ Key[s] \in Id /\ Guess[s] \in Name
  BY NameAssumption DEF Id
<1>3. ASSUME NEW d \in DOMAIN Documents, NEW n \in DOMAIN Documents[d]
      PROVE  /\ Documents[d][n] \in Item
             /\ Key[Documents[d][n].abbr] # NoName => Key[Documents[d][n].abbr] \in Id
  <2>1. Documents[d] \in Seq(Item)
    BY DocumentAssumption DEF Item
  <2>2. Documents[d][n] \in Item
    BY <2>1
  <2>3. Documents[d][n] \in ToSet(Documents[d])
    BY DEF ToSet
  <2>4. QED
    BY <2>2, <2>3 DEF Id
<1>4. QED
  BY <1>1, <1>2, <1>3

LEMMA LawOfItemTypes ==
    ASSUME NEW it \in Item, Key[it.abbr] # NoName => Key[it.abbr] \in Id, NEW before
    PROVE  /\ LawOfItem(before, it) \in LawRecord
           /\ LawOfItem(before, it).slug = it.slug
<1>1. it.slug \in Slug /\ it.abbr \in Name /\ it.title \in Name
  BY DEF Item
<1> DEFINE abbr == IF it.abbr = NoName THEN Guess[it.slug] ELSE it.abbr
           law == LawOfItem(before, it)
<1>2. abbr \in Name /\ (Key[abbr] = NoName \/ Key[abbr] \in Id)
  <2>1. CASE it.abbr = NoName
    <3>1. Key[Guess[it.slug]] = Key[it.slug]
      BY <1>1, NameAssumption
    <3>2. QED
      BY <1>1, <2>1, <3>1, KeyTypes
  <2>2. CASE it.abbr # NoName
    BY <1>1, <2>2
  <2>3. QED
    BY <2>1, <2>2
<1>3. /\ law.id \in {Key[it.slug]} \cup ({Key[abbr]} \ {NoName})
      /\ law = [id |-> law.id, slug |-> it.slug, abbr |-> abbr, title |-> it.title]
  BY DEF LawOfItem
<1>4. law.id \in Id
  BY <1>1, <1>2, <1>3, KeyTypes
<1> HIDE DEF law, abbr
<1>5. QED
  BY <1>1, <1>2, <1>3, <1>4 DEF LawRecord, law

(* A list of laws is a sequence of records.                                 *)
LEMMA LawsOfTypes ==
    ASSUME NEW d \in DOMAIN Documents
    PROVE  /\ TocLaws[d] = LawsOf(Documents[d])
           /\ TocLaws[d] \in Seq(LawRecord)
<1> DEFINE doc == Documents[d]
<1>1. doc \in Seq(Item) /\ Len(doc) \in Nat /\ DOMAIN doc = 1..Len(doc)
  BY DocumentAssumption DEF Item
<1>2. PICK f : Lists(doc, Len(doc), f) /\ LawsOf(doc) = f[Len(doc)]
  BY <1>1, LawsOfLists
<1> DEFINE T == {n \in 0..Len(doc) : f[n] \in Seq(LawRecord)}
<1>3. \A n \in 0..Len(doc) : f[n] = IF n = 0 THEN <<>> ELSE NextList(f[n - 1], doc[n])
  BY <1>2 DEF Lists, NextList
<1>4. 0 \in T
  <2>1. 0 \in 0..Len(doc)
    BY <1>1
  <2>2. f[0] = <<>>
    BY <1>3, <2>1
  <2>3. <<>> \in Seq(LawRecord)
    OBVIOUS
  <2>4. QED
    BY <2>1, <2>2, <2>3
<1>5. ASSUME NEW n \in 0..Len(doc), n \in T, n < Len(doc)
      PROVE  n + 1 \in T
  <2>1. n + 1 \in 1..Len(doc) /\ n + 1 \in 0..Len(doc) /\ n + 1 # 0 /\ (n + 1) - 1 = n
    BY <1>1, <1>5
  <2>2. f[n + 1] = Append(f[n], LawOfItem(f[n], doc[n + 1]))
    BY <1>3, <2>1 DEF NextList
  <2>3. LawOfItem(f[n], doc[n + 1]) \in LawRecord
    BY <1>1, <2>1, KeyTypes, LawOfItemTypes
  <2>4. f[n] \in Seq(LawRecord)
    BY <1>5
  <2>5. f[n + 1] \in Seq(LawRecord)
    BY <2>2, <2>3, <2>4
  <2>6. QED
    BY <2>1, <2>5
<1>6. \A n \in 0..Len(doc) : n \in T
  <2> HIDE DEF T
  <2>1. QED
    BY <1>1, <1>4, <1>5, UpTo
<1>7. f[Len(doc)] \in Seq(LawRecord)
  BY <1>1, <1>6
<1>8. TocLaws[d] = LawsOf(doc)
  BY DEF TocLaws
<1>9. QED
  BY <1>2, <1>7, <1>8

LEMMA NoLawIsNone ==
    /\ NoLaw \notin LawRecord /\ NoName \notin Slug /\ NoLaw.slug = NoName
    /\ \A l \in LawRecord : l.id \in Id /\ l.slug \in Slug /\ l # NoLaw
  BY KeyTypes DEF NoLaw, LawRecord

-----------------------------------------------------------------------------
(* Snapshots.                                                              *)

(* ix has the laws of set, and finds one of each id they have.              *)
Indexes(ix, set) ==
    /\ ix.laws = set
    /\ ix.byID \in [Id -> set \cup {NoLaw}]
    /\ \A i \in Id : ix.byID[i] # NoLaw => ix.byID[i] \in set /\ ix.byID[i].id = i
    /\ \A l \in set : ix.byID[l.id] # NoLaw

LEMMA HasLast ==
    ASSUME NEW m \in Nat, NEW at, at \subseteq 0..m, at # {}
    PROVE  Max(at) \in at /\ \A k \in at : Max(at) >= k
<1> DEFINE T == {m - n : n \in at}
<1>1. T \subseteq Nat /\ T # {}
  <2>1. \A n \in at : m - n \in Nat
    OBVIOUS
  <2>2. QED
    BY <2>1
<1>2. PICK x \in T : \A y \in T : x <= y
  BY <1>1, HasMinimum
<1>3. PICK n \in at : x = m - n
  BY <1>2
<1>4. ASSUME NEW k \in at PROVE n >= k
  <2>1. m - k \in T /\ m - n <= m - k
    BY <1>2, <1>3
  <2>2. QED
    BY <2>1
<1>5. QED
  BY <1>4 DEF Max

LEMMA ListIndexes ==
    ASSUME NEW list \in Seq(LawRecord)
    PROVE  Indexes(BuildFromList(list), ToSet(list)) /\ ToSet(list) \subseteq LawRecord
<1> DEFINE ix == BuildFromList(list)
           at(i) == {n \in DOMAIN list : list[n].id = i}
<1>1. /\ DOMAIN list = 1..Len(list) /\ Len(list) \in Nat
      /\ \A n \in DOMAIN list : list[n] \in LawRecord /\ list[n] \in ToSet(list)
  BY DEF ToSet
<1>2. ToSet(list) \subseteq LawRecord
  BY <1>1 DEF ToSet
<1>3. ix.laws = ToSet(list)
  BY DEF BuildFromList
<1>4. ASSUME NEW i \in Id
      PROVE  /\ at(i) = {} => ix.byID[i] = NoLaw
             /\ at(i) # {} => ix.byID[i] \in ToSet(list) /\ ix.byID[i].id = i
  <2>1. ix.byID[i] = IF at(i) = {} THEN NoLaw ELSE list[Max(at(i))]
    BY DEF BuildFromList
  <2>2. ASSUME at(i) # {}
        PROVE  Max(at(i)) \in at(i)
    <3>1. at(i) \subseteq 0..Len(list)
      BY <1>1
    <3>2. QED
      BY <1>1, <2>2, <3>1, HasLast
  <2>3. QED
    BY <1>1, <2>1, <2>2
<1>5. ix.byID = [i \in Id |-> ix.byID[i]]
  BY DEF BuildFromList
<1>6. ASSUME NEW l \in ToSet(list)
      PROVE  l.id \in Id /\ at(l.id) # {}
  <2>1. PICK n \in DOMAIN list : l = list[n]
    BY DEF ToSet
  <2>2. QED
    BY <1>1, <2>1, NoLawIsNone
<1> HIDE DEF ix, at
<1>7. \A i \in Id : ix.byID[i] \in ToSet(list) \cup {NoLaw}
  BY <1>4
<1>8. \A l \in ToSet(list) : ix.byID[l.id] # NoLaw
  BY <1>2, <1>4, <1>6, NoLawIsNone
<1>9. \A i \in Id : ix.byID[i] # NoLaw => ix.byID[i] \in ToSet(list) /\ ix.byID[i].id = i
  BY <1>4
<1>10. QED
  BY <1>2, <1>3, <1>5, <1>7, <1>8, <1>9 DEF Indexes, ix

LEMMA StoreIndexes ==
    ASSUME NEW set, set \subseteq LawRecord
    PROVE  Indexes(BuildFromStore(set), set)
<1> DEFINE ix == BuildFromStore(set)
<1>1. ix.laws = set /\ ix.byID = [i \in Id |-> ix.byID[i]]
  BY DEF BuildFromStore
<1>2. ASSUME NEW i \in Id
      PROVE  IF \E l \in set : l.id = i THEN ix.byID[i] \in set /\ ix.byID[i].id = i
             ELSE ix.byID[i] = NoLaw
  BY DEF BuildFromStore
<1>3. \A l \in set : l.id \in Id /\ l # NoLaw
  BY NoLawIsNone
<1> HIDE DEF ix
<1>4. \A i \in Id : ix.byID[i] \in set \cup {NoLaw}
  BY <1>2
<1>5. \A l \in set : ix.byID[l.id] # NoLaw
  BY <1>2, <1>3
<1>6. \A i \in Id : ix.byID[i] # NoLaw => ix.byID[i] \in set /\ ix.byID[i].id = i
  BY <1>2
<1>7. QED
  BY <1>1, <1>4, <1>5, <1>6 DEF Indexes, ix

-----------------------------------------------------------------------------
(* Type correctness.  TypeOK is not inductive: a run of RunTOC carries the  *)
(* laws of the table it fetched, and a request that is to insert a stub the *)
(* slug it did not find.                                                    *)

RequestRecord ==
    [pc : {"idle", "look", "insert", "list", "swap"}, kind : Kinds \cup {""}, todo : SUBSET Slug,
     slug : Slug \cup {NoName}, list : SUBSET LawRecord, neu : BOOLEAN, old : BOOLEAN]

TypeInv ==
    /\ published \in DOMAIN Documents
    /\ last \in 0..Len(Documents) /\ prev \in 0..Len(Documents)
    /\ laws \in [Id -> LawRecord \cup {NoLaw}] /\ \A i \in Stored : laws[i].id = i
    /\ index.laws \subseteq LawRecord /\ Indexes(index, index.laws)
    /\ links \subseteq FeedItems \X Id
    /\ toc.pc \in {"idle", "store", "swap"} /\ toc.doc \in 0..Len(Documents)
    /\ toc.list \in Seq(LawRecord)
    /\ toc.pc # "idle" => toc.doc \in DOMAIN Documents /\ toc.list = TocLaws[toc.doc]
    /\ request \in [Requests -> RequestRecord]
    /\ \A r \in Requests : request[r].pc = "insert" => request[r].slug \in Slug
    /\ faults \in 0..MaxFaults

LEMMA TypeInvImplies == TypeInv => TypeOK
<1> SUFFICES ASSUME TypeInv
             PROVE  TypeOK
  OBVIOUS
<1>1. Len(Documents) \in Nat /\ DOMAIN Documents = 1..Len(Documents)
  BY DocumentAssumption
<1>2. index.byID \in [Id -> LawRecord \cup {NoLaw}]
  BY DEF TypeInv, Indexes
<1>3. \A r \in Requests :
           /\ request[r].pc \in {"idle", "look", "insert", "list", "swap"}
           /\ request[r].todo \subseteq Slug
           /\ request[r].slug \in Slug \cup {NoName} /\ request[r].list \subseteq LawRecord
  BY DEF TypeInv, RequestRecord
<1>4. \A n \in DOMAIN toc.list : toc.list[n] \in LawRecord
  BY DEF TypeInv
<1>5. QED
  BY <1>1, <1>2, <1>3, <1>4 DEF TypeInv, TypeOK

(* What the store holds.                                                    *)
LEMMA StoredTypes ==
    ASSUME TypeInv
    PROVE  /\ StoredLaws \subseteq LawRecord
           /\ \A i \in Stored : i \in Id /\ laws[i] \in StoredLaws /\ laws[i].id = i
           /\ \A i \in Id : i \notin Stored => laws[i] = NoLaw
           /\ \A l \in StoredLaws : l.id \in Stored /\ laws[l.id] = l
  BY DEF TypeInv, Stored, StoredLaws

LEMMA StubTypes ==
    ASSUME NEW s \in Slug
    PROVE  /\ StubOf(s) \in LawRecord /\ StubOf(s) # NoLaw
           /\ StubOf(s).id = Key[s] /\ StubOf(s).slug = s /\ Key[s] \in Id
<1>1. s \in Name /\ Key[s] \in Id /\ Key[s] \in Name
  BY KeyTypes
<1>2. StubOf(s) \in LawRecord /\ StubOf(s).id = Key[s] /\ StubOf(s).slug = s
  BY <1>1 DEF StubOf, LawRecord
<1>3. QED
  BY <1>1, <1>2, NoLawIsNone

(* What UpsertLaws leaves.                                                  *)
LEMMA UpsertKeeps ==
    ASSUME TypeInv, NEW list \in Seq(LawRecord), UpsertLaws(list)
    PROVE  /\ laws' \in [Id -> LawRecord \cup {NoLaw}]
           /\ \A i \in Id :
                 \/ laws'[i] = laws[i] /\ \A l \in ToSet(list) : l.id # i
                 \/ laws'[i] \in ToSet(list) /\ laws'[i].id = i /\ laws'[i] # NoLaw
           /\ Stored \subseteq Stored'
           /\ \A l \in ToSet(list) : l.id \in Stored'
           /\ \A i \in Stored' : laws'[i].id = i
<1> DEFINE ix == BuildFromList(list)
<1>1. Indexes(ix, ToSet(list)) /\ ToSet(list) \subseteq LawRecord
  BY ListIndexes
<1>2. laws' = [i \in Id |-> IF ix.byID[i] = NoLaw THEN laws[i] ELSE ix.byID[i]]
  BY DEF UpsertLaws
<1> HIDE DEF ix
<1>3. ASSUME NEW i \in Id
      PROVE  \/ laws'[i] = laws[i] /\ \A l \in ToSet(list) : l.id # i
             \/ laws'[i] \in ToSet(list) /\ laws'[i].id = i /\ laws'[i] # NoLaw
  BY <1>1, <1>2 DEF Indexes
<1>4. laws' \in [Id -> LawRecord \cup {NoLaw}]
  <2>1. \A i \in Id : laws'[i] \in LawRecord \cup {NoLaw}
    BY <1>1, <1>3 DEF TypeInv
  <2>2. QED
    BY <1>2, <2>1
<1>5. Stored \subseteq Stored'
  BY <1>3 DEF Stored
<1>6. \A l \in ToSet(list) : l.id \in Stored'
  <2>1. \A l \in ToSet(list) : l.id \in Id
    BY <1>1, NoLawIsNone
  <2>2. QED
    BY <1>3, <2>1 DEF Stored
<1>7. \A i \in Stored' : laws'[i].id = i
  BY <1>3 DEF Stored, TypeInv
<1>8. QED
  BY <1>3, <1>4, <1>5, <1>6, <1>7

(* The types of the shared variables, and those of the goroutines.          *)
StoreTypes ==
    /\ published \in DOMAIN Documents
    /\ last \in 0..Len(Documents) /\ prev \in 0..Len(Documents)
    /\ laws \in [Id -> LawRecord \cup {NoLaw}] /\ \A i \in Stored : laws[i].id = i
    /\ index.laws \subseteq LawRecord /\ Indexes(index, index.laws)
    /\ links \subseteq FeedItems \X Id
    /\ faults \in 0..MaxFaults
TocTypes ==
    /\ toc.pc \in {"idle", "store", "swap"} /\ toc.doc \in 0..Len(Documents)
    /\ toc.list \in Seq(LawRecord)
    /\ toc.pc # "idle" => toc.doc \in DOMAIN Documents /\ toc.list = TocLaws[toc.doc]
RequestTypes ==
    /\ request \in [Requests -> RequestRecord]
    /\ \A r \in Requests : request[r].pc = "insert" => request[r].slug \in Slug

LEMMA InTypes ==
    /\ StoreTypes /\ TocTypes /\ RequestTypes => TypeInv
    /\ StoreTypes' /\ TocTypes' /\ RequestTypes' => TypeInv'
  BY DEF TypeInv, StoreTypes, TocTypes, RequestTypes

LEMMA DocumentTypes ==
    /\ Len(Documents) \in Nat /\ Len(Documents) > 0 /\ DOMAIN Documents = 1..Len(Documents)
    /\ MaxFaults \in Nat
  BY DocumentAssumption, BoundAssumption

LEMMA IdleTypes ==
    /\ Idle \in RequestRecord /\ Idle.pc = "idle" /\ Idle.list = {} /\ ~Idle.old
    /\ IdleToc.pc = "idle" /\ IdleToc.doc \in 0..Len(Documents)
    /\ IdleToc.list \in Seq(LawRecord)
<1>1. Idle \in RequestRecord /\ Idle.pc = "idle" /\ Idle.list = {} /\ ~Idle.old
  BY DEF Idle, RequestRecord
<1>2. <<>> \in Seq(LawRecord)
  OBVIOUS
<1>3. QED
  BY <1>1, <1>2, DocumentTypes DEF IdleToc

(* An empty store is not searched.                                          *)
LEMMA TypeInit == Init => TypeInv
<1> SUFFICES ASSUME Init
             PROVE  TypeInv
  OBVIOUS
<1>1. Stored = {} /\ laws \in [Id -> LawRecord \cup {NoLaw}]
  BY DEF Init, Stored
<1>2. index.laws \subseteq LawRecord /\ Indexes(index, index.laws)
  <2>1. index.laws = {} /\ Indexes(index, {})
    BY StoreIndexes DEF Init, Indexes
  <2>2. QED
    BY <2>1
<1>3. StoreTypes
  BY <1>1, <1>2, DocumentTypes DEF Init, StoreTypes
<1>4. TocTypes
  BY IdleTypes DEF Init, TocTypes
<1>5. RequestTypes
  BY IdleTypes DEF Init, RequestTypes
<1>6. QED
  BY <1>3, <1>4, <1>5, InTypes

LEMMA TypeToc ==
    ASSUME TypeInv, TocStep
    PROVE  TypeInv'
<1>1. CASE TocFetch
  <2>1. StoreTypes'
    BY <1>1, DocumentTypes DEF TocFetch, TypeInv, StoreTypes, Indexes, Stored
  <2>2. TocTypes'
    <3>1. TocLaws[published] \in Seq(LawRecord)
      BY LawsOfTypes DEF TypeInv
    <3>2. QED
      BY <1>1, <3>1, DocumentTypes DEF TocFetch, TypeInv, TocTypes
  <2>3. RequestTypes'
    BY <1>1 DEF TocFetch, TypeInv, RequestTypes
  <2>4. QED
    BY <2>1, <2>2, <2>3, InTypes
<1>2. CASE TocStore
  <2>1. StoreTypes'
    <3>1. CASE UpsertLaws(toc.list) /\ UNCHANGED faults
      <4>1. toc.list \in Seq(LawRecord)
        BY DEF TypeInv
      <4>2. laws' \in [Id -> LawRecord \cup {NoLaw}] /\ \A i \in Stored' : laws'[i].id = i
        BY <3>1, <4>1, UpsertKeeps
      <4>3. QED
        BY <1>2, <3>1, <4>2 DEF TocStore, TypeInv, StoreTypes, Indexes
    <3>2. CASE UNCHANGED laws
      BY <1>2, <3>2, DocumentTypes DEF TocStore, TypeInv, StoreTypes, Indexes, Stored
    <3>3. QED
      BY <1>2, <3>1, <3>2 DEF TocStore
  <2>2. TocTypes'
    <3>1. \/ toc' = [toc EXCEPT !.pc = "swap"] /\ toc.pc = "store"
          \/ toc' = IdleToc
      BY <1>2 DEF TocStore
    <3>2. CASE toc' = IdleToc
      BY <3>2, IdleTypes DEF TocTypes
    <3>3. CASE toc' = [toc EXCEPT !.pc = "swap"] /\ toc.pc = "store"
      BY <3>3 DEF TypeInv, TocTypes
    <3>4. QED
      BY <3>1, <3>2, <3>3
  <2>3. RequestTypes'
    BY <1>2 DEF TocStore, TypeInv, RequestTypes
  <2>4. QED
    BY <2>1, <2>2, <2>3, InTypes
<1>3. CASE TocSwap
  <2>1. StoreTypes'
    <3>1. toc.list \in Seq(LawRecord) /\ toc.doc \in 0..Len(Documents)
      BY DEF TypeInv
    <3>2. Indexes(index', ToSet(toc.list)) /\ ToSet(toc.list) \subseteq LawRecord
      BY <1>3, <3>1, ListIndexes DEF TocSwap
    <3>3. index'.laws \subseteq LawRecord /\ Indexes(index', index'.laws)
      BY <3>2 DEF Indexes
    <3>4. Stored' = Stored /\ laws' = laws /\ published' = published /\ links' = links
          /\ faults' = faults /\ last' = toc.doc /\ prev' = last
      BY <1>3 DEF TocSwap, Stored
    <3>5. QED
      BY <3>1, <3>3, <3>4 DEF TypeInv, StoreTypes
  <2>2. TocTypes'
    BY <1>3, IdleTypes DEF TocSwap, TocTypes
  <2>3. RequestTypes'
    <3>1. ASSUME NEW r \in Requests
          PROVE  /\ [request[r] EXCEPT !.old = request[r].pc # "idle"] \in RequestRecord
                 /\ [request[r] EXCEPT !.old = request[r].pc # "idle"].pc = request[r].pc
                 /\ [request[r] EXCEPT !.old = request[r].pc # "idle"].slug = request[r].slug
      BY DEF TypeInv, RequestRecord
    <3>2. request' = [r \in Requests |-> [request[r] EXCEPT !.old = request[r].pc # "idle"]]
      BY <1>3 DEF TocSwap
    <3>3. \A r \in Requests : request'[r] \in RequestRecord /\ request'[r].pc = request[r].pc
                                                         /\ request'[r].slug = request[r].slug
      BY <3>1, <3>2
    <3>4. QED
      BY <3>2, <3>3 DEF TypeInv, RequestTypes
  <2>4. QED
    BY <2>1, <2>2, <2>3, InTypes
<1>4. QED
  BY <1>1, <1>2, <1>3 DEF TocStep

LEMMA TypeRequest ==
    ASSUME TypeInv, NEW r \in Requests, Begin(r) \/ Proceed(r)
    PROVE  TypeInv'
<1>1. /\ request[r] \in RequestRecord /\ request[r].pc = "insert" => request[r].slug \in Slug
      /\ request \in [Requests -> RequestRecord]
  BY DEF TypeInv
<1>2. ASSUME UNCHANGED <<published, laws, index, links, last, prev, faults>>
      PROVE  StoreTypes'
  BY <1>2 DEF TypeInv, StoreTypes, Indexes, Stored
<1>3. ASSUME UNCHANGED toc
      PROVE  TocTypes'
  BY <1>3 DEF TypeInv, TocTypes
<1>4. ASSUME NEW new \in RequestRecord, new.pc = "insert" => new.slug \in Slug,
             request' = [request EXCEPT ![r] = new]
      PROVE  RequestTypes'
  BY <1>4 DEF TypeInv, RequestTypes
<1>5. CASE Begin(r)
  <2>1. PICK kind \in Kinds, i \in Id :
            request' = [request EXCEPT ![r] =
                [Idle EXCEPT !.pc = "look", !.kind = kind, !.todo = Children[i]]]
    BY <1>5 DEF Begin, Stored
  <2> DEFINE new == [Idle EXCEPT !.pc = "look", !.kind = kind, !.todo = Children[i]]
  <2>2. Children[i] \subseteq Slug
    BY NameAssumption
  <2>3. new \in RequestRecord /\ new.pc = "look"
    BY <2>2, IdleTypes DEF RequestRecord
  <2>4. RequestTypes'
    BY <1>4, <2>1, <2>3
  <2>5. StoreTypes' /\ TocTypes'
    BY <1>2, <1>3, <1>5 DEF Begin
  <2>6. QED
    BY <2>4, <2>5, InTypes
<1>6. CASE Look(r)
  <2>1. PICK s \in request[r].todo :
            request' = [request EXCEPT
               ![r].todo = @ \ {s},
               ![r].slug = IF Key[s] \in Stored THEN NoName ELSE s,
               ![r].pc = IF Key[s] \in Stored THEN "look" ELSE "insert"]
    BY <1>6 DEF Look
  <2> DEFINE new == [request[r] EXCEPT !.todo = @ \ {s},
                                       !.slug = IF Key[s] \in Stored THEN NoName ELSE s,
                                       !.pc = IF Key[s] \in Stored THEN "look" ELSE "insert"]
  <2>2. s \in Slug
    BY <1>1 DEF RequestRecord
  <2>3. new \in RequestRecord /\ (new.pc = "insert" => new.slug \in Slug)
    BY <1>1, <2>2 DEF RequestRecord
  <2>4. request' = [request EXCEPT ![r] = new]
    BY <1>1, <2>1
  <2> HIDE DEF new
  <2>5. RequestTypes'
    BY <1>4, <2>3, <2>4
  <2>6. StoreTypes' /\ TocTypes'
    BY <1>2, <1>3, <1>6 DEF Look
  <2>7. QED
    BY <2>5, <2>6, InTypes
<1>7. CASE Insert(r)
  <2> DEFINE s == request[r].slug
             neu == Key[s] \notin Stored
             new == [request[r] EXCEPT
                        !.slug = NoName,
                        !.neu = @ \/ (neu /\ request[r].kind = "recheck"),
                        !.pc = IF neu /\ request[r].kind = "request" THEN "list" ELSE "look"]
  <2>1. s \in Slug
    BY <1>1, <1>7 DEF Insert
  <2>2. new \in RequestRecord /\ new.pc # "insert"
    BY <1>1 DEF RequestRecord
  <2>3. request' = [request EXCEPT ![r] = new]
    BY <1>1, <1>7 DEF Insert
  <2> HIDE DEF new
  <2>4. RequestTypes'
    BY <1>4, <2>2, <2>3
  <2>5. laws' \in [Id -> LawRecord \cup {NoLaw}] /\ \A i \in Stored' : laws'[i].id = i
    BY <1>7, <2>1, StubTypes DEF Insert, TypeInv, Stored
  <2>6. StoreTypes'
    BY <1>7, <2>5 DEF Insert, TypeInv, StoreTypes, Indexes
  <2>7. TocTypes'
    BY <1>3, <1>7 DEF Insert
  <2>8. QED
    BY <2>4, <2>6, <2>7, InTypes
<1>8. CASE List(r)
  <2> DEFINE new == [request[r] EXCEPT !.pc = "swap", !.list = StoredLaws, !.neu = FALSE]
  <2>1. new \in RequestRecord /\ new.pc # "insert"
    <3>1. StoredLaws \in SUBSET LawRecord
      BY StoredTypes
    <3>2. QED
      BY <1>1, <3>1 DEF RequestRecord
  <2>2. request' = [request EXCEPT ![r] = new]
    BY <1>1, <1>8 DEF List
  <2> HIDE DEF new
  <2>3. RequestTypes'
    BY <1>4, <2>1, <2>2
  <2>4. StoreTypes' /\ TocTypes'
    BY <1>2, <1>3, <1>8 DEF List
  <2>5. QED
    BY <2>3, <2>4, InTypes
<1>9. CASE Swap(r)
  <2> DEFINE new == [request[r] EXCEPT !.pc = "look", !.list = {}]
  <2>1. new \in RequestRecord /\ new.pc # "insert"
    BY <1>1 DEF RequestRecord
  <2>2. request' = [request EXCEPT ![r] = new]
    BY <1>1, <1>9 DEF Swap
  <2> HIDE DEF new
  <2>3. RequestTypes'
    BY <1>4, <2>1, <2>2
  <2>4. request[r].list \subseteq LawRecord
    BY <1>1 DEF RequestRecord
  <2>5. Indexes(index', request[r].list)
    BY <1>9, <2>4, StoreIndexes DEF Swap
  <2>6. index'.laws \subseteq LawRecord /\ Indexes(index', index'.laws)
    BY <2>4, <2>5 DEF Indexes
  <2>7. StoreTypes'
    BY <1>9, <2>6 DEF Swap, TypeInv, StoreTypes, Stored
  <2>8. TocTypes'
    BY <1>3, <1>9 DEF Swap
  <2>9. QED
    BY <2>3, <2>7, <2>8, InTypes
<1>10. CASE End(r)
  <2>1. RequestTypes'
    BY <1>4, <1>10, IdleTypes DEF End
  <2>2. StoreTypes' /\ TocTypes'
    BY <1>2, <1>3, <1>10 DEF End
  <2>3. QED
    BY <2>1, <2>2, InTypes
<1>11. QED
  BY <1>5, <1>6, <1>7, <1>8, <1>9, <1>10 DEF Proceed

LEMMA TypeStep == TypeInv /\ [Next]_vars => TypeInv'
<1> SUFFICES ASSUME TypeInv, [Next]_vars
             PROVE  TypeInv'
  OBVIOUS
<1>1. CASE Publish
  <2>1. StoreTypes'
    BY <1>1, DocumentTypes DEF Publish, TypeInv, StoreTypes, Indexes, Stored
  <2>2. TocTypes' /\ RequestTypes'
    BY <1>1 DEF Publish, TypeInv, TocTypes, RequestTypes
  <2>3. QED
    BY <2>1, <2>2, InTypes
<1>2. CASE TocStep
  BY <1>2, TypeToc
<1>3. CASE FeedMatch
  <2>1. StoreTypes'
    BY <1>3 DEF FeedMatch, TypeInv, StoreTypes, Indexes, Stored
  <2>2. TocTypes' /\ RequestTypes'
    BY <1>3 DEF FeedMatch, TypeInv, TocTypes, RequestTypes
  <2>3. QED
    BY <2>1, <2>2, InTypes
<1>4. CASE Restart
  <2>1. Indexes(index', StoredLaws) /\ StoredLaws \subseteq LawRecord
    BY <1>4, StoredTypes, StoreIndexes DEF Restart
  <2>2. index'.laws \subseteq LawRecord /\ Indexes(index', index'.laws)
    BY <2>1 DEF Indexes
  <2>3. StoreTypes'
    BY <1>4, <2>2, DocumentTypes DEF Restart, TypeInv, StoreTypes, Stored
  <2>4. TocTypes' /\ RequestTypes'
    BY <1>4, IdleTypes DEF Restart, TocTypes, RequestTypes
  <2>5. QED
    BY <2>3, <2>4, InTypes
<1>5. CASE \E r \in Requests : Begin(r) \/ Proceed(r)
  BY <1>5, TypeRequest
<1>6. CASE UNCHANGED vars
  <2>1. StoreTypes'
    BY <1>6 DEF vars, TypeInv, StoreTypes, Indexes, Stored
  <2>2. TocTypes' /\ RequestTypes'
    BY <1>6 DEF vars, TypeInv, TocTypes, RequestTypes
  <2>3. QED
    BY <2>1, <2>2, InTypes
<1>7. QED
  BY <1>1, <1>2, <1>3, <1>4, <1>5, <1>6 DEF Next

LEMMA TypeHolds == Spec => []TypeInv
  BY TypeInit, TypeStep, PTL DEF Spec

(* In every state the snapshot finds each of its laws under its id, every   *)
(* stored law is filed under its own, a run of RunTOC carries laws of one   *)
(* table of contents, and a request the slug of a linked ordinance.         *)
THEOREM TypeCorrect == Spec => []TypeOK
<1>1. TypeInv => TypeOK
  BY TypeInvImplies
<1>2. QED
  BY <1>1, TypeHolds, PTL

-----------------------------------------------------------------------------
(* The search and the catalog.                                             *)

Listed(d) == IF d = 0 THEN {} ELSE {l.id : l \in ToSet(TocLaws[d])}
Ids(set) == {l.id : l \in set}

(* No law is ever removed.                                                  *)
LEMMA StoredGrows ==
    ASSUME TypeInv, [Next]_vars
    PROVE  Stored \subseteq Stored'
<1>1. CASE UNCHANGED laws
  BY <1>1 DEF Stored
<1>2. CASE TocStore
  <2>1. toc.list \in Seq(LawRecord)
    BY DEF TypeInv
  <2>2. CASE UpsertLaws(toc.list)
    BY <2>1, <2>2, UpsertKeeps
  <2>3. QED
    BY <1>1, <1>2, <2>2 DEF TocStore
<1>3. ASSUME NEW r \in Requests, Insert(r)
      PROVE  Stored \subseteq Stored'
  <2>1. request[r].slug \in Slug
    BY <1>3 DEF Insert, TypeInv
  <2>2. QED
    BY <1>3, <2>1, StubTypes DEF Insert, Stored, TypeInv
<1>4. QED
  BY <1>1, <1>2, <1>3 DEF Next, vars, Publish, TocStep, TocFetch, TocSwap, FeedMatch, Restart, Begin,
                          Proceed, Look, List, Swap, End

(* What a request is going to swap in has the laws of the last table, or of *)
(* the one before if RunTOC swapped since the request began.                *)
SwapsIn(req) ==
    /\ req.pc = "swap" /\ req.old => Listed(prev) \subseteq Ids(req.list)
    /\ req.pc = "swap" /\ ~req.old => Listed(last) \subseteq Ids(req.list)

KeepInv ==
    /\ Listed(last) \subseteq Stored /\ Listed(prev) \subseteq Stored
    /\ toc.pc = "swap" => Listed(toc.doc) \subseteq Stored
    /\ toc.pc # "idle" => \A r \in Requests : ~request[r].old
    /\ \A r \in Requests : SwapsIn(request[r])
    /\ \A i \in Listed(last) \cap Listed(prev) : index.byID[i] # NoLaw

LEMMA KeepImplies == TypeInv /\ KeepInv => IndexKeepsCatalog
<1> SUFFICES ASSUME TypeInv, KeepInv, last # 0, prev # 0,
                    NEW l \in ToSet(TocLaws[last]), l \in ToSet(TocLaws[prev])
             PROVE  index.byID[l.id] # NoLaw
  BY DEF IndexKeepsCatalog
<1>1. l.id \in Listed(last) \cap Listed(prev)
  BY DEF Listed
<1>2. QED
  BY <1>1 DEF KeepInv

LEMMA KeepInit == Init => KeepInv
<1> SUFFICES ASSUME Init
             PROVE  KeepInv
  OBVIOUS
<1>1. Listed(last) = {} /\ Listed(prev) = {}
  BY DEF Init, Listed
<1>2. \A r \in Requests : request[r].pc = "idle"
  BY DEF Init, Idle
<1>3. toc.pc = "idle"
  BY DEF Init, IdleToc
<1>4. QED
  BY <1>1, <1>2, <1>3 DEF KeepInv, SwapsIn

(* The stored laws, listed now, have those of both tables.                  *)
LEMMA StoredHasListed ==
    ASSUME TypeInv, KeepInv
    PROVE  Listed(last) \subseteq Ids(StoredLaws) /\ Listed(prev) \subseteq Ids(StoredLaws)
<1>1. Stored \subseteq Ids(StoredLaws)
  BY StoredTypes DEF Ids
<1>2. QED
  BY <1>1 DEF KeepInv

LEMMA KeepToc ==
    ASSUME TypeInv, KeepInv, TocStep, Stored \subseteq Stored'
    PROVE  KeepInv'
<1>1. CASE TocFetch
  <2>1. /\ last' = last /\ prev' = prev /\ index' = index /\ request' = request /\ Stored' = Stored
        /\ \A r \in Requests : ~request[r].old
        /\ toc'.pc \in {"idle", "store"}
    BY <1>1 DEF TocFetch, Stored
  <2>2. QED
    BY <2>1 DEF KeepInv, SwapsIn, Listed
<1>2. CASE TocStore
  <2>1. /\ last' = last /\ prev' = prev /\ index' = index /\ request' = request
        /\ toc.pc = "store"
    BY <1>2 DEF TocStore
  <2>2. toc'.pc = "swap" => Listed(toc'.doc) \subseteq Stored'
    <3>1. CASE UpsertLaws(toc.list) /\ toc' = [toc EXCEPT !.pc = "swap"]
      <4>1. toc.list \in Seq(LawRecord) /\ toc.list = TocLaws[toc.doc] /\ toc.doc # 0
        BY <2>1, DocumentTypes DEF TypeInv
      <4>2. \A l \in ToSet(toc.list) : l.id \in Stored'
        BY <3>1, <4>1, UpsertKeeps
      <4>3. toc'.doc = toc.doc
        BY <3>1
      <4>4. QED
        BY <4>1, <4>2, <4>3 DEF Listed
    <3>2. CASE toc' = IdleToc
      BY <3>2 DEF IdleToc
    <3>3. QED
      BY <1>2, <3>1, <3>2 DEF TocStore
  <2>3. QED
    BY <2>1, <2>2 DEF KeepInv, SwapsIn, Listed
<1>3. CASE TocSwap
  <2>1. /\ last' = toc.doc /\ prev' = last /\ toc' = IdleToc /\ toc.pc = "swap" /\ Stored' = Stored
        /\ request' = [r \in Requests |-> [request[r] EXCEPT !.old = request[r].pc # "idle"]]
        /\ index' = BuildFromList(toc.list)
    BY <1>3 DEF TocSwap, Stored
  <2>2. toc.list \in Seq(LawRecord) /\ toc.list = TocLaws[toc.doc] /\ toc.doc # 0
    BY <2>1, DocumentTypes DEF TypeInv
  <2>3. Indexes(index', ToSet(toc.list))
    BY <2>1, <2>2, ListIndexes
  <2>4. \A i \in Listed(last') : index'.byID[i] # NoLaw
    BY <2>1, <2>2, <2>3 DEF Indexes, Listed
  <2>5. toc'.pc = "idle"
    BY <2>1 DEF IdleToc
  <2>6. ASSUME NEW r \in Requests
        PROVE  SwapsIn(request[r])'
    <3>1. ~request[r].old /\ request[r] \in RequestRecord
      BY <2>1 DEF KeepInv, TypeInv
    <3>2. request'[r] = [request[r] EXCEPT !.old = request[r].pc # "idle"]
      BY <2>1
    <3>3. /\ request'[r].pc = request[r].pc /\ request'[r].list = request[r].list
          /\ request[r].pc = "swap" => request'[r].old
      BY <3>1, <3>2 DEF RequestRecord
    <3>4. Listed(last) \subseteq Ids(request[r].list) \/ request[r].pc # "swap"
      BY <3>1 DEF KeepInv, SwapsIn
    <3>5. prev' = last
      BY <2>1
    <3>6. QED
      BY <3>3, <3>4, <3>5 DEF SwapsIn, Listed, Ids
  <2>7. Listed(last') \subseteq Stored' /\ Listed(prev') \subseteq Stored'
    BY <2>1 DEF KeepInv
  <2>8. QED
    BY <2>4, <2>5, <2>6, <2>7 DEF KeepInv, Listed
<1>4. QED
  BY <1>1, <1>2, <1>3 DEF TocStep

LEMMA KeepRequest ==
    ASSUME TypeInv, KeepInv, Stored \subseteq Stored',
           NEW r \in Requests, Begin(r) \/ Proceed(r)
    PROVE  KeepInv'
<1>1. /\ last' = last /\ prev' = prev /\ toc' = toc
      /\ request[r] \in RequestRecord /\ request \in [Requests -> RequestRecord]
  BY DEF TypeInv, Begin, Proceed, Look, Insert, List, Swap, End
<1>2. ASSUME NEW new, request' = [request EXCEPT ![r] = new], SwapsIn(new),
             new.old => request[r].old,
             \A i \in Listed(last) \cap Listed(prev) : index'.byID[i] # NoLaw
      PROVE  KeepInv'
  <2>1. \A q \in Requests : request'[q] = IF q = r THEN new ELSE request[q]
    BY <1>1, <1>2
  <2>2. ASSUME NEW q \in Requests
        PROVE  SwapsIn(request[q])' /\ (request'[q].old => request[q].old)
    <3>1. CASE q = r
      BY <1>1, <1>2, <2>1, <3>1 DEF SwapsIn, Listed
    <3>2. CASE q # r
      BY <1>1, <2>1, <3>2 DEF SwapsIn, Listed, KeepInv
    <3>3. QED
      BY <3>1, <3>2
  <2>3. toc'.pc # "idle" => \A q \in Requests : ~request'[q].old
    BY <1>1, <2>2 DEF KeepInv
  <2>4. QED
    BY <1>1, <1>2, <2>2, <2>3 DEF KeepInv, Listed
<1>3. CASE Begin(r)
  <2>1. PICK kind, todo :
            request' = [request EXCEPT ![r] = [Idle EXCEPT !.pc = "look", !.kind = kind, !.todo = todo]]
    BY <1>3 DEF Begin
  <2> DEFINE new == [Idle EXCEPT !.pc = "look", !.kind = kind, !.todo = todo]
  <2>2. new.pc = "look" /\ ~new.old
    BY DEF Idle
  <2>3. index' = index
    BY <1>3 DEF Begin
  <2> HIDE DEF new
  <2>4. QED
    BY <1>2, <2>1, <2>2, <2>3 DEF SwapsIn, KeepInv, new
<1>4. CASE Look(r)
  <2>1. PICK s : request' = [request EXCEPT
               ![r].todo = @ \ {s},
               ![r].slug = IF Key[s] \in Stored THEN NoName ELSE s,
               ![r].pc = IF Key[s] \in Stored THEN "look" ELSE "insert"]
    BY <1>4 DEF Look
  <2> DEFINE new == [request[r] EXCEPT !.todo = @ \ {s},
                                       !.slug = IF Key[s] \in Stored THEN NoName ELSE s,
                                       !.pc = IF Key[s] \in Stored THEN "look" ELSE "insert"]
  <2>2. new.pc # "swap" /\ (new.old => request[r].old)
    BY <1>1 DEF RequestRecord
  <2>3. request' = [request EXCEPT ![r] = new] /\ index' = index
    BY <1>1, <1>4, <2>1 DEF Look
  <2> HIDE DEF new
  <2>4. QED
    BY <1>2, <2>2, <2>3 DEF SwapsIn, KeepInv
<1>5. CASE Insert(r)
  <2> DEFINE neu == Key[request[r].slug] \notin Stored
             new == [request[r] EXCEPT
                        !.slug = NoName,
                        !.neu = @ \/ (neu /\ request[r].kind = "recheck"),
                        !.pc = IF neu /\ request[r].kind = "request" THEN "list" ELSE "look"]
  <2>1. new.pc # "swap" /\ (new.old => request[r].old)
    BY <1>1 DEF RequestRecord
  <2>2. request' = [request EXCEPT ![r] = new] /\ index' = index
    BY <1>1, <1>5 DEF Insert
  <2> HIDE DEF new
  <2>3. QED
    BY <1>2, <2>1, <2>2 DEF SwapsIn, KeepInv
<1>6. CASE List(r)
  <2> DEFINE new == [request[r] EXCEPT !.pc = "swap", !.list = StoredLaws, !.neu = FALSE]
  <2>1. new.list = StoredLaws /\ (new.old => request[r].old)
    BY <1>1 DEF RequestRecord
  <2>2. request' = [request EXCEPT ![r] = new] /\ index' = index
    BY <1>1, <1>6 DEF List
  <2> HIDE DEF new
  <2>3. SwapsIn(new)
    BY <2>1, StoredHasListed DEF SwapsIn
  <2>4. QED
    BY <1>2, <2>1, <2>2, <2>3 DEF KeepInv
<1>7. CASE Swap(r)
  <2> DEFINE new == [request[r] EXCEPT !.pc = "look", !.list = {}]
             list == request[r].list
  <2>1. new.pc # "swap" /\ (new.old => request[r].old)
    BY <1>1 DEF RequestRecord
  <2>2. request' = [request EXCEPT ![r] = new] /\ index' = BuildFromStore(list)
    BY <1>1, <1>7 DEF Swap
  <2> HIDE DEF new
  <2>3. list \subseteq LawRecord
    BY <1>1 DEF RequestRecord
  <2>4. Indexes(index', list)
    BY <2>2, <2>3, StoreIndexes
  <2>5. Listed(last) \cap Listed(prev) \subseteq Ids(list)
    BY <1>7 DEF Swap, KeepInv, SwapsIn
  <2>6. \A i \in Listed(last) \cap Listed(prev) : index'.byID[i] # NoLaw
    BY <2>4, <2>5 DEF Indexes, Ids
  <2>7. QED
    BY <1>2, <2>1, <2>2, <2>6 DEF SwapsIn
<1>8. CASE End(r)
  <2>1. request' = [request EXCEPT ![r] = Idle] /\ index' = index
    BY <1>8 DEF End
  <2>2. QED
    BY <1>2, <2>1, IdleTypes DEF SwapsIn, KeepInv
<1>9. QED
  BY <1>3, <1>4, <1>5, <1>6, <1>7, <1>8 DEF Proceed

LEMMA KeepStep == TypeInv /\ KeepInv /\ [Next]_vars => KeepInv'
<1> SUFFICES ASSUME TypeInv, KeepInv, [Next]_vars
             PROVE  KeepInv'
  OBVIOUS
<1>1. Stored \subseteq Stored'
  BY StoredGrows
<1>2. CASE TocStep
  BY <1>1, <1>2, KeepToc
<1>3. CASE \E r \in Requests : Begin(r) \/ Proceed(r)
  BY <1>1, <1>3, KeepRequest
<1>4. CASE Restart
  <2>1. /\ last' = last /\ prev' = prev /\ toc' = IdleToc
        /\ request' = [r \in Requests |-> Idle] /\ index' = BuildFromStore(StoredLaws)
    BY <1>4 DEF Restart
  <2>2. Indexes(index', StoredLaws)
    BY <2>1, StoredTypes, StoreIndexes
  <2>3. \A i \in Listed(last) : index'.byID[i] # NoLaw
    BY <2>2, StoredHasListed DEF Indexes, Ids
  <2>4. toc'.pc = "idle" /\ \A r \in Requests : request'[r].pc = "idle"
    BY <2>1, IdleTypes
  <2>5. QED
    BY <1>1, <2>1, <2>3, <2>4 DEF KeepInv, SwapsIn, Listed
<1>5. CASE Publish \/ FeedMatch \/ UNCHANGED vars
  <2>1. last' = last /\ prev' = prev /\ toc' = toc /\ request' = request /\ index' = index
    BY <1>5 DEF Publish, FeedMatch, vars
  <2>2. QED
    BY <1>1, <2>1 DEF KeepInv, SwapsIn, Listed
<1>6. QED
  BY <1>2, <1>3, <1>4, <1>5 DEF Next

(* A law that the last two tables of contents list is in the snapshot,      *)
(* whatever requests and rechecks that began before swap in.                *)
THEOREM CatalogIsKept == Spec => []IndexKeepsCatalog
<1>1. TypeInv /\ KeepInv => IndexKeepsCatalog
  BY KeepImplies
<1>2. QED
  BY <1>1, KeepInit, KeepStep, TypeHolds, PTL DEF Spec

-----------------------------------------------------------------------------
(* Ids and paths, as long as GII keeps the paths of its laws.               *)

Linked == UNION {Children[i] : i \in Id}

(* A law comes from a table of contents, or is the stub of a linked slug.   *)
Origin(l) ==
    \/ \E d \in DOMAIN Documents : \E k \in ToSet(TocLaws[d]) : k.id = l.id /\ k.slug = l.slug
    \/ l.slug \in Linked /\ Key[l.slug] = l.id

SamePath(set) == \A l \in set : laws[l.id].slug = l.slug

PathInv ==
    /\ \A i \in Stored : Origin(laws[i])
    /\ SamePath(index.laws)
    /\ toc.pc = "swap" => SamePath(ToSet(toc.list))
    /\ \A r \in Requests :
           /\ SamePath(request[r].list)
           /\ request[r].todo \subseteq Linked
           /\ request[r].pc = "insert" => request[r].slug \in Linked

LEMMA PathImplies == TypeInv /\ PathInv => IndexIsStored
<1> SUFFICES ASSUME TypeInv, PathInv, NEW i \in Id, index.byID[i] # NoLaw
             PROVE  laws[i].slug = index.byID[i].slug
  BY DEF IndexIsStored
<1>1. index.byID[i] \in index.laws /\ index.byID[i].id = i
  BY DEF TypeInv, Indexes
<1>2. QED
  BY <1>1 DEF PathInv, SamePath

LEMMA PathInit == Init => PathInv
<1> SUFFICES ASSUME Init
             PROVE  PathInv
  OBVIOUS
<1>1. Stored = {} /\ index.laws = {} /\ toc.pc = "idle"
  BY DEF Init, Stored, BuildFromStore, IdleToc
<1>2. \A r \in Requests : request[r].pc = "idle" /\ request[r].list = {} /\ request[r].todo = {}
  BY DEF Init, Idle
<1>3. QED
  BY <1>1, <1>2 DEF PathInv, SamePath

(* A law of the table that replaces a stored one has its path.              *)
LEMMA TocKeepsPath ==
    ASSUME PathsKept, NEW d \in DOMAIN Documents, NEW l \in ToSet(TocLaws[d]),
           NEW k, Origin(k), k.id = l.id
    PROVE  k.slug = l.slug
<1>1. CASE \E e \in DOMAIN Documents : \E j \in ToSet(TocLaws[e]) : j.id = k.id /\ j.slug = k.slug
  BY <1>1 DEF PathsKept
<1>2. CASE k.slug \in Linked /\ Key[k.slug] = k.id
  <2>1. \A i \in Id : \A s \in Children[i] : Key[s] = l.id => s = l.slug
    BY DEF PathsKept
  <2>2. QED
    BY <1>2, <2>1 DEF Linked
<1>3. QED
  BY <1>1, <1>2 DEF Origin

(* The entry of an id keeps its path, and no law becomes a stub again.      *)
KeepsRecords ==
    \A i \in Stored :
        /\ laws'[i].slug = laws[i].slug
        /\ laws[i].title # laws[i].slug => laws'[i].title # laws'[i].slug

(* What one transaction of RunTOC does to the store.                        *)
LEMMA UpsertKeepsPath ==
    ASSUME PathsKept, TypeInv, PathInv, toc.pc = "store", UpsertLaws(toc.list)
    PROVE  /\ KeepsRecords
           /\ \A i \in Stored' : Origin(laws'[i])
           /\ \A l \in ToSet(toc.list) : laws'[l.id].slug = l.slug
<1>1. /\ toc.list \in Seq(LawRecord) /\ toc.list = TocLaws[toc.doc] /\ toc.doc \in DOMAIN Documents
      /\ ToSet(toc.list) \subseteq LawRecord
  BY ListIndexes DEF TypeInv
<1> DEFINE new(i) == laws'[i] \in ToSet(toc.list) /\ laws'[i].id = i /\ laws'[i] # NoLaw
<1>2. \A i \in Id : \/ laws'[i] = laws[i] /\ \A l \in ToSet(toc.list) : l.id # i
                  \/ new(i)
  BY <1>1, UpsertKeeps
<1>3. ASSUME NEW i \in Stored, new(i)
      PROVE  laws'[i].slug = laws[i].slug /\ laws'[i].title # laws'[i].slug
  <2>1. laws[i].id = i /\ Origin(laws[i])
    BY DEF TypeInv, PathInv
  <2>2. laws[i].slug = laws'[i].slug
    BY <1>1, <1>3, <2>1, TocKeepsPath
  <2>3. laws'[i].title # laws'[i].slug
    BY <1>1, <1>3 DEF PathsKept
  <2>4. QED
    BY <2>2, <2>3
<1>4. KeepsRecords
  BY <1>2, <1>3 DEF KeepsRecords, Stored
<1>5. ASSUME NEW i \in Stored'
      PROVE  Origin(laws'[i])
  <2>1. CASE new(i)
    BY <1>1, <2>1 DEF Origin
  <2>2. CASE laws'[i] = laws[i]
    BY <1>5, <2>2 DEF PathInv, Stored
  <2>3. QED
    BY <1>2, <2>1, <2>2 DEF Stored
<1>6. ASSUME NEW l \in ToSet(toc.list)
      PROVE  laws'[l.id].slug = l.slug
  <2>1. l.id \in Id
    BY <1>1, NoLawIsNone
  <2>2. laws'[l.id] \in ToSet(toc.list) /\ laws'[l.id].id = l.id
    BY <1>2, <2>1
  <2>3. QED
    BY <1>1, <2>2 DEF PathsKept
<1>7. QED
  BY <1>4, <1>5, <1>6

(* Every step keeps the records.                                            *)
LEMMA RecordStep ==
    ASSUME PathsKept, TypeInv, PathInv, [Next]_vars
    PROVE  /\ KeepsRecords
           /\ \A i \in Stored' : Origin(laws'[i])
<1>1. CASE UNCHANGED laws
  BY <1>1 DEF KeepsRecords, Stored, PathInv
<1>2. CASE TocStore
  <2>1. CASE UpsertLaws(toc.list)
    BY <1>2, <2>1, UpsertKeepsPath DEF TocStore
  <2>2. QED
    BY <1>1, <1>2, <2>1 DEF TocStore
<1>3. ASSUME NEW r \in Requests, Insert(r)
      PROVE  KeepsRecords /\ \A i \in Stored' : Origin(laws'[i])
  <2> DEFINE s == request[r].slug
  <2>1. s \in Slug /\ s \in Linked
    BY <1>3 DEF Insert, TypeInv, PathInv
  <2>2. CASE Key[s] \in Stored
    BY <1>1, <1>3, <2>2 DEF Insert
  <2>3. CASE Key[s] \notin Stored
    <3>1. laws' = [laws EXCEPT ![Key[s]] = StubOf(s)]
      BY <1>3, <2>3 DEF Insert
    <3>2. \A i \in Id : i # Key[s] => laws'[i] = laws[i]
      BY <3>1 DEF TypeInv
    <3>3. laws'[Key[s]] = StubOf(s)
      BY <2>1, <3>1, StubTypes DEF TypeInv
    <3>4. KeepsRecords
      BY <2>3, <3>2 DEF KeepsRecords, Stored
    <3>5. Origin(StubOf(s))
      BY <2>1, StubTypes DEF Origin
    <3>6. QED
      BY <3>2, <3>3, <3>4, <3>5 DEF Stored, PathInv
  <2>4. QED
    BY <2>2, <2>3
<1>4. QED
  BY <1>1, <1>2, <1>3 DEF Next, vars, Publish, TocStep, TocFetch, TocSwap, FeedMatch, Restart, Begin,
                          Proceed, Look, List, Swap, End

(* What agreed with the store agrees with it later.                         *)
LEMMA PathStays ==
    ASSUME TypeInv, KeepsRecords, NEW set, set \subseteq LawRecord, SamePath(set)
    PROVE  SamePath(set)'
<1> SUFFICES ASSUME NEW l \in set
             PROVE  laws'[l.id].slug = l.slug
  BY DEF SamePath
<1>1. laws[l.id].slug = l.slug /\ l.slug \in Slug /\ l.id \in Id
  BY NoLawIsNone DEF SamePath
<1>2. l.id \in Stored
  BY <1>1, NoLawIsNone DEF Stored
<1>3. QED
  BY <1>1, <1>2 DEF KeepsRecords

(* The snapshot, the list of RunTOC and those of the requests.              *)
LEMMA PathRequest ==
    ASSUME TypeInv, PathInv, KeepsRecords, \A i \in Stored' : Origin(laws'[i]),
           NEW r \in Requests, Begin(r) \/ Proceed(r)
    PROVE  PathInv'
<1>1. /\ toc' = toc /\ request[r] \in RequestRecord /\ request \in [Requests -> RequestRecord]
      /\ request[r].todo \subseteq Linked
  BY DEF TypeInv, PathInv, Begin, Proceed, Look, Insert, List, Swap, End
<1>2. /\ SamePath(index.laws) /\ index.laws \subseteq LawRecord
      /\ \A q \in Requests : SamePath(request[q].list) /\ request[q].list \subseteq LawRecord
      /\ SamePath(StoredLaws) /\ StoredLaws \subseteq LawRecord
  BY StoredTypes DEF TypeInv, PathInv, RequestRecord, SamePath
<1>3. toc.pc = "swap" => \A l \in ToSet(toc.list) : laws'[l.id].slug = l.slug
  <2>1. toc.pc = "swap" => SamePath(ToSet(toc.list)) /\ ToSet(toc.list) \subseteq LawRecord
    BY ListIndexes DEF TypeInv, PathInv
  <2>2. QED
    BY <2>1, PathStays DEF SamePath
<1>4. \A l \in index.laws : laws'[l.id].slug = l.slug
  BY <1>2, PathStays DEF SamePath
<1>5. \A q \in Requests : \A l \in request[q].list : laws'[l.id].slug = l.slug
  BY <1>2, PathStays DEF SamePath
<1>6. ASSUME NEW new, request' = [request EXCEPT ![r] = new],
             \A l \in new.list : laws'[l.id].slug = l.slug,
             new.todo \subseteq Linked, new.pc = "insert" => new.slug \in Linked,
             \A l \in index'.laws : laws'[l.id].slug = l.slug
      PROVE  PathInv'
  <2>1. \A q \in Requests : request'[q] = IF q = r THEN new ELSE request[q]
    BY <1>1, <1>6
  <2>2. ASSUME NEW q \in Requests
        PROVE  /\ \A l \in request'[q].list : laws'[l.id].slug = l.slug
               /\ request'[q].todo \subseteq Linked
               /\ request'[q].pc = "insert" => request'[q].slug \in Linked
    <3>1. CASE q = r
      BY <1>6, <2>1, <3>1
    <3>2. CASE q # r
      BY <1>5, <2>1, <3>2 DEF PathInv
    <3>3. QED
      BY <3>1, <3>2
  <2>3. QED
    BY <1>1, <1>3, <1>6, <2>2 DEF PathInv, SamePath
<1>7. CASE Begin(r)
  <2>1. PICK kind \in Kinds, i \in Id :
            request' = [request EXCEPT ![r] =
                [Idle EXCEPT !.pc = "look", !.kind = kind, !.todo = Children[i]]]
    BY <1>7 DEF Begin, Stored
  <2> DEFINE new == [Idle EXCEPT !.pc = "look", !.kind = kind, !.todo = Children[i]]
  <2>2. new.pc = "look" /\ new.todo \subseteq Linked /\ new.list = {}
    BY DEF Idle, Linked
  <2>3. index' = index
    BY <1>7 DEF Begin
  <2> HIDE DEF new
  <2>4. QED
    BY <1>4, <1>6, <2>1, <2>2, <2>3 DEF new
<1>8. CASE Look(r)
  <2>1. PICK s \in request[r].todo : request' = [request EXCEPT
               ![r].todo = @ \ {s},
               ![r].slug = IF Key[s] \in Stored THEN NoName ELSE s,
               ![r].pc = IF Key[s] \in Stored THEN "look" ELSE "insert"]
    BY <1>8 DEF Look
  <2> DEFINE new == [request[r] EXCEPT !.todo = @ \ {s},
                                       !.slug = IF Key[s] \in Stored THEN NoName ELSE s,
                                       !.pc = IF Key[s] \in Stored THEN "look" ELSE "insert"]
  <2>2. /\ new.todo \subseteq Linked /\ new.list = request[r].list
        /\ new.pc = "insert" => new.slug \in Linked
    BY <1>1, <2>1 DEF RequestRecord
  <2>3. request' = [request EXCEPT ![r] = new] /\ index' = index
    BY <1>1, <1>8, <2>1 DEF Look
  <2> HIDE DEF new
  <2>4. QED
    BY <1>4, <1>5, <1>6, <2>2, <2>3
<1>9. CASE Insert(r)
  <2> DEFINE neu == Key[request[r].slug] \notin Stored
             new == [request[r] EXCEPT
                        !.slug = NoName,
                        !.neu = @ \/ (neu /\ request[r].kind = "recheck"),
                        !.pc = IF neu /\ request[r].kind = "request" THEN "list" ELSE "look"]
  <2>1. new.todo = request[r].todo /\ new.list = request[r].list /\ new.pc # "insert"
    BY <1>1 DEF RequestRecord
  <2>2. request' = [request EXCEPT ![r] = new] /\ index' = index
    BY <1>1, <1>9 DEF Insert
  <2> HIDE DEF new
  <2>3. QED
    BY <1>1, <1>4, <1>5, <1>6, <2>1, <2>2
<1>10. CASE List(r)
  <2> DEFINE new == [request[r] EXCEPT !.pc = "swap", !.list = StoredLaws, !.neu = FALSE]
  <2>1. new.list = StoredLaws /\ new.todo = request[r].todo /\ new.pc # "insert"
    BY <1>1 DEF RequestRecord
  <2>2. request' = [request EXCEPT ![r] = new] /\ index' = index
    BY <1>1, <1>10 DEF List
  <2> HIDE DEF new
  <2>3. \A l \in StoredLaws : laws'[l.id].slug = l.slug
    BY <1>2, PathStays DEF SamePath
  <2>4. QED
    BY <1>1, <1>4, <1>6, <2>1, <2>2, <2>3
<1>11. CASE Swap(r)
  <2> DEFINE new == [request[r] EXCEPT !.pc = "look", !.list = {}]
             list == request[r].list
  <2>1. new.list = {} /\ new.todo = request[r].todo /\ new.pc # "insert"
    BY <1>1 DEF RequestRecord
  <2>2. request' = [request EXCEPT ![r] = new] /\ index' = BuildFromStore(list)
    BY <1>1, <1>11 DEF Swap
  <2> HIDE DEF new
  <2>3. index'.laws = list
    BY <2>2 DEF BuildFromStore
  <2>4. QED
    BY <1>1, <1>5, <1>6, <2>1, <2>2, <2>3
<1>12. CASE End(r)
  <2>1. request' = [request EXCEPT ![r] = Idle] /\ index' = index
    BY <1>12 DEF End
  <2>2. Idle.list = {} /\ Idle.todo = {} /\ Idle.pc = "idle"
    BY DEF Idle
  <2>3. QED
    BY <1>4, <1>6, <2>1, <2>2
<1>13. QED
  BY <1>7, <1>8, <1>9, <1>10, <1>11, <1>12 DEF Proceed

LEMMA PathToc ==
    ASSUME PathsKept, TypeInv, PathInv, KeepsRecords, \A i \in Stored' : Origin(laws'[i]), TocStep
    PROVE  PathInv'
<1>1. /\ SamePath(index.laws) /\ index.laws \subseteq LawRecord
      /\ \A q \in Requests :
            /\ SamePath(request[q].list) /\ request[q].list \subseteq LawRecord
            /\ request[q].todo \subseteq Linked
            /\ request[q].pc = "insert" => request[q].slug \in Linked
  BY DEF TypeInv, PathInv, RequestRecord
<1>2. \A l \in index.laws : laws'[l.id].slug = l.slug
  BY <1>1, PathStays DEF SamePath
<1>3. \A q \in Requests : \A l \in request[q].list : laws'[l.id].slug = l.slug
  BY <1>1, PathStays DEF SamePath
<1>4. CASE TocFetch
  <2>1. index' = index /\ request' = request /\ toc'.pc # "swap"
    BY <1>4 DEF TocFetch
  <2>2. QED
    BY <1>1, <1>2, <1>3, <2>1 DEF PathInv, SamePath
<1>5. CASE TocStore
  <2>1. index' = index /\ request' = request /\ toc.pc = "store"
    BY <1>5 DEF TocStore
  <2>2. toc'.pc = "swap" => \A l \in ToSet(toc'.list) : laws'[l.id].slug = l.slug
    <3>1. CASE UpsertLaws(toc.list) /\ toc' = [toc EXCEPT !.pc = "swap"]
      <4>1. toc'.list = toc.list
        BY <3>1
      <4>2. QED
        BY <2>1, <3>1, <4>1, UpsertKeepsPath
    <3>2. CASE toc' = IdleToc
      BY <3>2 DEF IdleToc
    <3>3. QED
      BY <1>5, <3>1, <3>2 DEF TocStore
  <2>3. QED
    BY <1>1, <1>2, <1>3, <2>1, <2>2 DEF PathInv, SamePath
<1>6. CASE TocSwap
  <2>1. /\ toc'.pc = "idle" /\ index'.laws = ToSet(toc.list) /\ toc.pc = "swap" /\ laws' = laws
        /\ request' = [q \in Requests |-> [request[q] EXCEPT !.old = request[q].pc # "idle"]]
    BY <1>6 DEF TocSwap, BuildFromList, IdleToc
  <2>2. \A l \in index'.laws : laws'[l.id].slug = l.slug
    BY <2>1 DEF PathInv, SamePath
  <2>3. ASSUME NEW q \in Requests
        PROVE  /\ request'[q].list = request[q].list /\ request'[q].todo = request[q].todo
               /\ request'[q].pc = request[q].pc /\ request'[q].slug = request[q].slug
    <3>1. request[q] \in RequestRecord
      BY DEF TypeInv
    <3>2. QED
      BY <2>1, <3>1 DEF RequestRecord
  <2>4. QED
    BY <1>1, <1>3, <2>1, <2>2, <2>3 DEF PathInv, SamePath
<1>7. QED
  BY <1>4, <1>5, <1>6 DEF TocStep

LEMMA PathStep == PathsKept /\ TypeInv /\ PathInv /\ [Next]_vars => PathInv'
<1> SUFFICES ASSUME PathsKept, TypeInv, PathInv, [Next]_vars
             PROVE  PathInv'
  OBVIOUS
<1>1. KeepsRecords /\ \A i \in Stored' : Origin(laws'[i])
  BY RecordStep
<1>2. CASE TocStep
  BY <1>1, <1>2, PathToc
<1>3. CASE \E r \in Requests : Begin(r) \/ Proceed(r)
  BY <1>1, <1>3, PathRequest
<1>4. CASE Restart
  <2>1. toc'.pc = "idle" /\ index'.laws = StoredLaws /\ laws' = laws
    BY <1>4 DEF Restart, BuildFromStore, IdleToc
  <2>2. \A r \in Requests : request'[r].pc = "idle" /\ request'[r].list = {} /\ request'[r].todo = {}
    BY <1>4 DEF Restart, Idle
  <2>3. \A l \in StoredLaws : laws'[l.id].slug = l.slug
    BY <2>1, StoredTypes
  <2>4. QED
    BY <1>1, <2>1, <2>2, <2>3 DEF PathInv, SamePath
<1>5. CASE Publish \/ FeedMatch \/ UNCHANGED vars
  <2>1. laws' = laws /\ toc' = toc /\ request' = request /\ index' = index
    BY <1>5 DEF Publish, FeedMatch, vars
  <2>2. QED
    BY <1>1, <2>1 DEF PathInv, SamePath
<1>6. QED
  BY <1>2, <1>3, <1>4, <1>5 DEF Next

LEMMA PathHolds == PathsKept => (Spec => []PathInv)
<1> SUFFICES ASSUME PathsKept
             PROVE  Spec => []PathInv
  OBVIOUS
<1>1. TypeInv /\ PathInv /\ [Next]_vars => PathInv'
  BY PathStep
<1>2. QED
  BY <1>1, PathInit, TypeHolds, PTL DEF Spec

(* As long as GII keeps the paths of its laws, what the search returns is   *)
(* in the store under its id and of the same path, however old the snapshot *)
(* is and whoever swapped it in.                                            *)
THEOREM IndexStored == PathsKept => (Spec => []IndexIsStored)
<1> SUFFICES ASSUME PathsKept
             PROVE  Spec => []IndexIsStored
  OBVIOUS
<1>1. TypeInv /\ PathInv => IndexIsStored
  BY PathImplies
<1>2. QED
  BY <1>1, PathHolds, TypeHolds, PTL

(* As long as GII keeps them, the entry of an id keeps its path through all *)
(* tables, stubs and restarts, and no law of a table becomes a stub again.  *)
THEOREM RecordsStay == PathsKept => (Spec => RecordsKept)
<1> SUFFICES ASSUME PathsKept
             PROVE  Spec => RecordsKept
  OBVIOUS
<1>1. TypeInv /\ PathInv /\ [Next]_vars => [KeepsRecords]_vars
  BY RecordStep
<1>2. QED
  BY <1>1, PathHolds, TypeHolds, PTL DEF Spec, RecordsKept, KeepsRecords

-----------------------------------------------------------------------------
(* Names and likeness, as long as no table gives one id to two laws.        *)

Unique(set) == \A l, k \in set : l.id = k.id => l = k

LEMMA KeyScoresRange ==
    ASSUME NEW k \in Keys, NEW l \in LawRecord
    PROVE  /\ KeyScores(k, l) \subseteq 0..100
           /\ 100 \in KeyScores(k, l) <=> k \in Aliases(l)
<1>1. l.abbr \in Name /\ l.title \in Name
  BY DEF LawRecord
<1>2. Likeness[<<k, l.abbr>>] \in 0..91 /\ TitleLike[<<k, l.title>>] \in 0..84
  BY <1>1, NameAssumption
<1>3. QED
  BY <1>2 DEF KeyScores

LEMMA ScoresRange ==
    ASSUME NEW ix, ix.laws \subseteq LawRecord, NEW q, NEW i
    PROVE  /\ Scores(ix, q, i) \subseteq 0..100
           /\ Max(Scores(ix, q, i)) \in Scores(ix, q, i)
           /\ 100 \in Scores(ix, q, i) <=> \E l \in ix.laws : l.id = i /\ Bears(l, q)
           /\ 100 \in Scores(ix, q, i) <=> Max(Scores(ix, q, i)) = 100
<1> DEFINE keys == AlternateKeys(q) \cap Keys
           from(x) == \E k \in keys : \E l \in ix.laws : l.id = i /\ x \in KeyScores(k, l)
<1>1. \A k \in keys : \A l \in ix.laws :
          /\ KeyScores(k, l) \subseteq 0..100
          /\ 100 \in KeyScores(k, l) <=> k \in Aliases(l)
  BY KeyScoresRange
<1>2. /\ \A x \in Scores(ix, q, i) : x = 0 \/ x = 95 \/ from(x)
      /\ 0 \in Scores(ix, q, i)
      /\ \A x : from(x) => x \in Scores(ix, q, i)
  BY DEF Scores
<1>3. \A x : from(x) => x \in 0..100
  BY <1>1
<1>4. from(100) <=> \E l \in ix.laws : l.id = i /\ \E k \in keys : k \in Aliases(l)
  BY <1>1
<1>5. \A l : Bears(l, q) <=> \E k \in keys : k \in Aliases(l)
  BY DEF Bears
<1>6. from(100) <=> \E l \in ix.laws : l.id = i /\ Bears(l, q)
  BY <1>4, <1>5
<1> HIDE DEF keys, from
<1>7. Scores(ix, q, i) \subseteq 0..100 /\ Scores(ix, q, i) # {}
  <2>1. \A x \in Scores(ix, q, i) : x \in 0..100
    <3>1. 0 \in 0..100 /\ 95 \in 0..100
      OBVIOUS
    <3>2. QED
      BY <1>2, <1>3, <3>1, Zenon
  <2>2. QED
    BY <1>2, <2>1
<1>8. /\ Max(Scores(ix, q, i)) \in Scores(ix, q, i)
      /\ \A k \in Scores(ix, q, i) : Max(Scores(ix, q, i)) >= k
  BY <1>7, HasLast
<1>9. 100 \in Scores(ix, q, i) <=> from(100)
  BY <1>2
<1>10. 100 \in Scores(ix, q, i) <=> Max(Scores(ix, q, i)) = 100
  BY <1>7, <1>8
<1>11. QED
  BY <1>6, <1>7, <1>8, <1>9, <1>10

LEMMA CandidateScores ==
    ASSUME NEW ix, NEW q
    PROVE  /\ \A c \in Candidates(ix, q) : \E i : c = [law |-> ix.byID[i], score |-> Max(Scores(ix, q, i))]
           /\ \A l \in ix.laws : Max(Scores(ix, q, l.id)) > 0 =>
                  [law |-> ix.byID[l.id], score |-> Max(Scores(ix, q, l.id))] \in Candidates(ix, q)
<1> DEFINE candidate(i) == [law |-> ix.byID[i], score |-> Max(Scores(ix, q, i))]
<1>1. Candidates(ix, q) = {c \in {candidate(i) : i \in Meant(q) \cup {l.id : l \in ix.laws}} : c.score > 0}
  BY DEF Candidates
<1>2. \A i : candidate(i).score = Max(Scores(ix, q, i))
  OBVIOUS
<1> HIDE DEF candidate
<1>3. \A c \in Candidates(ix, q) : \E i : c = candidate(i)
  BY <1>1
<1>4. \A l \in ix.laws : Max(Scores(ix, q, l.id)) > 0 => candidate(l.id) \in Candidates(ix, q)
  BY <1>1, <1>2
<1>5. QED
  BY <1>3, <1>4, Zenon DEF candidate

(* A query that a law bears goes to such a law.                             *)
LEMMA BearerWins ==
    ASSUME NEW ix, Indexes(ix, ix.laws), ix.laws \subseteq LawRecord, Unique(ix.laws),
           NEW q, Book[q] = 0, NEW l \in ix.laws, Bears(l, q),
           NEW threshold, NEW o \in Resolve(ix, q, threshold), o.found
    PROVE  Bears(o.law, q)
<1> DEFINE all == Candidates(ix, q)
           scores == {c.score : c \in all}
           chosen == {c \in all : c.score = Max(scores)}
<1>1. \A c \in all : c.score \in 0..100
  BY CandidateScores, ScoresRange
<1>2. \E c \in all : c.score = 100
  <2>1. Max(Scores(ix, q, l.id)) = 100
    BY ScoresRange
  <2>2. QED
    <3>1. [law |-> ix.byID[l.id], score |-> 100] \in all
      BY <2>1, CandidateScores
    <3>2. QED
      BY <3>1
<1>3. scores \subseteq 0..100 /\ 100 \in scores
  BY <1>1, <1>2
<1>4. Max(scores) = 100
  <2> HIDE DEF scores
  <2>1. scores # {} /\ 100 \in Nat
    BY <1>3
  <2>2. Max(scores) \in scores /\ \A k \in scores : Max(scores) >= k
    BY <1>3, <2>1, HasLast
  <2>3. Max(scores) \in 0..100 /\ Max(scores) >= 100
    BY <1>3, <2>2
  <2>4. QED
    BY <2>3
<1>5. \E c \in chosen : o.law = c.law
  <2>1. all # {}
    BY <1>2
  <2>2. o \in (IF Max(scores) >= threshold
               THEN {[found |-> TRUE, ambiguous |-> FALSE, law |-> c.law] : c \in chosen}
               ELSE {[found |-> FALSE, ambiguous |-> FALSE, law |-> NoLaw]})
    BY <2>1, Zenon DEF Resolve
  <2> HIDE DEF all, scores, chosen
  <2>3. CASE Max(scores) >= threshold
    <3>1. PICK c \in chosen : o = [found |-> TRUE, ambiguous |-> FALSE, law |-> c.law]
      BY <2>2, <2>3
    <3>2. QED
      BY <3>1
  <2>4. CASE ~(Max(scores) >= threshold)
    BY <2>2, <2>4
  <2>5. QED
    BY <2>3, <2>4
<1>6. PICK c \in all : c.score = 100 /\ o.law = c.law
  BY <1>4, <1>5
<1>7. PICK i : c = [law |-> ix.byID[i], score |-> Max(Scores(ix, q, i))]
  BY <1>6, CandidateScores
<1>8. PICK m \in ix.laws : m.id = i /\ Bears(m, q)
  BY <1>6, <1>7, ScoresRange
<1>9. ix.byID[i] = m
  <2>1. i \in Id /\ ix.byID[i] # NoLaw
    BY <1>8, NoLawIsNone DEF Indexes
  <2>2. ix.byID[i] \in ix.laws /\ ix.byID[i].id = i
    BY <2>1 DEF Indexes
  <2>3. QED
    BY <1>8, <2>2 DEF Unique
<1>10. QED
  BY <1>6, <1>7, <1>8, <1>9

LEMMA BookWins ==
    ASSUME NEW ix, NEW q, Book[q] # 0, NEW threshold, NEW o \in Resolve(ix, q, threshold), o.found
    PROVE  SGBBookNumber(o.law) = Book[q]
<1> DEFINE all == Candidates(ix, q)
           chosen == {c \in all : SGBBookNumber(c.law) = Book[q]}
           none == [found |-> FALSE, ambiguous |-> FALSE, law |-> NoLaw]
<1>1. o \in (IF all = {} THEN {none}
             ELSE IF Cardinality(chosen) # 1 THEN {[none EXCEPT !.ambiguous = TRUE]}
             ELSE {[found |-> TRUE, ambiguous |-> FALSE, law |-> c.law] : c \in chosen})
  BY Zenon DEF Resolve
<1>2. ~none.found /\ ~[none EXCEPT !.ambiguous = TRUE].found
  OBVIOUS
<1> HIDE DEF all, none
<1>3. o \in {[found |-> TRUE, ambiguous |-> FALSE, law |-> c.law] : c \in chosen}
  BY <1>1, <1>2
<1>4. QED
  BY <1>3

UniqueInv == Unique(index.laws) /\ \A r \in Requests : Unique(request[r].list)

(* Where the snapshot and the lists of requests come from.                  *)
LEMMA ListOrigin ==
    ASSUME TypeInv, [Next]_vars
    PROVE  /\ \A q \in Requests : request'[q].list \in {request[q].list, {}, StoredLaws}
           /\ \/ index'.laws \in {index.laws, StoredLaws}
              \/ \E q \in Requests : index'.laws = request[q].list
              \/ \E d \in DOMAIN Documents : index'.laws = ToSet(TocLaws[d])
<1>1. request \in [Requests -> RequestRecord]
  BY DEF TypeInv
<1>2. CASE request' = request /\ index' = index
  BY <1>2
<1>3. CASE TocSwap
  <2>1. \A q \in Requests : request'[q].list = request[q].list
    BY <1>1, <1>3 DEF TocSwap, RequestRecord
  <2>2. index'.laws = ToSet(toc.list)
    BY <1>3 DEF TocSwap, BuildFromList
  <2>3. toc.doc \in DOMAIN Documents /\ toc.list = TocLaws[toc.doc]
    BY <1>3 DEF TocSwap, TypeInv
  <2>4. QED
    BY <2>1, <2>2, <2>3
<1>4. CASE Restart
  BY <1>4 DEF Restart, BuildFromStore, Idle
<1>5. ASSUME NEW r \in Requests, Begin(r) \/ Look(r) \/ Insert(r) \/ List(r) \/ Swap(r) \/ End(r)
      PROVE  /\ \A q \in Requests : request'[q].list \in {request[q].list, {}, StoredLaws}
             /\ index'.laws = index.laws \/ index'.laws = request[r].list
  <2>1. \A q \in Requests \ {r} : request'[q] = request[q]
    BY <1>1, <1>5 DEF Begin, Look, Insert, List, Swap, End
  <2>2. index' = index \/ index' = BuildFromStore(request[r].list)
    BY <1>5 DEF Begin, Look, Insert, List, Swap, End
  <2>3. index'.laws = index.laws \/ index'.laws = request[r].list
    BY <2>2 DEF BuildFromStore
  <2>4. CASE Begin(r)
    BY <1>1, <2>1, <2>3, <2>4 DEF Begin, Idle
  <2>5. CASE Look(r)
    <3>1. PICK s : request' = [request EXCEPT
                      ![r].todo = @ \ {s},
                      ![r].slug = IF Key[s] \in Stored THEN NoName ELSE s,
                      ![r].pc = IF Key[s] \in Stored THEN "look" ELSE "insert"]
      BY <2>5 DEF Look
    <3>2. request[r] \in RequestRecord
      BY <1>1
    <3>3. request'[r].list = request[r].list
      BY <1>1, <3>1, <3>2 DEF RequestRecord
    <3>4. QED
      BY <2>1, <2>3, <3>3
  <2>6. CASE Insert(r)
    BY <1>1, <2>1, <2>3, <2>6 DEF Insert, RequestRecord
  <2>7. CASE List(r)
    BY <1>1, <2>1, <2>3, <2>7 DEF List, RequestRecord
  <2>8. CASE Swap(r)
    <3>1. request'[r].list = {}
      BY <1>1, <2>8 DEF Swap, RequestRecord
    <3>2. QED
      BY <2>1, <2>3, <3>1
  <2>9. CASE End(r)
    BY <1>1, <2>1, <2>3, <2>9 DEF End, Idle
  <2>10. QED
    BY <1>5, <2>4, <2>5, <2>6, <2>7, <2>8, <2>9
<1>6. CASE TocFetch \/ TocStore \/ Publish \/ FeedMatch \/ UNCHANGED vars
  BY <1>2, <1>6 DEF TocFetch, TocStore, Publish, FeedMatch, vars
<1>7. QED
  BY <1>3, <1>4, <1>5, <1>6 DEF Next, TocStep, Proceed

LEMMA UniqueStep == IdsApart /\ TypeInv /\ UniqueInv /\ [Next]_vars => UniqueInv'
<1> SUFFICES ASSUME IdsApart, TypeInv, UniqueInv, [Next]_vars
             PROVE  UniqueInv'
  OBVIOUS
<1>1. Unique(StoredLaws) /\ Unique({})
  BY StoredTypes DEF Unique
<1>2. \A d \in DOMAIN Documents : Unique(ToSet(TocLaws[d]))
  BY DEF IdsApart, Unique
<1>3. Unique(index'.laws)
  BY <1>1, <1>2, ListOrigin DEF UniqueInv
<1>4. \A q \in Requests : Unique(request'[q].list)
  BY <1>1, ListOrigin DEF UniqueInv
<1>5. QED
  BY <1>3, <1>4 DEF UniqueInv, Unique

LEMMA NameImplies == TypeInv /\ UniqueInv => NameBeatsLikeness
<1> SUFFICES ASSUME TypeInv, UniqueInv, NEW q \in Queries, NEW o \in Resolve(index, q, Threshold), o.found
             PROVE  /\ Book[q] # 0 => SGBBookNumber(o.law) = Book[q]
                    /\ Book[q] = 0 /\ (\E l \in index.laws : Bears(l, q)) => Bears(o.law, q)
  BY DEF NameBeatsLikeness
<1>1. Book[q] # 0 => SGBBookNumber(o.law) = Book[q]
  BY BookWins
<1>2. Indexes(index, index.laws) /\ index.laws \subseteq LawRecord /\ Unique(index.laws)
  BY DEF TypeInv, UniqueInv
<1>3. Book[q] = 0 /\ (\E l \in index.laws : Bears(l, q)) => Bears(o.law, q)
  BY <1>2, BearerWins
<1>4. QED
  BY <1>1, <1>3

LEMMA UniqueHolds == IdsApart => (Spec => []UniqueInv)
<1> SUFFICES ASSUME IdsApart
             PROVE  Spec => []UniqueInv
  OBVIOUS
<1>1. ASSUME Init PROVE UniqueInv
  <2>1. index.laws = {} /\ \A r \in Requests : request[r].list = {}
    BY <1>1, IdleTypes DEF Init, BuildFromStore
  <2>2. QED
    BY <2>1 DEF UniqueInv, Unique
<1>2. TypeInv /\ UniqueInv /\ [Next]_vars => UniqueInv'
  BY UniqueStep
<1>3. QED
  BY <1>1, <1>2, TypeHolds, PTL DEF Spec

(* As long as no table gives one id to two laws, a query that a law of the  *)
(* snapshot bears as abbreviation or id goes to a law that bears it, and    *)
(* one for an SGB book to that book, whatever the scores of all others are. *)
THEOREM NameWins == IdsApart => (Spec => []NameBeatsLikeness)
<1> SUFFICES ASSUME IdsApart
             PROVE  Spec => []NameBeatsLikeness
  OBVIOUS
<1>1. TypeInv /\ UniqueInv => NameBeatsLikeness
  BY NameImplies
<1>2. QED
  BY <1>1, UniqueHolds, TypeHolds, PTL

-----------------------------------------------------------------------------
(* What the feed links.                                                     *)

(* Where the law of an answer comes from: the id of a candidate.            *)
LEMMA FoundScores ==
    ASSUME NEW ix, ix.laws \subseteq LawRecord, NEW q, NEW threshold,
           NEW o \in Resolve(ix, q, threshold), o.found
    PROVE  \E i \in Meant(q) \cup {l.id : l \in ix.laws} :
               /\ o.law = ix.byID[i]
               /\ Book[q] = 0 => Max(Scores(ix, q, i)) >= threshold
<1> DEFINE ids == Meant(q) \cup {l.id : l \in ix.laws}
           candidate(i) == [law |-> ix.byID[i], score |-> Max(Scores(ix, q, i))]
           all == Candidates(ix, q)
           best == Max({c.score : c \in all})
           chosen == IF Book[q] # 0 THEN {c \in all : SGBBookNumber(c.law) = Book[q]}
                     ELSE {c \in all : c.score = best}
           none == [found |-> FALSE, ambiguous |-> FALSE, law |-> NoLaw]
<1>1. o \in (IF all = {} THEN {none}
             ELSE IF Book[q] # 0 /\ Cardinality(chosen) # 1 THEN {[none EXCEPT !.ambiguous = TRUE]}
             ELSE IF Book[q] # 0 \/ best >= threshold
             THEN {[found |-> TRUE, ambiguous |-> FALSE, law |-> c.law] : c \in chosen}
             ELSE {none})
  BY Zenon DEF Resolve
<1>2. ~none.found /\ ~[none EXCEPT !.ambiguous = TRUE].found
  OBVIOUS
<1>3. \A c \in all : \E i \in ids : c = candidate(i)
  BY DEF Candidates
<1>4. \A c \in chosen : c \in all /\ (Book[q] = 0 => c.score = best)
  OBVIOUS
<1>5. \A i : candidate(i).law = ix.byID[i] /\ candidate(i).score = Max(Scores(ix, q, i))
  OBVIOUS
<1> HIDE DEF ids, candidate, all, best, chosen, none
<1>6. /\ Book[q] # 0 \/ best >= threshold
      /\ o \in {[found |-> TRUE, ambiguous |-> FALSE, law |-> c.law] : c \in chosen}
  BY <1>1, <1>2
<1>7. PICK c \in chosen : o = [found |-> TRUE, ambiguous |-> FALSE, law |-> c.law]
  BY <1>6
<1>8. PICK i \in ids : c = candidate(i)
  BY <1>3, <1>4, <1>7
<1>9. o.law = ix.byID[i] /\ (Book[q] = 0 => Max(Scores(ix, q, i)) >= threshold)
  BY <1>4, <1>5, <1>6, <1>7, <1>8
<1>10. QED
  BY <1>8, <1>9 DEF ids

(* Only a law that was found has an id.                                    *)
LEMMA FoundHasLaw ==
    ASSUME NEW ix, NEW q, NEW threshold, NEW o \in Resolve(ix, q, threshold), o.law.id # NoName
    PROVE  o.found
<1> DEFINE all == Candidates(ix, q)
           best == Max({c.score : c \in all})
           chosen == IF Book[q] # 0 THEN {c \in all : SGBBookNumber(c.law) = Book[q]}
                     ELSE {c \in all : c.score = best}
           none == [found |-> FALSE, ambiguous |-> FALSE, law |-> NoLaw]
<1>1. o \in (IF all = {} THEN {none}
             ELSE IF Book[q] # 0 /\ Cardinality(chosen) # 1 THEN {[none EXCEPT !.ambiguous = TRUE]}
             ELSE IF Book[q] # 0 \/ best >= threshold
             THEN {[found |-> TRUE, ambiguous |-> FALSE, law |-> c.law] : c \in chosen}
             ELSE {none})
  BY Zenon DEF Resolve
<1>2. none.law.id = NoName /\ [none EXCEPT !.ambiguous = TRUE].law.id = NoName
  BY DEF NoLaw
<1> HIDE DEF all, best, chosen, none
<1>3. o \in {[found |-> TRUE, ambiguous |-> FALSE, law |-> c.law] : c \in chosen}
  BY <1>1, <1>2
<1>4. QED
  BY <1>3

(* A score that no likeness reaches is that of a name, title or variant.    *)
LEMMA HighScores ==
    ASSUME NEW ix, ix.laws \subseteq LawRecord, NEW q, NEW i, NEW t \in {85, 90},
           \A n \in Name : \A k \in AlternateKeys(q) \cap Keys : Likeness[<<k, n>>] < t,
           Max(Scores(ix, q, i)) >= t
    PROVE  \/ i \in Meant(q)
           \/ \E l \in ix.laws :
                  l.id = i /\ (Bears(l, q) \/ Key[l.title] \in AlternateKeys(q) \cap Keys)
<1> DEFINE keys == AlternateKeys(q) \cap Keys
<1>1. PICK x \in Scores(ix, q, i) : x = Max(Scores(ix, q, i)) /\ x >= t
  BY ScoresRange
<1>2. x = 0 \/ i \in Meant(q) \/ \E k \in keys : \E l \in ix.laws : l.id = i /\ x \in KeyScores(k, l)
  BY DEF Scores
<1>3. SUFFICES ASSUME NEW k \in keys, NEW l \in ix.laws, l.id = i, x \in KeyScores(k, l)
               PROVE  Bears(l, q) \/ Key[l.title] \in keys
  BY <1>1, <1>2
<1>4. l.abbr \in Name /\ l.title \in Name
  BY DEF LawRecord
<1>5. /\ Likeness[<<k, l.abbr>>] \in 0..91 /\ Likeness[<<k, l.abbr>>] < t
      /\ TitleLike[<<k, l.title>>] \in 0..84
  BY <1>4, NameAssumption
<1>6. k \in Aliases(l) \/ k = Key[l.title]
  <2>1. \/ x = Likeness[<<k, l.abbr>>] \/ x = TitleLike[<<k, l.title>>]
        \/ k \in Aliases(l) \/ k = Key[l.title]
    BY <1>3 DEF KeyScores
  <2>2. QED
    BY <1>1, <1>5, <2>1
<1>7. QED
  BY <1>6 DEF Bears

(* An answer that is a law of the catalog is one the query names.           *)
LEMMA FoundIsNamed ==
    ASSUME NEW ix, Indexes(ix, ix.laws), ix.laws \subseteq LawRecord, Unique(ix.laws),
           NEW q, NEW t \in {85, 90},
           \A n \in Name : \A k \in AlternateKeys(q) \cap Keys : Likeness[<<k, n>>] < t,
           NEW o \in Resolve(ix, q, t), o.found, o.law.id \in Id
    PROVE  ix.byID[o.law.id] # NoLaw /\ NamesLaw(q, ix.byID[o.law.id])
<1>1. PICK i \in Meant(q) \cup {l.id : l \in ix.laws} :
          o.law = ix.byID[i] /\ (Book[q] = 0 => Max(Scores(ix, q, i)) >= t)
  BY FoundScores
<1>2. i \in Id
  <2>1. Meant(q) \subseteq Id
    BY NameAssumption DEF Meant
  <2>2. QED
    BY <2>1 DEF LawRecord
<1>3. o.law # NoLaw /\ o.law \in ix.laws /\ o.law.id = i
  <2>1. NoLaw.id \notin Id
    BY DEF NoLaw, Id
  <2>2. QED
    BY <1>1, <1>2, <2>1 DEF Indexes
<1>4. NamesLaw(q, o.law)
  <2>1. CASE Book[q] # 0
    BY <2>1, BookWins DEF NamesLaw
  <2>2. CASE Book[q] = 0
    <3>1. \/ i \in Meant(q)
          \/ \E l \in ix.laws :
                 l.id = i /\ (Bears(l, q) \/ Key[l.title] \in AlternateKeys(q) \cap Keys)
      BY <1>1, <2>2, HighScores
    <3>2. \A l \in ix.laws : l.id = i => l = o.law
      BY <1>3 DEF Unique
    <3>3. QED
      BY <1>3, <3>1, <3>2 DEF NamesLaw
  <2>3. QED
    BY <2>1, <2>2
<1>5. QED
  BY <1>1, <1>3, <1>4

NamesItem(link) ==
    LET l == index.byID[link[2]]
    IN  l # NoLaw /\ (NamesLaw(link[1].abbr, l) \/ NamesLaw(link[1].title, l))

LEMMA MatchIsNamed ==
    ASSUME AlikeIsLess, TypeInv, UniqueInv, NEW it \in FeedItems, NEW i \in Id,
           i \in MatchLawFromItem(it)
    PROVE  NamesItem(<<it, i>>)
<1>1. Indexes(index, index.laws) /\ index.laws \subseteq LawRecord /\ Unique(index.laws)
  BY DEF TypeInv, UniqueInv
<1>2. NoName \notin Id
  BY DEF Id
<1> DEFINE named == IF it.abbr = NoName THEN {} ELSE Resolve(index, it.abbr, 90)
           titled == Resolve(index, it.title, 85)
<1>3. i \in (IF \E o \in named : o.found THEN {o.law.id : o \in named}
             ELSE {IF o.found THEN o.law.id ELSE NoName : o \in titled})
  BY Zenon DEF MatchLawFromItem
<1>4. (\E o \in Resolve(index, it.abbr, 90) : o.law.id = i) \/ (\E o \in titled : o.found /\ o.law.id = i)
  BY <1>2, <1>3
<1>5. CASE \E o \in Resolve(index, it.abbr, 90) : o.law.id = i
  <2>1. PICK o \in Resolve(index, it.abbr, 90) : o.law.id = i
    BY <1>5
  <2>2. o.found
    BY <1>2, <2>1, FoundHasLaw
  <2>3. index.byID[i] # NoLaw /\ NamesLaw(it.abbr, index.byID[i])
    BY <1>1, <2>1, <2>2, FoundIsNamed DEF AlikeIsLess
  <2>4. QED
    BY <2>3 DEF NamesItem
<1>6. CASE \E o \in titled : o.found /\ o.law.id = i
  <2>1. PICK o \in Resolve(index, it.title, 85) : o.found /\ o.law.id = i
    BY <1>6
  <2>2. index.byID[i] # NoLaw /\ NamesLaw(it.title, index.byID[i])
    BY <1>1, <2>1, FoundIsNamed DEF AlikeIsLess
  <2>3. QED
    BY <2>2 DEF NamesItem
<1>7. QED
  BY <1>4, <1>5, <1>6

LEMMA FeedStep == AlikeIsLess /\ TypeInv /\ UniqueInv /\ [Next]_vars =>
                      \A link \in links' \ links : NamesItem(link)
<1> SUFFICES ASSUME AlikeIsLess, TypeInv, UniqueInv, [Next]_vars,
                    NEW link \in links' \ links
             PROVE  NamesItem(link)
  OBVIOUS
<1>1. CASE FeedMatch
  <2>1. PICK it \in FeedItems, i \in Id :
            i \in MatchLawFromItem(it) /\ links' = links \cup {<<it, i>>}
    BY <1>1 DEF FeedMatch
  <2>2. QED
    BY <2>1, MatchIsNamed
<1>2. CASE ~FeedMatch
  <2>1. links' = links
    BY <1>2 DEF Next, vars, Publish, TocStep, TocFetch, TocStore, TocSwap, Restart, Begin,
       Proceed, Look, Insert, List, Swap, End
  <2>2. QED
    BY <2>1
<1>3. QED
  BY <1>1, <1>2

(* As long as no table gives one id to two laws and no likeness reaches the *)
(* thresholds of the feed, an issue is linked only to a law of the snapshot *)
(* that the item names, however old the snapshot is.                        *)
THEOREM FeedIsNamed == IdsApart /\ AlikeIsLess => (Spec => FeedNamesTheLaw)
<1> SUFFICES ASSUME IdsApart, AlikeIsLess
             PROVE  Spec => FeedNamesTheLaw
  OBVIOUS
<1> DEFINE Step == \A link \in links' \ links : NamesItem(link)
<1>1. TypeInv /\ UniqueInv /\ [Next]_vars => [Step]_vars
  BY FeedStep
<1>2. QED
  BY <1>1, UniqueHolds, TypeHolds, PTL DEF Spec, FeedNamesTheLaw, NamesItem
=============================================================================
