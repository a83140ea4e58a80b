--------------------------- MODULE AddressesProofs ---------------------------
(***************************************************************************)
(* Proofs about Addresses.  Two of the runs' properties are inductive only *)
(* together: that every row is one well-formed sheet, which makes the two  *)
(* listings agree with the predicates of the model, and that an owner's    *)
(* index names one row, which the unique index gives and the read-back of  *)
(* UpdateSettings relies on.  The pages of a walk are cut out by how many  *)
(* listings come before each, so one that changes page while it stays in   *)
(* place was crossed by another; and two that stay in place can only cross *)
(* where ORDER BY ties them.                                               *)
(***************************************************************************)
EXTENDS Addresses, FiniteSetTheorems, TLAPS

\* The (actor, index) pair every settings write names is not ambiguous.
OneRowPerIndex ==
  \A j, k \in Published :
    j[1] = k[1] /\ row[j].owner = row[k].owner /\ row[j].index = row[k].index => j = k

WholeSheets == \A k \in Published : row[k].set \in Sheets /\ Validate(row[k].set)

Inv == TypeOK /\ OneRowPerIndex /\ WholeSheets

-----------------------------------------------------------------------------
LEMMA Pairs == \A k \in Keys : k = <<k[1], k[2]>> /\ k[1] \in Scopes /\ k[2] \in Hashes
BY DEF Keys

LEMMA RowIsNotNoRow == \A a \in Row : a # NoRow
BY NoActorAssumption DEF Row, NoRow

LEMMA PublishedRows == TypeOK => \A k \in Published : k \in Keys /\ row[k] \in Row
BY DEF TypeOK, Published

\* What becomes of the rows under a change of one of them.
LEMMA ChangeKeeps ==
  ASSUME TypeOK, NEW k \in Keys, NEW a \in Row, row' = [row EXCEPT ![k] = a]
  PROVE  /\ row' \in [Keys -> Row \cup {NoRow}]
         /\ Published' = Published \cup {k}
         /\ row'[k] = a
         /\ \A j \in Keys \ {k} : row'[j] = row[j]
BY RowIsNotNoRow DEF TypeOK, Published

\* Validate is about its argument alone: no variable is in it.
LEMMA SheetsPrimed ==
  (\A k \in Published' : row'[k].set \in Sheets /\ Validate(row'[k].set)) => WholeSheets'
BY DEF WholeSheets, Validate, ValidHours

LEMMA InitInv == Init => Inv
<1> SUFFICES ASSUME Init PROVE Inv
  OBVIOUS
<1>1. Published = {}
  BY DEF Init, Published
<1>2. FirstOf(walk) \in Walk
  BY DEF Init, Resting, FirstOf, Walk, Scopes
<1>3. now \in Times /\ members \subseteq Actors
  BY BoundsAssumption DEF Init, Times
<1>4. row \in [Keys -> Row \cup {NoRow}] /\ settling \in [Calls -> Published \cup {None}]
  BY DEF Init
<1> QED BY <1>1, <1>2, <1>3, <1>4 DEF Inv, TypeOK, OneRowPerIndex, WholeSheets

-----------------------------------------------------------------------------
LEMMA PublishInv ==
  ASSUME Inv, NEW r \in Scopes, NEW o \in Offers, NEW s \in Sheets,
         Publish(r, o[1], o[2], o[3], s)
  PROVE  Inv'
<1> DEFINE k == <<r, o[3]>>
           a == [owner |-> o[1], index |-> o[2], retired |-> Never, set |-> s]
<1>1. o[1] \in Actors /\ o[2] \in Indexes /\ o[3] \in Hashes
  BY OffersAssumption
<1>2. k \in Keys
  BY <1>1 DEF Keys
<1>3. a \in Row
  BY <1>1, SheetsAssumption DEF Row
<1>4. row' = [row EXCEPT ![k] = a]
  BY DEF Publish
<1>5. Validate(s) /\ row[k] = NoRow /\ Owned(r, o[1], o[2]) = {}
  BY DEF Publish
<1>6. TypeOK
  BY DEF Inv
<1> HIDE DEF k, a
<1>7. /\ row' \in [Keys -> Row \cup {NoRow}]
      /\ Published' = Published \cup {k}
      /\ row'[k] = a
      /\ \A j \in Keys \ {k} : row'[j] = row[j]
  BY <1>2, <1>3, <1>4, <1>6, ChangeKeeps
<1>8. k \notin Published
  BY <1>5 DEF Published
<1>9. TypeOK'
  BY <1>6, <1>7 DEF TypeOK, Publish, FirstOf
<1>10. WholeSheets'
  <2>1. a.set = s
    BY DEF a
  <2>2. \A j \in Published : j \in Keys /\ j # k
    BY <1>8 DEF Published
  <2>3. \A j \in Published' : row'[j].set \in Sheets /\ Validate(row'[j].set)
    BY <1>5, <1>7, <2>1, <2>2 DEF Inv, WholeSheets
  <2> QED BY <2>3, SheetsPrimed
<1>11. OneRowPerIndex'
  <2>1. \A j \in Published : j \in Keys /\ j # k /\ row'[j] = row[j]
    BY <1>7, <1>8 DEF Published
  <2>2. a.owner = o[1] /\ a.index = o[2] /\ k[1] = r
    BY DEF a, k
  <2>3. ASSUME NEW j \in Published, j[1] = r, row[j].owner = o[1], row[j].index = o[2]
        PROVE  FALSE
    <3>1. j \in Query(r)
      BY <2>1, <2>3 DEF Query, TableFor, Published
    <3> QED BY <1>5, <2>3, <3>1 DEF Owned
  <2>4. ASSUME NEW j \in Published, j[1] = k[1],
               row'[j].owner = row'[k].owner, row'[j].index = row'[k].index
        PROVE  FALSE
    BY <1>7, <2>1, <2>2, <2>3, <2>4
  <2>5. ASSUME NEW i \in Published', NEW j \in Published', i[1] = j[1],
               row'[i].owner = row'[j].owner, row'[i].index = row'[j].index
        PROVE  i = j
    <3>1. CASE i = k \/ j = k
      BY <1>7, <2>4, <2>5, <3>1
    <3>2. CASE i # k /\ j # k
      <4>1. i \in Published /\ j \in Published
        BY <1>7, <3>2
      <4>2. row[i].owner = row[j].owner /\ row[i].index = row[j].index
        BY <2>1, <2>5, <4>1
      <4> QED BY <2>5, <4>1, <4>2 DEF Inv, OneRowPerIndex
    <3> QED BY <3>1, <3>2
  <2> QED BY <2>5 DEF OneRowPerIndex
<1> QED BY <1>9, <1>10, <1>11 DEF Inv

\* Retire and UpdateSettings change a row that is there, and neither its
\* owner nor its index.
LEMMA ChangeInv ==
  ASSUME Inv, NEW k \in Published, NEW a \in Row,
         row' = [row EXCEPT ![k] = a],
         a.owner = row[k].owner, a.index = row[k].index,
         a.set \in Sheets, Validate(a.set)
  PROVE  /\ row' \in [Keys -> Row \cup {NoRow}]
         /\ Published' = Published
         /\ OneRowPerIndex'
         /\ WholeSheets'
<1>1. k \in Keys /\ TypeOK
  BY DEF Inv, Published
<1>2. /\ row' \in [Keys -> Row \cup {NoRow}]
      /\ Published' = Published
      /\ row'[k] = a
      /\ \A j \in Keys \ {k} : row'[j] = row[j]
  <2>1. /\ row' \in [Keys -> Row \cup {NoRow}]
        /\ Published' = Published \cup {k}
        /\ row'[k] = a
        /\ \A j \in Keys \ {k} : row'[j] = row[j]
    BY <1>1, ChangeKeeps
  <2> QED BY <2>1
<1>3. \A j \in Published : j \in Keys
  BY DEF Published
<1>4. \A j \in Published : /\ row'[j].owner = row[j].owner
                           /\ row'[j].index = row[j].index
  BY <1>2, <1>3
<1>5. OneRowPerIndex'
  BY <1>2, <1>4 DEF Inv, OneRowPerIndex
<1>6. \A j \in Published' : row'[j].set \in Sheets /\ Validate(row'[j].set)
  BY <1>2, <1>3 DEF Inv, WholeSheets
<1>7. WholeSheets'
  BY <1>6, SheetsPrimed
<1> QED BY <1>2, <1>5, <1>7

LEMMA RetireInv ==
  ASSUME Inv, NEW r \in Scopes, NEW b \in Actors, NEW i \in Indexes,
         Retire(r, b, i)
  PROVE  Inv'
<1>1. PICK k \in Unretired(r, b, i) : row' = [row EXCEPT ![k].retired = now]
  BY DEF Retire
<1>2. k \in Published
  BY <1>1 DEF Unretired, Owned, Query, TableFor, Published
<1>3. row[k] \in Row
  BY <1>2, PublishedRows DEF Inv
<1> DEFINE a == [row[k] EXCEPT !.retired = now]
<1>4. a \in Row
  BY <1>3 DEF Row, Inv, TypeOK
<1>5. a.owner = row[k].owner /\ a.index = row[k].index /\ a.set = row[k].set
  BY <1>3 DEF Row
<1>6. row' = [row EXCEPT ![k] = a]
  BY <1>1
<1>7. a.set \in Sheets /\ Validate(a.set)
  BY <1>2, <1>5 DEF Inv, WholeSheets
<1> HIDE DEF a
<1>8. /\ row' \in [Keys -> Row \cup {NoRow}]
      /\ Published' = Published
      /\ OneRowPerIndex'
      /\ WholeSheets'
  BY <1>2, <1>4, <1>5, <1>6, <1>7, ChangeInv
<1>9. TypeOK'
  BY <1>8 DEF Inv, TypeOK, Retire, FirstOf
<1> QED BY <1>8, <1>9 DEF Inv

LEMMA UpdateSettingsInv ==
  ASSUME Inv, NEW c \in Calls, NEW r \in Scopes, NEW b \in Actors,
         NEW i \in Indexes, NEW s \in Sheets, UpdateSettings(c, r, b, i, s)
  PROVE  Inv'
<1>1. PICK k \in Unretired(r, b, i) :
        /\ row' = [row EXCEPT ![k].set = Settled(@, s)]
        /\ settling' = [settling EXCEPT ![c] = k]
  BY DEF UpdateSettings
<1>2. k \in Published
  BY <1>1 DEF Unretired, Owned, Query, TableFor, Published
<1>3. row[k] \in Row
  BY <1>2, PublishedRows DEF Inv
<1> DEFINE a == [row[k] EXCEPT !.set = s]
<1>4. a \in Row
  BY <1>3, SheetsAssumption DEF Row
<1>5. a.owner = row[k].owner /\ a.index = row[k].index /\ a.set = s
  BY <1>3 DEF Row
<1>6. row' = [row EXCEPT ![k] = a]
  BY <1>1 DEF Settled
<1>7. Validate(s)
  BY DEF UpdateSettings
<1> HIDE DEF a
<1>8. /\ row' \in [Keys -> Row \cup {NoRow}]
      /\ Published' = Published
      /\ OneRowPerIndex'
      /\ WholeSheets'
  BY <1>2, <1>4, <1>5, <1>6, <1>7, ChangeInv
<1>9. settling' \in [Calls -> Published' \cup {None}]
  BY <1>1, <1>2, <1>8 DEF Inv, TypeOK
<1>10. TypeOK'
  BY <1>8, <1>9 DEF Inv, TypeOK, UpdateSettings, FirstOf
<1> QED BY <1>8, <1>10 DEF Inv

\* A step that leaves the rows alone.
LEMMA RowsKept ==
  ASSUME Inv, UNCHANGED row
  PROVE  Published' = Published /\ OneRowPerIndex' /\ WholeSheets'
BY DEF Inv, Published, OneRowPerIndex, WholeSheets, Validate, ValidHours

LEMMA NextInv == Inv /\ [Next]_vars => Inv'
<1> SUFFICES ASSUME Inv, [Next]_vars PROVE Inv'
  OBVIOUS
<1>1. ASSUME NEW r \in Scopes, NEW o \in Offers, NEW s \in Sheets,
             Publish(r, o[1], o[2], o[3], s)
      PROVE  Inv'
  BY <1>1, PublishInv
<1>2. ASSUME NEW r \in Scopes, NEW b \in Actors, NEW i \in Indexes, Retire(r, b, i)
      PROVE  Inv'
  BY <1>2, RetireInv
<1>3. ASSUME NEW r \in Scopes, NEW c \in Calls, NEW b \in Actors,
             NEW i \in Indexes, NEW s \in Sheets, UpdateSettings(c, r, b, i, s)
      PROVE  Inv'
  BY <1>3, UpdateSettingsInv
<1>4. ASSUME NEW r \in Scopes, NEW x \in Walkers, FirstPage(r, x) PROVE Inv'
  <2>1. PICK R \in Orders(Listings(r, x)) :
          walk' = [at |-> "next", run |-> r, exclude |-> x,
                   first |-> Page(Listings(r, x), R, 0),
                   key |-> Listings(r, x), order |-> R]
    BY <1>4 DEF FirstPage
  <2>2. Page(Listings(r, x), R, 0) \subseteq Keys
    BY DEF Page, Listings, SearchRows, TableFor
  <2>3. FirstOf(walk') \in Walk
    BY <2>1, <2>2, WalkersAssumption DEF FirstOf, Walk
  <2> QED BY <1>4, <2>3, RowsKept DEF FirstPage, Inv, TypeOK
<1>5. ASSUME NEW c \in Calls, Answer(c) PROVE Inv'
  BY <1>5, RowsKept DEF Answer, Inv, TypeOK, FirstOf
<1>6. ASSUME NextPage PROVE Inv'
  <2>1. FirstOf(walk') \in Walk
    BY <1>6 DEF NextPage, Resting, FirstOf, Walk, Scopes
  <2> QED BY <1>6, <2>1, RowsKept DEF NextPage, Inv, TypeOK, FirstOf
<1>7. ASSUME Tick PROVE Inv'
  <2>1. now' \in Times
    BY <1>7, BoundsAssumption DEF Tick, Inv, TypeOK, Times
  <2> QED BY <1>7, <2>1, RowsKept DEF Tick, Inv, TypeOK, FirstOf
<1>8. ASSUME NEW b \in Actors, HostChange(b) PROVE Inv'
  <2>1. members' \subseteq Actors
    BY <1>8 DEF HostChange, Inv, TypeOK
  <2> QED BY <1>8, <2>1, RowsKept DEF HostChange, Inv, TypeOK, FirstOf
<1>9. ASSUME UNCHANGED vars PROVE Inv'
  BY <1>9, RowsKept DEF vars, Inv, TypeOK, FirstOf
<1> QED BY <1>1, <1>2, <1>3, <1>4, <1>5, <1>6, <1>7, <1>8, <1>9 DEF Next

\* The inductive invariant holds for ever.
THEOREM Invariance == Spec => []Inv
<1>1. Init => Inv
  BY InitInv
<1>2. Inv /\ [Next]_vars => Inv'
  BY NextInv
<1> QED BY <1>1, <1>2, PTL DEF Spec

\* Every variable keeps its type.
THEOREM TypeCorrect == Spec => []TypeOK
<1>1. Inv => TypeOK
  BY DEF Inv
<1> QED BY <1>1, Invariance, PTL

-----------------------------------------------------------------------------
LEMMA SheetsAnswered == Inv => OneSheet
<1> SUFFICES ASSUME Inv PROVE OneSheet
  OBVIOUS
<1>1. ASSUME NEW c \in Calls, settling[c] # None
      PROVE  ReadBack(settling[c]) = {settling[c]}
  <2> DEFINE k == settling[c]
  <2>1. k \in Published /\ k \in Keys
    BY <1>1 DEF Inv, TypeOK, Published
  <2>2. k \in ReadBack(k)
    BY <2>1 DEF ReadBack, Owned, Query, TableFor, Published
  <2>3. ASSUME NEW j \in ReadBack(k) PROVE j = k
    <3>1. /\ j \in Published /\ j[1] = k[1]
          /\ row[j].owner = row[k].owner /\ row[j].index = row[k].index
      BY <2>3 DEF ReadBack, Owned, Query, TableFor, Published
    <3> QED BY <2>1, <3>1 DEF Inv, OneRowPerIndex
  <2> QED BY <2>2, <2>3
<1> QED BY <1>1 DEF OneSheet, Inv, WholeSheets

\* Settings are one sheet, and a write that took is answered with its row
\* (AddressStore.UpdateSettings), for any number of calls at once.
THEOREM SheetsWhole == Spec => []OneSheet
BY SheetsAnswered, Invariance, PTL

-----------------------------------------------------------------------------
LEMMA ExpiryAgrees ==
  ASSUME Inv, NEW k \in Published
  PROVE  Unexpired(row[k].set) = ~Expired(row[k], now)
<1>1. row[k] \in Row /\ now \in Times
  BY PublishedRows DEF Inv, TypeOK
<1>2. row[k].set.expires \in Times \cup {Never}
  BY <1>1 DEF Row, Settings
<1> QED BY <1>1, <1>2 DEF Unexpired, Expired, Times

LEMMA Agreement == Inv => StatementsAgree
<1> DEFINE There(r, x) == {k \in Published : /\ k[1] = r
                                             /\ InDirectory(row[k], now)
                                             /\ row[k].owner # x}
<1> SUFFICES ASSUME Inv, NEW r \in Scopes
    PROVE  /\ \A h \in Hashes : LET a == row[<<r, h>>] IN
                a # NoRow => /\ (ResolveRows(r, h) # {}) = Live(a, now)
                             /\ Silenced(a, now) => ~Open(a, now)
           /\ \A x \in Actors \cup {NoActor} :
                /\ ListListed(r, x) = There(r, x)
                /\ SearchRows(r, x) = {k \in There(r, x) : row[k].owner \in members}
                /\ \A k \in There(r, x) : Available(row[k], now) = Open(row[k], now)
  BY DEF StatementsAgree
<1>1. ASSUME NEW h \in Hashes, row[<<r, h>>] # NoRow
      PROVE  (ResolveRows(r, h) # {}) = Live(row[<<r, h>>], now)
  <2> DEFINE k == <<r, h>>
  <2>1. k \in Published /\ k \in Query(r)
    BY <1>1 DEF Published, Query, TableFor, Keys
  <2>2. ResolveRows(r, h) = {j \in {k} : row[j].retired = Never /\ Unexpired(row[j].set)}
    <3>1. \A j \in Query(r) : j[2] = h => j = k
      BY Pairs DEF Query, TableFor
    <3>2. k[2] = h
      OBVIOUS
    <3> QED BY <2>1, <3>1, <3>2 DEF ResolveRows
  <2>3. Unexpired(row[k].set) = ~Expired(row[k], now)
    BY <2>1, ExpiryAgrees
  <2> QED BY <2>2, <2>3 DEF Live, Retired
<1>2. ASSUME NEW h \in Hashes, row[<<r, h>>] # NoRow, Silenced(row[<<r, h>>], now)
      PROVE  ~Open(row[<<r, h>>], now)
  BY <1>2 DEF Silenced, Open, Live, WithinHours
<1>3. \A k \in Published : ListedRow(row[k]) = InDirectory(row[k], now)
  <2> SUFFICES ASSUME NEW k \in Published
      PROVE  ListedRow(row[k]) = InDirectory(row[k], now)
    OBVIOUS
  <2>1. row[k].set.listed # Never => row[k].set.public # NoText
    BY DEF Inv, WholeSheets, Validate
  <2>2. Unexpired(row[k].set) = ~Expired(row[k], now)
    BY ExpiryAgrees
  <2> QED BY <2>1, <2>2 DEF ListedRow, InDirectory, Live, Retired
<1>4. Query(r) = {k \in Published : k[1] = r}
  BY DEF Query, TableFor, Published
<1>5. {k \in TableFor(r) : RunClause(r, k)} = {k \in Published : k[1] = r}
  BY DEF TableFor, Published, RunClause
<1>6. ASSUME NEW x \in Actors \cup {NoActor}
      PROVE  /\ ListListed(r, x) = There(r, x)
             /\ SearchRows(r, x) = {k \in There(r, x) : row[k].owner \in members}
  <2>1. ListListed(r, x) = There(r, x)
    BY <1>3, <1>4 DEF ListListed
  <2>2. SearchRows(r, x) = {k \in {j \in TableFor(r) : RunClause(r, j)} :
                             /\ row[k].owner \in members
                             /\ ListedRow(row[k])
                             /\ row[k].owner # x}
    BY DEF SearchRows
  <2>3. SearchRows(r, x) = {k \in There(r, x) : row[k].owner \in members}
    BY <1>3, <1>5, <2>2
  <2> QED BY <2>1, <2>3
<1>7. \A k \in Published : InDirectory(row[k], now) =>
                             Available(row[k], now) = Open(row[k], now)
  BY DEF InDirectory, Available, Open, WithinHours
<1> QED BY <1>1, <1>2, <1>6, <1>7

\* The SQL of Resolve, ListListed and Search and the predicates of
\* models.Address agree, in the scope of every run, whoever is left out and
\* whoever the host has a row of.
THEOREM StatementsTrue == Spec => []StatementsAgree
BY Agreement, Invariance, PTL

-----------------------------------------------------------------------------
LEMMA RetiredKept ==
  ASSUME Inv, [Next]_vars, NEW k \in Keys, row[k] # NoRow, Retired(row[k])
  PROVE  row'[k] = row[k]
<1>1. ASSUME NEW r \in Scopes, NEW o \in Offers, NEW s \in Sheets,
             Publish(r, o[1], o[2], o[3], s)
      PROVE  row'[k] = row[k]
  BY <1>1 DEF Publish, Inv, TypeOK
<1>2. ASSUME NEW r \in Scopes, NEW b \in Actors, NEW i \in Indexes, Retire(r, b, i)
      PROVE  row'[k] = row[k]
  BY <1>2 DEF Retire, Unretired, Inv, TypeOK
<1>3. ASSUME NEW r \in Scopes, NEW c \in Calls, NEW b \in Actors,
             NEW i \in Indexes, NEW s \in Sheets, UpdateSettings(c, r, b, i, s)
      PROVE  row'[k] = row[k]
  BY <1>3 DEF UpdateSettings, Unretired, Inv, TypeOK
<1>4. ASSUME UNCHANGED row PROVE row'[k] = row[k]
  BY <1>4
<1> QED BY <1>1, <1>2, <1>3, <1>4
        DEF Next, FirstPage, Answer, NextPage, HostChange, Tick, vars

\* No step touches the row of a retired address (Retire, UpdateSettings).
THEOREM RetiredStays == Spec => RetiredForGood
<1>1. Inv /\ [Next]_vars => [\A k \in Keys : row[k] # NoRow /\ Retired(row[k])
                                              => row'[k] = row[k]]_vars
  BY RetiredKept
<1> QED BY <1>1, Invariance, PTL DEF Spec, RetiredForGood
-----------------------------------------------------------------------------
(* The walk through the directory.                                         *)

\* The rows of the table are finitely many.
Finite == IsFiniteSet(Published)

\* A page read shows the listings that came first, in an order they may
\* come in.
WalkPlaced ==
  walk.at = "next" =>
    /\ IsFiniteSet(DOMAIN walk.key)
    /\ \A k \in DOMAIN walk.key : {walk.key[k].listed, walk.key[k].public} \subseteq Nat
    /\ walk.order \in Orders(walk.key)
    /\ walk.first = Page(walk.key, walk.order, 0)

WalkInv == Inv /\ Finite /\ WalkPlaced

\* Of two finite sets the larger is not within the smaller.
LEMMA LargerHasMore ==
  ASSUME NEW S, NEW T, IsFiniteSet(S), IsFiniteSet(T), Cardinality(S) < Cardinality(T)
  PROVE  T \ S # {}
<1> SUFFICES ASSUME T \subseteq S PROVE FALSE
  OBVIOUS
<1>1. Cardinality(T) <= Cardinality(S)
  BY FS_Subset
<1> QED BY <1>1, FS_CardinalityType

\* Listings have what they are sorted by, and they are finitely many.
LEMMA ListingsSort ==
  ASSUME Inv, Finite, NEW r \in Scopes, NEW x
  PROVE  /\ IsFiniteSet(DOMAIN Listings(r, x))
         /\ \A k \in DOMAIN Listings(r, x) :
              {Listings(r, x)[k].listed, Listings(r, x)[k].public} \subseteq Nat
<1>1. DOMAIN Listings(r, x) = SearchRows(r, x) /\ SearchRows(r, x) \subseteq Published
  BY DEF Listings, SearchRows, TableFor, Published
<1>2. IsFiniteSet(SearchRows(r, x))
  BY <1>1, FS_Subset DEF Finite
<1>3. ASSUME NEW k \in SearchRows(r, x)
      PROVE  {Listings(r, x)[k].listed, Listings(r, x)[k].public} \subseteq Nat
  <2>1. row[k].set \in Settings
    BY <1>1, <1>3, PublishedRows DEF Inv, Row
  <2>2. row[k].set.listed # Never /\ row[k].set.public # NoText
    BY <1>3 DEF SearchRows, ListedRow
  <2>3. /\ row[k].set.listed \in Times \cup {Never}
        /\ row[k].set.public \in Texts \cup {NoText}
    BY <2>1 DEF Settings
  <2>4. row[k].set.listed \in Nat /\ row[k].set.public \in Nat
    <3>1. row[k].set.listed \in Nat
      BY <2>2, <2>3 DEF Times
    <3>2. row[k].set.public \in Nat
      BY <2>2, <2>3, TextsAssumption
    <3> QED BY <3>1, <3>2
  <2>5. Listings(r, x)[k] = SortKey(k)
    BY <1>3 DEF Listings
  <2> QED BY <2>4, <2>5 DEF SortKey
<1> QED BY <1>1, <1>2, <1>3

\* A page is those listings that so many come before.
LEMMA PageCounts ==
  ASSUME NEW key, NEW R \in Orders(key), IsFiniteSet(DOMAIN key),
         NEW n \in Nat, NEW k \in DOMAIN key
  PROVE  /\ IsFiniteSet(Ahead(key, R, k))
         /\ Cardinality(Ahead(key, R, k)) \in Nat
         /\ k \in Page(key, R, n) <=>
              /\ n <= Cardinality(Ahead(key, R, k))
              /\ Cardinality(Ahead(key, R, k)) < n + Limit
<1>1. Ahead(key, R, k) \subseteq DOMAIN key
  BY DEF Ahead
<1>2. IsFiniteSet(Ahead(key, R, k))
  BY <1>1, FS_Subset
<1>3. Cardinality(Ahead(key, R, k)) \in Nat
  BY <1>2, FS_CardinalityType
<1> QED BY <1>2, <1>3, LimitAssumption DEF Page

\* Two listings that are in one order here and in the other there, each
\* sorted by the same in both, tie.
LEMMA CrossersTie ==
  ASSUME NEW key1, NEW R1 \in Orders(key1), NEW key2, NEW R2 \in Orders(key2),
         NEW j \in DOMAIN key1 \cap DOMAIN key2, NEW k \in DOMAIN key1 \cap DOMAIN key2,
         key1[j] = key2[j], key1[k] = key2[k],
         {key2[j].listed, key2[j].public} \subseteq Nat,
         {key2[k].listed, key2[k].public} \subseteq Nat,
         j \in Ahead(key1, R1, k), j \notin Ahead(key2, R2, k)
  PROVE  key2[j].listed = key2[k].listed /\ key2[j].public = key2[k].public
<1>1. <<j, k>> \in R1 /\ <<j, k>> \notin R2
  BY DEF Ahead
<1>2. j # k
  BY <1>1 DEF Orders
<1>3. <<k, j>> \notin R1
  BY <1>1, <1>2 DEF Orders
<1>4. ~Before(key2[j], key2[k])
  BY <1>1 DEF Orders
<1>5. ~Before(key2[k], key2[j])
  BY <1>3 DEF Orders
<1> QED BY <1>4, <1>5 DEF Before

LEMMA InitWalkInv == Init => WalkInv
<1> SUFFICES ASSUME Init PROVE WalkInv
  OBVIOUS
<1>1. Published = {}
  BY DEF Init, Published
<1>2. Finite
  BY <1>1, FS_EmptySet DEF Finite
<1>3. WalkPlaced
  BY DEF Init, Resting, WalkPlaced
<1> QED BY <1>2, <1>3, InitInv DEF WalkInv

\* A statement publishes one address at most.
LEMMA NextFinite ==
  ASSUME Inv, Finite, [Next]_vars
  PROVE  Finite'
<1>1. ASSUME NEW k, Published' \subseteq Published \cup {k} PROVE Finite'
  <2>1. IsFiniteSet(Published \cup {k})
    BY FS_AddElement DEF Finite
  <2> QED BY <1>1, <2>1, FS_Subset DEF Finite
<1>2. ASSUME NEW r \in Scopes, NEW o \in Offers, NEW s \in Sheets,
             Publish(r, o[1], o[2], o[3], s)
      PROVE  Finite'
  <2>1. Published' \subseteq Published \cup {<<r, o[3]>>}
    BY <1>2 DEF Publish, Published, Inv, TypeOK
  <2> QED BY <1>1, <2>1
<1>3. ASSUME NEW k \in Published, NEW a \in Row, row' = [row EXCEPT ![k] = a]
      PROVE  Finite'
  <2>1. Published' \subseteq Published \cup {k}
    BY <1>3 DEF Published, Inv, TypeOK
  <2> QED BY <1>1, <2>1
<1>4. ASSUME NEW r \in Scopes, NEW b \in Actors, NEW i \in Indexes, Retire(r, b, i)
      PROVE  Finite'
  <2>1. PICK k \in Published : row' = [row EXCEPT ![k].retired = now]
    BY <1>4 DEF Retire, Unretired, Owned, Query, TableFor, Published
  <2>2. Published' \subseteq Published \cup {k}
    BY <2>1 DEF Published, Inv, TypeOK
  <2> QED BY <1>1, <2>2
<1>5. ASSUME NEW r \in Scopes, NEW c \in Calls, NEW b \in Actors,
             NEW i \in Indexes, NEW s \in Sheets, UpdateSettings(c, r, b, i, s)
      PROVE  Finite'
  <2>1. PICK k \in Published : row' = [row EXCEPT ![k].set = Settled(@, s)]
    BY <1>5 DEF UpdateSettings, Unretired, Owned, Query, TableFor, Published
  <2>2. Published' \subseteq Published \cup {k}
    BY <2>1 DEF Published, Inv, TypeOK
  <2> QED BY <1>1, <2>2
<1>6. ASSUME UNCHANGED row PROVE Finite'
  BY <1>6 DEF Finite, Published
<1> QED BY <1>2, <1>4, <1>5, <1>6
        DEF Next, FirstPage, Answer, NextPage, HostChange, Tick, vars

LEMMA NextWalkInv == WalkInv /\ [Next]_vars => WalkInv'
<1> SUFFICES ASSUME WalkInv, [Next]_vars PROVE WalkInv'
  OBVIOUS
<1>1. Inv' /\ Finite'
  BY NextInv, NextFinite DEF WalkInv
<1>2. ASSUME NEW r \in Scopes, NEW x \in Walkers, FirstPage(r, x) PROVE WalkPlaced'
  <2>1. PICK R \in Orders(Listings(r, x)) :
          walk' = [at |-> "next", run |-> r, exclude |-> x,
                   first |-> Page(Listings(r, x), R, 0),
                   key |-> Listings(r, x), order |-> R]
    BY <1>2 DEF FirstPage
  <2> DEFINE key == Listings(r, x)
  <2>2. /\ IsFiniteSet(DOMAIN key)
        /\ \A k \in DOMAIN key : {key[k].listed, key[k].public} \subseteq Nat
    BY ListingsSort DEF WalkInv
  <2> HIDE DEF key
  <2>3. /\ walk'.key = key /\ walk'.order = R /\ R \in Orders(key)
        /\ walk'.first = Page(key, R, 0)
    BY <2>1 DEF key
  <2>4. /\ walk'.order \in Orders(walk'.key)
        /\ walk'.first = Page(walk'.key, walk'.order, 0)
    BY <2>3
  <2> QED BY <2>2, <2>3, <2>4 DEF WalkPlaced, Orders, Before, Page, Ahead
<1>3. ASSUME NextPage PROVE WalkPlaced'
  BY <1>3 DEF NextPage, Resting, WalkPlaced
<1>4. ASSUME UNCHANGED walk PROVE WalkPlaced'
  BY <1>4 DEF WalkInv, WalkPlaced, Orders, Before, Page, Ahead
<1>5. WalkPlaced'
  BY <1>2, <1>3, <1>4
     DEF Next, Publish, Retire, UpdateSettings, Answer, HostChange, Tick, vars
<1> QED BY <1>1, <1>5 DEF WalkInv

\* Wherever a listing stands later, if not in the page due, another that
\* moved or ties with it has crossed it.
LEMMA Tiling == WalkInv => PagesTile
<1> DEFINE this == Listings(walk.run, walk.exclude)
           then == walk.key
           crosses(j, k) == Moved(j) \/ this[j] = this[k]
<1> SUFFICES ASSUME WalkInv, walk.at = "next",
                    NEW R \in Orders(this), NEW k \in DOMAIN this, ~Moved(k)
    PROVE  /\ k \in walk.first \cap Page(this, R, Limit) =>
                \E j \in Ahead(this, R, k) \ Ahead(then, walk.order, k) : crosses(j, k)
           /\ /\ k \notin walk.first \cup Page(this, R, Limit)
              /\ Cardinality(Ahead(this, R, k)) < 2 * Limit
              => \E j \in Ahead(then, walk.order, k) \ Ahead(this, R, k) : crosses(j, k)
  BY DEF PagesTile
<1>1. walk.run \in Scopes
  BY DEF WalkInv, Inv, TypeOK, FirstOf, Walk
<1>2. /\ IsFiniteSet(DOMAIN this)
      /\ \A i \in DOMAIN this : {this[i].listed, this[i].public} \subseteq Nat
  BY <1>1, ListingsSort DEF WalkInv
<1>3. /\ IsFiniteSet(DOMAIN then) /\ walk.order \in Orders(then)
      /\ walk.first = Page(then, walk.order, 0)
  BY DEF WalkInv, WalkPlaced
<1>4. \A i : ~Moved(i) => /\ i \in DOMAIN then \cap DOMAIN this
                          /\ then[i] = this[i]
  BY DEF Moved
<1>5. \A i \in DOMAIN this :
        this[i] = [listed |-> this[i].listed, public |-> this[i].public]
  BY DEF Listings, SortKey
<1> HIDE DEF this, then
<1> DEFINE now1 == Ahead(this, R, k)
           then1 == Ahead(then, walk.order, k)
<1>6. /\ IsFiniteSet(then1) /\ Cardinality(then1) \in Nat
      /\ k \in walk.first <=> Cardinality(then1) < Limit
  BY <1>3, <1>4, PageCounts, LimitAssumption
<1>7. /\ IsFiniteSet(now1) /\ Cardinality(now1) \in Nat
      /\ k \in Page(this, R, Limit) <=>
           Limit <= Cardinality(now1) /\ Cardinality(now1) < Limit + Limit
  BY <1>2, PageCounts, LimitAssumption
<1>8. ASSUME NEW j \in (now1 \ then1) \cup (then1 \ now1) PROVE crosses(j, k)
  <2> SUFFICES ASSUME ~Moved(j) PROVE this[j] = this[k]
    OBVIOUS
  <2>1. /\ j \in DOMAIN then \cap DOMAIN this /\ then[j] = this[j]
        /\ k \in DOMAIN then \cap DOMAIN this /\ then[k] = this[k]
    BY <1>4
  <2>2. CASE j \in now1 /\ j \notin then1
    BY <1>2, <1>3, <1>5, <2>1, <2>2, CrossersTie
  <2>3. CASE j \in then1 /\ j \notin now1
    BY <1>2, <1>3, <1>5, <2>1, <2>3, CrossersTie
  <2> QED BY <1>8, <2>2, <2>3
<1> HIDE DEF now1, then1, crosses
<1>9. ASSUME k \in walk.first \cap Page(this, R, Limit)
      PROVE  \E j \in now1 \ then1 : crosses(j, k)
  <2>1. Cardinality(then1) < Cardinality(now1)
    BY <1>6, <1>7, <1>9, LimitAssumption
  <2>2. now1 \ then1 # {}
    BY <1>6, <1>7, <2>1, LargerHasMore
  <2> QED BY <1>8, <2>2
<1>10. ASSUME k \notin walk.first \cup Page(this, R, Limit),
              Cardinality(now1) < 2 * Limit
       PROVE  \E j \in then1 \ now1 : crosses(j, k)
  <2>1. Cardinality(now1) < Cardinality(then1)
    BY <1>6, <1>7, <1>10, LimitAssumption
  <2>2. then1 \ now1 # {}
    BY <1>6, <1>7, <2>1, LargerHasMore
  <2> QED BY <1>8, <2>2
<1> QED BY <1>9, <1>10 DEF now1, then1

\* A walk through the directory shows a listing again, or passes it over,
\* only where another moved across it or ties with it (Search's ORDER BY,
\* LIMIT and OFFSET).
THEOREM WalkTiles == Spec => []PagesTile
BY InitWalkInv, NextWalkInv, Tiling, PTL DEF Spec
=============================================================================
