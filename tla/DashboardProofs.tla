--------------------------- MODULE DashboardProofs ---------------------------
(***************************************************************************)
(* Proofs about the client's copy of the server's data, for any number of  *)
(* rows, categories and loads and for pages of any size.                   *)
(***************************************************************************)
EXTENDS Dashboard, NumberSets, FiniteSetTheorems, SequenceTheorems

----------------------------------------------------------------------------
(* What the server's answers are made of.                                  *)

LEMMA RowsAreFinite ==
    ASSUME NEW S \in SUBSET Rows
    PROVE  IsFiniteSet(S) /\ S \subseteq Nat \ {0} /\ Cardinality(S) \in Nat
  BY RowsAssumption, FS_Subset, FS_CardinalityType

\* The smallest of some rows is one of them.
LEMMA SmallestRow ==
    ASSUME NEW S \in SUBSET Rows, S # {}
    PROVE  Min(S) \in S /\ \A r \in S : Min(S) <= r
  BY RowsAreFinite, MinOfNumbers

\* Part of a table is a table.
LEMMA RestrictedTable ==
    ASSUME NEW t \in Tables, NEW S \in SUBSET DOMAIN t
    PROVE  Restrict(t, S) \in Tables /\ DOMAIN Restrict(t, S) = S
  BY DEF Tables, Restrict

\* A page holds rows of the table from behind the cursor.
LEMMA PageRows ==
    ASSUME NEW t \in Tables, NEW filter, NEW after
    PROVE  /\ Page(t, filter, after) \in Tables
           /\ DOMAIN Page(t, filter, after) \subseteq DOMAIN t
           /\ DOMAIN Page(t, filter, after) \subseteq Rows
           /\ after # 0 => \A r \in DOMAIN Page(t, filter, after) : r < after
<1>1. Newest(Following(Matching(t, filter), after)) \subseteq DOMAIN t
  BY DEF Newest, Following, Matching
<1>2. DOMAIN Page(t, filter, after) = Newest(Following(Matching(t, filter), after))
      /\ Page(t, filter, after) \in Tables
  BY <1>1, RestrictedTable DEF Page
<1> QED
  BY <1>1, <1>2 DEF Newest, Following, Tables

\* The token is the last row of a full page.
LEMMA TokenIsLast ==
    ASSUME NEW page \in Tables
    PROVE  /\ TokenAfter(page) \in Rows \cup {0}
           /\ TokenAfter(page) # 0 =>
                /\ TokenAfter(page) = Min(DOMAIN page)
                /\ TokenAfter(page) \in DOMAIN page
                /\ \A r \in DOMAIN page : TokenAfter(page) <= r
<1>1. DOMAIN page \in SUBSET Rows
  BY DEF Tables
<1>2. Cardinality(DOMAIN page) = PageSize => DOMAIN page # {}
  BY FS_EmptySet, SizesAssumption
<1> QED
  BY <1>1, <1>2, SmallestRow DEF TokenAfter

----------------------------------------------------------------------------
(* The fetches.                                                            *)

\* A load's fetches are under way together.
Whole(F) ==
    \A f \in F :
        /\ f.task \in {"effect", "reload"} =>
             \A what \in {"summary", "page"} :
                 \E g \in F : g.task = f.task /\ g.n = f.n /\ g.what = what
        /\ f.task \in {"open", "refresh"} =>
             \A what \in {"statements", "months"} :
                 \E g \in F : g.task = f.task /\ g.n = f.n /\ g.what = what

\* What was read is a table whose rows are still there, and the row to be recategorized is
\* one of them.
Sound(f) ==
    /\ \A t \in f.read : DOMAIN t \subseteq DOMAIN table
    /\ f.what = "put" =>
         /\ f.category \in Categories /\ f.n \in DOMAIN table
         /\ \A t \in f.read : f.n \in DOMAIN t

FetchInv ==
    /\ fetches \subseteq Fetches
    /\ Whole(fetches)
    /\ \A f \in fetches : Sound(f)

LEMMA RequestType ==
    ASSUME NEW task \in {"effect", "reload", "open", "refresh", "more", "save"}, NEW n \in Nat,
           NEW what \in {"page", "summary", "months", "statements", "put"},
           NEW filter \in Filters, NEW after \in Rows \cup {0},
           NEW category \in Categories \cup {"all"}
    PROVE  /\ Request(task, n, what, filter, after, category) \in Fetches
           /\ what # "put" => Sound(Request(task, n, what, filter, after, category))
  BY DEF Request, Fetches, Sound

LEMMA NewLoads ==
    ASSUME NEW n \in Nat, NEW filter \in Filters
    PROVE  /\ \A task \in {"effect", "reload"} :
                /\ Filtered(task, n, filter) \subseteq Fetches
                /\ Whole(Filtered(task, n, filter))
                /\ \A f \in Filtered(task, n, filter) : Sound(f)
           /\ \A task \in {"open", "refresh"} :
                /\ Unfiltered(task) \subseteq Fetches
                /\ Whole(Unfiltered(task))
                /\ \A f \in Unfiltered(task) : Sound(f)
<1>1. AnyTime \in Filters
  BY DEF AnyTime, Filters
<1>2. ASSUME NEW task \in {"effect", "reload"}
      PROVE  /\ Filtered(task, n, filter) \subseteq Fetches
             /\ \A f \in Filtered(task, n, filter) : Sound(f)
  BY RequestType DEF Filtered
<1>3. ASSUME NEW task \in {"open", "refresh"}
      PROVE  /\ Unfiltered(task) \subseteq Fetches
             /\ \A f \in Unfiltered(task) : Sound(f)
  BY <1>1, RequestType DEF Unfiltered
<1>4. ASSUME NEW task \in {"effect", "reload"} PROVE Whole(Filtered(task, n, filter))
  <2>1. \A what \in {"summary", "page"} :
          LET g == Request(task, n, what, filter, 0, "all")
          IN g \in Filtered(task, n, filter) /\ g.task = task /\ g.n = n /\ g.what = what
    BY DEF Filtered, Request
  <2>2. \A f \in Filtered(task, n, filter) : f.task = task /\ f.n = n
    BY DEF Filtered, Request
  <2> QED
    BY <2>1, <2>2 DEF Whole
<1>5. ASSUME NEW task \in {"open", "refresh"} PROVE Whole(Unfiltered(task))
  <2>1. \A what \in {"statements", "months"} :
          LET g == Request(task, 0, what, AnyTime, 0, "all")
          IN g \in Unfiltered(task) /\ g.task = task /\ g.n = 0 /\ g.what = what
    BY DEF Unfiltered, Request
  <2>2. \A f \in Unfiltered(task) : f.task = task /\ f.n = 0
    BY DEF Unfiltered, Request
  <2> QED
    BY <2>1, <2>2 DEF Whole
<1> QED
  BY <1>2, <1>3, <1>4, <1>5

LEMMA NewCharts ==
    ASSUME NEW f, f.n \in Nat, f.filter \in Filters
    PROVE  /\ ChartsAfter(f) \subseteq Fetches
           /\ \A g \in ChartsAfter(f) : g.task = "save" /\ Sound(g)
<1>1. ASSUME NEW what \in {"summary", "months"}
      PROVE  LET g == Request("save", f.n, what, f.filter, 0, "all")
             IN  g \in Fetches /\ g.task = "save" /\ Sound(g)
  BY RequestType DEF Request
<1> QED
  BY <1>1 DEF ChartsAfter

LEMMA FetchesAdded ==
    ASSUME FetchInv, NEW F \in SUBSET Fetches, Whole(F), \A f \in F : Sound(f),
           fetches' = fetches \cup F, UNCHANGED table
    PROVE  FetchInv'
<1>1. Whole(fetches \cup F)
  BY DEF FetchInv, Whole
<1> QED
  BY <1>1 DEF FetchInv, Sound, Whole

\* A call is over as a whole, or was no load.
LEMMA FetchesRemoved ==
    ASSUME FetchInv, NEW f \in fetches, UNCHANGED table,
           \/ fetches' = fetches \ Together(f)
           \/ f.task \in {"more", "save"} /\ fetches' = fetches \ {f}
    PROVE  FetchInv'
<1>1. Whole(fetches')
  BY DEF FetchInv, Whole, Together
<1> QED
  BY <1>1 DEF FetchInv, Sound, Whole

\* The table changes, and loses no row.
LEMMA TableGrows ==
    ASSUME FetchInv, UNCHANGED fetches, DOMAIN table \subseteq DOMAIN table'
    PROVE  FetchInv'
  BY DEF FetchInv, Sound, Whole

LEMMA ReadTable ==
    ASSUME NEW f \in Fetches, Answered(f), Sound(f)
    PROVE  /\ TheRead(f) \in Tables /\ DOMAIN TheRead(f) \subseteq DOMAIN table
           /\ f.what = "put" => f.n \in DOMAIN TheRead(f)
<1>1. TheRead(f) \in f.read
  BY DEF Answered, TheRead
<1> QED
  BY <1>1 DEF Sound, Fetches

LEMMA AwaitedFetch ==
    ASSUME FetchInv, NEW f \in fetches, NEW what,
           \/ f.task \in {"effect", "reload"} /\ what \in {"summary", "page"}
           \/ f.task \in {"open", "refresh"} /\ what \in {"statements", "months"}
    PROVE  /\ Awaited(f, what) \in Together(f) /\ Awaited(f, what) \in Fetches
           /\ Sound(Awaited(f, what))
<1>1. \E g \in Together(f) : g.what = what
  BY DEF FetchInv, Whole, Together
<1> QED
  BY <1>1 DEF Awaited, FetchInv, Together

----------------------------------------------------------------------------
(* The list.                                                               *)

\* What is listed was stored, and the next page starts after the last row of the last page.
ListInv ==
    /\ \A i \in DOMAIN shown : DOMAIN shown[i] \subseteq DOMAIN table
    /\ nextToken # 0 =>
         /\ shown # <<>> /\ nextToken = Min(DOMAIN shown[Len(shown)])
         /\ nextToken \in DOMAIN shown[Len(shown)]
         /\ \A r \in DOMAIN shown[Len(shown)] : nextToken <= r

LEMMA ListKept ==
    ASSUME ListInv, UNCHANGED <<shown, nextToken>>, DOMAIN table \subseteq DOMAIN table'
    PROVE  ListInv'
  BY DEF ListInv

LEMMA ListReplaced ==
    ASSUME NEW page \in Tables, DOMAIN page \subseteq DOMAIN table, UNCHANGED table,
           shown' = <<page>>, nextToken' = TokenAfter(page)
    PROVE  ListInv' /\ shown' \in Seq(Tables) /\ nextToken' \in Rows \cup {0}
<1>1. Len(<<page>>) = 1 /\ <<page>>[1] = page /\ DOMAIN <<page>> = {1} /\ <<page>> # <<>>
      /\ <<page>> \in Seq(Tables)
  OBVIOUS
<1> QED
  BY <1>1, TokenIsLast DEF ListInv

LEMMA ListExtended ==
    ASSUME ListInv, shown \in Seq(Tables), UNCHANGED table,
           NEW page \in Tables, DOMAIN page \subseteq DOMAIN table,
           shown' = Append(shown, page), nextToken' = TokenAfter(page)
    PROVE  ListInv' /\ shown' \in Seq(Tables) /\ nextToken' \in Rows \cup {0}
<1>1. /\ Append(shown, page) \in Seq(Tables) /\ Append(shown, page) # <<>>
      /\ Len(Append(shown, page)) = Len(shown) + 1
      /\ Append(shown, page)[Len(shown) + 1] = page
      /\ \A i \in 1 .. Len(shown) : Append(shown, page)[i] = shown[i]
      /\ DOMAIN Append(shown, page) = 1 .. Len(shown) + 1 /\ DOMAIN shown = 1 .. Len(shown)
      /\ Len(shown) \in Nat
  BY AppendProperties
<1>2. \A i \in 1 .. Len(shown) + 1 : i = Len(shown) + 1 \/ i \in 1 .. Len(shown)
  BY <1>1
<1>3. \A i \in DOMAIN shown' : DOMAIN shown'[i] \subseteq DOMAIN table
  BY <1>1, <1>2 DEF ListInv
<1> QED
  BY <1>1, <1>3, TokenIsLast DEF ListInv

\* Replacing a row keeps the pages.
LEMMA ListEdited ==
    ASSUME ListInv, shown \in Seq(Tables), NEW n, NEW category \in Categories,
           UNCHANGED <<table, nextToken>>,
           shown' = [i \in DOMAIN shown |->
                       [r \in DOMAIN shown[i] |-> IF r = n THEN category ELSE shown[i][r]]]
    PROVE  ListInv' /\ shown' \in Seq(Tables)
<1>1. DOMAIN shown' = DOMAIN shown /\ \A i \in DOMAIN shown : DOMAIN shown'[i] = DOMAIN shown[i]
  OBVIOUS
<1>2. ASSUME NEW i \in DOMAIN shown PROVE shown'[i] \in Tables
  <2>1. shown[i] \in Tables
    OBVIOUS
  <2> QED
    BY <2>1 DEF Tables
<1>3. Len(shown) \in Nat /\ DOMAIN shown = 1 .. Len(shown)
  OBVIOUS
<1>4. shown' \in [1 .. Len(shown) -> Tables]
  BY <1>2, <1>3
<1>5. shown' \in Seq(Tables) /\ Len(shown') = Len(shown)
  BY <1>3, <1>4, SeqDef
<1>6. shown # <<>> => shown' # <<>> /\ Len(shown) \in DOMAIN shown
  BY <1>3, <1>5
<1> QED
  BY <1>1, <1>5, <1>6 DEF ListInv

----------------------------------------------------------------------------
(* The invariant of every client.                                          *)

DataInv ==
    /\ TypeOK
    /\ FetchInv
    /\ ListInv
    /\ Uploading => loads < MaxLoads

LEMMA DataInvInit ==
    ASSUME Init PROVE DataInv
<1> USE DEF Init
<1>1. table \in Tables
  BY RowsAssumption DEF Tables, Restrict
<1>2. AnyTime \in Filters
  BY DEF AnyTime, Filters
<1>3. FetchInv
  <2>1. Whole(fetches)
    BY <1>2, NewLoads DEF Whole
  <2> QED
    BY <1>2, <2>1, NewLoads DEF FetchInv
<1>4. shown \in Seq(Tables) /\ DOMAIN shown = {}
  OBVIOUS
<1>5. <<>> \in Tables
  <2>1. <<>> \in [{} -> Categories]
    OBVIOUS
  <2> QED
    BY <2>1 DEF Tables
<1>6. /\ summary \in [month : MonthNames \cup {"all", "none"}, counted : Tables]
      /\ upload \in [at : {"none", "sent", "stored", "over"}, filter : Filters]
  BY <1>2, <1>5
<1>7. loads \in 1 .. MaxLoads /\ current \in 1 .. loads
  BY SizesAssumption
<1>8. TypeOK
  BY <1>1, <1>2, <1>3, <1>4, <1>6, <1>7 DEF TypeOK, FetchInv
<1> QED
  BY <1>3, <1>4, <1>8 DEF DataInv, ListInv, Uploading

LEMMA ServeStep ==
    ASSUME DataInv, NEW f \in fetches, Serve(f) PROVE DataInv'
<1> USE DEF DataInv
<1>1. f \in Fetches /\ Sound(f)
  BY DEF FetchInv
<1>2. table' \in Tables /\ DOMAIN table' = DOMAIN table
  BY <1>1 DEF TypeOK, Tables, Serve, Sound
<1> DEFINE g == [f EXCEPT !.read = {table'}]
<1>3. /\ g \in Fetches /\ g.task = f.task /\ g.n = f.n /\ g.what = f.what /\ g.read = {table'}
      /\ g.category = f.category
  BY <1>1, <1>2 DEF Fetches
<1>4. fetches' = (fetches \ {f}) \cup {g}
  BY DEF Serve
<1> HIDE DEF g
<1>5. Whole(fetches')
  BY <1>3, <1>4 DEF FetchInv, Whole
<1>6. \A h \in fetches' : Sound(h)'
  BY <1>1, <1>2, <1>3, <1>4 DEF FetchInv, Sound
<1>7. FetchInv'
  BY <1>3, <1>4, <1>5, <1>6 DEF FetchInv, Whole
<1>8. UNCHANGED <<selected, shown, nextToken, summary, months, statements, status,
                  savingIds, isLoadingMore, current, loads, upload, edited, missed>>
  BY DEF Serve
<1>9. ListInv'
  BY <1>2, <1>8, ListKept
<1> QED
  BY <1>2, <1>7, <1>8, <1>9 DEF TypeOK, FetchInv, Uploading

LEMMA SelectStep ==
    ASSUME DataInv, NEW filter \in Filters, Select(filter) PROVE DataInv'
<1> USE DEF DataInv
<1>1. /\ loads + 1 \in Nat /\ loads + 1 \in 1 .. MaxLoads /\ loads + 1 \in 1 .. loads + 1
      /\ Uploading => loads + 1 < MaxLoads
  BY SizesAssumption DEF Select, LoadsLeft, TypeOK
<1>2. FetchInv'
  <2> DEFINE F == Filtered("effect", loads + 1, filter)
  <2>1. F \in SUBSET Fetches /\ Whole(F) /\ \A f \in F : Sound(f)
    BY <1>1, NewLoads
  <2>2. fetches' = fetches \cup F /\ UNCHANGED table
    BY DEF Select
  <2> QED
    BY <2>1, <2>2, FetchesAdded
<1>3. ListInv'
  BY ListKept DEF Select
<1>4. /\ selected' = filter /\ loads' = loads + 1 /\ current' = loads + 1
      /\ UNCHANGED <<table, shown, nextToken, summary, months, statements, status,
                     savingIds, isLoadingMore, upload, edited, missed>>
  BY DEF Select
<1>5. TypeOK'
  BY <1>1, <1>2, <1>4 DEF TypeOK, FetchInv
<1> QED
  BY <1>1, <1>2, <1>3, <1>4, <1>5 DEF Uploading

LEMMA FilteredStep ==
    ASSUME DataInv, NEW f \in fetches, FilteredArrives(f) PROVE DataInv'
<1> USE DEF DataInv
<1>1. FetchInv'
  BY FetchesRemoved DEF FilteredArrives
<1>2. /\ TheRead(Awaited(f, "page")) \in Tables /\ TheRead(Awaited(f, "summary")) \in Tables
      /\ DOMAIN TheRead(Awaited(f, "page")) \subseteq DOMAIN table
  BY AwaitedFetch, ReadTable DEF FilteredArrives
<1>3. f.filter \in Filters
  BY DEF FetchInv, Fetches
<1>4. CASE Stale(f)
  <2>1. ListInv'
    BY <1>4, ListKept DEF FilteredArrives
  <2> QED
    BY <1>1, <1>4, <2>1 DEF FilteredArrives, TypeOK, FetchInv, Uploading
<1>5. CASE ~Stale(f)
  <2> DEFINE page == Page(TheRead(Awaited(f, "page")), f.filter, 0)
  <2>1. page \in Tables /\ DOMAIN page \subseteq DOMAIN table
    BY <1>2, PageRows
  <2>2. shown' = <<page>> /\ nextToken' = TokenAfter(page)
    BY <1>5 DEF FilteredArrives
  <2> HIDE DEF page
  <2>3. ListInv' /\ shown' \in Seq(Tables) /\ nextToken' \in Rows \cup {0}
    BY <2>1, <2>2, ListReplaced DEF FilteredArrives
  <2>4. summary' \in [month : MonthNames \cup {"all", "none"}, counted : Tables]
    <3>1. summary' = Breakdown(TheRead(Awaited(f, "summary")), f.filter.month)
      BY <1>5 DEF FilteredArrives
    <3>2. f.filter.month \in MonthNames \cup {"all"}
      BY <1>3 DEF Filters
    <3> QED
      BY <1>2, <3>1, <3>2, RestrictedTable DEF Breakdown
  <2> QED
    BY <1>1, <1>5, <2>3, <2>4 DEF FilteredArrives, TypeOK, FetchInv, Uploading
<1> QED
  BY <1>4, <1>5

LEMMA UnfilteredStep ==
    ASSUME DataInv, NEW f \in fetches, UnfilteredArrives(f) PROVE DataInv'
<1> USE DEF DataInv
<1>1. FetchInv'
  BY FetchesRemoved DEF UnfilteredArrives
<1>2. /\ TheRead(Awaited(f, "statements")) \in Tables
      /\ TheRead(Awaited(f, "months")) \in Tables
  BY AwaitedFetch, ReadTable DEF UnfilteredArrives
<1>3. statements' \subseteq Rows /\ months' \subseteq Rows
  BY <1>2 DEF UnfilteredArrives, Tables
<1>4. ListInv'
  BY ListKept DEF UnfilteredArrives
<1> QED
  BY <1>1, <1>3, <1>4 DEF UnfilteredArrives, TypeOK, FetchInv, Uploading

LEMMA LoadFailsStep ==
    ASSUME DataInv, NEW f \in fetches, LoadFails(f) PROVE DataInv'
<1> USE DEF DataInv
<1>1. FetchInv'
  BY FetchesRemoved DEF LoadFails
<1>2. ListInv'
  BY ListKept DEF LoadFails
<1> QED
  BY <1>1, <1>2 DEF LoadFails, TypeOK, FetchInv, Uploading

LEMMA LoadMoreStep ==
    ASSUME DataInv, LoadMore PROVE DataInv'
<1> USE DEF DataInv
<1>1. FetchInv'
  <2> DEFINE F == {Request("more", 0, "page", selected, nextToken, "all")}
  <2>1. F \in SUBSET Fetches /\ \A f \in F : Sound(f)
    BY RequestType DEF TypeOK
  <2>2. \A f \in F : f.task = "more"
    BY DEF Request
  <2>3. Whole(F)
    BY <2>2 DEF Whole
  <2>4. fetches' = fetches \cup F /\ UNCHANGED table
    BY DEF LoadMore
  <2> QED
    BY <2>1, <2>3, <2>4, FetchesAdded
<1>2. ListInv'
  BY ListKept DEF LoadMore
<1> QED
  BY <1>1, <1>2 DEF LoadMore, TypeOK, FetchInv, Uploading

LEMMA MoreStep ==
    ASSUME DataInv, NEW f \in fetches, MoreArrives(f) PROVE DataInv'
<1> USE DEF DataInv
<1>1. FetchInv'
  BY FetchesRemoved DEF MoreArrives
<1> DEFINE page == Page(TheRead(f), f.filter, f.after)
<1>2. page \in Tables /\ DOMAIN page \subseteq DOMAIN table
  <2>1. TheRead(f) \in Tables /\ DOMAIN TheRead(f) \subseteq DOMAIN table
    BY ReadTable DEF FetchInv, MoreArrives
  <2> QED
    BY <2>1, PageRows
<1>3. shown' = Append(shown, page) /\ nextToken' = TokenAfter(page) /\ UNCHANGED table
  BY DEF MoreArrives
<1> HIDE DEF page
<1>4. ListInv' /\ shown' \in Seq(Tables) /\ nextToken' \in Rows \cup {0}
  BY <1>2, <1>3, ListExtended DEF TypeOK
<1> QED
  BY <1>1, <1>4 DEF MoreArrives, TypeOK, FetchInv, Uploading

LEMMA MoreFailsStep ==
    ASSUME DataInv, NEW f \in fetches, MoreFails(f) PROVE DataInv'
<1> USE DEF DataInv
<1>1. FetchInv'
  BY FetchesRemoved DEF MoreFails
<1>2. ListInv'
  BY ListKept DEF MoreFails
<1> QED
  BY <1>1, <1>2 DEF MoreFails, TypeOK, FetchInv, Uploading

LEMMA UpdateStep ==
    ASSUME DataInv, NEW r \in Editable, NEW category \in Categories, UpdateCategory(r, category)
    PROVE  DataInv'
<1> USE DEF DataInv
<1>1. r \in DOMAIN table /\ r \in Nat
  BY RowsAssumption DEF UpdateCategory, Listed, ListInv
<1>2. FetchInv'
  <2> DEFINE g == Request("save", r, "put", selected, 0, category)
  <2>1. g \in Fetches
    BY <1>1, RequestType DEF TypeOK
  <2>2. g.task = "save" /\ g.n = r /\ g.category = category /\ g.read = {}
    BY DEF Request
  <2>3. fetches' = fetches \cup {g} /\ UNCHANGED table
    BY DEF UpdateCategory
  <2> HIDE DEF g
  <2>4. Whole({g}) /\ Sound(g)
    BY <1>1, <2>2 DEF Whole, Sound
  <2> QED
    BY <2>1, <2>3, <2>4, FetchesAdded
<1>3. ListInv'
  BY ListKept DEF UpdateCategory
<1> QED
  BY <1>2, <1>3 DEF UpdateCategory, TypeOK, FetchInv, Uploading

LEMMA PutStep ==
    ASSUME DataInv, NEW f \in fetches, PutArrives(f) PROVE DataInv'
<1> USE DEF DataInv
<1>1. f \in Fetches /\ Sound(f) /\ f.what = "put"
  BY DEF FetchInv, PutArrives
<1>2. TheRead(f)[f.n] \in Categories
  <2>1. Answered(f)
    BY DEF PutArrives
  <2>2. TheRead(f) \in Tables /\ f.n \in DOMAIN TheRead(f)
    BY <1>1, <2>1, ReadTable
  <2> QED
    BY <2>2 DEF Tables
<1>3. ListInv' /\ shown' \in Seq(Tables)
  <2> DEFINE category == TheRead(f)[f.n]
  <2>1. shown' = [i \in DOMAIN shown |->
                   [r \in DOMAIN shown[i] |-> IF r = f.n THEN category ELSE shown[i][r]]]
    BY DEF PutArrives
  <2>2. category \in Categories /\ UNCHANGED <<table, nextToken>>
    BY <1>2 DEF PutArrives
  <2>3. shown \in Seq(Tables) /\ ListInv
    BY DEF TypeOK
  <2> HIDE DEF category, DataInv
  <2> QED
    BY <2>1, <2>2, <2>3, ListEdited
<1>4. FetchInv'
  <2> DEFINE F == ChartsAfter(f)
  <2>1. F \in SUBSET Fetches /\ \A g \in F : g.task = "save" /\ Sound(g)
    <3>1. f.n \in Nat /\ f.filter \in Filters
      BY <1>1 DEF Fetches
    <3> QED
      BY <3>1, NewCharts
  <2>2. fetches' = (fetches \ {f}) \cup F /\ UNCHANGED table
    BY DEF PutArrives
  <2> HIDE DEF F
  <2>3. Whole(fetches')
    BY <1>1, <2>1, <2>2 DEF FetchInv, Whole
  <2> QED
    BY <2>1, <2>2, <2>3 DEF FetchInv, Sound, Whole
<1> QED
  BY <1>3, <1>4 DEF PutArrives, TypeOK, FetchInv, Uploading, NotSaving

LEMMA ChartStep ==
    ASSUME DataInv, NEW f \in fetches, ChartArrives(f) PROVE DataInv'
<1> USE DEF DataInv
<1>1. FetchInv'
  BY FetchesRemoved DEF ChartArrives
<1>2. TheRead(f) \in Tables /\ f.filter \in Filters
  <2>1. f \in Fetches /\ Sound(f) /\ Answered(f)
    BY DEF FetchInv, ChartArrives
  <2> QED
    BY <2>1, ReadTable DEF Fetches
<1>3. ListInv'
  BY ListKept DEF ChartArrives
<1>4. Breakdown(TheRead(f), f.filter.month)
        \in [month : MonthNames \cup {"all", "none"}, counted : Tables]
  <2>1. f.filter.month \in MonthNames \cup {"all"}
    BY <1>2 DEF Filters
  <2> QED
    BY <1>2, <2>1, RestrictedTable DEF Breakdown
<1>5. /\ summary' \in [month : MonthNames \cup {"all", "none"}, counted : Tables]
      /\ months' \subseteq Rows
  BY <1>2, <1>4 DEF ChartArrives, TypeOK, Tables
<1> QED
  BY <1>1, <1>3, <1>5 DEF ChartArrives, TypeOK, FetchInv, Uploading, NotSaving

LEMMA SaveFailsStep ==
    ASSUME DataInv, NEW f \in fetches, SaveFails(f) PROVE DataInv'
<1> USE DEF DataInv
<1>1. f \in Fetches /\ Sound(f) /\ f.task = "save"
  BY DEF FetchInv, SaveFails
<1>2. table' \in Tables /\ DOMAIN table' = DOMAIN table
  <2>1. f.what = "put" => [table EXCEPT ![f.n] = f.category] \in Tables
    BY <1>1 DEF TypeOK, Tables, Sound
  <2> QED
    BY <2>1 DEF SaveFails, TypeOK
<1>3. fetches' = fetches \ {f}
  BY DEF SaveFails
<1>4. Whole(fetches')
  BY <1>1, <1>3 DEF FetchInv, Whole
<1>5. FetchInv'
  BY <1>2, <1>3, <1>4 DEF FetchInv, Sound, Whole
<1>6. ListInv'
  BY <1>2, ListKept DEF SaveFails
<1> QED
  BY <1>2, <1>5, <1>6 DEF SaveFails, TypeOK, FetchInv, Uploading, NotSaving

\* The upload: its start, the commit of its rows, the answer, and its failure.
LEMMA UploadStep ==
    ASSUME DataInv, StartUpload \/ StoreUpload \/ UploadFails PROVE DataInv'
<1> USE DEF DataInv
<1>1. TableWithUpload \in Tables /\ DOMAIN table \subseteq DOMAIN TableWithUpload
  <2>1. DOMAIN table \subseteq Rows /\ \A r \in DOMAIN table : table[r] \in Categories
    BY DEF TypeOK, Tables
  <2>2. \A r \in Rows : CategoryOf[r] \in Categories
    BY RowsAssumption
  <2>3. TableWithUpload \in [Rows -> Categories]
    BY <2>1, <2>2 DEF TableWithUpload
  <2> QED
    BY <2>1, <2>3 DEF Tables
<1>2. table' \in Tables /\ DOMAIN table \subseteq DOMAIN table'
  BY <1>1 DEF StartUpload, StoreUpload, UploadFails, TypeOK
<1>3. UNCHANGED <<fetches, shown, nextToken>>
  BY DEF StartUpload, StoreUpload, UploadFails
<1>4. FetchInv' /\ ListInv'
  BY <1>2, <1>3, TableGrows, ListKept
<1>5. upload' \in [at : {"none", "sent", "stored", "over"}, filter : Filters]
  BY DEF StartUpload, StoreUpload, UploadFails, TypeOK
<1>6. Uploading' => loads' < MaxLoads
  BY SizesAssumption
  DEF StartUpload, StoreUpload, UploadFails, Uploading, LoadsLeft, TypeOK
<1>7. missed' \subseteq {"open", "refresh", "save", "upload"}
  BY DEF StartUpload, StoreUpload, UploadFails, TypeOK
<1>8. UNCHANGED <<selected, summary, months, statements, status, savingIds, isLoadingMore,
                  current, loads, edited>>
  BY DEF StartUpload, StoreUpload, UploadFails
<1>9. TypeOK'
  BY <1>2, <1>3, <1>4, <1>5, <1>7, <1>8 DEF TypeOK, FetchInv
<1> QED
  BY <1>4, <1>6, <1>9

LEMMA UploadAnsweredStep ==
    ASSUME DataInv, UploadAnswered PROVE DataInv'
<1> USE DEF DataInv
<1>1. /\ loads \in Nat /\ loads < MaxLoads /\ upload.filter \in Filters
      /\ upload' = [upload EXCEPT !.at = "over"] /\ loads' = loads + 1
  BY SizesAssumption DEF UploadAnswered, Uploading, TypeOK
<1>2. FetchInv'
  <2> DEFINE F == Filtered("reload", loads + 1, upload.filter) \cup Unfiltered("refresh")
  <2>1. /\ Filtered("reload", loads + 1, upload.filter) \subseteq Fetches
        /\ Whole(Filtered("reload", loads + 1, upload.filter))
        /\ \A f \in Filtered("reload", loads + 1, upload.filter) : Sound(f)
        /\ Unfiltered("refresh") \subseteq Fetches /\ Whole(Unfiltered("refresh"))
        /\ \A f \in Unfiltered("refresh") : Sound(f)
    <3>1. loads + 1 \in Nat
      BY <1>1
    <3> QED
      BY <1>1, <3>1, NewLoads
  <2>2. F \in SUBSET Fetches /\ Whole(F) /\ \A f \in F : Sound(f)
    BY <2>1 DEF Whole
  <2>3. fetches' = fetches \cup F /\ UNCHANGED table
    BY DEF UploadAnswered
  <2> HIDE DEF F
  <2> QED
    BY <2>2, <2>3, FetchesAdded
<1>3. ListInv'
  BY ListKept DEF UploadAnswered
<1>4. UNCHANGED <<table, selected, shown, nextToken, summary, months, statements, status,
                  savingIds, isLoadingMore, current, edited, missed>>
  BY DEF UploadAnswered
<1>5. loads' \in 1 .. MaxLoads /\ current' \in 1 .. loads'
  BY <1>1, <1>4, SizesAssumption DEF TypeOK
<1>6. upload' \in [at : {"none", "sent", "stored", "over"}, filter : Filters]
  BY <1>1 DEF TypeOK
<1>7. TypeOK'
  BY <1>2, <1>4, <1>5, <1>6 DEF TypeOK, FetchInv
<1>8. ~Uploading'
  BY <1>1, <1>6 DEF Uploading, TypeOK
<1> QED
  BY <1>2, <1>3, <1>7, <1>8

LEMMA DataInvStep ==
    ASSUME DataInv, [Next]_vars PROVE DataInv'
<1>1. ASSUME UNCHANGED vars PROVE DataInv'
  <2>1. FetchInv' /\ ListInv'
    BY <1>1, TableGrows, ListKept DEF vars, DataInv
  <2> QED
    BY <1>1, <2>1 DEF vars, DataInv, TypeOK, Uploading
<1> QED
  BY <1>1, ServeStep, SelectStep, FilteredStep, UnfilteredStep, LoadFailsStep, LoadMoreStep,
     MoreStep, MoreFailsStep, UpdateStep, PutStep, ChartStep, SaveFailsStep, UploadStep,
     UploadAnsweredStep
  DEF Next, Person, Arrives, Fails

THEOREM DataInvariant == Spec => []DataInv
<1>1. Init => DataInv
  BY DataInvInit
<1>2. DataInv /\ [Next]_vars => DataInv'
  BY DataInvStep
<1> QED
  BY <1>1, <1>2, PTL DEF Spec

\* The types of the page, of what the fetches read, and of the table.
THEOREM TypeCorrect == Spec => []TypeOK
<1>1. DataInv => TypeOK
  BY DEF DataInv
<1> QED
  BY <1>1, DataInvariant, PTL

----------------------------------------------------------------------------
(* The pages, for a person who waits for what they started.                *)

\* While a further page is under way it is the only one, it starts where the list ends, and
\* nothing that could replace the list is under way with it.
MoreAlone ==
    \A f \in fetches : f.task = "more" =>
        /\ f.after = nextToken /\ nextToken # 0
        /\ ~Uploading
        /\ \A g \in fetches : g = f \/ g.task = "save"

\* The next page starts at or below every row listed, not only those of the last page.
TokenIsLowest ==
    nextToken # 0 => \A i \in DOMAIN shown : \A r \in DOMAIN shown[i] : nextToken <= r

OrderInv == MoreAlone /\ TokenIsLowest /\ ListedOnceInOrder

LEMMA OrderInit ==
    ASSUME Init PROVE OrderInv
  BY DEF Init, Filtered, Unfiltered, Request, OrderInv, MoreAlone, TokenIsLowest,
         ListedOnceInOrder

LEMMA ListUntouched ==
    ASSUME OrderInv, UNCHANGED <<shown, nextToken>>
    PROVE  TokenIsLowest' /\ ListedOnceInOrder'
  BY DEF OrderInv, TokenIsLowest, ListedOnceInOrder

\* A save may start or go on next to the page under way, and a fetch may end.
LEMMA MoreStaysAlone ==
    ASSUME OrderInv, UNCHANGED nextToken, Uploading' => Uploading,
           \A g \in fetches' : g \in fetches \/ g.task = "save"
    PROVE  MoreAlone'
  BY DEF OrderInv, MoreAlone

\* What such a person starts only while no further page is under way.
LEMMA NoMoreUnderWay ==
    ASSUME ~Hasty, NEW tasks, MayActDuring(tasks), "more" \notin tasks
    PROVE  \A f \in fetches : f.task # "more"
  BY DEF MayActDuring, UnderWay

LEMMA OrderServe ==
    ASSUME OrderInv, FetchInv, NEW f \in fetches, Serve(f) PROVE OrderInv'
<1>1. f \in Fetches
  BY DEF FetchInv
<1> DEFINE g == [f EXCEPT !.read = {table'}]
<1>2. g.task = f.task /\ g.after = f.after /\ fetches' = (fetches \ {f}) \cup {g}
  BY <1>1 DEF Serve, Fetches
<1> HIDE DEF g
<1>3. UNCHANGED <<shown, nextToken, upload>>
  BY DEF Serve
<1>4. MoreAlone'
  BY <1>2, <1>3 DEF OrderInv, MoreAlone, Uploading
<1> QED
  BY <1>3, <1>4, ListUntouched DEF OrderInv

LEMMA OrderPerson ==
    ASSUME OrderInv, ~Hasty, Person PROVE OrderInv'
<1>1. ASSUME NEW filter \in Filters, Select(filter) PROVE MoreAlone'
  <2>1. \A f \in fetches : f.task # "more"
    BY <1>1, NoMoreUnderWay DEF Select
  <2>2. \A f \in Filtered("effect", loads + 1, filter) : f.task # "more"
    BY DEF Filtered, Request
  <2> QED
    BY <1>1, <2>1, <2>2 DEF Select, MoreAlone
<1>2. ASSUME LoadMore PROVE MoreAlone'
  <2> DEFINE g == Request("more", 0, "page", selected, nextToken, "all")
  <2>1. \A f \in fetches : f.task = "save"
    BY <1>2 DEF LoadMore, MayActDuring, UnderWay
  <2>2. ~Uploading
    BY <1>2 DEF LoadMore, MayActDuring, UnderWay
  <2>3. g.after = nextToken /\ fetches' = fetches \cup {g} /\ nextToken # 0
        /\ UNCHANGED <<nextToken, upload>>
    BY <1>2 DEF LoadMore, Request
  <2> HIDE DEF g
  <2> QED
    BY <2>1, <2>2, <2>3 DEF MoreAlone, Uploading
<1>3. ASSUME NEW r \in Editable, NEW category \in Categories, UpdateCategory(r, category)
      PROVE  MoreAlone'
  <2>1. Request("save", r, "put", selected, 0, category).task = "save"
    BY DEF Request
  <2> QED
    BY <1>3, <2>1, MoreStaysAlone DEF UpdateCategory, Uploading
<1>4. ASSUME StartUpload PROVE MoreAlone'
  BY <1>4, NoMoreUnderWay DEF StartUpload, MoreAlone
<1>5. UNCHANGED <<shown, nextToken>>
  BY DEF Person, Select, LoadMore, UpdateCategory, StartUpload
<1> QED
  BY <1>1, <1>2, <1>3, <1>4, <1>5, ListUntouched DEF Person, OrderInv

LEMMA OrderFiltered ==
    ASSUME OrderInv, FetchInv, NEW f \in fetches, FilteredArrives(f) PROVE OrderInv'
<1>1. \A g \in fetches : g.task # "more"
  BY DEF OrderInv, MoreAlone, FilteredArrives
<1>2. MoreAlone'
  BY <1>1 DEF FilteredArrives, MoreAlone
<1>3. CASE Stale(f)
  BY <1>2, <1>3, ListUntouched DEF FilteredArrives, OrderInv
<1>4. CASE ~Stale(f)
  <2> DEFINE page == Page(TheRead(Awaited(f, "page")), f.filter, 0)
  <2>1. page \in Tables
    <3>1. TheRead(Awaited(f, "page")) \in Tables
      BY AwaitedFetch, ReadTable DEF FilteredArrives
    <3> QED
      BY <3>1, PageRows
  <2>2. shown' = <<page>> /\ nextToken' = TokenAfter(page)
    BY <1>4 DEF FilteredArrives
  <2> HIDE DEF page
  <2>3. DOMAIN shown' = {1} /\ shown'[1] = page
    BY <2>2
  <2>4. TokenIsLowest' /\ ListedOnceInOrder'
    BY <2>1, <2>2, <2>3, TokenIsLast DEF TokenIsLowest, ListedOnceInOrder
  <2> QED
    BY <1>2, <2>4 DEF OrderInv
<1> QED
  BY <1>3, <1>4

LEMMA OrderMore ==
    ASSUME OrderInv, DataInv, NEW f \in fetches, MoreArrives(f) PROVE OrderInv'
<1>1. f.after = nextToken /\ nextToken # 0 /\ fetches' = fetches \ {f}
      /\ \A g \in fetches : g = f \/ g.task = "save"
  BY DEF OrderInv, MoreAlone, MoreArrives
<1>2. MoreAlone'
  BY <1>1 DEF MoreAlone
<1> DEFINE page == Page(TheRead(f), f.filter, f.after)
<1>3. page \in Tables /\ \A r \in DOMAIN page : r < nextToken /\ r \in Rows
  <2>1. TheRead(f) \in Tables
    BY ReadTable DEF DataInv, FetchInv, MoreArrives
  <2> QED
    BY <1>1, <2>1, PageRows
<1>4. shown' = Append(shown, page) /\ nextToken' = TokenAfter(page)
  BY DEF MoreArrives
<1> HIDE DEF page
<1>5. /\ DOMAIN shown' = 1 .. Len(shown) + 1 /\ DOMAIN shown = 1 .. Len(shown)
      /\ Len(shown) \in Nat /\ shown'[Len(shown) + 1] = page
      /\ \A i \in 1 .. Len(shown) : shown'[i] = shown[i]
  BY <1>3, <1>4, AppendProperties DEF DataInv, TypeOK
<1>6. \A i \in 1 .. Len(shown) : \A r \in DOMAIN shown[i] : r \in Nat /\ nextToken <= r
  <2>1. \A i \in 1 .. Len(shown) : shown[i] \in Tables
    BY <1>5 DEF DataInv, TypeOK
  <2> QED
    BY <1>1, <1>5, <2>1, RowsAssumption DEF OrderInv, TokenIsLowest, Tables
<1>7. nextToken \in Nat /\ \A r \in DOMAIN page : r \in Nat
  <2>1. nextToken \in Rows
    BY <1>1 DEF DataInv, TypeOK
  <2> QED
    BY <1>3, <2>1, RowsAssumption
<1>8. \A i \in 1 .. Len(shown) : \A r \in DOMAIN shown[i], q \in DOMAIN page : r > q
  BY <1>3, <1>6, <1>7
<1>9. \A i \in 1 .. Len(shown) + 1 : i = Len(shown) + 1 \/ i \in 1 .. Len(shown)
  BY <1>5
<1>10. ListedOnceInOrder'
  BY <1>5, <1>8, <1>9 DEF OrderInv, ListedOnceInOrder
<1>11. TokenIsLowest'
  <2>1. ASSUME TokenAfter(page) # 0
        PROVE  \A i \in 1 .. Len(shown) + 1 : \A r \in DOMAIN shown'[i] : TokenAfter(page) <= r
    <3>1. TokenAfter(page) \in DOMAIN page /\ \A r \in DOMAIN page : TokenAfter(page) <= r
      BY <1>3, <2>1, TokenIsLast
    <3> QED
      BY <1>5, <1>6, <1>7, <1>8, <1>9, <3>1
  <2> QED
    BY <1>4, <1>5, <2>1 DEF TokenIsLowest
<1> QED
  BY <1>2, <1>10, <1>11 DEF OrderInv

LEMMA OrderPut ==
    ASSUME OrderInv, NEW f \in fetches, PutArrives(f) PROVE OrderInv'
<1>1. \A g \in ChartsAfter(f) : g.task = "save"
  BY DEF ChartsAfter, Request
<1>2. MoreAlone'
  BY <1>1, MoreStaysAlone DEF PutArrives, Uploading
<1>3. /\ DOMAIN shown' = DOMAIN shown /\ UNCHANGED nextToken
      /\ \A i \in DOMAIN shown : DOMAIN shown'[i] = DOMAIN shown[i]
  BY DEF PutArrives
<1> QED
  BY <1>2, <1>3 DEF OrderInv, TokenIsLowest, ListedOnceInOrder

\* The steps that leave the list alone and start nothing but reloads.
LEMMA OrderOthers ==
    ASSUME OrderInv, NEW f \in fetches,
           UnfilteredArrives(f) \/ ChartArrives(f) \/ Fails(f)
    PROVE  OrderInv'
<1>1. UNCHANGED <<shown, nextToken, upload>> /\ fetches' \subseteq fetches
  BY DEF UnfilteredArrives, ChartArrives, Fails, LoadFails, MoreFails, SaveFails
<1> QED
  BY <1>1, ListUntouched, MoreStaysAlone DEF OrderInv, Uploading

LEMMA OrderUpload ==
    ASSUME OrderInv, StoreUpload \/ UploadAnswered \/ UploadFails PROVE OrderInv'
<1>1. UNCHANGED <<shown, nextToken>>
  BY DEF StoreUpload, UploadAnswered, UploadFails
<1>2. \A f \in fetches : f.task # "more"
  BY DEF OrderInv, MoreAlone, StoreUpload, UploadAnswered, UploadFails, Uploading
<1>3. \A f \in Filtered("reload", loads + 1, upload.filter) \cup Unfiltered("refresh") :
         f.task # "more"
  BY DEF Filtered, Unfiltered, Request
<1>4. \A f \in fetches' : f.task # "more"
  BY <1>2, <1>3 DEF StoreUpload, UploadAnswered, UploadFails
<1> QED
  BY <1>1, <1>4, ListUntouched DEF OrderInv, MoreAlone

LEMMA OrderStep ==
    ASSUME OrderInv, DataInv, ~Hasty, [Next]_vars PROVE OrderInv'
<1>1. ASSUME UNCHANGED vars PROVE OrderInv'
  BY <1>1 DEF vars, OrderInv, MoreAlone, TokenIsLowest, ListedOnceInOrder, Uploading
<1>2. FetchInv
  BY DEF DataInv
<1> QED
  BY <1>1, <1>2, OrderServe, OrderPerson, OrderFiltered, OrderMore, OrderPut, OrderOthers,
     OrderUpload
  DEF Next, Arrives

\* A person who waits for what they started sees a list that is in order and repeats no
\* row, however long the list is and whatever is uploaded, recategorized or lost meanwhile.
THEOREM PagesFollowEachOther ==
    ASSUME ~Hasty PROVE Spec => []ListedOnceInOrder
<1>1. Init => OrderInv
  BY OrderInit
<1>2. OrderInv /\ DataInv /\ [Next]_vars => OrderInv'
  BY OrderStep
<1>3. OrderInv => ListedOnceInOrder
  BY DEF OrderInv
<1> QED
  BY <1>1, <1>2, <1>3, DataInvariant, PTL DEF Spec

----------------------------------------------------------------------------
(* What the next page is: the rows that come next, and a token that says   *)
(* whether there are more.                                                 *)

\* A row the page leaves out comes after a full page.
LEMMA NewestAreFirst ==
    ASSUME NEW S \in SUBSET Rows, NEW r \in S \ Newest(S)
    PROVE  Cardinality(Newest(S)) = PageSize /\ \A q \in Newest(S) : r < q
<1> DEFINE Above(x) == {q \in S : q > x}
<1>1. (\A x \in S : x \in Nat) /\ IsFiniteSet(S) /\ PageSize \in Nat \ {0}
  BY RowsAreFinite, SizesAssumption
<1>2. ASSUME NEW x \in S PROVE IsFiniteSet(Above(x)) /\ Cardinality(Above(x)) \in Nat
  BY <1>1, FS_Subset, FS_CardinalityType
<1>3. ASSUME NEW x \in S, NEW y \in S, x < y
      PROVE  Cardinality(Above(y)) < Cardinality(Above(x))
  <2>1. Above(y) \subseteq Above(x) /\ y \in Above(x) \ Above(y)
    BY <1>1, <1>3
  <2>2. Cardinality(Above(y)) <= Cardinality(Above(x))
        /\ (Cardinality(Above(y)) = Cardinality(Above(x)) => Above(x) = Above(y))
    BY <1>2, <2>1, FS_Subset
  <2> HIDE DEF Above
  <2> QED
    BY <1>2, <2>1, <2>2
<1>4. Newest(S) = {x \in S : Cardinality(Above(x)) < PageSize}
  BY DEF Newest
<1>5. ASSUME NEW q \in Newest(S), NEW x \in S \ Newest(S) PROVE x < q
  <2> HIDE DEF Above
  <2>1. ~(q < x)
    BY <1>1, <1>2, <1>3, <1>4
  <2> QED
    BY <1>1, <1>4, <2>1
<1> DEFINE Counts == {Cardinality(Above(x)) : x \in S \ Newest(S)}
<1>6. PICK m \in S \ Newest(S) :
        \A x \in S \ Newest(S) : Cardinality(Above(m)) <= Cardinality(Above(x))
  <2>1. Counts \in SUBSET Nat /\ Counts # {}
    BY <1>2
  <2>2. PICK c \in Counts : \A d \in Counts : c <= d
    BY <2>1, SmallestExists
  <2> QED
    BY <2>2
<1>7. Newest(S) = Above(m)
  <2>1. ASSUME NEW q \in Above(m) PROVE q \in Newest(S)
    <3>1. q \in S /\ m < q
      BY <1>1
    <3> HIDE DEF Above
    <3>2. Cardinality(Above(q)) < Cardinality(Above(m))
      BY <1>3, <3>1
    <3> QED
      BY <1>2, <1>6, <3>1, <3>2
  <2>2. ASSUME NEW q \in Newest(S) PROVE q \in Above(m)
    BY <1>1, <1>4, <1>5, <1>6
  <2> QED
    BY <2>1, <2>2
<1>8. Cardinality(Above(m)) >= PageSize
  BY <1>1, <1>2, <1>4, <1>6
<1>9. Above(m) # {}
  BY <1>1, <1>8, FS_EmptySet
<1>10. PICK k \in Above(m) : \A q \in Above(m) : k <= q
  BY <1>1, <1>9, SmallestExists
<1>11. Above(m) = Above(k) \cup {k} /\ k \notin Above(k)
  BY <1>1, <1>10
<1>12. Cardinality(Above(m)) = Cardinality(Above(k)) + 1
  BY <1>2, <1>11, FS_AddElement
<1>13. Cardinality(Above(k)) < PageSize
  BY <1>4, <1>7
<1> QED
  BY <1>1, <1>2, <1>5, <1>7, <1>8, <1>12, <1>13

\* What a page holds, and that it leaves out nothing above the position its token gives.
LEMMA PageIsComplete ==
    ASSUME NEW t \in Tables, NEW filter, NEW after
    PROVE  /\ \A r \in DOMAIN Page(t, filter, after) :
                r \in Matching(t, filter) /\ Page(t, filter, after)[r] = t[r]
           /\ \A r \in Following(Matching(t, filter), after) \ DOMAIN Page(t, filter, after) :
                /\ TokenAfter(Page(t, filter, after)) # 0
                /\ r < TokenAfter(Page(t, filter, after))
<1> DEFINE S == Following(Matching(t, filter), after)
           page == Page(t, filter, after)
<1>1. S \in SUBSET Rows /\ S \subseteq Matching(t, filter) /\ Newest(S) \subseteq S
  BY DEF Following, Matching, Newest, Tables
<1>2. DOMAIN page = Newest(S) /\ \A r \in Newest(S) : page[r] = t[r]
  BY DEF Page, Restrict
<1>3. ASSUME NEW r \in S \ DOMAIN page PROVE TokenAfter(page) # 0 /\ r < TokenAfter(page)
  <2>1. Cardinality(DOMAIN page) = PageSize /\ \A q \in DOMAIN page : r < q
    BY <1>1, <1>2, <1>3, NewestAreFirst
  <2>2. DOMAIN page # {} /\ DOMAIN page \in SUBSET Rows
    BY <1>1, <1>2, <2>1, FS_EmptySet, SizesAssumption
  <2>3. Min(DOMAIN page) \in DOMAIN page
    BY <2>2, SmallestRow
  <2>4. TokenAfter(page) = Min(DOMAIN page)
    BY <2>1 DEF TokenAfter
  <2> QED
    BY <2>1, <2>2, <2>3, <2>4, RowsAssumption
<1> QED
  BY <1>1, <1>2, <1>3

\* The page after a cursor is the same for two tables that agree on the rows behind it.
LEMMA SamePage ==
    ASSUME NEW t \in Tables, NEW u \in Tables, NEW filter, NEW after, after # 0,
           DOMAIN t = DOMAIN u, \A r \in DOMAIN t : r < after => t[r] = u[r]
    PROVE  Page(t, filter, after) = Page(u, filter, after)
<1>1. Following(Matching(t, filter), after) = Following(Matching(u, filter), after)
  BY DEF Following, Matching
<1>2. \A r \in Newest(Following(Matching(t, filter), after)) : t[r] = u[r]
  BY DEF Newest, Following, Matching
<1> QED
  BY <1>1, <1>2 DEF Page, Restrict

----------------------------------------------------------------------------
(* Who is under way with whom, and what they have read, for a person who   *)
(* waits for what they started.                                            *)

\* Loads of the filtered data, saves and further pages, and the reload that ends an upload
\* are never under way together.
TakesTurns ==
    /\ Uploading => fetches = {}
    /\ \A f, g \in fetches :
         /\ f.task \in {"save", "more"} => g.task \in {"save", "more"}
         /\ f.task \in {"reload", "refresh"} => g.task \in {"reload", "refresh"}

\* A row is saved alone, and stays listed meanwhile.
SavesAlone ==
    \A f \in fetches : f.what = "put" =>
        /\ f.n \in Listed \cap edited
        /\ \A g \in fetches : g.task = "save" => g = f

\* What each task asks for.
AsksFor ==
    \A f \in fetches :
        /\ f.task \in {"effect", "reload"} => f.what \in {"page", "summary"}
        /\ f.task \in {"open", "refresh"} => f.what \in {"statements", "months"}
        /\ f.task = "more" => f.what = "page"
        /\ f.task = "save" => f.what \in {"put", "summary", "months"}

\* What is asked for, and not to be thrown away, is asked for with the selected filters.
SameFilters ==
    /\ Uploading => upload.filter = selected
    /\ \A f \in fetches :
         /\ f.task = "effect" => f.n <= loads
         /\ f.task \in {"open", "refresh"} \/ Stale(f) \/ f.filter = selected

\* What was read is still what the table holds; behind the list, for a further page.
ReadsAreCurrent ==
    \A f \in fetches : \A t \in f.read :
        IF f.task = "more"
        THEN /\ DOMAIN t = DOMAIN table
             /\ \A r \in DOMAIN t : r < nextToken => t[r] = table[r]
        ELSE t = table

TurnInv == TakesTurns /\ SavesAlone /\ AsksFor /\ SameFilters /\ ReadsAreCurrent

LEMMA TurnInit ==
    ASSUME Init PROVE TurnInv
<1>1. \A f \in fetches :
        /\ f.task \in {"effect", "open"} /\ f.read = {}
        /\ f.task = "effect" => f.what \in {"page", "summary"} /\ f.n = 1 /\ f.filter = selected
        /\ f.task = "open" => f.what \in {"statements", "months"}
  BY DEF Init, Filtered, Unfiltered, Request
<1>2. ~Uploading /\ loads = 1
  BY DEF Init, Uploading
<1> QED
  BY <1>1, <1>2
  DEF TurnInv, TakesTurns, SavesAlone, AsksFor, SameFilters, ReadsAreCurrent

\* Fetches end, and neither the list nor its token moves under those it matters to.
LEMMA FewerFetches ==
    ASSUME TurnInv, fetches' \subseteq fetches,
           UNCHANGED <<table, selected, current, loads, upload, edited>>,
           \A g \in fetches' : g.what = "put" => Listed \subseteq Listed',
           \A g \in fetches' : g.task = "more" => UNCHANGED nextToken
    PROVE  TurnInv'
<1>1. TakesTurns' /\ AsksFor' /\ SameFilters'
  BY DEF TurnInv, TakesTurns, AsksFor, SameFilters, Uploading, Stale
<1>2. SavesAlone'
  BY DEF TurnInv, SavesAlone
<1>3. ReadsAreCurrent'
  BY DEF TurnInv, ReadsAreCurrent
<1> QED
  BY <1>1, <1>2, <1>3 DEF TurnInv

\* Nothing was under way, and what starts has read nothing.
LEMMA OnlyNewFetches ==
    ASSUME fetches = {}, ~Uploading',
           \A f \in fetches' :
               /\ f.read = {} /\ f.task \in {"reload", "refresh"}
               /\ f.task = "reload" => f.what \in {"page", "summary"} /\ f.filter = selected'
               /\ f.task = "refresh" => f.what \in {"statements", "months"}
    PROVE  TurnInv'
  BY DEF TurnInv, TakesTurns, SavesAlone, AsksFor, SameFilters, ReadsAreCurrent

\* What else is under way while a row is saved is a page of rows that follow it.
LEMMA SavedAboveThePage ==
    ASSUME TurnInv, DataInv, OrderInv, NEW f \in fetches, f.what = "put", UNCHANGED nextToken,
           table' = [table EXCEPT ![f.n] = f.category]
    PROVE  /\ DOMAIN table' = DOMAIN table
           /\ \A r \in DOMAIN table : r # f.n => table'[r] = table[r]
           /\ \A h \in fetches \ {f} :
                /\ h.task = "more"
                /\ \A t \in h.read :
                     /\ DOMAIN t = DOMAIN table'
                     /\ \A r \in DOMAIN t : r < nextToken' => t[r] = table'[r]
<1>1. f \in Fetches /\ Sound(f) /\ f.task = "save"
  BY DEF DataInv, FetchInv, TurnInv, AsksFor, Fetches
<1>2. \A h \in fetches \ {f} : h.task = "more"
  BY <1>1 DEF TurnInv, TakesTurns, SavesAlone
<1>3. DOMAIN table' = DOMAIN table /\ \A r \in DOMAIN table : r # f.n => table'[r] = table[r]
  BY <1>1 DEF DataInv, TypeOK, Tables
<1>4. ASSUME NEW h \in fetches \ {f} PROVE ~(f.n < nextToken)
  <2>1. nextToken # 0 /\ f.n \in Listed
    BY <1>2 DEF OrderInv, MoreAlone, TurnInv, SavesAlone
  <2>2. nextToken <= f.n
    BY <2>1 DEF Listed, OrderInv, TokenIsLowest
  <2>3. nextToken \in Nat /\ f.n \in Nat
    BY <1>1, RowsAssumption DEF DataInv, TypeOK, Fetches
  <2> QED
    BY <2>2, <2>3
<1> QED
  BY <1>2, <1>3, <1>4 DEF TurnInv, ReadsAreCurrent

LEMMA TurnServe ==
    ASSUME TurnInv, DataInv, OrderInv, NEW f \in fetches, Serve(f) PROVE TurnInv'
<1>1. f \in Fetches /\ Sound(f)
  BY DEF DataInv, FetchInv
<1> DEFINE g == [f EXCEPT !.read = {table'}]
<1>2. /\ g.task = f.task /\ g.n = f.n /\ g.what = f.what /\ g.filter = f.filter
      /\ g.read = {table'} /\ fetches' = (fetches \ {f}) \cup {g}
  BY <1>1 DEF Serve, Fetches
<1> HIDE DEF g
<1>3. UNCHANGED <<selected, shown, nextToken, current, loads, upload, edited>>
  BY DEF Serve
<1>4. TakesTurns' /\ AsksFor' /\ SameFilters'
  BY <1>2, <1>3 DEF TurnInv, TakesTurns, AsksFor, SameFilters, Uploading, Stale
<1>5. SavesAlone'
  BY <1>2, <1>3 DEF TurnInv, SavesAlone, Listed
<1>6. ReadsAreCurrent'
  <2>1. CASE f.what # "put"
    <3>1. table' = table
      BY <2>1 DEF Serve
    <3> QED
      BY <1>2, <1>3, <3>1 DEF TurnInv, ReadsAreCurrent
  <2>2. CASE f.what = "put"
    <3>1. table' = [table EXCEPT ![f.n] = f.category]
      BY <2>2 DEF Serve
    <3>2. \A h \in fetches \ {f} :
            /\ h.task = "more"
            /\ \A t \in h.read :
                 /\ DOMAIN t = DOMAIN table'
                 /\ \A r \in DOMAIN t : r < nextToken' => t[r] = table'[r]
      BY <1>3, <2>2, <3>1, SavedAboveThePage
    <3>3. g.task = "save"
      BY <1>1, <1>2, <2>2 DEF TurnInv, AsksFor, Fetches
    <3> QED
      BY <1>2, <3>2, <3>3 DEF ReadsAreCurrent
  <2> QED
    BY <2>1, <2>2
<1> QED
  BY <1>4, <1>5, <1>6 DEF TurnInv

LEMMA TurnSelect ==
    ASSUME TurnInv, DataInv, ~Hasty, NEW filter \in Filters, Select(filter) PROVE TurnInv'
<1>1. ~Uploading /\ \A f \in fetches : f.task \in {"effect", "open"}
  BY DEF Select, MayActDuring, UnderWay
<1> DEFINE F == Filtered("effect", loads + 1, filter)
<1>2. \A f \in F : /\ f.task = "effect" /\ f.n = loads + 1 /\ f.filter = filter /\ f.read = {}
                   /\ f.what \in {"page", "summary"}
  BY DEF Filtered, Request
<1>3. /\ fetches' = fetches \cup F /\ selected' = filter /\ current' = loads + 1
      /\ loads' = loads + 1 /\ UNCHANGED <<table, shown, nextToken, upload, edited>>
  BY DEF Select
<1> HIDE DEF F
<1>4. TakesTurns' /\ AsksFor'
  BY <1>1, <1>2, <1>3 DEF TurnInv, TakesTurns, AsksFor, Uploading
<1>5. SavesAlone'
  BY <1>1, <1>2, <1>3 DEF TurnInv, SavesAlone, AsksFor
<1>6. ReadsAreCurrent'
  BY <1>1, <1>2, <1>3 DEF TurnInv, ReadsAreCurrent
<1>7. SameFilters'
  <2>1. loads \in Nat /\ \A f \in fetches : f.n \in Nat
    BY SizesAssumption DEF DataInv, TypeOK, Fetches
  <2>2. \A f \in fetches : f.task = "effect" => f.n <= loads + 1 /\ f.n # loads + 1
    BY <2>1 DEF TurnInv, SameFilters
  <2> QED
    BY <1>1, <1>2, <1>3, <2>1, <2>2 DEF SameFilters, Stale, Uploading
<1> QED
  BY <1>4, <1>5, <1>6, <1>7 DEF TurnInv

\* A further page, or a save: what else is under way is the other of the two.
LEMMA TurnListAction ==
    ASSUME TurnInv, ~Hasty,
           \/ LoadMore
           \/ \E r \in Editable, category \in Categories : UpdateCategory(r, category)
    PROVE  TurnInv'
<1>1. /\ ~Uploading /\ UNCHANGED <<table, selected, current, loads, upload, shown, nextToken>>
      /\ \A f \in fetches : f.task \in {"save", "more"}
  BY DEF LoadMore, UpdateCategory, MayActDuring, UnderWay
<1>2. PICK g : /\ fetches' = fetches \cup {g} /\ g.read = {} /\ g.filter = selected
               /\ g.task \in {"save", "more"}
               /\ g.task = "more" => g.what = "page" /\ edited' = edited
               /\ g.task = "save" =>
                    /\ g.what = "put" /\ g.n \in Listed /\ edited' = edited \cup {g.n}
                    /\ \A f \in fetches : f.task = "more"
  <2>1. ASSUME LoadMore
        PROVE  \E g : /\ fetches' = fetches \cup {g} /\ g.read = {} /\ g.filter = selected
                      /\ g.task = "more" /\ g.what = "page" /\ edited' = edited
    <3> DEFINE g == Request("more", 0, "page", selected, nextToken, "all")
    <3>1. fetches' = fetches \cup {g} /\ edited' = edited
      BY <2>1 DEF LoadMore
    <3>2. g.read = {} /\ g.filter = selected /\ g.task = "more" /\ g.what = "page"
      BY DEF Request
    <3> QED
      BY <3>1, <3>2
  <2>2. ASSUME NEW r \in Editable, NEW category \in Categories, UpdateCategory(r, category)
        PROVE  \E g : /\ fetches' = fetches \cup {g} /\ g.read = {} /\ g.filter = selected
                      /\ g.task = "save" /\ g.what = "put" /\ g.n \in Listed
                      /\ edited' = edited \cup {g.n}
                      /\ \A f \in fetches : f.task = "more"
    <3> DEFINE g == Request("save", r, "put", selected, 0, category)
    <3>1. /\ fetches' = fetches \cup {g}
          /\ r \in Listed /\ edited' = edited \cup {r}
          /\ \A f \in fetches : f.task = "more"
      BY <2>2 DEF UpdateCategory, MayActDuring, UnderWay
    <3>2. /\ g.read = {} /\ g.filter = selected /\ g.task = "save" /\ g.what = "put"
          /\ g.n = r
      BY DEF Request
    <3> QED
      BY <3>1, <3>2
  <2> QED
    BY <2>1, <2>2
<1>3. TakesTurns' /\ AsksFor' /\ SameFilters'
  BY <1>1, <1>2 DEF TurnInv, TakesTurns, AsksFor, SameFilters, Uploading, Stale
<1>4. SavesAlone'
  BY <1>1, <1>2 DEF TurnInv, SavesAlone, AsksFor, Listed
<1>5. ReadsAreCurrent'
  BY <1>1, <1>2 DEF TurnInv, ReadsAreCurrent
<1> QED
  BY <1>3, <1>4, <1>5 DEF TurnInv

LEMMA TurnMore ==
    ASSUME TurnInv, DataInv, OrderInv, NEW f \in fetches, MoreArrives(f) PROVE TurnInv'
<1>1. fetches' = fetches \ {f} /\ \A g \in fetches' : g.task = "save"
  BY DEF MoreArrives, OrderInv, MoreAlone
<1>2. Listed \subseteq Listed'
  <2> DEFINE page == Page(TheRead(f), f.filter, f.after)
  <2>1. TheRead(f) \in Tables
    BY ReadTable DEF DataInv, FetchInv, MoreArrives
  <2>2. page \in Tables /\ shown' = Append(shown, page)
    BY <2>1, PageRows DEF MoreArrives
  <2> HIDE DEF page
  <2>3. /\ DOMAIN shown' = 1 .. Len(shown) + 1 /\ DOMAIN shown = 1 .. Len(shown)
        /\ Len(shown) \in Nat /\ \A i \in 1 .. Len(shown) : shown'[i] = shown[i]
    BY <2>2, AppendProperties DEF DataInv, TypeOK
  <2> QED
    BY <2>3 DEF Listed
<1>3. UNCHANGED <<table, selected, current, loads, upload, edited>>
  BY DEF MoreArrives
<1> QED
  BY <1>1, <1>2, <1>3, FewerFetches

LEMMA TurnPut ==
    ASSUME TurnInv, DataInv, NEW f \in fetches, PutArrives(f) PROVE TurnInv'
<1>1. /\ fetches' = (fetches \ {f}) \cup ChartsAfter(f) /\ f.what = "put"
      /\ UNCHANGED <<table, selected, nextToken, current, loads, upload, edited>>
  BY DEF PutArrives
<1>2. \A g \in ChartsAfter(f) : /\ g.task = "save" /\ g.what \in {"summary", "months"}
                                /\ g.filter = f.filter /\ g.read = {}
  BY DEF ChartsAfter, Request
<1>3. f.task = "save" /\ f.filter = selected
  <2>1. f.task \notin {"effect", "reload", "open", "refresh", "more"}
    BY <1>1 DEF TurnInv, AsksFor
  <2>2. f.task = "save"
    BY <2>1 DEF DataInv, FetchInv, Fetches
  <2> QED
    BY <2>2 DEF TurnInv, SameFilters, Stale
<1>4. \A g \in fetches \ {f} : g.task = "more"
  BY <1>1, <1>3 DEF TurnInv, TakesTurns, SavesAlone
<1>5. TakesTurns' /\ AsksFor' /\ SameFilters' /\ ReadsAreCurrent' /\ SavesAlone'
  <2>1. ~Uploading'
    BY <1>1 DEF TurnInv, TakesTurns, Uploading
  <2>2. TakesTurns'
    BY <1>1, <1>2, <1>4, <2>1 DEF TakesTurns
  <2>3. AsksFor' /\ SavesAlone'
    BY <1>1, <1>2, <1>4 DEF TurnInv, AsksFor, SavesAlone
  <2>4. SameFilters'
    BY <1>1, <1>2, <1>3, <1>4, <2>1 DEF TurnInv, SameFilters, Stale
  <2>5. ReadsAreCurrent'
    BY <1>1, <1>2, <1>4 DEF TurnInv, ReadsAreCurrent
  <2> QED
    BY <2>2, <2>3, <2>4, <2>5
<1> QED
  BY <1>5 DEF TurnInv

LEMMA TurnUpload ==
    ASSUME TurnInv, DataInv, ~Hasty,
           StartUpload \/ StoreUpload \/ UploadAnswered \/ UploadFails
    PROVE  TurnInv'
<1>1. fetches = {}
  BY DEF StartUpload, StoreUpload, UploadAnswered, UploadFails, TurnInv, TakesTurns,
         Uploading, MayActDuring, UnderWay
<1>2. CASE UploadAnswered
  <2>1. ~Uploading' /\ selected' = selected /\ upload.filter = selected
    BY <1>2 DEF UploadAnswered, TurnInv, SameFilters, Uploading
  <2>2. fetches' = Filtered("reload", loads + 1, upload.filter) \cup Unfiltered("refresh")
    BY <1>1, <1>2 DEF UploadAnswered
  <2>3. \A f \in fetches' :
          /\ f.read = {} /\ f.task \in {"reload", "refresh"}
          /\ f.task = "reload" => f.what \in {"page", "summary"} /\ f.filter = selected'
          /\ f.task = "refresh" => f.what \in {"statements", "months"}
    BY <2>1, <2>2 DEF Filtered, Unfiltered, Request
  <2> QED
    BY <1>1, <2>1, <2>3, OnlyNewFetches
<1>3. CASE StartUpload \/ StoreUpload \/ UploadFails
  <2>1. fetches' = {} /\ (Uploading' => upload'.filter = selected')
    BY <1>1, <1>3
    DEF StartUpload, StoreUpload, UploadFails, Uploading, TurnInv, SameFilters, DataInv, TypeOK
  <2> QED
    BY <2>1 DEF TurnInv, TakesTurns, SavesAlone, AsksFor, SameFilters, ReadsAreCurrent
<1> QED
  BY <1>2, <1>3

LEMMA TurnFails ==
    ASSUME TurnInv, DataInv, OrderInv, NEW f \in fetches, Fails(f) PROVE TurnInv'
<1>1. fetches' \subseteq fetches /\ f \notin fetches'
      /\ UNCHANGED <<selected, current, loads, upload, edited, shown, nextToken>>
  BY DEF Fails, LoadFails, MoreFails, SaveFails, Together
<1>2. CASE table' = table
  BY <1>1, <1>2, FewerFetches DEF Listed
<1>3. CASE table' # table
  <2>1. f.what = "put" /\ table' = [table EXCEPT ![f.n] = f.category]
    BY <1>3 DEF Fails, LoadFails, MoreFails, SaveFails
  <2>2. ReadsAreCurrent'
    BY <1>1, <2>1, SavedAboveThePage DEF ReadsAreCurrent
  <2>3. TakesTurns' /\ SavesAlone' /\ AsksFor' /\ SameFilters'
    BY <1>1 DEF TurnInv, TakesTurns, SavesAlone, AsksFor, SameFilters, Uploading, Stale, Listed
  <2> QED
    BY <2>2, <2>3 DEF TurnInv
<1> QED
  BY <1>2, <1>3

\* The answers that only take fetches away.
LEMMA TurnArrives ==
    ASSUME TurnInv, DataInv, NEW f \in fetches,
           FilteredArrives(f) \/ UnfilteredArrives(f) \/ ChartArrives(f)
    PROVE  TurnInv'
<1>1. fetches' \subseteq fetches
      /\ UNCHANGED <<table, selected, current, loads, upload, edited>>
  BY DEF FilteredArrives, UnfilteredArrives, ChartArrives
<1>2. CASE FilteredArrives(f)
  <2>1. \A g \in fetches : g.task \notin {"save", "more"}
    BY <1>2 DEF FilteredArrives, TurnInv, TakesTurns
  <2>2. \A g \in fetches : g.what # "put"
    BY <2>1 DEF TurnInv, AsksFor, DataInv, FetchInv, Fetches
  <2> QED
    BY <1>1, <2>1, <2>2, FewerFetches
<1>3. CASE UnfilteredArrives(f) \/ ChartArrives(f)
  BY <1>1, <1>3, FewerFetches DEF UnfilteredArrives, ChartArrives, Listed
<1> QED
  BY <1>2, <1>3

LEMMA TurnStep ==
    ASSUME TurnInv, DataInv, OrderInv, ~Hasty, [Next]_vars PROVE TurnInv'
<1>1. ASSUME UNCHANGED vars PROVE TurnInv'
  BY <1>1, FewerFetches DEF vars, Listed
<1> QED
  BY <1>1, TurnServe, TurnSelect, TurnListAction, TurnMore, TurnPut, TurnUpload, TurnFails,
     TurnArrives
  DEF Next, Person, Arrives

----------------------------------------------------------------------------
(* What the page shows is the server's, or will be once what is under way  *)
(* has arrived.                                                            *)

\* A load of the filtered data that will replace what the page shows.
Replacing == \E f \in fetches : f.task \in {"effect", "reload"} /\ ~Stale(f)

\* No load will, and none has failed.
Settled == status = "ready" /\ missed = {} /\ ~Uploading /\ ~Replacing

SavingNow(r) == \E f \in fetches : f.what = "put" /\ f.n = r

ChartsInv ==
    /\ Settled =>
         \/ summary = Breakdown(table, selected.month)
         \/ \E f \in fetches : f.task = "save" /\ f.what \in {"put", "summary"}
    /\ missed = {} =>
         \/ months = DOMAIN table
         \/ Uploading
         \/ \E f \in fetches : f.what \in {"put", "months"}
    /\ missed = {} =>
         \/ statements = DOMAIN table
         \/ Uploading
         \/ \E f \in fetches : f.what = "statements"

PagesInv ==
    Settled =>
        /\ \A i \in DOMAIN shown : \A r \in DOMAIN shown[i] :
              InMonth(r, selected.month) /\ (shown[i][r] = table[r] \/ SavingNow(r))
        /\ Listed \ Matching(table, selected) \subseteq edited
        /\ \A r \in Matching(table, selected) \ Listed : nextToken # 0 /\ r < nextToken

CurrentInv == ChartsInv /\ PagesInv

LEMMA CurrentInit ==
    ASSUME Init PROVE CurrentInv
<1>1. status # "ready"
  BY DEF Init
<1> DEFINE g(what) == Request("open", 0, what, AnyTime, 0, "all")
<1>2. \A what \in {"statements", "months"} : g(what).what = what /\ g(what) \in fetches
  BY DEF Init, Unfiltered, Request
<1> HIDE DEF g
<1> QED
  BY <1>1, <1>2 DEF CurrentInv, ChartsInv, PagesInv, Settled

\* A page that will not be replaced after a step was not to be replaced before it either.
LEMMA SettledBefore ==
    ASSUME UNCHANGED <<upload, current>>, missed' = {} => missed = {},
           status' = "ready" => status = "ready",
           \A g \in fetches : g.task \in {"effect", "reload"} /\ ~Stale(g) =>
               \E h \in fetches' : h.task = g.task /\ h.n = g.n
    PROVE  Settled' => Settled
  BY DEF Settled, Replacing, Uploading, Stale

\* A response of a load that was asked for together holds what the table holds.
LEMMA CurrentRead ==
    ASSUME TurnInv, DataInv, NEW f \in fetches, NEW what,
           \A g \in Together(f) : Answered(g),
           \/ f.task \in {"effect", "reload"} /\ what \in {"summary", "page"}
           \/ f.task \in {"open", "refresh"} /\ what \in {"statements", "months"}
    PROVE  TheRead(Awaited(f, what)) = table
<1>1. Awaited(f, what) \in Together(f)
  BY AwaitedFetch DEF DataInv
<1>2. Awaited(f, what) \in fetches /\ Awaited(f, what).task # "more"
      /\ Answered(Awaited(f, what))
  BY <1>1 DEF Together
<1> QED
  BY <1>2 DEF Answered, TheRead, TurnInv, ReadsAreCurrent

\* A row being saved may change in the table: it is listed, and its charts will be refetched.
LEMMA CurrentServe ==
    ASSUME CurrentInv, TurnInv, DataInv, NEW f \in fetches, Serve(f) PROVE CurrentInv'
<1>1. f \in Fetches /\ Sound(f)
  BY DEF DataInv, FetchInv
<1> DEFINE g == [f EXCEPT !.read = {table'}]
<1>2. /\ g.task = f.task /\ g.n = f.n /\ g.what = f.what
      /\ fetches' = (fetches \ {f}) \cup {g}
  BY <1>1 DEF Serve, Fetches
<1> HIDE DEF g
<1>3. UNCHANGED <<selected, shown, nextToken, summary, months, statements, status, savingIds,
                  isLoadingMore, current, loads, upload, edited, missed>>
  BY DEF Serve
<1>4. Settled' => Settled
  BY <1>2, <1>3, SettledBefore
<1>5. \A h \in fetches : \E k \in fetches' : k.task = h.task /\ k.what = h.what /\ k.n = h.n
  BY <1>2
<1>6. CASE f.what # "put"
  <2>1. table' = table
    BY <1>6 DEF Serve
  <2>2. ChartsInv'
    BY <1>3, <1>4, <1>5, <2>1 DEF CurrentInv, ChartsInv, Uploading
  <2>3. PagesInv'
    BY <1>3, <1>4, <1>5, <2>1 DEF CurrentInv, PagesInv, SavingNow, Listed
  <2> QED
    BY <2>2, <2>3 DEF CurrentInv
<1>7. CASE f.what = "put"
  <2>1. DOMAIN table' = DOMAIN table /\ \A r \in DOMAIN table : r # f.n => table'[r] = table[r]
    BY <1>1, <1>7 DEF Serve, DataInv, TypeOK, Tables
  <2>2. g.what = "put" /\ g.task = "save" /\ g.n = f.n /\ g \in fetches'
    BY <1>1, <1>2, <1>7 DEF TurnInv, AsksFor, Fetches
  <2>3. f.n \in Listed /\ f.n \in edited
    BY <1>7 DEF TurnInv, SavesAlone
  <2>4. ChartsInv'
    BY <1>3, <1>5, <2>1, <2>2 DEF CurrentInv, ChartsInv, Uploading
  <2>5. Matching(table', selected) \cup {f.n} = Matching(table, selected) \cup {f.n}
    BY <1>1, <2>1 DEF Matching
  <2>6. \A i \in DOMAIN shown : \A r \in DOMAIN shown[i] : r \in DOMAIN table
    BY DEF DataInv, ListInv
  <2>7. PagesInv'
    <3>1. SUFFICES ASSUME Settled' PROVE PagesInv'
      BY DEF PagesInv
    <3>2. Settled
      BY <1>4, <3>1
    <3>3. \A i \in DOMAIN shown' : \A r \in DOMAIN shown'[i] :
             InMonth(r, selected'.month) /\ (shown'[i][r] = table'[r] \/ SavingNow(r)')
      BY <1>3, <1>5, <2>1, <2>2, <2>6, <3>2 DEF CurrentInv, PagesInv, SavingNow
    <3>4. /\ Listed' \ Matching(table', selected') \subseteq edited'
          /\ \A r \in Matching(table', selected') \ Listed' : nextToken' # 0 /\ r < nextToken'
      BY <1>3, <2>3, <2>5, <3>2 DEF CurrentInv, PagesInv, Listed
    <3> QED
      BY <3>3, <3>4 DEF PagesInv
  <2> QED
    BY <2>4, <2>7 DEF CurrentInv
<1> QED
  BY <1>6, <1>7

\* A change of filters and an upload start or end a load that replaces what is shown.
LEMMA CurrentStarts ==
    ASSUME CurrentInv, TurnInv, DataInv,
           \/ \E filter \in Filters : Select(filter)
           \/ StartUpload \/ StoreUpload \/ UploadAnswered \/ UploadFails
    PROVE  CurrentInv'
<1>1. CASE \E filter \in Filters : Select(filter)
  <2>1. PICK filter \in Filters : Select(filter)
    BY <1>1
  <2>2. /\ fetches' = fetches \cup Filtered("effect", loads + 1, filter)
        /\ current' = loads + 1 /\ UNCHANGED <<table, months, statements, upload, missed>>
    BY <2>1 DEF Select
  <2> DEFINE g == Request("effect", loads + 1, "page", filter, 0, "all")
  <2>3. g.task = "effect" /\ g.n = loads + 1 /\ g \in fetches'
    BY <2>2 DEF Filtered, Request
  <2>4. ~Settled'
    BY <2>2, <2>3 DEF Settled, Replacing, Stale
  <2> QED
    BY <2>2, <2>4 DEF CurrentInv, ChartsInv, PagesInv, Uploading
<1>2. CASE StartUpload \/ StoreUpload
  <2>1. Uploading'
    BY <1>2 DEF StartUpload, StoreUpload, Uploading, DataInv, TypeOK
  <2> QED
    BY <2>1 DEF CurrentInv, ChartsInv, PagesInv, Settled
<1>3. CASE UploadFails
  <2>1. missed' # {}
    BY <1>3 DEF UploadFails
  <2> QED
    BY <2>1 DEF CurrentInv, ChartsInv, PagesInv, Settled
<1>4. CASE UploadAnswered
  <2>1. /\ fetches' = fetches \cup Filtered("reload", loads + 1, upload.filter)
                              \cup Unfiltered("refresh")
    BY <1>4 DEF UploadAnswered
  <2> DEFINE g(what) == Request("refresh", 0, what, AnyTime, 0, "all")
             h == Request("reload", loads + 1, "page", upload.filter, 0, "all")
  <2>2. h.task = "reload" /\ h \in fetches'
    BY <2>1 DEF Filtered, Request
  <2>3. \A what \in {"statements", "months"} : g(what).what = what /\ g(what) \in fetches'
    BY <2>1 DEF Unfiltered, Request
  <2> HIDE DEF g, h
  <2>4. ~Settled'
    BY <2>2 DEF Settled, Replacing, Stale
  <2> QED
    BY <2>3, <2>4 DEF CurrentInv, ChartsInv, PagesInv
<1> QED
  BY <1>1, <1>2, <1>3, <1>4

\* A further page or a save that starts takes nothing away.
LEMMA CurrentListAction ==
    ASSUME CurrentInv,
           \/ LoadMore
           \/ \E r \in Editable, category \in Categories : UpdateCategory(r, category)
    PROVE  CurrentInv'
<1>1. /\ UNCHANGED <<table, selected, shown, nextToken, summary, months, statements, status,
                     current, upload, missed>>
      /\ fetches \subseteq fetches' /\ edited \subseteq edited'
  BY DEF LoadMore, UpdateCategory
<1>2. Settled' => Settled
  BY <1>1, SettledBefore
<1>3. ChartsInv'
  BY <1>1, <1>2 DEF CurrentInv, ChartsInv, Uploading
<1>4. PagesInv'
  BY <1>1, <1>2 DEF CurrentInv, PagesInv, SavingNow, Listed
<1> QED
  BY <1>3, <1>4 DEF CurrentInv

\* The page a load brings leaves out nothing that matches.
LEMMA CurrentFiltered ==
    ASSUME CurrentInv, TurnInv, DataInv, NEW f \in fetches, FilteredArrives(f)
    PROVE  CurrentInv'
<1>1. /\ fetches' = fetches \ Together(f) /\ f.task \in {"effect", "reload"}
      /\ UNCHANGED <<table, selected, months, statements, current, upload, edited, missed>>
  BY DEF FilteredArrives
<1>2. \A g \in Together(f) : g.what \notin {"statements", "months", "put"}
  BY <1>1 DEF Together, TurnInv, AsksFor
<1>3. CASE Stale(f)
  <2>1. UNCHANGED <<summary, shown, nextToken, status>>
    BY <1>3 DEF FilteredArrives
  <2>2. Settled' => Settled
    <3>1. \A g \in Together(f) : Stale(g)
      BY <1>3 DEF Together, Stale
    <3> QED
      BY <1>1, <2>1, <3>1, SettledBefore
  <2>3. \A g \in Together(f) : g.task # "save"
    BY <1>1 DEF Together
  <2>4. ChartsInv'
    BY <1>1, <1>2, <2>1, <2>2, <2>3 DEF CurrentInv, ChartsInv, Uploading
  <2>5. PagesInv'
    BY <1>1, <1>2, <2>1, <2>2 DEF CurrentInv, PagesInv, SavingNow, Listed
  <2> QED
    BY <2>4, <2>5 DEF CurrentInv
<1>4. CASE ~Stale(f)
  <2> DEFINE page == Page(table, selected, 0)
  <2>1. TheRead(Awaited(f, "page")) = table /\ TheRead(Awaited(f, "summary")) = table
    BY <1>1, CurrentRead DEF FilteredArrives
  <2>2. f.filter = selected
    BY <1>1, <1>4 DEF TurnInv, SameFilters
  <2>3. /\ summary' = Breakdown(table, selected.month)
        /\ shown' = <<page>> /\ nextToken' = TokenAfter(page)
    BY <1>4, <2>1, <2>2 DEF FilteredArrives
  <2>4. ChartsInv'
    BY <1>1, <1>2, <2>3 DEF CurrentInv, ChartsInv, Uploading
  <2>5. /\ \A r \in DOMAIN page : r \in Matching(table, selected) /\ page[r] = table[r]
        /\ \A r \in Matching(table, selected) \ DOMAIN page :
             TokenAfter(page) # 0 /\ r < TokenAfter(page)
    <3>1. table \in Tables /\ Following(Matching(table, selected), 0) = Matching(table, selected)
      BY DEF DataInv, TypeOK, Following
    <3> QED
      BY <3>1, PageIsComplete
  <2> HIDE DEF page
  <2>6. DOMAIN shown' = {1} /\ shown'[1] = page /\ Listed' = DOMAIN page
    BY <2>3 DEF Listed
  <2>7. PagesInv'
    BY <1>1, <2>3, <2>5, <2>6 DEF PagesInv, Matching
  <2> QED
    BY <2>4, <2>7 DEF CurrentInv
<1> QED
  BY <1>3, <1>4

LEMMA CurrentUnfiltered ==
    ASSUME CurrentInv, TurnInv, DataInv, NEW f \in fetches, UnfilteredArrives(f)
    PROVE  CurrentInv'
<1>1. /\ fetches' = fetches \ Together(f) /\ f.task \in {"open", "refresh"}
      /\ UNCHANGED <<table, selected, shown, nextToken, summary, status, current, upload,
                     edited, missed>>
  BY DEF UnfilteredArrives
<1>2. months' = DOMAIN table /\ statements' = DOMAIN table
  BY CurrentRead DEF UnfilteredArrives
<1>3. \A g \in Together(f) : g.task = f.task
  BY DEF Together
<1>4. \A g \in Together(f) : g.what \notin {"put", "summary"}
  BY <1>1, <1>3 DEF Together, TurnInv, AsksFor
<1>5. Settled' => Settled
  BY <1>1, <1>3, SettledBefore
<1>6. ChartsInv'
  BY <1>1, <1>2, <1>4, <1>5 DEF CurrentInv, ChartsInv
<1>7. PagesInv'
  BY <1>1, <1>4, <1>5 DEF CurrentInv, PagesInv, SavingNow, Listed
<1> QED
  BY <1>6, <1>7 DEF CurrentInv

\* The next page goes on where the list ends, with what the table now holds.
LEMMA CurrentMore ==
    ASSUME CurrentInv, TurnInv, OrderInv, DataInv, NEW f \in fetches, MoreArrives(f)
    PROVE  CurrentInv'
<1>1. /\ fetches' = fetches \ {f} /\ f.task = "more" /\ Answered(f)
      /\ UNCHANGED <<table, selected, summary, months, statements, status, current, upload,
                     edited, missed>>
  BY DEF MoreArrives
<1>2. /\ f.what = "page" /\ f.after = nextToken /\ nextToken # 0 /\ f.filter = selected
  BY <1>1 DEF TurnInv, AsksFor, SameFilters, Stale, OrderInv, MoreAlone
<1>3. Settled' => Settled
  BY <1>1, SettledBefore
<1>4. ChartsInv'
  BY <1>1, <1>2, <1>3 DEF CurrentInv, ChartsInv, Uploading
<1> DEFINE page == Page(table, selected, nextToken)
<1>5. shown' = Append(shown, page) /\ nextToken' = TokenAfter(page)
  <2>1. TheRead(f) \in f.read
    BY <1>1 DEF Answered, TheRead
  <2>2. /\ DOMAIN TheRead(f) = DOMAIN table
        /\ \A r \in DOMAIN TheRead(f) : r < nextToken => TheRead(f)[r] = table[r]
    BY <1>1, <2>1 DEF TurnInv, ReadsAreCurrent
  <2>3. TheRead(f) \in Tables /\ table \in Tables
    BY <1>1, ReadTable DEF DataInv, FetchInv, TypeOK
  <2>4. Page(TheRead(f), selected, nextToken) = page
    BY <1>2, <2>2, <2>3, SamePage
  <2> QED
    BY <1>2, <2>4 DEF MoreArrives
<1>6. /\ \A r \in DOMAIN page : r \in Matching(table, selected) /\ page[r] = table[r]
      /\ \A r \in Following(Matching(table, selected), nextToken) \ DOMAIN page :
           TokenAfter(page) # 0 /\ r < TokenAfter(page)
      /\ page \in Tables
  BY PageIsComplete, PageRows DEF DataInv, TypeOK
<1> HIDE DEF page
<1>7. /\ DOMAIN shown' = 1 .. Len(shown) + 1 /\ DOMAIN shown = 1 .. Len(shown)
      /\ Len(shown) \in Nat /\ shown'[Len(shown) + 1] = page
      /\ \A i \in 1 .. Len(shown) : shown'[i] = shown[i]
  BY <1>5, <1>6, AppendProperties DEF DataInv, TypeOK
<1>8. \A i \in DOMAIN shown' : i \in DOMAIN shown \/ i = Len(shown) + 1
  BY <1>7
<1>9. Listed' = Listed \cup DOMAIN page
  <2>1. Len(shown) + 1 \in DOMAIN shown' /\ DOMAIN shown \subseteq DOMAIN shown'
    BY <1>7
  <2> QED
    BY <1>7, <1>8, <2>1 DEF Listed
<1>10. \A r : SavingNow(r) => SavingNow(r)'
  BY <1>1, <1>2 DEF SavingNow
<1>11. PagesInv'
  <2>1. SUFFICES ASSUME Settled' PROVE PagesInv'
    BY DEF PagesInv
  <2>2. Settled
    BY <1>3, <2>1
  <2>3. \A i \in DOMAIN shown' : \A r \in DOMAIN shown'[i] :
           InMonth(r, selected'.month) /\ (shown'[i][r] = table'[r] \/ SavingNow(r)')
    BY <1>1, <1>6, <1>7, <1>8, <1>10, <2>2 DEF CurrentInv, PagesInv, Matching
  <2>4. Listed' \ Matching(table', selected') \subseteq edited'
    BY <1>1, <1>6, <1>9, <2>2 DEF CurrentInv, PagesInv
  <2>5. \A r \in Matching(table', selected') \ Listed' : nextToken' # 0 /\ r < nextToken'
    <3>1. \A r \in Matching(table, selected) \ Listed : r < nextToken
      BY <2>2 DEF CurrentInv, PagesInv
    <3>2. \A r \in Matching(table, selected) \ Listed' :
             r \in Following(Matching(table, selected), nextToken) \ DOMAIN page
      BY <1>9, <3>1 DEF Following
    <3> QED
      BY <1>1, <1>5, <1>6, <3>2
  <2> QED
    BY <2>3, <2>4, <2>5 DEF PagesInv
<1> QED
  BY <1>4, <1>11 DEF CurrentInv

\* The saved row is shown with its new category, and the charts are asked for.
LEMMA CurrentPut ==
    ASSUME CurrentInv, TurnInv, DataInv, NEW f \in fetches, PutArrives(f) PROVE CurrentInv'
<1>1. /\ fetches' = (fetches \ {f}) \cup ChartsAfter(f) /\ f.what = "put" /\ Answered(f)
      /\ UNCHANGED <<table, selected, nextToken, summary, months, statements, status, current,
                     upload, edited, missed>>
  BY DEF PutArrives
<1>2. f.task = "save"
  BY <1>1 DEF TurnInv, AsksFor, DataInv, FetchInv, Fetches
<1>3. TheRead(f) = table
  BY <1>1, <1>2 DEF Answered, TheRead, TurnInv, ReadsAreCurrent
<1>4. Settled' => Settled
  BY <1>1, <1>2, SettledBefore
<1> DEFINE g(what) == Request("save", f.n, what, f.filter, 0, "all")
<1>5. \A what \in {"summary", "months"} :
        g(what).task = "save" /\ g(what).what = what /\ g(what) \in fetches'
  BY <1>1 DEF ChartsAfter, Request
<1> HIDE DEF g
<1>6. ChartsInv'
  BY <1>1, <1>4, <1>5 DEF CurrentInv, ChartsInv, Uploading
<1>7. /\ DOMAIN shown' = DOMAIN shown
      /\ \A i \in DOMAIN shown : DOMAIN shown'[i] = DOMAIN shown[i]
      /\ \A i \in DOMAIN shown : \A r \in DOMAIN shown[i] :
           shown'[i][r] = IF r = f.n THEN table[r] ELSE shown[i][r]
  BY <1>3 DEF PutArrives
<1>8. \A r : SavingNow(r) => r = f.n \/ SavingNow(r)'
  BY <1>1 DEF SavingNow
<1>9. PagesInv'
  <2>1. Listed' = Listed
    BY <1>7 DEF Listed
  <2> QED
    BY <1>1, <1>4, <1>7, <1>8, <2>1 DEF CurrentInv, PagesInv
<1> QED
  BY <1>6, <1>9 DEF CurrentInv

LEMMA CurrentChart ==
    ASSUME CurrentInv, TurnInv, DataInv, NEW f \in fetches, ChartArrives(f) PROVE CurrentInv'
<1>1. /\ fetches' = fetches \ {f} /\ f.task = "save" /\ f.what # "put" /\ Answered(f)
      /\ UNCHANGED <<table, selected, shown, nextToken, statements, status, current, upload,
                     edited, missed>>
  BY DEF ChartArrives
<1>2. TheRead(f) = table /\ f.filter = selected /\ f.what \in {"summary", "months"}
  BY <1>1 DEF Answered, TheRead, TurnInv, ReadsAreCurrent, SameFilters, AsksFor, Stale
<1>3. Settled' => Settled
  BY <1>1, SettledBefore
<1>4. CASE f.what = "summary"
  BY <1>1, <1>2, <1>3, <1>4 DEF ChartArrives, CurrentInv, ChartsInv, PagesInv, SavingNow, Listed,
     Uploading
<1>5. CASE f.what = "months"
  BY <1>1, <1>2, <1>3, <1>5 DEF ChartArrives, CurrentInv, ChartsInv, PagesInv, SavingNow, Listed,
     Uploading
<1> QED
  BY <1>2, <1>4, <1>5

\* What fails without the page saying so is either about rows it has, or is remembered.
LEMMA CurrentFails ==
    ASSUME CurrentInv, TurnInv, NEW f \in fetches, Fails(f) PROVE CurrentInv'
<1>1. CASE missed' # {}
  BY <1>1 DEF CurrentInv, ChartsInv, PagesInv, Settled
<1>2. CASE missed' = {}
  <2>1. f.task \in {"effect", "reload", "more"} /\ missed = {} /\ fetches' \subseteq fetches
    BY <1>2 DEF Fails, LoadFails, MoreFails, SaveFails
  <2>2. /\ UNCHANGED <<table, selected, shown, nextToken, summary, months, statements, current,
                       upload, edited, missed>>
        /\ \A g \in fetches \ fetches' : (g.task = f.task /\ g.n = f.n) \/ g = f
    BY <1>2 DEF Fails, LoadFails, MoreFails, SaveFails, Together
  <2>3. \A g \in fetches \ fetches' : g.what \in {"page", "summary"} /\ g.task # "save"
    BY <2>1, <2>2 DEF TurnInv, AsksFor
  <2>4. Settled' => Settled
    <3>1. \/ status' # "ready"
          \/ (f.task = "more" \/ Stale(f)) /\ status' = status
      BY <1>2, <2>1 DEF Fails, LoadFails, MoreFails, SaveFails
    <3>2. CASE status' # "ready"
      BY <3>2 DEF Settled
    <3>3. CASE f.task = "more" /\ status' = status
      BY <2>2, <3>3, SettledBefore
    <3>4. CASE Stale(f) /\ status' = status
      <4>1. \A g \in fetches \ fetches' : Stale(g)
        BY <2>2, <3>4 DEF Stale
      <4> QED
        BY <2>2, <3>4, <4>1, SettledBefore
    <3> QED
      BY <3>1, <3>2, <3>3, <3>4
  <2>5. ChartsInv'
    BY <2>2, <2>3, <2>4 DEF CurrentInv, ChartsInv, Uploading
  <2>6. PagesInv'
    BY <2>2, <2>3, <2>4 DEF CurrentInv, PagesInv, SavingNow, Listed
  <2> QED
    BY <2>5, <2>6 DEF CurrentInv
<1> QED
  BY <1>1, <1>2

LEMMA CurrentStep ==
    ASSUME CurrentInv, TurnInv, OrderInv, DataInv, [Next]_vars PROVE CurrentInv'
<1>1. ASSUME UNCHANGED vars PROVE CurrentInv'
  <2>1. Settled' => Settled
    BY <1>1, SettledBefore DEF vars
  <2> QED
    BY <1>1, <2>1 DEF vars, CurrentInv, ChartsInv, PagesInv, SavingNow, Listed, Uploading
<1> QED
  BY <1>1, CurrentServe, CurrentStarts, CurrentListAction, CurrentFiltered, CurrentUnfiltered,
     CurrentMore, CurrentPut, CurrentChart, CurrentFails
  DEF Next, Person, Arrives

PatientInv == DataInv /\ OrderInv /\ TurnInv /\ CurrentInv

LEMMA Patience ==
    ASSUME ~Hasty PROVE Spec => []PatientInv
<1>1. Init => OrderInv
  BY OrderInit
<1>2. Init => PatientInv
  BY <1>1, DataInvInit, TurnInit, CurrentInit DEF PatientInv
<1>3. PatientInv /\ [Next]_vars => PatientInv'
  BY DataInvStep, OrderStep, TurnStep, CurrentStep DEF PatientInv
<1> QED
  BY <1>2, <1>3, PTL DEF Spec

\* A person who waits for what they started sees, once nothing is under way and nothing was
\* missed, the rows the server would list, however many pages were loaded, whatever was
\* recategorized or uploaded, and in whatever order the answers came.
THEOREM ListIsCurrent ==
    ASSUME ~Hasty PROVE Spec => []ListIsTheServers
<1>1. PatientInv => ListIsTheServers
  <2> SUFFICES ASSUME PatientInv, Quiet, status = "ready", missed = {} PROVE ListIsTheServers
    BY DEF ListIsTheServers
  <2>1. fetches = {} /\ ~Uploading
    BY DEF Quiet, UnderWay
  <2>2. Settled
    BY <2>1 DEF Settled, Replacing
  <2> QED
    BY <2>1, <2>2 DEF PatientInv, CurrentInv, PagesInv, SavingNow, ListIsTheServers
<1> QED
  BY <1>1, Patience, PTL

\* So do the charts: they count the table as it is, for the month that is selected.
THEOREM ChartsCatchUp ==
    ASSUME ~Hasty PROVE Spec => []ChartsAreCurrent
<1>1. PatientInv => ChartsAreCurrent
  <2> SUFFICES ASSUME PatientInv, Quiet, status = "ready", missed = {} PROVE ChartsAreCurrent
    BY DEF ChartsAreCurrent
  <2>1. fetches = {} /\ ~Uploading
    BY DEF Quiet, UnderWay
  <2>2. Settled
    BY <2>1 DEF Settled, Replacing
  <2> QED
    BY <2>1, <2>2 DEF PatientInv, CurrentInv, ChartsInv, ChartsAreCurrent
<1> QED
  BY <1>1, Patience, PTL

=============================================================================
