------------------------------ MODULE Dashboard ------------------------------
(***************************************************************************)
(* The single-page client's copy of the server's data: the hook            *)
(* useFinanceData, the fetches it has under way, and the person who picks  *)
(* filters, loads more rows, recategorizes rows and uploads a statement.   *)
(*                                                                         *)
(* Fetches are served and answered in any order.  A fetch keeps the        *)
(* transactions table as the server read it when it served the fetch; what *)
(* the response holds is computed from that snapshot.  A transaction is    *)
(* its position in the order (transaction_date, id): newer is greater.     *)
(***************************************************************************)
EXTENDS Naturals, Sequences, FiniteSetsExt

CONSTANTS
    Rows,        \* every transaction there may ever be
    Stored,      \* those in the table when the page opens
    MonthOf,     \* the calendar month of each
    CategoryOf,  \* the category each is inserted with
    Categories,
    PageSize,
    Editable,    \* the rows the person may recategorize, each at most once
    MaxLoads,    \* how often the filtered data may be requested
    Hasty,       \* does the person act while something they started is under way?
    MayFail      \* may a fetch fail or time out?

ASSUME RowsAssumption ==
    /\ Rows \subseteq Nat \ {0} /\ IsFiniteSet(Rows)
    /\ Stored \subseteq Rows /\ Editable \subseteq Rows
    /\ MonthOf \in [Rows -> STRING] /\ CategoryOf \in [Rows -> Categories]
    /\ \A r \in Rows : MonthOf[r] # "all"
    /\ "all" \notin Categories
ASSUME SizesAssumption == PageSize \in Nat \ {0} /\ MaxLoads \in Nat \ {0}
ASSUME SwitchesAssumption == Hasty \in BOOLEAN /\ MayFail \in BOOLEAN

VARIABLES
    table,      \* the server's transactions: the category of each row stored so far
    selected,   \* selectedMonth and selectedCategory, "all" for null
    shown,      \* transactions: the pages listed, each giving its rows their category
    nextToken,  \* the row the next page starts after, 0 when there is none
    summary,    \* categorySummary: the month asked for, the rows counted under each category
    months,     \* the rows counted in the monthly totals
    statements, \* the rows whose statements are listed
    status,
    savingIds,
    isLoadingMore,
    fetches,    \* requests sent and not yet handled
    current,    \* the load of the last effect run: any older one is cancelled
    loads,      \* filtered loads so far
    upload,     \* the statement upload, with the filters its onUploaded has captured
    edited,     \* rows the person has recategorized
    missed      \* what the client has not heard of: answers to writes, refetched charts and
                \* lists that failed

vars == <<table, selected, shown, nextToken, summary, months, statements, status,
          savingIds, isLoadingMore, fetches, current, loads, upload, edited, missed>>

MonthNames == {MonthOf[r] : r \in Rows}
Filters == [month : MonthNames \cup {"all"}, category : Categories \cup {"all"}]
AnyTime == [month |-> "all", category |-> "all"]

\* Transactions tables, whole or in part.
Tables == UNION {[S -> Categories] : S \in SUBSET Rows}

\* "effect", "reload": the filtered data, n tells the loads apart.  "open", "refresh": the
\* unfiltered data.  "more": a further page.  "save": recategorizing row n.
Fetches ==
    [task : {"effect", "reload", "open", "refresh", "more", "save"}, n : Nat,
     what : {"page", "summary", "months", "statements", "put"},
     filter : Filters, after : Rows \cup {0}, category : Categories \cup {"all"},
     read : SUBSET Tables]

TypeOK ==
    /\ table \in Tables
    /\ selected \in Filters
    /\ shown \in Seq(Tables)
    /\ nextToken \in Rows \cup {0}
    /\ summary \in [month : MonthNames \cup {"all", "none"}, counted : Tables]
    /\ months \subseteq Rows /\ statements \subseteq Rows
    /\ status \in {"loading", "ready", "error"}
    /\ savingIds \subseteq Editable
    /\ isLoadingMore \in BOOLEAN
    /\ fetches \subseteq Fetches
    /\ loads \in 1 .. MaxLoads /\ current \in 1 .. loads
    /\ upload \in [at : {"none", "sent", "stored", "over"}, filter : Filters]
    /\ edited \subseteq Editable
    /\ missed \subseteq {"open", "refresh", "save", "upload"}

----------------------------------------------------------------------------
(* Plausible mistakes: each stands for one of the definitions below when a *)
(* property is tried against a variant of the code.                        *)

FollowingInclusive(S, after) == {r \in S : after = 0 \/ r <= after}

\* A position above the page, for a cursor that includes its row.
TokenAbove(page) ==
    IF Cardinality(DOMAIN page) = PageSize THEN Max(DOMAIN page) + 1 ELSE 0

\* The cleanup of the effect is gone.
NeverStale(f) == FALSE

\* The charts are refetched along with the change, not after it.
ChartsBefore(f) == {}

\* A finally that only runs when nothing was thrown.
KeepSaving(r) == savingIds

----------------------------------------------------------------------------
(* The server.                                                             *)

InMonth(r, month) == month = "all" \/ MonthOf[r] = month

\* _apply_filters.
Matching(t, filter) ==
    {r \in DOMAIN t : /\ InMonth(r, filter.month)
                      /\ filter.category = "all" \/ t[r] = filter.category}

\* Rows after the cursor, strictly earlier in the order than its row.
Following(S, after) == {r \in S : after = 0 \/ r < after}

\* The newest rows of a set, PageSize of them at most.
Newest(S) == {r \in S : Cardinality({q \in S : q > r}) < PageSize}

\* list_page, and the token it gives: a full page means there may be more.
Page(t, filter, after) == Restrict(t, Newest(Following(Matching(t, filter), after)))

TokenAfter(page) ==
    IF Cardinality(DOMAIN page) = PageSize THEN Min(DOMAIN page) ELSE 0

\* category_totals: what counts under each category, month by month.
Breakdown(t, month) ==
    [month |-> month, counted |-> Restrict(t, {r \in DOMAIN t : InMonth(r, month)})]

----------------------------------------------------------------------------
(* The fetches.                                                            *)

Request(task, n, what, filter, after, category) ==
    [task |-> task, n |-> n, what |-> what, filter |-> filter, after |-> after,
     category |-> category, read |-> {}]

\* loadFiltered and loadUnfiltered each wait for all of their fetches (Promise.all).
Filtered(task, n, filter) ==
    {Request(task, n, what, filter, 0, "all") : what \in {"summary", "page"}}
Unfiltered(task) ==
    {Request(task, 0, what, AnyTime, 0, "all") : what \in {"statements", "months"}}

\* The fetches that the same call awaits.
Together(f) == {g \in fetches : g.task = f.task /\ g.n = f.n}
Answered(f) == f.read # {}
TheRead(f) == CHOOSE t \in f.read : TRUE
Awaited(f, what) == CHOOSE g \in Together(f) : g.what = what

\* isStale(): the effect that asked has been cleaned up since.
Stale(f) == f.task = "effect" /\ f.n # current

\* What is under way, and whether a person who is not hasty starts something else then.
\* Such a person picks the next filter while the last one's rows are loading, and loads
\* more rows while one is being saved or the other way round, but nothing beyond that.
Uploading == upload.at \in {"sent", "stored"}
UnderWay == {f.task : f \in fetches} \cup (IF Uploading THEN {"upload"} ELSE {})
Quiet == UnderWay = {}
MayActDuring(tasks) == Hasty \/ UnderWay \subseteq tasks

Init ==
    /\ table = Restrict(CategoryOf, Stored)
    /\ selected = AnyTime
    /\ shown = <<>>
    /\ nextToken = 0
    /\ summary = [month |-> "none", counted |-> <<>>]
    /\ months = {} /\ statements = {}
    /\ status = "loading"
    /\ savingIds = {} /\ isLoadingMore = FALSE
    /\ fetches = Filtered("effect", 1, AnyTime) \cup Unfiltered("open")
    /\ current = 1 /\ loads = 1
    /\ upload = [at |-> "none", filter |-> AnyTime]
    /\ edited = {} /\ missed = {}

\* The server serves a request: list_page, the totals and find_by_id read, set_category
\* writes first and answers with the row it has written.
Serve(f) ==
    /\ f \in fetches /\ ~Answered(f)
    /\ table' = IF f.what = "put" THEN [table EXCEPT ![f.n] = f.category] ELSE table
    /\ fetches' = (fetches \ {f}) \cup {[f EXCEPT !.read = {table'}]}
    /\ UNCHANGED <<selected, shown, nextToken, summary, months, statements, status,
                   savingIds, isLoadingMore, current, loads, upload, edited, missed>>

----------------------------------------------------------------------------
(* The filters.                                                            *)

\* What the period filter of the top bar offers, and what a bar of the category chart, or
\* the button that clears it, does.
PickMonth(filter) ==
    /\ months # {}
    /\ filter.month \in {MonthOf[r] : r \in months} \cup {"all"}
    /\ filter.category = selected.category

PickCategory(filter) ==
    /\ status = "ready" /\ statements # {} /\ months # {}
    /\ filter.category \in Range(summary.counted) \cup {"all"}
    /\ filter.month = selected.month

\* A load is kept back for the reload that ends an upload.
LoadsLeft == MaxLoads - loads - (IF Uploading THEN 1 ELSE 0)

\* setSelectedMonth or setSelectedCategory: the effect's cleanup cancels the load under
\* way and the effect starts another.
Select(filter) ==
    /\ MayActDuring({"effect", "open"})
    /\ filter # selected
    /\ PickMonth(filter) \/ PickCategory(filter)
    /\ LoadsLeft > 0
    /\ selected' = filter
    /\ loads' = loads + 1 /\ current' = loads + 1
    /\ fetches' = fetches \cup Filtered("effect", loads + 1, filter)
    /\ UNCHANGED <<table, shown, nextToken, summary, months, statements, status,
                   savingIds, isLoadingMore, upload, edited, missed>>

\* loadFiltered: both responses are there.
FilteredArrives(f) ==
    /\ f \in fetches /\ f.task \in {"effect", "reload"}
    /\ \A g \in Together(f) : Answered(g)
    /\ fetches' = fetches \ Together(f)
    /\ IF Stale(f)
       THEN UNCHANGED <<summary, shown, nextToken, status>>
       ELSE LET page == Page(TheRead(Awaited(f, "page")), f.filter, 0) IN
            /\ summary' = Breakdown(TheRead(Awaited(f, "summary")), f.filter.month)
            /\ shown' = <<page>>
            /\ nextToken' = TokenAfter(page)
            /\ status' = "ready"
    /\ UNCHANGED <<table, selected, months, statements, savingIds, isLoadingMore,
                   current, loads, upload, edited, missed>>

\* loadUnfiltered: the shell that asked is never unmounted.
UnfilteredArrives(f) ==
    /\ f \in fetches /\ f.task \in {"open", "refresh"}
    /\ \A g \in Together(f) : Answered(g)
    /\ fetches' = fetches \ Together(f)
    /\ statements' = DOMAIN TheRead(Awaited(f, "statements"))
    /\ months' = DOMAIN TheRead(Awaited(f, "months"))
    /\ UNCHANGED <<table, selected, shown, nextToken, summary, status, savingIds,
                   isLoadingMore, current, loads, upload, edited, missed>>

\* Either load gives up at its first failure and reports it, unless it is stale.
LoadFails(f) ==
    /\ MayFail
    /\ f \in fetches /\ f.task \in {"effect", "reload", "open", "refresh"}
    /\ fetches' = fetches \ Together(f)
    /\ status' = IF Stale(f) THEN status ELSE "error"
    /\ missed' = IF f.task \in {"open", "refresh"} THEN missed \cup {f.task} ELSE missed
    /\ UNCHANGED <<table, selected, shown, nextToken, summary, months, statements,
                   savingIds, isLoadingMore, current, loads, upload, edited>>

----------------------------------------------------------------------------
(* Loading more.                                                           *)

\* loadMore: the token is a position only, the filters are sent again.
LoadMore ==
    /\ MayActDuring({"save"})
    /\ status = "ready" /\ nextToken # 0 /\ ~isLoadingMore
    /\ isLoadingMore' = TRUE
    /\ fetches' = fetches \cup {Request("more", 0, "page", selected, nextToken, "all")}
    /\ UNCHANGED <<table, selected, shown, nextToken, summary, months, statements, status,
                   savingIds, current, loads, upload, edited, missed>>

MoreArrives(f) ==
    /\ f \in fetches /\ f.task = "more" /\ Answered(f)
    /\ fetches' = fetches \ {f}
    /\ LET page == Page(TheRead(f), f.filter, f.after) IN
       /\ shown' = Append(shown, page)
       /\ nextToken' = TokenAfter(page)
    /\ isLoadingMore' = FALSE
    /\ UNCHANGED <<table, selected, summary, months, statements, status, savingIds,
                   current, loads, upload, edited, missed>>

\* The message is stored, and the view that stays does not show it.
MoreFails(f) ==
    /\ MayFail
    /\ f \in fetches /\ f.task = "more"
    /\ fetches' = fetches \ {f}
    /\ isLoadingMore' = FALSE
    /\ UNCHANGED <<table, selected, shown, nextToken, summary, months, statements, status,
                   savingIds, current, loads, upload, edited, missed>>

----------------------------------------------------------------------------
(* Recategorizing a row.                                                   *)

Listed == UNION {DOMAIN shown[i] : i \in DOMAIN shown}

\* setSavingIds in the finally of updateCategory.
NotSaving(r) == savingIds \ {r}

\* updateCategory: another category is picked in the row's select, disabled from here on.
UpdateCategory(r, category) ==
    /\ MayActDuring({"more"})
    /\ status = "ready" /\ r \in Listed \ (savingIds \cup edited)
    /\ \E i \in DOMAIN shown : r \in DOMAIN shown[i] /\ shown[i][r] # category
    /\ savingIds' = savingIds \cup {r}
    /\ edited' = edited \cup {r}
    /\ fetches' = fetches \cup {Request("save", r, "put", selected, 0, category)}
    /\ UNCHANGED <<table, selected, shown, nextToken, summary, months, statements, status,
                   isLoadingMore, current, loads, upload, missed>>

\* What updateCategory fetches once the change is saved, for the month selected when it began.
ChartsAfter(f) ==
    {Request("save", f.n, what, f.filter, 0, "all") : what \in {"summary", "months"}}

\* The row is replaced wherever it is listed, and the charts have to catch up.
PutArrives(f) ==
    /\ f \in fetches /\ f.what = "put" /\ Answered(f)
    /\ shown' = [i \in DOMAIN shown |->
                   [r \in DOMAIN shown[i] |-> IF r = f.n THEN TheRead(f)[r] ELSE shown[i][r]]]
    /\ fetches' = (fetches \ {f}) \cup ChartsAfter(f)
    /\ savingIds' = IF ChartsAfter(f) = {} THEN NotSaving(f.n) ELSE savingIds
    /\ UNCHANGED <<table, selected, nextToken, summary, months, statements, status,
                   isLoadingMore, current, loads, upload, edited, missed>>

\* Each chart is replaced as soon as its own response is there; the second of them ends
\* the save.
ChartArrives(f) ==
    /\ f \in fetches /\ f.task = "save" /\ f.what # "put" /\ Answered(f)
    /\ fetches' = fetches \ {f}
    /\ IF f.what = "summary"
       THEN summary' = Breakdown(TheRead(f), f.filter.month) /\ UNCHANGED months
       ELSE months' = DOMAIN TheRead(f) /\ UNCHANGED summary
    /\ savingIds' = IF Together(f) = {f} THEN NotSaving(f.n) ELSE savingIds
    /\ UNCHANGED <<table, selected, shown, nextToken, statements, status, isLoadingMore,
                   current, loads, upload, edited, missed>>

\* A PUT that times out may have been served, or may still be; a chart that does not come
\* back leaves the other one to arrive.
SaveFails(f) ==
    /\ MayFail
    /\ f \in fetches /\ f.task = "save"
    /\ table' \in IF f.what = "put" /\ ~Answered(f)
                  THEN {table, [table EXCEPT ![f.n] = f.category]} ELSE {table}
    /\ fetches' = fetches \ {f}
    /\ savingIds' = NotSaving(f.n)
    /\ missed' = missed \cup {"save"}
    /\ UNCHANGED <<selected, shown, nextToken, summary, months, statements, status,
                   isLoadingMore, current, loads, upload, edited>>

----------------------------------------------------------------------------
(* Uploading a statement.                                                  *)

\* handleSubmit keeps the reload of the render it was called from, filters included.
StartUpload ==
    /\ MayActDuring({})
    /\ status = "ready" /\ upload.at = "none"
    /\ LoadsLeft > 0
    /\ upload' = [at |-> "sent", filter |-> selected]
    /\ UNCHANGED <<table, selected, shown, nextToken, summary, months, statements, status,
                   savingIds, isLoadingMore, fetches, current, loads, edited, missed>>

\* The ingestion graph commits the statement's transactions.
TableWithUpload == [r \in Rows |-> IF r \in DOMAIN table THEN table[r] ELSE CategoryOf[r]]

StoreUpload ==
    /\ upload.at = "sent"
    /\ table' = TableWithUpload
    /\ upload' = [upload EXCEPT !.at = "stored"]
    /\ UNCHANGED <<selected, shown, nextToken, summary, months, statements, status,
                   savingIds, isLoadingMore, fetches, current, loads, edited, missed>>

\* onUploaded: reload fetches everything again and never is stale.
UploadAnswered ==
    /\ upload.at = "stored"
    /\ upload' = [upload EXCEPT !.at = "over"]
    /\ loads' = loads + 1
    /\ fetches' = fetches \cup Filtered("reload", loads + 1, upload.filter)
                          \cup Unfiltered("refresh")
    /\ UNCHANGED <<table, selected, shown, nextToken, summary, months, statements, status,
                   savingIds, isLoadingMore, current, edited, missed>>

\* The request times out: nothing is reloaded, stored or not.
UploadFails ==
    /\ MayFail
    /\ Uploading
    /\ table' \in {table, TableWithUpload}
    /\ upload' = [upload EXCEPT !.at = "over"]
    /\ missed' = missed \cup {"upload"}
    /\ UNCHANGED <<selected, shown, nextToken, summary, months, statements, status,
                   savingIds, isLoadingMore, fetches, current, loads, edited>>

----------------------------------------------------------------------------

Arrives(f) ==
    FilteredArrives(f) \/ UnfilteredArrives(f) \/ MoreArrives(f) \/ PutArrives(f)
    \/ ChartArrives(f)

Fails(f) == LoadFails(f) \/ MoreFails(f) \/ SaveFails(f)

Person ==
    \/ \E filter \in Filters : Select(filter)
    \/ LoadMore
    \/ \E r \in Editable, category \in Categories : UpdateCategory(r, category)
    \/ StartUpload

Next ==
    \/ Person
    \/ \E f \in fetches : Serve(f) \/ Arrives(f) \/ Fails(f)
    \/ StoreUpload \/ UploadAnswered \/ UploadFails

Spec == Init /\ [][Next]_vars

\* Every request is aborted after REQUEST_TIMEOUT_MS: it is answered or it fails, whatever
\* the others do.  Nobody has to click.
Fairness ==
    /\ \A task \in {"effect", "reload", "open", "refresh", "more", "save"} :
           WF_vars(\E f \in fetches : f.task = task /\ (Serve(f) \/ Arrives(f) \/ Fails(f)))
    /\ WF_vars(StoreUpload \/ UploadAnswered \/ UploadFails)

FairSpec == Spec /\ Fairness

----------------------------------------------------------------------------
(* What the page guarantees a person who waits for what they started.      *)

\* The list is in the server's order and repeats no row, page after page: neither an
\* insertion between two pages nor a change of filters breaks the cursor.
ListedOnceInOrder ==
    \A i, j \in DOMAIN shown :
        i < j => \A r \in DOMAIN shown[i], q \in DOMAIN shown[j] : r > q

\* Once nothing is under way, the list is the server's: the rows that match the filters
\* the page shows as selected, with the categories they are stored with, none left out
\* above the position where the next page starts.  A row just recategorized may stay.
ListIsTheServers ==
    Quiet /\ status = "ready" /\ missed = {} =>
        /\ \A i \in DOMAIN shown : \A r \in DOMAIN shown[i] :
              InMonth(r, selected.month) /\ shown[i][r] = table[r]
        /\ Listed \ Matching(table, selected) \subseteq edited
        /\ \A r \in Matching(table, selected) \ Listed : nextToken # 0 /\ r < nextToken

\* Once nothing is under way, the charts count what the table holds, recategorized and
\* uploaded rows included, for the month that is selected.
ChartsAreCurrent ==
    Quiet /\ status = "ready" /\ missed = {} =>
        /\ summary = Breakdown(table, selected.month)
        /\ months = DOMAIN table /\ statements = DOMAIN table

----------------------------------------------------------------------------
(* What it guarantees any person, whichever requests fail.                 *)

\* No spinner stays: the page stops loading, "Loading..." goes, and a row that is being
\* saved becomes editable again, though requests time out.
SpinnersStop ==
    /\ <>(status # "loading")
    /\ isLoadingMore ~> ~isLoadingMore
    /\ \A r \in Editable : r \in savingIds ~> r \notin savingIds

----------------------------------------------------------------------------
(* What comments of the client say, and the code does not keep to.         *)

\* useFinanceData: "Recategorizing changes the breakdown, so the charts must catch up."  Each
\* row locks only its own select, so two saves can be under way, and their breakdowns cross.
ChartsCatchUpAlways ==
    Quiet /\ status = "ready" => summary = Breakdown(table, selected.month)

=============================================================================
