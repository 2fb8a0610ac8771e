--------------------------- MODULE StatementReads ---------------------------
(***************************************************************************)
(* What the server answers about the rows a statement left in the table:   *)
(* the transaction list with its pages and filters, the chat agent's       *)
(* search, the dashboard's totals and the totals the agent's tools quote.  *)
(* They are different queries over the same rows, each with its own idea   *)
(* of what a month is.                                                     *)
(*                                                                         *)
(* Reads change nothing, so they are operators on the state of             *)
(* StatementRows.  A row's id is its place in the table; dates are days    *)
(* counted from the first day of a year 0 whose months are equally long.   *)
(***************************************************************************)
EXTENDS StatementRows

CONSTANTS
    DaysPerMonth,
    MaxPageSize,    \* MAX_PAGE_SIZE of the transactions route
    MaxLimit        \* _MAX_LIMIT of the search tool

ASSUME CalendarAssumption == DaysPerMonth \in Nat \ {0}
ASSUME LimitsAssumption == MaxPageSize \in Nat \ {0} /\ MaxLimit \in Nat \ {0}
\* Absence is neither a cursor nor a month.
ASSUME NoneAssumption ==
    None \notin [date : Nat, id : Nat \ {0}] \cup [year : Int, month : 1 .. 12]

----------------------------------------------------------------------------
(* Plausible mistakes, for trying the properties against.                  *)

\* The cursor keeps the date of the last row only.
AfterCursorByDate(i, cursor) == cursor # None => table[i].date < cursor.date

\* The boundary belongs to two months.
DayBetween(date, first, last) == first <= date /\ date <= last

----------------------------------------------------------------------------
(* Months. *)

FirstDay(year, month) == (12 * year + month - 1) * DaysPerMonth

StartDate(m) == FirstDay(m.year, m.month)

EndDateExclusive(m) ==
    IF m.month = 12 THEN FirstDay(m.year + 1, 1) ELSE FirstDay(m.year, m.month + 1)

\* date_trunc('month', date).
MonthStart(date) == (date \div DaysPerMonth) * DaysPerMonth

\* Month(year=month_start.year, month=month_start.month).
MonthOf(start) ==
    LET months == start \div DaysPerMonth
    IN [year |-> months \div 12, month |-> (months % 12) + 1]

----------------------------------------------------------------------------
(* The list and the search. *)

\* An exception that no handler expects, such as a response its schema rejects.
InternalError == [status |-> 500]

DayIn(date, first, last) == first <= date /\ date < last

\* _apply_filters; None is a filter that is not set.
Filtered(month, category) ==
    {i \in DOMAIN table :
        /\ month # None => DayIn(table[i].date, StartDate(month), EndDateExclusive(month))
        /\ category # None => table[i].category = category}

Position(i) == [date |-> table[i].date, id |-> i]

\* ORDER BY transaction_date DESC, id DESC LIMIT.
NewestFirst(ids, limit) ==
    LET newer(i) == {j \in ids : \/ table[j].date > table[i].date
                                 \/ table[j].date = table[i].date /\ j > i}
    IN [n \in 1 .. Min({limit, Cardinality(ids)}) |->
          CHOOSE i \in ids : Cardinality(newer(i)) = n - 1]

\* The row-value comparison with the cursor.
AfterCursor(i, cursor) ==
    cursor # None => \/ table[i].date < cursor.date
                     \/ table[i].date = cursor.date /\ i < cursor.id

ListPage(limit, cursor, month, category) ==
    NewestFirst({i \in Filtered(month, category) : AfterCursor(i, cursor)}, limit)

\* A full page means there may be more.
NextToken(page, size) == IF Len(page) = size THEN Position(Last(page)) ELSE None

\* GET /transactions.  A response holds numbers only: one row without makes the page fail.
ListTransactions(asked_size, token, month, category) ==
    LET size == Min({asked_size, MaxPageSize})
        page == ListPage(size, token, month, category)
    IN IF \E i \in Range(page) : table[i].amount = NotANumber THEN InternalError
       ELSE [status |-> 200, items |-> page, next |-> NextToken(page, size)]

\* What a client gets that follows the tokens with the same filters, to the end or to a page
\* that fails.
PagesTo(size, month, category) ==
    LET from[token \in {None} \cup {Position(i) : i \in DOMAIN table}] ==
            LET answer == ListTransactions(size, token, month, category)
            IN IF answer = InternalError THEN <<>>
               ELSE answer.items \o (IF answer.next = None THEN <<>> ELSE from[answer.next])
    IN from[None]

Search(text, month, category, limit) ==
    NewestFirst({i \in Filtered(month, category) :
                    text # None => text \in file.lines[table[i].line].words}, limit)

\* The agent's search_transactions tool clamps the limit the model asks for.
SearchTransactions(text, month, category, limit) ==
    Search(text, month, category, Max({1, Min({limit, MaxLimit})}))

----------------------------------------------------------------------------
(* The totals. *)

\* A sum is no number as soon as one of its terms is none; of no rows it is zero.
Total(amounts) ==
    IF NotANumber \in Range(amounts) THEN NotANumber ELSE FoldFunction(+, 0, amounts)

RowsTotal(ids) == Total([i \in ids |-> table[i].amount])

Debits  == {i \in DOMAIN table : table[i].direction = "DEBIT"}
Credits == {i \in DOMAIN table : table[i].direction = "CREDIT"}

\* The query: one group per month that has rows; the order of the months is left out.
MonthlyTotals ==
    LET rows(start) == {i \in DOMAIN table : MonthStart(table[i].date) = start}
    IN {[month |-> MonthOf(start),
         income |-> RowsTotal(rows(start) \cap Credits),
         expense |-> RowsTotal(rows(start) \cap Debits),
         transaction_count |-> Cardinality(rows(start))] :
            start \in {MonthStart(table[i].date) : i \in DOMAIN table}}

\* GET /summary/months.
ListMonthlySummary ==
    LET months == MonthlyTotals
    IN IF \E m \in months : NotANumber \in {m.income, m.expense} THEN InternalError
       ELSE [status |-> 200, items |-> months]

\* The query: one group per category that has debits; the order of the bars is left out.
CategoryTotals(month) ==
    LET spent == {i \in Debits :
                    month # None =>
                        DayIn(table[i].date, StartDate(month), EndDateExclusive(month))}
        of(c) == {i \in spent : table[i].category = c}
    IN {[category |-> c, amount |-> RowsTotal(of(c)), transaction_count |-> Cardinality(of(c))] :
            c \in {table[i].category : i \in spent}}

\* GET /summary/categories.
ListCategorySummary(month) ==
    LET items == CategoryTotals(month)
    IN IF \E c \in items : c.amount = NotANumber THEN InternalError
       ELSE [status |-> 200, total |-> Total([c \in items |-> c.amount]), items |-> items]

\* The agent's get_spending_by_category tool.
GetSpendingByCategory(month) ==
    LET categories == CategoryTotals(month)
    IN [total |-> Total([c \in categories |-> c.amount]), categories |-> categories]

OverallTotal(months) ==
    [income |-> Total([m \in months |-> m.income]),
     expense |-> Total([m \in months |-> m.expense]),
     transaction_count |-> Total([m \in months |-> m.transaction_count]),
     month_count |-> Cardinality(months)]

\* The agent's get_monthly_summary tool: both views from one round trip.
GetMonthlySummary ==
    LET months == MonthlyTotals IN [overall |-> OverallTotal(months), months |-> months]

----------------------------------------------------------------------------
(* Properties. *)

\* No month, those that have rows, and those before them, where a boundary would be counted
\* a second time.
MonthFilters ==
    {None} \cup UNION {{MonthOf(t.date - DaysPerMonth), MonthOf(t.date)} : t \in Range(table)}

CategoryFilters == {None, "UNCATEGORIZED"} \cup Categories

\* A text is looked for in every category at once.
Texts(category) ==
    IF category = None THEN {None} \cup UNION {line.words : line \in Range(file.lines)} ELSE {None}

\* Following the tokens lists the rows of the calendar month and category asked for, each once
\* and newest first, whatever the page size, the ties between dates and the boundary of a month
\* or a year (list_page: "the cursor can never skip or repeat a row").  It stops short only
\* before the page that holds a row whose amount is no number, and lists all rows when none is.
\* The agent's search, a different query, finds the first rows of the same list that contain
\* its text, however many rows without it come before them.
PagesListTheTable ==
    \A month \in MonthFilters, category \in CategoryFilters :
        LET asked_for == {i \in DOMAIN table :
                            /\ month \in {None, MonthOf(table[i].date)}
                            /\ category \in {None, table[i].category}}
            rows == PagesTo(1, month, category)
        IN /\ \A size \in 1 .. MaxPageSize + 1 :
                LET listed == PagesTo(size, month, category)
                    missing == asked_for \ Range(listed)
                    newer(i) == {j \in missing : table[j].date > table[i].date}
                IN
                /\ Range(listed) \subseteq asked_for
                /\ Len(listed) + Cardinality(missing) = Cardinality(asked_for)
                /\ \A n \in 1 .. Len(listed) - 1 :
                     table[listed[n]].date >= table[listed[n + 1]].date
                /\ \A i \in missing, j \in Range(listed) : table[j].date >= table[i].date
                /\ missing # {} =>
                     \E i \in missing : /\ table[i].amount = NotANumber
                                       /\ Cardinality(newer(i)) < Min({size, MaxPageSize})
           /\ \A text \in Texts(category) :
                LET found == SearchTransactions(text, month, category, MaxLimit + 1)
                    contains(i) == text \in {None} \cup file.lines[table[i].line].words
                    matching == {p \in DOMAIN rows : contains(rows[p])}
                IN /\ Len(found) = Min({MaxLimit, Cardinality({i \in asked_for : contains(i)})})
                   /\ \A p \in matching :
                        LET n == Cardinality({q \in matching : q <= p})
                        IN n <= MaxLimit => found[n] = rows[p]

\* What the lines of an ordinary file move in one direction, rounded as the table rounds it.
FileMoves(sign) ==
    LET net(l) == sign * NetOf(file.lines[l], file.headers)
    IN Total([l \in {k \in DOMAIN file.lines : net(k) > 0} |-> Rounded(net(l))])

\* The dashboard, the chat agent's tools and the statement list quote the same numbers: a month's
\* expense is the sum of that month's categories, the overall total that of all of them, every
\* row is counted in one month, the statement's count and period are those of its rows, and
\* what came in and what went out are what the uploaded file says.  A number one of them cannot
\* tell is quoted by none: the charts and the list fail where the tools say it is no number.
TotalsAgree ==
    LET months == MonthlyTotals
        overall == GetMonthlySummary.overall
        listed == PagesTo(1, None, None)
    IN
    /\ \A m \in months :
         /\ LET bars == ListCategorySummary(m.month)
            IN IF m.expense = NotANumber THEN bars = InternalError
               ELSE bars.status = 200 /\ bars.total = m.expense
         /\ LET count == Len(PagesTo(1, m.month, None))
            IN IF NotANumber \in {m.income, m.expense} THEN count < m.transaction_count
               ELSE count = m.transaction_count
    /\ \A month \in MonthFilters \ {None} :
         (\A m \in months : m.month # month) => CategoryTotals(month) = {}
    /\ ListMonthlySummary = IF NotANumber \in {overall.income, overall.expense} THEN InternalError
                            ELSE [status |-> 200, items |-> months]
    /\ overall.expense = GetSpendingByCategory(None).total
    /\ overall.transaction_count = Len(table) /\ statement.transaction_count = Len(table)
    /\ listed # <<>> => statement.period_end = table[listed[1]].date
    /\ Len(listed) = Len(table) /\ table # <<>> =>
         statement.period_start = table[Last(listed)].date
    /\ table # <<>> /\ (\A l \in DOMAIN file.lines : IsOrdinary(file.lines[l], file.headers)) =>
         overall.income = FileMoves(1) /\ overall.expense = FileMoves(-1)

=============================================================================
