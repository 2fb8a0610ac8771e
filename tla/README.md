# Verification of the finance assistant

TLA+ models of the parts of this repository in which requests, failures and screens can get out of
step, the TLC runs that check them on small instances, and TLAPS proofs of every safety property
of the passing runs: the statement pipeline, its rows, the reads over them, the page's data, the
review page and the chat. All paths are relative to the repository; `backend` stands for
`backend/app`, `frontend` for `frontend/src`.

The system is a FastAPI server over PostgreSQL with two LangGraph graphs (the ingestion of bank
statements and a chat agent) and a React page. A person uploads a CSV statement; the ingestion
graph reads it, categorizes its rows by keyword rules and then by a model, pauses for a review
when the model was unsure, and stores the rows. The page lists them, charts them, lets the person
recategorize them, and has a chat panel that answers questions.

## Inventory

| Component | State it keeps | Operations | What is hard | What makes it correct |
|---|---|---|---|---|
| Ingestion graph (`graphs/statement/graph.py`, nodes, routing) | the channels of a run, its thread's checkpoints, the statement's row | ten nodes, three routers, a retry policy and an error handler on the store node | two stores (checkpoints, tables) without a common transaction; a retry after a commit whose acknowledgement was lost; a crash between two nodes | rows are stored once; COMPLETED has rows and FAILED, PROCESSING, AWAITING_REVIEW have none; flagged rows are stored only after a review |
| Ingestion, review and discard services and routes | none of their own | `ingest`, `get_pending`, `submit`, `discard` | each checks the status in one transaction and acts in another; two reviews, or a review and a discard, of one statement | one file has one statement; what awaits review can be reviewed; COMPLETED and FAILED are final; an accepted review is what is stored |
| CSV reading (`parse_csv`, `normalize_rows`, `csv_columns`, parsers) | rows of one file | detect columns, read a line or skip it | two layouts, blank and zero cells, cells that are numbers to `Decimal` and to nobody else, rounding by the table | no money is lost, invented or turned around; skipped lines are counted |
| Categorization (`category_rules`, the model node and client, the policy, the review node, `set_category`) | category, source and confidence of each row | rules, prompts in batches, policy, decisions, recategorization | three countings of the same rows; a prompt that fails after another was answered; duplicate and foreign indexes; four writers of one triple | every suggestion and decision reaches its own row; rules come first; source, category and confidence fit |
| Listing, search, summaries, recategorization (services, `transaction_repository`, cursor, chat tools) | the transactions table | pages with filters, the agent's search, totals by month and by category, `PATCH` of a category | a full last page, ties between dates, rows inserted between two pages; three queries with two ideas of a month | each row once and in order; the list, the search, both totals and the statement's counter agree |
| Page data (`useFinanceData`, `StatementUpload`, filters) | rows, cursor, totals, statements, filters, spinners | load, load more, recategorize, upload, reload | answers that arrive in another order than they were asked for; closures over old filters; requests that fail between others | list and charts end up as the server has them, for the filters shown; every spinner stops |
| Review panel (`useStatementReview`, `StatementReviewPanel`, `AppShell`) | per statement: status, payload, choices, `isSubmitting`; the list of statements that await review | load, choose, approve, discard, leave and come back, refresh, reload the list | a panel that goes away forgets its request, a request is given up after 30 seconds, the server goes on with both; answers and lists cross | requests are serial while panels wait; what was approved is stored; every waiting statement has a panel that offers something |
| Chat (`useChat`, `streamChat`, the route, `chat_service`) | thread id, messages, the stream's buffer; the thread's checkpoints | send, new chat, reload; one generator per turn | frames cut anywhere; a failure after the status line was sent; a reload or a broken connection in the middle of a turn, with the run going on | the answer on screen is the answer given, whole unless an error is shown, and the agent remembers it; the composer comes back |
| Error responses (`error_handlers`) | none | map exceptions to problem documents | none | every failure is answered |
| Graph topology, hello graph, health, start-up, presentation | none | static answers and rendering | none a model checker reaches | not modelled |

How they interact: the services call the graphs' `invoke` and the repositories; the graphs' nodes
open their own transactions; the checkpointer has its own connections; the page talks to all of it
over HTTP and is told of nothing it did not ask for. `PROJECT.json` lists the hazards found in
this code, each at its line, with the properties that would catch them.

## Modules

| Module | Models |
|---|---|
| `StatementRuns` | every request that writes a statement, interleaved: upload, review, discard; retries, crashes, lost acknowledgements |
| `StatementLifecycle` | the abstract promise: the life of a statement and of its rows |
| `StatementProperties` | the properties of the pipeline, and the refinement mapping to `StatementLifecycle` |
| `ReviewPanel` | a person at the review page, composed with the server of `StatementRuns` |
| `StatementRows` | what one run does with the rows of its file, from the CSV cells to recategorization |
| `StatementReads` | what the server answers about those rows: list, search and totals, over the state of `StatementRows` |
| `Dashboard` | the page's copy of the data, its requests under way, and the server that answers them |
| `ChatStream` | turns of the chat, from the composer through frames and chunks to the screen and the thread |
| `StatementProofs`, `StatementSerialProofs` | proofs about the pipeline: any clients; clients that wait, with faults and without |
| `ReviewPanelProofs`, `StatementRowsProofs`, `StatementReadsProofs`, `DashboardProofs`, `ChatStreamProofs` | proofs about the modules they are named after |
| `NumberSets` | the lemmas on `Min` and `Max` that these share |
| `MCStatements`, `MCReviewPanel`, `MCStatementRows`, `MCDashboard`, `MCChatStream` | small instances for TLC |

### StatementRuns

An upload is at once its request, its statement's row and its LangGraph thread (ids and thread ids
are never reused). `status`, `message` and `batches` are the columns and the transactions of that
row: a batch is one execution of `add_all`, named by the review whose decisions it holds or by the
upload. `checkpoint` is where a resumed thread would continue. `pc` is the node a run is at, or
the point its service has reached. There is one action for each node and for each stretch of a
service between two transactions: `CreateStatement`, `ParseCsv`, ..., `StoreTransactions`,
`HandleStoreError`, `RequireAwaitingReview`, `ReadPayload`, `ResumeRun`, `FindForDiscard`,
`DeleteThread`, `DeleteRow`. Checkpoints are written in the background (`SaveCheckpoint`), as
LangGraph does, and `invoke` waits for the last one.

A transaction ends as one of `Outcomes`: committed, rolled back, or committed with the
acknowledgement lost. Only the store node is retried, `MaxAttempts` times. `Crash` ends every
request under way; the code resumes none. `Overlap` says whether clients may send a request about
a statement while another one is under way. No server code prevents it; the review panel does as
long as it stays on the page and waits, which is what `ReviewPanel` is about.

### ReviewPanel

The server is `StatementRuns` with `Overlap` allowed (`Server == INSTANCE StatementProperties
...`): its steps are taken over as they are, and a request starts only when the page has sent it.
It begins where the uploads have paused for review. `panel` is what `useStatementReview` keeps for
each statement; its own GET is two reads of the server (`FindPending`, `ReadPending`) and an
arrival. `call` is what became of each POST or DELETE: `orphaned` when its panel was unmounted
(`Navigate`, a list without the statement, an error), `over` when it was answered, given up after
`REQUEST_TIMEOUT_MS`, or forgotten with the page (`Refresh`). `reload` are the loads of the
statement list, the page's own and those that `onResolved` starts; each takes its snapshot in
`ServeList` and arrives later, in any order (`ListArrives`, `ListFails`). Beside each of them the
code loads the filtered data, and that load alone makes the page ready: `FilteredEnds` may set the
status before the list has come, after it, or when it failed. React renders what these loads have
set some time later (`Render`), which is when panels come and go. A statement whose run could
neither store its rows nor record the failure `IsStranded`: the server answers 200 and it still
awaits review. Four history variables excuse what the code does not promise: `slipped` names
the statements whose server works on a request the client stopped waiting for, `missed` says that
an answer or a list was lost, `overlapped` that two lists were under way together, and `approved`
keeps the choices the person saw.

### StatementRows

The rows of one file in their way through the nodes; *when* these nodes run and how they fail is
`StatementRuns`' subject. An amount cell is what `Decimal` reads in it (thousandths of a rupee,
blank or unreadable as `None`, or `NotANumber`), whether it stands in parentheses, and where a Dr
or Cr stands; `ParseAmount` decides what of that survives. Descriptions are sets of keywords.
`AskModel` is one prompt: its rows are numbered from zero, the reply may name any number, twice or
out of range, or no real category. The history variables `said` and `decided` record what the
model and the person said *of a line*, never by index, so that the properties do not repeat the
code's arithmetic. The confidence is rounded to hundredths before the policy sees it; ties, whose
rounding depends on binary fractions, are assumed away (`RepliesAssumption`). That the review node
finds the rows it showed is the checkpointer's business and is not doubted here. `statement` holds
the counter and the period that the store node writes beside the rows.

### StatementReads

Reads change nothing, so each query is an operator on `table`: `ListPage` with its cursor and its
filters, `SearchTransactions` with its clamped limit, `MonthlyTotals` (grouped by `date_trunc`)
and `CategoryTotals` (restricted by a range of dates), and what the routes and the chat tools make
of them. `PagesTo` is a client that follows the tokens to the end. A date is a day counted from a
year 0 whose months all have `DaysPerMonth` days; a sum one of whose terms is no number is none.
The table accepts an amount `Decimal` reads as NaN, and the response schemas do not: a page that
holds one, and a summary with such a total, is an `InternalError` (500), and `PagesTo` ends before
it. The chat tools, which render text, quote it. The months and the bars are sets: the order in
which they are answered is left out.

### Dashboard

A row is its position in the order of the listing. `table` is the server's; everything else is
what `useFinanceData` keeps. A request is a record in `fetches`; serving it takes a snapshot
(`Serve`), and its answer or failure is handled later (`Arrives`, `Fails`), in any order. The
cancelled effect (`isStale`) is `Stale`; the reload after an upload keeps the filters of the
render that created it, as the closure does. `Hasty` says whether the person acts while something
they started is under way; changing a filter is always allowed.

### ChatStream

Bytes are abstracted to five symbols per frame, so that a chunk may end within a line or between
the two newlines that end a frame. `ReadChunk` takes any part of what has arrived; `TakeFrame` is
the parser and the loop of `send`. On the server a run loads its thread, yields its tokens, saves
the answer, and yields `done`; a failure yields `error` and then `done`; a generator nobody reads
any more stops without a word. The abort in `newChat` cannot happen: its button is disabled while
an answer streams. A connection breaks while the server lives (`ConnectionBreaks`), with it
(`ServerDies`), or because the page is reloaded. In the first and the last case the run goes on
until its generator is closed at a yield (`Abandon`), and may save its answer before: `late`
records that a run left behind wrote a thread on which a newer turn was sent. What is kept of a
thread, and that the answer is saved before the stream of tokens ends, is LangGraph's doing and
external.

## Runs

| Run | Question | Bounds | Outcome |
|---|---|---|---|
| `statement_serial` | do clients that wait always find the promised lifecycle, whatever crashes and fails? | 2 uploads of one file, 2 reviews, 1 discard, 3 attempts; crash, database, cleanup faults | passes |
| `statement_overlap` | what holds for any interleaving and every fault? | the same, 2 attempts, lost acknowledgements as well; symmetry | passes |
| `statement_calm` | without faults, does nothing get stuck? | two files of which the table refuses one; failing cleanups | passes |
| `review_panel` | does the page make its requests serial, store what was approved, and keep every waiting statement reachable? | 2 statements, 1 submission, 1 discard, 1 row with 2 categories, changed until the submission is sent; a page that is ready fails with its list only; navigation, refresh, lost and late answers, each load in two halves; a database that refuses writes | passes |
| `statement_rows` | do money, category, source and confidence stay with their line, and do list, search and totals agree about it? | 17 files, prompts of 2 rows, replies and reviews of up to 2 entries, pages of at most 2, months of 2 days | passes |
| `dashboard_patient` | does the page end up with the server's data? | 4 rows, pages of 2, 3 filtered loads, 2 editable rows, 1 upload; any request may fail | passes |
| `chat_stream` | is the answer on screen the answer given? | 2 turns, answers of 0 or 3 tokens, 2 threads, 1 reload; connections break with the server and without | passes |
| `finding_double_submit`, `finding_discard_race`, `finding_reupload`, `finding_crossed_saves`, `finding_unreadable_cell` | does the code keep what its documentation says? | see below | violated |

Why these bounds are enough for what they ask. Two uploads meet at the unique hash; two reviews
and a discard are the fewest requests that race pairwise; three attempts include a middle one. At
the page, two statements let two lists cross and one panel stay while the other goes, and a
submission with a discard is the pair that differs; one row with two categories is enough to tell
a choice that was sent from one that was not. Months of two days put rows on both sides of a
boundary, twice a year's, and on one day. Three rows for the model with one for the rules between
them make positions, pending indexes and numbers in a prompt all differ, with a full prompt and a
partial one. Four rows with pages of two give a full last page, a page that moves when a row is
inserted, and a row that leaves the filter; three loads are the first one, a changed filter, and a
reload. Three tokens are the fewest with a middle one to lose, and the symbols of a frame allow
every cut that matters to the parser.

`CHECK_DEADLOCK FALSE` is set everywhere: requests, turns and loads are bounded, so every instance
may stop when they are used up. Two switches make a property depend on its clients: `Overlap` and
`Hasty`. `StoredOnce` and `ChartsAreCurrent` need patient clients, and `finding_double_submit` and
`finding_crossed_saves` show why. Liveness is checked in `statement_serial`, `statement_calm`,
`review_panel`, `dashboard_patient` and `chat_stream`.

### Findings

* `finding_double_submit`: a person approves, opens another view, comes back and approves again
  while the first run is at work: both requests pass the status check, resume the thread twice and
  store the rows twice. `isSubmitting` is the panel's own and went away with it. Clients that wait
  are safe (`StoredOnce`, proved), and so is this page until a request slips from its panel
  (`ServesSerially` and `StoredOnceWhileWaiting`, proved).
* `finding_discard_race`: a discard that checked the status before a review completed the
  statement deletes it with its rows; the delete names the id alone.
* `finding_reupload`: a failed statement's message says to upload the file again, and the unique
  hash refuses it.
* `finding_crossed_saves`: a row locks its own select only. When a second row is recategorized
  while the first is being saved, the breakdown read after the first save may arrive last, and
  the chart keeps it, though both changes are stored and listed. The run has one load and no
  failures, so nothing else can be the cause.
* `finding_unreadable_cell`: a cell `nan` in a single signed column fails the whole file, though
  lines that cannot be read are to be skipped and counted.

## Fairness

A server thread that has taken a request goes on with it: weak fairness for each upload, review
and discard under way. Requests of the page are aborted after `REQUEST_TIMEOUT_MS`, so each kind
is answered or fails: weak fairness for each. The review page asks for less: as long as a panel's
load, a call, a load of the list or a rendering is under way, one of them goes on; nothing is
asked of the server, for a call nobody answers ends by its time limit. The stream of the chat has
no such limit; there the server's calls to its model end (the client library's time limit), and
the browser reads what has arrived: while either can go on, one of them does (`Working`). Nobody
is ever obliged to send, to click, to start a new chat or to reload; crashes and failures are
never obliged to happen or to stop.

## Proofs

Every theorem holds for any values of the constants that satisfy the named assumptions of its
module, infinite sets of requests included, and TLC has checked each property before on the
instances above.

**The pipeline, any clients** (`StatementProofs`). Assumed: the three kinds of requests are
disjoint, `MaxAttempts` is positive, `Faults` is a set of the known ones. The properties are not
inductive alone: that a PROCESSING statement has no rows says nothing of a run about to store
them, and that flagged rows were reviewed says nothing of whose decisions a run holds. The
strengthening `RunInv` ties each place a run can be at to the status of its row, the rows stored,
and the checkpoint a resumption would read. From it follow `UnfinishedRows`, `CompletedRows`,
`FlaggedRows` and `UniqueFiles`.

**The pipeline, clients that wait** (`StatementSerialProofs`). `Serial` is assumed as well:
clients wait, and no acknowledgement is lost. Both are needed: without the first
`finding_double_submit` stores the rows twice, without the second the retry after a lost
acknowledgement does. `SerialInv` adds that at most one request about a statement is in flight,
and what the status must be where that request is. It gives `TransactionsStoredOnce`,
`FailedStoredNothing`, `SettledForGood`, and `ImplementsLifecycle`: each step of the pipeline is a
step of `StatementLifecycle` or leaves its variables alone. `AcceptedIsStored` needs `~Overlap`
alone: a lost acknowledgement may store decisions twice, never others. A review that is alone with
its statement `KeepsDecisions`: its guard's status and the pause hold until it resumes the thread,
its run holds its own decisions, and once the statement is COMPLETED they are in the table.

**The pipeline without faults** (in `StatementSerialProofs`). `Calm`: clients wait, and the only
fault is a failing cleanup of a thread; files the table refuses are allowed. That what awaits
review is paused at the interrupt (`ReviewFindsPause`) and that no upload is answered PROCESSING
(`IngestAnswers`) depend on each other through the run that is about to answer, so `CalmInv` holds
both, with the state of the thread at each place before. It is stated statement by statement
(`CalmAt`): a step moves one request and touches its own statement only (`Moves`), so one step
suffices for that statement.

**The review page** (`ReviewPanelProofs`). The composition inherits what is proved of its parts:
the server's typing from `StatementProofs`, taken with `Overlap` true, and its serial guarantees
from `StatementSerialProofs`, taken with `Overlap` false. `ClientInv` says that the server holds
only what a panel sent, that a panel waits for one request, and that a request nobody waits for
and the server has not finished is on record in `slipped`. Hence `PanelsAreSerial`: until
something slips, each step of the server is one that clients who wait could cause.
`StoredOnceWhileWaiting` puts the two together, for any faults but a lost acknowledgement: it
carries `SerialInv` along as long as `slipped` is empty. `AwaitingStaysReachable` assumes nothing:
a list, read or shown, lacks no statement that awaits review, from the first one on, whatever
became of the page's status meanwhile, and what a panel is told of its statement leaves it
something to offer. `ApprovedStored` assumes nothing either: it follows the choices from the
click (`approved`) to the body that was sent, and `KeepsDecisions` carries them on to the table,
for each review whose statement has not slipped. `ListFollows` assumes that no acknowledgement is
lost, for otherwise the server settles a statement and answers with an error. Of its two halves
`ListsLackNone` says that a list, read or shown, lacks no statement that awaits review, and
`NewsComes` that for one listed in vain an answer is on its way that makes the page load the list,
or such a load is.

**The rows** (`StatementRowsProofs`). For any file, rules, replies and decisions, of any length.
`RowInv`: every row `Fits` (its source says where its category and confidence come from), nothing
is categorized before the rules, and predictions are typed. The table receives these rows, and a
recategorization keeps them fitting: `SourcesFit` follows for both.

`FileInv` follows the lines. The rows are the file's usable lines in its order, each with what
`ToTransaction` makes of its line, and none is missing (`LinesInv`); a row some rule matches has
the first such rule's category and was shown to nobody (`WordsInv`); while the model is asked, the
predictions are, at each pending index, what was said of the line that stands there (`PromptInv`).
The last is what makes `SuggestionsFollow` inductive: it ties the numbers of a prompt to the
places among the pending rows and these to lines, and `OneRowPerLine` says that this loses
nothing. `RowsTyped` and `RulesAreFirst` are parts of it. `LinesAreKept` adds what the columns
make of an ordinary line (`OrdinaryLine`), for each layout, and `DecisionsFollow` that the last
entry about a row in the code's dictionary is the last the person made (`FinalIsLast`). The lines
are listed by `InOrder`, which the prover can expand where `SetToSortSeq` and `SelectSeq` are
opaque to it; that any set of line numbers has such a listing is `OrderExists`.

**The reads** (`StatementReadsProofs`). For any table, calendar, page size and filters. A page
that holds an amount that is no number is an error, and so is a total of one; the theorems say
what each client sees then. `PagesAreComplete` counts: the `Place` of a row is the number of rows
that come before it, each place below the number of rows is taken once (`PlaceTaken`), and so a
page is the rows of the first places (`Page`). A page and the list of what its last row is newer
than are the whole list (`PageAndRest`); `NextToken` hands over exactly that row. Following the
tokens is a recursive function, which is the one the list satisfies: two such functions cannot
differ first on a token with the fewest rows behind it, for every full page leaves fewer
(`PagesAreTheList`). That the range of a month's days is the month of a date, December included,
is `DaysOfMonth`. The search clause maps the matching positions of the list one to one to the rows
found.

`NumbersAgree` needs sums. `Sum(v, s)` is the size of a heap that holds `v[x]` pieces for each `x`
of `s`: heaps of disjoint sets unite, so sums add (`SumAdds`) and may be taken in groups
(`SumInGroups`); the library's fold is such a sum in whatever order it takes its terms
(`FoldIsSum`), again by the smallest set on which they differ. `TotalInGroups` adds amounts that
are no number. The months group all rows, the categories those spent, and the lines of the file
those of one direction; each is an instance. For the file and the statement's period the
invariant `StoredInv` says that the table holds the run's rows with rounded amounts, whatever has
been recategorized since, and that the statement counts them and ends where they do; with
`LinesInv` and `OrdinaryLine` each row is then the money of its own line (`FileAddsUp`).

**The page** (`DashboardProofs`). For any finite set of rows and any page size. `TypeCorrect`
needs no assumption on the person and holds for answers in any order. `PagesFollowEachOther`
assumes `~Hasty`; its invariant adds that a further page under way has nothing but saves beside
it, and that the token is the lowest row listed. `ListIsCurrent` and `ChartsCatchUp` assume
`~Hasty` as well (`finding_crossed_saves` is why). A person who waits makes uploads, saves and
loads take turns (`TakesTurns`, `SavesAlone`), so what is asked for is asked with the selected
filters or thrown away (`SameFilters`) and what was read is still the table, behind the list for a
further page (`ReadsAreCurrent`). `CurrentInv` says the properties of every state in which no load
will replace the list, up to the row that is being saved and the totals that will be loaded after
it.

**The chat** (`ChatStreamProofs`). For answers, frames and chunks of any number. `ChatInv` splits
the answer of a turn in three: the tokens on screen, those spelled by what is buffered or on the
wire (`Pending`, `Spells`), and those still to be told. A chunk, a frame and a token move the
boundaries and never the whole. `ShownFollowsAnswer` is the first part; `SilenceIsComplete` adds
that after `done` without an error nothing is pending and nothing is left to tell.
`ScreenStaysRemembered` is about all turns of a screen, until a run that a reload or a broken
connection left behind writes the panel's thread after a newer turn was sent (`late`).
`MemoryInv` says that the exchanges on screen are the last turns sent, all on the panel's thread;
that a thread's memory holds the turns begun in it, each once and in the order they were sent; and
that a run under way answers what the memory holds.

What stays with TLC is liveness (`ProcessingEnds`, `EveryRequestEnds`, `PanelComesBack`,
`SpinnersStop`, `StreamingEnds`): the prover has neither fairness nor ENABLED. Induction over data
is not available to it either; where a proof needs it (listings, pages, sums) it takes a smallest
counterexample instead (`SmallestExists` in `NumberSets`).

## Not modelled

The wording of errors, logs, prompts and of what the chat tools render; how headers, digits and
dates are spelled, beyond what they are read as; the encoding of tokens and cursors, the parsing
of a month's name and the years 0 and 9999; the lookup of a category by its name; currencies and
the order of the bars; the limit of 50 statements of the list; the size and type checks of an
upload; tool calls inside an answer, and turns of two tabs on one thread, whose merging is
LangGraph's; start-up, the drawings of the graphs, static answers, rendering. None of the last
keeps a state that could be wrong: modelling them would restate them. Each is listed with its
reason in `PROJECT.json`.

## Plan

Done: the pipeline, the review page on top of it, the rows and the reads over them, the page's
data, the chat; proofs of all their safety properties. What would be next, in this order:

1. Compose `StatementRows` with `StatementRuns`: each knows one half of a run, what its nodes
   compute and when they run, and that they take the same branches is seen by reading only.
2. The hazards `PROJECT.json` lists without a property, first of them two tabs on one thread of
   the chat and answers of `loadMore` that arrive after the filters changed.
