---------------------------- MODULE StatementRows ----------------------------
(***************************************************************************)
(* What one run of the statement pipeline does with the rows of its file:  *)
(* the columns are found, every line becomes a transaction or is skipped,  *)
(* the keyword rules and then the model categorize what they can, a person *)
(* reviews the guesses the model was unsure of, the rows are stored, and   *)
(* any of them can be recategorized afterwards.  StatementRuns says when   *)
(* these steps happen and how they fail; this module says what they do.    *)
(*                                                                         *)
(* Amounts are integers in thousandths of a rupee, confidences reported by *)
(* the model in thousandths and recorded ones in hundredths.               *)
(***************************************************************************)
EXTENDS Integers, Sequences, FiniteSetsExt, SequencesExt

CONSTANTS
    Files,          \* the files a person may upload
    Rules,          \* the keyword rules, in the order they are tried
    Categories,     \* the real categories
    Replies,        \* what the model may answer to one prompt
    Reviews,        \* the lists of decisions a person may submit
    BatchSize,      \* rows per prompt
    Threshold,      \* LowConfidencePolicy.threshold, in hundredths
    MaxAmount,      \* the table's numeric column holds amounts below this
    None,           \* no amount, no date, no confidence
    NotANumber      \* what Decimal("nan") is

AmountColumns == {"amount", "debit", "credit"}
Columns       == {"date", "description"} \cup AmountColumns

\* An amount cell: what Decimal makes of it once currency symbols and separators are gone,
\* whether it stands in parentheses, and where a Dr or Cr stands if there is one.
Cells == [reads : Int \cup {None, NotANumber}, parenthesised : BOOLEAN,
          suffix : {"none", "inside", "outside"}]

\* A line: its date if it has one, the keywords its description contains, and its amounts.
Lines == [date : Nat \cup {None}, words : SUBSET STRING,
          amount : Cells, debit : Cells, credit : Cells]

ASSUME BatchAssumption == BatchSize \in Nat \ {0}
ASSUME ThresholdAssumption == Threshold \in 0 .. 100
ASSUME AbsenceAssumption ==
    /\ None \notin Int /\ NotANumber \notin Int /\ None # NotANumber
    /\ "UNCATEGORIZED" \notin Categories
ASSUME RulesAssumption == Rules \in Seq([keyword : STRING, category : Categories])
\* A tie would be rounded as the binary fraction nearest to it happens to lie.
ASSUME RepliesAssumption ==
    \A reply \in Replies :
        /\ reply \in Seq([index : Int, category : Categories \cup {"UNCATEGORIZED"},
                           confidence : 0 .. 1000])
        /\ \A i \in DOMAIN reply : reply[i].confidence % 10 # 5
\* StatementReviewDecisionIn accepts a non-negative index and a real category.
ASSUME ReviewsAssumption ==
    \A decisions \in Reviews : decisions \in Seq([index : Nat, category : Categories])
ASSUME FilesAssumption ==
    \A f \in Files :
        f.wellFormed \in BOOLEAN /\ f.headers \subseteq Columns /\ f.lines \in Seq(Lines)

VARIABLES
    file,          \* the uploaded file
    suggester,     \* is an OPENAI_API_KEY configured?
    node,          \* the node that runs next, or how the run ended
    transactions,  \* state["transactions"]
    skipped,       \* state["skipped_row_count"]
    asked,         \* how many of the pending rows the model has been asked about
    predictions,   \* the predictions collected so far, by index among the pending rows
    table,         \* the statement's rows in the transactions table
    statement,     \* what the statement's own row says of them
    said,          \* what the model said last of each line it was shown
    decided        \* what the person decided last of each line they were shown

vars == <<file, suggester, node, transactions, skipped, asked, predictions,
          table, statement, said, decided>>

Sources == {"NONE", "RULE", "LLM", "USER"}

Nodes == {"parse_csv", "normalize_rows", "apply_category_rules", "categorize_with_llm",
          "review_low_confidence", "store_transactions", "COMPLETED", "FAILED"}

Transactions ==
    [line : Nat \ {0}, date : Nat, amount : Nat \cup {NotANumber},
     direction : {"DEBIT", "CREDIT"}, category : Categories \cup {"UNCATEGORIZED"},
     categorized_by : Sources, confidence : 0 .. 100 \cup {None}]

Predictions == [category : Categories, confidence : 0 .. 100]

\* Null until at least one transaction is stored.
Statements == [transaction_count : Nat, period_start : Nat \cup {None},
               period_end : Nat \cup {None}]

TypeOK ==
    /\ file \in Files
    /\ suggester \in BOOLEAN
    /\ node \in Nodes
    /\ transactions \in Seq(Transactions)
    /\ skipped \in Nat
    /\ asked \in Nat
    /\ DOMAIN predictions \subseteq 1 .. Len(transactions)
    /\ \A i \in DOMAIN predictions : predictions[i] \in Predictions
    /\ table \in Seq(Transactions)
    /\ statement \in Statements
    /\ \A l \in DOMAIN said : l \in DOMAIN file.lines /\ said[l] \in Predictions
    /\ \A l \in DOMAIN decided : l \in DOMAIN file.lines /\ decided[l] \in Categories

----------------------------------------------------------------------------
(* Plausible mistakes, for trying the properties against.                  *)

\* The parentheses of a negative amount are noise like the currency symbols.
ParenthesesDropped(cell) == cell.reads

\* The sign stays on the amount.
SignKept(amount) == amount

\* Every row is sent to the model.
AllPositions(rows) == SetToSortSeq(DOMAIN rows, <)

\* The batches' offset is forgotten.
IndexWithoutOffset(offset, index) == index + 1

\* The first of two decisions about a row wins.
FirstEntry(entries, index) ==
    entries[Min({i \in DOMAIN entries : entries[i].index = index})]

\* Whatever a person picks is theirs.
PersonAlways(category) == "USER"

----------------------------------------------------------------------------
(* parse_csv and normalize_rows. *)

\* parse_amount: parentheses negate, but only when nothing stands outside them; a suffix is
\* dropped otherwise, and says nothing about the sign.
ParseAmount(cell) ==
    IF cell.reads = None \/ (cell.parenthesised /\ cell.suffix = "outside") THEN None
    ELSE IF cell.parenthesised /\ cell.reads # NotANumber THEN -cell.reads ELSE cell.reads

AmountIn(line, column) == ParseAmount(line[column])

\* One signed column, unless the more specific pair is there as well.
HasSignedAmount(headers) == headers \cap {"debit", "credit"} = {}

\* CsvColumns.detect finds every field.
Detected(headers) == {"date", "description"} \subseteq headers /\ headers \cap AmountColumns # {}

\* The column an amount is taken from: the debit wins when it holds anything but zero.
FilledColumn(line, headers) ==
    IF HasSignedAmount(headers) THEN "amount"
    ELSE IF "debit" \in headers /\ AmountIn(line, "debit") \notin {None, 0} THEN "debit" ELSE "credit"

\* _to_transaction returns None.
IsSkipped(line, headers) ==
    LET column == FilledColumn(line, headers) IN
    line.date = None \/ column \notin headers \/ AmountIn(line, column) \in {None, 0}

\* Comparing a Decimal that is not a number with zero raises; testing for zero does not.
Raises(line, headers) ==
    /\ HasSignedAmount(headers)
    /\ ~IsSkipped(line, headers)
    /\ AmountIn(line, "amount") = NotANumber

Magnitude(amount) == IF amount # NotANumber /\ amount < 0 THEN -amount ELSE amount

\* In a single column a negative amount left the account.
Direction(line, headers) ==
    CASE FilledColumn(line, headers) = "debit"  -> "DEBIT"
      [] FilledColumn(line, headers) = "credit" -> "CREDIT"
      [] OTHER -> IF AmountIn(line, "amount") < 0 THEN "DEBIT" ELSE "CREDIT"

ToTransaction(f, l) ==
    LET line == f.lines[l] IN
    [line |-> l, date |-> line.date,
     amount |-> Magnitude(AmountIn(line, FilledColumn(line, f.headers))),
     direction |-> Direction(line, f.headers),
     category |-> "UNCATEGORIZED", categorized_by |-> "NONE", confidence |-> None]

\* The numbers of a finite set, ascending: SetToSortSeq(S, <), which the prover cannot expand.
InOrder(S) ==
    CHOOSE s \in [1 .. Cardinality(S) -> S] : \A i, j \in DOMAIN s : i < j => s[i] < s[j]

\* The lines that become transactions, in the file's order.
UsableLines(f) == InOrder({l \in DOMAIN f.lines : ~IsSkipped(f.lines[l], f.headers)})

----------------------------------------------------------------------------
(* The rules, the model and the policy. *)

\* The first rule in the table's order whose keyword the description contains.
Matching(words) == {i \in DOMAIN Rules : Rules[i].keyword \in words}

ApplyRules(t) ==
    LET hits == Matching(file.lines[t.line].words) IN
    IF hits = {} THEN t
    ELSE [t EXCEPT !.category = Rules[Min(hits)].category, !.categorized_by = "RULE"]

IsCategorized(t) == t.category # "UNCATEGORIZED"

\* The positions of the rows no rule matched, in order.
PendingPositions(rows) == InOrder({i \in DOMAIN rows : ~IsCategorized(rows[i])})

\* LowConfidencePolicy.is_low_confidence.
Unsure(t) == t.categorized_by = "LLM" /\ (t.confidence = None \/ t.confidence < Threshold)

\* LowConfidencePolicy.select.
Select(rows) == {i \in DOMAIN rows : Unsure(rows[i])}

Pausing == "review_low_confidence"
Storing == "store_transactions"

\* route_after_llm sees the rows as the model node returns them.
RouteAfterLlm(rows) == IF Select(rows) # {} THEN Pausing ELSE Storing

\* An entry with an index outside the prompt, or without a real category, is dropped.
Accepted(reply, size) ==
    Restrict(reply, {i \in DOMAIN reply : /\ reply[i].index \in 0 .. size - 1
                                          /\ reply[i].category \in Categories})

\* Later entries of a dictionary replace earlier ones.
LastEntry(entries, index) ==
    entries[Max({i \in DOMAIN entries : entries[i].index = index})]

\* round(confidence, 2), in hundredths.
Prediction(entry) ==
    [category |-> entry.category, confidence |-> (entry.confidence + 5) \div 10]

\* dict.update, which TLC's @@ is as well, but not to the prover.
Updated(old, new) ==
    [k \in DOMAIN old \cup DOMAIN new |-> IF k \in DOMAIN new THEN new[k] ELSE old[k]]

\* Where among the pending rows a prompt that starts at this offset puts its entries.
PendingIndex(offset, index) == offset + index + 1

----------------------------------------------------------------------------
(* What is remembered for the properties, in terms of the lines a prompt or *)
(* a review shows rather than of the indexes the code computes.             *)

\* The entry about this index that no later one is about.
FinalEntry(entries, index) ==
    LET last == CHOOSE i \in DOMAIN entries :
                  /\ entries[i].index = index
                  /\ \A j \in DOMAIN entries : entries[j].index = index => j <= i
    IN entries[last]

IndexesOf(entries) == {entries[i].index : i \in DOMAIN entries}

\* shown[n + 1] is the line printed with number n.
SaidOf(entries, shown) ==
    [l \in {shown[n + 1] : n \in IndexesOf(entries)} |->
        Prediction(FinalEntry(entries, CHOOSE n \in IndexesOf(entries) : shown[n + 1] = l))]

----------------------------------------------------------------------------
(* The nodes. *)

Init ==
    /\ file \in Files
    /\ suggester \in BOOLEAN
    /\ node = "parse_csv"
    /\ transactions = <<>>
    /\ skipped = 0
    /\ asked = 0
    /\ predictions = <<>>
    /\ table = <<>>
    /\ statement = [transaction_count |-> 0, period_start |-> None, period_end |-> None]
    /\ said = <<>>
    /\ decided = <<>>

\* Not CSV, a field without a column, or no line: the error goes to record_failure.
ParseCsv ==
    /\ node = "parse_csv"
    /\ node' = IF file.wellFormed /\ Detected(file.headers) /\ file.lines # <<>>
               THEN "normalize_rows" ELSE "FAILED"
    /\ UNCHANGED <<file, suggester, transactions, skipped, asked, predictions,
                   table, statement, said, decided>>

\* Lines that are no transactions are counted; a line that raises fails the file.
NormalizeRows ==
    LET usable == UsableLines(file)
        raises == \E l \in DOMAIN file.lines : Raises(file.lines[l], file.headers)
    IN
    /\ node = "normalize_rows"
    /\ IF raises
       THEN UNCHANGED <<transactions, skipped>>
       ELSE /\ transactions' = [i \in DOMAIN usable |-> ToTransaction(file, usable[i])]
            /\ skipped' = Len(file.lines) - Len(usable)
    /\ node' = IF raises \/ usable = <<>> THEN "FAILED" ELSE "apply_category_rules"
    /\ UNCHANGED <<file, suggester, asked, predictions, table, statement, said, decided>>

\* The model is asked only if the rules leave a row to it.
ApplyCategoryRules ==
    LET ruled == [i \in DOMAIN transactions |-> ApplyRules(transactions[i])] IN
    /\ node = "apply_category_rules"
    /\ transactions' = ruled
    /\ node' = IF \A i \in DOMAIN ruled : IsCategorized(ruled[i])
               THEN Storing ELSE "categorize_with_llm"
    /\ UNCHANGED <<file, suggester, skipped, asked, predictions, table, statement, said, decided>>

\* One prompt of suggest(): the next BatchSize pending rows, numbered from zero.
AskModel ==
    LET pending == PendingPositions(transactions)
        chunk   == SubSeq(pending, asked + 1, Min({asked + BatchSize, Len(pending)}))
    IN
    /\ node = "categorize_with_llm"
    /\ suggester
    /\ asked < Len(pending)
    /\ \E reply \in Replies :
         LET entries == Accepted(reply, Len(chunk))
             indexes == {PendingIndex(asked, n) : n \in IndexesOf(entries)}
             new     == [k \in indexes |->
                           Prediction(LastEntry(entries,
                             CHOOSE n \in IndexesOf(entries) : PendingIndex(asked, n) = k))]
         IN /\ predictions' = Updated(predictions, new)
            /\ said' = Updated(said, SaidOf(entries, [i \in DOMAIN chunk |->
                                                        transactions[chunk[i]].line]))
    /\ asked' = asked + BatchSize
    /\ UNCHANGED <<file, suggester, node, transactions, skipped, table, statement, decided>>

\* All prompts were answered: every prediction goes to the row at its pending index.
ApplyPredictions ==
    LET pending   == PendingPositions(transactions)
        IndexIn(i) == CHOOSE k \in DOMAIN predictions : pending[k] = i
        predicted == {pending[k] : k \in DOMAIN predictions}
        Suggested(i) == [transactions[i] EXCEPT
                           !.category = predictions[IndexIn(i)].category,
                           !.categorized_by = "LLM",
                           !.confidence = predictions[IndexIn(i)].confidence]
        categorized == [i \in DOMAIN transactions |->
                          IF i \in predicted THEN Suggested(i) ELSE transactions[i]]
    IN
    /\ node = "categorize_with_llm"
    /\ suggester
    /\ asked >= Len(pending)
    /\ transactions' = categorized
    /\ node' = RouteAfterLlm(categorized)
    /\ UNCHANGED <<file, suggester, skipped, asked, predictions, table, statement, said, decided>>

\* Without a key nobody is asked; when a prompt fails, what the earlier ones said is lost.
NoSuggestions ==
    /\ node = "categorize_with_llm"
    /\ suggester => asked < Len(PendingPositions(transactions))
    /\ node' = RouteAfterLlm(transactions)
    /\ UNCHANGED <<file, suggester, transactions, skipped, asked, predictions,
                   table, statement, said, decided>>

\* submit and the review node it resumes.  Decisions about rows that are not in the payload
\* are refused with nothing changed; rows without a decision are approved as they are.
SubmitReview ==
    /\ node = "review_low_confidence"
    /\ \E entries \in Reviews :
         LET Position(index) == index + 1
             Decide(i) == [transactions[i] EXCEPT
                             !.category = LastEntry(entries, i - 1).category,
                             !.categorized_by = "USER",
                             !.confidence = None]
             positions == {Position(n) : n \in IndexesOf(entries)}
         IN /\ positions \subseteq Select(transactions)
            /\ transactions' = [i \in DOMAIN transactions |->
                                  IF i \in positions THEN Decide(i) ELSE transactions[i]]
            /\ decided' = [l \in {transactions[i].line : i \in positions} |->
                             FinalEntry(entries,
                               CHOOSE n \in IndexesOf(entries) : transactions[n + 1].line = l
                             ).category]
    /\ node' = Storing
    /\ UNCHANGED <<file, suggester, skipped, asked, predictions, table, statement, said>>

\* numeric(14, 2): two digits are kept.
Rounded(amount) == IF amount = NotANumber THEN amount ELSE ((amount + 5) \div 10) * 10

\* CHECK (amount > 0) and the column's range, which let a not-a-number through.
Refused(t) ==
    /\ t.amount # NotANumber
    /\ Rounded(t.amount) = 0 \/ Rounded(t.amount) >= MaxAmount

DatesOf(rows) == {t.date : t \in Range(rows)}

\* One refused row refuses them all, and the error handler records the failure.
StoreTransactions ==
    /\ node = "store_transactions"
    /\ IF \E i \in DOMAIN transactions : Refused(transactions[i])
       THEN /\ node' = "FAILED"
            /\ UNCHANGED <<table, statement>>
       ELSE /\ node' = "COMPLETED"
            /\ table' = [i \in DOMAIN transactions |->
                           [transactions[i] EXCEPT !.amount = Rounded(@)]]
            /\ statement' = [transaction_count |-> Len(transactions),
                             period_start |-> Min(DatesOf(transactions)),
                             period_end |-> Max(DatesOf(transactions))]
    /\ UNCHANGED <<file, suggester, transactions, skipped, asked, predictions, said, decided>>

\* Whose choice a category set by a person is: nobody's once it is taken back.
SourceOf(category) == IF category = "UNCATEGORIZED" THEN "NONE" ELSE "USER"

\* PATCH of a stored row's category.
SetCategory(i, category) ==
    /\ table' = [table EXCEPT ![i].category = category,
                              ![i].categorized_by = SourceOf(category),
                              ![i].confidence = None]
    /\ UNCHANGED <<file, suggester, node, transactions, skipped, asked, predictions,
                   statement, said, decided>>

Next ==
    \/ ParseCsv \/ NormalizeRows \/ ApplyCategoryRules
    \/ AskModel \/ ApplyPredictions \/ NoSuggestions
    \/ SubmitReview \/ StoreTransactions
    \/ \E i \in DOMAIN table, category \in Categories \cup {"UNCATEGORIZED"} :
         SetCategory(i, category)

Spec == Init /\ [][Next]_vars

----------------------------------------------------------------------------
(* Properties. *)

\* What an accountant reads in a cell without a suffix: parentheses mean a negative amount.
Entered(line, headers, column) ==
    IF column \notin headers \/ line[column].reads = None THEN 0
    ELSE IF line[column].parenthesised THEN 0 - line[column].reads ELSE line[column].reads

\* A line nobody can misread: its amounts are numbers, without a suffix, and of a debit/credit
\* pair one at most is filled, with a positive amount.
IsOrdinary(line, headers) ==
    LET pair == {"debit", "credit"} \cap headers IN
    /\ line.date # None
    /\ \A c \in headers \cap AmountColumns :
         line[c].reads # NotANumber /\ line[c].suffix = "none"
    /\ \A c \in pair : Entered(line, headers, c) >= 0
    /\ \E c \in {"debit", "credit"} : Entered(line, headers, c) = 0

\* What an ordinary line adds to the account.
NetOf(line, headers) ==
    IF HasSignedAmount(headers) THEN Entered(line, headers, "amount")
    ELSE Entered(line, headers, "credit") - Entered(line, headers, "debit")

\* normalize_rows loses and invents no money: each ordinary line that moves money is one
\* transaction with the file's sign and amount, the transactions keep the order of the file,
\* and every other line is accounted for by the skipped count.
TransactionsAreTheLines ==
    node \notin {"parse_csv", "normalize_rows", "FAILED"} =>
        /\ skipped + Len(transactions) = Len(file.lines)
        /\ \A i, j \in DOMAIN transactions : i < j => transactions[i].line < transactions[j].line
        /\ \A l \in DOMAIN file.lines :
             IsOrdinary(file.lines[l], file.headers) =>
               LET net == NetOf(file.lines[l], file.headers)
                   of  == {t \in Range(transactions) : t.line = l}
               IN IF net = 0 THEN of = {}
                  ELSE \E t \in of : net = IF t.direction = "CREDIT" THEN t.amount
                                                                     ELSE -t.amount

\* Four places write a category: together they never leave a category without a source, a
\* source without a category, or a confidence that is not the model's (the CHECKs of the
\* categorization migration, which the program should never run into).
SourceFitsCategory ==
    \A t \in Range(transactions) \cup Range(table) :
        /\ (t.categorized_by = "NONE") <=> (t.category = "UNCATEGORIZED")
        /\ (t.confidence # None) <=> (t.categorized_by = "LLM")

\* What the model said of a line is on that line's row and on no other, whatever the batches,
\* the numbering within each prompt, and the rows between them that no prompt showed; all of
\* it is used or, when a prompt failed, none of it.
SuggestionsReachTheirRows ==
    LET guessed == {t \in Range(transactions) : t.categorized_by = "LLM"}
        used    == \E t \in Range(transactions) : t.categorized_by \in {"LLM", "USER"}
    IN
    /\ \A t \in guessed :
         /\ t.line \in DOMAIN said
         /\ [category |-> t.category, confidence |-> t.confidence] = said[t.line]
    /\ used => \A t \in Range(transactions) :
                 t.line \in DOMAIN said => t.categorized_by \in {"LLM", "USER"}

\* A row some rule matches is never shown to the model, and carries the category of the first
\* rule that matches until the person recategorizes the stored row.
RulesComeFirst ==
    \A i \in DOMAIN transactions :
        LET t == transactions[i]
            hits == Matching(file.lines[t.line].words)
        IN node \notin {"apply_category_rules", "FAILED"} /\ hits # {} =>
             /\ t.line \notin DOMAIN said
             /\ t.categorized_by = "RULE" /\ t.category = Rules[Min(hits)].category

\* The review decides the rows it showed and no others: a decided row is the person's, with
\* the category they named last, and every other row is stored as it was.
DecisionsReachTheirRows ==
    [][node = "review_low_confidence" /\ node' = "store_transactions" =>
         \A i \in DOMAIN transactions :
            IF transactions[i].line \in DOMAIN decided'
            THEN /\ transactions'[i].category = decided'[transactions[i].line]
                 /\ transactions'[i].categorized_by = "USER"
            ELSE transactions'[i] = transactions[i]]_vars

\* "A file where only some rows are unusable succeeds and reports the skipped count."
SomeReadableRowsSucceed ==
    (node = "FAILED" /\ file.wellFormed /\ Detected(file.headers)) =>
        \A l \in DOMAIN file.lines :
            ~(/\ IsOrdinary(file.lines[l], file.headers)
              /\ ~IsSkipped(file.lines[l], file.headers)
              /\ Rounded(Magnitude(NetOf(file.lines[l], file.headers))) \in 1 .. MaxAmount - 1)

=============================================================================
