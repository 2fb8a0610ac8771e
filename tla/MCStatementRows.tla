--------------------------- MODULE MCStatementRows ---------------------------
(* A small instance of StatementReads: one file of every layout and every kind *)
(* of line, prompts of two rows, and a model and a person that may answer     *)
(* about any row, twice about one, or about one that was not shown.  Months    *)
(* have two days: 22 and 23 are a December, 24 is the first of January.       *)
EXTENDS StatementReads

MCRules == << [keyword |-> "SALARY", category |-> "INCOME"],
              [keyword |-> "NEFT", category |-> "TRANSFERS"] >>
MCCategories == {"INCOME", "TRANSFERS"}

\* One line: a date, the keywords in its description, and its three amount cells.
Cell(reads) == [reads |-> reads, parenthesised |-> FALSE, suffix |-> "none"]
L(date, words, amount, debit, credit) ==
    [date |-> date, words |-> words,
     amount |-> Cell(amount), debit |-> Cell(debit), credit |-> Cell(credit)]
Spent(date, words, debit)     == L(date, words, None, debit, None)
Received(date, words, credit) == L(date, words, None, None, credit)
Signed(date, words, amount)   == L(date, words, amount, None, None)
InParentheses(date, words, amount, suffix) ==
    [Signed(date, words, amount) EXCEPT !.amount.parenthesised = TRUE, !.amount.suffix = suffix]
Suffixed(date, words, amount) == [Signed(date, words, amount) EXCEPT !.amount.suffix = "outside"]

CSV(columns, lines) == [wellFormed |-> TRUE, headers |-> columns, lines |-> lines]
Text   == {"date", "description"}
Pair   == Text \cup {"debit", "credit"}
Single == Text \cup {"amount"}

MCFiles == {
    \* Three rows for the model with one for the rules between them: two prompts.
    CSV(Pair, <<Spent(24, {}, 1200), Received(24, {"NEFT", "SALARY"}, 90000),
                Spent(23, {}, 500), Received(22, {"CAFE"}, 700)>>),
    \* An opening balance without a date, a zero, and both signs.
    CSV(Single, <<Signed(None, {}, 5000), Signed(22, {"NEFT"}, -300), Signed(22, {}, 0),
                  Signed(23, {}, 450)>>),
    \* Both layouts at once, a debit column alone, a line with both cells filled.
    CSV(Pair \cup Single, <<L(22, {}, -200, 200, None), L(23, {"NEFT"}, 300, 0, 300)>>),
    CSV(Text \cup {"debit"}, <<Spent(22, {}, 100), Received(23, {}, 100)>>),
    CSV(Pair, <<L(22, {}, None, 100, 250), Spent(23, {"SALARY"}, -100)>>),
    \* Only rules, and nothing that can be read.
    CSV(Pair, <<Received(22, {"SALARY"}, 80000)>>),
    CSV(Single, <<Signed(None, {}, 100), Signed(22, {}, None)>>),
    \* Cells that are no number, in either layout.
    CSV(Single, <<Signed(22, {}, NotANumber), Signed(23, {}, 100)>>),
    CSV(Pair, <<L(22, {}, None, NotANumber, 100), Spent(23, {}, 100)>>),
    \* Parentheses and suffixes.
    CSV(Single, <<InParentheses(22, {"NEFT"}, 250, "none"), Suffixed(23, {}, 100),
                  InParentheses(23, {}, 300, "inside"), InParentheses(24, {}, 400, "outside")>>),
    \* Amounts the table rounds, rounds away, and cannot hold.
    CSV(Single, <<Signed(22, {}, 126), Signed(23, {"NEFT"}, -994)>>),
    CSV(Single, <<Signed(22, {}, 4), Signed(23, {"NEFT"}, 100)>>),
    CSV(Single, <<Signed(22, {"NEFT"}, 999999), Signed(23, {"NEFT"}, 100)>>),
    \* Files without what a statement needs.
    CSV(Single, <<>>),
    CSV({"date", "amount"}, <<Signed(22, {}, 100)>>),
    CSV(Text, <<Signed(22, {}, 100)>>),
    [wellFormed |-> FALSE, headers |-> {}, lines |-> <<>>] }

Says(index, category, confidence) ==
    [index |-> index, category |-> category, confidence |-> confidence]
Suggestions == {Says(n, c[1], c[2]) : n \in {-1, 0, 1, 2},
                c \in {<<"INCOME", 744>>, <<"TRANSFERS", 746>>, <<"UNCATEGORIZED", 1000>>}}
MCReplies == {<<>>} \cup {<<a>> : a \in Suggestions}
             \cup {<<a, b>> : a \in {s \in Suggestions : s.index \in {0, 1}}, b \in Suggestions}

Decides(index, category) == [index |-> index, category |-> category]
Decisions == {Decides(n, c) : n \in 0 .. 3, c \in MCCategories}
MCReviews == {<<>>} \cup {<<a>> : a \in Decisions}
             \cup {<<a, b>> : a \in Decisions, b \in Decisions}

=============================================================================
