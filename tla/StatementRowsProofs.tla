------------------------- MODULE StatementRowsProofs -------------------------
(***************************************************************************)
(* Proofs about a statement's rows, for any file of any length, any keyword *)
(* rules, whatever the model answers and a person decides: no money is      *)
(* lost, and what is said of a line stays with it.                          *)
(***************************************************************************)
EXTENDS StatementRows, NumberSets, FiniteSetTheorems, SequenceTheorems

----------------------------------------------------------------------------
(* The entries of a list that are about an index.                          *)

LEMMA Elements ==
    ASSUME NEW S, NEW s \in Seq(S)
    PROVE  Len(s) \in Nat /\ DOMAIN s = 1 .. Len(s) /\ \A i \in DOMAIN s : s[i] \in S
  OBVIOUS

LEMMA LastOfEntries ==
    ASSUME NEW b \in Nat, NEW entries, DOMAIN entries \subseteq 1 .. b,
           NEW index \in IndexesOf(entries)
    PROVE  \E i \in DOMAIN entries : /\ LastEntry(entries, index) = entries[i]
                                     /\ entries[i].index = index
<1> DEFINE T == {i \in DOMAIN entries : entries[i].index = index}
<1>1. T \in SUBSET (0 .. b) /\ T # {}
  BY DEF IndexesOf
<1>2. Max(T) \in T
  BY <1>1, MaxOfNumbers
<1> QED
  BY <1>2 DEF LastEntry

\* What the model is taken to say is a real category with a confidence in hundredths.
LEMMA PredictionType ==
    ASSUME NEW reply \in Replies, NEW size,
           NEW index \in IndexesOf(Accepted(reply, size))
    PROVE  Prediction(LastEntry(Accepted(reply, size), index)) \in Predictions
<1> DEFINE entries == Accepted(reply, size)
<1> DEFINE E == [index : Int, category : Categories \cup {"UNCATEGORIZED"},
                 confidence : 0 .. 1000]
<1>0. reply \in Seq(E)
  BY RepliesAssumption, ZenonT(60)
<1>1. /\ Len(reply) \in Nat /\ DOMAIN reply = 1 .. Len(reply)
      /\ \A i \in DOMAIN reply : reply[i].confidence \in 0 .. 1000
  <2>1. \A e \in E : e.confidence \in 0 .. 1000
    OBVIOUS
  <2> HIDE DEF E
  <2> QED
    BY <1>0, <2>1, Elements
<1>2. /\ DOMAIN entries \subseteq DOMAIN reply
      /\ \A i \in DOMAIN entries : entries[i] = reply[i] /\ reply[i].category \in Categories
  BY DEF Accepted, Restrict
<1> HIDE DEF entries
<1>3. PICK i \in DOMAIN entries : LastEntry(entries, index) = entries[i]
  BY <1>1, <1>2, LastOfEntries DEF entries
<1>4. entries[i].category \in Categories /\ entries[i].confidence \in 0 .. 1000
  BY <1>1, <1>2, ZenonT(60)
<1>5. (entries[i].confidence + 5) \div 10 \in 0 .. 100
  BY <1>4
<1> QED
  BY <1>3, <1>4, <1>5 DEF entries, Prediction, Predictions

\* What a person is taken to decide is a real category.
LEMMA DecisionType ==
    ASSUME NEW decisions \in Reviews, NEW index \in IndexesOf(decisions)
    PROVE  index \in Nat /\ LastEntry(decisions, index).category \in Categories
<1>1. /\ Len(decisions) \in Nat /\ DOMAIN decisions = 1 .. Len(decisions)
      /\ \A i \in DOMAIN decisions : decisions[i] \in [index : Nat, category : Categories]
  BY ReviewsAssumption, Elements
<1>2. PICK i \in DOMAIN decisions :
        LastEntry(decisions, index) = decisions[i] /\ decisions[i].index = index
  BY <1>1, LastOfEntries
<1> QED
  BY <1>1, <1>2

\* The first rule that matches names a real category.
LEMMA RuleCategory ==
    ASSUME NEW words, Matching(words) # {}
    PROVE  Rules[Min(Matching(words))].category \in Categories
<1>1. /\ Len(Rules) \in Nat /\ DOMAIN Rules = 1 .. Len(Rules)
      /\ \A i \in DOMAIN Rules : Rules[i] \in [keyword : STRING, category : Categories]
  BY RulesAssumption, Elements
<1>2. Matching(words) \in SUBSET Nat /\ Matching(words) \subseteq DOMAIN Rules
  BY <1>1 DEF Matching
<1>3. Min(Matching(words)) \in Matching(words)
  BY <1>2, MinOfNumbers
<1> QED
  BY <1>1, <1>2, <1>3

----------------------------------------------------------------------------
(* The invariant.                                                          *)

\* A row says where its category comes from, and a guess how sure the model is of it.
Fits(t) ==
    /\ {"category", "categorized_by", "confidence"} \subseteq DOMAIN t
    /\ t.categorized_by \in Sources
    /\ (t.categorized_by = "NONE") <=> (t.category = "UNCATEGORIZED")
    /\ t.categorized_by = "LLM" => t.confidence \in 0 .. 100
    /\ t.categorized_by # "LLM" => t.confidence = None

\* Nothing is categorized before the rules are applied.
RowInv ==
    /\ \A i \in DOMAIN transactions : Fits(transactions[i])
    /\ \A i \in DOMAIN table : Fits(table[i])
    /\ node = "apply_category_rules" =>
         \A i \in DOMAIN transactions : transactions[i].categorized_by = "NONE"
    /\ \A k \in DOMAIN predictions : predictions[k] \in Predictions

\* Each of the four writers leaves a row that fits.
LEMMA RuledFits ==
    ASSUME NEW t, Fits(t), t.categorized_by = "NONE" PROVE Fits(ApplyRules(t))
<1>1. CASE Matching(file.lines[t.line].words) = {}
  BY <1>1 DEF ApplyRules
<1>2. CASE Matching(file.lines[t.line].words) # {}
  <2> DEFINE c == Rules[Min(Matching(file.lines[t.line].words))].category
  <2>1. c \in Categories /\ c # "UNCATEGORIZED"
    BY <1>2, RuleCategory, AbsenceAssumption
  <2>2. ApplyRules(t) = [t EXCEPT !.category = c, !.categorized_by = "RULE"]
    BY <1>2 DEF ApplyRules
  <2> HIDE DEF c
  <2> QED
    BY <2>1, <2>2 DEF Fits, Sources
<1> QED
  BY <1>1, <1>2

LEMMA GuessedFits ==
    ASSUME NEW t, Fits(t), NEW p \in Predictions
    PROVE  Fits([t EXCEPT !.category = p.category, !.categorized_by = "LLM",
                          !.confidence = p.confidence])
<1>1. p.category # "UNCATEGORIZED" /\ p.confidence \in 0 .. 100
  BY AbsenceAssumption DEF Predictions
<1> QED
  BY <1>1 DEF Fits, Sources

LEMMA PickedFits ==
    ASSUME NEW t, Fits(t), NEW category \in Categories \cup {"UNCATEGORIZED"}
    PROVE  Fits([t EXCEPT !.category = category, !.categorized_by = SourceOf(category),
                          !.confidence = None])
  BY DEF Fits, SourceOf, Sources

LEMMA DecidedFits ==
    ASSUME NEW t, Fits(t), NEW category \in Categories
    PROVE  Fits([t EXCEPT !.category = category, !.categorized_by = "USER",
                          !.confidence = None])
  BY AbsenceAssumption DEF Fits, Sources

LEMMA NormalizeStep ==
    ASSUME RowInv, NormalizeRows PROVE RowInv'
<1>1. \A f, l : Fits(ToTransaction(f, l)) /\ ToTransaction(f, l).categorized_by = "NONE"
  BY DEF ToTransaction, Fits, Sources
<1>2. \A i \in DOMAIN transactions' :
        Fits(transactions'[i]) /\ (node' = "apply_category_rules" =>
                                     transactions'[i].categorized_by = "NONE")
  BY <1>1 DEF NormalizeRows, RowInv
<1> QED
  BY <1>2 DEF NormalizeRows, RowInv

LEMMA RulesStep ==
    ASSUME RowInv, ApplyCategoryRules PROVE RowInv'
<1>1. \A i \in DOMAIN transactions' : Fits(transactions'[i])
  BY RuledFits DEF ApplyCategoryRules, RowInv
<1> QED
  BY <1>1 DEF ApplyCategoryRules, RowInv, Storing

LEMMA AskStep ==
    ASSUME RowInv, AskModel PROVE RowInv'
<1> DEFINE chunk == SubSeq(PendingPositions(transactions), asked + 1,
                           Min({asked + BatchSize, Len(PendingPositions(transactions))}))
<1>1. PICK reply \in Replies :
        LET entries == Accepted(reply, Len(chunk))
            indexes == {PendingIndex(asked, n) : n \in IndexesOf(entries)}
            new     == [k \in indexes |->
                          Prediction(LastEntry(entries,
                            CHOOSE n \in IndexesOf(entries) : PendingIndex(asked, n) = k))]
        IN predictions' = Updated(predictions, new)
  BY DEF AskModel
<1> DEFINE size == Len(chunk)
           entries == Accepted(reply, size)
           Index(k) == CHOOSE n \in IndexesOf(entries) : PendingIndex(asked, n) = k
           indexes == {PendingIndex(asked, n) : n \in IndexesOf(entries)}
           new == [k \in indexes |-> Prediction(LastEntry(entries, Index(k)))]
<1>2. \A k \in indexes : Index(k) \in IndexesOf(entries)
  OBVIOUS
<1>3. \A k \in DOMAIN new : new[k] \in Predictions
  BY <1>2, PredictionType
<1>4. predictions' = Updated(predictions, new)
  BY <1>1
<1> HIDE DEF new
<1>5. \A k \in DOMAIN predictions' : predictions'[k] \in Predictions
  BY <1>3, <1>4 DEF RowInv, Updated
<1>6. UNCHANGED <<node, transactions, table>>
  BY DEF AskModel
<1> QED
  BY <1>5, <1>6 DEF RowInv

LEMMA PredictStep ==
    ASSUME RowInv, ApplyPredictions PROVE RowInv'
<1> DEFINE pending == PendingPositions(transactions)
           IndexIn(i) == CHOOSE k \in DOMAIN predictions : pending[k] = i
           predicted == {pending[k] : k \in DOMAIN predictions}
           Suggested(i) == [transactions[i] EXCEPT
                              !.category = predictions[IndexIn(i)].category,
                              !.categorized_by = "LLM",
                              !.confidence = predictions[IndexIn(i)].confidence]
<1>1. transactions' = [i \in DOMAIN transactions |->
                         IF i \in predicted THEN Suggested(i) ELSE transactions[i]]
  BY DEF ApplyPredictions
<1>2. \A i \in predicted : predictions[IndexIn(i)] \in Predictions
  BY DEF RowInv
<1>3. \A i \in DOMAIN transactions : i \in predicted => Fits(Suggested(i))
  BY <1>2, GuessedFits DEF RowInv
<1> HIDE DEF predicted, Suggested
<1>4. \A i \in DOMAIN transactions' : Fits(transactions'[i])
  BY <1>1, <1>3 DEF RowInv
<1>5. node' # "apply_category_rules" /\ UNCHANGED <<table, predictions>>
  BY DEF ApplyPredictions, RouteAfterLlm, Pausing, Storing
<1> QED
  BY <1>4, <1>5 DEF RowInv

LEMMA ReviewStep ==
    ASSUME RowInv, SubmitReview PROVE RowInv'
<1>1. PICK entries \in Reviews :
        LET Position(index) == index + 1
            Decide(i) == [transactions[i] EXCEPT
                            !.category = LastEntry(entries, i - 1).category,
                            !.categorized_by = "USER",
                            !.confidence = None]
            positions == {Position(n) : n \in IndexesOf(entries)}
        IN transactions' = [i \in DOMAIN transactions |->
                              IF i \in positions THEN Decide(i) ELSE transactions[i]]
  BY DEF SubmitReview
<1> DEFINE Decide(i) == [transactions[i] EXCEPT
                           !.category = LastEntry(entries, i - 1).category,
                           !.categorized_by = "USER",
                           !.confidence = None]
           positions == {n + 1 : n \in IndexesOf(entries)}
<1>2. \A i \in positions : LastEntry(entries, i - 1).category \in Categories
  <2>1. \A n \in IndexesOf(entries) :
          (n + 1) - 1 = n /\ LastEntry(entries, n).category \in Categories
    BY DecisionType
  <2> QED
    BY <2>1
<1>3. \A i \in DOMAIN transactions : i \in positions => Fits(Decide(i))
  BY <1>2, DecidedFits DEF RowInv
<1>4. transactions' = [i \in DOMAIN transactions |->
                         IF i \in positions THEN Decide(i) ELSE transactions[i]]
  BY <1>1
<1> HIDE DEF positions, Decide
<1>5. \A i \in DOMAIN transactions' : Fits(transactions'[i])
  BY <1>3, <1>4 DEF RowInv
<1>6. node' # "apply_category_rules" /\ UNCHANGED <<table, predictions>>
  BY DEF SubmitReview, Storing
<1> QED
  BY <1>5, <1>6 DEF RowInv

LEMMA StoreStep ==
    ASSUME RowInv, StoreTransactions PROVE RowInv'
<1>1. \A t, a : Fits(t) => Fits([t EXCEPT !.amount = a])
  BY DEF Fits
<1> DEFINE Stored(i) == [transactions[i] EXCEPT !.amount = Rounded(transactions[i].amount)]
<1>2. table' = table \/ table' = [i \in DOMAIN transactions |-> Stored(i)]
  BY DEF StoreTransactions
<1>3. \A i \in DOMAIN transactions : Fits(Stored(i))
  BY <1>1 DEF RowInv
<1> HIDE DEF Stored
<1>4. \A i \in DOMAIN table' : Fits(table'[i])
  BY <1>2, <1>3 DEF RowInv
<1> QED
  BY <1>4 DEF StoreTransactions, RowInv

LEMMA CategoryStep ==
    ASSUME RowInv, NEW i \in DOMAIN table, NEW category \in Categories \cup {"UNCATEGORIZED"},
           SetCategory(i, category)
    PROVE  RowInv'
<1> DEFINE row == [table[i] EXCEPT !.category = category,
                                   !.categorized_by = SourceOf(category), !.confidence = None]
<1>1. table' = [table EXCEPT ![i] = row]
  BY DEF SetCategory
<1>2. Fits(row)
  BY PickedFits DEF RowInv
<1> HIDE DEF row
<1>3. \A j \in DOMAIN table' : Fits(table'[j])
  BY <1>1, <1>2 DEF RowInv
<1> QED
  BY <1>3 DEF SetCategory, RowInv

THEOREM RowInvariant == Spec => []RowInv
<1>1. Init => RowInv
  BY DEF Init, RowInv
<1>2. RowInv /\ [Next]_vars => RowInv'
  <2>1. RowInv /\ (ParseCsv \/ NoSuggestions \/ UNCHANGED vars) => RowInv'
    BY DEF RowInv, ParseCsv, NoSuggestions, RouteAfterLlm, Pausing, Storing, vars
  <2> QED
    BY <2>1, NormalizeStep, RulesStep, AskStep, PredictStep, ReviewStep, StoreStep,
       CategoryStep
    DEF Next
<1> QED
  BY <1>1, <1>2, PTL DEF Spec

\* The rules, the model, the review and a later recategorization leave no row whose source,
\* category and confidence contradict each other, in the run or in the table.
THEOREM SourcesFit == Spec => []SourceFitsCategory
<1>1. RowInv => SourceFitsCategory
  BY AbsenceAssumption DEF RowInv, Fits, SourceFitsCategory, Range
<1> QED
  BY <1>1, RowInvariant, PTL


----------------------------------------------------------------------------
(* The numbers of a set in ascending order.                                *)

\* Any set of line numbers can be listed in ascending order.
LEMMA OrderExists ==
    ASSUME NEW b \in Nat, NEW S \in SUBSET (1 .. b)
    PROVE  \E s \in [1 .. Cardinality(S) -> S] : \A i, j \in DOMAIN s : i < j => s[i] < s[j]
<1> DEFINE IsListed(T) ==
             \E s \in [1 .. Cardinality(T) -> T] : \A i, j \in DOMAIN s : i < j => s[i] < s[j]
           Fails == {n \in Nat : \E T \in SUBSET (1 .. n) : ~IsListed(T)}
<1>1. SUFFICES Fails = {}
  OBVIOUS
<1>2. SUFFICES ASSUME Fails # {} PROVE FALSE
  OBVIOUS
<1>0. \A m \in Nat : (\E T \in SUBSET (1 .. m) : ~IsListed(T)) => m \in Fails
  OBVIOUS
<1>3. PICK n \in Fails : \A m \in Fails : n <= m
  <2>1. Fails \in SUBSET Nat
    OBVIOUS
  <2> HIDE DEF Fails
  <2> QED
    BY <1>2, <2>1, SmallestExists
<1>4. PICK T \in SUBSET (1 .. n) : ~IsListed(T)
  OBVIOUS
<1>5. n \in Nat
  OBVIOUS
<1> HIDE DEF Fails
<1>m. \A m \in Nat : m < n => m \notin Fails
  BY <1>3, <1>5
<1>6. IsFiniteSet(T)
  <2>1. IsFiniteSet(1 .. n)
    BY <1>5, FS_Interval
  <2> QED
    BY <2>1, FS_Subset
<1>7. n \in T
  <2> SUFFICES ASSUME n \notin T PROVE FALSE
    OBVIOUS
  <2>1. CASE n = 0
    <3>0. T = {}
      BY <2>1
    <3>1. T = {} /\ Cardinality(T) = 0
      BY <3>0, FS_EmptySet
    <3>2. [i \in 1 .. 0 |-> i] \in [1 .. Cardinality(T) -> T]
      BY <3>1
    <3>3. \A s \in [1 .. Cardinality(T) -> T] : DOMAIN s = {}
      BY <3>1
    <3> QED
      BY <1>4, <3>2, <3>3
  <2>2. CASE n # 0
    <3>1. n - 1 \in Nat /\ T \in SUBSET (1 .. n - 1)
      BY <1>5, <2>2
    <3>2. n - 1 \in Fails
      BY <1>0, <1>4, <3>1
    <3> QED
      BY <1>m, <1>5, <3>1, <3>2
  <2> QED
    BY <2>1, <2>2
<1>8. PICK U : U = T \ {n}
  OBVIOUS
<1>9. U \in SUBSET (1 .. n - 1) /\ n - 1 \in Nat /\ n \in Nat \ {0}
  BY <1>5, <1>7, <1>8
<1>10. Cardinality(U) = Cardinality(T) - 1 /\ Cardinality(T) \in Nat /\ Cardinality(U) \in Nat
  <2>1. IsFiniteSet(U) /\ Cardinality(U) = Cardinality(T) - 1
    BY <1>6, <1>7, <1>8, FS_RemoveElement
  <2> QED
    BY <1>6, <2>1, FS_CardinalityType
<1>11. IsListed(U)
  <2>1. n - 1 \notin Fails
    BY <1>m, <1>5, <1>9
  <2> QED
    BY <1>0, <1>9, <2>1
<1>12. PICK s \in [1 .. Cardinality(U) -> U] : \A i, j \in DOMAIN s : i < j => s[i] < s[j]
  BY <1>11
<1>13. PICK c \in Nat : c = Cardinality(U) /\ Cardinality(T) = c + 1
  BY <1>10
<1>14. PICK r : r = [i \in 1 .. c + 1 |-> IF i = c + 1 THEN n ELSE s[i]]
  OBVIOUS
<1>r. r[c + 1] = n /\ \A i \in 1 .. c : r[i] = s[i] /\ s[i] \in U
  BY <1>12, <1>13, <1>14
<1>i. \A i \in 1 .. c + 1 : i = c + 1 \/ i \in 1 .. c
  OBVIOUS
<1>15. r \in [1 .. c + 1 -> T]
  BY <1>7, <1>8, <1>14, <1>r, <1>i
<1>16. \A i, j \in 1 .. c + 1 : i < j => r[i] < r[j]
  <2> SUFFICES ASSUME NEW i \in 1 .. c + 1, NEW j \in 1 .. c + 1, i < j PROVE r[i] < r[j]
    OBVIOUS
  <2>1. i \in 1 .. c /\ r[i] = s[i] /\ s[i] \in 1 .. n - 1
    <3>1. i \in 1 .. c
      BY <1>13
    <3> QED
      BY <1>9, <1>r, <3>1
  <2>2. CASE j = c + 1
    BY <1>9, <1>r, <2>1, <2>2
  <2>3. CASE j \in 1 .. c
    BY <1>12, <1>13, <1>r, <2>1, <2>3
  <2> QED
    BY <2>2, <2>3
<1> QED
  BY <1>4, <1>13, <1>15, <1>16

LEMMA OrderLists ==
    ASSUME NEW b \in Nat, NEW S \in SUBSET (1 .. b)
    PROVE  /\ InOrder(S) \in Seq(S) /\ Len(InOrder(S)) \in 0 .. b
           /\ \A i, j \in 1 .. Len(InOrder(S)) : i < j => InOrder(S)[i] < InOrder(S)[j]
           /\ \A x \in S : \E i \in 1 .. Len(InOrder(S)) : InOrder(S)[i] = x
<1>1. PICK s : s = InOrder(S)
  OBVIOUS
<1>2. s \in [1 .. Cardinality(S) -> S] /\ \A i, j \in DOMAIN s : i < j => s[i] < s[j]
  BY <1>1, OrderExists DEF InOrder
<1>3. IsFiniteSet(S) /\ Cardinality(S) \in Nat /\ Cardinality(S) <= b
  <2>1. IsFiniteSet(1 .. b) /\ Cardinality(1 .. b) = b
    BY FS_Interval
  <2> QED
    BY <2>1, FS_Subset, FS_CardinalityType
<1>4. s \in Seq(S) /\ Len(s) = Cardinality(S) /\ DOMAIN s = 1 .. Cardinality(S)
  <2>1. s \in Seq(S) /\ DOMAIN s = 1 .. Cardinality(S)
    BY <1>2, <1>3
  <2> QED
    BY <1>3, <2>1, LenProperties
<1>5. ASSUME NEW x \in S, \A i \in 1 .. Cardinality(S) : s[i] # x PROVE FALSE
  <2>1. s \in [1 .. Cardinality(S) -> S \ {x}]
    BY <1>2, <1>5, SMTT(30)
  <2>2. IsFiniteSet(S \ {x}) /\ Cardinality(S \ {x}) = Cardinality(S) - 1
    BY <1>3, FS_RemoveElement
  <2>3. IsFiniteSet(1 .. Cardinality(S)) /\ Cardinality(1 .. Cardinality(S)) = Cardinality(S)
    BY <1>3, FS_Interval
  <2>4. PICK i, j \in 1 .. Cardinality(S) : i # j /\ s[i] = s[j]
    <3>1. Cardinality(S \ {x}) < Cardinality(1 .. Cardinality(S))
      BY <1>3, <2>2, <2>3
    <3>2. PICK D, E : D = 1 .. Cardinality(S) /\ E = S \ {x}
      OBVIOUS
    <3>3. s \in [D -> E] /\ IsFiniteSet(D) /\ IsFiniteSet(E) /\ Cardinality(E) < Cardinality(D)
      BY <2>1, <2>2, <2>3, <3>1, <3>2
    <3>4. \E i, j \in D : i # j /\ s[i] = s[j]
      BY <3>3, FS_PigeonHole
    <3> QED
      BY <3>2, <3>4
  <2>5. s[i] \in Nat /\ s[j] \in Nat
    <3>1. s[i] \in S /\ s[j] \in S
      BY <1>2
    <3>2. \A y \in S : y \in Nat
      OBVIOUS
    <3> QED
      BY <3>1, <3>2
  <2> QED
    BY <1>2, <1>3, <1>4, <2>4, <2>5
<1> QED
  BY <1>1, <1>2, <1>3, <1>4, <1>5

----------------------------------------------------------------------------
(* The rows are the file's lines, each is shown to the model in its place, *)
(* and what the model says of it is remembered under its line.             *)

\* A row has the date, the amount and the direction of a line that can be used.
IsOfLine(t) ==
    /\ t.line \in DOMAIN file.lines /\ ~IsSkipped(file.lines[t.line], file.headers)
    /\ LET row == ToTransaction(file, t.line)
       IN t.date = row.date /\ t.amount = row.amount /\ t.direction = row.direction

Unread == {"parse_csv", "normalize_rows"}
Unruled == Unread \cup {"apply_category_rules"}

LinesInv ==
    /\ \A i \in DOMAIN transactions : IsOfLine(transactions[i])
    /\ \A i, j \in DOMAIN transactions : i < j => transactions[i].line < transactions[j].line
    /\ node \in Unread => transactions = <<>>
    /\ node \notin {"parse_csv", "FAILED"} => Detected(file.headers)
    /\ node \notin Unread \cup {"FAILED"} =>
         /\ transactions # <<>> /\ skipped + Len(transactions) = Len(file.lines)
         /\ \A l \in DOMAIN file.lines :
              ~IsSkipped(file.lines[l], file.headers) =>
                \E i \in DOMAIN transactions : transactions[i].line = l

Hits(t) == Matching(file.lines[t.line].words)

WordsInv ==
    /\ node \in Unruled => said = <<>> /\ predictions = <<>> /\ asked = 0
    /\ node \notin Unruled \cup {"FAILED"} =>
         \A i \in DOMAIN transactions :
            Hits(transactions[i]) # {} =>
               /\ transactions[i].categorized_by = "RULE"
               /\ transactions[i].category = Rules[Min(Hits(transactions[i]))].category
               /\ transactions[i].line \notin DOMAIN said

\* The line of the k-th row that waits for the model.
PendingLine(k) == transactions[PendingPositions(transactions)[k]].line

\* While the model is asked nothing is a guess yet, and the predictions are what it said.
PromptInv ==
    node = "categorize_with_llm" =>
        /\ \A i \in DOMAIN transactions : transactions[i].categorized_by \in {"NONE", "RULE"}
        /\ DOMAIN predictions \subseteq 1 .. Len(PendingPositions(transactions))
        /\ DOMAIN said = {PendingLine(k) : k \in DOMAIN predictions}
        /\ \A k \in DOMAIN predictions : said[PendingLine(k)] = predictions[k]

FileInv == TypeOK /\ LinesInv /\ WordsInv /\ PromptInv /\ SuggestionsReachTheirRows

LEMMA FileTypes ==
    ASSUME file \in Files
    PROVE  /\ file.wellFormed \in BOOLEAN /\ file.headers \subseteq Columns
           /\ Len(file.lines) \in Nat /\ DOMAIN file.lines = 1 .. Len(file.lines)
           /\ \A l \in DOMAIN file.lines : file.lines[l] \in Lines
<1>1. /\ file.wellFormed \in BOOLEAN /\ file.headers \subseteq Columns
      /\ file.lines \in Seq(Lines)
  BY FilesAssumption
<1> QED
  BY <1>1, Elements

LEMMA RowTypes ==
    ASSUME TypeOK
    PROVE  /\ Len(transactions) \in Nat /\ DOMAIN transactions = 1 .. Len(transactions)
           /\ \A i \in DOMAIN transactions : transactions[i] \in Transactions
           /\ Len(table) \in Nat /\ DOMAIN table = 1 .. Len(table)
           /\ \A i \in DOMAIN table : table[i] \in Transactions
  BY Elements DEF TypeOK

LEMMA AmountType ==
    ASSUME NEW line \in Lines, NEW column \in AmountColumns
    PROVE  AmountIn(line, column) \in Int \cup {None, NotANumber}
<1>1. PICK cell : cell = line[column]
  OBVIOUS
<1>2. cell \in Cells
  BY <1>1 DEF Lines, AmountColumns
<1>3. cell.reads \in Int \cup {None, NotANumber}
  BY <1>2 DEF Cells
<1> QED
  BY <1>1, <1>3 DEF AmountIn, ParseAmount

LEMMA ColumnType ==
    ASSUME NEW line, NEW headers
    PROVE  FilledColumn(line, headers) \in AmountColumns
  BY DEF FilledColumn, AmountColumns

\* A line that can be used makes a row of the right type.
LEMMA TransactionType ==
    ASSUME file \in Files, NEW l \in DOMAIN file.lines, ~IsSkipped(file.lines[l], file.headers)
    PROVE  ToTransaction(file, l) \in Transactions
<1>1. PICK line, amount : /\ line = file.lines[l]
                          /\ amount = AmountIn(line, FilledColumn(line, file.headers))
  OBVIOUS
<1>2. line \in Lines /\ l \in Nat \ {0}
  BY <1>1, FileTypes
<1>3. amount \in Int \cup {None, NotANumber} /\ amount # None
  BY <1>1, <1>2, AmountType, ColumnType DEF IsSkipped
<1>4. Magnitude(amount) \in Nat \cup {NotANumber}
  BY <1>3, AbsenceAssumption DEF Magnitude
<1>5. line.date \in Nat
  BY <1>1, <1>2 DEF IsSkipped, Lines
<1>6. Direction(line, file.headers) \in {"DEBIT", "CREDIT"}
  BY DEF Direction
<1> QED
  BY <1>1, <1>2, <1>4, <1>5, <1>6 DEF ToTransaction, Transactions, Sources

\* Nothing but the category, its source and its confidence changes, and no row comes or goes.
SameFacts(t, u) ==
    t.line = u.line /\ t.date = u.date /\ t.amount = u.amount /\ t.direction = u.direction

LEMMA LinesStay ==
    ASSUME TypeOK, LinesInv, transactions' \in Seq(Transactions),
           DOMAIN transactions' = DOMAIN transactions, UNCHANGED <<file, skipped>>,
           \A i \in DOMAIN transactions : SameFacts(transactions'[i], transactions[i]),
           node' = node \/ (node' \notin Unread /\ node \notin Unread \cup {"FAILED"})
    PROVE  LinesInv'
<1>1. Len(transactions') = Len(transactions)
  <2>1. /\ Len(transactions') \in Nat /\ DOMAIN transactions' = 1 .. Len(transactions')
        /\ Len(transactions) \in Nat /\ DOMAIN transactions = 1 .. Len(transactions)
    BY RowTypes, Elements
  <2>2. \A m, n \in Nat : 1 .. m = 1 .. n => m = n
    <3>1. ASSUME NEW m \in Nat, NEW n \in Nat, m < n PROVE 1 .. m # 1 .. n
      <4>1. n \in 1 .. n /\ n \notin 1 .. m
        BY <3>1
      <4> QED
        BY <4>1
    <3> QED
      BY <3>1
  <2> QED
    BY <2>1, <2>2
<1>2. transactions' # <<>> <=> transactions # <<>>
  BY <1>1, RowTypes, EmptySeq DEF TypeOK
<1>3. \A i \in DOMAIN transactions : IsOfLine(transactions[i]) => IsOfLine(transactions[i])'
  BY DEF IsOfLine, SameFacts
<1> QED
  BY <1>1, <1>2, <1>3 DEF LinesInv, SameFacts, Unread

\* No two rows are of one line.
LEMMA OneRowPerLine ==
    ASSUME TypeOK, LinesInv, NEW i \in DOMAIN transactions, NEW j \in DOMAIN transactions,
           transactions[i].line = transactions[j].line
    PROVE  i = j
<1>1. /\ i \in Nat /\ j \in Nat
      /\ transactions[i].line \in Nat /\ transactions[j].line \in Nat
  BY RowTypes DEF Transactions
<1>2. ~(i < j) /\ ~(j < i)
  BY <1>1 DEF LinesInv
<1> QED
  BY <1>1, <1>2

\* The rows that wait for the model, each once, and their lines.
LEMMA PendingRows ==
    ASSUME TypeOK
    PROVE  LET p == PendingPositions(transactions) IN
           /\ p \in Seq(DOMAIN transactions) /\ Len(p) \in 0 .. Len(transactions)
           /\ DOMAIN p = 1 .. Len(p)
           /\ \A k \in 1 .. Len(p) :
                p[k] \in DOMAIN transactions /\ ~IsCategorized(transactions[p[k]])
           /\ \A j, k \in 1 .. Len(p) : p[j] = p[k] => j = k
           /\ \A i \in DOMAIN transactions :
                ~IsCategorized(transactions[i]) => \E k \in 1 .. Len(p) : p[k] = i
<1>1. PICK S : S = {i \in DOMAIN transactions : ~IsCategorized(transactions[i])}
  OBVIOUS
<1>2. PICK p : p = InOrder(S) /\ p = PendingPositions(transactions)
  BY <1>1 DEF PendingPositions
<1>3. Len(transactions) \in Nat /\ S \in SUBSET (1 .. Len(transactions))
  BY <1>1, RowTypes
<1>4. /\ p \in Seq(S) /\ Len(p) \in 0 .. Len(transactions)
      /\ \A i, j \in 1 .. Len(p) : i < j => p[i] < p[j]
      /\ \A x \in S : \E i \in 1 .. Len(p) : p[i] = x
  BY <1>2, <1>3, OrderLists
<1>5. /\ DOMAIN p = 1 .. Len(p) /\ \A k \in 1 .. Len(p) : p[k] \in S
      /\ p \in Seq(DOMAIN transactions)
  BY <1>1, <1>4, LenProperties, ElementOfSeq, SeqMonotonic
<1>6. ASSUME NEW j \in 1 .. Len(p), NEW k \in 1 .. Len(p), p[j] = p[k] PROVE j = k
  <2>1. p[j] \in Nat /\ p[k] \in Nat
    BY <1>3, <1>5
  <2>2. ~(p[j] < p[k]) /\ ~(p[k] < p[j])
    BY <1>6, <2>1
  <2>3. ~(j < k) /\ ~(k < j)
    BY <1>4, <2>2
  <2> QED
    BY <1>4, <2>3
<1> QED
  BY <1>1, <1>2, <1>4, <1>5, <1>6

LEMMA PendingLines ==
    ASSUME TypeOK, LinesInv
    PROVE  \A j, k \in 1 .. Len(PendingPositions(transactions)) :
              PendingLine(j) = PendingLine(k) => j = k
  BY PendingRows, OneRowPerLine DEF PendingLine

\* Of several entries about a row the last is used, and it is the one nothing follows.
LEMMA FinalIsLast ==
    ASSUME NEW b \in Nat, NEW entries, DOMAIN entries \subseteq 1 .. b,
           NEW index \in IndexesOf(entries)
    PROVE  FinalEntry(entries, index) = LastEntry(entries, index)
<1>1. PICK T : T = {i \in DOMAIN entries : entries[i].index = index}
  OBVIOUS
<1>2. T \in SUBSET (0 .. b) /\ T # {}
  BY <1>1 DEF IndexesOf
<1>3. Max(T) \in T /\ \A m \in T : m <= Max(T)
  BY <1>2, MaxOfNumbers
<1>4. PICK last : last = CHOOSE i \in DOMAIN entries :
                           /\ entries[i].index = index
                           /\ \A j \in DOMAIN entries : entries[j].index = index => j <= i
  OBVIOUS
<1>5. /\ last \in DOMAIN entries /\ entries[last].index = index
      /\ \A j \in DOMAIN entries : entries[j].index = index => j <= last
  BY <1>1, <1>3, <1>4
<1>6. last = Max(T)
  <2>1. last \in T /\ last <= Max(T) /\ Max(T) <= last
    BY <1>1, <1>3, <1>5
  <2>2. last \in Nat /\ Max(T) \in Nat
    <3>1. \A i \in T : i \in Nat
      BY <1>2
    <3> QED
      BY <1>3, <2>1, <3>1
  <2> QED
    BY <2>1, <2>2
<1> QED
  BY <1>1, <1>4, <1>6 DEF FinalEntry, LastEntry

----------------------------------------------------------------------------
(* The steps of the pipeline.                                              *)

\* The invariants that the steps keep together.
AllInv == RowInv /\ FileInv

LEMMA RuledType ==
    ASSUME NEW t \in Transactions PROVE ApplyRules(t) \in Transactions /\ SameFacts(ApplyRules(t), t)
<1>1. CASE Matching(file.lines[t.line].words) = {}
  BY <1>1 DEF ApplyRules, SameFacts
<1>2. CASE Matching(file.lines[t.line].words) # {}
  <2>1. PICK c \in Categories : c = Rules[Min(Matching(file.lines[t.line].words))].category
    BY <1>2, RuleCategory
  <2>2. ApplyRules(t) = [t EXCEPT !.category = c, !.categorized_by = "RULE"]
    BY <1>2, <2>1 DEF ApplyRules
  <2> QED
    BY <2>1, <2>2 DEF Transactions, SameFacts, Sources
<1> QED
  BY <1>1, <1>2

\* A sequence in place of the rows.
LEMMA RowsType ==
    ASSUME TypeOK, NEW rows, DOMAIN rows = DOMAIN transactions,
           rows = [i \in DOMAIN transactions |-> rows[i]],
           \A i \in DOMAIN transactions : rows[i] \in Transactions
    PROVE  rows \in Seq(Transactions)
<1>1. rows \in [1 .. Len(transactions) -> Transactions] /\ Len(transactions) \in Nat
  BY RowTypes
<1> QED
  BY <1>1

LEMMA FileParse ==
    ASSUME AllInv, ParseCsv PROVE FileInv'
<1>1. /\ node = "parse_csv" /\ transactions = <<>>
      /\ UNCHANGED <<file, suggester, transactions, skipped, asked, predictions,
                     table, statement, said, decided>>
      /\ node' \in {"normalize_rows", "FAILED"}
      /\ node' = "normalize_rows" => Detected(file.headers)
  BY DEF ParseCsv, AllInv, FileInv, LinesInv, Unread
<1>0. /\ UNCHANGED <<file, suggester, transactions, skipped, asked, predictions,
                     table, statement, said, decided>>
      /\ node' \in {"normalize_rows", "FAILED"}
  BY <1>1
<1>2. TypeOK'
  BY <1>0 DEF AllInv, FileInv, TypeOK, Nodes
<1>3. LinesInv' /\ WordsInv' /\ PromptInv'
  <2>1. \A i \in DOMAIN transactions : IsOfLine(transactions[i])'
    BY <1>0 DEF AllInv, FileInv, LinesInv, IsOfLine
  <2>2. LinesInv'
    <3>1. node' = "normalize_rows" => transactions' = <<>> /\ Detected(file.headers)
      BY <1>1
    <3> QED
      BY <1>0, <2>1, <3>1 DEF AllInv, FileInv, LinesInv, Unread
  <2> QED
    BY <1>0, <1>1, <2>2 DEF AllInv, FileInv, WordsInv, PromptInv, Unruled, Unread
<1>4. SuggestionsReachTheirRows'
  BY <1>0 DEF AllInv, FileInv, SuggestionsReachTheirRows
<1> QED
  BY <1>2, <1>3, <1>4 DEF FileInv

\* Every line that can be used becomes a row, in the file's order.
LEMMA FileNormalize ==
    ASSUME AllInv, NormalizeRows PROVE FileInv'
<1>1. PICK usable : usable = UsableLines(file)
  OBVIOUS
<1>2. /\ node = "normalize_rows" /\ transactions = <<>> /\ said = <<>> /\ predictions = <<>>
      /\ asked = 0 /\ Detected(file.headers)
      /\ UNCHANGED <<file, suggester, asked, predictions, table, statement, said, decided>>
      /\ \/ UNCHANGED <<transactions, skipped>> /\ node' = "FAILED"
         \/ /\ transactions' = [i \in DOMAIN usable |-> ToTransaction(file, usable[i])]
            /\ skipped' = Len(file.lines) - Len(usable)
            /\ node' = IF usable = <<>> THEN "FAILED" ELSE "apply_category_rules"
  BY <1>1 DEF NormalizeRows, AllInv, FileInv, LinesInv, WordsInv, Unread, Unruled
<1>3. file \in Files /\ Len(file.lines) \in Nat /\ DOMAIN file.lines = 1 .. Len(file.lines)
  BY FileTypes DEF AllInv, FileInv, TypeOK
<1>4. /\ Len(usable) \in 0 .. Len(file.lines) /\ DOMAIN usable = 1 .. Len(usable)
      /\ \A i, j \in 1 .. Len(usable) : i < j => usable[i] < usable[j]
      /\ \A i \in 1 .. Len(usable) :
           usable[i] \in DOMAIN file.lines /\ ~IsSkipped(file.lines[usable[i]], file.headers)
      /\ \A l \in DOMAIN file.lines :
           ~IsSkipped(file.lines[l], file.headers) => \E i \in 1 .. Len(usable) : usable[i] = l
      /\ usable # <<>> => Len(usable) # 0
  <2>1. PICK S : S = {l \in DOMAIN file.lines : ~IsSkipped(file.lines[l], file.headers)}
    OBVIOUS
  <2>2. usable = InOrder(S) /\ S \in SUBSET (1 .. Len(file.lines))
    BY <1>1, <1>3, <2>1 DEF UsableLines
  <2>3. /\ usable \in Seq(S) /\ Len(usable) \in 0 .. Len(file.lines)
        /\ \A i, j \in 1 .. Len(usable) : i < j => usable[i] < usable[j]
        /\ \A x \in S : \E i \in 1 .. Len(usable) : usable[i] = x
    BY <1>3, <2>2, OrderLists
  <2>4. DOMAIN usable = 1 .. Len(usable) /\ \A i \in 1 .. Len(usable) : usable[i] \in S
    BY <2>3, LenProperties, ElementOfSeq
  <2>5. usable # <<>> => Len(usable) # 0
    BY <2>3, EmptySeq
  <2> QED
    BY <2>1, <2>3, <2>4, <2>5
<1>5. CASE UNCHANGED <<transactions, skipped>> /\ node' = "FAILED"
  <2>1. TypeOK'
    BY <1>2, <1>5 DEF AllInv, FileInv, TypeOK, Nodes
  <2>2. LinesInv' /\ WordsInv' /\ PromptInv'
    BY <1>2, <1>5 DEF LinesInv, WordsInv, PromptInv, Unread, Unruled
  <2>3. SuggestionsReachTheirRows'
    BY <1>2, <1>5 DEF AllInv, FileInv, SuggestionsReachTheirRows
  <2> QED
    BY <2>1, <2>2, <2>3 DEF FileInv
<1>6. CASE /\ transactions' = [i \in DOMAIN usable |-> ToTransaction(file, usable[i])]
           /\ skipped' = Len(file.lines) - Len(usable)
           /\ node' = IF usable = <<>> THEN "FAILED" ELSE "apply_category_rules"
  <2>1. /\ DOMAIN transactions' = 1 .. Len(usable)
        /\ \A i \in 1 .. Len(usable) :
             transactions'[i] = ToTransaction(file, usable[i]) /\ transactions'[i] \in Transactions
    BY <1>3, <1>4, <1>6, TransactionType
  <2>2. transactions' \in Seq(Transactions) /\ Len(transactions') = Len(usable)
    <3>1. transactions' = [i \in 1 .. Len(usable) |-> ToTransaction(file, usable[i])]
          /\ Len(usable) \in Nat
      BY <1>4, <1>6
    <3> QED
      BY <2>1, <3>1
  <2>3. skipped' \in Nat /\ skipped' + Len(transactions') = Len(file.lines)
    BY <1>3, <1>4, <1>6, <2>2
  <2>4. \A i \in 1 .. Len(usable) :
          /\ transactions'[i].line = usable[i] /\ transactions'[i].categorized_by = "NONE"
          /\ IsOfLine(transactions[i])'
    BY <1>2, <1>4, <2>1 DEF IsOfLine, ToTransaction
  <2>5. node' # "FAILED" => transactions' # <<>>
    BY <1>4, <1>6, <2>2, EmptySeq
  <2>6. TypeOK'
    BY <1>2, <1>6, <2>2, <2>3 DEF AllInv, FileInv, TypeOK, Nodes
  <2>7. LinesInv'
    <3>1. \A i \in DOMAIN transactions' : IsOfLine(transactions[i])'
      BY <2>1, <2>4
    <3>2. \A i, j \in DOMAIN transactions' : i < j => transactions'[i].line < transactions'[j].line
      BY <1>4, <2>1, <2>4
    <3>3. \A l \in DOMAIN file.lines : ~IsSkipped(file.lines[l], file.headers) =>
             \E i \in DOMAIN transactions' : transactions'[i].line = l
      BY <1>4, <2>1, <2>4
    <3> QED
      BY <1>2, <1>6, <2>3, <2>5, <3>1, <3>2, <3>3 DEF LinesInv, Unread
  <2>8. WordsInv' /\ PromptInv'
    BY <1>2, <1>6 DEF WordsInv, PromptInv, Unruled
  <2>9. SuggestionsReachTheirRows'
    BY <2>1, <2>4 DEF SuggestionsReachTheirRows, Range
  <2> QED
    BY <2>6, <2>7, <2>8, <2>9 DEF FileInv
<1> QED
  BY <1>2, <1>5, <1>6

\* Every row some rule matches has the first such rule's category; the others wait.
LEMMA FileRules ==
    ASSUME AllInv, ApplyCategoryRules PROVE FileInv'
<1>1. /\ node = "apply_category_rules" /\ node' \in {Storing, "categorize_with_llm"}
      /\ transactions' = [i \in DOMAIN transactions |-> ApplyRules(transactions[i])]
      /\ said = <<>> /\ predictions = <<>> /\ asked = 0
      /\ UNCHANGED <<file, suggester, skipped, asked, predictions, table, statement, said, decided>>
  BY DEF ApplyCategoryRules, AllInv, FileInv, WordsInv, Unruled
<1>2. /\ DOMAIN transactions' = DOMAIN transactions
      /\ \A i \in DOMAIN transactions :
           /\ transactions'[i] = ApplyRules(transactions[i])
           /\ transactions'[i] \in Transactions /\ SameFacts(transactions'[i], transactions[i])
  BY <1>1, RowTypes, RuledType DEF AllInv, FileInv
<1>3. transactions' \in Seq(Transactions)
  BY <1>1, <1>2, RowsType DEF AllInv, FileInv
<1>4. LinesInv'
  BY <1>1, <1>2, <1>3, LinesStay DEF AllInv, FileInv, Unread, Storing
<1>5. ASSUME NEW i \in DOMAIN transactions
      PROVE  /\ transactions'[i].categorized_by \in {"NONE", "RULE"}
             /\ Hits(transactions[i])' # {} =>
                  /\ transactions'[i].categorized_by = "RULE"
                  /\ transactions'[i].category = Rules[Min(Hits(transactions[i])')].category
  <2>1. transactions[i] \in Transactions /\ transactions[i].categorized_by = "NONE"
    BY <1>1, RowTypes DEF AllInv, FileInv, RowInv
  <2>2. Hits(transactions[i])' = Matching(file.lines[transactions[i].line].words)
    BY <1>1, <1>2 DEF Hits, SameFacts, Matching
  <2>3. CASE Matching(file.lines[transactions[i].line].words) = {}
    BY <1>2, <2>1, <2>2, <2>3 DEF ApplyRules
  <2>4. CASE Matching(file.lines[transactions[i].line].words) # {}
    <3>1. PICK c : c = Rules[Min(Matching(file.lines[transactions[i].line].words))].category
      OBVIOUS
    <3>2. transactions'[i] = [transactions[i] EXCEPT !.category = c, !.categorized_by = "RULE"]
      BY <1>2, <2>4, <3>1 DEF ApplyRules
    <3>3. transactions'[i].category = c /\ transactions'[i].categorized_by = "RULE"
      BY <2>1, <3>2 DEF Transactions
    <3> QED
      BY <2>2, <3>1, <3>3
  <2> QED
    BY <2>3, <2>4
<1>6. WordsInv'
  BY <1>1, <1>2, <1>5 DEF WordsInv, Unruled, Storing
<1>7. PromptInv'
  <2>1. DOMAIN said' = {} /\ DOMAIN predictions' = {}
    BY <1>1
  <2> QED
    BY <1>2, <1>5, <2>1 DEF PromptInv
<1>8. SuggestionsReachTheirRows'
  BY <1>2, <1>5 DEF SuggestionsReachTheirRows, Range
<1>9. TypeOK'
  <2>1. node' \in Nodes /\ DOMAIN predictions' = {}
    BY <1>1 DEF Nodes, Storing
  <2> QED
    BY <1>1, <1>3, <2>1 DEF AllInv, FileInv, TypeOK
<1> QED
  BY <1>4, <1>6, <1>7, <1>8, <1>9 DEF FileInv

\* The next prompt: where its numbers lead, and what is remembered of its answer.
LEMMA Prompt ==
    ASSUME AllInv, node = "categorize_with_llm", asked < Len(PendingPositions(transactions)),
           NEW reply \in Replies
    PROVE  LET pending == PendingPositions(transactions)
               chunk   == SubSeq(pending, asked + 1, Min({asked + BatchSize, Len(pending)}))
               entries == Accepted(reply, Len(chunk))
               indexes == {PendingIndex(asked, n) : n \in IndexesOf(entries)}
               new     == [k \in indexes |->
                             Prediction(LastEntry(entries,
                               CHOOSE n \in IndexesOf(entries) : PendingIndex(asked, n) = k))]
               news    == SaidOf(entries, [i \in DOMAIN chunk |-> transactions[chunk[i]].line])
           IN /\ DOMAIN new \subseteq 1 .. Len(pending)
              /\ DOMAIN news = {PendingLine(k) : k \in DOMAIN new}
              /\ \A k \in DOMAIN new : new[k] \in Predictions /\ news[PendingLine(k)] = new[k]
<1> DEFINE p == PendingPositions(transactions)
           b == Min({asked + BatchSize, Len(p)})
           chunk == SubSeq(p, asked + 1, b)
           entries == Accepted(reply, Len(chunk))
           shown == [i \in DOMAIN chunk |-> transactions[chunk[i]].line]
           new == [k \in {PendingIndex(asked, n) : n \in IndexesOf(entries)} |->
                     Prediction(LastEntry(entries,
                       CHOOSE n \in IndexesOf(entries) : PendingIndex(asked, n) = k))]
           news == SaidOf(entries, shown)
<1>1. p = PendingPositions(transactions)
  OBVIOUS
<1>2. b = Min({asked + BatchSize, Len(p)})
  OBVIOUS
<1>3. chunk = SubSeq(p, asked + 1, b)
  OBVIOUS
<1>4. entries = Accepted(reply, Len(chunk))
  OBVIOUS
<1>5. shown = [i \in DOMAIN chunk |-> transactions[chunk[i]].line]
  OBVIOUS
<1>6. new = [k \in {PendingIndex(asked, n) : n \in IndexesOf(entries)} |->
               Prediction(LastEntry(entries,
                 CHOOSE n \in IndexesOf(entries) : PendingIndex(asked, n) = k))]
  OBVIOUS
<1>7. news = SaidOf(entries, shown)
  OBVIOUS
<1> HIDE DEF p, b, chunk, entries, shown, new, news
<1>8. /\ asked \in Nat /\ Len(p) \in Nat /\ asked < Len(p) /\ BatchSize \in Nat \ {0}
      /\ p \in Seq(DOMAIN transactions)
  BY <1>1, PendingRows, BatchAssumption, RowTypes DEF AllInv, FileInv, TypeOK
<1>9. b \in Nat /\ asked < b /\ b <= Len(p)
  <2>1. {asked + BatchSize, Len(p)} \in SUBSET Nat /\ {asked + BatchSize, Len(p)} # {}
    BY <1>8
  <2>2. b \in {asked + BatchSize, Len(p)} /\ b <= Len(p)
    BY <1>2, <2>1, MinOfNumbers
  <2> QED
    BY <1>8, <2>2
<1>10. PICK len \in Nat : len = b - asked
  BY <1>8, <1>9
<1>11. /\ Len(chunk) = len /\ DOMAIN chunk = 1 .. len
       /\ \A i \in 1 .. len : chunk[i] = p[asked + i]
  <2>1. \A i \in asked + 1 .. b : p[i] \in DOMAIN transactions
    BY <1>8, <1>9, ElementOfSeq
  <2>2. /\ chunk \in Seq(DOMAIN transactions)
        /\ Len(chunk) = IF asked + 1 <= b THEN b - (asked + 1) + 1 ELSE 0
        /\ \A i \in 1 .. b - (asked + 1) + 1 : chunk[i] = p[asked + 1 + i - 1]
    BY <1>3, <1>8, <1>9, <2>1, SubSeqProperties
  <2>3. b - (asked + 1) + 1 = len /\ asked + 1 <= b
    BY <1>8, <1>9, <1>10
  <2>4. Len(chunk) = len
    BY <2>2, <2>3
  <2>5. DOMAIN chunk = 1 .. len
    BY <2>2, <2>4, LenProperties
  <2>6. \A i \in 1 .. len : asked + 1 + i - 1 = asked + i
    BY <1>8
  <2> QED
    BY <2>2, <2>3, <2>4, <2>5, <2>6
<1>12. ASSUME NEW n \in IndexesOf(entries)
       PROVE  /\ n \in 0 .. len - 1 /\ PendingIndex(asked, n) \in 1 .. Len(p)
              /\ shown[n + 1] = PendingLine(PendingIndex(asked, n))
              /\ FinalEntry(entries, n) = LastEntry(entries, n)
              /\ Prediction(LastEntry(entries, n)) \in Predictions
  <2>1. n \in 0 .. len - 1
    BY <1>4, <1>11 DEF Accepted, Restrict, IndexesOf
  <2>2. n + 1 \in 1 .. len /\ PendingIndex(asked, n) = asked + (n + 1)
    BY <1>8, <2>1 DEF PendingIndex
  <2>3. PendingIndex(asked, n) \in 1 .. Len(p)
    BY <1>8, <1>9, <1>10, <2>2
  <2>4. shown[n + 1] = PendingLine(PendingIndex(asked, n))
    BY <1>1, <1>5, <1>11, <2>2 DEF PendingLine
  <2>5. FinalEntry(entries, n) = LastEntry(entries, n)
    <3>1. Len(reply) \in Nat /\ DOMAIN reply = 1 .. Len(reply)
      BY RepliesAssumption, Elements
    <3>2. DOMAIN entries \subseteq 1 .. Len(reply)
      BY <1>4, <3>1 DEF Accepted, Restrict
    <3> QED
      BY <3>1, <3>2, FinalIsLast
  <2>6. Prediction(LastEntry(entries, n)) \in Predictions
    BY <1>4, PredictionType
  <2> QED
    BY <2>1, <2>3, <2>4, <2>5, <2>6
<1>13. ASSUME NEW n \in IndexesOf(entries), NEW m \in IndexesOf(entries),
              PendingIndex(asked, n) = PendingIndex(asked, m) \/ shown[n + 1] = shown[m + 1]
       PROVE  n = m
  <2>1. PendingIndex(asked, n) = PendingIndex(asked, m)
    BY <1>1, <1>12, <1>13, PendingLines DEF AllInv, FileInv
  <2>2. n \in Nat /\ m \in Nat
    BY <1>10, <1>12
  <2> QED
    BY <1>8, <2>1, <2>2 DEF PendingIndex
<1>14. ASSUME NEW n \in IndexesOf(entries)
       PROVE  /\ PendingIndex(asked, n) \in DOMAIN new
              /\ new[PendingIndex(asked, n)] = Prediction(LastEntry(entries, n))
  <2>1. (CHOOSE m \in IndexesOf(entries) : PendingIndex(asked, m) = PendingIndex(asked, n)) = n
    BY <1>13
  <2> QED
    BY <1>6, <2>1
<1>15. ASSUME NEW n \in IndexesOf(entries)
       PROVE  /\ shown[n + 1] \in DOMAIN news
              /\ news[shown[n + 1]] = Prediction(FinalEntry(entries, n))
  <2>1. (CHOOSE m \in IndexesOf(entries) : shown[m + 1] = shown[n + 1]) = n
    BY <1>13
  <2> QED
    BY <1>7, <2>1 DEF SaidOf
<1>16. DOMAIN new = {PendingIndex(asked, n) : n \in IndexesOf(entries)}
       /\ DOMAIN news = {shown[n + 1] : n \in IndexesOf(entries)}
  BY <1>6, <1>7 DEF SaidOf
<1>17. DOMAIN news = {PendingLine(k) : k \in DOMAIN new}
  BY <1>12, <1>16
<1>18. ASSUME NEW k \in DOMAIN new
       PROVE  k \in 1 .. Len(p) /\ new[k] \in Predictions /\ news[PendingLine(k)] = new[k]
  <2>1. PICK n \in IndexesOf(entries) : k = PendingIndex(asked, n)
    BY <1>16
  <2> QED
    BY <1>12, <1>14, <1>15, <2>1
<1>19. DOMAIN new \subseteq 1 .. Len(p)
  BY <1>18
<1> QED
  BY <1>17, <1>18, <1>19 DEF p, b, chunk, entries, shown, new, news

\* The answer to a prompt is remembered under the lines the prompt showed.
LEMMA FileAsk ==
    ASSUME AllInv, AskModel PROVE FileInv'
<1> DEFINE p == PendingPositions(transactions)
<1>1. p = PendingPositions(transactions)
  OBVIOUS
<1>2. /\ node = "categorize_with_llm" /\ asked < Len(p) /\ asked' = asked + BatchSize
      /\ UNCHANGED <<file, suggester, node, transactions, skipped, table, statement, decided>>
  BY <1>1 DEF AskModel
<1>3. PICK new, news :
        /\ DOMAIN new \subseteq 1 .. Len(p) /\ DOMAIN news = {PendingLine(k) : k \in DOMAIN new}
        /\ \A k \in DOMAIN new : new[k] \in Predictions /\ news[PendingLine(k)] = new[k]
        /\ predictions' = Updated(predictions, new) /\ said' = Updated(said, news)
  <2>1. PICK reply \in Replies :
          LET pending == PendingPositions(transactions)
              chunk   == SubSeq(pending, asked + 1, Min({asked + BatchSize, Len(pending)}))
              entries == Accepted(reply, Len(chunk))
              indexes == {PendingIndex(asked, n) : n \in IndexesOf(entries)}
              new     == [k \in indexes |->
                            Prediction(LastEntry(entries,
                              CHOOSE n \in IndexesOf(entries) : PendingIndex(asked, n) = k))]
          IN /\ predictions' = Updated(predictions, new)
             /\ said' = Updated(said, SaidOf(entries, [i \in DOMAIN chunk |->
                                                         transactions[chunk[i]].line]))
    BY DEF AskModel
  <2> DEFINE chunk == SubSeq(p, asked + 1, Min({asked + BatchSize, Len(p)}))
             entries == Accepted(reply, Len(chunk))
             new == [k \in {PendingIndex(asked, n) : n \in IndexesOf(entries)} |->
                       Prediction(LastEntry(entries,
                         CHOOSE n \in IndexesOf(entries) : PendingIndex(asked, n) = k))]
             news == SaidOf(entries, [i \in DOMAIN chunk |-> transactions[chunk[i]].line])
  <2>2. /\ DOMAIN new \subseteq 1 .. Len(p) /\ DOMAIN news = {PendingLine(k) : k \in DOMAIN new}
        /\ \A k \in DOMAIN new : new[k] \in Predictions /\ news[PendingLine(k)] = new[k]
    BY <1>2, Prompt
  <2>3. predictions' = Updated(predictions, new) /\ said' = Updated(said, news)
    BY <2>1
  <2> HIDE DEF new, news
  <2> QED
    BY <2>2, <2>3
<1> HIDE DEF p
<1>4. /\ DOMAIN predictions' = DOMAIN predictions \cup DOMAIN new
      /\ DOMAIN said' = DOMAIN said \cup DOMAIN news
      /\ \A k \in DOMAIN new : predictions'[k] = new[k]
      /\ \A k \in DOMAIN predictions \ DOMAIN new : predictions'[k] = predictions[k]
      /\ \A l \in DOMAIN news : said'[l] = news[l]
      /\ \A l \in DOMAIN said \ DOMAIN news : said'[l] = said[l]
  BY <1>3 DEF Updated
<1>5. /\ p \in Seq(DOMAIN transactions) /\ Len(p) \in Nat /\ Len(p) <= Len(transactions)
      /\ Len(transactions) \in Nat
      /\ \A k \in 1 .. Len(p) : p[k] \in DOMAIN transactions /\ ~IsCategorized(transactions[p[k]])
      /\ \A j, k \in 1 .. Len(p) : PendingLine(j) = PendingLine(k) => j = k
  BY <1>1, PendingRows, PendingLines, RowTypes DEF AllInv, FileInv
<1>6. /\ \A i \in DOMAIN transactions : transactions[i].categorized_by \in {"NONE", "RULE"}
      /\ DOMAIN predictions \subseteq 1 .. Len(p)
      /\ DOMAIN said = {PendingLine(k) : k \in DOMAIN predictions}
      /\ \A k \in DOMAIN predictions : said[PendingLine(k)] = predictions[k]
  BY <1>1, <1>2 DEF AllInv, FileInv, PromptInv
<1>7. LinesInv'
  BY <1>2 DEF AllInv, FileInv, LinesInv, IsOfLine
<1>8. PromptInv'
  <2>1. DOMAIN predictions' \subseteq 1 .. Len(p)
    BY <1>3, <1>4, <1>6
  <2>2. DOMAIN said' = {PendingLine(k) : k \in DOMAIN predictions'}
    BY <1>3, <1>4, <1>6
  <2>3. ASSUME NEW k \in DOMAIN predictions' PROVE said'[PendingLine(k)] = predictions'[k]
    <3>1. CASE k \in DOMAIN new
      BY <1>3, <1>4, <3>1
    <3>2. CASE k \notin DOMAIN new
      <4>1. k \in DOMAIN predictions /\ PendingLine(k) \in DOMAIN said
        BY <1>4, <1>6, <3>2
      <4>2. PendingLine(k) \notin DOMAIN news
        BY <1>3, <1>5, <1>6, <3>2, <4>1
      <4> QED
        BY <1>4, <1>6, <3>2, <4>1, <4>2
    <3> QED
      BY <3>1, <3>2
  <2>4. p = PendingPositions(transactions)' /\ \A k : PendingLine(k)' = PendingLine(k)
    BY <1>1, <1>2 DEF PendingLine, PendingPositions, IsCategorized
  <2> QED
    BY <1>2, <1>6, <2>1, <2>2, <2>3, <2>4 DEF PromptInv
<1>9. WordsInv'
  <2>1. ASSUME NEW i \in DOMAIN transactions, Hits(transactions[i]) # {}
        PROVE  /\ transactions[i].categorized_by = "RULE"
               /\ transactions[i].category = Rules[Min(Hits(transactions[i]))].category
               /\ transactions[i].line \notin DOMAIN said'
    <3>1. /\ transactions[i].categorized_by = "RULE"
          /\ transactions[i].category = Rules[Min(Hits(transactions[i]))].category
          /\ transactions[i].line \notin DOMAIN said
      BY <1>2, <2>1 DEF AllInv, FileInv, WordsInv, Unruled, Unread
    <3>2. IsCategorized(transactions[i])
      BY <2>1, <3>1, RuleCategory, AbsenceAssumption DEF IsCategorized, Hits
    <3>3. ASSUME NEW k \in DOMAIN new, transactions[i].line = PendingLine(k) PROVE FALSE
      <4>1. k \in 1 .. Len(p) /\ p[k] \in DOMAIN transactions
            /\ transactions[i].line = transactions[p[k]].line
        BY <1>1, <1>3, <1>5, <3>3 DEF PendingLine
      <4>2. i = p[k]
        BY <4>1, OneRowPerLine DEF AllInv, FileInv
      <4> QED
        BY <1>5, <3>2, <4>1, <4>2
    <3> QED
      BY <1>3, <1>4, <3>1, <3>3
  <2>2. \A i \in DOMAIN transactions : Hits(transactions[i])' = Hits(transactions[i])
    BY <1>2 DEF Hits, Matching
  <2> QED
    BY <1>2, <2>1, <2>2 DEF WordsInv, Unruled, Unread
<1>10. SuggestionsReachTheirRows'
  BY <1>2, <1>6 DEF SuggestionsReachTheirRows, Range
<1>11. TypeOK'
  <2>1. asked' \in Nat
    BY <1>2, BatchAssumption DEF AllInv, FileInv, TypeOK
  <2>2. DOMAIN predictions' \subseteq 1 .. Len(transactions)
    <3>1. 1 .. Len(p) \subseteq 1 .. Len(transactions)
      BY <1>5
    <3> QED
      BY <1>3, <1>4, <1>6, <3>1
  <2>3. \A k \in DOMAIN predictions' : predictions'[k] \in Predictions
    BY <1>3, <1>4 DEF AllInv, FileInv, TypeOK
  <2>4. \A l \in DOMAIN said' : l \in DOMAIN file.lines /\ said'[l] \in Predictions
    <3>1. ASSUME NEW k \in DOMAIN new PROVE PendingLine(k) \in DOMAIN file.lines
      <4>1. p[k] \in DOMAIN transactions
        BY <1>3, <1>5
      <4> QED
        BY <1>1, <4>1 DEF PendingLine, AllInv, FileInv, LinesInv, IsOfLine
    <3>2. \A l \in DOMAIN said : l \in DOMAIN file.lines /\ said[l] \in Predictions
      BY DEF AllInv, FileInv, TypeOK
    <3> QED
      BY <1>3, <1>4, <3>1, <3>2
  <2> QED
    BY <1>2, <2>1, <2>2, <2>3, <2>4 DEF AllInv, FileInv, TypeOK
<1> QED
  BY <1>7, <1>8, <1>9, <1>10, <1>11 DEF FileInv

\* Every prediction goes to the row it was made for.
LEMMA FilePredict ==
    ASSUME AllInv, ApplyPredictions PROVE FileInv'
<1> DEFINE p == PendingPositions(transactions)
           IndexIn(i) == CHOOSE k \in DOMAIN predictions : p[k] = i
           predicted == {p[k] : k \in DOMAIN predictions}
           Suggested(i) == [transactions[i] EXCEPT
                              !.category = predictions[IndexIn(i)].category,
                              !.categorized_by = "LLM",
                              !.confidence = predictions[IndexIn(i)].confidence]
<1>1. /\ node = "categorize_with_llm" /\ node' \in {Pausing, Storing}
      /\ transactions' = [i \in DOMAIN transactions |->
                            IF i \in predicted THEN Suggested(i) ELSE transactions[i]]
      /\ UNCHANGED <<file, suggester, skipped, asked, predictions, table, statement, said, decided>>
  BY DEF ApplyPredictions, RouteAfterLlm
<1>2. /\ Len(p) \in Nat
      /\ \A k \in 1 .. Len(p) : p[k] \in DOMAIN transactions /\ ~IsCategorized(transactions[p[k]])
      /\ \A j, k \in 1 .. Len(p) : p[j] = p[k] => j = k
  BY PendingRows, RowTypes DEF AllInv, FileInv
<1>3. /\ \A i \in DOMAIN transactions : transactions[i].categorized_by \in {"NONE", "RULE"}
      /\ DOMAIN predictions \subseteq 1 .. Len(p)
      /\ DOMAIN said = {transactions[p[k]].line : k \in DOMAIN predictions}
      /\ \A k \in DOMAIN predictions : said[transactions[p[k]].line] = predictions[k]
  BY <1>1 DEF AllInv, FileInv, PromptInv, PendingLine
<1> HIDE DEF p
<1>4. ASSUME NEW k \in DOMAIN predictions
      PROVE  /\ p[k] \in DOMAIN transactions /\ p[k] \in predicted /\ IndexIn(p[k]) = k
             /\ predictions[k] \in Predictions
  <2>1. k \in 1 .. Len(p) /\ p[k] \in DOMAIN transactions
    BY <1>2, <1>3
  <2>2. IndexIn(p[k]) = k
    BY <1>2, <1>3
  <2> QED
    BY <2>1, <2>2 DEF AllInv, FileInv, TypeOK
<1>5. /\ DOMAIN transactions' = DOMAIN transactions
      /\ \A i \in DOMAIN transactions \ predicted : transactions'[i] = transactions[i]
  BY <1>1
<1>6. ASSUME NEW k \in DOMAIN predictions
      PROVE  /\ transactions'[p[k]].category = predictions[k].category
             /\ transactions'[p[k]].categorized_by = "LLM"
             /\ transactions'[p[k]].confidence = predictions[k].confidence
             /\ transactions'[p[k]] \in Transactions
             /\ SameFacts(transactions'[p[k]], transactions[p[k]])
  <2>1. PICK t : t = transactions[p[k]]
    OBVIOUS
  <2>2. t \in Transactions /\ predictions[k] \in Predictions
    BY <1>4, <2>1, RowTypes DEF AllInv, FileInv
  <2>3. transactions'[p[k]] = [t EXCEPT !.category = predictions[k].category,
                                        !.categorized_by = "LLM",
                                        !.confidence = predictions[k].confidence]
    BY <1>1, <1>4, <2>1
  <2>4. predictions[k].category \in Categories /\ predictions[k].confidence \in 0 .. 100
    BY <2>2 DEF Predictions
  <2>5. transactions'[p[k]] \in Transactions
    <3>1. PICK c, x : c = predictions[k].category /\ x = predictions[k].confidence
      OBVIOUS
    <3>2. /\ c \in Categories \cup {"UNCATEGORIZED"} /\ "LLM" \in Sources
          /\ x \in 0 .. 100 \cup {None}
      BY <2>4, <3>1 DEF Sources
    <3>3. transactions'[p[k]] = [t EXCEPT !.category = c, !.categorized_by = "LLM",
                                          !.confidence = x]
      BY <2>3, <3>1
    <3> HIDE DEF predicted, Suggested
    <3> QED
      BY ONLY <2>2, <3>2, <3>3 DEF Transactions
  <2> QED
    BY <2>1, <2>2, <2>3, <2>5 DEF Transactions, SameFacts
<1>7. \A i \in predicted : \E k \in DOMAIN predictions : i = p[k]
  OBVIOUS
<1> HIDE DEF predicted, Suggested
<1>8. \A i \in DOMAIN transactions :
        transactions'[i] \in Transactions /\ SameFacts(transactions'[i], transactions[i])
  <2>1. \A i \in DOMAIN transactions \ predicted :
          transactions'[i] \in Transactions /\ SameFacts(transactions'[i], transactions[i])
    BY <1>5, RowTypes DEF AllInv, FileInv, SameFacts
  <2> QED
    BY <1>6, <1>7, <2>1
<1>9. transactions' \in Seq(Transactions)
  <2>1. transactions' = [i \in DOMAIN transactions |-> transactions'[i]]
    BY <1>1
  <2> QED
    BY <1>5, <1>8, <2>1, RowsType DEF AllInv, FileInv
<1>10. LinesInv'
  BY <1>1, <1>5, <1>8, <1>9, LinesStay DEF AllInv, FileInv, Unread, Pausing, Storing
<1>11. WordsInv'
  <2>1. ASSUME NEW i \in DOMAIN transactions, Hits(transactions[i]) # {}
        PROVE  /\ transactions'[i].categorized_by = "RULE"
               /\ transactions'[i].category = Rules[Min(Hits(transactions[i]))].category
               /\ transactions'[i].line \notin DOMAIN said
    <3>1. /\ transactions[i].categorized_by = "RULE"
          /\ transactions[i].category = Rules[Min(Hits(transactions[i]))].category
          /\ transactions[i].line \notin DOMAIN said
      BY <1>1, <2>1 DEF AllInv, FileInv, WordsInv, Unruled, Unread
    <3>2. IsCategorized(transactions[i])
      BY <2>1, <3>1, RuleCategory, AbsenceAssumption DEF IsCategorized, Hits
    <3>3. i \notin predicted
      BY <1>2, <1>3, <1>7, <3>2
    <3> QED
      BY <1>5, <3>1, <3>3
  <2>2. \A i \in DOMAIN transactions : Hits(transactions[i])' = Hits(transactions[i])
    BY <1>1, <1>8 DEF Hits, Matching, SameFacts
  <2> QED
    BY <1>1, <1>5, <2>1, <2>2 DEF WordsInv, Unruled, Unread, Pausing, Storing
<1>12. SuggestionsReachTheirRows'
  <2>1. ASSUME NEW i \in DOMAIN transactions, transactions'[i].categorized_by = "LLM"
        PROVE  /\ transactions'[i].line \in DOMAIN said
               /\ [category |-> transactions'[i].category,
                   confidence |-> transactions'[i].confidence] = said[transactions'[i].line]
    <3>1. i \in predicted
      BY <1>3, <1>5, <2>1
    <3>2. PICK k \in DOMAIN predictions : i = p[k]
      BY <1>7, <3>1
    <3>3. transactions'[i].line = transactions[p[k]].line
      BY <1>6, <3>2 DEF SameFacts
    <3>4. [category |-> predictions[k].category, confidence |-> predictions[k].confidence]
            = predictions[k]
      BY <1>4 DEF Predictions
    <3> QED
      BY <1>3, <1>6, <3>2, <3>3, <3>4
  <2>2. ASSUME NEW i \in DOMAIN transactions, transactions'[i].line \in DOMAIN said
        PROVE  transactions'[i].categorized_by = "LLM"
    <3>1. PICK k \in DOMAIN predictions : transactions'[i].line = transactions[p[k]].line
      BY <1>3, <2>2
    <3>2. transactions[i].line = transactions[p[k]].line /\ p[k] \in DOMAIN transactions
      BY <1>4, <1>8, <3>1 DEF SameFacts
    <3>3. i = p[k]
      BY <3>2, OneRowPerLine DEF AllInv, FileInv
    <3> QED
      BY <1>6, <3>3
  <2> QED
    BY <1>1, <1>5, <2>1, <2>2 DEF SuggestionsReachTheirRows, Range
<1>13. TypeOK'
  <2>1. 1 .. Len(transactions') = 1 .. Len(transactions)
    BY <1>5, <1>9, LenProperties DEF AllInv, FileInv, TypeOK
  <2> QED
    BY <1>1, <1>9, <2>1 DEF AllInv, FileInv, TypeOK, Nodes, Pausing, Storing
<1>14. PromptInv'
  BY <1>1 DEF PromptInv, Pausing, Storing
<1> QED
  BY <1>10, <1>11, <1>12, <1>13, <1>14 DEF FileInv

\* The decisions of a review, by row and by line.
LEMMA Decided ==
    ASSUME AllInv, SubmitReview
    PROVE  \E positions \in SUBSET Select(transactions) :
             /\ DOMAIN transactions' = DOMAIN transactions /\ transactions' \in Seq(Transactions)
             /\ DOMAIN decided' = {transactions[i].line : i \in positions}
             /\ \A i \in DOMAIN transactions : SameFacts(transactions'[i], transactions[i])
             /\ \A i \in DOMAIN transactions \ positions : transactions'[i] = transactions[i]
             /\ \A i \in positions :
                  /\ transactions'[i].category = decided'[transactions[i].line]
                  /\ transactions'[i].category \in Categories
                  /\ transactions'[i].categorized_by = "USER"
<1>1. PICK entries \in Reviews :
        LET Position(index) == index + 1
            Decide(i) == [transactions[i] EXCEPT
                            !.category = LastEntry(entries, i - 1).category,
                            !.categorized_by = "USER",
                            !.confidence = None]
            positions == {Position(n) : n \in IndexesOf(entries)}
        IN /\ positions \subseteq Select(transactions)
           /\ transactions' = [i \in DOMAIN transactions |->
                                 IF i \in positions THEN Decide(i) ELSE transactions[i]]
           /\ decided' = [l \in {transactions[i].line : i \in positions} |->
                            FinalEntry(entries,
                              CHOOSE n \in IndexesOf(entries) : transactions[n + 1].line = l
                            ).category]
  BY DEF SubmitReview
<1> DEFINE Decide(i) == [transactions[i] EXCEPT
                           !.category = LastEntry(entries, i - 1).category,
                           !.categorized_by = "USER",
                           !.confidence = None]
           positions == {n + 1 : n \in IndexesOf(entries)}
           Final(l) == FinalEntry(entries,
                         CHOOSE n \in IndexesOf(entries) : transactions[n + 1].line = l).category
<1>2. /\ positions \subseteq Select(transactions)
      /\ transactions' = [i \in DOMAIN transactions |->
                            IF i \in positions THEN Decide(i) ELSE transactions[i]]
      /\ decided' = [l \in {transactions[i].line : i \in positions} |-> Final(l)]
  BY <1>1
<1>3. positions \subseteq DOMAIN transactions
  BY <1>2 DEF Select
<1>4. ASSUME NEW n \in IndexesOf(entries)
      PROVE  /\ n \in Nat /\ n + 1 \in DOMAIN transactions
             /\ LastEntry(entries, n).category \in Categories
             /\ FinalEntry(entries, n) = LastEntry(entries, n)
             /\ Final(transactions[n + 1].line) = LastEntry(entries, n).category
  <2>1. n \in Nat /\ n + 1 \in DOMAIN transactions /\ LastEntry(entries, n).category \in Categories
    BY <1>3, DecisionType
  <2>2. FinalEntry(entries, n) = LastEntry(entries, n)
    <3>1. Len(entries) \in Nat /\ DOMAIN entries = 1 .. Len(entries)
      BY ReviewsAssumption, Elements
    <3> QED
      BY <3>1, FinalIsLast
  <2>3. ASSUME NEW m \in IndexesOf(entries), transactions[m + 1].line = transactions[n + 1].line
        PROVE  m = n
    <3>1. m \in Nat /\ m + 1 \in DOMAIN transactions
      BY <1>3, DecisionType
    <3>2. m + 1 = n + 1
      BY <2>1, <2>3, <3>1, OneRowPerLine DEF AllInv, FileInv
    <3> QED
      BY <2>1, <3>1, <3>2
  <2>4. (CHOOSE m \in IndexesOf(entries) : transactions[m + 1].line = transactions[n + 1].line) = n
    BY <2>3
  <2> QED
    BY <2>1, <2>2, <2>4
<1>5. ASSUME NEW i \in positions
      PROVE  /\ transactions'[i].category = decided'[transactions[i].line]
             /\ transactions'[i].category \in Categories
             /\ transactions'[i].categorized_by = "USER"
             /\ transactions'[i] \in Transactions
             /\ SameFacts(transactions'[i], transactions[i])
  <2>1. PICK n \in IndexesOf(entries) : i = n + 1 /\ i - 1 = n
    <3>1. PICK n \in IndexesOf(entries) : i = n + 1
      OBVIOUS
    <3>2. n \in Nat
      BY <1>4
    <3> QED
      BY <3>1, <3>2
  <2>2. PICK c \in Categories : c = LastEntry(entries, n).category
    BY <1>4
  <2>3. transactions[i] \in Transactions /\ i \in DOMAIN transactions
    BY <1>3, RowTypes DEF AllInv, FileInv
  <2>4. transactions'[i] = [transactions[i] EXCEPT !.category = c, !.categorized_by = "USER",
                                                   !.confidence = None]
    BY <1>2, <2>1, <2>2, <2>3
  <2>5. decided'[transactions[i].line] = c
    <3>1. decided'[transactions[i].line] = Final(transactions[i].line)
      BY <1>2
    <3>2. Final(transactions[n + 1].line) = c /\ transactions[n + 1].line = transactions[i].line
      BY <1>4, <2>1, <2>2
    <3> HIDE DEF Final
    <3> QED
      BY <3>1, <3>2
  <2>6. transactions'[i] \in Transactions
    <3>1. c \in Categories \cup {"UNCATEGORIZED"} /\ "USER" \in Sources
          /\ None \in 0 .. 100 \cup {None}
      BY <2>2 DEF Sources
    <3> QED
      BY ONLY <2>3, <2>4, <3>1 DEF Transactions
  <2> QED
    BY <2>2, <2>3, <2>4, <2>5, <2>6 DEF Transactions, SameFacts
<1> HIDE DEF positions, Decide, Final
<1>6. /\ DOMAIN transactions' = DOMAIN transactions
      /\ DOMAIN decided' = {transactions[i].line : i \in positions}
      /\ \A i \in DOMAIN transactions \ positions : transactions'[i] = transactions[i]
  BY <1>2
<1>7. \A i \in DOMAIN transactions :
        transactions'[i] \in Transactions /\ SameFacts(transactions'[i], transactions[i])
  <2>1. \A i \in DOMAIN transactions \ positions :
          transactions'[i] \in Transactions /\ SameFacts(transactions'[i], transactions[i])
    BY <1>6, RowTypes DEF AllInv, FileInv, SameFacts
  <2> QED
    BY <1>5, <2>1
<1>8. transactions' \in Seq(Transactions)
  <2>1. transactions' = [i \in DOMAIN transactions |-> transactions'[i]]
    BY <1>2
  <2> QED
    BY <1>6, <1>7, <2>1, RowsType DEF AllInv, FileInv
<1> QED
  BY <1>2, <1>5, <1>6, <1>7, <1>8

LEMMA FileReview ==
    ASSUME AllInv, SubmitReview PROVE FileInv'
<1>1. PICK positions \in SUBSET Select(transactions) :
        /\ DOMAIN transactions' = DOMAIN transactions /\ transactions' \in Seq(Transactions)
        /\ DOMAIN decided' = {transactions[i].line : i \in positions}
        /\ \A i \in DOMAIN transactions : SameFacts(transactions'[i], transactions[i])
        /\ \A i \in DOMAIN transactions \ positions : transactions'[i] = transactions[i]
        /\ \A i \in positions :
             /\ transactions'[i].category = decided'[transactions[i].line]
             /\ transactions'[i].category \in Categories
             /\ transactions'[i].categorized_by = "USER"
  BY Decided
<1>2. /\ node = "review_low_confidence" /\ node' = Storing
      /\ UNCHANGED <<file, suggester, skipped, asked, predictions, table, statement, said>>
  BY DEF SubmitReview
<1>3. \A i \in positions : i \in DOMAIN transactions /\ transactions[i].categorized_by = "LLM"
  BY DEF Select, Unsure
<1>4. LinesInv'
  BY <1>1, <1>2, LinesStay DEF AllInv, FileInv, Unread, Storing
<1>5. WordsInv'
  <2>1. ASSUME NEW i \in DOMAIN transactions, Hits(transactions[i]) # {}
        PROVE  /\ transactions'[i].categorized_by = "RULE"
               /\ transactions'[i].category = Rules[Min(Hits(transactions[i]))].category
               /\ transactions'[i].line \notin DOMAIN said
    <3>1. /\ transactions[i].categorized_by = "RULE"
          /\ transactions[i].category = Rules[Min(Hits(transactions[i]))].category
          /\ transactions[i].line \notin DOMAIN said
      BY <1>2, <2>1 DEF AllInv, FileInv, WordsInv, Unruled, Unread
    <3>2. transactions'[i] = transactions[i]
      BY <1>1, <1>3, <3>1
    <3> QED
      BY <3>1, <3>2
  <2>2. \A i \in DOMAIN transactions : Hits(transactions[i])' = Hits(transactions[i])
    BY <1>1, <1>2 DEF Hits, Matching, SameFacts
  <2> QED
    BY <1>1, <1>2, <2>1, <2>2 DEF WordsInv, Unruled, Unread, Storing
<1>6. SuggestionsReachTheirRows'
  <2>1. /\ \A i \in DOMAIN transactions : transactions[i].categorized_by = "LLM" =>
             /\ transactions[i].line \in DOMAIN said
             /\ [category |-> transactions[i].category, confidence |-> transactions[i].confidence]
                  = said[transactions[i].line]
        /\ (\E i \in DOMAIN transactions : transactions[i].categorized_by \in {"LLM", "USER"}) =>
             \A i \in DOMAIN transactions :
               transactions[i].line \in DOMAIN said =>
                 transactions[i].categorized_by \in {"LLM", "USER"}
    BY DEF AllInv, FileInv, SuggestionsReachTheirRows, Range
  <2>2. /\ \A i \in DOMAIN transactions : transactions'[i].categorized_by = "LLM" =>
             transactions'[i] = transactions[i]
        /\ \A i \in DOMAIN transactions : transactions'[i].categorized_by \in {"LLM", "USER"} <=>
             transactions[i].categorized_by \in {"LLM", "USER"}
    BY <1>1, <1>3
  <2>3. \A i \in DOMAIN transactions : transactions'[i].line = transactions[i].line
    BY <1>1 DEF SameFacts
  <2>4. \A i \in DOMAIN transactions' : transactions'[i].categorized_by = "LLM" =>
             /\ transactions'[i].line \in DOMAIN said'
             /\ [category |-> transactions'[i].category, confidence |-> transactions'[i].confidence]
                  = said'[transactions'[i].line]
    BY <1>1, <1>2, <2>1, <2>2
  <2>5. (\E i \in DOMAIN transactions' : transactions'[i].categorized_by \in {"LLM", "USER"}) =>
             \A i \in DOMAIN transactions' :
               transactions'[i].line \in DOMAIN said' =>
                 transactions'[i].categorized_by \in {"LLM", "USER"}
    BY <1>1, <1>2, <2>1, <2>2, <2>3
  <2> QED
    BY <2>4, <2>5 DEF SuggestionsReachTheirRows, Range
<1>7. TypeOK'
  <2>1. 1 .. Len(transactions') = 1 .. Len(transactions)
    BY <1>1, LenProperties DEF AllInv, FileInv, TypeOK
  <2>2. \A l \in DOMAIN decided' : l \in DOMAIN file.lines /\ decided'[l] \in Categories
    BY <1>1, <1>3 DEF AllInv, FileInv, LinesInv, IsOfLine
  <2> QED
    BY <1>1, <1>2, <2>1, <2>2 DEF AllInv, FileInv, TypeOK, Nodes, Storing
<1>8. PromptInv'
  BY <1>2 DEF PromptInv, Storing
<1> QED
  BY <1>4, <1>5, <1>6, <1>7, <1>8 DEF FileInv


\* The steps that leave the rows and what was said of them alone.
LEMMA FileStays ==
    ASSUME LinesInv, WordsInv, PromptInv, SuggestionsReachTheirRows,
           UNCHANGED <<file, transactions, skipped, asked, predictions, said>>,
           \/ node' = node
           \/ /\ node' \notin Unruled \cup {"categorize_with_llm"}
              /\ node \notin Unruled \cup {"FAILED"}
    PROVE  LinesInv' /\ WordsInv' /\ PromptInv' /\ SuggestionsReachTheirRows'
<1>0. UNCHANGED <<file, transactions, skipped, asked, predictions, said>>
  OBVIOUS
<1>1. \A i \in DOMAIN transactions : IsOfLine(transactions[i])' = IsOfLine(transactions[i])
  BY <1>0 DEF IsOfLine
<1>2. LinesInv'
  BY <1>0, <1>1 DEF LinesInv, Unread, Unruled
<1>3. WordsInv'
  <2>1. \A i \in DOMAIN transactions : Hits(transactions[i])' = Hits(transactions[i])
    BY <1>0 DEF Hits, Matching
  <2> QED
    BY <1>0, <2>1 DEF WordsInv, Unread, Unruled
<1>4. PromptInv'
  <2>1. /\ PendingPositions(transactions)' = PendingPositions(transactions)
        /\ \A k : PendingLine(k)' = PendingLine(k)
    BY <1>0 DEF PendingLine, PendingPositions, IsCategorized
  <2> QED
    BY <1>0, <2>1 DEF PromptInv
<1>5. SuggestionsReachTheirRows'
  BY <1>0 DEF SuggestionsReachTheirRows
<1> QED
  BY <1>2, <1>3, <1>4, <1>5

LEMMA FileGuess ==
    ASSUME AllInv, NoSuggestions PROVE FileInv'
<1>1. /\ node = "categorize_with_llm" /\ node' \in {Pausing, Storing}
      /\ UNCHANGED <<file, suggester, transactions, skipped, asked, predictions,
                     table, statement, said, decided>>
  BY DEF NoSuggestions, RouteAfterLlm
<1>2. TypeOK'
  BY <1>1 DEF AllInv, FileInv, TypeOK, Nodes, Pausing, Storing
<1> QED
  BY <1>1, <1>2, FileStays DEF AllInv, FileInv, Unruled, Unread, Pausing, Storing

\* The dates of finitely many rows have a last one.
LEMMA DatesEnd ==
    ASSUME NEW len \in Nat, NEW rows, \A i \in 1 .. len : rows[i].date \in Nat
    PROVE  \E b \in Nat : \A i \in 1 .. len : rows[i].date <= b
<1> DEFINE Ends(n) == \E b \in Nat : \A i \in 1 .. n : rows[i].date <= b
           Fails == {n \in 0 .. len : ~Ends(n)}
<1>0. len \in Fails \/ Ends(len)
  OBVIOUS
<1>1. SUFFICES ASSUME Fails # {} PROVE FALSE
  <2> HIDE DEF Fails
  <2> QED
    BY <1>0
<1>2. PICK n \in Fails : \A m \in Fails : n <= m
  <2>1. Fails \in SUBSET Nat
    OBVIOUS
  <2> HIDE DEF Fails
  <2> QED
    BY <1>1, <2>1, SmallestExists
<1>3. n \in 0 .. len /\ ~Ends(n)
  OBVIOUS
<1>4. n # 0
  <2>1. Ends(0)
    OBVIOUS
  <2> HIDE DEF Ends
  <2> QED
    BY <1>3, <2>1
<1>5. n - 1 \in 0 .. len /\ n - 1 \in Nat /\ n \in 1 .. len
  BY <1>3, <1>4
<1>6. Ends(n - 1)
  <2>1. n - 1 \notin Fails
    <3>1. ~(n <= n - 1)
      BY <1>3
    <3> HIDE DEF Fails
    <3> QED
      BY <1>2, <3>1
  <2> HIDE DEF Ends
  <2> QED
    BY <1>5, <2>1
<1>7. PICK b \in Nat : \A i \in 1 .. n - 1 : rows[i].date <= b
  BY <1>6
<1>8. PICK c \in Nat : b <= c /\ rows[n].date <= c
  <2>1. rows[n].date \in Nat
    BY <1>5
  <2> QED
    BY <2>1, b + rows[n].date \in Nat
<1>9. ASSUME NEW i \in 1 .. n PROVE rows[i].date <= c
  <2>1. CASE i = n
    BY <1>8, <2>1
  <2>2. CASE i # n
    <3>1. i \in 1 .. n - 1 /\ rows[i].date <= b
      BY <1>3, <1>7, <2>2
    <3>2. rows[i].date \in Nat
      BY <1>3
    <3> QED
      BY <1>8, <3>1, <3>2
  <2> QED
    BY <2>1, <2>2
<1> QED
  BY <1>3, <1>9

\* The rows are stored as they are, with two digits of their amounts.
LEMMA FileStore ==
    ASSUME AllInv, StoreTransactions PROVE FileInv'
<1>1. /\ node = Storing /\ node' \in {"COMPLETED", "FAILED"}
      /\ UNCHANGED <<file, suggester, transactions, skipped, asked, predictions, said, decided>>
      /\ \/ UNCHANGED <<table, statement>>
         \/ /\ table' = [i \in DOMAIN transactions |->
                           [transactions[i] EXCEPT !.amount = Rounded(@)]]
            /\ statement' = [transaction_count |-> Len(transactions),
                             period_start |-> Min(DatesOf(transactions)),
                             period_end |-> Max(DatesOf(transactions))]
  BY DEF StoreTransactions, Storing
<1>2. /\ Len(transactions) \in Nat /\ DOMAIN transactions = 1 .. Len(transactions)
      /\ \A i \in DOMAIN transactions : transactions[i] \in Transactions
      /\ Len(transactions) # 0
  <2>1. transactions # <<>>
    BY <1>1 DEF AllInv, FileInv, LinesInv, Unread, Storing
  <2> QED
    BY <2>1, RowTypes, EmptySeq DEF AllInv, FileInv, TypeOK
<1>3. ASSUME table' = [i \in DOMAIN transactions |->
                         [transactions[i] EXCEPT !.amount = Rounded(@)]]
      PROVE  table' \in Seq(Transactions)
  <2>1. ASSUME NEW i \in DOMAIN transactions PROVE table'[i] \in Transactions
    <3>1. PICK t \in Transactions : t = transactions[i]
      BY <1>2
    <3>2. PICK a : a = Rounded(t.amount)
      OBVIOUS
    <3>3. a \in Nat \cup {NotANumber}
      <4>1. t.amount \in Nat \cup {NotANumber}
        BY <3>1 DEF Transactions
      <4>2. \A m \in Nat : ((m + 5) \div 10) * 10 \in Nat
        OBVIOUS
      <4> QED
        BY <3>2, <4>1, <4>2 DEF Rounded
    <3>4. table'[i] = [t EXCEPT !.amount = a]
      BY <1>3, <3>1, <3>2
    <3> QED
      BY ONLY <3>1, <3>3, <3>4 DEF Transactions
  <2>2. table' \in [1 .. Len(transactions) -> Transactions]
    BY <1>2, <1>3, <2>1
  <2> QED
    BY <1>2, <2>2
<1>4. Min(DatesOf(transactions)) \in Nat /\ Max(DatesOf(transactions)) \in Nat
  <2>1. PICK D : D = DatesOf(transactions)
    OBVIOUS
  <2>2. \A i \in 1 .. Len(transactions) : transactions[i].date \in Nat
    BY <1>2 DEF Transactions
  <2>3. PICK b \in Nat : \A i \in 1 .. Len(transactions) : transactions[i].date <= b
    BY <1>2, <2>2, DatesEnd
  <2>4. \A d \in D : \E i \in 1 .. Len(transactions) : d = transactions[i].date
    BY <1>2, <2>1 DEF DatesOf, Range
  <2>5. D \in SUBSET Nat /\ D \in SUBSET (0 .. b)
    BY <2>2, <2>3, <2>4
  <2>6. D # {}
    <3>1. 1 \in DOMAIN transactions
      BY <1>2
    <3> QED
      BY <2>1, <3>1 DEF DatesOf, Range
  <2>7. Min(D) \in D /\ Max(D) \in D
    BY <2>5, <2>6, MinOfNumbers, MaxOfNumbers
  <2> QED
    BY <2>1, <2>5, <2>7
<1>5. table' \in Seq(Transactions) /\ statement' \in Statements
  BY <1>1, <1>2, <1>3, <1>4 DEF AllInv, FileInv, TypeOK, Statements
<1>6. TypeOK'
  BY <1>1, <1>5 DEF AllInv, FileInv, TypeOK, Nodes
<1> QED
  BY <1>1, <1>6, FileStays DEF AllInv, FileInv, Unruled, Unread, Storing

LEMMA FileCategory ==
    ASSUME AllInv, NEW i \in DOMAIN table, NEW category \in Categories \cup {"UNCATEGORIZED"},
           SetCategory(i, category)
    PROVE  FileInv'
<1>1. UNCHANGED <<file, suggester, node, transactions, skipped, asked, predictions,
                  statement, said, decided>>
  BY DEF SetCategory
<1>2. table' \in Seq(Transactions)
  <2>1. PICK t \in Transactions : t = table[i]
    BY RowTypes DEF AllInv, FileInv
  <2>2. PICK s \in Sources : s = SourceOf(category)
    BY DEF SourceOf, Sources
  <2>3. PICK row : row = [t EXCEPT !.category = category, !.categorized_by = s,
                                   !.confidence = None]
    OBVIOUS
  <2>4. row \in Transactions
    <3>1. category \in Categories \cup {"UNCATEGORIZED"} /\ None \in 0 .. 100 \cup {None}
      OBVIOUS
    <3>2. row = [line |-> t.line, date |-> t.date, amount |-> t.amount,
                 direction |-> t.direction, category |-> category, categorized_by |-> s,
                 confidence |-> None]
      BY ONLY <2>1, <2>3 DEF Transactions
    <3>3. /\ t.line \in Nat \ {0} /\ t.date \in Nat /\ t.amount \in Nat \cup {NotANumber}
          /\ t.direction \in {"DEBIT", "CREDIT"}
      BY ONLY <2>1 DEF Transactions
    <3> QED
      BY ONLY <2>2, <3>1, <3>2, <3>3 DEF Transactions
  <2>5. table' = [table EXCEPT ![i] = row]
    BY <2>1, <2>2, <2>3 DEF SetCategory
  <2>6. table \in Seq(Transactions)
    BY DEF AllInv, FileInv, TypeOK
  <2> QED
    BY <2>4, <2>5, <2>6, ExceptSeq
<1>3. TypeOK'
  BY <1>1, <1>2 DEF AllInv, FileInv, TypeOK
<1> QED
  BY <1>1, <1>3, FileStays DEF AllInv, FileInv

THEOREM FileInvariant == Spec => []AllInv
<1>1. Init => AllInv
  <2> SUFFICES ASSUME Init PROVE AllInv
    OBVIOUS
  <2>1. /\ file \in Files /\ suggester \in BOOLEAN /\ node = "parse_csv" /\ transactions = <<>>
        /\ skipped = 0 /\ asked = 0 /\ predictions = <<>> /\ table = <<>> /\ said = <<>>
        /\ decided = <<>>
        /\ statement = [transaction_count |-> 0, period_start |-> None, period_end |-> None]
    BY DEF Init
  <2>2. RowInv
    BY <2>1 DEF RowInv
  <2>3. TypeOK
    <3>1. DOMAIN predictions = {} /\ DOMAIN said = {} /\ DOMAIN decided = {}
      BY <2>1
    <3>2. statement \in Statements /\ node \in Nodes
      BY <2>1 DEF Statements, Nodes
    <3>3. transactions \in Seq(Transactions) /\ table \in Seq(Transactions)
      BY <2>1
    <3> QED
      BY <2>1, <3>1, <3>2, <3>3 DEF TypeOK
  <2>4. DOMAIN transactions = {}
    BY <2>1
  <2>5. LinesInv /\ WordsInv /\ PromptInv
    BY <2>1, <2>4 DEF LinesInv, WordsInv, PromptInv, Unruled, Unread
  <2>6. SuggestionsReachTheirRows
    BY <2>4 DEF SuggestionsReachTheirRows, Range
  <2> QED
    BY <2>2, <2>3, <2>5, <2>6 DEF AllInv, FileInv
<1>2. AllInv /\ [Next]_vars => FileInv'
  <2> SUFFICES ASSUME AllInv, [Next]_vars PROVE FileInv'
    OBVIOUS
  <2>1. CASE UNCHANGED vars
    <3>1. UNCHANGED <<file, suggester, node, transactions, skipped, asked, predictions,
                      table, statement, said, decided>>
      BY <2>1 DEF vars
    <3>2. TypeOK'
      BY <3>1 DEF AllInv, FileInv, TypeOK
    <3> QED
      BY <3>1, <3>2, FileStays DEF AllInv, FileInv
  <2> QED
    BY <2>1, FileParse, FileNormalize, FileRules, FileAsk, FilePredict, FileGuess, FileReview,
       FileStore, FileCategory DEF Next
<1>3. Spec => []FileInv
  <2>1. RowInv /\ FileInv /\ [Next]_vars => FileInv'
    BY <1>2 DEF AllInv
  <2>2. Init => FileInv
    BY <1>1 DEF AllInv
  <2> QED
    BY <2>1, <2>2, RowInvariant, PTL DEF Spec
<1> QED
  <2>1. RowInv /\ FileInv => AllInv
    BY DEF AllInv
  <2> QED
    BY <1>3, <2>1, RowInvariant, PTL

----------------------------------------------------------------------------
(* What the invariant says of the file, the model and the person.          *)

\* Whatever the file, the answers and the decisions, every variable has its type: no row
\* without a date or with a negative amount, no category or confidence the table would refuse.
THEOREM RowsTyped == Spec => []TypeOK
<1>1. AllInv => TypeOK
  BY DEF AllInv, FileInv
<1> QED
  BY <1>1, FileInvariant, PTL

\* What the model says of a line ends on that line's row and on no other, for files and
\* prompts of any size and any answers; all of it is used, or none.
THEOREM SuggestionsFollow == Spec => []SuggestionsReachTheirRows
<1>1. AllInv => SuggestionsReachTheirRows
  BY DEF AllInv, FileInv
<1> QED
  BY <1>1, FileInvariant, PTL

\* A row some rule matches is never shown to the model and keeps the first such rule's
\* category, for any rules and any file.
THEOREM RulesAreFirst == Spec => []RulesComeFirst
<1>1. AllInv => RulesComeFirst
  <2> SUFFICES ASSUME AllInv, NEW i \in DOMAIN transactions,
                      node \notin {"apply_category_rules", "FAILED"},
                      Hits(transactions[i]) # {}
               PROVE  /\ transactions[i].line \notin DOMAIN said
                      /\ transactions[i].categorized_by = "RULE"
                      /\ transactions[i].category = Rules[Min(Hits(transactions[i]))].category
    BY DEF RulesComeFirst, Hits
  <2>1. node \notin Unread
    <3> SUFFICES ASSUME node \in Unread PROVE FALSE
      OBVIOUS
    <3>1. transactions = <<>>
      BY DEF AllInv, FileInv, LinesInv
    <3>2. DOMAIN transactions = {}
      BY <3>1
    <3> QED
      BY <3>2
  <2> QED
    BY <2>1 DEF AllInv, FileInv, WordsInv, Unruled
<1> QED
  BY <1>1, FileInvariant, PTL

\* Of a cell without a suffix that holds a number, parse_amount makes what the cell says.
LEMMA OrdinaryCell ==
    ASSUME NEW line \in Lines, NEW headers, NEW c \in headers \cap AmountColumns,
           line[c].reads # NotANumber, line[c].suffix = "none"
    PROVE  /\ Entered(line, headers, c) \in Int
           /\ (AmountIn(line, c) \in {None, 0}) <=> (Entered(line, headers, c) = 0)
           /\ Entered(line, headers, c) # 0 => AmountIn(line, c) = Entered(line, headers, c)
<1>1. PICK cell : cell = line[c]
  OBVIOUS
<1>2. /\ cell \in Cells /\ cell.reads # NotANumber /\ cell.suffix = "none" /\ c \in headers
  BY <1>1 DEF Lines, AmountColumns
<1>3. cell.reads \in Int \cup {None} /\ cell.parenthesised \in BOOLEAN /\ None \notin Int
  BY <1>2, AbsenceAssumption DEF Cells
<1>4. AmountIn(line, c) = IF cell.reads = None THEN None
                          ELSE IF cell.parenthesised THEN -cell.reads ELSE cell.reads
  BY <1>1, <1>2 DEF AmountIn, ParseAmount
<1>5. Entered(line, headers, c) = IF cell.reads = None THEN 0
                          ELSE IF cell.parenthesised THEN 0 - cell.reads ELSE cell.reads
  BY <1>1, <1>2 DEF Entered
<1>6. CASE cell.reads = None
  BY <1>4, <1>5, <1>6
<1>7. CASE cell.reads # None
  <2>1. PICK r \in Int : r = cell.reads
    BY <1>3, <1>7
  <2>2. AmountIn(line, c) = (IF cell.parenthesised THEN -r ELSE r)
        /\ Entered(line, headers, c) = (IF cell.parenthesised THEN 0 - r ELSE r)
    BY <1>4, <1>5, <1>7, <2>1
  <2>3. AmountIn(line, c) = Entered(line, headers, c) /\ Entered(line, headers, c) \in Int
    BY <1>3, <2>2
  <2> QED
    BY <1>3, <2>3
<1> QED
  BY <1>6, <1>7

\* An ordinary line is skipped when it moves no money, and makes a row with its amount and
\* its sign otherwise, whichever of the columns the file has.
LEMMA OrdinaryLine ==
    ASSUME NEW line \in Lines, NEW headers \in SUBSET Columns, Detected(headers),
           IsOrdinary(line, headers)
    PROVE  LET net    == NetOf(line, headers)
               amount == Magnitude(AmountIn(line, FilledColumn(line, headers)))
           IN IF net = 0 THEN IsSkipped(line, headers)
              ELSE /\ ~IsSkipped(line, headers)
                   /\ net = IF Direction(line, headers) = "CREDIT" THEN amount ELSE -amount
<1> DEFINE In(c) == Entered(line, headers, c)
           Read(c) == AmountIn(line, c)
<1>1. \A c \in headers \cap AmountColumns :
        /\ In(c) \in Int
        /\ (Read(c) \in {None, 0}) <=> (In(c) = 0)
        /\ In(c) # 0 => Read(c) = In(c)
  BY OrdinaryCell DEF IsOrdinary
<1>2. \A c : c \notin headers => In(c) = 0
  BY DEF Entered
<1>3. line.date # None /\ NotANumber \notin Int
  BY AbsenceAssumption DEF IsOrdinary
<1>4. CASE HasSignedAmount(headers)
  <2>1. "amount" \in headers \cap AmountColumns
    BY <1>4 DEF HasSignedAmount, Detected, AmountColumns
  <2>2. FilledColumn(line, headers) = "amount" /\ NetOf(line, headers) = In("amount")
    BY <1>4 DEF FilledColumn, NetOf
  <2>3. IsSkipped(line, headers) <=> In("amount") = 0
    BY <1>1, <1>3, <2>1, <2>2 DEF IsSkipped
  <2>4. Direction(line, headers) = IF Read("amount") < 0 THEN "DEBIT" ELSE "CREDIT"
    BY <2>2 DEF Direction
  <2>5. PICK a \in Int : a = In("amount")
    BY <1>1, <2>1
  <2>6. a # 0 => Magnitude(Read("amount")) = IF a < 0 THEN -a ELSE a
    BY <1>1, <1>3, <2>1, <2>5 DEF Magnitude
  <2>7. a # 0 => Direction(line, headers) = IF a < 0 THEN "DEBIT" ELSE "CREDIT"
    BY <1>1, <2>1, <2>4, <2>5
  <2> HIDE DEF In
  <2>8. a # 0 => a = IF Direction(line, headers) = "CREDIT" THEN Magnitude(Read("amount"))
                     ELSE -Magnitude(Read("amount"))
    BY <2>6, <2>7
  <2> QED
    BY <2>2, <2>3, <2>5, <2>8
<1>5. CASE ~HasSignedAmount(headers)
  <2>1. PICK d, c \in Int : d = In("debit") /\ c = In("credit") /\ (d = 0 \/ c = 0)
                            /\ d >= 0 /\ c >= 0
    <3>1. In("debit") \in Int /\ In("credit") \in Int
      BY <1>1, <1>2 DEF AmountColumns
    <3>2. In("debit") = 0 \/ In("credit") = 0
      BY DEF IsOrdinary
    <3>3. In("debit") >= 0 /\ In("credit") >= 0
      BY <1>2 DEF IsOrdinary
    <3> QED
      BY <3>1, <3>2, <3>3
  <2>2. NetOf(line, headers) = c - d
    BY <1>5, <2>1 DEF NetOf
  <2>3. /\ "debit" \in headers => (Read("debit") \in {None, 0} <=> d = 0)
        /\ "credit" \in headers => (Read("credit") \in {None, 0} <=> c = 0)
        /\ "debit" \notin headers => d = 0
        /\ "credit" \notin headers => c = 0
        /\ d # 0 => Read("debit") = d
        /\ c # 0 => Read("credit") = c
    BY <1>1, <1>2, <2>1 DEF AmountColumns
  <2> HIDE DEF In
  <2>4. CASE d # 0
    <3>1. FilledColumn(line, headers) = "debit" /\ "debit" \in headers
      BY <1>5, <2>3, <2>4 DEF FilledColumn
    <3>2. ~IsSkipped(line, headers) /\ Direction(line, headers) = "DEBIT"
      BY <1>3, <2>3, <2>4, <3>1 DEF IsSkipped, Direction
    <3>3. Magnitude(Read("debit")) = d /\ c - d = -d /\ c - d # 0
      BY <1>3, <2>1, <2>3, <2>4 DEF Magnitude
    <3> QED
      BY <2>2, <3>1, <3>2, <3>3
  <2>5. CASE d = 0
    <3>1. FilledColumn(line, headers) = "credit"
      BY <1>5, <2>3, <2>5 DEF FilledColumn
    <3>2. Direction(line, headers) = "CREDIT" /\ (IsSkipped(line, headers) <=> c = 0)
      BY <1>3, <2>3, <3>1 DEF IsSkipped, Direction
    <3>3. c # 0 => Magnitude(Read("credit")) = c
      BY <1>3, <2>1, <2>3 DEF Magnitude
    <3>4. c - d = c
      BY <2>1, <2>5
    <3> QED
      BY <2>2, <3>1, <3>2, <3>3, <3>4
  <2> QED
    BY <2>4, <2>5
<1> QED
  BY <1>4, <1>5

\* normalize_rows loses and invents no money, for every file, whichever columns it has and
\* however many of its lines are unusable, and the later nodes keep every row.
THEOREM LinesAreKept == Spec => []TransactionsAreTheLines
<1>1. AllInv => TransactionsAreTheLines
  <2> SUFFICES ASSUME AllInv, node \notin {"parse_csv", "normalize_rows", "FAILED"}
               PROVE  /\ skipped + Len(transactions) = Len(file.lines)
                      /\ \A i, j \in DOMAIN transactions :
                           i < j => transactions[i].line < transactions[j].line
                      /\ \A l \in DOMAIN file.lines :
                           IsOrdinary(file.lines[l], file.headers) =>
                             LET net == NetOf(file.lines[l], file.headers)
                                 of  == {t \in Range(transactions) : t.line = l}
                             IN IF net = 0 THEN of = {}
                                ELSE \E t \in of : net = IF t.direction = "CREDIT"
                                                         THEN t.amount ELSE -t.amount
    BY DEF TransactionsAreTheLines
  <2>1. /\ Detected(file.headers) /\ skipped + Len(transactions) = Len(file.lines)
        /\ \A i, j \in DOMAIN transactions : i < j => transactions[i].line < transactions[j].line
        /\ \A i \in DOMAIN transactions : IsOfLine(transactions[i])
        /\ \A l \in DOMAIN file.lines :
             ~IsSkipped(file.lines[l], file.headers) =>
               \E i \in DOMAIN transactions : transactions[i].line = l
    BY DEF AllInv, FileInv, LinesInv, Unread
  <2>2. ASSUME NEW l \in DOMAIN file.lines, IsOrdinary(file.lines[l], file.headers)
        PROVE  LET net == NetOf(file.lines[l], file.headers)
                   of  == {t \in Range(transactions) : t.line = l}
               IN IF net = 0 THEN of = {}
                  ELSE \E t \in of : net = IF t.direction = "CREDIT"
                                           THEN t.amount ELSE -t.amount
    <3>1. PICK line, headers : line = file.lines[l] /\ headers = file.headers
      OBVIOUS
    <3>2. PICK net, column : net = NetOf(line, headers) /\ column = FilledColumn(line, headers)
      OBVIOUS
    <3>3. PICK amount, direction : /\ amount = Magnitude(AmountIn(line, column))
                                   /\ direction = Direction(line, headers)
      OBVIOUS
    <3>4. line \in Lines /\ headers \in SUBSET Columns
      BY <3>1, FileTypes DEF AllInv, FileInv, TypeOK
    <3>5. IF net = 0 THEN IsSkipped(line, headers)
          ELSE /\ ~IsSkipped(line, headers)
               /\ net = IF direction = "CREDIT" THEN amount ELSE -amount
      BY <2>1, <2>2, <3>1, <3>2, <3>3, <3>4, OrdinaryLine
    <3>6. \A i \in DOMAIN transactions : transactions[i].line = l =>
            /\ ~IsSkipped(line, headers) /\ transactions[i].amount = amount
            /\ transactions[i].direction = direction
      BY <2>1, <3>1, <3>2, <3>3 DEF IsOfLine, ToTransaction
    <3>7. CASE net = 0
      BY <3>1, <3>2, <3>5, <3>6, <3>7 DEF Range
    <3>8. CASE net # 0
      <4>1. PICK i \in DOMAIN transactions : transactions[i].line = l
        BY <2>1, <3>1, <3>5, <3>8
      <4>2. transactions[i] \in {t \in Range(transactions) : t.line = l}
        BY <4>1 DEF Range
      <4>3. net = IF transactions[i].direction = "CREDIT" THEN transactions[i].amount
                                                          ELSE -transactions[i].amount
        BY <3>5, <3>6, <3>8, <4>1
      <4> QED
        BY <3>1, <3>2, <3>8, <4>2, <4>3
    <3> QED
      BY <3>7, <3>8
  <2> QED
    BY <2>1, <2>2
<1> QED
  BY <1>1, FileInvariant, PTL

\* The review changes the rows it was given decisions for and no others, for any payload and
\* any list of decisions, repeated ones included.
THEOREM DecisionsFollow == Spec => DecisionsReachTheirRows
<1>1. AllInv /\ [Next]_vars =>
        [node = "review_low_confidence" /\ node' = "store_transactions" =>
           \A i \in DOMAIN transactions :
              IF transactions[i].line \in DOMAIN decided'
              THEN /\ transactions'[i].category = decided'[transactions[i].line]
                   /\ transactions'[i].categorized_by = "USER"
              ELSE transactions'[i] = transactions[i]]_vars
  <2> SUFFICES ASSUME AllInv, Next,
                      node = "review_low_confidence", node' = "store_transactions",
                      NEW i \in DOMAIN transactions
               PROVE  IF transactions[i].line \in DOMAIN decided'
                      THEN /\ transactions'[i].category = decided'[transactions[i].line]
                           /\ transactions'[i].categorized_by = "USER"
                      ELSE transactions'[i] = transactions[i]
    BY DEF vars
  <2>1. SubmitReview
    BY DEF Next, ParseCsv, NormalizeRows, ApplyCategoryRules, AskModel, ApplyPredictions,
           NoSuggestions, StoreTransactions, SetCategory
  <2>2. PICK positions \in SUBSET Select(transactions) :
          /\ DOMAIN decided' = {transactions[j].line : j \in positions}
          /\ \A j \in DOMAIN transactions \ positions : transactions'[j] = transactions[j]
          /\ \A j \in positions :
               /\ transactions'[j].category = decided'[transactions[j].line]
               /\ transactions'[j].categorized_by = "USER"
    BY <2>1, Decided
  <2>3. CASE i \in positions
    BY <2>2, <2>3
  <2>4. CASE i \notin positions
    <3>1. ASSUME NEW j \in positions, transactions[i].line = transactions[j].line PROVE FALSE
      <4>1. j \in DOMAIN transactions
        BY DEF Select
      <4> QED
        BY <2>4, <3>1, <4>1, OneRowPerLine DEF AllInv, FileInv
    <3> QED
      BY <2>2, <2>4, <3>1
  <2> QED
    BY <2>3, <2>4
<1> QED
  BY <1>1, FileInvariant, PTL DEF Spec, DecisionsReachTheirRows

=============================================================================
