-------------------------- MODULE StatementProofs --------------------------
(***************************************************************************)
(* Proofs about the statement pipeline, for any number of requests, files, *)
(* attempts and faults.                                                    *)
(***************************************************************************)
EXTENDS StatementProperties, SequenceTheorems, TLAPS

----------------------------------------------------------------------------
(* Types.                                                                  *)

\* The strings the actions assign are the ones the types list.
LEMMA PlaceNames ==
    /\ "idle" \in Places /\ "done" \in Places /\ "respond" \in Places
    /\ "parse_csv" \in Places /\ "normalize_rows" \in Places
    /\ "apply_category_rules" \in Places /\ "categorize_with_llm" \in Places
    /\ "mark_awaiting_review" \in Places /\ "review_low_confidence" \in Places
    /\ "store_transactions" \in Places /\ "error_handler" \in Places
    /\ "record_failure" \in Places /\ "read_payload" \in Places /\ "resume" \in Places
    /\ "delete_thread" \in Places /\ "delete_row" \in Places
  BY DEF Places, Nodes

LEMMA AnswerNames ==
    /\ Statuses \subseteq Answers
    /\ "none" \in Answers /\ "Duplicate" \in Answers /\ "NotFound" \in Answers
    /\ "NotAwaitingReview" \in Answers /\ "ReviewUnavailable" \in Answers
    /\ "Error" \in Answers /\ "Lost" \in Answers /\ "Deleted" \in Answers
  BY DEF Answers

LEMMA StatusNames ==
    /\ "PROCESSING" \in Statuses /\ "AWAITING_REVIEW" \in Statuses
    /\ "COMPLETED" \in Statuses /\ "FAILED" \in Statuses /\ "ABSENT" \notin Statuses
  BY DEF Statuses

\* What appending one element does to a sequence.
LEMMA NonEmptyAppend ==
    \A S : \A s \in Seq(S), x \in S : Append(s, x) # <<>>
  BY AppendProperties

LEMMA AppendElements ==
    ASSUME NEW S, NEW s \in Seq(S), NEW x \in S
    PROVE  \A i \in DOMAIN Append(s, x) :
               \/ Append(s, x)[i] = x
               \/ i \in DOMAIN s /\ Append(s, x)[i] = s[i]
<1>1. DOMAIN Append(s, x) = 1 .. Len(s) + 1 /\ DOMAIN s = 1 .. Len(s) /\ Len(s) \in Nat
  BY AppendProperties
<1>2. \A i \in 1 .. Len(s) + 1 : i = Len(s) + 1 \/ i \in 1 .. Len(s)
  BY <1>1
<1> QED
  BY <1>1, <1>2, AppendProperties

\* A request works on an upload's statement.
LEMMA SubjectType ==
    ASSUME TypeOK, NEW q \in Requests
    PROVE  Subject(q) \in Uploads
  BY DEF TypeOK, Subject, Requests, Runs

\* Every kind of request is a request, and reviews and uploads run the graph.
LEMMA Kinds ==
    /\ Uploads \subseteq Runs /\ Reviews \subseteq Runs
    /\ Runs \subseteq Requests /\ Discards \subseteq Requests
  BY DEF Runs, Requests

\* Every step keeps the types.
LEMMA TypeStep ==
    ASSUME TypeOK, [Next]_vars PROVE TypeOK'
<1>1. ASSUME NEW u \in Uploads, CreateStatement(u) PROVE TypeOK'
  <2>1. pc' \in [Requests -> Places]
    BY <1>1, PlaceNames, Kinds DEF TypeOK, CreateStatement, Goto, Finish
  <2>2. answer' \in [Requests -> Answers]
    BY <1>1, AnswerNames, Kinds DEF TypeOK, CreateStatement, Goto, Finish
  <2>3. status' \in [Uploads -> Statuses \cup {"ABSENT"}]
    BY <1>1, StatusNames DEF TypeOK, CreateStatement, StatusAfter
  <2> QED
    BY <1>1, <2>1, <2>2, <2>3 DEF TypeOK, CreateStatement
<1>2. ASSUME NEW u \in Uploads, ParseCsv(u) PROVE TypeOK'
  <2>1. pc' \in [Requests -> Places]
    BY <1>2, PlaceNames, Kinds DEF TypeOK, ParseCsv, Compute, Goto, Finish
  <2>2. answer' \in [Requests -> Answers]
    BY <1>2, AnswerNames, Kinds DEF TypeOK, ParseCsv, Compute, Goto, Finish
  <2> QED
    BY <1>2, <2>1, <2>2 DEF TypeOK, ParseCsv, Compute
<1>3. ASSUME NEW u \in Uploads, NormalizeRows(u) PROVE TypeOK'
  <2>1. pc' \in [Requests -> Places]
    BY <1>3, PlaceNames, Kinds DEF TypeOK, NormalizeRows, Compute, Goto, Finish
  <2>2. answer' \in [Requests -> Answers]
    BY <1>3, AnswerNames, Kinds DEF TypeOK, NormalizeRows, Compute, Goto, Finish
  <2> QED
    BY <1>3, <2>1, <2>2 DEF TypeOK, NormalizeRows, Compute
<1>4. ASSUME NEW u \in Uploads, ApplyCategoryRules(u) PROVE TypeOK'
  <2>1. pc' \in [Requests -> Places]
    BY <1>4, PlaceNames, Kinds DEF TypeOK, ApplyCategoryRules, Compute, Goto, Finish
  <2>2. answer' \in [Requests -> Answers]
    BY <1>4, AnswerNames, Kinds DEF TypeOK, ApplyCategoryRules, Compute, Goto, Finish
  <2> QED
    BY <1>4, <2>1, <2>2 DEF TypeOK, ApplyCategoryRules, Compute
<1>5. ASSUME NEW u \in Uploads, CategorizeWithLlm(u) PROVE TypeOK'
  <2>1. pc' \in [Requests -> Places]
    BY <1>5, PlaceNames, Kinds DEF TypeOK, CategorizeWithLlm, Compute, AfterLlm, Goto, Finish
  <2>2. answer' \in [Requests -> Answers]
    BY <1>5, AnswerNames, Kinds DEF TypeOK, CategorizeWithLlm, Compute, AfterLlm, Goto, Finish
  <2> QED
    BY <1>5, <2>1, <2>2 DEF TypeOK, CategorizeWithLlm, Compute, AfterLlm
<1>6. ASSUME NEW u \in Uploads, MarkAwaitingReview(u) PROVE TypeOK'
  <2>1. pc' \in [Requests -> Places]
    BY <1>6, PlaceNames, Kinds DEF TypeOK, MarkAwaitingReview, Goto, Finish
  <2>2. answer' \in [Requests -> Answers]
    BY <1>6, AnswerNames, Kinds DEF TypeOK, MarkAwaitingReview, Goto, Finish
  <2>3. status' \in [Uploads -> Statuses \cup {"ABSENT"}]
    BY <1>6, StatusNames DEF TypeOK, MarkAwaitingReview, StatusAfter
  <2> QED
    BY <1>6, <2>1, <2>2, <2>3 DEF TypeOK, MarkAwaitingReview
<1>7. ASSUME NEW u \in Uploads, PauseForReview(u) PROVE TypeOK'
  <2>1. pc' \in [Requests -> Places]
    BY <1>7, PlaceNames, Kinds DEF TypeOK, PauseForReview, Goto, Finish
  <2>2. answer' \in [Requests -> Answers]
    BY <1>7, AnswerNames, Kinds DEF TypeOK, PauseForReview, Goto, Finish
  <2>3. checkpoint' \in [Uploads -> Checkpoints]
    BY <1>7, Kinds DEF TypeOK, PauseForReview, Checkpoints
  <2> QED
    BY <1>7, <2>1, <2>2, <2>3 DEF TypeOK, PauseForReview
<1>8. ASSUME NEW u \in Uploads, RecordFailure(u) PROVE TypeOK'
  <2>1. pc' \in [Requests -> Places]
    BY <1>8, PlaceNames, Kinds DEF TypeOK, RecordFailure, Goto, Finish
  <2>2. answer' \in [Requests -> Answers]
    BY <1>8, AnswerNames, Kinds DEF TypeOK, RecordFailure, Goto, Finish
  <2>3. status' \in [Uploads -> Statuses \cup {"ABSENT"}]
    BY <1>8, StatusNames DEF TypeOK, RecordFailure, StatusAfter
  <2>4. message' \in [Uploads -> {"none", "explained", "reuploadIt"}]
    BY <1>8 DEF TypeOK, RecordFailure, MessageAfter
  <2> QED
    BY <1>8, <2>1, <2>2, <2>3, <2>4 DEF TypeOK, RecordFailure
<1>9. ASSUME NEW r \in Reviews, RequireAwaitingReview(r) PROVE TypeOK'
  <2>1. pc' \in [Requests -> Places]
    BY <1>9, PlaceNames, Kinds DEF TypeOK, RequireAwaitingReview, MayStart, Goto, Finish
  <2>2. answer' \in [Requests -> Answers]
    BY <1>9, AnswerNames, Kinds DEF TypeOK, RequireAwaitingReview, MayStart, Goto, Finish
  <2> QED
    BY <1>9, <2>1, <2>2 DEF TypeOK, RequireAwaitingReview, MayStart
<1>10. ASSUME NEW r \in Reviews, ReadPayload(r) PROVE TypeOK'
  <2>1. pc' \in [Requests -> Places]
    BY <1>10, PlaceNames, Kinds DEF TypeOK, ReadPayload, Goto, Finish
  <2>2. answer' \in [Requests -> Answers]
    BY <1>10, AnswerNames, Kinds DEF TypeOK, ReadPayload, Goto, Finish
  <2> QED
    BY <1>10, <2>1, <2>2 DEF TypeOK, ReadPayload
<1>11. ASSUME NEW r \in Reviews, ResumeRun(r) PROVE TypeOK'
  <2>1. pc' \in [Requests -> Places]
    BY <1>11, PlaceNames, Kinds, ZenonT(60) DEF TypeOK, ResumeRun, Goto, Finish
  <2>2. answer' \in [Requests -> Answers]
    BY <1>11, AnswerNames, Kinds, ZenonT(60) DEF TypeOK, ResumeRun, Goto, Finish
  <2>3. checkpoint[target[r]].by \in Runs
    BY DEF TypeOK, Checkpoints
  <2>4. by' \in [Runs -> Runs]
    BY <1>11, <2>3, Kinds DEF TypeOK, ResumeRun, DecidedBy
  <2>5. dirty' \subseteq Runs
    BY <1>11, Kinds DEF TypeOK, ResumeRun
  <2> QED
    BY <1>11, <2>1, <2>2, <2>4, <2>5 DEF TypeOK, ResumeRun
<1>12. ASSUME NEW r \in Runs, StoreTransactions(r) PROVE TypeOK'
  <2>1. pc' \in [Requests -> Places]
    BY <1>12, PlaceNames, Kinds, ZenonT(60) DEF TypeOK, StoreTransactions, AfterStore, Goto, Finish
  <2>2. answer' \in [Requests -> Answers]
    BY <1>12, AnswerNames, Kinds DEF TypeOK, StoreTransactions, AfterStore, Goto, Finish
  <2>3. status' \in [Uploads -> Statuses \cup {"ABSENT"}]
    BY <1>12, StatusNames, SubjectType, Kinds DEF TypeOK, StoreTransactions, StatusAfter
  <2>4. Subject(r) \in Uploads
    BY SubjectType, Kinds
  <2>5. Append(batches[Subject(r)], by[r]) \in Seq(Runs)
    BY <2>4 DEF TypeOK
  <2>6. batches' \in [Uploads -> Seq(Runs)]
    <3> DEFINE stored == [batches EXCEPT ![Subject(r)] = Append(@, by[r])]
    <3>1. batches' = batches \/ batches' = stored
      BY <1>12 DEF StoreTransactions, RowsAfter
    <3>2. stored \in [Uploads -> Seq(Runs)]
      BY <2>4, <2>5 DEF TypeOK
    <3> HIDE DEF stored
    <3> QED
      BY <3>1, <3>2 DEF TypeOK
  <2>7. tries' \in [Runs -> 0 .. MaxAttempts - 1]
    <3>1. ASSUME NEW outcome
          PROVE  (IF AfterStore(r, outcome) = "store_transactions" THEN tries[r] + 1 ELSE 0)
                     \in 0 .. MaxAttempts - 1
      BY AttemptsAssumption DEF TypeOK, AfterStore
    <3>2. 0 \in 0 .. MaxAttempts - 1
      BY AttemptsAssumption
    <3> QED
      BY <1>12, <3>1, <3>2 DEF TypeOK, StoreTransactions
  <2> QED
    BY <1>12, <2>1, <2>2, <2>3, <2>6, <2>7 DEF TypeOK, StoreTransactions, AfterStore
<1>13. ASSUME NEW r \in Runs, HandleStoreError(r) PROVE TypeOK'
  <2>1. pc' \in [Requests -> Places]
    BY <1>13, PlaceNames, Kinds DEF TypeOK, HandleStoreError, AfterErrorHandler, Goto, Finish
  <2>2. answer' \in [Requests -> Answers]
    BY <1>13, AnswerNames, Kinds DEF TypeOK, HandleStoreError, AfterErrorHandler, Goto, Finish
  <2>3. status' \in [Uploads -> Statuses \cup {"ABSENT"}]
    BY <1>13, StatusNames, SubjectType, Kinds DEF TypeOK, HandleStoreError, StatusAfter
  <2>4. message' \in [Uploads -> {"none", "explained", "reuploadIt"}]
    BY <1>13, SubjectType, Kinds DEF TypeOK, HandleStoreError, MessageAfter
  <2> QED
    BY <1>13, <2>1, <2>2, <2>3, <2>4 DEF TypeOK, HandleStoreError, AfterErrorHandler
<1>14. ASSUME NEW r \in Runs, SaveCheckpoint(r) PROVE TypeOK'
  <2>1. checkpoint' \in [Uploads -> Checkpoints]
    BY <1>14, SubjectType, Kinds DEF TypeOK, SaveCheckpoint, Checkpoints
  <2> QED
    BY <1>14, <2>1 DEF TypeOK, SaveCheckpoint
<1>15. ASSUME NEW r \in Runs, Respond(r) PROVE TypeOK'
  <2>1. pc' \in [Requests -> Places]
    BY <1>15, PlaceNames, Kinds DEF TypeOK, Respond, Goto, Finish
  <2>2. answer' \in [Requests -> Answers]
    BY <1>15, AnswerNames, Kinds, SubjectType, ZenonT(60)
    DEF TypeOK, Respond, Goto, Finish, Present
  <2> QED
    BY <1>15, <2>1, <2>2 DEF TypeOK, Respond
<1>16. ASSUME NEW d \in Discards, FindForDiscard(d) PROVE TypeOK'
  <2>1. pc' \in [Requests -> Places]
    BY <1>16, PlaceNames, Kinds, ZenonT(60) DEF TypeOK, FindForDiscard, MayStart, Goto, Finish
  <2>2. answer' \in [Requests -> Answers]
    BY <1>16, AnswerNames, Kinds DEF TypeOK, FindForDiscard, MayStart, Goto, Finish
  <2> QED
    BY <1>16, <2>1, <2>2 DEF TypeOK, FindForDiscard, MayStart
<1>17. ASSUME NEW d \in Discards, DeleteThread(d) PROVE TypeOK'
  <2>1. pc' \in [Requests -> Places]
    BY <1>17, PlaceNames, Kinds DEF TypeOK, DeleteThread, Goto, Finish
  <2>2. answer' \in [Requests -> Answers]
    BY <1>17, AnswerNames, Kinds DEF TypeOK, DeleteThread, Goto, Finish
  <2>3. target[d] \in Uploads /\ [at |-> "deleted", by |-> target[d]] \in Checkpoints
    BY Kinds DEF TypeOK, Checkpoints
  <2>4. checkpoint' \in [Uploads -> Checkpoints]
    BY <1>17, <2>3 DEF TypeOK, DeleteThread
  <2> QED
    BY <1>17, <2>1, <2>2, <2>4 DEF TypeOK, DeleteThread
<1>18. ASSUME NEW d \in Discards, DeleteRow(d) PROVE TypeOK'
  <2>1. pc' \in [Requests -> Places]
    BY <1>18, PlaceNames, Kinds DEF TypeOK, DeleteRow, Goto, Finish
  <2>2. answer' \in [Requests -> Answers]
    BY <1>18, AnswerNames, Kinds DEF TypeOK, DeleteRow, Goto, Finish
  <2>3. status' \in [Uploads -> Statuses \cup {"ABSENT"}]
    BY <1>18 DEF TypeOK, DeleteRow, StatusAfter
  <2>4. batches' \in [Uploads -> Seq(Runs)]
    BY <1>18 DEF TypeOK, DeleteRow, RowsAfter
  <2>5. message' \in [Uploads -> {"none", "explained", "reuploadIt"}]
    BY <1>18 DEF TypeOK, DeleteRow, MessageAfter
  <2> QED
    BY <1>18, <2>1, <2>2, <2>3, <2>4, <2>5 DEF TypeOK, DeleteRow
<1>19. ASSUME NEW r \in Runs, RequestFails(r) PROVE TypeOK'
  <2>1. pc' \in [Requests -> Places]
    BY <1>19, PlaceNames, Kinds DEF TypeOK, RequestFails, Goto, Finish
  <2>2. answer' \in [Requests -> Answers]
    BY <1>19, AnswerNames, Kinds DEF TypeOK, RequestFails, Goto, Finish
  <2> QED
    BY <1>19, <2>1, <2>2 DEF TypeOK, RequestFails
<1>20. CASE Crash
  BY <1>20, PlaceNames, AnswerNames, AttemptsAssumption DEF Crash, TypeOK
<1>21. CASE UNCHANGED vars
  BY <1>21 DEF vars, TypeOK
<1> QED
  BY <1>1, <1>2, <1>3, <1>4, <1>5, <1>6, <1>7, <1>8, <1>9, <1>10, <1>11,
     <1>12, <1>13, <1>14, <1>15, <1>16, <1>17, <1>18, <1>19, <1>20, <1>21
  DEF Next, UploadStep, ReviewStep, RunStep, DiscardStep

\* Every variable keeps its type: in particular the retry counter never reaches
\* MaxAttempts, and every status and answer is one the code knows.
THEOREM TypeCorrect == Spec => []TypeOK
<1>1. Init => TypeOK
  BY PlaceNames, AnswerNames, Kinds, AttemptsAssumption DEF Init, TypeOK, Checkpoints
<1>2. TypeOK /\ [Next]_vars => TypeOK'
  BY TypeStep
<1> QED
  BY <1>1, <1>2, PTL DEF Spec

----------------------------------------------------------------------------
(* Safety for any clients and any faults.                                  *)

\* The nodes before a statement's first write to the transactions table.
BeforePause == {"idle", "parse_csv", "normalize_rows", "apply_category_rules",
                "categorize_with_llm"}

\* Only a thread whose upload is over its interrupt, or over, has a checkpoint to resume.
ResumableIsPaused ==
    \A u \in Uploads :
        checkpoint[u].at \in {"review", "store", "end"} => pc[u] \in {"respond", "done"}

\* Where a review is once it has found its thread paused.
ResumedPlaces == {"resume", "store_transactions", "error_handler", "respond"}

\* So a resumed run never shares the thread with the upload's own nodes.
ResumedAfterPause ==
    \A r \in Reviews :
        pc[r] \in ResumedPlaces => pc[target[r]] \in {"respond", "done"}

\* What is being saved was reached by a run that is still alive.
SavingPlaces(r) ==
    {"respond"} \cup (IF r \in Reviews THEN {"store_transactions", "error_handler"} ELSE {})

SavingRuns == \A r \in Runs : r \in dirty => pc[r] \in SavingPlaces(r)

\* Nothing is stored for an upload that has not come past its pause.
NothingStoredEarly ==
    \A u \in Uploads :
        pc[u] \in BeforePause \cup {"mark_awaiting_review"} => batches[u] = <<>>

\* An upload that is about to store by itself was not flagged.
StoringAloneIsUnflagged ==
    \A u \in Uploads :
        pc[u] \in BeforePause \cup {"store_transactions"} => u \notin flagged

\* A resumed run's transactions, in memory or saved, hold some review's decisions.
ResumedIsReviewed ==
    /\ \A r \in Reviews : by[r] \in Reviews
    /\ \A u \in Uploads : checkpoint[u].at = "store" => checkpoint[u].by \in Reviews

RunInv ==
    /\ TypeOK
    /\ ResumableIsPaused
    /\ ResumedAfterPause
    /\ SavingRuns
    /\ NothingStoredEarly
    /\ StoringAloneIsUnflagged
    /\ ResumedIsReviewed
    /\ UnfinishedHoldsNoRows
    /\ CompletedHoldsRows
    /\ FlaggedRowsWereReviewed
    /\ OneStatementPerFile

(* What a step may do to the two tables: at most one row, in one of five ways. *)

Created(u) ==
    /\ pc[u] = "idle" /\ pc'[u] # "idle" /\ ~HashTaken(u)
    /\ status' = [status EXCEPT ![u] = "PROCESSING"] /\ batches' = batches

Marked(u) ==
    /\ pc[u] = "mark_awaiting_review" /\ Present(u)
    /\ status' = [status EXCEPT ![u] = "AWAITING_REVIEW"] /\ batches' = batches

Failed(u) ==
    /\ Present(u)
    /\ \E r \in Runs : Subject(r) = u /\ pc[r] \in {"record_failure", "error_handler"}
    /\ status' = [status EXCEPT ![u] = "FAILED"] /\ batches' = batches

Stored(u) ==
    /\ Present(u)
    /\ \E r \in Runs :
         /\ Subject(r) = u /\ pc[r] = "store_transactions"
         /\ batches' = [batches EXCEPT ![u] = Append(batches[u], by[r])]
    /\ status' = [status EXCEPT ![u] = "COMPLETED"]

Deleted(u) ==
    /\ \E d \in Discards : Subject(d) = u /\ pc[d] = "delete_row"
    /\ status' = [status EXCEPT ![u] = "ABSENT"]
    /\ batches' = [batches EXCEPT ![u] = <<>>]

RowEffect(u) == Created(u) \/ Marked(u) \/ Failed(u) \/ Stored(u) \/ Deleted(u)

\* Every step has one of these effects, or none.
LEMMA RowEffects ==
    ASSUME TypeOK, [Next]_vars
    PROVE  \/ status' = status /\ batches' = batches
           \/ \E u \in Uploads : RowEffect(u)
<1> DEFINE Effect == \/ status' = status /\ batches' = batches
                     \/ \E u \in Uploads : RowEffect(u)
<1> USE Kinds, RequestsAssumption DEF RowEffect
<1>1. ASSUME NEW u \in Uploads, CreateStatement(u) PROVE Effect
  BY <1>1 DEF CreateStatement, StatusAfter, Created, Goto, Finish, TypeOK
<1>2. ASSUME NEW u \in Uploads, MarkAwaitingReview(u) PROVE Effect
  BY <1>2 DEF MarkAwaitingReview, StatusAfter, Marked
<1>3. ASSUME NEW u \in Uploads, RecordFailure(u) PROVE Effect
  BY <1>3 DEF RecordFailure, StatusAfter, Failed, Subject
<1>4. ASSUME NEW u \in Uploads,
             ParseCsv(u) \/ NormalizeRows(u) \/ ApplyCategoryRules(u)
             \/ CategorizeWithLlm(u) \/ PauseForReview(u)
      PROVE  Effect
  BY <1>4 DEF ParseCsv, NormalizeRows, ApplyCategoryRules, CategorizeWithLlm, Compute,
     PauseForReview
<1>5. ASSUME NEW r \in Reviews, RequireAwaitingReview(r) \/ ReviewStep(r) PROVE Effect
  BY <1>5 DEF RequireAwaitingReview, ReviewStep, ReadPayload, ResumeRun
<1>6. ASSUME NEW r \in Runs, StoreTransactions(r) PROVE Effect
  BY <1>6, SubjectType DEF StoreTransactions, StatusAfter, RowsAfter, Stored
<1>7. ASSUME NEW r \in Runs, HandleStoreError(r) PROVE Effect
  BY <1>7, SubjectType DEF HandleStoreError, StatusAfter, Failed
<1>8. ASSUME NEW r \in Runs, SaveCheckpoint(r) \/ Respond(r) \/ RequestFails(r) PROVE Effect
  BY <1>8 DEF SaveCheckpoint, Respond, RequestFails
<1>9. ASSUME NEW d \in Discards, FindForDiscard(d) \/ DeleteThread(d) PROVE Effect
  BY <1>9 DEF FindForDiscard, DeleteThread
<1>10. ASSUME NEW d \in Discards, DeleteRow(d) PROVE Effect
  BY <1>10, SubjectType DEF DeleteRow, StatusAfter, RowsAfter, Deleted, Subject
<1>11. CASE Crash
  BY <1>11 DEF Crash
<1>12. CASE UNCHANGED vars
  BY <1>12 DEF vars
<1> QED
  BY <1>1, <1>2, <1>3, <1>4, <1>5, <1>6, <1>7, <1>8, <1>9, <1>10, <1>11, <1>12
  DEF Next, UploadStep, ReviewStep, RunStep, DiscardStep

\* An upload that is over its pause, or over, never goes back into its graph.
LEMMA OverPauseStays ==
    ASSUME TypeOK, [Next]_vars, NEW u \in Uploads, pc[u] \in {"respond", "done"}
    PROVE  pc'[u] \in {"respond", "done"}
<1> USE Kinds, RequestsAssumption DEF TypeOK, Goto, Finish
<1>1. ASSUME NEW v \in Uploads, CreateStatement(v) PROVE pc'[u] \in {"respond", "done"}
  BY <1>1 DEF CreateStatement
<1>2. ASSUME NEW v \in Uploads, UploadStep(v) PROVE pc'[u] \in {"respond", "done"}
  BY <1>2 DEF UploadStep, ParseCsv, NormalizeRows, ApplyCategoryRules, CategorizeWithLlm,
     Compute, MarkAwaitingReview, PauseForReview, RecordFailure
<1>3. ASSUME NEW r \in Reviews, RequireAwaitingReview(r) \/ ReviewStep(r)
      PROVE  pc'[u] \in {"respond", "done"}
  BY <1>3 DEF RequireAwaitingReview, ReviewStep, ReadPayload, ResumeRun
<1>4. ASSUME NEW d \in Discards, FindForDiscard(d) \/ DiscardStep(d)
      PROVE  pc'[u] \in {"respond", "done"}
  BY <1>4 DEF FindForDiscard, DiscardStep, DeleteThread, DeleteRow
<1>5. ASSUME NEW r \in Runs, RunStep(r) PROVE pc'[u] \in {"respond", "done"}
  BY <1>5 DEF RunStep, StoreTransactions, HandleStoreError, SaveCheckpoint, Respond,
     AfterErrorHandler
<1>6. ASSUME NEW r \in Runs, RequestFails(r) PROVE pc'[u] \in {"respond", "done"}
  BY <1>6 DEF RequestFails
<1>7. CASE Crash
  BY <1>7 DEF Crash
<1>8. CASE UNCHANGED vars
  BY <1>8 DEF vars
<1> QED
  BY <1>1, <1>2, <1>3, <1>4, <1>5, <1>6, <1>7, <1>8 DEF Next

\* A review or a discard is about one statement from its first step to its last.
LEMMA TargetStays ==
    ASSUME [Next]_vars PROVE target' = target
  BY DEF Next, vars, CreateStatement, UploadStep, ParseCsv, NormalizeRows,
     ApplyCategoryRules, CategorizeWithLlm, Compute, MarkAwaitingReview, PauseForReview,
     RecordFailure, RequireAwaitingReview, ReviewStep, ReadPayload, ResumeRun,
     FindForDiscard, DiscardStep, DeleteThread, DeleteRow, RunStep, StoreTransactions,
     HandleStoreError, SaveCheckpoint, Respond, RequestFails, Crash

\* A review reaches its run only through a thread paused at the interrupt.
LEMMA ResumedStep ==
    ASSUME RunInv, [Next]_vars PROVE  ResumedAfterPause'
<1> SUFFICES ASSUME NEW r \in Reviews, pc'[r] \in ResumedPlaces
    PROVE pc[target[r]] \in {"respond", "done"} /\ target' = target
  BY OverPauseStays DEF ResumedAfterPause, RunInv, TypeOK, ResumedPlaces
<1>0. target' = target
  BY TargetStays
<1>1. pc[r] \in ResumedPlaces \/ checkpoint[target[r]].at = "review"
  <2> USE Kinds, RequestsAssumption DEF RunInv, TypeOK, Goto, Finish, ResumedPlaces
  <2>1. ASSUME NEW v \in Uploads, CreateStatement(v) \/ UploadStep(v)
        PROVE  pc[r] \in ResumedPlaces
    BY <2>1 DEF CreateStatement, UploadStep, ParseCsv, NormalizeRows, ApplyCategoryRules,
       CategorizeWithLlm, Compute, MarkAwaitingReview, PauseForReview, RecordFailure
  <2>2. ASSUME NEW q \in Reviews, RequireAwaitingReview(q) \/ ReviewStep(q)
        PROVE  pc[r] \in ResumedPlaces \/ checkpoint[target[r]].at = "review"
    BY <2>2 DEF RequireAwaitingReview, ReviewStep, ReadPayload, ResumeRun
  <2>3. ASSUME NEW d \in Discards, FindForDiscard(d) \/ DiscardStep(d)
        PROVE  pc[r] \in ResumedPlaces
    BY <2>3 DEF FindForDiscard, DiscardStep, DeleteThread, DeleteRow
  <2>4. ASSUME NEW q \in Runs, RunStep(q) \/ RequestFails(q) PROVE pc[r] \in ResumedPlaces
    BY <2>4 DEF RunStep, StoreTransactions, HandleStoreError, SaveCheckpoint, Respond,
       AfterErrorHandler, RequestFails
  <2>5. CASE Crash
    BY <2>5 DEF Crash
  <2>6. CASE UNCHANGED vars
    BY <2>6 DEF vars
  <2> QED
    BY <2>1, <2>2, <2>3, <2>4, <2>5, <2>6 DEF Next
<1> QED
  BY <1>0, <1>1 DEF RunInv, TypeOK, ResumedAfterPause, ResumableIsPaused, ResumedPlaces

\* A checkpoint that can be resumed appears at the interrupt, or replaces such a one.
LEMMA PausedStep ==
    ASSUME RunInv, [Next]_vars PROVE ResumableIsPaused'
<1> SUFFICES ASSUME NEW u \in Uploads, checkpoint'[u].at \in {"review", "store", "end"}
             PROVE  pc'[u] \in {"respond", "done"}
  BY DEF ResumableIsPaused
<1>1. \/ checkpoint[u].at \in {"review", "store", "end"}
      \/ pc[u] \in {"respond", "done"}
      \/ pc'[u] = "respond"
  <2> USE Kinds, RequestsAssumption DEF RunInv, TypeOK
  <2>1. ASSUME NEW v \in Uploads, PauseForReview(v)
        PROVE  checkpoint'[u] = checkpoint[u] \/ pc'[u] = "respond"
    BY <2>1 DEF PauseForReview, Goto
  <2>2. ASSUME NEW v \in Uploads, SaveCheckpoint(v)
        PROVE  checkpoint'[u] = checkpoint[u] \/ pc[u] = "respond"
    BY <2>2 DEF SaveCheckpoint, Subject, SavingRuns, SavingPlaces
  <2>3. ASSUME NEW r \in Reviews, SaveCheckpoint(r)
        PROVE  checkpoint'[u] = checkpoint[u] \/ pc[u] \in {"respond", "done"}
    BY <2>3 DEF SaveCheckpoint, Subject, SavingRuns, SavingPlaces, ResumedAfterPause, ResumedPlaces
  <2>4. ASSUME NEW d \in Discards, DeleteThread(d)
        PROVE  checkpoint'[u] = checkpoint[u]
    BY <2>4 DEF DeleteThread
  <2>5. \/ checkpoint' = checkpoint
        \/ \E v \in Uploads : PauseForReview(v) \/ SaveCheckpoint(v)
        \/ \E r \in Reviews : SaveCheckpoint(r)
        \/ \E d \in Discards : DeleteThread(d)
    BY DEF Next, vars, CreateStatement, UploadStep, ParseCsv, NormalizeRows,
       ApplyCategoryRules, CategorizeWithLlm, Compute, MarkAwaitingReview, RecordFailure,
       RequireAwaitingReview, ReviewStep, ReadPayload, ResumeRun, FindForDiscard,
       DiscardStep, DeleteRow, RunStep, StoreTransactions, HandleStoreError, Respond,
       RequestFails, Crash, Runs
  <2> QED
    BY <2>1, <2>2, <2>3, <2>4, <2>5
<1> QED
  BY <1>1, OverPauseStays DEF RunInv, ResumableIsPaused

\* A run takes part in saving checkpoints only from its resumption to its answer.
LEMMA SavingStep ==
    ASSUME RunInv, [Next]_vars PROVE SavingRuns'
<1> SUFFICES ASSUME NEW q \in Runs, q \in dirty' PROVE pc'[q] \in SavingPlaces(q)
  BY DEF SavingRuns
<1> USE Kinds, RequestsAssumption
    DEF RunInv, TypeOK, SavingRuns, SavingPlaces, Goto, Finish
<1>1. ASSUME NEW u \in Uploads, CreateStatement(u) PROVE pc'[q] \in SavingPlaces(q)
  BY <1>1 DEF CreateStatement
<1>2. ASSUME NEW u \in Uploads, UploadStep(u) PROVE pc'[q] \in SavingPlaces(q)
  BY <1>2 DEF UploadStep, ParseCsv, NormalizeRows, ApplyCategoryRules,
     CategorizeWithLlm, Compute, MarkAwaitingReview, PauseForReview, RecordFailure
<1>3. ASSUME NEW r \in Reviews, RequireAwaitingReview(r) \/ ReadPayload(r)
      PROVE  pc'[q] \in SavingPlaces(q)
  BY <1>3 DEF RequireAwaitingReview, MayStart, ReadPayload
<1>4. ASSUME NEW r \in Reviews, ResumeRun(r) PROVE pc'[q] \in SavingPlaces(q)
  BY <1>4 DEF ResumeRun
<1>5. ASSUME NEW d \in Discards, FindForDiscard(d) \/ DiscardStep(d)
      PROVE  pc'[q] \in SavingPlaces(q)
  <2>1. d # q
    BY DEF Runs
  <2> QED
    BY <1>5, <2>1 DEF FindForDiscard, DiscardStep, DeleteThread, DeleteRow
<1>6. ASSUME NEW r \in Runs, StoreTransactions(r) PROVE pc'[q] \in SavingPlaces(q)
  BY <1>6 DEF StoreTransactions, AfterStore
<1>7. ASSUME NEW r \in Runs, HandleStoreError(r) PROVE pc'[q] \in SavingPlaces(q)
  BY <1>7 DEF HandleStoreError, AfterErrorHandler
<1>8. ASSUME NEW r \in Runs, SaveCheckpoint(r) \/ Respond(r) \/ RequestFails(r)
      PROVE  pc'[q] \in SavingPlaces(q)
  BY <1>8 DEF SaveCheckpoint, Respond, RequestFails
<1>9. CASE Crash
  BY <1>9 DEF Crash
<1>10. CASE UNCHANGED vars
  BY <1>10 DEF vars
<1> QED
  BY <1>1, <1>2, <1>3, <1>4, <1>5, <1>6, <1>7, <1>8, <1>9, <1>10
  DEF Next, ReviewStep, RunStep

\* An upload only moves forward: it reaches a node before the pause from such a node, and
\* the row it has flagged leads to the pause, never to the store node.
LEMMA ForwardOnly ==
    ASSUME TypeOK, [Next]_vars, NEW u \in Uploads
    PROVE  /\ pc'[u] \in BeforePause => pc[u] \in BeforePause
           /\ pc'[u] = "mark_awaiting_review"
              => pc[u] \in BeforePause \cup {"mark_awaiting_review"}
           /\ pc'[u] = "store_transactions"
              => pc[u] \in BeforePause \cup {"store_transactions"}
           /\ pc'[u] \in BeforePause \cup {"store_transactions"} /\ u \notin flagged
              => u \notin flagged'
           /\ u \in flagged' => u \in flagged \/ pc[u] \in BeforePause
<1> DEFINE Goal == 
           /\ pc'[u] \in BeforePause => pc[u] \in BeforePause
           /\ pc'[u] = "mark_awaiting_review"
              => pc[u] \in BeforePause \cup {"mark_awaiting_review"}
           /\ pc'[u] = "store_transactions"
              => pc[u] \in BeforePause \cup {"store_transactions"}
           /\ pc'[u] \in BeforePause \cup {"store_transactions"} /\ u \notin flagged
              => u \notin flagged'
           /\ u \in flagged' => u \in flagged \/ pc[u] \in BeforePause
<1> USE Kinds, RequestsAssumption DEF TypeOK, BeforePause, Goto, Finish
<1>1. ASSUME NEW v \in Uploads, CreateStatement(v) PROVE Goal
  BY <1>1 DEF CreateStatement
<1>2. ASSUME NEW v \in Uploads, ParseCsv(v) \/ NormalizeRows(v) \/ ApplyCategoryRules(v)
      PROVE  Goal
  BY <1>2 DEF ParseCsv, NormalizeRows, ApplyCategoryRules, Compute
<1>3. ASSUME NEW v \in Uploads, CategorizeWithLlm(v) PROVE Goal
  BY <1>3 DEF CategorizeWithLlm, AfterLlm, Compute
<1>4. ASSUME NEW v \in Uploads, MarkAwaitingReview(v) \/ PauseForReview(v) \/ RecordFailure(v)
      PROVE  Goal
  BY <1>4 DEF MarkAwaitingReview, PauseForReview, RecordFailure
<1>5. ASSUME NEW r \in Reviews, RequireAwaitingReview(r) \/ ReviewStep(r) PROVE Goal
  BY <1>5 DEF RequireAwaitingReview, ReviewStep, ReadPayload, ResumeRun
<1>6. ASSUME NEW d \in Discards, FindForDiscard(d) \/ DiscardStep(d) PROVE Goal
  BY <1>6 DEF FindForDiscard, DiscardStep, DeleteThread, DeleteRow
<1>7. ASSUME NEW r \in Runs, RunStep(r) \/ RequestFails(r) PROVE Goal
  BY <1>7 DEF RunStep, StoreTransactions, AfterStore, HandleStoreError, AfterErrorHandler,
     SaveCheckpoint, Respond, RequestFails
<1>8. CASE Crash
  BY <1>8 DEF Crash, InFlight
<1>9. CASE UNCHANGED vars
  BY <1>9 DEF vars
<1> QED
  BY <1>1, <1>2, <1>3, <1>4, <1>5, <1>6, <1>7, <1>8, <1>9 DEF Next, UploadStep

\* Whoever stores rows without a review stores rows nobody flagged.
LEMMA UnflaggedStep ==
    ASSUME RunInv, [Next]_vars PROVE StoringAloneIsUnflagged'
  BY ForwardOnly DEF RunInv, StoringAloneIsUnflagged

\* Decisions in memory or in a checkpoint past the review are some review's.
LEMMA ReviewedStep ==
    ASSUME RunInv, [Next]_vars PROVE ResumedIsReviewed'
<1> USE Kinds, RequestsAssumption DEF RunInv, TypeOK
<1>1. ASSUME NEW r \in Reviews PROVE by'[r] \in Reviews
  <2>1. ASSUME NEW q \in Reviews, ResumeRun(q) PROVE by'[r] \in Reviews
    BY <2>1 DEF ResumeRun, DecidedBy, ResumedIsReviewed
  <2>2. by' = by \/ \E q \in Reviews : ResumeRun(q)
    BY DEF Next, vars, CreateStatement, UploadStep, ParseCsv, NormalizeRows,
       ApplyCategoryRules, CategorizeWithLlm, Compute, MarkAwaitingReview, PauseForReview,
       RecordFailure, RequireAwaitingReview, ReviewStep, ReadPayload, FindForDiscard,
       DiscardStep, DeleteThread, DeleteRow, RunStep, StoreTransactions, HandleStoreError,
       SaveCheckpoint, Respond, RequestFails, Crash
  <2> QED
    BY <2>1, <2>2 DEF ResumedIsReviewed
<1>2. ASSUME NEW u \in Uploads, checkpoint'[u].at = "store" PROVE checkpoint'[u].by \in Reviews
  <2>1. ASSUME NEW v \in Uploads, PauseForReview(v) PROVE checkpoint'[u] = checkpoint[u]
    BY <1>2, <2>1 DEF PauseForReview
  <2>2. ASSUME NEW v \in Uploads, SaveCheckpoint(v) PROVE checkpoint'[u] = checkpoint[u]
    BY <1>2, <2>2 DEF SaveCheckpoint, Subject, SavingRuns, SavingPlaces
  <2>3. ASSUME NEW r \in Reviews, SaveCheckpoint(r)
        PROVE  checkpoint'[u] = checkpoint[u] \/ checkpoint'[u].by = by[r]
    BY <2>3 DEF SaveCheckpoint, Subject
  <2>4. ASSUME NEW d \in Discards, DeleteThread(d) PROVE checkpoint'[u] = checkpoint[u]
    BY <1>2, <2>4 DEF DeleteThread
  <2>5. \/ checkpoint' = checkpoint
        \/ \E v \in Uploads : PauseForReview(v) \/ SaveCheckpoint(v)
        \/ \E r \in Reviews : SaveCheckpoint(r)
        \/ \E d \in Discards : DeleteThread(d)
    BY DEF Next, vars, CreateStatement, UploadStep, ParseCsv, NormalizeRows,
       ApplyCategoryRules, CategorizeWithLlm, Compute, MarkAwaitingReview, RecordFailure,
       RequireAwaitingReview, ReviewStep, ReadPayload, ResumeRun, FindForDiscard,
       DiscardStep, DeleteRow, RunStep, StoreTransactions, HandleStoreError, Respond,
       RequestFails, Crash, Runs
  <2> QED
    BY <1>2, <2>1, <2>2, <2>3, <2>4, <2>5 DEF ResumedIsReviewed
<1> QED
  BY <1>1, <1>2 DEF ResumedIsReviewed

\* The store node of a statement is run by its upload, which then is at that node, or by
\* a review, and then the upload is over its pause.
LEMMA StoringRun ==
    ASSUME RunInv, NEW r \in Runs, pc[r] = "store_transactions"
    PROVE  \/ r \in Uploads /\ Subject(r) = r
           \/ r \in Reviews /\ pc[Subject(r)] \in {"respond", "done"}
  BY RequestsAssumption DEF RunInv, Runs, Subject, ResumedAfterPause, ResumedPlaces

\* The rows of a statement appear after its pause, if it has one.
LEMMA EarlyStep ==
    ASSUME RunInv, [Next]_vars PROVE NothingStoredEarly'
<1> SUFFICES ASSUME NEW u \in Uploads, pc'[u] \in BeforePause \cup {"mark_awaiting_review"}
             PROVE  batches'[u] = <<>>
  BY DEF NothingStoredEarly
<1>1. pc[u] \in BeforePause \cup {"mark_awaiting_review"} /\ batches[u] = <<>>
  BY ForwardOnly DEF RunInv, NothingStoredEarly
<1>2. ASSUME NEW v \in Uploads, Stored(v) PROVE u # v
  BY <1>1, <1>2, StoringRun DEF Stored, BeforePause
<1> QED
  BY <1>1, <1>2, RowEffects
  DEF RowEffect, Created, Marked, Failed, Stored, Deleted, RunInv, TypeOK

\* The four properties, from what a step may do to the tables.
LEMMA TablesStep ==
    ASSUME RunInv, [Next]_vars
    PROVE  /\ UnfinishedHoldsNoRows' /\ CompletedHoldsRows'
           /\ FlaggedRowsWereReviewed' /\ OneStatementPerFile'
<1> USE DEF RunInv, TypeOK
<1>1. UnfinishedHoldsNoRows'
  <2> SUFFICES ASSUME NEW u \in Uploads,
                      status'[u] \in {"PROCESSING", "AWAITING_REVIEW", "ABSENT"}
               PROVE  batches'[u] = <<>>
    BY DEF UnfinishedHoldsNoRows
  <2> QED
    BY RowEffects DEF RowEffect, Created, Marked, Failed, Stored, Deleted,
       UnfinishedHoldsNoRows, NothingStoredEarly, BeforePause
<1>2. CompletedHoldsRows'
  <2> SUFFICES ASSUME NEW u \in Uploads, status'[u] = "COMPLETED" PROVE batches'[u] # <<>>
    BY DEF CompletedHoldsRows
  <2>1. ASSUME NEW v \in Uploads, Stored(v) PROVE batches'[u] # <<>>
    <3>1. PICK r \in Runs : batches' = [batches EXCEPT ![v] = Append(batches[v], by[r])]
      BY <2>1 DEF Stored
    <3>2. batches[v] \in Seq(Runs) /\ by[r] \in Runs
      OBVIOUS
    <3>3. Append(batches[v], by[r]) # <<>>
      BY <3>2, NonEmptyAppend
    <3>4. CASE u = v
      BY <3>1, <3>3, <3>4
    <3>5. CASE u # v
      BY <2>1, <3>1, <3>5 DEF Stored, CompletedHoldsRows
    <3> QED
      BY <3>4, <3>5
  <2> QED
    BY RowEffects, <2>1 DEF RowEffect, Created, Marked, Failed, Deleted, CompletedHoldsRows
<1>3. FlaggedRowsWereReviewed'
  <2> SUFFICES ASSUME NEW u \in Uploads, u \in flagged', NEW i \in DOMAIN batches'[u]
               PROVE  batches'[u][i] \in Reviews
    <3>1. flagged' \subseteq Uploads
      BY TypeStep DEF RunInv
    <3> QED
      BY <3>1 DEF FlaggedRowsWereReviewed
  <2>1. u \in flagged \/ (batches[u] = <<>> /\ pc[u] \in BeforePause)
    BY ForwardOnly DEF NothingStoredEarly
  <2>2. \A j \in DOMAIN batches[u] : batches[u][j] \in Reviews
    BY <2>1 DEF FlaggedRowsWereReviewed
  <2>3. ASSUME NEW v \in Uploads, Stored(v) PROVE batches'[u][i] \in Reviews
    <3>1. PICK r \in Runs :
              /\ Subject(r) = v /\ pc[r] = "store_transactions"
              /\ batches' = [batches EXCEPT ![v] = Append(batches[v], by[r])]
      BY <2>3 DEF Stored
    <3>2. CASE u # v
      BY <2>2, <3>1, <3>2
    <3>3. CASE u = v
      <4>1. by[r] \in Reviews
        BY <2>1, <3>1, <3>3, StoringRun
        DEF StoringAloneIsUnflagged, ResumedIsReviewed, BeforePause
      <4>2. batches'[u] = Append(batches[u], by[r])
        BY <3>1, <3>3
      <4>3. batches[u] \in Seq(Runs)
        OBVIOUS
      <4>4. \/ batches'[u][i] = by[r]
            \/ i \in DOMAIN batches[u] /\ batches'[u][i] = batches[u][i]
        BY <4>2, <4>3, AppendElements DEF ResumedIsReviewed
      <4> QED
        BY <2>2, <4>1, <4>4
    <3> QED
      BY <3>2, <3>3
  <2>4. ASSUME NEW v \in Uploads, Deleted(v) PROVE batches'[u][i] \in Reviews
    <3>1. DOMAIN <<>> = {}
      BY EmptySeq
    <3>2. batches' = [batches EXCEPT ![v] = <<>>]
      BY <2>4 DEF Deleted
    <3> QED
      BY <2>2, <3>1, <3>2
  <2> QED
    BY RowEffects, <2>2, <2>3, <2>4 DEF RowEffect, Created, Marked, Failed
<1>4. OneStatementPerFile'
  <2> SUFFICES ASSUME NEW u \in Uploads, NEW v \in Uploads,
                      status'[u] # "ABSENT", status'[v] # "ABSENT", FileOf[u] = FileOf[v]
               PROVE  u = v
    BY DEF OneStatementPerFile, Present
  <2> QED
    BY RowEffects DEF RowEffect, Created, Marked, Failed, Stored, Deleted,
       OneStatementPerFile, Present, HashTaken
<1> QED
  BY <1>1, <1>2, <1>3, <1>4

\* Every part of the invariant is kept by every step.
LEMMA RunInvStep ==
    ASSUME RunInv, [Next]_vars PROVE RunInv'
<1>1. TypeOK'
  BY TypeStep DEF RunInv
<1> QED
  BY <1>1, PausedStep, ResumedStep, SavingStep, EarlyStep, UnflaggedStep, ReviewedStep,
     TablesStep
  DEF RunInv

LEMMA RunInvInit ==
    ASSUME Init PROVE RunInv
<1>1. TypeOK
  BY PlaceNames, AnswerNames, Kinds, AttemptsAssumption DEF Init, TypeOK, Checkpoints
<1> QED
  BY <1>1, Kinds, RequestsAssumption
  DEF Init, RunInv, ResumableIsPaused, ResumedAfterPause, ResumedPlaces, SavingRuns,
      NothingStoredEarly, StoringAloneIsUnflagged, ResumedIsReviewed,
      UnfinishedHoldsNoRows, CompletedHoldsRows, FlaggedRowsWereReviewed,
      OneStatementPerFile, Present

\* The invariant holds however the requests interleave and whatever fails.
THEOREM RunInvariant == Spec => []RunInv
<1>1. Init => RunInv
  BY RunInvInit
<1>2. RunInv /\ [Next]_vars => RunInv'
  BY RunInvStep
<1> QED
  BY <1>1, <1>2, PTL DEF Spec

\* Rows exist only for statements that are COMPLETED or FAILED.
THEOREM UnfinishedRows == Spec => []UnfinishedHoldsNoRows
<1>1. RunInv => UnfinishedHoldsNoRows
  BY DEF RunInv
<1> QED
  BY <1>1, RunInvariant, PTL

\* COMPLETED is never recorded without the transactions, even by a commit whose outcome
\* the client of the database did not learn.
THEOREM CompletedRows == Spec => []CompletedHoldsRows
<1>1. RunInv => CompletedHoldsRows
  BY DEF RunInv
<1> QED
  BY <1>1, RunInvariant, PTL

\* A flagged statement's rows are stored by runs a person's review resumed.
THEOREM FlaggedRows == Spec => []FlaggedRowsWereReviewed
<1>1. RunInv => FlaggedRowsWereReviewed
  BY DEF RunInv
<1> QED
  BY <1>1, RunInvariant, PTL

\* Two statements are never made from the same bytes.
THEOREM UniqueFiles == Spec => []OneStatementPerFile
<1>1. RunInv => OneStatementPerFile
  BY DEF RunInv
<1> QED
  BY <1>1, RunInvariant, PTL

----------------------------------------------------------------------------
(* A review that works on its statement alone.                             *)

\* The statement's upload was taken up, and no other request works on it.
IsAlone(r) ==
    /\ pc[target[r]] # "idle"
    /\ \A p \in Requests : InFlight(p) /\ Subject(p) = target[r] => p = r

\* What a review that is alone can rely on: the status its guard has seen, the pause it has
\* read, its decisions in the run, and in the table once the statement is completed.
KeepsDecisions(r) ==
    /\ pc[r] \in {"read_payload", "resume"} => AwaitsReview(target[r])
    /\ pc[r] = "resume" => checkpoint[target[r]].at = "review"
    /\ pc[r] \in {"store_transactions", "error_handler"} => by[r] = r
    /\ pc[r] \in {"store_transactions", "error_handler", "respond"}
       /\ status[target[r]] = "COMPLETED" =>
         \E i \in DOMAIN batches[target[r]] : batches[target[r]][i] = r

\* Nothing of it changes unless the review takes a step, or is over.
LEMMA OthersStayAway ==
    ASSUME RunInv, [Next]_vars, NEW r \in Reviews, InFlight(r), IsAlone(r)
    PROVE  \/ ReviewStep(r) \/ RunStep(r) \/ pc'[r] = "done"
           \/ /\ pc'[r] = pc[r] /\ by'[r] = by[r]
              /\ status'[target[r]] = status[target[r]]
              /\ batches'[target[r]] = batches[target[r]]
              /\ checkpoint'[target[r]] = checkpoint[target[r]]
<1> DEFINE Same == /\ pc'[r] = pc[r] /\ by'[r] = by[r]
                   /\ status'[target[r]] = status[target[r]]
                   /\ batches'[target[r]] = batches[target[r]]
                   /\ checkpoint'[target[r]] = checkpoint[target[r]]
<1> USE Kinds, RequestsAssumption DEF RunInv, TypeOK, Goto, Finish
<1>0. target[r] \in Uploads
  OBVIOUS
<1>1. ASSUME NEW q \in Requests, q # r, InFlight(q) PROVE Subject(q) # target[r]
  BY <1>1 DEF IsAlone
<1>2. ASSUME NEW u \in Uploads, CreateStatement(u) PROVE Same
  BY <1>0, <1>2 DEF CreateStatement, StatusAfter, IsAlone
<1>3. ASSUME NEW u \in Uploads, UploadStep(u) PROVE Same
  <2>1. InFlight(u) /\ Subject(u) = u
    BY <1>3 DEF UploadStep, ParseCsv, NormalizeRows, ApplyCategoryRules, CategorizeWithLlm,
       Compute, MarkAwaitingReview, PauseForReview, RecordFailure, InFlight, Subject
  <2>2. u # target[r]
    BY <1>1, <2>1
  <2>3. CASE MarkAwaitingReview(u) \/ RecordFailure(u)
    BY <1>0, <2>2, <2>3 DEF MarkAwaitingReview, RecordFailure, StatusAfter
  <2>4. CASE PauseForReview(u)
    BY <1>0, <2>2, <2>4 DEF PauseForReview
  <2> QED
    BY <1>3, <2>3, <2>4 DEF UploadStep, ParseCsv, NormalizeRows, ApplyCategoryRules,
       CategorizeWithLlm, Compute
<1>4. ASSUME NEW q \in Reviews, RequireAwaitingReview(q) \/ (q # r /\ ReviewStep(q)) PROVE Same
  <2>1. q # r
    BY <1>4 DEF RequireAwaitingReview, MayStart, InFlight
  <2> QED
    BY <1>4, <2>1 DEF RequireAwaitingReview, ReviewStep, ReadPayload, ResumeRun
<1>5. ASSUME NEW d \in Discards, FindForDiscard(d) PROVE Same
  BY <1>5 DEF FindForDiscard
<1>6. ASSUME NEW d \in Discards, DiscardStep(d) PROVE Same
  <2>1. InFlight(d) /\ Subject(d) = target[d] /\ d # r
    BY <1>6 DEF DiscardStep, DeleteThread, DeleteRow, InFlight, Subject
  <2>2. target[d] # target[r]
    BY <1>1, <2>1
  <2>3. CASE DeleteThread(d)
    BY <1>0, <2>1, <2>2, <2>3 DEF DeleteThread
  <2>4. CASE DeleteRow(d)
    BY <1>0, <2>1, <2>2, <2>4 DEF DeleteRow, StatusAfter, RowsAfter
  <2> QED
    BY <1>6, <2>3, <2>4 DEF DiscardStep
<1>7. ASSUME NEW q \in Runs, q # r, RunStep(q) PROVE Same
  <2>1. InFlight(q)
    BY <1>7 DEF RunStep, StoreTransactions, HandleStoreError, SaveCheckpoint, Respond,
       InFlight, SavingRuns, SavingPlaces
  <2>2. Subject(q) # target[r]
    BY <1>1, <1>7, <2>1
  <2>3. CASE StoreTransactions(q)
    BY <1>0, <1>7, <2>2, <2>3 DEF StoreTransactions, StatusAfter, RowsAfter
  <2>4. CASE HandleStoreError(q)
    BY <1>0, <1>7, <2>2, <2>4 DEF HandleStoreError, StatusAfter
  <2>5. CASE SaveCheckpoint(q)
    BY <1>0, <1>7, <2>2, <2>5 DEF SaveCheckpoint
  <2>6. CASE Respond(q)
    BY <1>7, <2>6 DEF Respond
  <2> QED
    BY <1>7, <2>3, <2>4, <2>5, <2>6 DEF RunStep
<1>8. ASSUME NEW q \in Runs, RequestFails(q) PROVE pc'[r] = "done" \/ Same
  BY <1>8 DEF RequestFails
<1>9. CASE Crash
  BY <1>9 DEF Crash
<1>10. CASE UNCHANGED vars
  BY <1>10 DEF vars
<1> QED
  BY <1>2, <1>3, <1>4, <1>5, <1>6, <1>7, <1>8, <1>9, <1>10 DEF Next

\* So its decisions are not lost on the way to the table.
LEMMA DecisionsKept ==
    ASSUME RunInv, [Next]_vars, NEW r \in Reviews, InFlight(r) => IsAlone(r), KeepsDecisions(r)
    PROVE  KeepsDecisions(r)'
<1> USE Kinds, RequestsAssumption DEF RunInv, TypeOK, Goto, Finish
<1>0. target'[r] = target[r] /\ target[r] \in Uploads /\ r \notin Uploads
  BY TargetStays
<1>1. CASE ~InFlight(r)
  <2>1. pc'[r] \in {"idle", "done"} \/ (pc'[r] = "read_payload" /\ AwaitsReview(target[r])')
    <3>1. ASSUME NEW q \in Reviews, RequireAwaitingReview(q)
          PROVE  pc'[r] = pc[r] \/ pc'[r] = "done"
                 \/ (pc'[r] = "read_payload" /\ AwaitsReview(target[r])')
      BY <1>0, <3>1 DEF RequireAwaitingReview, AwaitsReview
    <3>2. ASSUME NEW q \in Reviews, ReviewStep(q) PROVE pc'[r] = pc[r]
      BY <1>1, <3>2 DEF ReviewStep, ReadPayload, ResumeRun, InFlight
    <3>3. ASSUME NEW u \in Uploads, CreateStatement(u) \/ UploadStep(u) PROVE pc'[r] = pc[r]
      BY <1>0, <3>3 DEF CreateStatement, UploadStep, ParseCsv, NormalizeRows,
         ApplyCategoryRules, CategorizeWithLlm, Compute, MarkAwaitingReview, PauseForReview,
         RecordFailure
    <3>4. ASSUME NEW d \in Discards, FindForDiscard(d) \/ DiscardStep(d) PROVE pc'[r] = pc[r]
      BY <3>4 DEF FindForDiscard, DiscardStep, DeleteThread, DeleteRow
    <3>5. ASSUME NEW q \in Runs, RunStep(q) \/ RequestFails(q)
          PROVE  pc'[r] = pc[r] \/ pc'[r] = "done"
      BY <1>1, <3>5 DEF RunStep, StoreTransactions, HandleStoreError, SaveCheckpoint,
         Respond, RequestFails, InFlight
    <3>6. ASSUME Crash \/ UNCHANGED vars PROVE pc'[r] = pc[r]
      BY <1>1, <3>6 DEF Crash, vars
    <3> QED
      BY <1>1, <3>1, <3>2, <3>3, <3>4, <3>5, <3>6 DEF Next, InFlight
  <2> QED
    BY <1>0, <2>1 DEF KeepsDecisions
<1>2. ASSUME InFlight(r), ReadPayload(r) PROVE KeepsDecisions(r)'
  BY <1>0, <1>2 DEF ReadPayload, KeepsDecisions, AwaitsReview
<1>3. ASSUME InFlight(r), ResumeRun(r) PROVE KeepsDecisions(r)'
  BY <1>0, <1>3 DEF ResumeRun, DecidedBy, KeepsDecisions, AwaitsReview
<1>4. ASSUME InFlight(r), StoreTransactions(r) PROVE KeepsDecisions(r)'
  <2>1. pc[r] = "store_transactions" /\ by[r] = r /\ Subject(r) = target[r]
    BY <1>0, <1>4 DEF StoreTransactions, KeepsDecisions, Subject
  <2>2. by' = by /\ pc'[r] \in {"store_transactions", "error_handler", "respond"}
    BY <1>4 DEF StoreTransactions, AfterStore
  <2>3. \/ status' = status /\ batches' = batches
           /\ pc'[r] \in {"store_transactions", "error_handler"}
        \/ batches'[target[r]] = Append(batches[target[r]], r)
    BY <1>0, <1>4, <2>1 DEF StoreTransactions, StatusAfter, RowsAfter, AfterStore, Outcomes
  <2>4. CASE batches'[target[r]] = Append(batches[target[r]], r)
    <3>1. batches[target[r]] \in Seq(Runs)
      BY <1>0
    <3>2. /\ Len(batches[target[r]]) + 1 \in DOMAIN batches'[target[r]]
          /\ batches'[target[r]][Len(batches[target[r]]) + 1] = r
      BY <2>4, <3>1, AppendProperties, LenProperties
    <3> QED
      BY <1>0, <2>1, <2>2, <3>2 DEF KeepsDecisions
  <2>5. CASE status' = status /\ batches' = batches
             /\ pc'[r] \in {"store_transactions", "error_handler"}
    BY <1>0, <2>1, <2>2, <2>5 DEF KeepsDecisions
  <2> QED
    BY <2>3, <2>4, <2>5
<1>5. ASSUME InFlight(r), HandleStoreError(r) PROVE KeepsDecisions(r)'
  <2>1. Subject(r) = target[r]
    BY <1>0 DEF Subject
  <2>2. status'[target[r]] = status[target[r]] \/ status'[target[r]] = "FAILED"
    BY <1>0, <1>5, <2>1 DEF HandleStoreError, StatusAfter
  <2>3. pc[r] = "error_handler" /\ pc'[r] = "respond" /\ batches' = batches
    BY <1>5 DEF HandleStoreError, AfterErrorHandler
  <2> QED
    BY <1>0, <2>2, <2>3 DEF KeepsDecisions
<1>6. ASSUME InFlight(r), SaveCheckpoint(r) PROVE KeepsDecisions(r)'
  <2>1. pc[r] \in SavingPlaces(r) /\ pc' = pc
    BY <1>6 DEF SaveCheckpoint, SavingRuns
  <2> QED
    BY <1>0, <1>6, <2>1 DEF SaveCheckpoint, SavingPlaces, KeepsDecisions
<1>7. ASSUME pc'[r] = "done" PROVE KeepsDecisions(r)'
  BY <1>7 DEF KeepsDecisions
<1>8. ASSUME InFlight(r), Respond(r) PROVE KeepsDecisions(r)'
  BY <1>7, <1>8 DEF Respond
<1>9. ASSUME pc'[r] = pc[r], by'[r] = by[r],
             status'[target[r]] = status[target[r]],
             batches'[target[r]] = batches[target[r]],
             checkpoint'[target[r]] = checkpoint[target[r]]
      PROVE  KeepsDecisions(r)'
  BY <1>0, <1>9 DEF KeepsDecisions, AwaitsReview
<1>10. ASSUME InFlight(r) PROVE ReviewStep(r) \/ RunStep(r) \/ KeepsDecisions(r)'
  BY <1>7, <1>9, <1>10, OthersStayAway
<1> QED
  BY <1>1, <1>2, <1>3, <1>4, <1>5, <1>6, <1>8, <1>10 DEF ReviewStep, RunStep

\* A request is answered COMPLETED by its last step, which finds the statement so.
LEMMA CompletedAnswer ==
    ASSUME TypeOK, [Next]_vars, NEW r \in Reviews,
           answer[r] = "none", answer'[r] = "COMPLETED"
    PROVE  pc[r] = "respond" /\ status[target[r]] = "COMPLETED"
<1> DEFINE Goal == pc[r] = "respond" /\ status[target[r]] = "COMPLETED"
<1> USE Kinds, RequestsAssumption DEF TypeOK, Goto, Finish
<1>1. ASSUME NEW u \in Uploads, CreateStatement(u) \/ UploadStep(u) PROVE Goal
  BY <1>1 DEF CreateStatement, UploadStep, ParseCsv, NormalizeRows, ApplyCategoryRules,
     CategorizeWithLlm, Compute, MarkAwaitingReview, PauseForReview, RecordFailure
<1>2. ASSUME NEW q \in Reviews, RequireAwaitingReview(q) \/ ReviewStep(q) PROVE Goal
  BY <1>2 DEF RequireAwaitingReview, ReviewStep, ReadPayload, ResumeRun
<1>3. ASSUME NEW d \in Discards, FindForDiscard(d) \/ DiscardStep(d) PROVE Goal
  BY <1>3 DEF FindForDiscard, DiscardStep, DeleteThread, DeleteRow
<1>4. ASSUME NEW q \in Runs, Respond(q) PROVE Goal
  BY <1>4 DEF Respond, Subject
<1>5. ASSUME NEW q \in Runs, RunStep(q) \/ RequestFails(q), ~Respond(q) PROVE Goal
  BY <1>5 DEF RunStep, StoreTransactions, HandleStoreError, SaveCheckpoint, RequestFails
<1>6. CASE Crash \/ UNCHANGED vars
  BY <1>6 DEF Crash, vars
<1> QED
  BY <1>1, <1>2, <1>3, <1>4, <1>5, <1>6 DEF Next

\* Then its decisions are in the table.
LEMMA AnsweredIsStored ==
    ASSUME TypeOK, [Next]_vars, NEW r \in Reviews, KeepsDecisions(r),
           answer[r] = "none", answer'[r] = "COMPLETED"
    PROVE  \E i \in DOMAIN batches[target[r]] : batches[target[r]][i] = r
  BY CompletedAnswer DEF KeepsDecisions

=============================================================================
