--------------------------- MODULE StatementRuns ---------------------------
(***************************************************************************)
(* The statement pipeline of the backend: every HTTP request that writes a *)
(* statement, interleaved with the others.                                 *)
(*                                                                         *)
(*   POST   /statements              runs the ingestion graph              *)
(*   POST   /statements/{id}/review  resumes the run paused for review     *)
(*   DELETE /statements/{id}         discards a statement awaiting review  *)
(*                                                                         *)
(* The requests share the statements table, the transactions table and the *)
(* checkpoints LangGraph keeps for each thread.  The two stores share no   *)
(* transaction.  An upload stands for its request, for the row its insert  *)
(* creates (ids are never reused) and for its thread (a fresh uuid).       *)
(***************************************************************************)
EXTENDS Naturals, Sequences

CONSTANTS
    Uploads,      \* POST /statements requests
    Reviews,      \* POST /statements/{id}/review requests
    Discards,     \* DELETE /statements/{id} requests
    FileOf,       \* the bytes each upload carries
    Unstorable,   \* files whose rows the table refuses (a CHECK or a numeric overflow)
    MaxAttempts,  \* tries of the store node before its error handler runs
    Faults,       \* what may go wrong, a subset of FaultKinds
    Overlap       \* may a client review or discard a statement that is in use?

FaultKinds ==
    {"crash",     \* the server process dies and is restarted
     "database",  \* a statement or a commit fails and nothing is written
     "lostAck",   \* a commit takes effect but is reported as failed
     "cleanup"}   \* deleting a thread's checkpoints fails

Runs     == Uploads \cup Reviews
Requests == Runs \cup Discards

ASSUME RequestsAssumption ==
    /\ Uploads \cap Reviews = {}
    /\ Uploads \cap Discards = {}
    /\ Reviews \cap Discards = {}
ASSUME AttemptsAssumption == MaxAttempts \in Nat \ {0}
ASSUME FaultsAssumption == Faults \subseteq FaultKinds
ASSUME OverlapAssumption == Overlap \in BOOLEAN

VARIABLES
    status,      \* statements.status of each upload's row, "ABSENT" without a row
    batches,     \* the copies of the statement's transactions in the table, oldest first:
                 \* each is named by the review whose decisions it holds, or by the
                 \* upload when no person decided anything
    message,     \* statements.error_message: "reuploadIt" is RecordUnexpectedFailureNode's
    checkpoint,  \* the latest checkpoint of each thread
    flagged,     \* statements in which the low-confidence policy selected rows
    target,      \* the statement a review or a discard names
    pc,          \* where each request is
    by,          \* whose decisions a run's in-memory transactions hold
    tries,       \* failed attempts of the run's store node
    dirty,       \* runs whose latest checkpoint is still being written
    answer       \* what each client was told

vars == <<status, batches, message, checkpoint, flagged,
          target, pc, by, tries, dirty, answer>>

Statuses == {"PROCESSING", "AWAITING_REVIEW", "COMPLETED", "FAILED"}

Nodes == {"parse_csv", "normalize_rows", "apply_category_rules", "categorize_with_llm",
          "mark_awaiting_review", "review_low_confidence", "store_transactions",
          "error_handler", "record_failure"}

Places == Nodes \cup {"idle", "read_payload", "resume", "respond",
                      "delete_thread", "delete_row", "done"}

Answers == Statuses \cup {"none", "Duplicate", "NotFound", "NotAwaitingReview",
                          "ReviewUnavailable", "Error", "Lost", "Deleted"}

\* Where a resumed invocation of a thread would continue.  "unpaused": no interrupt
\* was saved, so no review can have read a payload; "deleted": the thread's rows are
\* gone, and what a run still in memory saves afterwards lacks the channels they held.
Checkpoints == [at : {"unpaused", "review", "store", "end", "deleted"}, by : Runs]

TypeOK ==
    /\ status \in [Uploads -> Statuses \cup {"ABSENT"}]
    /\ batches \in [Uploads -> Seq(Runs)]
    /\ message \in [Uploads -> {"none", "explained", "reuploadIt"}]
    /\ checkpoint \in [Uploads -> Checkpoints]
    /\ flagged \subseteq Uploads
    /\ target \in [Reviews \cup Discards -> Uploads]
    /\ pc \in [Requests -> Places]
    /\ by \in [Runs -> Runs]
    /\ tries \in [Runs -> 0 .. MaxAttempts - 1]
    /\ dirty \subseteq Runs
    /\ answer \in [Requests -> Answers]

Init ==
    /\ status = [u \in Uploads |-> "ABSENT"]
    /\ batches = [u \in Uploads |-> <<>>]
    /\ message = [u \in Uploads |-> "none"]
    /\ checkpoint = [u \in Uploads |-> [at |-> "unpaused", by |-> u]]
    /\ flagged = {}
    /\ target \in [Reviews \cup Discards -> Uploads]
    /\ pc = [q \in Requests |-> "idle"]
    /\ by = [r \in Runs |-> r]
    /\ tries = [r \in Runs |-> 0]
    /\ dirty = {}
    /\ answer = [q \in Requests |-> "none"]

----------------------------------------------------------------------------

\* The statement, and the thread, a request works on.
Subject(q) == IF q \in Uploads THEN q ELSE target[q]

\* find_by_id returns the row.
Present(u) == status[u] # "ABSENT"

----------------------------------------------------------------------------
(* Plausible mistakes: each stands for one of the definitions below when a *)
(* property is tried against a variant of the code.                        *)

\* A failure is never recorded.
StatusWithoutFailure(outcome, u, new) ==
    IF outcome = "rolledBack" \/ new = "FAILED" THEN status ELSE [status EXCEPT ![u] = new]

\* The rows are written in a transaction of their own.
RowsOnTheirOwn(outcome, u, new) == [batches EXCEPT ![u] = new]

\* The status commits before the rows do.
RowsIfAcknowledged(outcome, u, new) ==
    IF outcome = "committed" THEN [batches EXCEPT ![u] = new] ELSE batches

\* An existence check that looks for finished statements.
HashCompleted(u) == \E v \in Uploads : status[v] = "COMPLETED" /\ FileOf[v] = FileOf[u]

\* What the policy selected is stored without a pause.
AfterLlmNoPause(selected) == "store_transactions"

\* Any row may be reviewed.
AwaitsReviewUnchecked(u) == Present(u)

\* The decisions are dropped and the suggestions stored.
DecisionsDropped(r) == target[r]

\* One attempt too many.
AfterStoreOffByOne(r, outcome) ==
    CASE outcome = "committed" -> "respond"
      [] outcome # "committed" /\ tries[r] + 1 <= MaxAttempts -> "store_transactions"
      [] OTHER -> "error_handler"

\* The handler hands back to the node it handles.
BackToStore == "store_transactions"

\* Any row may be discarded.
MayDiscardAny(u) == Present(u)

----------------------------------------------------------------------------
(* What the actions are made of. *)

InFlight(q) == pc[q] \notin {"idle", "done"}

\* A client that waits for the answer to one request about a statement before it
\* sends the next one, as the review panel does while its buttons are disabled.
MayStart(q) ==
    /\ pc[q] = "idle"
    /\ Overlap \/ \A p \in Requests : Subject(p) = Subject(q) => ~InFlight(p)

\* How a database transaction that writes may end.
Outcomes == {"committed"}
            \cup (IF "database" \in Faults THEN {"rolledBack"} ELSE {})
            \cup (IF "lostAck" \in Faults THEN {"ackLost"} ELSE {})

\* What a transaction that ended with this outcome leaves of a status or of the rows.
StatusAfter(outcome, u, new) ==
    IF outcome = "rolledBack" THEN status ELSE [status EXCEPT ![u] = new]

RowsAfter(outcome, u, new) ==
    IF outcome = "rolledBack" THEN batches ELSE [batches EXCEPT ![u] = new]

MessageAfter(outcome, u, new) ==
    IF outcome = "rolledBack" THEN message ELSE [message EXCEPT ![u] = new]

\* The request moves on to another place and has not been answered.
Goto(q, place) ==
    /\ pc' = [pc EXCEPT ![q] = place]
    /\ UNCHANGED answer

\* The request is answered; an exception leaves nothing behind to save.
Finish(q, reply) ==
    /\ pc' = [pc EXCEPT ![q] = "done"]
    /\ answer' = [answer EXCEPT ![q] = reply]

----------------------------------------------------------------------------
(* POST /statements: StatementIngestionService.ingest invokes the graph.   *)

\* The unique constraint on file_hash refuses the row.
HashTaken(u) == \E v \in Uploads : Present(v) /\ FileOf[v] = FileOf[u]

\* create_statement.  The unique constraint is the only guard.
CreateStatement(u) ==
    /\ pc[u] = "idle"
    /\ IF HashTaken(u)
       THEN /\ Finish(u, "Duplicate")
            /\ UNCHANGED status
       ELSE \E outcome \in Outcomes :
            /\ status' = StatusAfter(outcome, u, "PROCESSING")
            /\ IF outcome = "committed" THEN Goto(u, "parse_csv") ELSE Finish(u, "Error")
    /\ UNCHANGED <<batches, message, checkpoint, flagged, target, by, tries, dirty>>

\* A node that only computes, and the router that picks the next node.
Compute(u, node, successors) ==
    /\ pc[u] = node
    /\ \E next \in successors : Goto(u, next)
    /\ UNCHANGED <<status, batches, message, checkpoint, target, by, tries, dirty>>

\* A fault of either node becomes state["error"], which routes to record_failure.
ParseCsv(u) ==
    /\ Compute(u, "parse_csv", {"normalize_rows", "record_failure"})
    /\ UNCHANGED flagged

NormalizeRows(u) ==
    /\ Compute(u, "normalize_rows", {"apply_category_rules", "record_failure"})
    /\ UNCHANGED flagged

\* The model is asked only when a row is left without a category.
ApplyCategoryRules(u) ==
    /\ Compute(u, "apply_category_rules", {"categorize_with_llm", "store_transactions"})
    /\ UNCHANGED flagged

\* route_after_llm: the run pauses exactly when the policy selects a row.
AfterLlm(selected) == IF selected THEN "mark_awaiting_review" ELSE "store_transactions"

\* A suggester that is absent or fails changes nothing, and then nothing is selected.
CategorizeWithLlm(u) ==
    \E selected \in BOOLEAN :
      /\ Compute(u, "categorize_with_llm", {AfterLlm(selected)})
      /\ flagged' = IF selected THEN flagged \cup {u} ELSE flagged

\* A transaction of its own, on a node without retry and without error handler.
MarkAwaitingReview(u) ==
    /\ pc[u] = "mark_awaiting_review"
    /\ IF Present(u)
       THEN \E outcome \in Outcomes :
            /\ status' = StatusAfter(outcome, u, "AWAITING_REVIEW")
            /\ IF outcome = "committed" THEN Goto(u, "review_low_confidence")
                                        ELSE Finish(u, "Error")
       ELSE /\ Finish(u, "NotFound")
            /\ UNCHANGED status
    /\ UNCHANGED <<batches, message, checkpoint, flagged, target, by, tries, dirty>>

\* review_low_confidence calls interrupt(): the pause is saved and invoke() returns.
PauseForReview(u) ==
    /\ pc[u] = "review_low_confidence"
    /\ Goto(u, "respond")
    /\ checkpoint' = IF checkpoint[u].at = "deleted" THEN checkpoint
                     ELSE [checkpoint EXCEPT ![u] = [at |-> "review", by |-> u]]
    /\ UNCHANGED <<status, batches, message, flagged, target, by, tries, dirty>>

\* record_failure: the error path of the graph, without retry and without error handler.
RecordFailure(u) ==
    /\ pc[u] = "record_failure"
    /\ IF Present(u)
       THEN \E outcome \in Outcomes :
            /\ status' = StatusAfter(outcome, u, "FAILED")
            /\ message' = MessageAfter(outcome, u, "explained")
            /\ IF outcome = "committed" THEN Goto(u, "respond") ELSE Finish(u, "Error")
       ELSE /\ Finish(u, "NotFound")
            /\ UNCHANGED <<status, message>>
    /\ UNCHANGED <<batches, checkpoint, flagged, target, by, tries, dirty>>

----------------------------------------------------------------------------
(* POST /statements/{id}/review: StatementReviewService.submit.            *)

\* The guard of submit and of get_pending.
AwaitsReview(u) == status[u] = "AWAITING_REVIEW"

\* _require_awaiting_review, in a session that is closed before the run resumes.
RequireAwaitingReview(r) ==
    /\ MayStart(r)
    /\ CASE ~Present(target[r]) -> Finish(r, "NotFound")
         [] AwaitsReview(target[r]) -> Goto(r, "read_payload")
         [] OTHER -> Finish(r, "NotAwaitingReview")
    /\ UNCHANGED <<status, batches, message, checkpoint, flagged, target, by, tries, dirty>>

\* _read_payload, then the check of the decisions' indexes against the payload.
ReadPayload(r) ==
    /\ pc[r] = "read_payload"
    /\ IF checkpoint[target[r]].at = "review"
       THEN Goto(r, "resume") \/ Finish(r, "ReviewUnavailable")
       ELSE Finish(r, "NotAwaitingReview")
    /\ UNCHANGED <<status, batches, message, checkpoint, flagged, target, by, tries, dirty>>

\* Whose decisions the transactions hold after review_low_confidence was resumed.
DecidedBy(r) == r

\* invoke(Command(resume=...)) continues from the latest checkpoint: at the interrupt the
\* review node runs again from its first line and applies the decisions; past it they are
\* ignored; a thread that has ended has nothing to run.
ResumeRun(r) ==
    LET saved == checkpoint[target[r]] IN
    /\ pc[r] = "resume"
    /\ \/ /\ saved.at = "review"
          /\ Goto(r, "store_transactions")
          /\ by' = [by EXCEPT ![r] = DecidedBy(r)]
          /\ dirty' = dirty \cup {r}
       \/ /\ saved.at = "store"
          /\ Goto(r, "store_transactions")
          /\ by' = [by EXCEPT ![r] = saved.by]
          /\ UNCHANGED dirty
       \/ /\ saved.at = "end"
          /\ Goto(r, "respond")
          /\ UNCHANGED <<by, dirty>>
       \/ /\ saved.at = "deleted"
          /\ Finish(r, "Error")
          /\ UNCHANGED <<by, dirty>>
    /\ UNCHANGED <<status, batches, message, checkpoint, flagged, target, tries>>

----------------------------------------------------------------------------
(* Steps an upload and a resumed review share.                             *)

\* Where a run goes from the store node, given how its transaction ended: only an
\* OperationalError is retried, and the last attempt hands over to the error handler.
AfterStore(r, outcome) ==
    CASE outcome = "committed" -> "respond"
      [] outcome # "committed" /\ tries[r] + 1 < MaxAttempts -> "store_transactions"
      [] OTHER -> "error_handler"

\* store_transactions: the rows and the status in one transaction, whatever the status was.
StoreTransactions(r) ==
    LET u == Subject(r) IN
    /\ pc[r] = "store_transactions"
    /\ IF Present(u) /\ FileOf[u] \notin Unstorable
       THEN \E outcome \in Outcomes :
            /\ status' = StatusAfter(outcome, u, "COMPLETED")
            /\ batches' = RowsAfter(outcome, u, Append(batches[u], by[r]))
            /\ Goto(r, AfterStore(r, outcome))
            /\ tries' = [tries EXCEPT ![r] =
                           IF AfterStore(r, outcome) = "store_transactions" THEN @ + 1 ELSE 0]
            /\ dirty' = IF outcome = "committed" THEN dirty \cup {r} ELSE dirty
       ELSE /\ Goto(r, "error_handler")
            /\ tries' = [tries EXCEPT ![r] = 0]
            /\ UNCHANGED <<status, batches, dirty>>
    /\ UNCHANGED <<message, checkpoint, flagged, target, by>>

\* The handler stands in for its node, whose only edge leads to the end of the graph.
AfterErrorHandler == "respond"

\* RecordUnexpectedFailureNode: records FAILED whatever the status was, and never raises.
HandleStoreError(r) ==
    LET u == Subject(r) IN
    /\ pc[r] = "error_handler"
    /\ IF Present(u)
       THEN \E outcome \in Outcomes :
            /\ status' = StatusAfter(outcome, u, "FAILED")
            /\ message' = MessageAfter(outcome, u, "reuploadIt")
       ELSE UNCHANGED <<status, message>>
    /\ Goto(r, AfterErrorHandler)
    /\ dirty' = dirty \cup {r}
    /\ UNCHANGED <<batches, checkpoint, flagged, target, by, tries>>

\* Checkpoints are written in the background while the next node runs.
SaveCheckpoint(r) ==
    LET u == Subject(r) IN
    /\ r \in dirty
    /\ checkpoint' =
         IF checkpoint[u].at = "deleted" THEN checkpoint
         ELSE [checkpoint EXCEPT ![u] =
                 [at |-> IF pc[r] = "respond" THEN "end" ELSE "store", by |-> by[r]]]
    /\ dirty' = dirty \ {r}
    /\ UNCHANGED <<status, batches, message, flagged, target, pc, by, tries, answer>>

\* invoke() returns once its checkpoints are written; the service then reads the row again.
Respond(r) ==
    /\ pc[r] = "respond"
    /\ r \notin dirty
    /\ Finish(r, IF Present(Subject(r)) THEN status[Subject(r)] ELSE "NotFound")
    /\ UNCHANGED <<status, batches, message, checkpoint, flagged, target, by, tries, dirty>>

----------------------------------------------------------------------------
(* DELETE /statements/{id}: StatementDiscardService.discard.               *)

\* The guard looks at the status only, never at the thread.
MayDiscard(u) == status[u] = "AWAITING_REVIEW"

\* find_by_id and the guard, in a session whose transaction the delete will end.
FindForDiscard(d) ==
    /\ MayStart(d)
    /\ CASE ~Present(target[d]) -> Finish(d, "NotFound")
         [] MayDiscard(target[d]) -> Goto(d, "delete_thread")
         [] OTHER -> Finish(d, "NotAwaitingReview")
    /\ UNCHANGED <<status, batches, message, checkpoint, flagged, target, by, tries, dirty>>

\* Best effort: the checkpoints live behind another connection.
DeleteThread(d) ==
    /\ pc[d] = "delete_thread"
    /\ Goto(d, "delete_row")
    /\ \/ checkpoint' = [checkpoint EXCEPT ![target[d]] =
                            [at |-> "deleted", by |-> target[d]]]
       \/ "cleanup" \in Faults /\ UNCHANGED checkpoint
    /\ UNCHANGED <<status, batches, message, flagged, target, by, tries, dirty>>

\* The delete names the id alone, and the transactions go with their statement.
DeleteRow(d) ==
    LET u == target[d] IN
    /\ pc[d] = "delete_row"
    /\ \E outcome \in Outcomes :
         /\ status' = StatusAfter(outcome, u, "ABSENT")
         /\ batches' = RowsAfter(outcome, u, <<>>)
         /\ message' = MessageAfter(outcome, u, "none")
         /\ Finish(d, IF outcome = "committed" THEN "Deleted" ELSE "Error")
    /\ UNCHANGED <<checkpoint, flagged, target, by, tries, dirty>>

----------------------------------------------------------------------------
(* Faults.                                                                 *)

\* A read, or a write of the checkpointer, fails and nothing handles it.
RequestFails(q) ==
    /\ "database" \in Faults
    /\ pc[q] \in {"read_payload", "resume", "respond"}
    /\ Finish(q, "Error")
    /\ dirty' = dirty \ {q}
    /\ UNCHANGED <<status, batches, message, checkpoint, flagged, target, by, tries>>

\* Everything in memory is gone; the restarted server takes no run up again.
Crash ==
    /\ "crash" \in Faults
    /\ \E q \in Requests : InFlight(q)
    /\ pc' = [q \in Requests |-> IF InFlight(q) THEN "done" ELSE pc[q]]
    /\ answer' = [q \in Requests |-> IF InFlight(q) THEN "Lost" ELSE answer[q]]
    /\ tries' = [r \in Runs |-> 0]
    /\ dirty' = {}
    /\ UNCHANGED <<status, batches, message, checkpoint, flagged, target, by>>

----------------------------------------------------------------------------

UploadStep(u) ==
    \/ ParseCsv(u) \/ NormalizeRows(u) \/ ApplyCategoryRules(u) \/ CategorizeWithLlm(u)
    \/ MarkAwaitingReview(u) \/ PauseForReview(u) \/ RecordFailure(u)

ReviewStep(r) == ReadPayload(r) \/ ResumeRun(r)

RunStep(r) == StoreTransactions(r) \/ HandleStoreError(r) \/ SaveCheckpoint(r) \/ Respond(r)

DiscardStep(d) == DeleteThread(d) \/ DeleteRow(d)

Next ==
    \/ \E u \in Uploads : CreateStatement(u) \/ UploadStep(u)
    \/ \E r \in Reviews : RequireAwaitingReview(r) \/ ReviewStep(r)
    \/ \E d \in Discards : FindForDiscard(d) \/ DiscardStep(d)
    \/ \E r \in Runs : RunStep(r) \/ RequestFails(r)
    \/ Crash

Spec == Init /\ [][Next]_vars

\* A server thread that has taken a request keeps running it; no client has to send one.
Fairness ==
    /\ \A u \in Uploads : WF_vars(UploadStep(u) \/ RunStep(u))
    /\ \A r \in Reviews : WF_vars(ReviewStep(r) \/ RunStep(r))
    /\ \A d \in Discards : WF_vars(DiscardStep(d))

FairSpec == Spec /\ Fairness

=============================================================================
