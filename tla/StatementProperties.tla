------------------------ MODULE StatementProperties ------------------------
(***************************************************************************)
(* What the statement pipeline has to guarantee.  The properties of the    *)
(* first group hold for every interleaving of requests and every fault,    *)
(* those of the second for clients that send one request about a statement *)
(* at a time, those of the third on a server without faults.               *)
(***************************************************************************)
EXTENDS StatementRuns

----------------------------------------------------------------------------
(* Any clients, any faults.                                                *)

\* A statement that is still being worked on, or that waits for a person, has no
\* transactions in the table: what a discard may delete was never stored, and no query or
\* summary counts rows of an unfinished statement.
UnfinishedHoldsNoRows ==
    \A u \in Uploads :
        status[u] \in {"PROCESSING", "AWAITING_REVIEW", "ABSENT"} => batches[u] = <<>>

\* A statement is never left COMPLETED with none of its transactions saved
\* (StoreTransactionsNode writes both in one transaction), however its commit ended.
CompletedHoldsRows ==
    \A u \in Uploads : status[u] = "COMPLETED" => batches[u] # <<>>

\* Rows the low-confidence policy flagged are stored only by a run that a review resumed:
\* no retry, crash or second submission stores the model's guess without a person.
FlaggedRowsWereReviewed ==
    \A u \in flagged : \A i \in DOMAIN batches[u] : batches[u][i] \in Reviews

\* The same bytes have at most one statement row, whichever uploads and discards race.
OneStatementPerFile ==
    \A u, v \in Uploads :
        Present(u) /\ Present(v) /\ FileOf[u] = FileOf[v] => u = v

\* Every request the server has taken is answered, if only with an error, or lost in a
\* crash: the retries end, and no run waits for another.
EveryRequestEnds ==
    \A q \in Requests : pc[q] # "idle" ~> pc[q] = "done"

----------------------------------------------------------------------------
(* Clients that wait for an answer, and no commit whose acknowledgement is lost. *)

\* A statement's transactions are in the table at most once.
StoredOnce == \A u \in Uploads : Len(batches[u]) <= 1

\* FAILED means what its error_message says: the transactions were not saved.
FailedHoldsNoRows ==
    \A u \in Uploads : status[u] = "FAILED" => batches[u] = <<>>

\* A review answered with a COMPLETED statement finds its decisions in the stored rows.
AcceptedReviewIsStored ==
    [][\A r \in Reviews :
         answer[r] = "none" /\ answer'[r] = "COMPLETED"
         => \E i \in DOMAIN batches[target[r]] : batches[target[r]][i] = r]_vars

\* COMPLETED and FAILED are final: the statement keeps its status and its rows.
SettledStaysSettled ==
    [][\A u \in Uploads :
         status[u] \in {"COMPLETED", "FAILED"}
         => status'[u] = status[u] /\ batches'[u] = batches[u]]_vars

\* The requests together implement the promised life of a statement.
Lifecycle == INSTANCE StatementLifecycle WITH
    Ids <- Uploads, ContentOf <- FileOf,
    phase <- status, copies <- [u \in Uploads |-> Len(batches[u])]

FollowsLifecycle == Lifecycle!Spec

----------------------------------------------------------------------------
(* No faults but failing checkpoint cleanups.                              *)

\* A statement that awaits review can be reviewed: unless a request about it is under way,
\* its thread is paused at the interrupt (the review service's own invariant).
AwaitingCanBeReviewed ==
    \A u \in Uploads :
        AwaitsReview(u) =>
            \/ checkpoint[u].at = "review"
            \/ \E q \in Requests : Subject(q) = u /\ InFlight(q)

\* ingest() answers with a statement that is COMPLETED, FAILED or AWAITING_REVIEW.
IngestAnswerIsSettled ==
    \A u \in Uploads : answer[u] # "PROCESSING"

\* No statement stays at PROCESSING: the run ends and its last node records how.
ProcessingEnds ==
    \A u \in Uploads : status[u] = "PROCESSING" ~> status[u] # "PROCESSING"

----------------------------------------------------------------------------
(* What the documentation says, and the code does not keep to.             *)

\* The delete route: "Only allowed while AWAITING_REVIEW", 409 "in any other status".
OnlyAwaitingIsDiscarded ==
    [][\A u \in Uploads :
         Present(u) /\ status'[u] = "ABSENT" => AwaitsReview(u)]_vars

\* The message stored with an unexpected failure: "re-upload to try again".
FailedFileCanBeUploadedAgain ==
    [][\A u \in Uploads :
         answer[u] = "none" /\ answer'[u] = "Duplicate"
         => \E v \in Uploads :
                FileOf[v] = FileOf[u] /\ Present(v) /\ message[v] # "reuploadIt"]_vars

=============================================================================
