------------------------ MODULE StatementSerialProofs ------------------------
(***************************************************************************)
(* Proofs about the statement pipeline for clients that send one request   *)
(* about a statement at a time.  When moreover no acknowledgement of a     *)
(* commit is lost, the pipeline implements StatementLifecycle; when        *)
(* nothing fails, what awaits review can be reviewed.                      *)
(***************************************************************************)
EXTENDS StatementProofs

\* Without the first two reviews store twice, without the second the store node's retry does.
Serial == ~Overlap /\ "lostAck" \notin Faults

----------------------------------------------------------------------------
(* The inductive invariant.                                                *)

\* A statement has at most one request under way.
OneRequestAtATime ==
    \A p, q \in Requests :
        InFlight(p) /\ InFlight(q) /\ Subject(p) = Subject(q) => p = q

\* Before its upload is sent a statement has no row, and no request works on it.
NothingBeforeUpload ==
    \A u \in Uploads :
        pc[u] = "idle" =>
            /\ status[u] = "ABSENT"
            /\ \A p \in Requests : Subject(p) = u => ~InFlight(p)

\* What waiting for an answer gives, whatever fails.
AloneInv ==
    /\ RunInv
    /\ OneRequestAtATime
    /\ NothingBeforeUpload

\* A request that has neither been answered nor has only its answer left.
Working(q) == pc[q] \notin {"idle", "respond", "done"}

\* The status a working request's guards have seen.
Expected(q) ==
    IF q \in Uploads /\ pc[q] # "review_low_confidence" THEN "PROCESSING" ELSE "AWAITING_REVIEW"

\* It has not changed since.
WorkingStatus ==
    \A q \in Requests : Working(q) => status[Subject(q)] = Expected(q)

SerialInv ==
    /\ RunInv
    /\ OneRequestAtATime
    /\ NothingBeforeUpload
    /\ WorkingStatus
    /\ StoredOnce
    /\ FailedHoldsNoRows

----------------------------------------------------------------------------
(* How requests move.                                                      *)

\* Only a step that takes a request up puts it to work, and it moves no other request.
LEMMA TakenUp ==
    ASSUME TypeOK, [Next]_vars, NEW q \in Requests, ~InFlight(q), pc'[q] \notin {"idle", "done"}
    PROVE  /\ pc[q] = "idle"
           /\ q \in Uploads \/ (MayStart(q) /\ Present(Subject(q)))
           /\ \A p \in Requests : p # q => pc'[p] = pc[p]
<1> DEFINE Goal == /\ pc[q] = "idle"
                   /\ q \in Uploads \/ (MayStart(q) /\ Present(Subject(q)))
                   /\ \A p \in Requests : p # q => pc'[p] = pc[p]
<1> USE Kinds, RequestsAssumption DEF TypeOK, InFlight, Goto, Finish
<1>1. ASSUME NEW u \in Uploads, CreateStatement(u) PROVE Goal
  BY <1>1 DEF CreateStatement
<1>2. ASSUME NEW u \in Uploads, UploadStep(u) PROVE Goal
  <2>1. pc[u] \notin {"idle", "done"} /\ \A p \in Requests : p # u => pc'[p] = pc[p]
    BY <1>2 DEF UploadStep, ParseCsv, NormalizeRows, ApplyCategoryRules,
       CategorizeWithLlm, Compute, MarkAwaitingReview, PauseForReview, RecordFailure
  <2> QED
    BY <2>1
<1>3. ASSUME NEW r \in Reviews, RequireAwaitingReview(r) PROVE Goal
  <2>1. pc[r] = "idle" /\ MayStart(r)
    BY <1>3 DEF RequireAwaitingReview, MayStart
  <2>2. \A p \in Requests : p # r => pc'[p] = pc[p]
    BY <1>3 DEF RequireAwaitingReview
  <2>3. ~Present(target[r]) => pc'[r] = "done"
    BY <1>3 DEF RequireAwaitingReview, Present, AwaitsReview
  <2> QED
    BY <2>1, <2>2, <2>3 DEF Subject
<1>4. ASSUME NEW r \in Reviews, ReviewStep(r) PROVE Goal
  <2>1. pc[r] \notin {"idle", "done"}
    BY <1>4 DEF ReviewStep, ReadPayload, ResumeRun
  <2>2. \A p \in Requests : p # r => pc'[p] = pc[p]
    BY <1>4 DEF ReviewStep, ReadPayload, ResumeRun
  <2> QED
    BY <2>1, <2>2
<1>5. ASSUME NEW d \in Discards, FindForDiscard(d) PROVE Goal
  <2>1. pc[d] = "idle" /\ MayStart(d)
    BY <1>5 DEF FindForDiscard, MayStart
  <2>2. \A p \in Requests : p # d => pc'[p] = pc[p]
    BY <1>5 DEF FindForDiscard
  <2>3. ~Present(target[d]) => pc'[d] = "done"
    BY <1>5 DEF FindForDiscard, Present, MayDiscard
  <2> QED
    BY <2>1, <2>2, <2>3 DEF Subject
<1>6. ASSUME NEW d \in Discards, DiscardStep(d) PROVE Goal
  BY <1>6 DEF DiscardStep, DeleteThread, DeleteRow
<1>7. ASSUME NEW r \in Runs, RunStep(r) \/ RequestFails(r) PROVE Goal
  BY <1>7 DEF RunStep, StoreTransactions, AfterStore, HandleStoreError, SaveCheckpoint,
     Respond, AfterErrorHandler, RequestFails
<1>8. CASE Crash
  BY <1>8 DEF Crash
<1>9. CASE UNCHANGED vars
  BY <1>9 DEF vars
<1> QED
  BY <1>1, <1>2, <1>3, <1>4, <1>5, <1>6, <1>7, <1>8, <1>9 DEF Next

\* No request returns to where it started.
LEMMA NeverIdleAgain ==
    ASSUME TypeOK, [Next]_vars, NEW q \in Requests, pc'[q] = "idle" PROVE pc[q] = "idle"
<1> USE Kinds, RequestsAssumption DEF TypeOK, Goto, Finish
<1>1. ASSUME NEW u \in Uploads, CreateStatement(u) \/ UploadStep(u) PROVE pc[q] = "idle"
  BY <1>1 DEF CreateStatement, UploadStep, ParseCsv, NormalizeRows, ApplyCategoryRules,
     CategorizeWithLlm, AfterLlm, Compute, MarkAwaitingReview, PauseForReview, RecordFailure
<1>2. ASSUME NEW r \in Reviews, RequireAwaitingReview(r) \/ ReviewStep(r) PROVE pc[q] = "idle"
  BY <1>2 DEF RequireAwaitingReview, ReviewStep, ReadPayload, ResumeRun
<1>3. ASSUME NEW d \in Discards, FindForDiscard(d) \/ DiscardStep(d) PROVE pc[q] = "idle"
  BY <1>3 DEF FindForDiscard, DiscardStep, DeleteThread, DeleteRow
<1>4. ASSUME NEW r \in Runs, RunStep(r) \/ RequestFails(r) PROVE pc[q] = "idle"
  BY <1>4 DEF RunStep, StoreTransactions, AfterStore, HandleStoreError, SaveCheckpoint,
     Respond, AfterErrorHandler, RequestFails
<1>5. CASE Crash
  BY <1>5 DEF Crash, InFlight
<1>6. CASE UNCHANGED vars
  BY <1>6 DEF vars
<1> QED
  BY <1>1, <1>2, <1>3, <1>4, <1>5, <1>6 DEF Next

\* A request is taken up when no other works on its statement.
LEMMA OneRequestStep ==
    ASSUME ~Overlap, AloneInv, [Next]_vars PROVE OneRequestAtATime'
<1> SUFFICES ASSUME NEW p \in Requests, NEW q \in Requests, p # q,
                    pc'[p] \notin {"idle", "done"}, pc'[q] \notin {"idle", "done"},
                    Subject(p) = Subject(q)
             PROVE  FALSE
  BY TargetStays DEF OneRequestAtATime, InFlight, Subject
<1> USE DEF AloneInv, RunInv
<1>1. ASSUME NEW a \in Requests, NEW b \in Requests, a # b, InFlight(a), ~InFlight(b),
             pc'[b] \notin {"idle", "done"}, Subject(a) = Subject(b)
      PROVE  FALSE
  <2>1. pc[b] = "idle" /\ (b \in Uploads \/ MayStart(b))
    BY <1>1, TakenUp
  <2>2. CASE b \in Uploads
    BY <1>1, <2>1, <2>2 DEF NothingBeforeUpload, Subject
  <2>3. CASE MayStart(b)
    BY <1>1, <2>3 DEF MayStart
  <2> QED
    BY <2>1, <2>2, <2>3
<1>2. CASE InFlight(p) /\ InFlight(q)
  BY <1>2 DEF OneRequestAtATime
<1>3. CASE InFlight(p) /\ ~InFlight(q)
  BY <1>1, <1>3
<1>4. CASE ~InFlight(p) /\ InFlight(q)
  BY <1>1, <1>4
<1>5. CASE ~InFlight(p) /\ ~InFlight(q)
  <2>1. pc'[q] = pc[q]
    BY <1>5, TakenUp
  <2> QED
    BY <1>5, <2>1 DEF InFlight
<1> QED
  BY <1>2, <1>3, <1>4, <1>5

\* A row appears with its upload, and requests about it find it.
LEMMA BeforeUploadStep ==
    ASSUME AloneInv, [Next]_vars PROVE NothingBeforeUpload'
<1> SUFFICES ASSUME NEW u \in Uploads, pc'[u] = "idle"
             PROVE  /\ status'[u] = "ABSENT"
                    /\ \A p \in Requests : Subject(p) = u => pc'[p] \in {"idle", "done"}
  BY TargetStays DEF NothingBeforeUpload, InFlight, Subject
<1> USE DEF AloneInv, RunInv
<1>1. pc[u] = "idle"
  BY NeverIdleAgain, Kinds
<1>2. status[u] = "ABSENT" /\ \A p \in Requests : Subject(p) = u => ~InFlight(p)
  BY <1>1 DEF NothingBeforeUpload
<1>3. status'[u] = "ABSENT"
  BY <1>2, RowEffects
  DEF RowEffect, Created, Marked, Failed, Stored, Deleted, Present, TypeOK
<1>4. ASSUME NEW p \in Requests, Subject(p) = u PROVE pc'[p] \in {"idle", "done"}
  <2> SUFFICES ASSUME pc'[p] \notin {"idle", "done"} PROVE FALSE
    OBVIOUS
  <2>1. p \in Uploads \/ Present(u)
    BY <1>2, <1>4, TakenUp
  <2> QED
    BY <1>2, <1>4, <2>1 DEF Present, Subject
<1> QED
  BY <1>3, <1>4

LEMMA AloneInvStep ==
    ASSUME ~Overlap, AloneInv, [Next]_vars PROVE AloneInv'
<1>1. RunInv'
  BY RunInvStep DEF AloneInv
<1> QED
  BY <1>1, OneRequestStep, BeforeUploadStep DEF AloneInv

\* The status a request has seen is still there when it acts on it.
LEMMA WorkingStep ==
    ASSUME Serial, SerialInv, [Next]_vars PROVE WorkingStatus'
<1> DEFINE Seen(q) ==
       pc'[q] \notin {"idle", "respond", "done"}
       => status'[Subject(q)] = (IF q \in Uploads /\ pc'[q] # "review_low_confidence"
                                 THEN "PROCESSING" ELSE "AWAITING_REVIEW")
<1> SUFFICES ASSUME NEW q \in Requests PROVE Seen(q)
  BY TargetStays DEF WorkingStatus, Working, Expected, Subject
<1> USE Kinds, RequestsAssumption DEF SerialInv, RunInv, TypeOK, Goto, Finish
<1>0. Subject(q) \in Uploads
  BY SubjectType
<1>1. ASSUME pc'[q] = pc[q], status'[Subject(q)] = status[Subject(q)] PROVE Seen(q)
  BY <1>1 DEF WorkingStatus, Working, Expected
<1>2. ASSUME NEW a \in Requests, InFlight(a), a # q, pc'[q] = pc[q],
             \A u \in Uploads : u # Subject(a) => status'[u] = status[u]
      PROVE  Seen(q)
  <2>1. CASE Subject(q) = Subject(a)
    <3>1. ~InFlight(q)
      BY <1>2, <2>1 DEF OneRequestAtATime
    <3> QED
      BY <1>2, <3>1 DEF InFlight
  <2>2. CASE Subject(q) # Subject(a)
    BY <1>0, <1>1, <1>2, <2>2
  <2> QED
    BY <2>1, <2>2
<1>3. ASSUME NEW u \in Uploads, CreateStatement(u) PROVE Seen(q)
  <2>1. CASE q = u
    BY <1>3, <2>1 DEF CreateStatement, StatusAfter, Subject
  <2>2. CASE q # u
    <3>1. pc'[q] = pc[q] /\ pc[u] = "idle"
      BY <1>3, <2>2 DEF CreateStatement
    <3>2. CASE Subject(q) = u
      BY <3>1, <3>2 DEF NothingBeforeUpload, InFlight
    <3>3. CASE Subject(q) # u
      <4>1. status'[Subject(q)] = status[Subject(q)]
        BY <1>0, <1>3, <3>3 DEF CreateStatement, StatusAfter
      <4> QED
        BY <1>1, <3>1, <4>1
    <3> QED
      BY <3>2, <3>3
  <2> QED
    BY <2>1, <2>2
<1>4. ASSUME NEW u \in Uploads, MarkAwaitingReview(u) \/ RecordFailure(u) PROVE Seen(q)
  <2>1. CASE q = u
    BY <1>4, <2>1 DEF MarkAwaitingReview, RecordFailure, StatusAfter, Subject
  <2>2. CASE q # u
    <3>1. InFlight(u) /\ pc'[q] = pc[q] /\ Subject(u) = u
      BY <1>4, <2>2 DEF MarkAwaitingReview, RecordFailure, InFlight, Subject
    <3>2. \A v \in Uploads : v # u => status'[v] = status[v]
      BY <1>4 DEF MarkAwaitingReview, RecordFailure, StatusAfter
    <3> QED
      BY <1>2, <2>2, <3>1, <3>2
  <2> QED
    BY <2>1, <2>2
<1>5. ASSUME NEW u \in Uploads,
             ParseCsv(u) \/ NormalizeRows(u) \/ ApplyCategoryRules(u)
             \/ CategorizeWithLlm(u) \/ PauseForReview(u)
      PROVE  Seen(q)
  <2>1. status' = status
    BY <1>5 DEF ParseCsv, NormalizeRows, ApplyCategoryRules, CategorizeWithLlm, Compute,
       PauseForReview
  <2>2. CASE q = u
    <3>1. pc[u] \notin {"idle", "respond", "done", "review_low_confidence"}
          \/ pc'[u] = "respond"
      BY <1>5 DEF ParseCsv, NormalizeRows, ApplyCategoryRules, CategorizeWithLlm, Compute,
         PauseForReview
    <3>2. pc'[u] # "review_low_confidence"
      BY <1>5 DEF ParseCsv, NormalizeRows, ApplyCategoryRules, CategorizeWithLlm, AfterLlm,
         Compute, PauseForReview
    <3> QED
      BY <2>1, <2>2, <3>1, <3>2 DEF WorkingStatus, Working, Expected
  <2>3. CASE q # u
    <3>1. pc'[q] = pc[q]
      BY <1>5, <2>3 DEF ParseCsv, NormalizeRows, ApplyCategoryRules, CategorizeWithLlm,
         Compute, PauseForReview
    <3> QED
      BY <1>1, <2>1, <3>1
  <2> QED
    BY <2>2, <2>3
<1>6. ASSUME NEW r \in Reviews, RequireAwaitingReview(r) \/ ReviewStep(r) PROVE Seen(q)
  <2>1. status' = status
    BY <1>6 DEF RequireAwaitingReview, ReviewStep, ReadPayload, ResumeRun
  <2>2. CASE q = r
    <3>1. CASE RequireAwaitingReview(r)
      BY <2>1, <2>2, <3>1 DEF RequireAwaitingReview, AwaitsReview, Present, Subject
    <3>2. CASE ReviewStep(r)
      <4>1. pc[r] \notin {"idle", "respond", "done"}
        BY <3>2 DEF ReviewStep, ReadPayload, ResumeRun
      <4>2. r \notin Uploads
        OBVIOUS
      <4> QED
        BY <2>1, <2>2, <4>1, <4>2 DEF WorkingStatus, Working, Expected
    <3> QED
      BY <1>6, <3>1, <3>2
  <2>3. CASE q # r
    <3>1. pc'[q] = pc[q]
      BY <1>6, <2>3 DEF RequireAwaitingReview, ReviewStep, ReadPayload, ResumeRun
    <3> QED
      BY <1>1, <2>1, <3>1
  <2> QED
    BY <2>2, <2>3
<1>7. ASSUME NEW r \in Runs, StoreTransactions(r) \/ HandleStoreError(r) PROVE Seen(q)
  <2>1. InFlight(r) /\ \A v \in Uploads : v # Subject(r) => status'[v] = status[v]
    BY <1>7 DEF StoreTransactions, HandleStoreError, StatusAfter, InFlight
  <2>2. CASE q = r
    <3>1. CASE StoreTransactions(r)
      <4>1. \/ pc'[r] = "respond"
            \/ pc'[r] \in {"store_transactions", "error_handler"} /\ status' = status
        BY <3>1 DEF Serial, StoreTransactions, Outcomes, AfterStore, StatusAfter
      <4>2. pc[r] = "store_transactions"
        BY <3>1 DEF StoreTransactions
      <4> QED
        BY <2>2, <4>1, <4>2 DEF WorkingStatus, Working, Expected
    <3>2. CASE HandleStoreError(r)
      BY <2>2, <3>2 DEF HandleStoreError, AfterErrorHandler
    <3> QED
      BY <1>7, <3>1, <3>2
  <2>3. CASE q # r
    <3>1. pc'[q] = pc[q]
      BY <1>7, <2>3 DEF StoreTransactions, HandleStoreError
    <3> QED
      BY <1>2, <2>1, <2>3, <3>1
  <2> QED
    BY <2>2, <2>3
<1>8. ASSUME NEW r \in Runs, SaveCheckpoint(r) \/ Respond(r) \/ RequestFails(r)
      PROVE  Seen(q)
  <2>1. status' = status /\ (pc'[q] = pc[q] \/ pc'[q] = "done")
    BY <1>8 DEF SaveCheckpoint, Respond, RequestFails
  <2> QED
    BY <1>1, <2>1
<1>9. ASSUME NEW d \in Discards, FindForDiscard(d) \/ DeleteThread(d) PROVE Seen(q)
  <2>1. status' = status
    BY <1>9 DEF FindForDiscard, DeleteThread
  <2>2. CASE q = d
    <3>1. CASE FindForDiscard(d)
      BY <2>1, <2>2, <3>1 DEF FindForDiscard, MayDiscard, Present, Subject
    <3>2. CASE DeleteThread(d)
      <4>1. pc[d] \notin {"idle", "respond", "done"} /\ d \notin Uploads
        BY <3>2 DEF DeleteThread
      <4> QED
        BY <2>1, <2>2, <4>1 DEF WorkingStatus, Working, Expected
    <3> QED
      BY <1>9, <3>1, <3>2
  <2>3. CASE q # d
    <3>1. pc'[q] = pc[q]
      BY <1>9, <2>3 DEF FindForDiscard, DeleteThread
    <3> QED
      BY <1>1, <2>1, <3>1
  <2> QED
    BY <2>2, <2>3
<1>10. ASSUME NEW d \in Discards, DeleteRow(d) PROVE Seen(q)
  <2>1. CASE q = d
    BY <1>10, <2>1 DEF DeleteRow
  <2>2. CASE q # d
    <3>1. InFlight(d) /\ pc'[q] = pc[q] /\ Subject(d) = target[d]
      BY <1>10, <2>2 DEF DeleteRow, InFlight, Subject
    <3>2. \A v \in Uploads : v # target[d] => status'[v] = status[v]
      BY <1>10 DEF DeleteRow, StatusAfter
    <3> QED
      BY <1>2, <2>2, <3>1, <3>2
  <2> QED
    BY <2>1, <2>2
<1>11. CASE Crash
  <2>1. status' = status /\ (pc'[q] = pc[q] \/ pc'[q] = "done")
    BY <1>11 DEF Crash
  <2> QED
    BY <1>1, <2>1
<1>12. CASE UNCHANGED vars
  BY <1>1, <1>12 DEF vars
<1> QED
  BY <1>3, <1>4, <1>5, <1>6, <1>7, <1>8, <1>9, <1>10, <1>11, <1>12
  DEF Next, UploadStep, RunStep, DiscardStep

----------------------------------------------------------------------------
(* What follows for the tables.                                            *)

\* Whoever writes a statement's row after its creation finds it unfinished, without rows.
LEMMA WritesFindItOpen ==
    ASSUME SerialInv, NEW u \in Uploads, Marked(u) \/ Failed(u) \/ Stored(u) \/ Deleted(u)
    PROVE  /\ status[u] \in {"PROCESSING", "AWAITING_REVIEW"}
           /\ batches[u] = <<>>
           /\ Marked(u) => status[u] = "PROCESSING"
           /\ Deleted(u) => status[u] = "AWAITING_REVIEW"
<1> USE Kinds, RequestsAssumption DEF SerialInv, RunInv
<1>1. Marked(u) => status[u] = "PROCESSING"
  BY DEF Marked, WorkingStatus, Working, Expected, Subject
<1>2. Deleted(u) => status[u] = "AWAITING_REVIEW"
  BY DEF Deleted, WorkingStatus, Working, Expected
<1>3. Failed(u) \/ Stored(u) => status[u] \in {"PROCESSING", "AWAITING_REVIEW"}
  BY DEF Failed, Stored, WorkingStatus, Working, Expected
<1>4. status[u] \in {"PROCESSING", "AWAITING_REVIEW"}
  BY <1>1, <1>2, <1>3
<1> QED
  BY <1>1, <1>2, <1>4 DEF UnfinishedHoldsNoRows

\* A row is created where there was none.
LEMMA CreationFindsNone ==
    ASSUME SerialInv, NEW u \in Uploads, Created(u)
    PROVE  status[u] = "ABSENT" /\ batches[u] = <<>>
  BY DEF SerialInv, RunInv, Created, NothingBeforeUpload, UnfinishedHoldsNoRows

\* So the transactions are stored into an empty place, and a failure finds none.
LEMMA RowsStep ==
    ASSUME SerialInv, [Next]_vars PROVE StoredOnce' /\ FailedHoldsNoRows'
<1> SUFFICES ASSUME NEW u \in Uploads
             PROVE  /\ Len(batches'[u]) <= 1
                    /\ status'[u] = "FAILED" => batches'[u] = <<>>
  BY DEF StoredOnce, FailedHoldsNoRows
<1> DEFINE Goal == /\ Len(batches'[u]) <= 1
                   /\ status'[u] = "FAILED" => batches'[u] = <<>>
<1> USE DEF SerialInv, RunInv, TypeOK
<1>0. Len(<<>>) = 0
  OBVIOUS
<1>1. ASSUME batches'[u] = batches[u], status'[u] = status[u] PROVE Goal
  BY <1>1 DEF StoredOnce, FailedHoldsNoRows
<1>2. ASSUME NEW v \in Uploads, Created(v) \/ Marked(v) \/ Failed(v) \/ Deleted(v) PROVE Goal
  <2>1. CASE u = v
    <3>1. batches'[u] = <<>>
      BY <1>2, <2>1, WritesFindItOpen, CreationFindsNone DEF Created, Marked, Failed, Deleted
    <3> QED
      BY <1>0, <3>1
  <2>2. CASE u # v
    BY <1>1, <1>2, <2>2 DEF Created, Marked, Failed, Deleted
  <2> QED
    BY <2>1, <2>2
<1>3. ASSUME NEW v \in Uploads, Stored(v) PROVE Goal
  <2>1. CASE u = v
    <3>1. PICK r \in Runs : batches' = [batches EXCEPT ![v] = Append(batches[v], by[r])]
      BY <1>3 DEF Stored
    <3>2. batches[v] = <<>>
      BY <1>3, WritesFindItOpen
    <3>3. Len(Append(<<>>, by[r])) = 1
      BY <1>0, AppendProperties, EmptySeq
    <3>4. batches'[u] = Append(<<>>, by[r])
      BY <2>1, <3>1, <3>2
    <3>5. status'[u] = "COMPLETED"
      BY <1>3, <2>1 DEF Stored
    <3> QED
      BY <3>3, <3>4, <3>5
  <2>2. CASE u # v
    BY <1>1, <1>3, <2>2 DEF Stored
  <2> QED
    BY <2>1, <2>2
<1> QED
  BY <1>1, <1>2, <1>3, RowEffects DEF RowEffect

LEMMA SerialInvStep ==
    ASSUME Serial, SerialInv, [Next]_vars PROVE SerialInv'
<1>1. AloneInv'
  BY AloneInvStep DEF SerialInv, AloneInv, Serial
<1> QED
  BY <1>1, WorkingStep, RowsStep DEF SerialInv, AloneInv

LEMMA SerialInvInit ==
    ASSUME Init PROVE SerialInv
<1>1. RunInv
  BY RunInvInit
<1>2. \A q \in Requests : ~InFlight(q) /\ ~Working(q)
  BY DEF Init, InFlight, Working
<1>3. ASSUME NEW u \in Uploads PROVE Len(batches[u]) <= 1
  <2>1. Len(<<>>) = 0
    OBVIOUS
  <2>2. batches[u] = <<>>
    BY DEF Init
  <2> QED
    BY <2>1, <2>2
<1> QED
  BY <1>1, <1>2, <1>3
  DEF SerialInv, OneRequestAtATime, NothingBeforeUpload, WorkingStatus, StoredOnce,
      FailedHoldsNoRows, Init

\* One request at a time is enough for every guard to stay true until it is acted on.
THEOREM SerialInvariant ==
    ASSUME Serial PROVE Spec => []SerialInv
<1>1. Init => SerialInv
  BY SerialInvInit
<1>2. SerialInv /\ [Next]_vars => SerialInv'
  BY SerialInvStep
<1> QED
  BY <1>1, <1>2, PTL DEF Spec

\* Retries, crashes and failed commits never store a statement's transactions twice.
THEOREM TransactionsStoredOnce ==
    ASSUME Serial PROVE Spec => []StoredOnce
<1>1. SerialInv => StoredOnce
  BY DEF SerialInv
<1> QED
  BY <1>1, SerialInvariant, PTL

\* A statement recorded as FAILED has no transactions in the table.
THEOREM FailedStoredNothing ==
    ASSUME Serial PROVE Spec => []FailedHoldsNoRows
<1>1. SerialInv => FailedHoldsNoRows
  BY DEF SerialInv
<1> QED
  BY <1>1, SerialInvariant, PTL

\* A statement that is COMPLETED or FAILED is never written again.
THEOREM SettledForGood ==
    ASSUME Serial PROVE Spec => SettledStaysSettled
<1>1. SerialInv /\ [Next]_vars =>
        \A u \in Uploads :
            status[u] \in {"COMPLETED", "FAILED"}
            => status'[u] = status[u] /\ batches'[u] = batches[u]
  <2> SUFFICES ASSUME SerialInv, [Next]_vars, NEW u \in Uploads,
                      status[u] \in {"COMPLETED", "FAILED"}
               PROVE  status'[u] = status[u] /\ batches'[u] = batches[u]
    OBVIOUS
  <2>1. ASSUME NEW v \in Uploads, RowEffect(v) PROVE u # v
    BY <2>1, WritesFindItOpen, CreationFindsNone DEF RowEffect
  <2>2. TypeOK
    BY DEF SerialInv, RunInv
  <2> QED
    BY <2>1, <2>2, RowEffects
    DEF RowEffect, Created, Marked, Failed, Stored, Deleted, TypeOK
<1> QED
  BY <1>1, SerialInvariant, PTL DEF Spec, SettledStaysSettled

----------------------------------------------------------------------------
(* What a client that waits is told, whatever fails.                       *)

DecisionsInv ==
    /\ AloneInv
    /\ \A r \in Reviews : KeepsDecisions(r)

\* One request at a time means that a review works on its statement alone.
LEMMA ReviewsAreAlone ==
    ASSUME AloneInv, NEW r \in Reviews, InFlight(r) PROVE IsAlone(r)
<1>1. r \in Requests /\ Subject(r) = target[r]
  BY Kinds, RequestsAssumption DEF Subject
<1> QED
  BY <1>1, SubjectType
  DEF AloneInv, RunInv, OneRequestAtATime, NothingBeforeUpload, IsAlone

LEMMA DecisionsInvStep ==
    ASSUME ~Overlap, DecisionsInv, [Next]_vars PROVE DecisionsInv'
<1>1. \A r \in Reviews : KeepsDecisions(r)'
  BY ReviewsAreAlone, DecisionsKept DEF DecisionsInv, AloneInv
<1> QED
  BY <1>1, AloneInvStep, TargetStays DEF DecisionsInv

\* Who is told that the statement is completed finds their decisions in the table: also when
\* commits fail or their acknowledgements are lost, and also after a crash.
THEOREM AcceptedIsStored ==
    ASSUME ~Overlap PROVE Spec => AcceptedReviewIsStored
<1>1. Init => DecisionsInv
  BY SerialInvInit, Kinds DEF SerialInv, DecisionsInv, AloneInv, Init, KeepsDecisions
<1>2. DecisionsInv /\ [Next]_vars => DecisionsInv'
  BY DecisionsInvStep
<1>3. DecisionsInv /\ [Next]_vars =>
        \A r \in Reviews :
            answer[r] = "none" /\ answer'[r] = "COMPLETED"
            => \E i \in DOMAIN batches[target[r]] : batches[target[r]][i] = r
  BY AnsweredIsStored DEF DecisionsInv, AloneInv, RunInv
<1> QED
  BY <1>1, <1>2, <1>3, PTL DEF Spec, AcceptedReviewIsStored

----------------------------------------------------------------------------
(* Refinement.                                                             *)

\* The number of copies of each statement's transactions, as the lifecycle counts them.
Copies == [u \in Uploads |-> Len(batches[u])]

\* Every step of the pipeline is a step of the lifecycle of one statement, or none.
LEMMA LifecycleStep ==
    ASSUME SerialInv, [Next]_vars
    PROVE  [Lifecycle!Next]_<<status, Copies>>
<1> USE DEF SerialInv, RunInv, TypeOK, Copies
<1>1. ASSUME NEW u \in Uploads, Created(u) PROVE Lifecycle!Create(u)
  BY <1>1, CreationFindsNone DEF Created, Lifecycle!Create, HashTaken, Present
<1>2. ASSUME NEW u \in Uploads, Marked(u) PROVE Lifecycle!Pause(u)
  BY <1>2, WritesFindItOpen DEF Marked, Lifecycle!Pause
<1>3. ASSUME NEW u \in Uploads, Failed(u) PROVE Lifecycle!Fail(u)
  BY <1>3, WritesFindItOpen DEF Failed, Lifecycle!Fail, Lifecycle!Open
<1>4. ASSUME NEW u \in Uploads, Stored(u) PROVE Lifecycle!Complete(u)
  <2>1. PICK r \in Runs : batches' = [batches EXCEPT ![u] = Append(batches[u], by[r])]
    BY <1>4 DEF Stored
  <2>2. Len(Append(batches[u], by[r])) = Len(batches[u]) + 1
    BY AppendProperties
  <2>3. Copies' = [Copies EXCEPT ![u] = Copies[u] + 1]
    BY <2>1, <2>2
  <2>4. status[u] \in {"PROCESSING", "AWAITING_REVIEW"}
    BY <1>4, WritesFindItOpen
  <2>5. status' = [status EXCEPT ![u] = "COMPLETED"]
    BY <1>4 DEF Stored
  <2> QED
    BY <2>3, <2>4, <2>5 DEF Lifecycle!Complete, Lifecycle!Open
<1>5. ASSUME NEW u \in Uploads, Deleted(u) PROVE Lifecycle!Discard(u)
  <2>1. batches[u] = <<>> /\ batches' = [batches EXCEPT ![u] = <<>>]
    BY <1>5, WritesFindItOpen DEF Deleted
  <2>2. batches' = batches
    BY <2>1
  <2>3. Copies' = Copies
    BY <2>2
  <2> QED
    BY <1>5, <2>3, WritesFindItOpen DEF Deleted, Lifecycle!Discard
<1> QED
  BY <1>1, <1>2, <1>3, <1>4, <1>5, RowEffects DEF RowEffect, Lifecycle!Next

\* The pipeline implements the promised life of a statement.
THEOREM ImplementsLifecycle ==
    ASSUME Serial PROVE Spec => FollowsLifecycle
<1>1. Init => Lifecycle!Init
  <2>1. Len(<<>>) = 0
    OBVIOUS
  <2> QED
    BY <2>1 DEF Init, Lifecycle!Init
<1>2. SerialInv /\ [Next]_vars => [Lifecycle!Next]_<<status, Copies>>
  BY LifecycleStep
<1> QED
  BY <1>1, <1>2, SerialInvariant, PTL DEF Spec, FollowsLifecycle, Lifecycle!Spec, Copies

----------------------------------------------------------------------------
(* A server without faults: what awaits review can be reviewed, and an      *)
(* upload's answer says how it ended.  Only the cleanup of a discarded      *)
(* thread may fail, and a file's rows may be refused.                       *)

Calm == ~Overlap /\ Faults \subseteq {"cleanup"}

LEMMA NothingFails ==
    ASSUME Calm
    PROVE  Serial /\ Outcomes = {"committed"} /\ ~Crash
           /\ \A q \in Requests : ~RequestFails(q)
  BY DEF Calm, Serial, Outcomes, Crash, RequestFails

----------------------------------------------------------------------------
(* The inductive invariant.                                                *)

\* What holds of a statement: its thread is untouched until its upload pauses or is over, a
\* review that has passed the guard finds the pause, a run that has only its answer left has
\* settled the status or has paused, and a pause is lost only to a request under way.
CalmAt(u) ==
    /\ pc[u] \notin {"respond", "done"} => checkpoint[u].at = "unpaused"
    /\ \A r \in Reviews :
         target[r] = u /\ pc[r] \in {"read_payload", "resume"} => checkpoint[u].at = "review"
    /\ \A r \in Runs :
         Subject(r) = u /\ pc[r] = "respond" =>
            \/ status[u] \in {"COMPLETED", "FAILED"}
            \/ r \notin dirty /\ AwaitsReview(u) /\ checkpoint[u].at = "review"
    /\ AwaitsReview(u) => \/ checkpoint[u].at = "review"
                          \/ \E q \in Requests : Subject(q) = u /\ InFlight(q)
    /\ answer[u] # "PROCESSING"

CalmInv == SerialInv /\ \A u \in Uploads : CalmAt(u)

----------------------------------------------------------------------------
(* A step is one request's, and changes its own statement alone.           *)

Moves(q) ==
    /\ target' = target
    /\ \A p \in Requests : p # q => /\ pc'[p] = pc[p] /\ answer'[p] = answer[p]
                                    /\ p \in dirty' <=> p \in dirty
    /\ \A v \in Uploads : v # Subject(q) =>
         status'[v] = status[v] /\ checkpoint'[v] = checkpoint[v]

Alone(q) ==
    \A p \in Requests : Subject(p) = Subject(q) /\ p # q => pc[p] \in {"idle", "done"}

\* CalmAt for the statement of the only request that may be under way.
CalmAfter(q) ==
    LET u == Subject(q) IN
    /\ pc[u] \notin {"respond", "done"} => checkpoint[u].at = "unpaused"
    /\ q \in Reviews /\ pc[q] \in {"read_payload", "resume"} => checkpoint[u].at = "review"
    /\ pc[q] = "respond" =>
         \/ status[u] \in {"COMPLETED", "FAILED"}
         \/ q \notin dirty /\ AwaitsReview(u) /\ checkpoint[u].at = "review"
    /\ AwaitsReview(u) => checkpoint[u].at = "review" \/ InFlight(q)
    /\ answer[u] # "PROCESSING"

LEMMA AloneInFlight ==
    ASSUME SerialInv, NEW q \in Requests, InFlight(q) PROVE Alone(q)
  BY DEF SerialInv, OneRequestAtATime, Alone, InFlight

LEMMA AloneAtStart ==
    ASSUME Calm, NEW q \in Requests, MayStart(q) PROVE Alone(q) /\ ~InFlight(q)
  BY DEF Calm, MayStart, Alone, InFlight

\* A request other than an upload that is under way is about an upload that is over.
LEMMA UploadIsOver ==
    ASSUME SerialInv, NEW q \in Requests \ Uploads, InFlight(q) PROVE pc[Subject(q)] = "done"
<1>1. Subject(q) \in Uploads /\ Subject(Subject(q)) = Subject(q) /\ Subject(q) # q
  BY SubjectType DEF SerialInv, RunInv, Subject
<1>2. pc[Subject(q)] # "idle"
  BY <1>1 DEF SerialInv, NothingBeforeUpload
<1> QED
  BY <1>1, <1>2, AloneInFlight, Kinds DEF Alone

LEMMA CalmElsewhere ==
    ASSUME TypeOK, NEW q \in Requests, Moves(q), NEW v \in Uploads, v # Subject(q), CalmAt(v)
    PROVE  CalmAt(v)'
<1>1. v # q
  BY DEF Subject
<1>2. \A p \in Requests : Subject(p)' = Subject(p)
  BY DEF Moves, Subject
<1>3. /\ status'[v] = status[v] /\ checkpoint'[v] = checkpoint[v]
      /\ pc'[v] = pc[v] /\ answer'[v] = answer[v]
  BY <1>1, Kinds DEF Moves
<1>4. \A p \in Requests : Subject(p) = v =>
         /\ p # q /\ pc'[p] = pc[p] /\ (p \in dirty' <=> p \in dirty)
         /\ InFlight(p)' = InFlight(p)
  BY DEF Moves, InFlight
<1>5. \A r \in Reviews : target'[r] = target[r] /\ (target[r] = v => Subject(r) = v)
  BY RequestsAssumption DEF Moves, Subject
<1> QED
  BY <1>2, <1>3, <1>4, <1>5, Kinds DEF CalmAt, AwaitsReview

LEMMA CalmHere ==
    ASSUME TypeOK, NEW q \in Requests, Moves(q), Alone(q), CalmAfter(q)',
           NEW v \in Uploads, v = Subject(q)
    PROVE  CalmAt(v)'
<1>1. Subject(q) \in Uploads /\ \A p \in Requests : Subject(p)' = Subject(p)
  BY SubjectType DEF Moves, Subject
<1>2. \A p \in Requests : Subject(p) = Subject(q) /\ p # q => pc'[p] \in {"idle", "done"}
  BY DEF Moves, Alone
<1>3. \A r \in Reviews : target'[r] = Subject(q) => Subject(r) = Subject(q)
  BY RequestsAssumption DEF Moves, Subject
<1> QED
  BY <1>1, <1>2, <1>3, Kinds DEF CalmAt, CalmAfter, AwaitsReview, InFlight

----------------------------------------------------------------------------
(* The steps of an upload before it has anything to answer.                *)

LEMMA CalmUpload ==
    ASSUME Calm, CalmInv, NEW u \in Uploads, CreateStatement(u) \/ UploadStep(u)
    PROVE  Moves(u) /\ Alone(u) /\ CalmAfter(u)'
<1> USE Kinds, NothingFails DEF CalmInv
<1>1. Subject(u) = u /\ TypeOK
  BY DEF Subject, SerialInv, RunInv
<1>2. Alone(u)
  <2>1. pc[u] = "idle" => Alone(u)
    BY <1>1 DEF SerialInv, NothingBeforeUpload, Alone, InFlight
  <2>2. pc[u] \in {"idle", "done"} => pc[u] = "idle"
    BY DEF CreateStatement, UploadStep, ParseCsv, NormalizeRows, ApplyCategoryRules,
           CategorizeWithLlm, Compute, MarkAwaitingReview, PauseForReview, RecordFailure
  <2> QED
    BY <2>1, <2>2, AloneInFlight DEF InFlight
<1>3. pc[u] \notin {"respond", "done"}
  BY DEF CreateStatement, UploadStep, ParseCsv, NormalizeRows, ApplyCategoryRules,
         CategorizeWithLlm, Compute, MarkAwaitingReview, PauseForReview, RecordFailure
<1>4. checkpoint[u].at = "unpaused" /\ u \notin dirty /\ answer[u] # "PROCESSING"
  <2>1. checkpoint[u].at = "unpaused" /\ answer[u] # "PROCESSING"
    BY <1>3 DEF CalmAt
  <2>2. u \in dirty => pc[u] \in SavingPlaces(u)
    BY DEF SerialInv, RunInv, SavingRuns
  <2> QED
    BY <1>3, <2>1, <2>2, RequestsAssumption DEF SavingPlaces
<1>5. Working(u) => status[u] = Expected(u)
  BY <1>1 DEF SerialInv, WorkingStatus
<1>6. u \notin Reviews
  BY RequestsAssumption
<1> USE DEF TypeOK, Moves, CalmAfter, Subject, AwaitsReview, InFlight, Working, Expected
<1>7. CASE CreateStatement(u)
  <2>1. status[u] = "ABSENT"
    BY <1>7 DEF CreateStatement, SerialInv, NothingBeforeUpload
  <2> QED
    BY <1>1, <1>2, <1>4, <1>6, <1>7, <2>1 DEF CreateStatement, Goto, Finish, StatusAfter
<1>8. CASE ParseCsv(u) \/ NormalizeRows(u) \/ ApplyCategoryRules(u) \/ CategorizeWithLlm(u)
  BY <1>1, <1>2, <1>4, <1>5, <1>6, <1>8
  DEF ParseCsv, NormalizeRows, ApplyCategoryRules, CategorizeWithLlm, AfterLlm, Compute, Goto
<1>9. CASE MarkAwaitingReview(u)
  BY <1>1, <1>2, <1>4, <1>5, <1>6, <1>9 DEF MarkAwaitingReview, Present, Goto, StatusAfter
<1>10. CASE PauseForReview(u)
  BY <1>1, <1>2, <1>4, <1>5, <1>6, <1>10 DEF PauseForReview, Goto
<1>11. CASE RecordFailure(u)
  BY <1>1, <1>2, <1>4, <1>5, <1>6, <1>11 DEF RecordFailure, Present, Goto, StatusAfter
<1> QED
  BY <1>7, <1>8, <1>9, <1>10, <1>11 DEF UploadStep

----------------------------------------------------------------------------
(* The steps of a review before it runs the graph.                         *)

LEMMA CalmReview ==
    ASSUME Calm, CalmInv, NEW r \in Reviews, RequireAwaitingReview(r) \/ ReviewStep(r)
    PROVE  Moves(r) /\ Alone(r) /\ CalmAfter(r)'
<1> USE Kinds DEF CalmInv
<1>1. Subject(r) = target[r] /\ target[r] \in Uploads /\ r # target[r] /\ r \notin Uploads
  BY RequestsAssumption DEF Subject, SerialInv, RunInv, TypeOK
<1>2. TypeOK /\ CalmAt(target[r])
  BY <1>1 DEF SerialInv, RunInv
<1>3. ASSUME RequireAwaitingReview(r) PROVE Alone(r) /\ ~InFlight(r)
  BY <1>3, AloneAtStart DEF RequireAwaitingReview
<1>4. ASSUME ReviewStep(r) PROVE Alone(r) /\ InFlight(r) /\ pc[target[r]] = "done"
  <2>1. InFlight(r)
    BY <1>4 DEF ReviewStep, ReadPayload, ResumeRun, InFlight
  <2> QED
    BY <1>1, <2>1, AloneInFlight, UploadIsOver
<1> USE DEF TypeOK, Moves, CalmAfter, Subject, AwaitsReview
<1>5. CASE RequireAwaitingReview(r)
  <2>1. AwaitsReview(target[r]) => checkpoint[target[r]].at = "review"
    BY <1>1, <1>2, <1>3, <1>5 DEF CalmAt, Alone, InFlight
  <2> QED
    BY <1>1, <1>2, <1>3, <1>5, <2>1 DEF RequireAwaitingReview, Goto, Finish, Present, CalmAt
<1>6. CASE ReadPayload(r)
  BY <1>1, <1>2, <1>4, <1>6 DEF ReviewStep, ReadPayload, Goto, Finish, CalmAt, InFlight
<1>7. CASE ResumeRun(r)
  BY <1>1, <1>2, <1>4, <1>7 DEF ReviewStep, ResumeRun, Goto, CalmAt, InFlight
<1> QED
  BY <1>5, <1>6, <1>7 DEF ReviewStep

----------------------------------------------------------------------------
(* The steps of a discard.                                                 *)

LEMMA CalmDiscard ==
    ASSUME Calm, CalmInv, NEW d \in Discards, FindForDiscard(d) \/ DiscardStep(d)
    PROVE  Moves(d) /\ Alone(d) /\ CalmAfter(d)'
<1> USE Kinds, NothingFails DEF CalmInv
<1>1. Subject(d) = target[d] /\ target[d] \in Uploads /\ d # target[d]
      /\ d \notin Uploads /\ d \notin Reviews
  BY RequestsAssumption DEF Subject, SerialInv, RunInv, TypeOK
<1>2. TypeOK /\ CalmAt(target[d])
  BY <1>1 DEF SerialInv, RunInv
<1>3. ASSUME FindForDiscard(d) PROVE Alone(d) /\ ~InFlight(d)
  BY <1>3, AloneAtStart DEF FindForDiscard
<1>4. ASSUME DiscardStep(d) PROVE Alone(d) /\ InFlight(d) /\ pc[target[d]] = "done"
  <2>1. InFlight(d)
    BY <1>4 DEF DiscardStep, DeleteThread, DeleteRow, InFlight
  <2> QED
    BY <1>1, <2>1, AloneInFlight, UploadIsOver
<1> USE DEF TypeOK, Moves, CalmAfter, Subject, AwaitsReview
<1>5. CASE FindForDiscard(d)
  <2>1. AwaitsReview(target[d]) => checkpoint[target[d]].at = "review"
    BY <1>1, <1>2, <1>3, <1>5 DEF CalmAt, Alone, InFlight
  <2> QED
    BY <1>1, <1>2, <1>3, <1>5, <2>1
    DEF FindForDiscard, Goto, Finish, Present, MayDiscard, CalmAt
<1>6. CASE DeleteThread(d)
  BY <1>1, <1>2, <1>4, <1>6 DEF DiscardStep, DeleteThread, Goto, CalmAt, InFlight
<1>7. CASE DeleteRow(d)
  <2>1. /\ status' = [status EXCEPT ![target[d]] = "ABSENT"]
        /\ pc' = [pc EXCEPT ![d] = "done"] /\ answer' = [answer EXCEPT ![d] = "Deleted"]
        /\ UNCHANGED <<checkpoint, target, dirty>>
    BY <1>7 DEF DeleteRow, Finish, StatusAfter
  <2>2. pc[target[d]] = "done" /\ answer[target[d]] # "PROCESSING"
    BY <1>2, <1>4, <1>7 DEF DiscardStep, CalmAt
  <2> QED
    BY <1>1, <1>2, <1>4, <1>7, <2>1, <2>2 DEF DiscardStep
<1> QED
  BY <1>5, <1>6, <1>7 DEF DiscardStep

----------------------------------------------------------------------------
(* The steps that end a run.                                               *)

LEMMA CalmRun ==
    ASSUME Calm, CalmInv, NEW r \in Runs, RunStep(r)
    PROVE  Moves(r) /\ Alone(r) /\ CalmAfter(r)'
<1> USE Kinds, NothingFails DEF CalmInv
<1> DEFINE u == Subject(r)
<1>1. u \in Uploads /\ TypeOK /\ (r \in Uploads => u = r) /\ (r \notin Uploads => r \in Reviews)
  BY SubjectType DEF SerialInv, RunInv, Subject, Runs
<1>2. CalmAt(u)
  BY <1>1
<1>3. r \in dirty => pc[r] \in SavingPlaces(r)
  BY DEF SerialInv, RunInv, SavingRuns
<1>4. InFlight(r)
  BY <1>3 DEF RunStep, StoreTransactions, HandleStoreError, SaveCheckpoint, Respond, InFlight,
              SavingPlaces
<1>5. Alone(r) /\ (r \notin Uploads => pc[u] = "done")
  BY <1>4, AloneInFlight, UploadIsOver
<1>6. Working(r) => status[u] = Expected(r)
  BY DEF SerialInv, WorkingStatus
<1>7. pc[r] = "respond" =>
         \/ status[u] \in {"COMPLETED", "FAILED"}
         \/ r \notin dirty /\ AwaitsReview(u) /\ checkpoint[u].at = "review"
  BY <1>2 DEF CalmAt
<1>8. answer[u] # "PROCESSING" /\ (pc[u] \notin {"respond", "done"} => checkpoint[u].at = "unpaused")
  BY <1>2 DEF CalmAt
<1>9. UNCHANGED target /\ Subject(r)' = u
  BY DEF RunStep, StoreTransactions, HandleStoreError, SaveCheckpoint, Respond, Subject
<1> HIDE DEF u
<1> USE DEF TypeOK, CalmAfter, AwaitsReview, InFlight
<1>10. CASE StoreTransactions(r)
  <2>1. /\ pc[r] = "store_transactions" /\ status[u] \in {"PROCESSING", "AWAITING_REVIEW"}
        /\ u = Subject(r)
    BY <1>6, <1>10 DEF StoreTransactions, Working, Expected, u
  <2>2. \/ pc' = [pc EXCEPT ![r] = "respond"] /\ status' = [status EXCEPT ![u] = "COMPLETED"]
        \/ pc' = [pc EXCEPT ![r] = "error_handler"] /\ status' = status
    <3>1. AfterStore(r, "committed") = "respond" /\ StatusAfter("committed", u, "COMPLETED")
                                              = [status EXCEPT ![u] = "COMPLETED"]
      BY DEF AfterStore, StatusAfter
    <3>2. \/ /\ status' = StatusAfter("committed", Subject(r), "COMPLETED")
             /\ Goto(r, AfterStore(r, "committed"))
          \/ UNCHANGED status /\ Goto(r, "error_handler")
      BY <1>10 DEF StoreTransactions
    <3> QED
      BY <2>1, <3>1, <3>2 DEF Goto
  <2>3. /\ UNCHANGED <<checkpoint, answer, target>>
        /\ \A p \in Requests : p # r => (p \in dirty' <=> p \in dirty)
    BY <1>10 DEF StoreTransactions, Goto
  <2> QED
    BY <1>1, <1>5, <1>8, <1>9, <2>1, <2>2, <2>3 DEF Moves
<1>11. CASE HandleStoreError(r)
  <2>1. /\ pc[r] = "error_handler" /\ status[u] \in {"PROCESSING", "AWAITING_REVIEW"}
        /\ u = Subject(r)
    BY <1>6, <1>11 DEF HandleStoreError, Working, Expected, u
  <2>2. /\ pc' = [pc EXCEPT ![r] = "respond"] /\ status' = [status EXCEPT ![u] = "FAILED"]
        /\ UNCHANGED <<checkpoint, answer, target>> /\ dirty' = dirty \cup {r}
    BY <1>11, <2>1 DEF HandleStoreError, AfterErrorHandler, Goto, StatusAfter, Present
  <2> QED
    BY <1>1, <1>5, <1>8, <1>9, <2>1, <2>2 DEF Moves
<1>12. CASE SaveCheckpoint(r)
  <2>1. /\ UNCHANGED <<status, pc, answer, target>> /\ dirty' = dirty \ {r} /\ r \in dirty
        /\ \A v \in Uploads : v # u => checkpoint'[v] = checkpoint[v]
    BY <1>1, <1>12 DEF SaveCheckpoint, u
  <2>2. pc[r] = "respond" \/ (r \in Reviews /\ pc[r] \in {"store_transactions", "error_handler"})
    BY <1>3, <2>1 DEF SavingPlaces
  <2>3. pc[u] \in {"respond", "done"}
    BY <1>1, <1>5, <2>2, RequestsAssumption
  <2>4. pc[r] = "respond" => status[u] \in {"COMPLETED", "FAILED"}
    BY <1>7, <2>1
  <2> QED
    BY <1>1, <1>5, <1>8, <1>9, <2>1, <2>2, <2>3, <2>4 DEF Moves, u
<1>13. CASE Respond(r)
  <2>1. /\ UNCHANGED <<status, checkpoint, target, dirty>> /\ pc[r] = "respond"
        /\ status[u] # "PROCESSING" /\ Present(u)
        /\ AwaitsReview(u) => checkpoint[u].at = "review"
    BY <1>7, <1>13 DEF Respond, Present
  <2>2. /\ pc' = [pc EXCEPT ![r] = "done"] /\ answer' = [answer EXCEPT ![r] = status[u]]
    BY <1>13, <2>1 DEF Respond, Finish, u
  <2>3. pc'[u] = "done"
    BY <1>1, <1>5, <2>2
  <2> QED
    BY <1>1, <1>5, <1>8, <1>9, <2>1, <2>2, <2>3 DEF Moves
<1> QED
  BY <1>10, <1>11, <1>12, <1>13 DEF RunStep

----------------------------------------------------------------------------

LEMMA CalmStep ==
    ASSUME Calm, CalmInv, [Next]_vars PROVE CalmInv'
<1>1. SerialInv'
  BY NothingFails, SerialInvStep DEF CalmInv
<1>2. ASSUME NEW q \in Requests, Moves(q), Alone(q), CalmAfter(q)'
      PROVE  \A v \in Uploads : CalmAt(v)'
  BY <1>2, CalmElsewhere, CalmHere DEF CalmInv, SerialInv, RunInv
<1>3. ASSUME UNCHANGED vars PROVE \A v \in Uploads : CalmAt(v)'
  BY <1>3 DEF vars, CalmInv, CalmAt, Subject, AwaitsReview, InFlight
<1>4. \A v \in Uploads : CalmAt(v)'
  BY <1>2, <1>3, NothingFails, Kinds, CalmUpload, CalmReview, CalmDiscard, CalmRun DEF Next
<1> QED
  BY <1>1, <1>4 DEF CalmInv

LEMMA CalmInit ==
    ASSUME Init PROVE CalmInv
<1>1. SerialInv
  BY SerialInvInit
<1>2. ASSUME NEW u \in Uploads PROVE CalmAt(u)
  BY <1>2, Kinds DEF Init, CalmAt, AwaitsReview
<1> QED
  BY <1>1, <1>2 DEF CalmInv

THEOREM CalmInvariant ==
    ASSUME Calm PROVE Spec => []CalmInv
<1>1. Init => CalmInv
  BY CalmInit
<1>2. CalmInv /\ [Next]_vars => CalmInv'
  BY CalmStep
<1> QED
  BY <1>1, <1>2, PTL DEF Spec

\* Without faults a statement that awaits review is paused at the interrupt, or a request
\* about it is under way: the review service's guard on the status never sends a person to a
\* thread with nothing to review.
THEOREM ReviewFindsPause ==
    ASSUME Calm PROVE Spec => []AwaitingCanBeReviewed
<1>1. CalmInv => AwaitingCanBeReviewed
  BY DEF CalmInv, CalmAt, AwaitingCanBeReviewed
<1> QED
  BY <1>1, CalmInvariant, PTL

\* Without faults ingest never answers with a statement that is still PROCESSING.
THEOREM IngestAnswers ==
    ASSUME Calm PROVE Spec => []IngestAnswerIsSettled
<1>1. CalmInv => IngestAnswerIsSettled
  BY DEF CalmInv, CalmAt, IngestAnswerIsSettled
<1> QED
  BY <1>1, CalmInvariant, PTL

=============================================================================
