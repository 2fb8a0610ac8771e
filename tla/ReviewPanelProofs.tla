-------------------------- MODULE ReviewPanelProofs --------------------------
(***************************************************************************)
(* Proofs about the review page, for any number of statements, requests    *)
(* and categories.  What is proved of the server alone is taken over: for  *)
(* any clients from StatementProofs, for clients that send one request     *)
(* about a statement at a time from StatementSerialProofs.                 *)
(***************************************************************************)
EXTENDS ReviewPanel, TLAPS

Pipeline == INSTANCE StatementProofs WITH Overlap <- TRUE
Guarded  == INSTANCE StatementSerialProofs WITH Overlap <- FALSE

LEMMA RequestKinds ==
    /\ Reviews \subseteq Requests /\ Discards \subseteq Requests
    /\ Reviews \cap Discards = {}
    /\ Requests \subseteq Server!Requests
    /\ Server!Requests = Requests \cup Uploads /\ Requests \cap Uploads = {}
  BY ServerAssumption DEF Requests, Server!Requests, Server!Runs

----------------------------------------------------------------------------
(* The inductive invariant.                                                *)

\* The server has taken only what a panel sent, and has answered what is done.
TakenWasSent ==
    \A q \in Requests :
        /\ pc[q] # "idle" => call[q] # "unsent"
        /\ answer[q] # "none" => pc[q] = "done"

\* A request nobody waits for any more is on record as long as it is not done.
SlippedIsKnown ==
    \A q \in Requests :
        call[q] \in {"orphaned", "over"} /\ pc[q] # "done" => target[q] \in slipped

\* A panel waits for one request.
OneWaiting ==
    \A q, p \in Requests :
        call[q] = "waiting" /\ call[p] = "waiting" /\ target[q] = target[p] => q = p

UploadsAreOver == \A u \in Uploads : pc[u] = "done"

ClientInv ==
    /\ TypeOK
    /\ TakenWasSent
    /\ SlippedIsKnown
    /\ OneWaiting
    /\ UploadsAreOver

----------------------------------------------------------------------------
(* The steps of the client.                                                *)

LEMMA PanelTypes ==
    ASSUME TypeOK
    PROVE  /\ Unmounted \in Panels
           /\ \A shown : Rendered(shown) \in [Uploads -> Panels]
           /\ \A shown : CallsAfter(shown)
                           \in [Requests -> {"unsent", "waiting", "orphaned", "over"}]
           /\ \A calls : Slips(calls) \subseteq Uploads
<1>1. Unmounted \in Panels
  BY SuggestedAssumption DEF Unmounted, Panels
<1>2. ASSUME NEW u \in Uploads, panel[u].phase = "unmounted"
      PROVE  [Unmounted EXCEPT !.phase = "loading"] \in Panels
  BY SuggestedAssumption DEF Unmounted, Panels
<1>3. ASSUME NEW shown PROVE Rendered(shown) \in [Uploads -> Panels]
  BY <1>1, <1>2 DEF TypeOK, Rendered
<1>4. ASSUME NEW shown
      PROVE  CallsAfter(shown) \in [Requests -> {"unsent", "waiting", "orphaned", "over"}]
  BY DEF TypeOK, CallsAfter
<1>5. ASSUME NEW calls PROVE Slips(calls) \subseteq Uploads
  BY DEF TypeOK, Server!TypeOK, Slips, Requests
<1> QED
  BY <1>1, <1>3, <1>4, <1>5

\* What every step of the client keeps: it starts no request and takes no answer back, it
\* waits for another one only where it waits for none, and it puts what slips on record.
Careful ==
    /\ UNCHANGED server
    /\ slipped \subseteq slipped'
    /\ \A q \in Requests :
         /\ call'[q] = "unsent" => call[q] = "unsent"
         /\ call'[q] \in {"orphaned", "over"} /\ pc[q] # "done" =>
              target[q] \in slipped' \/ call'[q] = call[q]
         /\ call'[q] = "waiting" /\ call[q] # "waiting" =>
              /\ \A p \in Requests : p # q => call'[p] = call[p]
              /\ ~IsSubmitting(target[q])

LEMMA CarefulStep ==
    ASSUME ClientInv, Careful, TypeOK' PROVE ClientInv'
<1> USE DEF ClientInv, Careful, server
<1>1. TakenWasSent'
  BY DEF TakenWasSent
<1>2. SlippedIsKnown'
  BY DEF SlippedIsKnown
<1>3. OneWaiting'
  BY DEF OneWaiting, IsSubmitting
<1>4. UploadsAreOver'
  BY DEF UploadsAreOver
<1> QED
  BY <1>1, <1>2, <1>3, <1>4

ClientStep ==
    \/ Person
    \/ \E u \in Uploads : PendingStep(u)
    \/ \E q \in Requests : AnswerStep(q)
    \/ \E l \in Loads : ListStep(l)
    \/ FilteredEnds \/ Render

\* The page's panels are rendered again, and its calls go with them.
LEMMA Rerendered ==
    ASSUME ClientInv, NEW shown, UNCHANGED server,
           panel' = Rendered(shown), call' = CallsAfter(shown),
           slipped' = slipped \cup Slips(call')
    PROVE  /\ Careful
           /\ panel' \in [Uploads -> Panels]
           /\ call' \in [Requests -> {"unsent", "waiting", "orphaned", "over"}]
           /\ slipped' \subseteq Uploads
<1>1. panel' \in [Uploads -> Panels]
      /\ call' \in [Requests -> {"unsent", "waiting", "orphaned", "over"}]
      /\ slipped' \subseteq Uploads
  BY PanelTypes DEF ClientInv, TypeOK
<1>2. \A q \in Requests : call'[q] = call[q] \/ call'[q] = "orphaned"
  BY DEF CallsAfter
<1> QED
  BY <1>1, <1>2 DEF Careful, Slips

LEMMA ClientKeepsInv ==
    ASSUME ClientInv, ClientStep PROVE ClientInv'
<1> USE DEF ClientInv, TypeOK
<1>1. ASSUME UNCHANGED server PROVE Server!TypeOK'
  BY <1>1 DEF server, Server!TypeOK
<1>2. ASSUME Navigate PROVE ClientInv'
  <2>1. Careful /\ TypeOK'
    BY <1>1, <1>2, Rerendered DEF Navigate
  <2> QED
    BY <2>1, CarefulStep
<1>3. ASSUME Refresh PROVE ClientInv'
  <2>1. panel' \in [Uploads -> Panels] /\ slipped' \subseteq Uploads
    BY <1>3, PanelTypes DEF Refresh
  <2>2. call' \in [Requests -> {"unsent", "waiting", "orphaned", "over"}]
    BY <1>3 DEF Refresh
  <2>3. reload' \in [Loads -> ListLoads]
    BY <1>3 DEF Refresh, NoLoad, ListLoads
  <2>4. Careful
    BY <1>3 DEF Refresh, Careful, Slips
  <2> QED
    BY <1>1, <1>3, <2>1, <2>2, <2>3, <2>4, CarefulStep DEF Refresh
<1>4. ASSUME NEW u \in Uploads, NEW i \in Items, NEW c \in Categories, Choose(u, i, c)
      PROVE  ClientInv'
  <2>1. panel' \in [Uploads -> Panels]
    BY <1>4, ZenonT(60) DEF Choose, Panels
  <2>2. Careful
    BY <1>4 DEF Choose, Careful
  <2> QED
    BY <1>1, <1>4, <2>1, <2>2, CarefulStep DEF Choose
<1>5. ASSUME NEW r \in Reviews, Approve(r) PROVE ClientInv'
  <2>1. target[r] \in Uploads /\ r \in Requests
    BY RequestKinds DEF Server!TypeOK
  <2>2. panel[target[r]].choices \in [Items -> Categories]
    BY <2>1 DEF Panels
  <2>3. DecisionsFor(panel[target[r]].choices) \in UNION {[S -> Categories] : S \in SUBSET Items}
    <3> DEFINE S == {j \in Items : panel[target[r]].choices[j] # Suggested[j]}
    <3>1. S \in SUBSET Items /\ DecisionsFor(panel[target[r]].choices) \in [S -> Categories]
      BY <2>2 DEF DecisionsFor
    <3> QED
      BY <3>1
  <2>4. decisions' \in [Reviews -> UNION {[S -> Categories] : S \in SUBSET Items}]
    BY <1>5, <2>3 DEF Approve
  <2>5. call' \in [Requests -> {"unsent", "waiting", "orphaned", "over"}]
        /\ approved' \in [Reviews -> Choices]
    BY <1>5, <2>1, <2>2 DEF Approve, Choices
  <2>6. Careful
    BY <1>5, <2>1 DEF Approve, Careful
  <2> QED
    BY <1>1, <1>5, <2>4, <2>5, <2>6, CarefulStep DEF Approve
<1>6. ASSUME NEW d \in Discards, Discard(d) PROVE ClientInv'
  <2>1. call' \in [Requests -> {"unsent", "waiting", "orphaned", "over"}]
    BY <1>6, RequestKinds DEF Discard
  <2>2. Careful
    BY <1>6, RequestKinds DEF Discard, Careful
  <2> QED
    BY <1>1, <1>6, <2>1, <2>2, CarefulStep DEF Discard
<1>7. ASSUME NEW u \in Uploads, PendingStep(u) PROVE ClientInv'
  <2>1. panel' \in [Uploads -> Panels]
    <3>1. ASSUME FindPending(u) PROVE panel' \in [Uploads -> Panels]
      BY <3>1 DEF FindPending, Panels
    <3>2. ASSUME ReadPending(u) PROVE panel' \in [Uploads -> Panels]
      <4> DEFINE got == IF checkpoint[u].at = "review" THEN "payload" ELSE "refused"
      <4>1. got \in {"payload", "refused"} /\ panel' = [panel EXCEPT ![u].got = got]
        BY <3>2 DEF ReadPending
      <4> HIDE DEF got
      <4> QED
        BY <4>1, ZenonT(60) DEF Panels
    <3>3. ASSUME PendingArrives(u) PROVE panel' \in [Uploads -> Panels]
      <4>1. [phase |-> "ready", got |-> "none", review |-> TRUE, choices |-> SeededChoices]
              \in Panels
        BY SuggestedAssumption DEF SeededChoices, Panels
      <4>2. [Unmounted EXCEPT !.phase = "error"] \in Panels
        BY SuggestedAssumption DEF Unmounted, Panels
      <4> QED
        BY <3>3, <4>1, <4>2 DEF PendingArrives
    <3> QED
      BY <1>7, <3>1, <3>2, <3>3 DEF PendingStep
  <2>2. Careful
    BY <1>7 DEF PendingStep, FindPending, ReadPending, PendingArrives, Careful
  <2> QED
    BY <1>1, <1>7, <2>1, <2>2, CarefulStep
    DEF PendingStep, FindPending, ReadPending, PendingArrives
<1>8. ASSUME NEW q \in Requests, AnswerArrives(q) PROVE ClientInv'
  <2>1. call' \in [Requests -> {"unsent", "waiting", "orphaned", "over"}]
    BY <1>8 DEF AnswerArrives
  <2>2. panel' \in [Uploads -> Panels]
    <3>1. PICK u \in Uploads : target[q] = u
      BY DEF Server!TypeOK, Requests
    <3>2. panel' = panel \/ panel' = [panel EXCEPT ![u].review = FALSE]
      BY <1>8, <3>1 DEF AnswerArrives
    <3>3. [panel EXCEPT ![u].review = FALSE] \in [Uploads -> Panels]
      BY ZenonT(60) DEF Panels
    <3> QED
      BY <3>2, <3>3
  <2>3. reload' \in [Loads -> ListLoads]
        /\ overlapped' \in BOOLEAN
    <3>1. q \in Loads
      BY DEF Loads
    <3>2. reload' \in {reload, [reload EXCEPT ![q].at = "asked"]}
      BY <1>8 DEF AnswerArrives
    <3>3. overlapped' \in BOOLEAN
      BY <1>8 DEF AnswerArrives
    <3> QED
      BY <3>1, <3>2, <3>3 DEF ListLoads
  <2>4. pc[q] = "done"
    BY <1>8 DEF AnswerArrives, TakenWasSent
  <2>5. Careful
    BY <1>8, <2>4 DEF AnswerArrives, Careful
  <2> QED
    BY <1>1, <1>8, <2>1, <2>2, <2>3, <2>5, CarefulStep DEF AnswerArrives
<1>9. ASSUME NEW q \in Requests, CallFails(q) PROVE ClientInv'
  <2>1. call' \in [Requests -> {"unsent", "waiting", "orphaned", "over"}]
    BY <1>9 DEF CallFails
  <2>2. slipped' \subseteq Uploads
    BY <1>9, PanelTypes DEF CallFails
  <2>3. Careful
    BY <1>9 DEF CallFails, Careful, Slips
  <2> QED
    BY <1>1, <1>9, <2>1, <2>2, <2>3, CarefulStep DEF CallFails
<1>10. ASSUME NEW l \in Loads, ServeList(l) PROVE ClientInv'
  <2>1. reload' \in [Loads -> ListLoads]
    BY <1>10 DEF ServeList, ListLoads
  <2>2. Careful
    BY <1>10 DEF ServeList, Careful
  <2> QED
    BY <1>1, <1>10, <2>1, <2>2, CarefulStep DEF ServeList
<1>11. ASSUME NEW l \in Loads, ListArrives(l) \/ ListFails(l) PROVE ClientInv'
  <2>1. reload' \in [Loads -> ListLoads]
    BY <1>11 DEF ListArrives, ListFails, NoLoad, ListLoads
  <2>2. listed' \subseteq Uploads
    BY <1>11 DEF ListArrives, ListFails, ListLoads
  <2>3. Careful
    BY <1>11 DEF ListArrives, ListFails, Careful
  <2> QED
    BY <1>1, <1>11, <2>1, <2>2, <2>3, CarefulStep DEF ListArrives, ListFails
<1>12. ASSUME FilteredEnds PROVE ClientInv'
  <2>1. Careful
    BY <1>12 DEF FilteredEnds, Careful
  <2> QED
    BY <1>1, <1>12, <2>1, CarefulStep DEF FilteredEnds
<1>13. ASSUME Render PROVE ClientInv'
  <2>1. Careful /\ TypeOK'
    BY <1>1, <1>13, Rerendered DEF Render
  <2> QED
    BY <2>1, CarefulStep
<1> QED
  BY <1>2, <1>3, <1>4, <1>5, <1>6, <1>7, <1>8, <1>9, <1>10, <1>11, <1>12, <1>13
  DEF ClientStep, Person, AnswerStep, ListStep

\* The client changes nothing on the server but by its requests.
LEMMA ClientLeavesServer ==
    ASSUME ClientStep PROVE UNCHANGED server
  BY DEF ClientStep, Person, Navigate, Refresh, Choose, Approve, Discard, PendingStep,
     FindPending, ReadPending, PendingArrives, AnswerStep, AnswerArrives, CallFails, ListStep,
     ServeList, ListArrives, ListFails, FilteredEnds, Render

----------------------------------------------------------------------------
(* The steps of the server, seen from its own modules.                     *)

\* What the server does with a request it has taken does not depend on its clients.
LEMMA RunRequestSteps ==
    ASSUME NEW q \in Requests, RunRequest(q)
    PROVE  Pipeline!Next /\ Guarded!Next /\ Serial!Next
<1>1. ASSUME q \in Reviews, Server!ReadPayload(q)
      PROVE  Pipeline!Next /\ Guarded!Next /\ Serial!Next
  <2>1. Pipeline!ReadPayload(q) /\ Guarded!ReadPayload(q) /\ Serial!ReadPayload(q)
    BY <1>1
    DEF Server!ReadPayload, Pipeline!ReadPayload, Guarded!ReadPayload,
        Serial!ReadPayload, Server!Goto, Pipeline!Goto, Guarded!Goto, Serial!Goto,
        Server!Finish, Pipeline!Finish, Guarded!Finish, Serial!Finish
  <2> QED
    BY <1>1, <2>1
    DEF Pipeline!Next, Guarded!Next, Serial!Next, Pipeline!ReviewStep,
        Guarded!ReviewStep, Serial!ReviewStep
<1>2. ASSUME q \in Reviews, Server!ResumeRun(q)
      PROVE  Pipeline!Next /\ Guarded!Next /\ Serial!Next
  <2>1. Pipeline!ResumeRun(q) /\ Guarded!ResumeRun(q) /\ Serial!ResumeRun(q)
    BY <1>2
    DEF Server!ResumeRun, Pipeline!ResumeRun, Guarded!ResumeRun, Serial!ResumeRun,
        Server!DecidedBy, Pipeline!DecidedBy, Guarded!DecidedBy, Serial!DecidedBy,
        Server!Goto, Pipeline!Goto, Guarded!Goto, Serial!Goto, Server!Finish,
        Pipeline!Finish, Guarded!Finish, Serial!Finish
  <2> QED
    BY <1>2, <2>1
    DEF Pipeline!Next, Guarded!Next, Serial!Next, Pipeline!ReviewStep,
        Guarded!ReviewStep, Serial!ReviewStep
<1>3. ASSUME q \in Reviews, Server!StoreTransactions(q)
      PROVE  Pipeline!Next /\ Guarded!Next /\ Serial!Next
  <2>1. Pipeline!StoreTransactions(q) /\ Guarded!StoreTransactions(q) /\ Serial!StoreTransactions(q)
    BY <1>3
    DEF Server!StoreTransactions, Pipeline!StoreTransactions, Guarded!StoreTransactions,
        Serial!StoreTransactions, Server!Subject, Pipeline!Subject, Guarded!Subject,
        Serial!Subject, Server!Present, Pipeline!Present, Guarded!Present,
        Serial!Present, Server!Outcomes, Pipeline!Outcomes, Guarded!Outcomes,
        Serial!Outcomes, Server!StatusAfter, Pipeline!StatusAfter, Guarded!StatusAfter,
        Serial!StatusAfter, Server!RowsAfter, Pipeline!RowsAfter, Guarded!RowsAfter,
        Serial!RowsAfter, Server!AfterStore, Pipeline!AfterStore, Guarded!AfterStore,
        Serial!AfterStore, Server!Goto, Pipeline!Goto, Guarded!Goto, Serial!Goto,
        Server!Finish, Pipeline!Finish, Guarded!Finish, Serial!Finish
  <2> QED
    BY <1>3, <2>1
    DEF Pipeline!Next, Guarded!Next, Serial!Next, Pipeline!RunStep, Guarded!RunStep,
        Serial!RunStep, Pipeline!Runs, Guarded!Runs, Serial!Runs
<1>4. ASSUME q \in Reviews, Server!HandleStoreError(q)
      PROVE  Pipeline!Next /\ Guarded!Next /\ Serial!Next
  <2>1. Pipeline!HandleStoreError(q) /\ Guarded!HandleStoreError(q) /\ Serial!HandleStoreError(q)
    BY <1>4
    DEF Server!HandleStoreError, Pipeline!HandleStoreError, Guarded!HandleStoreError,
        Serial!HandleStoreError, Server!Subject, Pipeline!Subject, Guarded!Subject,
        Serial!Subject, Server!Present, Pipeline!Present, Guarded!Present,
        Serial!Present, Server!Outcomes, Pipeline!Outcomes, Guarded!Outcomes,
        Serial!Outcomes, Server!StatusAfter, Pipeline!StatusAfter, Guarded!StatusAfter,
        Serial!StatusAfter, Server!MessageAfter, Pipeline!MessageAfter,
        Guarded!MessageAfter, Serial!MessageAfter, Server!AfterErrorHandler,
        Pipeline!AfterErrorHandler, Guarded!AfterErrorHandler, Serial!AfterErrorHandler,
        Server!Goto, Pipeline!Goto, Guarded!Goto, Serial!Goto, Server!Finish,
        Pipeline!Finish, Guarded!Finish, Serial!Finish
  <2> QED
    BY <1>4, <2>1
    DEF Pipeline!Next, Guarded!Next, Serial!Next, Pipeline!RunStep, Guarded!RunStep,
        Serial!RunStep, Pipeline!Runs, Guarded!Runs, Serial!Runs
<1>5. ASSUME q \in Reviews, Server!SaveCheckpoint(q)
      PROVE  Pipeline!Next /\ Guarded!Next /\ Serial!Next
  <2>1. Pipeline!SaveCheckpoint(q) /\ Guarded!SaveCheckpoint(q) /\ Serial!SaveCheckpoint(q)
    BY <1>5
    DEF Server!SaveCheckpoint, Pipeline!SaveCheckpoint, Guarded!SaveCheckpoint,
        Serial!SaveCheckpoint, Server!Subject, Pipeline!Subject, Guarded!Subject,
        Serial!Subject
  <2> QED
    BY <1>5, <2>1
    DEF Pipeline!Next, Guarded!Next, Serial!Next, Pipeline!RunStep, Guarded!RunStep,
        Serial!RunStep, Pipeline!Runs, Guarded!Runs, Serial!Runs
<1>6. ASSUME q \in Reviews, Server!Respond(q)
      PROVE  Pipeline!Next /\ Guarded!Next /\ Serial!Next
  <2>1. Pipeline!Respond(q) /\ Guarded!Respond(q) /\ Serial!Respond(q)
    BY <1>6
    DEF Server!Respond, Pipeline!Respond, Guarded!Respond, Serial!Respond,
        Server!Subject, Pipeline!Subject, Guarded!Subject, Serial!Subject,
        Server!Present, Pipeline!Present, Guarded!Present, Serial!Present,
        Server!Finish, Pipeline!Finish, Guarded!Finish, Serial!Finish
  <2> QED
    BY <1>6, <2>1
    DEF Pipeline!Next, Guarded!Next, Serial!Next, Pipeline!RunStep, Guarded!RunStep,
        Serial!RunStep, Pipeline!Runs, Guarded!Runs, Serial!Runs
<1>7. ASSUME q \in Discards, Server!DeleteThread(q)
      PROVE  Pipeline!Next /\ Guarded!Next /\ Serial!Next
  <2>1. Pipeline!DeleteThread(q) /\ Guarded!DeleteThread(q) /\ Serial!DeleteThread(q)
    BY <1>7
    DEF Server!DeleteThread, Pipeline!DeleteThread, Guarded!DeleteThread,
        Serial!DeleteThread, Server!Goto, Pipeline!Goto, Guarded!Goto, Serial!Goto
  <2> QED
    BY <1>7, <2>1
    DEF Pipeline!Next, Guarded!Next, Serial!Next, Pipeline!DiscardStep,
        Guarded!DiscardStep, Serial!DiscardStep
<1>8. ASSUME q \in Discards, Server!DeleteRow(q)
      PROVE  Pipeline!Next /\ Guarded!Next /\ Serial!Next
  <2>1. Pipeline!DeleteRow(q) /\ Guarded!DeleteRow(q) /\ Serial!DeleteRow(q)
    BY <1>8
    DEF Server!DeleteRow, Pipeline!DeleteRow, Guarded!DeleteRow, Serial!DeleteRow,
        Server!Outcomes, Pipeline!Outcomes, Guarded!Outcomes, Serial!Outcomes,
        Server!StatusAfter, Pipeline!StatusAfter, Guarded!StatusAfter,
        Serial!StatusAfter, Server!RowsAfter, Pipeline!RowsAfter, Guarded!RowsAfter,
        Serial!RowsAfter, Server!MessageAfter, Pipeline!MessageAfter,
        Guarded!MessageAfter, Serial!MessageAfter, Server!Finish, Pipeline!Finish,
        Guarded!Finish, Serial!Finish
  <2> QED
    BY <1>8, <2>1
    DEF Pipeline!Next, Guarded!Next, Serial!Next, Pipeline!DiscardStep,
        Guarded!DiscardStep, Serial!DiscardStep
<1> QED
  BY <1>1, <1>2, <1>3, <1>4, <1>5, <1>6, <1>7, <1>8
  DEF RunRequest, Server!ReviewStep, Server!RunStep, Server!DiscardStep

LEMMA StartRequestSteps ==
    ASSUME NEW q \in Requests, StartRequest(q)
    PROVE  /\ Pipeline!Next
           /\ Serial!MayStart(q) => Guarded!Next /\ Serial!Next
<1>1. ASSUME q \in Reviews, Server!RequireAwaitingReview(q)
      PROVE  /\ Pipeline!Next
             /\ Serial!MayStart(q) => Guarded!Next /\ Serial!Next
  <2>1. /\ Pipeline!RequireAwaitingReview(q)
        /\ Serial!MayStart(q) => Guarded!RequireAwaitingReview(q) /\ Serial!RequireAwaitingReview(q)
    BY <1>1
    DEF Server!RequireAwaitingReview, Pipeline!RequireAwaitingReview,
        Guarded!RequireAwaitingReview, Serial!RequireAwaitingReview, Server!MayStart,
        Pipeline!MayStart, Guarded!MayStart, Serial!MayStart, Server!InFlight,
        Pipeline!InFlight, Guarded!InFlight, Serial!InFlight, Server!Subject,
        Pipeline!Subject, Guarded!Subject, Serial!Subject, Server!Requests,
        Pipeline!Requests, Guarded!Requests, Serial!Requests, Server!Runs,
        Pipeline!Runs, Guarded!Runs, Serial!Runs, Server!Present, Pipeline!Present,
        Guarded!Present, Serial!Present, Server!AwaitsReview, Pipeline!AwaitsReview,
        Guarded!AwaitsReview, Serial!AwaitsReview, Server!Goto, Pipeline!Goto,
        Guarded!Goto, Serial!Goto, Server!Finish, Pipeline!Finish, Guarded!Finish,
        Serial!Finish
  <2> QED
    BY <1>1, <2>1
    DEF Pipeline!Next, Guarded!Next, Serial!Next
<1>2. ASSUME q \in Discards, Server!FindForDiscard(q)
      PROVE  /\ Pipeline!Next
             /\ Serial!MayStart(q) => Guarded!Next /\ Serial!Next
  <2>1. /\ Pipeline!FindForDiscard(q)
        /\ Serial!MayStart(q) => Guarded!FindForDiscard(q) /\ Serial!FindForDiscard(q)
    BY <1>2
    DEF Server!FindForDiscard, Pipeline!FindForDiscard, Guarded!FindForDiscard,
        Serial!FindForDiscard, Server!MayStart, Pipeline!MayStart, Guarded!MayStart,
        Serial!MayStart, Server!InFlight, Pipeline!InFlight, Guarded!InFlight,
        Serial!InFlight, Server!Subject, Pipeline!Subject, Guarded!Subject,
        Serial!Subject, Server!Requests, Pipeline!Requests, Guarded!Requests,
        Serial!Requests, Server!Runs, Pipeline!Runs, Guarded!Runs, Serial!Runs,
        Server!Present, Pipeline!Present, Guarded!Present, Serial!Present,
        Server!MayDiscard, Pipeline!MayDiscard, Guarded!MayDiscard, Serial!MayDiscard,
        Server!Goto, Pipeline!Goto, Guarded!Goto, Serial!Goto, Server!Finish,
        Pipeline!Finish, Guarded!Finish, Serial!Finish
  <2> QED
    BY <1>2, <2>1
    DEF Pipeline!Next, Guarded!Next, Serial!Next
<1> QED
  BY <1>1, <1>2 DEF StartRequest

\* A request the server works on moves alone, is answered when it is done, and neither
\* begins nor ends twice.
Moves(q) ==
    /\ UNCHANGED <<target, client>>
    /\ \A p \in Server!Requests : p # q => pc'[p] = pc[p] /\ answer'[p] = answer[p]
    /\ pc'[q] = "idle" => pc[q] = "idle"
    /\ pc[q] = "done" => pc'[q] = "done"
    /\ answer'[q] = answer[q] \/ pc'[q] = "done"
    /\ call[q] = "unsent" => pc'[q] = pc[q]

LEMMA ServerMoves ==
    ASSUME ClientInv, NEW q \in Requests, StartRequest(q) \/ RunRequest(q)
    PROVE  Moves(q)
<1> USE RequestKinds DEF ClientInv, TypeOK, Server!TypeOK, Server!Goto, Server!Finish, Moves
<1>1. ASSUME StartRequest(q) PROVE Moves(q)
  BY <1>1 DEF StartRequest, Server!RequireAwaitingReview, Server!FindForDiscard, Server!MayStart
<1>2. ASSUME RunRequest(q) PROVE Moves(q)
  <2> USE DEF TakenWasSent
  <2>1. UNCHANGED client
    BY <1>2 DEF RunRequest
  <2>2. ASSUME Server!ReadPayload(q) \/ Server!ResumeRun(q) PROVE Moves(q)
    BY <2>1, <2>2 DEF Server!ReadPayload, Server!ResumeRun
  <2>3. ASSUME Server!StoreTransactions(q) PROVE Moves(q)
    BY <2>1, <2>3 DEF Server!StoreTransactions, Server!AfterStore
  <2>4. ASSUME Server!HandleStoreError(q) PROVE Moves(q)
    BY <2>1, <2>4 DEF Server!HandleStoreError, Server!AfterErrorHandler
  <2>5. ASSUME Server!SaveCheckpoint(q) \/ Server!Respond(q) PROVE Moves(q)
    BY <2>1, <2>5 DEF Server!SaveCheckpoint, Server!Respond
  <2>6. ASSUME Server!DeleteThread(q) \/ Server!DeleteRow(q) PROVE Moves(q)
    BY <2>1, <2>6 DEF Server!DeleteThread, Server!DeleteRow
  <2> QED
    BY <1>2, <2>2, <2>3, <2>4, <2>5, <2>6
    DEF RunRequest, Server!ReviewStep, Server!RunStep, Server!DiscardStep
<1> QED
  BY <1>1, <1>2

\* The pipeline's invariants hold under any client.
LEMMA ServerTypeStep ==
    ASSUME Server!TypeOK, Pipeline!Next PROVE Server!TypeOK'
<1>1. Pipeline!TypeOK
  BY DEF Server!TypeOK, Pipeline!TypeOK, Server!Requests, Pipeline!Requests, Server!Runs,
     Pipeline!Runs, Server!Statuses, Pipeline!Statuses, Server!Checkpoints,
     Pipeline!Checkpoints, Server!Places, Pipeline!Places, Server!Nodes, Pipeline!Nodes,
     Server!Answers, Pipeline!Answers
<1>2. Pipeline!TypeOK'
  BY <1>1, Pipeline!TypeStep, ServerAssumption DEF Server!FaultKinds, Pipeline!FaultKinds
<1> QED
  BY <1>2
  DEF Server!TypeOK, Pipeline!TypeOK, Server!Requests, Pipeline!Requests, Server!Runs,
      Pipeline!Runs, Server!Statuses, Pipeline!Statuses, Server!Checkpoints,
      Pipeline!Checkpoints, Server!Places, Pipeline!Places, Server!Nodes, Pipeline!Nodes,
      Server!Answers, Pipeline!Answers

LEMMA ServerKeepsInv ==
    ASSUME ClientInv, NEW q \in Requests, StartRequest(q) \/ RunRequest(q)
    PROVE  ClientInv'
<1>1. Moves(q)
  BY ServerMoves
<1>2. Server!TypeOK'
  BY RunRequestSteps, StartRequestSteps, ServerTypeStep DEF ClientInv, TypeOK
<1>3. TypeOK'
  BY <1>1, <1>2 DEF Moves, client, ClientInv, TypeOK
<1>4. TakenWasSent' /\ SlippedIsKnown' /\ OneWaiting' /\ UploadsAreOver'
  BY <1>1, RequestKinds
  DEF Moves, client, ClientInv, TakenWasSent, SlippedIsKnown, OneWaiting, UploadsAreOver
<1> QED
  BY <1>3, <1>4 DEF ClientInv

----------------------------------------------------------------------------
(* What follows.                                                           *)

LEMMA ClientInvInit ==
    ASSUME Init PROVE ClientInv
<1>1. Server!TypeOK
  BY ServerAssumption
  DEF Init, Requests, Server!TypeOK, Server!Requests, Server!Runs, Server!Statuses,
      Server!Checkpoints, Server!Places, Server!Nodes, Server!Answers
<1>2. Unmounted \in Panels /\ Suggested \in Choices
  BY SuggestedAssumption DEF Unmounted, Panels, Choices
<1>3. <<>> \in UNION {[S -> Categories] : S \in SUBSET Items}
  <2>1. <<>> \in [{} -> Categories]
    OBVIOUS
  <2> QED
    BY <2>1
<1>4. TypeOK
  BY <1>1, <1>2, <1>3 DEF Init, TypeOK, NoLoad, ListLoads
<1> QED
  BY <1>4, RequestKinds
  DEF Init, ClientInv, TakenWasSent, SlippedIsKnown, OneWaiting, UploadsAreOver

LEMMA ClientInvStep ==
    ASSUME ClientInv, [Next]_vars PROVE ClientInv'
<1>1. ASSUME ClientStep PROVE ClientInv'
  BY <1>1, ClientKeepsInv
<1>2. ASSUME UNCHANGED vars PROVE ClientInv'
  BY <1>2
  DEF vars, server, client, ClientInv, TypeOK, Server!TypeOK, TakenWasSent, SlippedIsKnown,
      OneWaiting, UploadsAreOver
<1> QED
  BY <1>1, <1>2, ServerKeepsInv DEF Next, ClientStep

THEOREM ClientInvariant == Spec => []ClientInv
<1>1. Init => ClientInv
  BY ClientInvInit
<1>2. ClientInv /\ [Next]_vars => ClientInv'
  BY ClientInvStep
<1> QED
  BY <1>1, <1>2, PTL DEF Spec

\* The types of the page, its panels and the requests they send.
THEOREM TypeCorrect == Spec => []TypeOK
<1>1. ClientInv => TypeOK
  BY DEF ClientInv
<1> QED
  BY <1>1, ClientInvariant, PTL

\* While nothing slipped, a request that starts finds its statement free.
LEMMA StartsAlone ==
    ASSUME ClientInv, slipped = {}, NEW q \in Requests, StartRequest(q)
    PROVE  Serial!MayStart(q)
<1>1. pc[q] = "idle" /\ call[q] # "unsent"
  BY DEF StartRequest, Server!RequireAwaitingReview, Server!FindForDiscard, Server!MayStart
<1>2. call[q] = "waiting"
  BY <1>1 DEF ClientInv, TypeOK, SlippedIsKnown
<1>3. ASSUME NEW p \in Server!Requests, Serial!InFlight(p), Serial!Subject(p) = Serial!Subject(q)
      PROVE  FALSE
  <2>1. p \in Requests
    BY <1>3, RequestKinds DEF Serial!InFlight, ClientInv, UploadsAreOver
  <2>2. call[p] = "waiting"
    BY <1>3, <2>1 DEF Serial!InFlight, ClientInv, TypeOK, SlippedIsKnown, TakenWasSent
  <2>3. p = q
    BY <1>2, <1>3, <2>1, <2>2, RequestKinds DEF Serial!Subject, ClientInv, OneWaiting
  <2> QED
    BY <1>1, <1>3, <2>3 DEF Serial!InFlight
<1> QED
  BY <1>1, <1>3
  DEF Serial!MayStart, Serial!Requests, Serial!Runs, Server!Requests, Server!Runs

LEMMA ServerStepIsSerial ==
    ASSUME ClientInv, [Next]_vars, slipped = {}
    PROVE  UNCHANGED server \/ (Guarded!Next /\ Serial!Next)
<1> QED
  BY ClientLeavesServer, StartsAlone, StartRequestSteps, RunRequestSteps DEF Next, ClientStep, vars

\* The disabled buttons of a panel make its requests the serial clients the pipeline's
\* guarantees suppose, as long as the panel waits for what it sent.
THEOREM PanelsAreSerial == Spec => ServesSerially
<1>1. ClientInv /\ [Next]_vars => [slipped = {} => Serial!Next]_server
  BY ServerStepIsSerial
<1> QED
  BY <1>1, ClientInvariant, PTL DEF Spec, ServesSerially

----------------------------------------------------------------------------
(* The server's own guarantees, carried over.                              *)

WaitingInv == slipped = {} => Guarded!SerialInv

LEMMA PausedStatements ==
    ASSUME Init PROVE Guarded!SerialInv
<1> USE ServerAssumption DEF Init
<1>1. Guarded!TypeOK
  BY DEF Requests, Guarded!TypeOK, Guarded!Requests, Guarded!Runs, Guarded!Statuses,
     Guarded!Checkpoints, Guarded!Places, Guarded!Nodes, Guarded!Answers
<1>2. Guarded!RunInv
  BY <1>1, RequestKinds
  DEF Requests, Guarded!RunInv, Guarded!ResumableIsPaused, Guarded!ResumedAfterPause,
      Guarded!ResumedPlaces, Guarded!SavingRuns, Guarded!NothingStoredEarly,
      Guarded!BeforePause, Guarded!StoringAloneIsUnflagged, Guarded!ResumedIsReviewed,
      Guarded!UnfinishedHoldsNoRows, Guarded!CompletedHoldsRows,
      Guarded!FlaggedRowsWereReviewed, Guarded!OneStatementPerFile, Guarded!Present
<1>3. \A q \in Guarded!Requests : ~Guarded!InFlight(q) /\ ~Guarded!Working(q)
  BY DEF Requests, Guarded!Requests, Guarded!Runs, Guarded!InFlight, Guarded!Working
<1>4. Guarded!StoredOnce
  <2>1. Len(<<>>) <= 1
    OBVIOUS
  <2> QED
    BY <2>1 DEF Guarded!StoredOnce
<1> QED
  BY <1>2, <1>3, <1>4
  DEF Guarded!SerialInv, Guarded!OneRequestAtATime, Guarded!NothingBeforeUpload,
      Guarded!WorkingStatus, Guarded!FailedHoldsNoRows

LEMMA SlippedGrows ==
    ASSUME ClientInv, [Next]_vars PROVE slipped \subseteq slipped'
  BY DEF Next, vars, client, Person, Navigate, Refresh, Choose, Approve, Discard, PendingStep,
     FindPending, ReadPending, PendingArrives, AnswerStep, AnswerArrives, CallFails, ListStep,
     ServeList, ListArrives, ListFails, FilteredEnds, Render, StartRequest, RunRequest

LEMMA WaitingStep ==
    ASSUME "lostAck" \notin Faults, ClientInv, WaitingInv, [Next]_vars PROVE WaitingInv'
<1> SUFFICES ASSUME slipped' = {} PROVE Guarded!SerialInv'
  BY DEF WaitingInv
<1>1. slipped = {} /\ Guarded!SerialInv
  BY SlippedGrows DEF WaitingInv
<1>2. [Guarded!Next]_(Guarded!vars)
  BY <1>1, ServerStepIsSerial DEF server, Guarded!vars
<1>3. Guarded!Serial
  BY DEF Guarded!Serial
<1> QED
  BY <1>1, <1>2, <1>3, Guarded!SerialInvStep, ServerAssumption
  DEF Server!FaultKinds, Guarded!FaultKinds

\* As long as no request slipped from its panel, a statement's transactions are stored at
\* most once; the run finding_double_submit shows what happens when one did.
THEOREM StoredOnceWhileWaiting ==
    ASSUME "lostAck" \notin Faults PROVE Spec => [](slipped = {} => StoredOnce)
<1>1. Init => WaitingInv
  BY PausedStatements DEF WaitingInv
<1>2. ClientInv /\ WaitingInv /\ [Next]_vars => WaitingInv'
  BY WaitingStep
<1>3. WaitingInv => (slipped = {} => StoredOnce)
  BY DEF WaitingInv, Guarded!SerialInv, Guarded!StoredOnce, StoredOnce, Server!StoredOnce
<1> QED
  BY <1>1, <1>2, <1>3, ClientInvariant, PTL DEF Spec

----------------------------------------------------------------------------
(* What the person approved is what is stored.                             *)

\* A review nobody stopped waiting for keeps its decisions on the server, and what it sends
\* stands, with the suggestions it leaves as they are, for the categories that were shown.
ApprovalInv ==
    /\ ClientInv
    /\ Pipeline!RunInv
    /\ \A r \in Reviews : target[r] \notin slipped => Pipeline!KeepsDecisions(r)
    /\ \A r \in Reviews : StoredCategories(r) = approved[r]

\* It is alone with its statement, since the panel waits for it.
LEMMA UnslippedIsAlone ==
    ASSUME ClientInv, NEW r \in Reviews, target[r] \notin slipped, Pipeline!InFlight(r)
    PROVE  Pipeline!IsAlone(r)
<1>1. r \in Requests /\ target[r] \in Uploads
  BY RequestKinds DEF ClientInv, TypeOK, Server!TypeOK, Requests
<1>2. ASSUME NEW q \in Requests, Pipeline!InFlight(q), target[q] = target[r]
      PROVE  call[q] = "waiting"
  BY <1>2 DEF ClientInv, TypeOK, TakenWasSent, SlippedIsKnown, Pipeline!InFlight
<1>3. ASSUME NEW p \in Pipeline!Requests, Pipeline!InFlight(p), Pipeline!Subject(p) = target[r]
      PROVE  p = r
  <2>1. p \in Requests /\ p \notin Uploads
    BY <1>3, RequestKinds
    DEF Pipeline!InFlight, ClientInv, UploadsAreOver, Pipeline!Requests, Pipeline!Runs,
        Server!Requests, Server!Runs
  <2>2. target[p] = target[r]
    BY <1>3, <2>1 DEF Pipeline!Subject
  <2> QED
    BY <1>1, <1>2, <1>3, <2>1, <2>2 DEF ClientInv, OneWaiting
<1>4. pc[target[r]] = "done"
  BY <1>1 DEF ClientInv, UploadsAreOver
<1> QED
  BY <1>3, <1>4 DEF Pipeline!IsAlone

LEMMA ApprovalInit ==
    ASSUME Init PROVE ApprovalInv
<1> USE ServerAssumption DEF Init
<1>1. ClientInv
  BY ClientInvInit
<1>2. Pipeline!TypeOK
  BY DEF Requests, Pipeline!TypeOK, Pipeline!Requests, Pipeline!Runs, Pipeline!Statuses,
     Pipeline!Checkpoints, Pipeline!Places, Pipeline!Nodes, Pipeline!Answers
<1>3. Pipeline!RunInv
  BY <1>2, RequestKinds
  DEF Requests, Pipeline!RunInv, Pipeline!ResumableIsPaused, Pipeline!ResumedAfterPause,
      Pipeline!ResumedPlaces, Pipeline!SavingRuns, Pipeline!NothingStoredEarly,
      Pipeline!BeforePause, Pipeline!StoringAloneIsUnflagged, Pipeline!ResumedIsReviewed,
      Pipeline!UnfinishedHoldsNoRows, Pipeline!CompletedHoldsRows,
      Pipeline!FlaggedRowsWereReviewed, Pipeline!OneStatementPerFile, Pipeline!Present
<1>4. ASSUME NEW r \in Reviews PROVE Pipeline!KeepsDecisions(r) /\ pc[r] = "idle"
  BY RequestKinds DEF Requests, Pipeline!KeepsDecisions
<1>5. ASSUME NEW r \in Reviews PROVE StoredCategories(r) = approved[r]
  <2>1. DOMAIN decisions[r] = {}
    OBVIOUS
  <2> QED
    BY <2>1, SuggestedAssumption DEF StoredCategories
<1> QED
  BY <1>1, <1>3, <1>4, <1>5 DEF ApprovalInv

\* The server keeps what it was sent.
LEMMA ServerKeepsApproval ==
    ASSUME ApprovalInv, NEW q \in Requests, StartRequest(q) \/ RunRequest(q)
    PROVE  ApprovalInv'
<1>1. ClientInv' /\ UNCHANGED client /\ UNCHANGED target
  BY ServerKeepsInv, ServerMoves DEF ApprovalInv, StartRequest, RunRequest, Moves
<1>2. [Pipeline!Next]_(Pipeline!vars)
  BY RunRequestSteps, StartRequestSteps
<1>3. Pipeline!RunInv'
  BY <1>2, Pipeline!RunInvStep, ServerAssumption
  DEF ApprovalInv, Server!FaultKinds, Pipeline!FaultKinds
<1>4. ASSUME NEW r \in Reviews, target[r] \notin slipped PROVE Pipeline!KeepsDecisions(r)'
  <2>1. Pipeline!InFlight(r) => Pipeline!IsAlone(r)
    BY <1>4, UnslippedIsAlone DEF ApprovalInv
  <2>2. Pipeline!KeepsDecisions(r)
    BY <1>4 DEF ApprovalInv
  <2> QED
    BY <1>2, <2>1, <2>2, Pipeline!DecisionsKept, ServerAssumption
    DEF ApprovalInv, Server!FaultKinds, Pipeline!FaultKinds
<1>5. ASSUME NEW r \in Reviews PROVE (StoredCategories(r) = approved[r])'
  BY <1>1 DEF client, ApprovalInv, StoredCategories
<1> QED
  BY <1>1, <1>3, <1>4, <1>5 DEF ApprovalInv, client

\* The client sends what the panel shows.
LEMMA ClientKeepsApproval ==
    ASSUME ApprovalInv, ClientStep PROVE ApprovalInv'
<1>1. ClientInv' /\ slipped \subseteq slipped'
  BY ClientKeepsInv, SlippedGrows DEF ApprovalInv, ClientStep, Next
<1>2. UNCHANGED server
  BY ClientLeavesServer
<1>3. Pipeline!RunInv'
  <2>1. [Pipeline!Next]_(Pipeline!vars)
    BY <1>2 DEF server, Pipeline!vars
  <2> QED
    BY <2>1, Pipeline!RunInvStep, ServerAssumption
    DEF ApprovalInv, Server!FaultKinds, Pipeline!FaultKinds
<1>4. ASSUME NEW r \in Reviews, target'[r] \notin slipped' PROVE Pipeline!KeepsDecisions(r)'
  BY <1>1, <1>2, <1>4 DEF server, ApprovalInv, Pipeline!KeepsDecisions, Pipeline!AwaitsReview
<1>5. ASSUME NEW r \in Reviews PROVE (StoredCategories(r) = approved[r])'
  <2>1. ASSUME NEW q \in Reviews, Approve(q) PROVE (StoredCategories(r) = approved[r])'
    <3>1. target[q] \in Uploads
      BY RequestKinds DEF ApprovalInv, ClientInv, TypeOK, Server!TypeOK
    <3>2. panel[target[q]].choices \in [Items -> Categories]
      BY <3>1 DEF ApprovalInv, ClientInv, TypeOK, Panels
    <3>3. CASE r = q
      <4>1. decisions'[r] = DecisionsFor(panel[target[q]].choices)
            /\ approved'[r] = panel[target[q]].choices
        BY <2>1, <3>3 DEF Approve, ApprovalInv, ClientInv, TypeOK
      <4>2. DOMAIN decisions'[r] = {j \in Items : approved'[r][j] # Suggested[j]}
            /\ \A j \in DOMAIN decisions'[r] : decisions'[r][j] = approved'[r][j]
        BY <4>1 DEF DecisionsFor
      <4>3. \A j \in Items : (IF j \in DOMAIN decisions'[r] THEN decisions'[r][j]
                              ELSE Suggested[j]) = approved'[r][j]
        BY <4>2
      <4> QED
        BY <3>2, <4>1, <4>3 DEF StoredCategories
    <3>4. CASE r # q
      BY <2>1, <3>4 DEF Approve, ApprovalInv, StoredCategories
    <3> QED
      BY <3>3, <3>4
  <2>2. ASSUME ~\E q \in Reviews : Approve(q) PROVE UNCHANGED <<decisions, approved>>
    BY <2>2 DEF ClientStep, Person, Navigate, Refresh, Choose, Discard, PendingStep,
       FindPending, ReadPending, PendingArrives, AnswerStep, AnswerArrives, CallFails,
       ListStep, ServeList, ListArrives, ListFails, FilteredEnds, Render
  <2> QED
    BY <2>1, <2>2 DEF ApprovalInv, StoredCategories
<1> QED
  BY <1>1, <1>3, <1>4, <1>5 DEF ApprovalInv

\* A person who is told COMPLETED finds in the table the categories that were on the screen
\* when they approved, although only the corrected rows were sent; whatever commits fail or
\* lose their acknowledgement, unless a request about the statement slipped.
THEOREM ApprovedStored == Spec => ApprovedIsStored
<1>1. Init => ApprovalInv
  BY ApprovalInit
<1>2. ApprovalInv /\ [Next]_vars => ApprovalInv'
  <2>1. ASSUME ApprovalInv, UNCHANGED vars PROVE ApprovalInv'
    <3>1. ClientInv'
      BY <2>1, ClientInvStep DEF ApprovalInv
    <3>2. [Pipeline!Next]_(Pipeline!vars)
      BY <2>1 DEF vars, server, Pipeline!vars
    <3>3. Pipeline!RunInv'
      BY <2>1, <3>2, Pipeline!RunInvStep, ServerAssumption
      DEF ApprovalInv, Server!FaultKinds, Pipeline!FaultKinds
    <3> QED
      BY <2>1, <3>1, <3>3
      DEF vars, server, client, ApprovalInv, Pipeline!KeepsDecisions, Pipeline!AwaitsReview,
          StoredCategories
  <2> QED
    BY <2>1, ServerKeepsApproval, ClientKeepsApproval DEF Next, ClientStep
<1>3. ApprovalInv /\ [Next]_vars =>
        [\A r \in Reviews :
           /\ answer[r] = "none" /\ answer'[r] = "COMPLETED"
           /\ target[r] \notin slipped
           => \E i \in DOMAIN batches[target[r]] :
                  StoredCategories(batches[target[r]][i]) = approved[r]]_vars
  <2> SUFFICES ASSUME ApprovalInv, [Next]_vars, NEW r \in Reviews,
                      answer[r] = "none", answer'[r] = "COMPLETED", target[r] \notin slipped
               PROVE  \E i \in DOMAIN batches[target[r]] :
                          StoredCategories(batches[target[r]][i]) = approved[r]
    OBVIOUS
  <2>1. [Pipeline!Next]_(Pipeline!vars)
    BY ClientLeavesServer, RunRequestSteps, StartRequestSteps
    DEF Next, ClientStep, vars, server, Pipeline!vars
  <2>2. Pipeline!TypeOK /\ Pipeline!KeepsDecisions(r) /\ StoredCategories(r) = approved[r]
    BY DEF ApprovalInv, Pipeline!RunInv
  <2>3. \E i \in DOMAIN batches[target[r]] : batches[target[r]][i] = r
    BY <2>1, <2>2, Pipeline!AnsweredIsStored, ServerAssumption
    DEF Server!FaultKinds, Pipeline!FaultKinds
  <2> QED
    BY <2>2, <2>3
<1> QED
  BY <1>1, <1>2, <1>3, PTL DEF Spec, ApprovedIsStored

----------------------------------------------------------------------------
(* A statement that awaits review is within the person's reach.            *)

Awaits(u) == Server!AwaitsReview(u)

\* Nobody waits for its review: it awaits none, or its thread does not wait any more.
IsSettled(u) == ~Awaits(u) \/ checkpoint[u].at # "review"

\* A review that was run to its end has saved where it ended, or will; when a request has been
\* answered with success, nobody waits for a review of its statement.
EndedIsSettled ==
    /\ \A r \in Reviews : pc[r] = "respond" => r \in dirty \/ IsSettled(target[r])
    /\ \A q \in Requests : Resolved(answer[q]) => IsSettled(target[q])

\* A panel puts its review away for a statement whose review nobody waits for.
AwayIsSettled ==
    \A u \in Uploads : panel[u].phase = "ready" /\ ~panel[u].review => IsSettled(u)

\* A list that was read, and the one on the page once its first has arrived, may be old, but
\* lack no statement that awaits review; a list that failed is missed.
ListsLackNone ==
    /\ \A l \in Loads : reload[l].at = "served" =>
          \A u \in Uploads : Awaits(u) => u \in reload[l].seen
    /\ reload["page"].at # "none" \/ \A u \in Uploads : Awaits(u) => u \in listed
    /\ reload["page"].at = "failed" => missed

ReachInv ==
    /\ ClientInv
    /\ EndedIsSettled
    /\ AwayIsSettled
    /\ ListsLackNone

LEMMA ReachInvInit ==
    ASSUME Init PROVE ReachInv
<1>1. ASSUME NEW q \in Requests PROVE ~Resolved(answer[q])
  BY RequestKinds DEF Init, Resolved, Server!Statuses
<1> QED
  BY <1>1, ClientInvInit, RequestKinds
  DEF Init, ReachInv, EndedIsSettled, AwayIsSettled, ListsLackNone, NoLoad, Loads, Unmounted

\* What a step has to show to keep it so.
LEMMA SettledStays ==
    ASSUME EndedIsSettled, target' = target,
           \A u \in Uploads : IsSettled(u) => IsSettled(u)',
           \A q \in Requests : target[q] \in Uploads,
           \A r \in Reviews : pc'[r] = "respond" =>
               (pc[r] = "respond" /\ (r \in dirty => r \in dirty'))
               \/ r \in dirty' \/ IsSettled(target[r])',
           \A q \in Requests : Resolved(answer'[q]) =>
               Resolved(answer[q]) \/ IsSettled(target[q])'
    PROVE  EndedIsSettled'
<1>1. \A q \in Requests : Resolved(answer[q])' <=> Resolved(answer'[q])
  BY DEF Resolved, Server!Statuses
<1> QED
  BY <1>1, RequestKinds DEF EndedIsSettled, IsSettled, Awaits, Server!AwaitsReview

\* What the server does ends a wait or leaves it as it is.
LEMMA AwaitingEnds ==
    ASSUME ReachInv, NEW q \in Requests, StartRequest(q) \/ RunRequest(q)
    PROVE  /\ \A u \in Uploads : Awaits(u)' => Awaits(u)
           /\ \A u \in Uploads : IsSettled(u) => IsSettled(u)'
           /\ EndedIsSettled'
<1> DEFINE Goal == /\ \A u \in Uploads : Awaits(u)' => Awaits(u)
                   /\ \A u \in Uploads : IsSettled(u) => IsSettled(u)'
                   /\ EndedIsSettled'
           Stays == /\ target' = target
                    /\ \A u \in Uploads : Awaits(u)' => Awaits(u)
                    /\ \A u \in Uploads : checkpoint[u].at # "review" =>
                                              checkpoint'[u].at # "review"
           Ends == \A r \in Reviews : pc'[r] = "respond" =>
                       (pc[r] = "respond" /\ (r \in dirty => r \in dirty'))
                       \/ r \in dirty' \/ IsSettled(target[r])'
           Answers == \A p \in Requests : Resolved(answer'[p]) =>
                          Resolved(answer[p]) \/ IsSettled(target[p])'
<1>1. /\ status \in [Uploads -> Server!Statuses \cup {"ABSENT"}]
      /\ checkpoint \in [Uploads -> Server!Checkpoints]
      /\ target \in [Requests -> Uploads]
      /\ pc \in [Server!Requests -> Server!Places]
      /\ answer \in [Server!Requests -> Server!Answers]
      /\ EndedIsSettled
  BY DEF ReachInv, ClientInv, TypeOK, Server!TypeOK, Requests
<1>2. /\ ~Resolved("none") /\ ~Resolved("NotFound") /\ ~Resolved("NotAwaitingReview")
      /\ ~Resolved("ReviewUnavailable") /\ ~Resolved("Error")
  BY DEF Resolved, Server!Statuses
<1>3. Stays /\ Ends /\ Answers => Goal
  BY <1>1, SettledStays DEF IsSettled, Awaits, Server!AwaitsReview
<1> USE <1>1, <1>2, RequestKinds, ServerAssumption
    DEF IsSettled, Awaits, Server!AwaitsReview, Server!Goto, Server!Finish, Server!Subject
<1>4. ASSUME StartRequest(q) PROVE Goal
  <2>1. Stays
    BY <1>4 DEF StartRequest, Server!RequireAwaitingReview, Server!FindForDiscard
  <2>2. Ends
    BY <1>4 DEF StartRequest, Server!RequireAwaitingReview, Server!FindForDiscard
  <2>3. Answers
    BY <1>4 DEF StartRequest, Server!RequireAwaitingReview, Server!FindForDiscard
  <2> HIDE DEF Goal, Stays, Ends, Answers
  <2> QED
    BY <1>3, <2>1, <2>2, <2>3
<1>5. ASSUME q \in Reviews, Server!ReadPayload(q) PROVE Goal
  <2>1. Stays
    BY <1>5 DEF Server!ReadPayload
  <2>2. Ends
    BY <1>5 DEF Server!ReadPayload
  <2>3. Answers
    BY <1>5 DEF Server!ReadPayload
  <2> HIDE DEF Goal, Stays, Ends, Answers
  <2> QED
    BY <1>3, <2>1, <2>2, <2>3
<1>6. ASSUME q \in Reviews, Server!ResumeRun(q) PROVE Goal
  <2>1. Stays
    BY <1>6 DEF Server!ResumeRun
  <2>2. Ends
    BY <1>6 DEF Server!ResumeRun
  <2>3. Answers
    BY <1>6 DEF Server!ResumeRun
  <2> HIDE DEF Goal, Stays, Ends, Answers
  <2> QED
    BY <1>3, <2>1, <2>2, <2>3
<1>7. ASSUME q \in Reviews, Server!StoreTransactions(q) PROVE Goal
  <2>1. Stays
    BY <1>7 DEF Server!StoreTransactions, Server!StatusAfter, Server!AfterStore
  <2>2. Ends
    BY <1>7 DEF Server!StoreTransactions, Server!StatusAfter, Server!AfterStore
  <2>3. Answers
    BY <1>7 DEF Server!StoreTransactions, Server!StatusAfter, Server!AfterStore
  <2> HIDE DEF Goal, Stays, Ends, Answers
  <2> QED
    BY <1>3, <2>1, <2>2, <2>3
<1>8. ASSUME q \in Reviews, Server!HandleStoreError(q) PROVE Goal
  <2>1. Stays
    BY <1>8 DEF Server!HandleStoreError, Server!StatusAfter, Server!AfterErrorHandler, Server!Present
  <2>2. Ends
    BY <1>8 DEF Server!HandleStoreError, Server!StatusAfter, Server!AfterErrorHandler, Server!Present
  <2>3. Answers
    BY <1>8 DEF Server!HandleStoreError, Server!StatusAfter, Server!AfterErrorHandler, Server!Present
  <2> HIDE DEF Goal, Stays, Ends, Answers
  <2> QED
    BY <1>3, <2>1, <2>2, <2>3
<1>9. ASSUME q \in Reviews, Server!SaveCheckpoint(q) PROVE Goal
  <2>1. Stays
    BY <1>9 DEF Server!SaveCheckpoint
  <2>2. Ends
    BY <1>9 DEF Server!SaveCheckpoint
  <2>3. Answers
    BY <1>9 DEF Server!SaveCheckpoint
  <2> HIDE DEF Goal, Stays, Ends, Answers
  <2> QED
    BY <1>3, <2>1, <2>2, <2>3
<1>10. ASSUME q \in Reviews, Server!Respond(q) PROVE Goal
  <2>1. Stays
    BY <1>10 DEF Server!Respond, EndedIsSettled
  <2>2. Ends
    BY <1>10 DEF Server!Respond, EndedIsSettled
  <2>3. Answers
    BY <1>10 DEF Server!Respond, EndedIsSettled
  <2> HIDE DEF Goal, Stays, Ends, Answers
  <2> QED
    BY <1>3, <2>1, <2>2, <2>3
<1>11. ASSUME q \in Discards, Server!DeleteThread(q) PROVE Goal
  <2>1. Stays
    BY <1>11 DEF Server!DeleteThread
  <2>2. Ends
    BY <1>11 DEF Server!DeleteThread
  <2>3. Answers
    BY <1>11 DEF Server!DeleteThread
  <2> HIDE DEF Goal, Stays, Ends, Answers
  <2> QED
    BY <1>3, <2>1, <2>2, <2>3
<1>12. ASSUME q \in Discards, Server!DeleteRow(q) PROVE Goal
  <2>1. Stays
    BY <1>12 DEF Server!DeleteRow, Server!StatusAfter
  <2>2. Ends
    BY <1>12 DEF Server!DeleteRow, Server!StatusAfter
  <2>3. Answers
    BY <1>12 DEF Server!DeleteRow, Server!StatusAfter
  <2> HIDE DEF Goal, Stays, Ends, Answers
  <2> QED
    BY <1>3, <2>1, <2>2, <2>3
<1> HIDE DEF Goal
<1> QED
  BY <1>4, <1>5, <1>6, <1>7, <1>8, <1>9, <1>10, <1>11, <1>12
  DEF RunRequest, Server!ReviewStep, Server!RunStep, Server!DiscardStep, Goal

LEMMA ServerKeepsReach ==
    ASSUME ReachInv, NEW q \in Requests, StartRequest(q) \/ RunRequest(q)
    PROVE  ReachInv'
<1>1. ClientInv'
  BY ServerKeepsInv DEF ReachInv
<1>2. UNCHANGED client
  BY DEF StartRequest, RunRequest
<1>3. /\ EndedIsSettled' /\ \A u \in Uploads : Awaits(u)' => Awaits(u)
      /\ \A u \in Uploads : IsSettled(u) => IsSettled(u)'
  BY AwaitingEnds
<1>4. AwayIsSettled'
  BY <1>2, <1>3 DEF client, ReachInv, AwayIsSettled
<1>5. ListsLackNone'
  BY <1>2, <1>3 DEF client, ReachInv, ListsLackNone
<1> QED
  BY <1>1, <1>3, <1>4, <1>5 DEF ReachInv

\* Rendering leaves a panel blank only if it was.
LEMMA RenderedPanels ==
    ASSUME NEW shown, NEW u \in Uploads, Rendered(shown)[u].phase = "ready"
    PROVE  Rendered(shown)[u] = panel[u]
<1>1. Unmounted.phase = "unmounted"
      /\ [Unmounted EXCEPT !.phase = "loading"].phase = "loading"
  BY DEF Unmounted
<1> QED
  BY <1>1 DEF Rendered

\* Whatever the client does, a list it has read or shows lacks no statement that awaits review.
LEMMA ClientKeepsLists ==
    ASSUME ClientInv, ListsLackNone, ClientStep PROVE ListsLackNone'
<1>1. \A u \in Uploads : Awaits(u)' <=> Awaits(u)
  BY ClientLeavesServer DEF server, Awaits, Server!AwaitsReview
<1>2. reload \in [Loads -> ListLoads]
  BY DEF ClientInv, TypeOK
<1> USE <1>1, <1>2 DEF ListsLackNone
<1>3. CASE UNCHANGED <<listed, reload>> /\ (missed => missed')
  BY <1>3
<1>4. CASE Refresh
  BY <1>4 DEF Refresh, NoLoad, Loads
<1>5. ASSUME NEW q \in Requests, AnswerArrives(q) PROVE ListsLackNone'
  <2>1. reload' = reload \/ reload' = [reload EXCEPT ![q].at = "asked"]
    BY <1>5 DEF AnswerArrives
  <2>2. q \in Loads /\ q # "page" /\ "page" \in Loads
    BY LoadsAssumption DEF Loads
  <2>3. reload'["page"] = reload["page"]
    BY <2>1, <2>2
  <2>4. UNCHANGED <<listed, missed>>
    BY <1>5 DEF AnswerArrives
  <2>5. \A l \in Loads : reload'[l].at = "served" => reload'[l] = reload[l]
    BY <2>1, <2>2 DEF ListLoads
  <2> QED
    BY <2>3, <2>4, <2>5
<1>6. ASSUME NEW l \in Loads, ServeList(l) PROVE ListsLackNone'
  BY <1>6 DEF ServeList, Awaits, ListLoads, Loads
<1>7. ASSUME NEW l \in Loads, ListArrives(l) PROVE ListsLackNone'
  BY <1>7 DEF ListArrives, NoLoad, ListLoads, Loads
<1>8. ASSUME NEW l \in Loads, ListFails(l) PROVE ListsLackNone'
  BY <1>8 DEF ListFails, NoLoad, ListLoads, Loads
<1> QED
  BY <1>3, <1>4, <1>5, <1>6, <1>7, <1>8
  DEF ClientStep, Person, Navigate, Choose, Approve, Discard, PendingStep, FindPending,
      ReadPending, PendingArrives, AnswerStep, CallFails, ListStep, FilteredEnds, Render

LEMMA ClientKeepsReach ==
    ASSUME ReachInv, ClientStep PROVE ReachInv'
<1>1. ClientInv' /\ UNCHANGED server
  BY ClientKeepsInv, ClientLeavesServer DEF ReachInv
<1>2. /\ EndedIsSettled'
      /\ \A u \in Uploads : IsSettled(u)' <=> IsSettled(u)
  BY <1>1 DEF ReachInv, EndedIsSettled, server, IsSettled, Awaits, Server!AwaitsReview
<1>3. ListsLackNone'
  BY ClientKeepsLists DEF ReachInv
<1>4. panel \in [Uploads -> Panels] /\ target \in [Requests -> Uploads]
  BY DEF ReachInv, ClientInv, TypeOK, Server!TypeOK, Requests
<1> USE <1>2, <1>4 DEF ReachInv
<1>5. ASSUME \A u \in Uploads : panel'[u].phase = "ready" /\ ~panel'[u].review =>
                 (panel[u].phase = "ready" /\ ~panel[u].review) \/ IsSettled(u)
      PROVE  AwayIsSettled'
  BY <1>5 DEF AwayIsSettled
<1>6. ASSUME NEW shown, panel' = Rendered(shown) PROVE AwayIsSettled'
  BY <1>5, <1>6, RenderedPanels
<1>7. ASSUME Navigate \/ Refresh \/ Render PROVE AwayIsSettled'
  BY <1>6, <1>7 DEF Navigate, Refresh, Render
<1>8. ASSUME NEW u \in Uploads, NEW i \in Items, NEW c \in Categories, Choose(u, i, c)
      PROVE  AwayIsSettled'
  <2>1. \A v \in Uploads : panel'[v].phase = panel[v].phase /\ panel'[v].review = panel[v].review
    BY <1>8 DEF Choose, Panels
  <2> QED
    BY <1>5, <2>1
<1>9. ASSUME NEW u \in Uploads, PendingStep(u) PROVE AwayIsSettled'
  <2>1. ASSUME FindPending(u) \/ ReadPending(u)
        PROVE  \A v \in Uploads : panel'[v].phase = panel[v].phase
                                  /\ panel'[v].review = panel[v].review
    <3>1. \E got : panel' = [panel EXCEPT ![u].got = got]
      BY <2>1 DEF FindPending, ReadPending
    <3> QED
      BY <3>1 DEF Panels
  <2>2. ASSUME PendingArrives(u), NEW v \in Uploads, v # u PROVE panel'[v] = panel[v]
    BY <2>2 DEF PendingArrives
  <2>3. ASSUME PendingArrives(u)
        PROVE  panel'[u].phase = "error" \/ panel'[u].review
    BY <2>3 DEF PendingArrives, Unmounted
  <2> QED
    BY <1>5, <1>9, <2>1, <2>2, <2>3 DEF PendingStep
<1>10. ASSUME NEW q \in Requests, AnswerArrives(q) PROVE AwayIsSettled'
  <2>1. \/ panel' = panel
        \/ /\ panel' = [panel EXCEPT ![target[q]].review = FALSE]
           /\ IsSettled(target[q])
    BY <1>10 DEF AnswerArrives, EndedIsSettled
  <2> QED
    BY <1>5, <2>1 DEF Panels
<1>11. ASSUME UNCHANGED panel PROVE AwayIsSettled'
  BY <1>5, <1>11
<1>12. AwayIsSettled'
  BY <1>7, <1>8, <1>9, <1>10, <1>11
  DEF ClientStep, Person, Approve, Discard, AnswerStep, CallFails, ListStep, ServeList,
      ListArrives, ListFails, FilteredEnds
<1> QED
  BY <1>1, <1>2, <1>3, <1>12

\* What an open view shows of a page that is ready has every statement that awaits review,
\* once the page's first list has arrived, and its panel loads, works or offers a button;
\* unless neither its rows nor its failure could be recorded.
THEOREM AwaitingStaysReachable == Spec => []AwaitingIsReachable
<1>1. Init => ReachInv
  BY ReachInvInit
<1>2. ReachInv /\ [Next]_vars => ReachInv'
  <2>1. ASSUME ReachInv, UNCHANGED vars PROVE ReachInv'
    BY <2>1
    DEF vars, server, client, ReachInv, ClientInv, TypeOK, Server!TypeOK, TakenWasSent,
        SlippedIsKnown, OneWaiting, UploadsAreOver, EndedIsSettled, AwayIsSettled,
        ListsLackNone, IsSettled, Awaits, Server!AwaitsReview
  <2> QED
    BY <2>1, ServerKeepsReach, ClientKeepsReach DEF Next, ClientStep
<1>3. ReachInv => AwaitingIsReachable
  BY DEF ReachInv, ClientInv, TypeOK, Panels, AwayIsSettled, ListsLackNone, IsSettled,
     AwaitingIsReachable, IsRendered, Shown, IsBlank, IsStranded, Awaits, ShowsReview, ShowsError
<1> QED
  BY <1>1, <1>2, <1>3, PTL DEF Spec

----------------------------------------------------------------------------
(* The page hears of every statement that no longer awaits review.         *)

\* The request has ended the wait of its statement, and its answer is or will be a success.
EndsWait(q) ==
    \/ pc[q] = "done" /\ Resolved(answer[q])
    \/ q \in Reviews /\ pc[q] = "respond" /\ Server!Present(target[q])

\* An answer is on its way that makes the page load the list again, ...
AnswerComes(u) ==
    \E q \in Requests : target[q] = u /\ call[q] \in {"waiting", "orphaned"} /\ EndsWait(q)

\* ... or the list is, and does not have the statement.
ListComes(u) ==
    \E l \in Loads : \/ reload[l].at = "asked"
                     \/ reload[l].at = "served" /\ u \notin reload[l].seen

\* The page has the statement, or has not yet seen that it does not.
IsListed(u) == u \in listed \/ \E l \in Loads : reload[l].at = "served" /\ u \in reload[l].seen

\* What a page that missed nothing relies on: a call it has put away is done, ...
OverIsDone == ~missed => \A q \in Requests : call[q] = "over" => pc[q] = "done"

\* ... the loads of a page that never overlapped them follow each other, ...
OneLoadAtATime ==
    ~overlapped => \A l, m \in Loads : ListUnderWay(l) /\ ListUnderWay(m) => l = m

\* ... and news of what it lists in vain is under way.
NewsComes ==
    ~missed /\ ~overlapped =>
        \A u \in Uploads : ~Awaits(u) /\ IsListed(u) => AnswerComes(u) \/ ListComes(u)

NewsInv ==
    /\ ClientInv
    /\ ListsLackNone
    /\ OverIsDone
    /\ OneLoadAtATime
    /\ NewsComes

\* A step of the server ends the wait of the statement its request is about and of no other,
\* and then the request tells of it; a discard that overtakes a review tells in its place.
TellsOfIt(q) ==
    /\ \A u \in Uploads : Awaits(u)' => Awaits(u)
    /\ \A u \in Uploads :
         Awaits(u) /\ ~Awaits(u)' =>
             target[q] = u /\ pc[q] \notin {"idle", "done"} /\ EndsWait(q)'
    /\ \A p \in Requests :
         EndsWait(p) =>
             \/ EndsWait(p)'
             \/ target[p] = target[q] /\ pc[q] \notin {"idle", "done"} /\ EndsWait(q)'

LEMMA ServerTells ==
    ASSUME "lostAck" \notin Faults, ClientInv, NEW q \in Requests,
           StartRequest(q) \/ RunRequest(q)
    PROVE  TellsOfIt(q)
<1>1. /\ status \in [Uploads -> Server!Statuses \cup {"ABSENT"}]
      /\ target \in [Requests -> Uploads]
      /\ pc \in [Server!Requests -> Server!Places]
      /\ answer \in [Server!Requests -> Server!Answers]
      /\ \A p \in Requests : answer[p] # "none" => pc[p] = "done"
  BY DEF ClientInv, TypeOK, Server!TypeOK, Requests, TakenWasSent
<1>2. /\ \A s \in Server!Statuses : Resolved(s)
      /\ Resolved("Deleted") /\ ~Resolved("none")
      /\ "COMPLETED" \in Server!Statuses /\ "FAILED" \in Server!Statuses
      /\ "ABSENT" \notin Server!Statuses
  BY DEF Resolved, Server!Statuses
<1>3. \A outcome \in Server!Outcomes : outcome \in {"committed", "rolledBack"}
  BY DEF Server!Outcomes
<1>4. target' = target /\ \A p \in Requests : p # q => pc'[p] = pc[p] /\ answer'[p] = answer[p]
  BY ServerMoves, RequestKinds DEF Moves
<1> USE <1>1, <1>2, <1>3, <1>4, RequestKinds
    DEF TellsOfIt, EndsWait, Awaits, Server!AwaitsReview, Server!Present, Server!Goto,
        Server!Finish, Server!Subject
<1>5. ASSUME UNCHANGED status, pc[q] # "done",
             pc[q] = "respond" => q \in Reviews /\ (pc'[q] = "respond" \/ EndsWait(q)'
                                                    \/ ~Server!Present(target[q]))
      PROVE  TellsOfIt(q)
  BY <1>5
<1>6. CASE StartRequest(q)
  BY <1>5, <1>6
  DEF StartRequest, Server!RequireAwaitingReview, Server!FindForDiscard, Server!MayStart
<1>7. CASE q \in Reviews /\ (Server!ReadPayload(q) \/ Server!ResumeRun(q))
  BY <1>5, <1>7 DEF Server!ReadPayload, Server!ResumeRun
<1>8. CASE q \in Reviews /\ Server!StoreTransactions(q)
  <2>1. \/ UNCHANGED status /\ pc[q] = "store_transactions"
        \/ /\ status' = [status EXCEPT ![target[q]] = "COMPLETED"]
           /\ pc[q] = "store_transactions" /\ pc'[q] = "respond"
    BY <1>8 DEF Server!StoreTransactions, Server!StatusAfter, Server!AfterStore
  <2> QED
    BY <1>5, <1>8, <2>1
<1>9. CASE q \in Reviews /\ Server!HandleStoreError(q)
  <2>1. \/ UNCHANGED status /\ pc[q] = "error_handler"
        \/ /\ status' = [status EXCEPT ![target[q]] = "FAILED"]
           /\ pc[q] = "error_handler" /\ pc'[q] = "respond"
    BY <1>9 DEF Server!HandleStoreError, Server!StatusAfter, Server!AfterErrorHandler
  <2> QED
    BY <1>5, <1>9, <2>1
<1>10. CASE q \in Reviews /\ Server!SaveCheckpoint(q)
  BY <1>10 DEF Server!SaveCheckpoint
<1>11. CASE q \in Reviews /\ Server!Respond(q)
  <2>1. /\ UNCHANGED status /\ pc[q] = "respond" /\ pc'[q] = "done"
        /\ Server!Present(target[q]) => answer'[q] = status[target[q]]
    BY <1>11 DEF Server!Respond
  <2>2. Server!Present(target[q]) => EndsWait(q)'
    BY <2>1
  <2> QED
    BY <1>5, <1>11, <2>1, <2>2
<1>12. CASE q \in Discards /\ Server!DeleteThread(q)
  BY <1>5, <1>12 DEF Server!DeleteThread
<1>13. CASE q \in Discards /\ Server!DeleteRow(q)
  <2>1. \/ UNCHANGED status /\ pc[q] = "delete_row"
        \/ /\ status' = [status EXCEPT ![target[q]] = "ABSENT"]
           /\ pc[q] = "delete_row" /\ pc'[q] = "done" /\ answer'[q] = "Deleted"
    BY <1>13 DEF Server!DeleteRow, Server!StatusAfter
  <2> QED
    BY <1>5, <1>13, <2>1
<1> QED
  BY <1>6, <1>7, <1>8, <1>9, <1>10, <1>11, <1>12, <1>13
  DEF RunRequest, Server!ReviewStep, Server!RunStep, Server!DiscardStep

LEMMA ServerKeepsNews ==
    ASSUME "lostAck" \notin Faults, NewsInv, NEW q \in Requests,
           StartRequest(q) \/ RunRequest(q)
    PROVE  NewsInv'
<1>1. ClientInv' /\ Moves(q) /\ TellsOfIt(q)
  BY ServerKeepsInv, ServerMoves, ServerTells DEF NewsInv
<1>2. UNCHANGED <<client, target>>
  BY <1>1 DEF Moves
<1>3. ListsLackNone' /\ OneLoadAtATime'
  BY <1>1, <1>2 DEF client, NewsInv, TellsOfIt, ListsLackNone, OneLoadAtATime, ListUnderWay
<1>4. OverIsDone'
  BY <1>1, <1>2, RequestKinds DEF client, NewsInv, Moves, OverIsDone
<1>5. NewsComes'
  <2> SUFFICES ASSUME ~missed, ~overlapped, NEW u \in Uploads, ~Awaits(u)', IsListed(u)
               PROVE  AnswerComes(u)' \/ ListComes(u)
    BY <1>2 DEF client, NewsComes, IsListed, ListComes
  <2>1. ASSUME pc[q] \notin {"idle", "done"} PROVE call[q] \in {"waiting", "orphaned"}
    BY <2>1 DEF NewsInv, ClientInv, TypeOK, TakenWasSent, OverIsDone
  <2>2. CASE Awaits(u)
    BY <1>1, <1>2, <2>1, <2>2 DEF client, TellsOfIt, AnswerComes
  <2>3. ASSUME AnswerComes(u) PROVE AnswerComes(u)'
    BY <1>1, <1>2, <2>1, <2>3 DEF client, TellsOfIt, AnswerComes
  <2> QED
    BY <2>2, <2>3 DEF NewsInv, NewsComes
<1> QED
  BY <1>1, <1>3, <1>4, <1>5 DEF NewsInv

LEMMA ClientKeepsNews ==
    ASSUME NewsInv, ClientStep PROVE NewsInv'
<1>1. ClientInv' /\ ListsLackNone' /\ UNCHANGED server
  BY ClientKeepsInv, ClientKeepsLists, ClientLeavesServer DEF NewsInv
<1>2. /\ \A u \in Uploads : Awaits(u)' <=> Awaits(u)
      /\ \A q \in Requests : EndsWait(q)' <=> EndsWait(q)
      /\ UNCHANGED <<target, pc, answer>>
  BY <1>1 DEF server, Awaits, EndsWait, Server!AwaitsReview, Server!Present
<1>3. /\ call \in [Requests -> {"unsent", "waiting", "orphaned", "over"}]
      /\ reload \in [Loads -> ListLoads]
      /\ \A q \in Requests : answer[q] # "none" => pc[q] = "done"
      /\ listed \subseteq Uploads /\ target \in [Requests -> Uploads]
  BY DEF NewsInv, ClientInv, TypeOK, TakenWasSent, Server!TypeOK, Requests
<1> DEFINE Kept == OverIsDone' /\ OneLoadAtATime' /\ NewsComes'
<1> USE <1>2, <1>3 DEF NewsInv
<1>4. ASSUME UNCHANGED <<listed, reload, missed, overlapped>>,
             \A q \in Requests :
                 \/ call'[q] = call[q]
                 \/ call[q] = "waiting" /\ call'[q] = "orphaned"
                 \/ call[q] = "unsent" /\ call'[q] = "waiting"
      PROVE  Kept
  <2>1. \A u : /\ IsListed(u)' <=> IsListed(u)
               /\ ListComes(u)' <=> ListComes(u)
               /\ AnswerComes(u) => AnswerComes(u)'
    BY <1>4 DEF IsListed, AnswerComes, ListComes
  <2>2. OverIsDone' /\ OneLoadAtATime'
    BY <1>4 DEF OverIsDone, OneLoadAtATime, ListUnderWay
  <2>3. NewsComes'
    BY <1>4, <2>1 DEF NewsComes
  <2> QED
    BY <2>2, <2>3
<1>5. ASSUME Navigate PROVE Kept
  BY <1>4, <1>5 DEF Navigate, CallsAfter
<1>6. ASSUME Refresh PROVE Kept
  <2>1. /\ reload' = [l \in Loads |-> IF l = "page" THEN [NoLoad EXCEPT !.at = "asked"] ELSE NoLoad]
        /\ listed' = {}
        /\ missed' = (missed \/ \E q \in Requests : call[q] \in {"waiting", "orphaned"})
        /\ call' = [q \in Requests |-> IF call[q] = "unsent" THEN "unsent" ELSE "over"]
    BY <1>6 DEF Refresh
  <2>2. OverIsDone'
    BY <2>1 DEF OverIsDone
  <2>3. \A l \in Loads : reload'[l].at # "none" => l = "page" /\ reload'[l].at = "asked"
    BY <2>1 DEF NoLoad
  <2> QED
    BY <2>1, <2>2, <2>3 DEF OneLoadAtATime, ListUnderWay, NewsComes, IsListed
<1>7. ASSUME Person, ~Navigate, ~Refresh PROVE Kept
  <2>1. UNCHANGED <<listed, reload, missed, overlapped>>
    BY <1>7 DEF Person, Choose, Approve, Discard
  <2>2. \A q \in Requests : call'[q] = call[q] \/ (call[q] = "unsent" /\ call'[q] = "waiting")
    <3>1. \/ UNCHANGED call
          \/ \E p \in Requests : call[p] = "unsent" /\ call' = [call EXCEPT ![p] = "waiting"]
      BY <1>7, RequestKinds DEF Person, Choose, Approve, Discard
    <3> QED
      BY <3>1
  <2> QED
    BY <1>4, <2>1, <2>2
<1>8. ASSUME NEW u \in Uploads, PendingStep(u) PROVE Kept
  BY <1>4, <1>8 DEF PendingStep, FindPending, ReadPending, PendingArrives
<1>9. ASSUME NEW q \in Requests, AnswerArrives(q) PROVE Kept
  <2>1. /\ call[q] \in {"waiting", "orphaned"} /\ answer[q] # "none" /\ pc[q] = "done"
        /\ call' = [call EXCEPT ![q] = "over"]
        /\ UNCHANGED <<listed, missed>>
    BY <1>9 DEF AnswerArrives
  <2>2. OverIsDone'
    BY <2>1 DEF OverIsDone
  <2>3. CASE Resolved(answer[q])
    <3>1. /\ reload' = [reload EXCEPT ![q].at = "asked"]
          /\ overlapped' = (overlapped \/ \E l \in Loads : ListUnderWay(l))
      BY <1>9, <2>3 DEF AnswerArrives, Reloads
    <3>2. q \in Loads /\ reload'[q].at = "asked" /\ \A l \in Loads : l # q => reload'[l] = reload[l]
      BY <3>1 DEF Loads
    <3>3. OneLoadAtATime' /\ NewsComes'
      BY <2>1, <3>1, <3>2 DEF OneLoadAtATime, ListUnderWay, NewsComes, ListComes
    <3> QED
      BY <2>2, <3>3
  <2>4. CASE ~Resolved(answer[q])
    <3>1. UNCHANGED <<reload, overlapped>> /\ ~EndsWait(q)
      BY <1>9, <2>1, <2>4 DEF AnswerArrives, EndsWait
    <3>2. OneLoadAtATime' /\ NewsComes'
      BY <2>1, <3>1 DEF OneLoadAtATime, ListUnderWay, NewsComes, IsListed, AnswerComes, ListComes
    <3> QED
      BY <2>2, <3>2
  <2> QED
    BY <2>3, <2>4
<1>10. ASSUME NEW q \in Requests, CallFails(q) PROVE Kept
  BY <1>10 DEF CallFails, OverIsDone, OneLoadAtATime, ListUnderWay, NewsComes
<1>11. ASSUME NEW l \in Loads, ServeList(l) PROVE Kept
  <2>1. /\ reload[l].at = "asked"
        /\ \A m \in Loads : m # l => reload'[m] = reload[m]
        /\ reload'[l].at = "served" /\ reload'[l].seen = {u \in Uploads : Awaits(u)}
        /\ UNCHANGED <<call, listed, missed, overlapped>>
    BY <1>11 DEF ServeList, Awaits, ListLoads
  <2>2. OverIsDone' /\ OneLoadAtATime'
    BY <2>1 DEF OverIsDone, OneLoadAtATime, ListUnderWay
  <2>3. \A u \in Uploads : ~Awaits(u) => ListComes(u)'
    BY <2>1 DEF ListComes
  <2> QED
    BY <2>1, <2>2, <2>3 DEF NewsComes
<1>12. ASSUME NEW l \in Loads, ListFails(l) PROVE Kept
  BY <1>12
  DEF ListFails, NoLoad, OverIsDone, OneLoadAtATime, ListUnderWay, NewsComes, ListLoads
<1>13. ASSUME NEW l \in Loads, ListArrives(l) PROVE Kept
  <2>1. /\ reload[l].at = "served" /\ listed' = reload[l].seen
        /\ \A m \in Loads : m # l => reload'[m] = reload[m]
        /\ reload'[l].at = "none"
        /\ UNCHANGED <<call, missed, overlapped>>
    BY <1>13 DEF ListArrives, NoLoad, ListLoads
  <2>2. OverIsDone' /\ OneLoadAtATime'
    BY <2>1 DEF OverIsDone, OneLoadAtATime, ListUnderWay
  <2>3. NewsComes'
    <3> SUFFICES ASSUME ~missed, ~overlapped, NEW u \in Uploads, ~Awaits(u), IsListed(u)'
                 PROVE  AnswerComes(u)'
      BY <2>1 DEF NewsComes
    <3>1. \A m \in Loads : ListUnderWay(m) => m = l
      BY <2>1 DEF OneLoadAtATime, ListUnderWay
    <3>2. \A m \in Loads : reload'[m].at \notin {"asked", "served"}
      BY <2>1, <3>1 DEF ListUnderWay
    <3>3. u \in reload[l].seen
      BY <2>1, <3>2 DEF IsListed
    <3>4. AnswerComes(u)
      BY <2>1, <3>1, <3>3 DEF NewsComes, IsListed, ListComes, ListUnderWay
    <3> QED
      BY <2>1, <3>4 DEF AnswerComes
  <2> QED
    BY <2>2, <2>3
<1>14. ASSUME FilteredEnds PROVE Kept
  BY <1>4, <1>14 DEF FilteredEnds
<1>15. ASSUME Render PROVE Kept
  BY <1>4, <1>15 DEF Render, CallsAfter
<1>16. Kept
  BY <1>5, <1>6, <1>7, <1>8, <1>9, <1>10, <1>11, <1>12, <1>13, <1>14, <1>15
  DEF ClientStep, AnswerStep, ListStep
<1> QED
  BY <1>1, <1>16

\* Once nothing is under way the page lists exactly the statements that await review, unless
\* it missed something or overlapped its loads: for a database that acknowledges what it
\* commits, since a discard it does not acknowledge is answered with an error.
THEOREM ListFollows ==
    ASSUME "lostAck" \notin Faults PROVE Spec => []ListFollowsServer
<1>1. Init => NewsInv
  <2> SUFFICES ASSUME Init PROVE NewsInv
    OBVIOUS
  <2>1. ListsLackNone
    BY DEF Init, ListsLackNone, NoLoad, Loads
  <2>2. OverIsDone /\ OneLoadAtATime /\ NewsComes
    BY DEF Init, OverIsDone, OneLoadAtATime, ListUnderWay, NewsComes, NoLoad, Awaits,
       Server!AwaitsReview
  <2> QED
    BY <2>1, <2>2, ClientInvInit DEF NewsInv
<1>2. NewsInv /\ [Next]_vars => NewsInv'
  <2>1. ASSUME NewsInv, UNCHANGED vars PROVE NewsInv'
    <3>1. ClientInv'
      BY <2>1, ClientInvStep DEF NewsInv
    <3> QED
      BY <2>1, <3>1
      DEF vars, server, client, NewsInv, ListsLackNone, OverIsDone, OneLoadAtATime, ListUnderWay,
          NewsComes,
          IsListed, AnswerComes, ListComes, EndsWait, Awaits, Server!AwaitsReview,
          Server!Present
  <2> QED
    BY <2>1, ServerKeepsNews, ClientKeepsNews DEF Next, ClientStep
<1>3. NewsInv => ListFollowsServer
  <2> SUFFICES ASSUME NewsInv, IsQuiet, page = "ready", ~missed, ~overlapped
               PROVE  listed = {u \in Uploads : Server!AwaitsReview(u)}
    BY DEF ListFollowsServer
  <2>1. listed \subseteq Uploads
    BY DEF NewsInv, ClientInv, TypeOK
  <2>2. \A u \in Uploads : Awaits(u) => u \in listed
    BY LoadsAssumption DEF NewsInv, ListsLackNone, ClientInv, TypeOK, ListLoads, IsQuiet,
       ListUnderWay, Loads
  <2>3. \A u \in Uploads : u \in listed => Awaits(u)
    BY DEF NewsInv, NewsComes, IsListed, AnswerComes, ListComes, IsQuiet, ListUnderWay
  <2> QED
    BY <2>1, <2>2, <2>3 DEF Awaits
<1> QED
  BY <1>1, <1>2, <1>3, PTL DEF Spec

=============================================================================
