----------------------------- MODULE ReviewPanel -----------------------------
(***************************************************************************)
(* A person at the review page: the panels of the statements that wait for *)
(* review (StatementReviewPanel, useStatementReview), the page around them *)
(* (AppShell, useFinanceData.reload) and the requests they send to the     *)
(* server of StatementRuns.                                                *)
(*                                                                         *)
(* A panel disables its buttons while a request of its own is under way.   *)
(* But it forgets that request when it goes away, because the person opens *)
(* another view or the browser reloads the page, and when the request      *)
(* takes longer than 30 seconds; the server goes on working on it.         *)
(***************************************************************************)
EXTENDS Naturals, Sequences

CONSTANTS
    Uploads, Reviews, Discards, FileOf, Unstorable, MaxAttempts, Faults,
    Items,        \* the indexes of the rows each statement asks about
    Categories,
    Suggested,    \* the model's category for each of them
    MayFail       \* may answers be lost or late?

\* The statements, their threads, and where the server is with each request.
VARIABLES status, batches, message, checkpoint, flagged, target, pc, by, tries, dirty, answer

VARIABLES
    page,         \* useFinanceData's status
    listed,       \* the statements the page has last seen awaiting review
    isOpen,       \* is the review view the one that is routed to?
    panel,        \* the panel of each statement
    call,         \* what became of the client's call for each request
    reload,       \* the loads of the list under way (loadUnfiltered), by what they follow
    decisions,    \* what each submission sends
    approved,     \* the categories the person saw when they clicked Approve
    slipped,      \* statements with a request the client stopped waiting for
    missed,       \* did an answer or a list never reach the page?
    overlapped    \* was a list asked for before another one arrived?

server == <<status, batches, message, checkpoint, flagged, target, pc, by, tries, dirty, answer>>
client == <<page, listed, isOpen, panel, call, reload, decisions, approved,
            slipped, missed, overlapped>>
vars == <<server, client>>

Server == INSTANCE StatementProperties WITH Overlap <- TRUE

Requests == Reviews \cup Discards
Loads    == Requests \cup {"page"}

\* Statements that await review at the same time were uploaded from different files.
ASSUME ServerAssumption ==
    /\ Uploads \cap Reviews = {} /\ Uploads \cap Discards = {} /\ Reviews \cap Discards = {}
    /\ MaxAttempts \in Nat \ {0}
    /\ Faults \subseteq Server!FaultKinds
    /\ \A u, v \in Uploads : FileOf[u] = FileOf[v] => u = v
ASSUME SuggestedAssumption == Suggested \in [Items -> Categories]
ASSUME MayFailAssumption == MayFail \in BOOLEAN
ASSUME LoadsAssumption == "page" \notin Requests

\* status, the answer to the panel's own GET, is there a review, and the choices.
Panels == [phase : {"unmounted", "loading", "ready", "error"},
           got : {"none", "found", "payload", "refused"},
           review : BOOLEAN, choices : [Items -> Categories]]

Choices == [Items -> Categories]

\* loadUnfiltered, and the list it brings.
ListLoads == [at : {"none", "asked", "served", "failed"}, seen : SUBSET Uploads]

TypeOK ==
    /\ Server!TypeOK
    /\ page \in {"loading", "ready", "error"}
    /\ listed \subseteq Uploads
    /\ isOpen \in BOOLEAN
    /\ panel \in [Uploads -> Panels]
    /\ call \in [Requests -> {"unsent", "waiting", "orphaned", "over"}]
    /\ reload \in [Loads -> ListLoads]
    /\ decisions \in [Reviews -> UNION {[S -> Categories] : S \in SUBSET Items}]
    /\ approved \in [Reviews -> Choices]
    /\ slipped \subseteq Uploads
    /\ missed \in BOOLEAN /\ overlapped \in BOOLEAN

Unmounted == [phase |-> "unmounted", got |-> "none", review |-> FALSE, choices |-> Suggested]
NoLoad    == [at |-> "none", seen |-> {}]

\* Every statement's run has paused for review and its upload was answered so; the page has
\* loaded and shows another view.
Init ==
    /\ status = [u \in Uploads |-> "AWAITING_REVIEW"]
    /\ batches = [u \in Uploads |-> <<>>]
    /\ message = [u \in Uploads |-> "none"]
    /\ checkpoint = [u \in Uploads |-> [at |-> "review", by |-> u]]
    /\ flagged = Uploads
    /\ target \in [Requests -> Uploads]
    /\ pc = [q \in Uploads \cup Requests |-> IF q \in Uploads THEN "done" ELSE "idle"]
    /\ by = [r \in Uploads \cup Reviews |-> r]
    /\ tries = [r \in Uploads \cup Reviews |-> 0]
    /\ dirty = {}
    /\ answer = [q \in Uploads \cup Requests |->
                   IF q \in Uploads THEN "AWAITING_REVIEW" ELSE "none"]
    /\ page = "ready"
    /\ listed = Uploads
    /\ isOpen = FALSE
    /\ panel = [u \in Uploads |-> Unmounted]
    /\ call = [q \in Requests |-> "unsent"]
    /\ reload = [l \in Loads |-> NoLoad]
    /\ decisions = [r \in Reviews |-> <<>>]
    /\ approved = [r \in Reviews |-> Suggested]
    /\ slipped = {}
    /\ missed = FALSE
    /\ overlapped = FALSE

----------------------------------------------------------------------------
(* Plausible mistakes, for trying the properties against.                  *)

\* The buttons stay enabled.
NeverSubmitting(u) == FALSE

\* The rows left as suggested are sent, the corrected ones are not.
UnchangedRows(choices) ==
    [i \in {j \in Items : choices[j] = Suggested[j]} |-> choices[i]]

\* The review is put away before its request is known to have succeeded.
ResolvedAnyway(reply) == TRUE

\* The list is loaded again only for the panel that is still there.
ReloadIfWaiting(q) == call[q] = "waiting"

\* onResolved() is forgotten.
ReloadNever(q) == FALSE

\* The choices are filled as the person changes rows.
EmptyChoices == <<>>

----------------------------------------------------------------------------
(* What the client's actions are made of. *)

\* A panel is rendered for each listed statement while the view is.
Shown(view, state, list) == IF view /\ state = "ready" THEN list ELSE {}

\* A panel that appears is new and loads its review; one that goes away keeps nothing.
Rendered(shown) ==
    [u \in Uploads |->
        IF u \notin shown THEN Unmounted
        ELSE IF panel[u].phase = "unmounted" THEN [Unmounted EXCEPT !.phase = "loading"]
        ELSE panel[u]]

\* Calls outlive the panel that made them.
CallsAfter(shown) ==
    [q \in Requests |-> IF call[q] = "waiting" /\ target[q] \notin shown
                        THEN "orphaned" ELSE call[q]]

\* The statements whose server is still at a request nobody waits for in a panel.
Slips(calls) ==
    {target[q] : q \in {p \in Requests : calls[p] \in {"orphaned", "over"} /\ pc[p] # "done"}}

\* isSubmitting.
IsSubmitting(u) == \E q \in Requests : target[q] = u /\ call[q] = "waiting"

\* Rows left at the model's suggestion need no decision at all.
DecisionsFor(choices) ==
    [i \in {j \in Items : choices[j] # Suggested[j]} |-> choices[i]]

\* Every row starts seeded to the model's own suggestion.
SeededChoices == Suggested

\* The person may act on the panel: its review, or the message that it could not be loaded.
ShowsReview(u) == panel[u].phase = "ready" /\ panel[u].review
ShowsError(u)  == panel[u].phase = "error"

\* A response with a 2xx status resolves submit() and discard().
Resolved(reply) == reply \in Server!Statuses \cup {"Deleted"}

\* onResolved() is called whether or not the panel is still there.
Reloads(q) == call[q] \in {"waiting", "orphaned"}

ListUnderWay(l) == reload[l].at \in {"asked", "served"}

\* What is on the screen is what the state says.
IsRendered == \A u \in Uploads :
    u \in Shown(isOpen, page, listed) <=> panel[u].phase # "unmounted"

----------------------------------------------------------------------------
(* The person. *)

\* Another view is routed to, or the review view again.
Navigate ==
    LET shown == Shown(~isOpen, page, listed) IN
    /\ isOpen' = ~isOpen
    /\ panel' = Rendered(shown)
    /\ call' = CallsAfter(shown)
    /\ slipped' = slipped \cup Slips(call')
    /\ UNCHANGED <<server, page, listed, reload, decisions, approved, missed, overlapped>>

\* The browser reloads the page: what is in memory is gone, the route is kept.
Refresh ==
    /\ page' = "loading"
    /\ listed' = {}
    /\ panel' = Rendered({})
    /\ call' = [q \in Requests |-> IF call[q] = "unsent" THEN "unsent" ELSE "over"]
    /\ reload' = [l \in Loads |-> IF l = "page" THEN [NoLoad EXCEPT !.at = "asked"] ELSE NoLoad]
    /\ slipped' = slipped \cup Slips(call')
    /\ missed' = (missed \/ \E q \in Requests : call[q] \in {"waiting", "orphaned"})
    /\ UNCHANGED <<server, isOpen, decisions, approved, overlapped>>

\* setChoice.
Choose(u, i, category) ==
    /\ ShowsReview(u) /\ ~IsSubmitting(u)
    /\ category # panel[u].choices[i]
    /\ panel' = [panel EXCEPT ![u].choices[i] = category]
    /\ UNCHANGED <<server, page, listed, isOpen, call, reload, decisions, approved,
                   slipped, missed, overlapped>>

\* submit() up to its await.
Approve(r) ==
    LET u == target[r] IN
    /\ call[r] = "unsent"
    /\ ShowsReview(u) /\ ~IsSubmitting(u)
    /\ call' = [call EXCEPT ![r] = "waiting"]
    /\ decisions' = [decisions EXCEPT ![r] = DecisionsFor(panel[u].choices)]
    /\ approved' = [approved EXCEPT ![r] = panel[u].choices]
    /\ UNCHANGED <<server, page, listed, isOpen, panel, reload, slipped, missed, overlapped>>

\* discard() up to its await; the error branch offers it too.
Discard(d) ==
    LET u == target[d] IN
    /\ call[d] = "unsent"
    /\ ShowsReview(u) \/ ShowsError(u)
    /\ ~IsSubmitting(u)
    /\ call' = [call EXCEPT ![d] = "waiting"]
    /\ UNCHANGED <<server, page, listed, isOpen, panel, reload, decisions, approved,
                   slipped, missed, overlapped>>

----------------------------------------------------------------------------
(* GET /statements/{id}/review, as the panel asks for it.                  *)

\* get_pending reads the row first ...
FindPending(u) ==
    /\ panel[u].phase = "loading" /\ panel[u].got = "none"
    /\ panel' = [panel EXCEPT ![u].got =
                   IF Server!AwaitsReview(u) THEN "found" ELSE "refused"]
    /\ UNCHANGED <<server, page, listed, isOpen, call, reload, decisions, approved,
                   slipped, missed, overlapped>>

\* ... and the thread then.
ReadPending(u) ==
    /\ panel[u].got = "found"
    /\ panel' = [panel EXCEPT ![u].got =
                   IF checkpoint[u].at = "review" THEN "payload" ELSE "refused"]
    /\ UNCHANGED <<server, page, listed, isOpen, call, reload, decisions, approved,
                   slipped, missed, overlapped>>

\* The rest of load().
PendingArrives(u) ==
    /\ panel[u].phase = "loading"
    /\ \/ /\ panel[u].got = "payload"
          /\ panel' = [panel EXCEPT ![u] = [phase |-> "ready", got |-> "none", review |-> TRUE,
                                            choices |-> SeededChoices]]
       \/ /\ panel[u].got = "refused" \/ MayFail
          /\ panel' = [panel EXCEPT ![u] = [Unmounted EXCEPT !.phase = "error"]]
    /\ UNCHANGED <<server, page, listed, isOpen, call, reload, decisions, approved,
                   slipped, missed, overlapped>>

----------------------------------------------------------------------------
(* The rest of submit() and discard(), and reload().                       *)

\* The answer arrives: the panel, if it is still there, puts its review away and the list is
\* loaded again; a refusal only sets a message.
AnswerArrives(q) ==
    LET reply == answer[q] IN
    /\ call[q] \in {"waiting", "orphaned"}
    /\ reply # "none"
    /\ call' = [call EXCEPT ![q] = "over"]
    /\ panel' = IF Resolved(reply) /\ call[q] = "waiting"
                THEN [panel EXCEPT ![target[q]].review = FALSE] ELSE panel
    /\ IF Resolved(reply) /\ Reloads(q)
       THEN /\ reload' = [reload EXCEPT ![q].at = "asked"]
            /\ overlapped' = (overlapped \/ \E l \in Loads : ListUnderWay(l))
       ELSE UNCHANGED <<reload, overlapped>>
    /\ UNCHANGED <<server, page, listed, isOpen, decisions, approved, slipped, missed>>

\* The client waits for 30 seconds at most, and a connection may break.
CallFails(q) ==
    /\ MayFail
    /\ call[q] \in {"waiting", "orphaned"}
    /\ call' = [call EXCEPT ![q] = "over"]
    /\ slipped' = slipped \cup Slips(call')
    /\ missed' = TRUE
    /\ UNCHANGED <<server, page, listed, isOpen, panel, reload, decisions, approved, overlapped>>

\* GET /statements, one query.
ServeList(l) ==
    /\ reload[l].at = "asked"
    /\ reload' = [reload EXCEPT ![l] = [at |-> "served",
                                        seen |-> {u \in Uploads : Server!AwaitsReview(u)}]]
    /\ UNCHANGED <<server, page, listed, isOpen, panel, call, decisions, approved,
                   slipped, missed, overlapped>>

\* loadUnfiltered succeeds: it sets the list and leaves the page's status alone.
ListArrives(l) ==
    /\ reload[l].at = "served"
    /\ listed' = reload[l].seen
    /\ reload' = [reload EXCEPT ![l] = NoLoad]
    /\ UNCHANGED <<server, page, isOpen, panel, call, decisions, approved,
                   slipped, missed, overlapped>>

\* One of its three requests fails or takes longer than 30 seconds.
ListFails(l) ==
    /\ MayFail
    /\ reload[l].at = "served"
    /\ page' = "error"
    /\ reload' = [reload EXCEPT ![l] = [NoLoad EXCEPT !.at =
                                          IF l = "page" THEN "failed" ELSE "none"]]
    /\ missed' = TRUE
    /\ UNCHANGED <<server, listed, isOpen, panel, call, decisions, approved,
                   slipped, overlapped>>

\* A loadFiltered ends, on its own: it makes the page ready, or not, whatever became of the
\* list.  One may be under way at any time, for the filters of the top bar stay enabled.
FilteredEnds ==
    /\ page' \in {"ready"} \cup (IF MayFail THEN {"error"} ELSE {})
    /\ UNCHANGED <<server, listed, isOpen, panel, call, reload, decisions, approved,
                   slipped, missed, overlapped>>

\* What loads have set is rendered some time later, for several of them at once perhaps.
Render ==
    LET shown == Shown(isOpen, page, listed) IN
    /\ ~IsRendered
    /\ panel' = Rendered(shown)
    /\ call' = CallsAfter(shown)
    /\ slipped' = slipped \cup Slips(call')
    /\ UNCHANGED <<server, page, listed, isOpen, reload, decisions, approved,
                   missed, overlapped>>

----------------------------------------------------------------------------

\* The server takes a request once it was sent, even if nobody waits for it any more.
StartRequest(q) ==
    /\ call[q] # "unsent"
    /\ \/ q \in Reviews /\ Server!RequireAwaitingReview(q)
       \/ q \in Discards /\ Server!FindForDiscard(q)
    /\ UNCHANGED client

RunRequest(q) ==
    /\ \/ q \in Reviews /\ (Server!ReviewStep(q) \/ Server!RunStep(q))
       \/ q \in Discards /\ Server!DiscardStep(q)
    /\ UNCHANGED client

Person ==
    \/ Navigate \/ Refresh
    \/ \E u \in Uploads, i \in Items, c \in Categories : Choose(u, i, c)
    \/ \E r \in Reviews : Approve(r)
    \/ \E d \in Discards : Discard(d)

PendingStep(u) == FindPending(u) \/ ReadPending(u) \/ PendingArrives(u)
AnswerStep(q)  == AnswerArrives(q) \/ CallFails(q)
ListStep(l)    == ServeList(l) \/ ListArrives(l) \/ ListFails(l)

Next ==
    \/ Person
    \/ \E u \in Uploads : PendingStep(u)
    \/ \E q \in Requests : StartRequest(q) \/ RunRequest(q) \/ AnswerStep(q)
    \/ \E l \in Loads : ListStep(l)
    \/ FilteredEnds
    \/ Render

Spec == Init /\ [][Next]_vars

\* As long as something of the client's is under way, some of it goes on: a call or a load
\* ends, with an answer or after 30 seconds, or the screen is rendered.  Nobody has to click,
\* and nothing is asked of the server.
Fairness ==
    WF_vars(\/ Render
            \/ \E u \in Uploads : PendingStep(u)
            \/ \E q \in Requests : AnswerStep(q)
            \/ \E l \in Loads : ListStep(l))

FairSpec == Spec /\ Fairness

----------------------------------------------------------------------------
(* Properties. *)

\* What the person clicked Approve on is what a run leaves in the table, for the rows it
\* asked about.
StoredCategories(run) ==
    IF run \in Reviews THEN [i \in Items |-> IF i \in DOMAIN decisions[run]
                                             THEN decisions[run][i] ELSE Suggested[i]]
    ELSE Suggested

\* As long as the panels wait for their own requests, the server sees clients that send one
\* request about a statement at a time, as its guarantees suppose (StatementProperties): the
\* disabled buttons of a panel, and not the server, are what makes them so.
Serial == INSTANCE StatementRuns WITH Overlap <- FALSE

ServesSerially == [][slipped = {} => Serial!Next]_server

\* Who is told that the statement is completed finds in the table the categories the panel
\* showed when they clicked Approve, although only the rows they changed were sent; unless a
\* request about the statement slipped from the client.
ApprovedIsStored ==
    [][\A r \in Reviews :
         /\ answer[r] = "none" /\ answer'[r] = "COMPLETED"
         /\ target[r] \notin slipped
         => \E i \in DOMAIN batches[target[r]] :
                StoredCategories(batches[target[r]][i]) = approved[r]]_vars

IsQuiet ==
    /\ \A l \in Loads : ~ListUnderWay(l)
    /\ \A q \in Requests : call[q] \in {"unsent", "over"} /\ pc[q] \in {"idle", "done"}

\* Once nothing is under way the page lists exactly the statements that await review, also
\* when the person left the view meanwhile and when two requests about one statement crossed:
\* whichever request settled it loads the list again.
ListFollowsServer ==
    IsQuiet /\ page = "ready" /\ ~missed /\ ~overlapped =>
        listed = {u \in Uploads : Server!AwaitsReview(u)}

\* A panel whose review was put away renders nothing.
IsBlank(u) == panel[u].phase = "ready" /\ ~panel[u].review

\* A run that could neither store the rows nor record its failure leaves a statement that
\* awaits a review which its thread no longer waits for.
IsStranded(u) == Server!AwaitsReview(u) /\ checkpoint[u].at # "review"

\* AppShell: two paused statements "must both get a panel, or the second one is silently
\* unreachable".  What an open view shows of a page that is ready has every statement that
\* awaits review, once the page's first list has arrived: and its panel loads, works, or
\* offers the person a button, unless it was answered 200 and the statement is stranded.
AwaitingIsReachable ==
    isOpen /\ page = "ready" /\ IsRendered =>
        \A u \in Uploads :
            Server!AwaitsReview(u) =>
                /\ u \in listed \/ reload["page"].at # "none"
                /\ u \in listed =>
                     \/ panel[u].phase = "loading" \/ IsSubmitting(u)
                     \/ ShowsReview(u) \/ ShowsError(u)
                     \/ IsBlank(u) /\ IsStranded(u)

\* A panel does not stay loading, submitting or blank: it offers the person a button again, or
\* goes away because the list that is loaded after an answer no longer has its statement.
\* A blank one stays behind only when a list failed, when two lists crossed, or when its
\* statement is stranded.
PanelComesBack ==
    \A u \in Uploads :
        []<>(\/ panel[u].phase = "unmounted"
             \/ (ShowsReview(u) \/ ShowsError(u)) /\ ~IsSubmitting(u)
             \/ IsBlank(u) /\ (missed \/ overlapped \/ IsStranded(u)))

\* submit_statement_review: a second submission "409s instead of resuming twice".
StoredOnce == Server!StoredOnce

=============================================================================
