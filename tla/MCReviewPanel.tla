--------------------------- MODULE MCReviewPanel ---------------------------
(* Small instances of ReviewPanel: two statements with one row to decide,  *)
(* a submission and a discard, on a database that may refuse a write.      *)
EXTENDS ReviewPanel

CONSTANTS u1, u2, r1, r2, d1

MCUploads  == {u1, u2}
MCReviews  == {r1}
MCTwoReviews == {r1, r2}
MCOneUpload == {u1}
MCNone == {}
MCDiscards == {d1}
MCFileOf   == [u \in Uploads |-> IF u = u1 THEN "january" ELSE "february"]
MCUnstorable == {}
MCItems      == {0}
MCCategories == {"FOOD", "RENT"}
MCSuggested  == [i \in Items |-> "FOOD"]
MCFaults == {"database"}

\* The statements are interchangeable, so that the submission may be about the first one, and
\* only rows of that one are changed, until it is sent: other choices never are.
\* A loadFiltered that fails alone takes away no page that is ready: its panels would go and
\* come back as they do when the person opens another view.
MCInit == Init /\ \A r \in Reviews : target[r] = u1
MCNext ==
    /\ Next
    /\ \A u \in Uploads \ {u1} : panel'[u].choices = Suggested
    /\ (\A r \in Reviews : call[r] # "unsent") =>
           panel'[u1].choices \in {panel[u1].choices, Suggested}
    /\ page' = "error" => page # "ready" \/ missed'
MCSpec == MCInit /\ [][MCNext]_vars /\ Fairness

=============================================================================
