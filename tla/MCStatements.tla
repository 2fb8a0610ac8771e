--------------------------- MODULE MCStatements ---------------------------
(* Small instances of StatementProperties: two uploads of the same bytes,  *)
(* or of two files of which one cannot be stored.                          *)
EXTENDS StatementProperties, TLC

CONSTANTS u1, u2, r1, r2, d1

MCUploads  == {u1, u2}
MCReviews  == {r1, r2}
MCDiscards == {d1}
\* Uploads of the same bytes may be exchanged, and reviews may.
MCSymmetry == Permutations(Uploads) \cup Permutations(Reviews)

MCSameFile == [u \in Uploads |-> "statement"]
MCTwoFiles == [u \in Uploads |-> IF u = u1 THEN "statement" ELSE "oversized"]
MCOversized == {"oversized"}
MCUnstorable == {"statement"}
MCMaxAttempts == 3
MCTwoAttempts == 2
MCNoFaults == {}

=============================================================================
