SPECIFICATION Spec
CONSTANTS
    u1 = u1
    u2 = u2
    r1 = r1
    r2 = r2
    d1 = d1
    Uploads <- MCUploads
    Reviews <- MCReviews
    Discards <- MCDiscards
    FileOf <- MCSameFile
    Unstorable <- MCNoFaults
    MaxAttempts <- MCTwoAttempts
    Faults = {"crash", "database", "lostAck", "cleanup"}
    Overlap = TRUE
INVARIANTS
    UnfinishedHoldsNoRows
    CompletedHoldsRows
    FlaggedRowsWereReviewed
    OneStatementPerFile
SYMMETRY MCSymmetry
CHECK_DEADLOCK FALSE
