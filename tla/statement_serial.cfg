SPECIFICATION FairSpec
CONSTANTS
    u1 = u1
    u2 = u2
    r1 = r1
    r2 = r2
    d1 = d1
    Uploads <- MCUploads
    Reviews <- MCReviews
    Discards <- MCDiscards
    FileOf <- MCSameFile
    Unstorable <- MCNoFaults
    MaxAttempts <- MCMaxAttempts
    Faults = {"crash", "database", "cleanup"}
    Overlap = FALSE
INVARIANTS
    TypeOK
    StoredOnce
    FailedHoldsNoRows
PROPERTIES
    AcceptedReviewIsStored
    SettledStaysSettled
    FollowsLifecycle
    EveryRequestEnds
CHECK_DEADLOCK FALSE
