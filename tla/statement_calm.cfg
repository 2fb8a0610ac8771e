SPECIFICATION FairSpec
CONSTANTS
    u1 = u1
    u2 = u2
    r1 = r1
    r2 = r2
    d1 = d1
    Uploads <- MCUploads
    Reviews <- MCReviews
    Discards <- MCDiscards
    FileOf <- MCTwoFiles
    Unstorable <- MCOversized
    MaxAttempts <- MCMaxAttempts
    Faults = {"cleanup"}
    Overlap = FALSE
INVARIANTS
    AwaitingCanBeReviewed
    IngestAnswerIsSettled
PROPERTIES
    ProcessingEnds
CHECK_DEADLOCK FALSE
