SPECIFICATION Spec
CONSTANTS
    u1 = u1
    u2 = u2
    r1 = r1
    r2 = r2
    d1 = d1
    Uploads <- MCUploads
    Reviews <- MCReviews
    Discards <- MCDiscards
    FileOf <- MCSameFile
    Unstorable <- MCUnstorable
    MaxAttempts <- MCMaxAttempts
    Faults = {}
    Overlap = FALSE
PROPERTY
    FailedFileCanBeUploadedAgain
CHECK_DEADLOCK FALSE
