SPECIFICATION Spec
CONSTANTS
    u1 = u1
    u2 = u2
    r1 = r1
    r2 = r2
    d1 = d1
    Uploads <- MCOneUpload
    Reviews <- MCTwoReviews
    Discards <- MCNone
    FileOf <- MCFileOf
    Unstorable <- MCUnstorable
    MaxAttempts = 1
    Faults <- MCFaults
    Items <- MCItems
    Categories <- MCCategories
    Suggested <- MCSuggested
    MayFail = FALSE
INVARIANT
    StoredOnce
CHECK_DEADLOCK FALSE
