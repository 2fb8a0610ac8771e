SPECIFICATION MCSpec
CONSTANTS
    u1 = u1
    u2 = u2
    r1 = r1
    r2 = r2
    d1 = d1
    Uploads <- MCUploads
    Reviews <- MCReviews
    Discards <- MCDiscards
    FileOf <- MCFileOf
    Unstorable <- MCUnstorable
    MaxAttempts = 1
    Faults <- MCFaults
    Items <- MCItems
    Categories <- MCCategories
    Suggested <- MCSuggested
    MayFail = TRUE
INVARIANTS
    TypeOK
    ListFollowsServer
    AwaitingIsReachable
PROPERTIES
    ServesSerially
    ApprovedIsStored
    PanelComesBack
CHECK_DEADLOCK FALSE
