SPECIFICATION Spec
CONSTANTS
    None = None
    NotANumber = NotANumber
    Files <- MCFiles
    Rules <- MCRules
    Categories <- MCCategories
    Replies <- MCReplies
    Reviews <- MCReviews
    BatchSize = 2
    Threshold = 75
    MaxAmount = 900000
    DaysPerMonth = 2
    MaxPageSize = 2
    MaxLimit = 2
INVARIANT
    SomeReadableRowsSucceed
CHECK_DEADLOCK FALSE
