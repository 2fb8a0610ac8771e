SPECIFICATION Spec
CONSTANTS
    None = None
    NotANumber = NotANumber
    Files <- MCFiles
    Rules <- MCRules
    Categories <- MCCategories
    Replies <- MCReplies
    Reviews <- MCReviews
    BatchSize = 2
    Threshold = 75
    MaxAmount = 900000
    DaysPerMonth = 2
    MaxPageSize = 2
    MaxLimit = 2
INVARIANTS
    TypeOK
    TransactionsAreTheLines
    SourceFitsCategory
    SuggestionsReachTheirRows
    RulesComeFirst
    PagesListTheTable
    TotalsAgree
PROPERTIES
    DecisionsReachTheirRows
CHECK_DEADLOCK FALSE
