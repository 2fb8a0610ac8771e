SPECIFICATION FairSpec
CONSTANTS
    Rows <- MCRows
    Stored <- MCStored
    MonthOf <- MCMonthOf
    CategoryOf <- MCCategoryOf
    Categories <- MCCategories
    PageSize = 2
    Editable <- MCEditable
    MaxLoads = 3
    Hasty = FALSE
    MayFail = TRUE
INVARIANTS
    TypeOK
    ListedOnceInOrder
    ListIsTheServers
    ChartsAreCurrent
PROPERTIES
    SpinnersStop
CHECK_DEADLOCK FALSE
