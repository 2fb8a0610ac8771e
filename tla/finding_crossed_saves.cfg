SPECIFICATION Spec
CONSTANTS
    Rows <- MCRows
    Stored <- MCStored
    MonthOf <- MCMonthOf
    CategoryOf <- MCCategoryOf
    Categories <- MCCategories
    PageSize = 2
    Editable <- MCEditable
    MaxLoads = 1
    Hasty = TRUE
    MayFail = FALSE
INVARIANT
    ChartsCatchUpAlways
CHECK_DEADLOCK FALSE
