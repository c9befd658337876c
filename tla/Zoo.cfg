SPECIFICATION Spec
CONSTANTS
    DaysInMonth = 6
    MonthsInQuarter = 2
    MonthsInYear = 4
    Column <- Columns
    PriceRow <- Rows2
    CalendarSet <- Calendars
    lookback = 2
    top_k = 1
    LastDay = 15
    Entry <- Entries
    Cagr = {0, 1, NaN}
    FoldReturns <- Returns
    Config <- Configs
    NaN = NaN
    MaxSpecs = 2
INVARIANT SessionsFound
INVARIANT RebalancedOncePerPeriod
INVARIANT FoldsHonest
INVARIANT PassIsEarned
PROPERTY SignalsSettled
CHECK_DEADLOCK FALSE
