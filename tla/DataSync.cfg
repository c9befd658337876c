SPECIFICATION Spec
CONSTANTS
    Process = {"p1", "p2"}
    Span <- Everything
    Day <- Days
    Weekend <- Saturday
    YearOf <- OneYear
    Key = {"k1", "k2", "k3"}
    Scenario <- Scenarios
    Content <- Revised
INVARIANT DayWhole
INVARIANT KeysWhole
INVARIANT AvailableIngested
INVARIANT DaysStay
CHECK_DEADLOCK FALSE
