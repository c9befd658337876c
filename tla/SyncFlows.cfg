SPECIFICATION Spec
CONSTANTS
    Process = {"p1"}
    Span <- Everything
    Day <- Days
    Weekend <- Saturday
    YearOf <- OneYear
    Key = {"k1", "k2", "k3"}
    Scenario <- Plainly
    Content <- Once
INVARIANT RowsOfTheirDay
CHECK_DEADLOCK FALSE
