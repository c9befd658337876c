SPECIFICATION CacheSpec
CONSTANTS
    Question = {k1, k2, k3}
    Shared = "shared"
    Passed = "passed"
    ttl_seconds <- Ttl
    max_entries <- Sizes
    MaxReading = 1
    MaxClock = 5
    MaxCalls = 5
SYMMETRY Symmetry
INVARIANT Bounded
INVARIANT AnswersFresh
PROPERTY OneMakesRoom
CHECK_DEADLOCK FALSE
