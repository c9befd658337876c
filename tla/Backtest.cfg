SPECIFICATION Spec
CONSTANTS
    Symbol = {"a", "b"}
    Bars = 3
    Session <- Sessions
    Late <- AfterHours
    Day <- Days
    FinancialYear <- Years
    SignalRow <- Weights
    PriceRow <- Quotes
    LaterSignal <- Other
    LaterSignalIntraday <- Short
    LaterPrice <- Dearer
    None = None
    WeightUnit = 2
    RateUnit = 16
    CostConfig <- Rates
    SpreadRow <- Spread
    LaterSpread <- Wider
    default_bps = 2
    initial_capital = 16
    max_leverage = 1
    max_leverage_intraday = 5
    short_term_days = 365
INVARIANT LooksNotAhead
INVARIANT NetBelowGross
INVARIANT HoldingEarns
INVARIANT FlatOvernight
INVARIANT LotsAccounted
CHECK_DEADLOCK FALSE
