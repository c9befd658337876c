SPECIFICATION Spec
CONSTANTS
    Symbol = {acme}
    Request <- TradingRequests
    QuotePrice = {100, 110}
    InstrumentSpec <- ThinSpec
    DefaultSpec <- Thin
    starting_cash = 1000
    slippage_bps = 500
    partial_fill_pct = 100
    reject_on_circuit = TRUE
    max_loss = 20
    AuditMayRaise = TRUE
    None = None
    MaxOrders = 3
    MaxNotices = 1
INVARIANT TypeOK
INVARIANT OrdersMatchFills
INVARIANT TrailMatchesBook
INVARIANT HaltHonoured
INVARIANT PositionsMatchFills
INVARIANT MoneyConserved
PROPERTY ImplementsOrderBook
PROPERTY LimitRespected
CHECK_DEADLOCK FALSE
