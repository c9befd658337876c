SPECIFICATION WatchfulSpec
CONSTANTS
    Symbol = {acme}
    Request <- LossRequests
    QuotePrice = {100, 200}
    InstrumentSpec <- PlainSpec
    DefaultSpec <- Plain
    starting_cash = 1000
    slippage_bps = 0
    partial_fill_pct = 100
    reject_on_circuit = TRUE
    max_loss = 50
    AuditMayRaise = FALSE
    None = None
    MaxOrders = 2
    MaxNotices = 2
PROPERTY MaxLossEngages
CHECK_DEADLOCK FALSE
