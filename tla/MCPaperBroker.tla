--------------------------- MODULE MCPaperBroker ---------------------------
(* Model values for checking PaperBroker. *)
EXTENDS PaperBroker

LotSpec(lot, tick, freeze, displayed) ==
    [lot_size |-> lot, tick_size |-> tick, circuit_pct |-> 20,
     freeze_quantity |-> freeze, displayed_size |-> displayed]

(* The default spec, and one whose displayed size cuts the fills.           *)
Plain == LotSpec(1, 5, None, None)
Thin  == LotSpec(1, 5, 4, 3)

Ask(side, quantity, type, price, product) ==
    {[symbol |-> s, side |-> side, quantity |-> quantity, order_type |-> type,
      price |-> price, product |-> product] : s \in Symbol}

(* Buys at the market, at two prices, and sales at a limit only the higher  *)
(* quote reaches, which turn the position round and leave it cut at 3.      *)
TradingRequests ==
    UNION {Ask("BUY", 2, "MARKET", 0, "CNC"), Ask("SELL", 4, "LIMIT", 110, "CNC")}

LossRequests ==
    UNION {Ask("BUY", 1, "MARKET", 0, "MIS"), Ask("SELL", 1, "MARKET", 0, "MIS")}

PlainSpec == {Plain}
ThinSpec  == {Thin}
============================================================================
