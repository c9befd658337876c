----------------------------- MODULE MCBacktest -----------------------------
(* Model values for checking Backtest: two symbols, three bars, of which the *)
(* first two are of one session.                                             *)
EXTENDS Backtest, TLC

Sessions == <<1, 1, 2>>
Days == <<1, 2, 400>>
Years == <<2023, 2024, 2024>>
AfterHours == {{}, {2}}

Pair(a, b) == ("a" :> a) @@ ("b" :> b)

(* Half of each symbol, or all of one.  b has a quote in every row.          *)
Weights == {Pair(1, 1), Pair(2, 0)}
Quotes  == {Pair(2, 4), Pair(4, 2), Pair(None, 4)}

(* A daily backtest goes all into b, an intraday one is leveraged and short. *)
Other  == Pair(0, 2)
Short  == Pair(-1, 2)
Dearer == Pair(8, 8)

(* Spreads are known from the second bar on, and of a only.                  *)
Spread == <<None, Pair(2, None), None>>
Wider  == Pair(4, 6)

Rates == [brokerage_rate |-> 1, brokerage_min |-> 1, brokerage_max |-> 2,
          buy_rate |-> 1, sell_rate |-> 2, both_rate |-> 1, gst_rate |-> 8]
============================================================================
