------------------------------- MODULE Backtest -------------------------------
(***************************************************************************)
(* oq_backtest: a research script calls backtest (or backtest_intraday) on *)
(* a table of target weights and a table of prices, one iteration of the   *)
(* engine's loop per step, and then estimate_taxes on the trades, one row  *)
(* per step.                                                               *)
(*                                                                         *)
(* The script makes two calls, on inputs that agree up to the bar cut: the *)
(* second has the rows of signals from cut on, and of prices and spreads   *)
(* after cut, replaced by one fixed row. What the two calls answer up to   *)
(* there tells whether the engine looks ahead.                             *)
(*                                                                         *)
(* Abstractions.  A bar is a number; a table lacks the bars whose row is   *)
(* None, and NaN is None too.  Weights are integers, in units of           *)
(* 1 / WeightUnit, prices are integers, rates in units of 1 / RateUnit;    *)
(* money is exact fractions in lowest terms.  Of the charges, those that   *)
(* are a rate of the purchases, of the sales or of both are added up.      *)
(***************************************************************************)
EXTENDS Integers, Sequences, FiniteSets, Functions, FiniteSetsExt, LowestTerms

CONSTANTS
    Symbol,          \* the columns of both tables
    Bars,            \* their number
    Session,         \* the trading day of each bar
    Late,            \* sets of bars that may be after IntradayConfig.session_end
    Day,             \* calendar days up to each bar
    FinancialYear,   \* of each bar
    SignalRow,       \* the rows a table of signals may have
    PriceRow,        \* the rows a table of prices may have
    LaterSignal,     \* the row that replaces signals from cut on ...
    LaterSignalIntraday, \* ... in an intraday backtest
    LaterPrice,      \* the row that replaces prices after cut
    None,            \* no row, no value
    WeightUnit,      \* a weight of 1
    RateUnit,        \* a rate of 1
    CostConfig,      \* rates and bounds of the charges
    SpreadRow,       \* SpreadSlippage: the table's row of each bar, or None
    LaterSpread,     \* the row that replaces them after cut
    default_bps,     \* the spread of a symbol that has none
    initial_capital,
    max_leverage,    \* of a daily backtest; in weights
    max_leverage_intraday,
    short_term_days  \* TaxConfig

Bar == 1..Bars
Call == {1, 2}

ASSUME BacktestAssumption ==
    /\ IsFiniteSet(Symbol)
    /\ Bars \in Nat \ {0}
    /\ DOMAIN Session = Bar /\ DOMAIN Day = Bar /\ DOMAIN FinancialYear = Bar
    /\ \A b \in Bar : Session[b] \in Nat /\ Day[b] \in Nat
    /\ \A b, d \in Bar : b < d => Session[b] <= Session[d]
    /\ Late \subseteq SUBSET Bar
    /\ \A row \in SignalRow \union {LaterSignal, LaterSignalIntraday} :
          row \in [Symbol -> Int \union {None}]
    /\ \A row \in PriceRow \union {LaterPrice} : row \in [Symbol -> (Nat \ {0}) \union {None}]
    /\ None \notin {LaterSignal, LaterSignalIntraday, LaterPrice}
    /\ WeightUnit \in Nat \ {0} /\ RateUnit \in Nat \ {0}
    /\ CostConfig \in [brokerage_rate : Nat, brokerage_min : Nat, brokerage_max : Nat,
                       buy_rate : Nat, sell_rate : Nat, both_rate : Nat, gst_rate : Nat]
    /\ CostConfig.brokerage_min <= CostConfig.brokerage_max
    /\ \A row \in Range(SpreadRow) \union {LaterSpread} :
          row = None \/ row \in [Symbol -> Nat \union {None}]
    /\ DOMAIN SpreadRow = Bar
    /\ default_bps \in Nat
    /\ initial_capital \in Nat \ {0}
    /\ max_leverage \in Nat \ {0} /\ max_leverage_intraday \in Nat \ {0}
    /\ short_term_days \in Nat

VARIABLES
    signals,   \* the table of the first call
    prices,    \* the table of the first call
    cut,       \* where the tables of the second begin to differ
    intraday,  \* backtest_intraday is called
    late,      \* the bars after session_end
    by_date,   \* the table of spreads is indexed by date, not by bar
    pads,      \* pct_change fills gaps, as it does up to pandas 2
    call,      \* the call that is running, 3 for estimate_taxes
    state,     \* the call: "new", "running"
    result,    \* of each call: bars, gross, net, weights, trades, or raised
    lots,      \* estimate_taxes: the lots of each symbol
    row,       \* estimate_taxes: rows done
    realised,  \* estimate_taxes: realized_per_year
    received   \* history: rupees received for the units taken from lots

inputs == <<signals, prices, cut, intraday, late, by_date, pads>>
taxes == <<lots, row, realised, received>>
vars == <<inputs, call, state, result, taxes>>


----------------------------------------------------------------------------
(* The tables of a call. *)

Later == IF intraday THEN LaterSignalIntraday ELSE LaterSignal

Signals(c, b) == IF c = 2 /\ b >= cut /\ signals[b] # None THEN Later ELSE signals[b]
Prices(c, b)  == IF c = 2 /\ b > cut /\ prices[b] # None THEN LaterPrice ELSE prices[b]
Spreads(c, b) == IF c = 2 /\ b > cut THEN LaterSpread ELSE SpreadRow[b]

(* Seeded fault: the last bar of the table, not of each session. *)
SquaredLastDay(c) ==
    LET open == {b \in Bar : Signals(c, b) # None /\ b \notin late}
    IN  {b \in open : \A d \in open : d <= b}

(* apply_square_off: of each session, the last bar by session_end that the *)
(* table of signals has.                                                   *)
Squared(c) ==
    LET open == {b \in Bar : Signals(c, b) # None /\ b \notin late}
    IN  {b \in open : \A d \in open : Session[d] = Session[b] => d <= b}

(* _align: the bars both tables have, in order. *)
Both(c) == {b \in Bar : Signals(c, b) # None /\ Prices(c, b) # None}

Rank(b, bars) == Cardinality({d \in bars : d <= b})

Common(c) ==
    [i \in 1..Cardinality(Both(c)) |-> CHOOSE b \in Both(c) : Rank(b, Both(c)) = i]

(* The weights of a bar, after apply_square_off and fillna. *)
Target(c, b) ==
    [s \in Symbol |->
        IF Signals(c, b)[s] = None \/ (intraday /\ b \in Squared(c)) THEN 0 ELSE Signals(c, b)[s]]

(* _validate_weights; a daily backtest may not sell short. *)
Valid(weights) ==
    \A i \in DOMAIN weights :
        LET w     == weights[i]
            gross == MapThenSumSet(LAMBDA s : IF w[s] < 0 THEN -w[s] ELSE w[s], Symbol)
        IN  /\ intraday \/ \A s \in Symbol : w[s] >= 0
            /\ gross <= (IF intraday THEN max_leverage_intraday ELSE max_leverage) * WeightUnit

(* The last price of a symbol at or before the i-th bar, or None. *)
LastPrice(c, bars, i, s) ==
    LET quoted == {k \in 1..i : Prices(c, bars[k])[s] # None}
    IN  IF quoted = {} THEN None ELSE Prices(c, bars[Max(quoted)])[s]

(* Seeded fault: the return to the next bar. *)
ReturnToNext(c, bars, i, s) ==
    IF i = Len(bars) THEN Zero
    ELSE LET next == Prices(c, bars[i + 1])[s]
             now  == Prices(c, bars[i])[s]
         IN  IF next = None \/ now = None THEN Zero ELSE Ratio(next - now, now)

(* Seeded fault: the change over the later price. *)
ReturnOnLater(c, bars, i, s) ==
    LET now  == IF pads THEN LastPrice(c, bars, i, s) ELSE Prices(c, bars[i])[s]
        then == IF pads THEN LastPrice(c, bars, i - 1, s) ELSE Prices(c, bars[i - 1])[s]
    IN  IF i = 1 \/ now = None \/ then = None THEN Zero ELSE Ratio(now - then, now)

(* pct_change().fillna(0.0) *)
Return(c, bars, i, s) ==
    LET now  == IF pads THEN LastPrice(c, bars, i, s) ELSE Prices(c, bars[i])[s]
        then == IF pads THEN LastPrice(c, bars, i - 1, s) ELSE Prices(c, bars[i - 1])[s]
    IN  IF i = 1 \/ now = None \/ then = None THEN Zero
        ELSE Ratio(now - then, then)

----------------------------------------------------------------------------
(* Charges. *)

Sum(f) == FoldFunction(Add, Zero, f)

Rate(n) == Ratio(n, RateUnit)

Positive(a) == a.num > 0
Lesser(a, b) == IF Leq(a, b) THEN a ELSE b
Greater(a, b) == IF Leq(a, b) THEN b ELSE a

(* _brokerage_per_order *)
Brokerage(notional) ==
    LET raw == Mul(notional, Rate(CostConfig.brokerage_rate))
    IN  IF Positive(notional)
        THEN Lesser(Greater(raw, Whole(CostConfig.brokerage_min)), Whole(CostConfig.brokerage_max))
        ELSE raw

(* The bars whose spreads the engine may look up at b.  It drops the time   *)
(* of day, so it asks as of the midnight before: of a table by bar, for the *)
(* rows of earlier days; of a table by date, for the row of the day itself  *)
(* too, which is taken at the day's last bar.                               *)
AsOf(b) ==
    IF by_date THEN {d \in Bar : Session[d] <= Session[b] /\ \A e \in Bar : Session[e] = Session[d] => e <= d}
               ELSE {d \in Bar : Session[d] < Session[b]}

(* SpreadSlippage.slippage_cost: half the spread of the last of these rows, *)
(* on what is traded of each symbol.                                        *)
slippage_cost(c, b, buys, sells) ==
    LET dated   == {d \in AsOf(b) : Spreads(c, d) # None}
        quoted(s) == IF dated = {} THEN None ELSE Spreads(c, Max(dated))[s]
        half(s) == Ratio(IF quoted(s) = None THEN default_bps ELSE quoted(s), 2 * RateUnit)
    IN  Sum([s \in Symbol |-> Mul(Add(buys[s], sells[s]), half(s))])

(* compute_costs, of the rupees bought and sold of each symbol. *)
Charges(buys, sells) ==
    LET bought    == Sum(buys)
        sold      == Sum(sells)
        brokerage == Add(Sum([s \in Symbol |-> Brokerage(buys[s])]),
                          Sum([s \in Symbol |-> Brokerage(sells[s])]))
        both      == Mul(Add(bought, sold), Rate(CostConfig.both_rate))
        taxed     == Mul(Add(brokerage, both), Rate(RateUnit + CostConfig.gst_rate))
        stt       == Add(Mul(bought, Rate(CostConfig.buy_rate)),
                          Mul(sold, Rate(CostConfig.sell_rate)))
    IN  Add(taxed, stt)

(* A change of weights, in rupees: what is bought of it, or sold. *)
Rupees(n, value) == Mul(Ratio(n, WeightUnit), value)

(* Seeded fault: no clip at zero. *)
AboveUnclipped(n) == n

Above(n) == IF n > 0 THEN n ELSE 0

----------------------------------------------------------------------------
(* backtest. *)

Nothing == [s \in Symbol |-> 0]

Empty == [bars |-> <<>>, weights |-> <<>>, gross |-> <<>>, net |-> <<>>, trades |-> <<>>,
          raised |-> FALSE]

Init ==
    /\ signals \in [Bar -> SignalRow \union {None}]
    /\ prices \in [Bar -> PriceRow \union {None}]
    /\ cut \in Bar
    /\ intraday \in BOOLEAN
    /\ late \in IF intraday THEN Late ELSE {{}}
    /\ by_date \in BOOLEAN
    /\ pads \in IF \A b \in Bar : prices[b] = None \/ None \notin Range(prices[b])
                THEN {TRUE} ELSE BOOLEAN
    /\ call = 1
    /\ state = "new"
    /\ result = [c \in Call |-> Empty]
    /\ lots = [s \in Symbol |-> <<>>]
    /\ row = 0
    /\ realised = [y \in Range(FinancialYear) |-> [stcg |-> Zero, ltcg |-> Zero]]
    /\ received = [s \in Symbol |-> Zero]

(* The checks before the loop: no bar in common, or a weight that is not    *)
(* allowed, raises.                                                         *)
Start ==
    LET bars    == Common(call)
        weights == [i \in DOMAIN bars |-> Target(call, bars[i])]
    IN  /\ call \in Call /\ state = "new"
        /\ IF bars # <<>> /\ Valid(weights)
           THEN /\ result' = [result EXCEPT ![call].bars = bars, ![call].weights = weights]
                /\ state' = "running"
                /\ call' = call
           ELSE /\ result' = [result EXCEPT ![call].raised = TRUE]
                /\ state' = "new"
                /\ call' = call + 1
        /\ UNCHANGED <<inputs, taxes>>

(* The weights held before the i-th bar. *)
Held(weights, i) == IF i = 1 THEN Nothing ELSE weights[i - 1]

Before(values, i) == IF i = 1 THEN Whole(initial_capital) ELSE values[i - 1]

(* The value v with what the weights held earn at the i-th bar. *)
Grown(c, bars, weights, i, v) ==
    LET gain == Sum([s \in Symbol |->
                        Mul(Ratio(Held(weights, i)[s], WeightUnit), Return(c, bars, i, s))])
    IN  Mul(v, Add(Whole(1), gain))

(* What is bought of each symbol to get from the weights held to new ones, *)
(* and what is sold, in rupees.                                            *)
Buys(weights, i, value) ==
    [s \in Symbol |-> Rupees(Above(weights[i][s] - Held(weights, i)[s]), value)]

Sells(weights, i, value) ==
    [s \in Symbol |-> Rupees(Above(Held(weights, i)[s] - weights[i][s]), value)]

(* The trades of a bar, and what is left of value when they are paid for. *)
Traded(buys, sells) == [s \in Symbol |-> Sub(buys[s], sells[s])]

Paid(c, b, value, buys, sells) ==
    Sub(value, Add(Charges(buys, sells), slippage_cost(c, b, buys, sells)))

(* An iteration of the loop: the weights held earn the return of the bar,   *)
(* then the new weights are bought and paid for out of the net value.       *)
Iterate ==
    LET r     == result[call]
        i     == Len(r.net) + 1
        gross == Grown(call, r.bars, r.weights, i, Before(r.gross, i))
        value == Grown(call, r.bars, r.weights, i, Before(r.net, i))
        buys  == Buys(r.weights, i, value)
        sells == Sells(r.weights, i, value)
    IN  /\ call \in Call /\ state = "running"
        /\ i <= Len(r.bars)
        /\ result' = [result EXCEPT ![call] =
              [r EXCEPT !.gross  = Append(@, gross),
                        !.net    = Append(@, Paid(call, r.bars[i], value, buys, sells)),
                        !.trades = Append(@, Traded(buys, sells))]]
        /\ UNCHANGED <<inputs, call, state, taxes>>

Finish ==
    /\ call \in Call /\ state = "running"
    /\ Len(result[call].net) = Len(result[call].bars)
    /\ call' = call + 1
    /\ state' = "new"
    /\ UNCHANGED <<inputs, result, taxes>>

----------------------------------------------------------------------------
(* estimate_taxes, on the trades of the first call. *)

Quantities(queue) == FoldFunction(Add, Zero, [i \in DOMAIN queue |-> queue[i].qty])

(* Seeded fault: the youngest lots first. *)
TakeYoungest(queue, i, qty) ==
    LET later == Quantities(SubSeq(queue, i + 1, Len(queue)))
    IN  Lesser(queue[i].qty, Greater(Zero, Sub(qty, later)))

(* What is taken of the i-th lot when qty is sold, the oldest lots first. *)
Take(queue, i, qty) ==
    LET earlier == Quantities(SubSeq(queue, 1, i - 1))
    IN  Lesser(queue[i].qty, Greater(Zero, Sub(qty, earlier)))

(* The lots after a sale: those from which nothing is left are popped from  *)
(* the front.                                                               *)
Sold(queue, qty) ==
    LET remaining == [i \in DOMAIN queue |->
                         [queue[i] EXCEPT !.qty = Sub(@, Take(queue, i, qty))]]
        open == {i \in DOMAIN queue : Positive(remaining[i].qty)}
    IN  IF open = {} THEN <<>> ELSE SubSeq(remaining, Min(open), Len(queue))

(* The gain of a sale on the lots that are, or are not, short-term. *)
Gain(queue, qty, price, b, short) ==
    LET counts(i) == (Day[b] - Day[queue[i].acquired] < short_term_days) = short
    IN  FoldFunctionOnSet(Add, Zero,
            [i \in DOMAIN queue |->
                Mul(Take(queue, i, qty), Sub(Whole(price), Whole(queue[i].cost)))],
            {i \in DOMAIN queue : counts(i)})

(* A row of the trades: a purchase is a new lot, a sale takes from the      *)
(* oldest; what no lot is left for is dropped, and so is a trade without a  *)
(* price.                                                                   *)
TaxRow ==
    LET r      == result[1]
        b      == r.bars[row + 1]
        trade  == r.trades[row + 1]
        year   == FinancialYear[b]
        traded == {s \in Symbol : trade[s].num # 0 /\ prices[b][s] # None}
        bought == {s \in traded : Positive(trade[s])}
        sold   == traded \ bought
        qty    == [s \in traded |->
                      Mul(IF s \in bought THEN trade[s] ELSE Neg(trade[s]),
                          Ratio(1, prices[b][s]))]
        gain(short) == FoldFunctionOnSet(Add, Zero,
                           [s \in sold |-> Gain(lots[s], qty[s], prices[b][s], b, short)], sold)
    IN  /\ call = 3
        /\ row < Len(r.net)
        /\ row' = row + 1
        /\ lots' = [s \in Symbol |->
              IF s \in bought
              THEN Append(lots[s], [qty |-> qty[s], cost |-> prices[b][s], acquired |-> b])
              ELSE IF s \in sold THEN Sold(lots[s], qty[s]) ELSE lots[s]]
        /\ realised' = [realised EXCEPT
              ![year].stcg = Add(@, gain(TRUE)),
              ![year].ltcg = Add(@, gain(FALSE))]
        /\ received' = [s \in Symbol |->
              IF s \in sold
              THEN Add(received[s],
                       Mul(Lesser(Quantities(lots[s]), qty[s]), Whole(prices[b][s])))
              ELSE received[s]]
        /\ UNCHANGED <<inputs, call, state, result>>

Next == Start \/ Iterate \/ Finish \/ TaxRow

Spec == Init /\ [][Next]_vars

----------------------------------------------------------------------------
(* Properties. *)

(* The cut has come after the bar, and after its day where the spreads are  *)
(* looked up by date: what is charged on the bar has been told by then.     *)
Settled(b) == b < cut /\ (by_date => \A d \in Bar : Session[d] = Session[b] => d <= cut)

(* "Signals dated t are executed at the close of t and earn the return from *)
(* t to t+1": what a backtest says of a bar does not depend on later        *)
(* prices, signals or spreads, and its gross value not even on the signal   *)
(* of the bar.  A table of spreads by date is the exception: a bar is       *)
(* charged the spread of its day, which later bars of the day may make.     *)
LooksNotAhead ==
    \A i \in DOMAIN result[1].net \intersect DOMAIN result[2].net :
        LET b == result[1].bars[i]
        IN  /\ b <= cut => result[1].gross[i] = result[2].gross[i]
            /\ Settled(b) => /\ result[1].net[i] = result[2].net[i]
                             /\ result[1].trades[i] = result[2].trades[i]

(* Until the portfolio is ruined its charges only cost: the net value is at *)
(* most the gross one.                                                      *)
NetBelowGross ==
    \A c \in Call : \A i \in DOMAIN result[c].net :
        (\A k \in 1..i : Positive(result[c].net[k])) => Leq(result[c].net[i], result[c].gross[i])

(* A symbol that is all of the portfolio from one bar to another earns the  *)
(* ratio of its prices, whatever other bars lie between and however many    *)
(* of them lack a quote; from pandas 3 on, if none does.                    *)
HoldingEarns ==
    \A c \in Call, s \in Symbol : \A i, k \in DOMAIN result[c].gross :
        LET r == result[c]
            p(j) == Prices(c, r.bars[j])[s]
        IN  (/\ i < k /\ p(i) # None /\ p(k) # None
             /\ \A j \in i..(k - 1) :
                   /\ r.weights[j] = [Nothing EXCEPT ![s] = WeightUnit]
                   /\ pads \/ p(j) # None) =>
                r.gross[k] = Mul(r.gross[i], Ratio(p(k), p(i)))

(* "Every session-end bar's weights are forced to zero so positions flatten *)
(* before the close": what an intraday backtest carries into another        *)
(* session is of a bar after session_end, or the session's last bar by then *)
(* has signals but no prices.                                               *)
FlatOvernight ==
    intraday => \A c \in Call : \A i \in 1..(Len(result[c].weights) - 1) :
        LET b == result[c].bars[i]
        IN  (Session[b] # Session[result[c].bars[i + 1]] /\ result[c].weights[i] # Nothing) =>
               \/ b \in late
               \/ \E d \in Bar : d > b /\ Session[d] = Session[b] /\ signals[d] # None /\ prices[d] = None

(* The ledger of lots is first-in, first-out, and the gains are all there:  *)
(* only the oldest lot of a symbol may have been sold from, every younger   *)
(* one is a whole trade, and no trade after it is missing; what was         *)
(* received for the units sold, less the gains, is what they had cost.      *)
LotsAccounted ==
    LET r == result[1]
        units(i, s) == Mul(r.trades[i][s], Ratio(1, prices[r.bars[i]][s]))
        purchases(s) == {i \in 1..row : Positive(r.trades[i][s]) /\ prices[r.bars[i]][s] # None}
        cost(s) == Sum([i \in purchases(s) |-> r.trades[i][s]])
        left(s) == Sum([i \in DOMAIN lots[s] |-> Mul(lots[s][i].qty, Whole(lots[s][i].cost))])
    IN  /\ \A s \in Symbol :
              LET queue == lots[s]
                  after == IF queue = <<>> THEN {} ELSE {i \in purchases(s) : r.bars[i] > queue[1].acquired}
              IN  /\ \A i \in DOMAIN queue : Positive(queue[i].qty)
                  /\ {queue[k].acquired : k \in 2..Len(queue)} = {r.bars[i] : i \in after}
                  /\ \A i \in after : \E k \in 2..Len(queue) :
                        queue[k].acquired = r.bars[i] /\ queue[k].qty = units(i, s)
        /\ Sum([y \in DOMAIN realised |-> Add(realised[y].stcg, realised[y].ltcg)]) =
              Sub(Sum(received), Sub(Sum([s \in Symbol |-> cost(s)]), Sum([s \in Symbol |-> left(s)])))
=============================================================================
