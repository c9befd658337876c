----------------------------- MODULE PaperBroker -----------------------------
(***************************************************************************)
(* oq_broker.paper.PaperBroker, with the kill switch and the audit trail   *)
(* every broker owns: the book (orders, fills, positions, holdings, cash,  *)
(* quotes, instrument specs) and one action per operation.                 *)
(*                                                                         *)
(* An operation of the paper broker awaits nothing that suspends it, so    *)
(* one event loop runs it in one piece.  What can stop it half-way is an   *)
(* exception out of audit.record (a failed write, a notifier that raises): *)
(* by then the entry is in the log, and the rest of the operation does not *)
(* happen.  AuditMayRaise says whether that may occur.                     *)
(*                                                                         *)
(* Abstractions.  An order is named by its place in the book.  Prices are  *)
(* integers, in the smallest unit; averages and profits are exact          *)
(* fractions.  A symbol without position (holding) has one of quantity 0.  *)
(* An audit entry is its event, its order and its quantity.                *)
(***************************************************************************)
EXTENDS Integers, Sequences, FiniteSets, Functions, FiniteSetsExt, Fractions

CONSTANTS
    Symbol,           \* the instruments
    Request,          \* the requests a strategy may send, a set of OrderRequest
    QuotePrice,       \* the prices quotes may have
    InstrumentSpec,   \* the specs that may be registered, and the default one
    DefaultSpec,      \* InstrumentSpec of an unregistered symbol
    starting_cash,    \* PaperConfig
    slippage_bps,
    partial_fill_pct, \* PaperConfig.partial_fill_ratio, in percent
    reject_on_circuit,
    max_loss,         \* KillSwitch.max_loss
    AuditMayRaise,    \* audit.record may raise, after the entry was appended
    None,             \* no quote, no freeze quantity, no displayed size
    MaxOrders,        \* bound: orders in the book
    MaxNotices        \* bound: entries of the trail that concern no order, but for a
                      \* last reset and a first engagement by check_loss

Side      == {"BUY", "SELL"}
OrderType == {"MARKET", "LIMIT", "SL", "SL-M"}
Product   == {"CNC", "MIS", "NRML"}

(* OrderRequest, past __post_init__: the quantity is positive. *)
OrderRequest == [symbol : Symbol, side : Side, quantity : Nat \ {0},
                 order_type : OrderType, price : Nat, product : Product]

OptionalSize == Nat \union {None}

Microstructure == [lot_size : Nat \ {0}, tick_size : Nat \ {0}, circuit_pct : Nat,
                   freeze_quantity : OptionalSize, displayed_size : OptionalSize]

ASSUME PaperAssumption ==
    /\ None \notin Nat
    /\ IsFiniteSet(Symbol)
    /\ Request \subseteq OrderRequest
    /\ QuotePrice \subseteq Nat
    /\ InstrumentSpec \subseteq Microstructure
    /\ DefaultSpec \in InstrumentSpec
    /\ starting_cash \in Int
    /\ slippage_bps \in Nat
    /\ partial_fill_pct \in Int
    /\ reject_on_circuit \in BOOLEAN
    /\ max_loss \in Nat
    /\ AuditMayRaise \in BOOLEAN
    /\ MaxOrders \in Nat
    /\ MaxNotices \in Nat

VARIABLES
    orders,     \* _Book.orders, by order of arrival
    fills,      \* _Book.fills
    positions,  \* _Book.positions
    holdings,   \* _Book.holdings
    cash,       \* _Book.cash
    quotes,     \* _Book.quotes: the last price
    specs,      \* _Book.specs, the default included
    engaged,    \* KillSwitch.engaged
    trail       \* AuditLog.entries()

book == <<orders, fills, positions, holdings, cash>>
vars == <<book, quotes, specs, engaged, trail>>

Status == {"PENDING", "OPEN", "PARTIAL", "COMPLETE", "CANCELLED", "REJECTED"}

(* Order.is_terminal. *)
Terminal == {"COMPLETE", "CANCELLED", "REJECTED"}

Audit(event, o, quantity) == [event |-> event, order |-> o, quantity |-> quantity]

----------------------------------------------------------------------------
(* Microstructure. *)

Smaller(a, b) == IF a <= b THEN a ELSE b
Magnitude(n) == IF n < 0 THEN -n ELSE n

(* _round_tick *)
RoundTick(price, tick) == Rounded(price, tick) * tick

(* _apply_slippage *)
Slipped(price, side, tick) ==
    LET bps == IF side = "BUY" THEN 10000 + slippage_bps ELSE 10000 - slippage_bps
    IN  Rounded(price * bps, 10000 * tick) * tick

(* The circuit band around the last price. *)
InBand(price, last, spec) ==
    /\ last * (100 - spec.circuit_pct) <= 100 * price
    /\ 100 * price <= last * (100 + spec.circuit_pct)

(* _validate, after the kill switch: the order is rejected. *)
Rejects(req) ==
    LET spec == specs[req.symbol]
    IN  \/ req.quantity % spec.lot_size # 0
        \/ spec.freeze_quantity # None /\ req.quantity > spec.freeze_quantity
        \/ quotes[req.symbol] = None
        \/ /\ quotes[req.symbol] # None
           /\ reject_on_circuit
           /\ req.order_type = "LIMIT"
           /\ ~InBand(req.price, quotes[req.symbol], spec)

(* Seeded fault: slippage on a limit order too. *)
ExecutionPriceSlipped(req) ==
    LET last == quotes[req.symbol]
        tick == specs[req.symbol].tick_size
        marketable == IF req.side = "BUY" THEN last <= req.price ELSE last >= req.price
    IN  IF req.order_type # "LIMIT" \/ marketable THEN Slipped(last, req.side, tick) ELSE 0

(* _execution_price; 0 when a limit order is not marketable. *)
ExecutionPrice(req) ==
    LET last == quotes[req.symbol]
        tick == specs[req.symbol].tick_size
        marketable == IF req.side = "BUY" THEN last <= req.price ELSE last >= req.price
    IN  CASE req.order_type # "LIMIT" -> Slipped(last, req.side, tick)
          [] req.order_type = "LIMIT" /\ marketable -> RoundTick(last, tick)
          [] OTHER -> 0

(* _fill_quantity *)
FillQuantity(req) ==
    LET spec == specs[req.symbol]
        pct == IF partial_fill_pct < 0 THEN 0 ELSE Smaller(partial_fill_pct, 100)
        displayed == IF spec.displayed_size = None THEN req.quantity ELSE spec.displayed_size
        target == Smaller(Smaller(req.quantity, Rounded(req.quantity * pct, 100)), displayed)
    IN  (target \div spec.lot_size) * spec.lot_size

----------------------------------------------------------------------------
(* _update_position. *)

Signed(side, quantity) == IF side = "BUY" THEN quantity ELSE -quantity

(* Seeded fault: a sale closes a position but never turns it round. *)
TradedClosing(pos, n, price) ==
    LET adds == pos.quantity = 0 \/ (pos.quantity > 0) = (n > 0)
        q == IF adds \/ Magnitude(n) <= Magnitude(pos.quantity) THEN pos.quantity + n ELSE 0
    IN  [pos EXCEPT !.quantity = q, !.last = price]

(* Seeded fault: a position turned round keeps its old average. *)
TradedKeepingAverage(pos, n, price) ==
    LET q == pos.quantity + n
        adds == pos.quantity = 0 \/ (pos.quantity > 0) = (n > 0)
        closed == Smaller(Magnitude(n), Magnitude(pos.quantity))
        gain == Scaled(Minus(Whole(price), pos.average),
                       IF pos.quantity > 0 THEN closed ELSE -closed)
    IN  [quantity |-> q,
         average  |-> IF adds THEN Divided(Plus(Scaled(pos.average, pos.quantity),
                                                Whole(price * n)), q)
                      ELSE pos.average,
         realised |-> IF adds THEN pos.realised ELSE Plus(pos.realised, gain),
         last     |-> price]

(* A fill of n, signed, at a price, on a position: it adds to the position  *)
(* and moves its average, or closes some of it, or all and turns it round.  *)
Traded(pos, n, price) ==
    LET q == pos.quantity + n
        adds == pos.quantity = 0 \/ (pos.quantity > 0) = (n > 0)
        closed == Smaller(Magnitude(n), Magnitude(pos.quantity))
        gain == Scaled(Minus(Whole(price), pos.average),
                       IF pos.quantity > 0 THEN closed ELSE -closed)
    IN  [quantity |-> q,
         average  |-> IF adds THEN Divided(Plus(Scaled(pos.average, pos.quantity),
                                                Whole(price * n)), q)
                      ELSE IF q * pos.quantity < 0 THEN Whole(price)
                      ELSE pos.average,
         realised |-> IF adds THEN pos.realised ELSE Plus(pos.realised, gain),
         last     |-> price]

Bought(h, n, price) ==
    [quantity |-> h.quantity + n,
     average  |-> Divided(Plus(Scaled(h.average, h.quantity), Whole(price * n)),
                          h.quantity + n)]

(* Seeded fault: a sale is a negative buy. *)
DeliveredSales(req, n, price) ==
    IF req.product = "CNC"
    THEN [holdings EXCEPT ![req.symbol] = Bought(@, n, price)]
    ELSE holdings

(* A delivery buy adds to the holding of its symbol; a sale takes nothing  *)
(* from it.                                                                *)
Delivered(req, n, price) ==
    IF req.product = "CNC" /\ n > 0
    THEN [holdings EXCEPT ![req.symbol] = Bought(@, n, price)]
    ELSE holdings

Flat   == [quantity |-> 0, average |-> Whole(0), realised |-> Whole(0), last |-> 0]
NoHold == [quantity |-> 0, average |-> Whole(0)]

----------------------------------------------------------------------------
Init ==
    /\ orders = <<>>
    /\ fills = <<>>
    /\ positions = [s \in Symbol |-> Flat]
    /\ holdings = [s \in Symbol |-> NoHold]
    /\ cash = starting_cash
    /\ quotes = [s \in Symbol |-> None]
    /\ specs = [s \in Symbol |-> DefaultSpec]
    /\ engaged = FALSE
    /\ trail = <<>>

NewOrder(req, status, filled, average) ==
    [request |-> req, status |-> status, filled |-> filled, average |-> average]

(* Seeded fault: > for >=. *)
FilledStatusStrict(req, qty) == IF qty > req.quantity THEN "COMPLETE" ELSE "PARTIAL"

(* The status _execute gives an order that filled. *)
FilledStatus(req, qty) == IF qty >= req.quantity THEN "COMPLETE" ELSE "PARTIAL"

(* What place_order and _execute record of an order that filled. *)
FillEntries(o, placed, filled) ==
    <<Audit("order.placed", o, placed), Audit("order.filled", o, filled)>>

RoomForOrder == Len(orders) < MaxOrders
Notices == Cardinality({i \in DOMAIN trail : trail[i].order = 0})
RoomForNotice == Notices < MaxNotices

(* place_order: the kill switch raises before anything is stored. *)
PlaceBlocked ==
    /\ engaged
    /\ UNCHANGED vars

(* place_order: _validate rejects; the order is stored and audited. *)
PlaceRejected(req) ==
    /\ ~engaged
    /\ RoomForOrder
    /\ Rejects(req)
    /\ orders' = Append(orders, NewOrder(req, "REJECTED", 0, 0))
    /\ trail' = Append(trail, Audit("order.rejected", Len(orders) + 1, req.quantity))
    /\ UNCHANGED <<fills, positions, holdings, cash, quotes, specs, engaged>>

(* Seeded fault: the order is recorded before it is stored. *)
PlaceStrandedUnstored(req) ==
    /\ AuditMayRaise
    /\ ~engaged
    /\ RoomForOrder
    /\ ~Rejects(req)
    /\ trail' = Append(trail, Audit("order.placed", Len(orders) + 1, req.quantity))
    /\ UNCHANGED <<orders, fills, positions, holdings, cash, quotes, specs, engaged>>

(* place_order: recording order.placed raises; _execute is not reached. *)
PlaceStranded(req) ==
    /\ AuditMayRaise
    /\ ~engaged
    /\ RoomForOrder
    /\ ~Rejects(req)
    /\ orders' = Append(orders, NewOrder(req, "PENDING", 0, 0))
    /\ trail' = Append(trail, Audit("order.placed", Len(orders) + 1, req.quantity))
    /\ UNCHANGED <<fills, positions, holdings, cash, quotes, specs, engaged>>

(* place_order and _execute: no price, or no quantity; the order rests. *)
PlaceResting(req) ==
    /\ ~engaged
    /\ RoomForOrder
    /\ ~Rejects(req)
    /\ ExecutionPrice(req) <= 0 \/ FillQuantity(req) <= 0
    /\ orders' = Append(orders, NewOrder(req, "OPEN", 0, 0))
    /\ trail' = Append(trail, Audit("order.placed", Len(orders) + 1, req.quantity))
    /\ UNCHANGED <<fills, positions, holdings, cash, quotes, specs, engaged>>

(* place_order and _execute: the order fills, at once, in full or in part. *)
PlaceFilled(req) ==
    LET o     == Len(orders) + 1
        price == ExecutionPrice(req)
        qty   == FillQuantity(req)
        n     == Signed(req.side, qty)
    IN  /\ ~engaged
        /\ RoomForOrder
        /\ ~Rejects(req)
        /\ price > 0 /\ qty > 0
        /\ orders' = Append(orders, NewOrder(req, FilledStatus(req, qty), qty, price))
        /\ fills' = Append(fills, [order |-> o, symbol |-> req.symbol, side |-> req.side,
                                   quantity |-> qty, price |-> price])
        /\ positions' = [positions EXCEPT ![req.symbol] = Traded(@, n, price)]
        /\ holdings' = Delivered(req, n, price)
        /\ cash' = cash - price * n
        /\ trail' = trail \o FillEntries(o, req.quantity, qty)
        /\ UNCHANGED <<quotes, specs, engaged>>

place_order(req) ==
    \/ PlaceRejected(req)
    \/ PlaceStranded(req)
    \/ PlaceResting(req)
    \/ PlaceFilled(req)

(* Seeded fault: cancel_order does not look at the status. *)
CancelAny(o) ==
    /\ orders' = [orders EXCEPT ![o].status = "CANCELLED"]
    /\ trail' = Append(trail, Audit("order.cancelled", o, 0))
    /\ UNCHANGED <<fills, positions, holdings, cash, quotes, specs, engaged>>

(* cancel_order: an order that is not terminal; the kill switch has no say. *)
(* An id that is not in the book raises, and nothing changes.               *)
Cancel(o) ==
    /\ orders[o].status \notin Terminal
    /\ orders' = [orders EXCEPT ![o].status = "CANCELLED"]
    /\ trail' = Append(trail, Audit("order.cancelled", o, 0))
    /\ UNCHANGED <<fills, positions, holdings, cash, quotes, specs, engaged>>

(* cancel_order: a terminal order is returned as it is. *)
CancelTerminal(o) ==
    /\ orders[o].status \in Terminal
    /\ UNCHANGED vars

(* set_quote: marks the position; resting orders are not looked at. *)
set_quote(s, price) ==
    /\ quotes' = [quotes EXCEPT ![s] = price]
    /\ positions' = [positions EXCEPT ![s].last = price]
    /\ UNCHANGED <<orders, fills, holdings, cash, specs, engaged, trail>>

register_instrument(s, spec) ==
    /\ specs' = [specs EXCEPT ![s] = spec]
    /\ UNCHANGED <<book, quotes, engaged, trail>>

(* connect, disconnect: an entry in the trail. *)
Session(event) ==
    /\ RoomForNotice
    /\ trail' = Append(trail, Audit(event, 0, 0))
    /\ UNCHANGED <<book, quotes, specs, engaged>>

(* Seeded fault: the switch is recorded first and engaged after. *)
engage_recorded_first ==
    /\ RoomForNotice
    /\ engaged' \in {TRUE, engaged \/ ~AuditMayRaise}
    /\ trail' = Append(trail, Audit("kill_switch.engaged", 0, 0))
    /\ UNCHANGED <<book, quotes, specs>>

(* KillSwitch.engage *)
engage ==
    /\ RoomForNotice
    /\ engaged' = TRUE
    /\ trail' = Append(trail, Audit("kill_switch.engaged", 0, 0))
    /\ UNCHANGED <<book, quotes, specs>>

(* KillSwitch.reset *)
reset ==
    /\ Notices <= MaxNotices   \* bound: room for one reset more
    /\ engaged' = FALSE
    /\ trail' = Append(trail, Audit("kill_switch.reset", 0, 0))
    /\ UNCHANGED <<book, quotes, specs>>

(* Position.realised_pnl + Position.unrealised_pnl *)
Pnl(p) == Plus(p.realised, Scaled(Minus(Whole(p.last), p.average), p.quantity))

(* aggregate_pnl, of positions by symbol. *)
aggregate_pnl(held) ==
    LET total[S \in SUBSET DOMAIN held] ==
            IF S = {} THEN Whole(0)
            ELSE LET s == CHOOSE s \in S : TRUE
                 IN  Plus(Pnl(held[s]), total[S \ {s}])
    IN  total[DOMAIN held]

(* list_positions: a position of quantity 0 is left out. *)
list_positions == Restrict(positions, {s \in Symbol : positions[s].quantity # 0})

(* KillSwitch.check_loss, by a strategy that passes the profit and loss of *)
(* the positions its broker lists.                                         *)
check_loss ==
    /\ AtMost(aggregate_pnl(list_positions), Whole(-max_loss))
    /\ ~engaged \/ RoomForNotice   \* bound: a first engagement always fits
    /\ engaged' = TRUE
    /\ trail' = Append(trail, Audit("kill_switch.engaged", 0, 0))
    /\ UNCHANGED <<book, quotes, specs>>

Next ==
    \/ PlaceBlocked
    \/ \E req \in Request : place_order(req)
    \/ \E o \in DOMAIN orders : Cancel(o) \/ CancelTerminal(o)
    \/ \E s \in Symbol, price \in QuotePrice : set_quote(s, price)
    \/ \E s \in Symbol, spec \in InstrumentSpec : register_instrument(s, spec)
    \/ \E event \in {"broker.connect", "broker.disconnect"} : Session(event)
    \/ engage
    \/ reset
    \/ check_loss

Spec == Init /\ [][Next]_vars

(* A strategy that keeps calling check_loss. *)
WatchfulSpec == Spec /\ WF_vars(check_loss)

----------------------------------------------------------------------------
(* Properties. *)

Fill == [order : Nat \ {0}, symbol : Symbol, side : Side,
         quantity : Nat \ {0}, price : Nat \ {0}]

Order == [request : Request, status : Status, filled : Nat, average : Nat]

Event == {"order.placed", "order.filled", "order.cancelled", "order.rejected",
          "broker.connect", "broker.disconnect",
          "kill_switch.engaged", "kill_switch.reset"}

(* Every variable keeps its type: in particular a fill has a quantity and a *)
(* price, both positive.                                                    *)
TypeOK ==
    /\ orders \in Seq(Order)
    /\ fills \in Seq(Fill)
    /\ positions \in [Symbol -> [quantity : Int, average : Fraction,
                                 realised : Fraction, last : Nat]]
    /\ holdings \in [Symbol -> [quantity : Nat, average : Fraction]]
    /\ cash \in Int
    /\ quotes \in [Symbol -> QuotePrice \union {None}]
    /\ specs \in [Symbol -> InstrumentSpec]
    /\ engaged \in BOOLEAN
    /\ trail \in Seq([event : Event, order : Nat, quantity : Nat])

SumOver(f, S) == FoldFunctionOnSet(Plus, Whole(0), f, S)

FillsOf(s) == {i \in DOMAIN fills : fills[i].symbol = s}

(* The position of a symbol is the sum of its fills, whatever their order   *)
(* and however often the position was closed or turned round.               *)
PositionsMatchFills ==
    \A s \in Symbol :
        positions[s].quantity =
            SumFunctionOnSet([i \in DOMAIN fills |-> Signed(fills[i].side, fills[i].quantity)],
                             FillsOf(s))

(* No money appears or disappears: cash and the positions at cost are what  *)
(* the account started with and what it has realised.                       *)
MoneyConserved ==
    Same(Plus(Whole(cash),
              SumOver([s \in Symbol |-> Scaled(positions[s].average, positions[s].quantity)], Symbol)),
         Plus(Whole(starting_cash),
              SumOver([s \in Symbol |-> positions[s].realised], Symbol)))

(* A limit order does not fill beyond its limit by more than the rounding   *)
(* of the quote to a tick.                                                  *)
LimitRespected ==
    [][\A i \in (DOMAIN fills') \ DOMAIN fills :
          LET req  == orders'[fills'[i].order].request
              tick == specs[req.symbol].tick_size
          IN  req.order_type = "LIMIT" =>
                2 * Signed(req.side, fills'[i].price - req.price) <= tick]_vars

(* A fill is whole lots, and no more than was asked for, than is displayed  *)
(* and than the exchange freezes at, under the spec of the moment.          *)
FillFits ==
    [][\A i \in (DOMAIN fills') \ DOMAIN fills :
          LET spec == specs[fills'[i].symbol]
              qty  == fills'[i].quantity
          IN  /\ qty % spec.lot_size = 0
              /\ qty <= orders'[fills'[i].order].request.quantity
              /\ spec.displayed_size # None => qty <= spec.displayed_size
              /\ spec.freeze_quantity # None => qty <= spec.freeze_quantity]_vars

(* Orders and fills tell the same story: an order has at most one fill, its *)
(* filled quantity is that fill's, and its status says how much that is.    *)
OrdersMatchFills ==
    /\ \A i \in DOMAIN fills :
          LET o == fills[i].order
          IN  /\ o \in DOMAIN orders
              /\ orders[o].filled = fills[i].quantity
              /\ orders[o].average = fills[i].price
              /\ orders[o].request.symbol = fills[i].symbol
              /\ orders[o].request.side = fills[i].side
              /\ \A j \in DOMAIN fills : fills[j].order = o => j = i
    /\ \A o \in DOMAIN orders :
          LET filled == orders[o].filled
              asked  == orders[o].request.quantity
              status == orders[o].status
          IN  /\ filled > 0 => \E i \in DOMAIN fills : fills[i].order = o
              /\ filled <= asked
              /\ status = "COMPLETE" <=> filled = asked
              /\ status = "PARTIAL" => filled > 0
              /\ status \in {"PENDING", "OPEN", "REJECTED"} => filled = 0

Records(i, event, o) == trail[i].event = event /\ trail[i].order = o

Once(event, o) ==
    \E i \in DOMAIN trail : \A j \in DOMAIN trail : Records(j, event, o) <=> j = i

Never(event, o) == \A j \in DOMAIN trail : ~Records(j, event, o)

IfElseNever(condition, event, o) ==
    IF condition THEN Once(event, o) ELSE Never(event, o)

(* The audit trail is the book's: each order was placed or rejected once,   *)
(* filled once if it filled, cancelled once if it was, and the trail speaks *)
(* of no order that is not in the book; all that although recording may     *)
(* raise in the middle of an operation.                                     *)
TrailMatchesBook ==
    /\ \A o \in DOMAIN orders :
          LET status == orders[o].status
          IN  /\ IfElseNever(status = "REJECTED", "order.rejected", o)
              /\ IfElseNever(status # "REJECTED", "order.placed", o)
              /\ IfElseNever(orders[o].filled > 0, "order.filled", o)
              /\ IfElseNever(status = "CANCELLED", "order.cancelled", o)
    /\ \A i \in DOMAIN trail : trail[i].order \in 0..Len(orders)

(* Within an order the trail goes from placed to filled to cancelled.       *)
TrailOrdered ==
    \A i, j \in DOMAIN trail :
        (trail[i].order = trail[j].order /\ trail[i].order # 0 /\ i < j) =>
            \/ trail[i].event = "order.placed"
            \/ trail[i].event = "order.filled" /\ trail[j].event = "order.cancelled"

(* "Blocks all subsequent order placement until reset is called": in the    *)
(* trail a reset lies between an engagement and any later placement or      *)
(* fill.                                                                    *)
HaltHonoured ==
    \A i, j \in DOMAIN trail :
        (/\ i < j
         /\ trail[i].event = "kill_switch.engaged"
         /\ trail[j].event \in {"order.placed", "order.filled", "order.rejected"}) =>
            \E k \in i..j : trail[k].event = "kill_switch.reset"

(* An order that is complete, cancelled or rejected never changes again,    *)
(* and no order loses its place or a part of what it has filled.            *)
TerminalStays ==
    [][\A o \in DOMAIN orders :
          /\ o \in DOMAIN orders'
          /\ orders[o].status \in Terminal => orders'[o] = orders[o]
          /\ orders'[o].filled = orders[o].filled]_vars

(* The paper broker keeps an OrderBook, with its kill switch as the halt:   *)
(* no order enters a halted book whatever place_order has already done, and *)
(* nothing but a cancellation ever changes an order that has entered.       *)
Entries == [o \in DOMAIN orders |-> [status |-> orders[o].status, filled |-> orders[o].filled]]

Book == INSTANCE OrderBook WITH
            Quantity <- UNION {0..req.quantity : req \in Request},
            Live <- Status \ Terminal, Done <- Terminal, Cancelled <- "CANCELLED",
            entries <- Entries, halted <- engaged

ImplementsOrderBook == Book!Spec

(* "It also auto-engages if realised + unrealised P&L breaches max_loss".   *)
Breach == \E held \in {positions} : AtMost(aggregate_pnl(held), Whole(-max_loss))

MaxLossEngages == Breach ~> (engaged \/ ~Breach)
=============================================================================
