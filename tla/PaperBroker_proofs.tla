-------------------------- MODULE PaperBroker_proofs --------------------------
(***************************************************************************)
(* Proofs about PaperBroker, for every set of symbols and requests, every  *)
(* quote, spec and configuration, whether recording may raise or not:      *)
(*   - its type invariant: fills have a positive quantity and price;       *)
(*   - a fill fits its order, the lots, the display and the freeze         *)
(*     quantity, and a limit order fills at its limit;                     *)
(*   - orders agree with fills and the audit trail with the book;          *)
(*   - an engaged kill switch halts placement until it is reset;           *)
(*   - a terminal order never changes;                                     *)
(*   - a position is the sum of its fills, and no money appears or         *)
(*     disappears.                                                         *)
(***************************************************************************)
EXTENDS PaperBroker, Lemmas

----------------------------------------------------------------------------
(* Arithmetic. *)

LEMMA PositiveProduct ==
    ASSUME NEW a \in Nat \ {0}, NEW b \in Nat \ {0}
    PROVE  a * b \in Nat \ {0}
  BY SMT

LEMMA WholeType ==
    ASSUME NEW n \in Int
    PROVE  Whole(n) \in Fraction
  BY DEF Whole, Fraction

LEMMA PlusType ==
    ASSUME NEW a \in Fraction, NEW b \in Fraction
    PROVE  Plus(a, b) \in Fraction
  BY PositiveProduct DEF Plus, Fraction

LEMMA MinusType ==
    ASSUME NEW a \in Fraction, NEW b \in Fraction
    PROVE  Minus(a, b) \in Fraction
  BY PositiveProduct DEF Minus, Fraction

LEMMA ScaledType ==
    ASSUME NEW a \in Fraction, NEW n \in Int
    PROVE  Scaled(a, n) \in Fraction
  BY DEF Scaled, Fraction

LEMMA DividedType ==
    ASSUME NEW a \in Fraction, NEW n \in Int \ {0}
    PROVE  Divided(a, n) \in Fraction
<1>1. CASE n > 0
  BY <1>1, PositiveProduct DEF Divided, Fraction
<1>2. CASE n < 0
  <2>1. -n \in Nat \ {0}
    BY <1>2
  <2>2. QED  BY <1>2, <2>1, PositiveProduct DEF Divided, Fraction
<1>3. QED  BY <1>1, <1>2

LEMMA RoundedType ==
    ASSUME NEW n \in Int, NEW d \in Nat \ {0}
    PROVE  Rounded(n, d) \in Int
  BY RoundedClose

(* Whole lots out of a quantity. *)
LEMMA WholeLots ==
    ASSUME NEW t \in Int, NEW lot \in Nat \ {0}
    PROVE  /\ (t \div lot) * lot \in Int
           /\ (t \div lot) * lot <= t
           /\ ((t \div lot) * lot) % lot = 0
  OBVIOUS

----------------------------------------------------------------------------
(* What the microstructure computes. *)

LEMMA RequestType ==
    ASSUME NEW req \in Request
    PROVE  /\ req \in OrderRequest
           /\ req.symbol \in Symbol /\ req.side \in Side /\ req.price \in Nat
           /\ req.quantity \in Nat \ {0}
<1>1. req \in OrderRequest
  BY PaperAssumption
<1>2. QED  BY <1>1 DEF OrderRequest

LEMMA SpecType ==
    ASSUME TypeOK, NEW s \in Symbol
    PROVE  specs[s] \in Microstructure
  BY PaperAssumption DEF TypeOK

(* An accepted request has a quote. *)
LEMMA Quoted ==
    ASSUME TypeOK, NEW req \in Request, ~Rejects(req)
    PROVE  quotes[req.symbol] \in Nat
<1>1. req.symbol \in Symbol
  BY RequestType
<1>2. quotes[req.symbol] # None
  BY DEF Rejects
<1>3. QED  BY <1>1, <1>2, PaperAssumption DEF TypeOK

LEMMA ExecutionPriceType ==
    ASSUME TypeOK, NEW req \in Request, ~Rejects(req)
    PROVE  ExecutionPrice(req) \in Int
<1> DEFINE last == quotes[req.symbol]
           tick == specs[req.symbol].tick_size
<1>1. last \in Nat /\ tick \in Nat \ {0}
  <2>1. specs[req.symbol] \in Microstructure
    BY RequestType, SpecType
  <2>2. QED  BY <2>1, Quoted DEF Microstructure
<1> HIDE DEF last, tick
<1>2. RoundTick(last, tick) \in Int
  BY <1>1, RoundedClose DEF RoundTick
<1>3. Slipped(last, req.side, tick) \in Int
  <2>1. 10000 * tick \in Nat \ {0}
    BY <1>1, PositiveProduct
  <2>2. /\ last * (10000 + slippage_bps) \in Int
        /\ last * (10000 - slippage_bps) \in Int
    BY <1>1, PaperAssumption
  <2>3. /\ Rounded(last * (10000 + slippage_bps), 10000 * tick) \in Int
        /\ Rounded(last * (10000 - slippage_bps), 10000 * tick) \in Int
    BY <2>1, <2>2, RoundedType
  <2>4. QED  BY <1>1, <2>3 DEF Slipped
<1>4. QED
  BY <1>2, <1>3 DEF ExecutionPrice, last, tick

(* A marketable limit order executes at the quote, rounded to a tick. *)
LEMMA LimitPrice ==
    ASSUME TypeOK, NEW req \in Request, ~Rejects(req),
           req.order_type = "LIMIT", ExecutionPrice(req) > 0
    PROVE  2 * Signed(req.side, ExecutionPrice(req) - req.price)
              <= specs[req.symbol].tick_size
<1> DEFINE last == quotes[req.symbol]
           tick == specs[req.symbol].tick_size
           price == Rounded(last, tick) * tick
<1>1. last \in Nat /\ tick \in Nat \ {0} /\ req.price \in Nat
  <2>1. specs[req.symbol] \in Microstructure
    BY RequestType, SpecType
  <2>2. QED  BY <2>1, Quoted, RequestType DEF Microstructure
<1>2. /\ ExecutionPrice(req) = price
      /\ IF req.side = "BUY" THEN last <= req.price ELSE last >= req.price
  <2> DEFINE marketable == IF req.side = "BUY" THEN last <= req.price ELSE last >= req.price
  <2>1. ExecutionPrice(req) = IF marketable THEN RoundTick(last, tick) ELSE 0
    BY DEF ExecutionPrice
  <2>2. QED  BY <2>1 DEF RoundTick
<1>3. /\ price \in Int
      /\ 2 * (price - last) <= tick
      /\ 2 * (last - price) <= tick
  <2> HIDE DEF last, tick
  <2>1. QED  BY <1>1, RoundedClose
<1> HIDE DEF price, last, tick
<1>4. CASE req.side = "BUY"
  <2>1. 2 * (price - req.price) <= tick
    BY <1>1, <1>2, <1>3, <1>4
  <2>2. QED  BY <1>2, <1>4, <2>1 DEF Signed, tick
<1>5. CASE req.side # "BUY"
  <2>1. 2 * (-(price - req.price)) <= tick
    BY <1>1, <1>2, <1>3, <1>5
  <2>2. QED  BY <1>2, <1>5, <2>1 DEF Signed, tick
<1>6. QED  BY <1>4, <1>5

LEMMA FillQuantityFits ==
    ASSUME TypeOK, NEW req \in Request
    PROVE  LET spec == specs[req.symbol]
               qty  == FillQuantity(req)
           IN  /\ qty \in Int
               /\ qty <= req.quantity
               /\ qty % spec.lot_size = 0
               /\ spec.displayed_size # None => qty <= spec.displayed_size
<1> DEFINE spec == specs[req.symbol]
           pct == IF partial_fill_pct < 0 THEN 0 ELSE Smaller(partial_fill_pct, 100)
           displayed == IF spec.displayed_size = None THEN req.quantity ELSE spec.displayed_size
           target == Smaller(Smaller(req.quantity, Rounded(req.quantity * pct, 100)), displayed)
<1>1. req.quantity \in Nat /\ spec \in Microstructure
  BY SpecType, RequestType
<1>2. pct \in Nat
  BY PaperAssumption DEF Smaller
<1>3. displayed \in Nat
  BY <1>1 DEF Microstructure, OptionalSize
<1>4. Rounded(req.quantity * pct, 100) \in Int
  <2>1. req.quantity * pct \in Int
    BY <1>1, <1>2
  <2>2. QED  BY <2>1, RoundedType
<1>5. target \in Int /\ target <= req.quantity /\ target <= displayed
  BY <1>1, <1>3, <1>4 DEF Smaller
<1>6. spec.lot_size \in Nat \ {0}
  BY <1>1 DEF Microstructure
<1>7. FillQuantity(req) = (target \div spec.lot_size) * spec.lot_size
  BY DEF FillQuantity
<1> HIDE DEF target
<1> DEFINE cut == (target \div spec.lot_size) * spec.lot_size
<1>8. cut \in Int /\ cut <= target /\ cut % spec.lot_size = 0
  BY <1>5, <1>6, WholeLots
<1> HIDE DEF cut
<1>9. cut <= req.quantity /\ cut <= displayed
  BY <1>1, <1>3, <1>5, <1>8
<1>10. FillQuantity(req) = cut
  BY <1>7 DEF cut
<1>11. QED  BY <1>8, <1>9, <1>10

PositionRecord == [quantity : Int, average : Fraction, realised : Fraction, last : Nat]

LEMMA TradedType ==
    ASSUME NEW pos \in PositionRecord, NEW n \in Int \ {0}, NEW price \in Nat
    PROVE  Traded(pos, n, price) \in PositionRecord
<1> DEFINE q == pos.quantity + n
           adds == pos.quantity = 0 \/ (pos.quantity > 0) = (n > 0)
           closed == Smaller(Magnitude(n), Magnitude(pos.quantity))
           gain == Scaled(Minus(Whole(price), pos.average),
                          IF pos.quantity > 0 THEN closed ELSE -closed)
<1>1. pos.quantity \in Int /\ q \in Int /\ pos.average \in Fraction /\ pos.realised \in Fraction
  BY DEF PositionRecord
<1>2. closed \in Int
  BY <1>1 DEF Smaller, Magnitude
<1>3. Whole(price) \in Fraction
  BY WholeType
<1>4. Minus(Whole(price), pos.average) \in Fraction
  BY <1>1, <1>3, MinusType
<1>5. gain \in Fraction
  BY <1>1, <1>2, <1>4, ScaledType
<1>6. Plus(pos.realised, gain) \in Fraction
  BY <1>1, <1>5, PlusType
<1>7. adds => q \in Int \ {0}
  BY <1>1
<1>8. Plus(Scaled(pos.average, pos.quantity), Whole(price * n)) \in Fraction
  <2>1. Scaled(pos.average, pos.quantity) \in Fraction
    BY <1>1, ScaledType
  <2>2. Whole(price * n) \in Fraction
    BY WholeType
  <2>3. QED  BY <2>1, <2>2, PlusType
<1>9. adds => Divided(Plus(Scaled(pos.average, pos.quantity), Whole(price * n)), q) \in Fraction
  BY <1>7, <1>8, DividedType
<1> DEFINE average == IF adds THEN Divided(Plus(Scaled(pos.average, pos.quantity),
                                               Whole(price * n)), q)
                      ELSE IF q * pos.quantity < 0 THEN Whole(price)
                      ELSE pos.average
           realised == IF adds THEN pos.realised ELSE Plus(pos.realised, gain)
<1>10. average \in Fraction /\ realised \in Fraction
  BY <1>1, <1>3, <1>6, <1>9
<1>11. Traded(pos, n, price) = [quantity |-> q, average |-> average,
                                realised |-> realised, last |-> price]
  BY DEF Traded
<1> HIDE DEF average, realised, q
<1>12. QED  BY <1>1, <1>10, <1>11 DEF PositionRecord

HoldingRecord == [quantity : Nat, average : Fraction]

LEMMA BoughtType ==
    ASSUME NEW h \in HoldingRecord, NEW n \in Nat \ {0}, NEW price \in Nat
    PROVE  Bought(h, n, price) \in HoldingRecord
<1>1. h.quantity \in Nat /\ h.average \in Fraction
  BY DEF HoldingRecord
<1>2. Plus(Scaled(h.average, h.quantity), Whole(price * n)) \in Fraction
  BY <1>1, PlusType, ScaledType, WholeType
<1>3. h.quantity + n \in Nat \ {0}
  BY <1>1
<1>4. Divided(Plus(Scaled(h.average, h.quantity), Whole(price * n)), h.quantity + n) \in Fraction
  BY <1>2, <1>3, DividedType
<1>5. QED  BY <1>3, <1>4 DEF Bought, HoldingRecord

----------------------------------------------------------------------------
(* The kinds of step.  What the operations do to orders, fills, the trail  *)
(* and the switch falls into five kinds.                                   *)

Notice == {"broker.connect", "broker.disconnect", "kill_switch.engaged", "kill_switch.reset"}

Quiet == UNCHANGED <<orders, fills, trail, engaged>>

Noted ==
    \E event \in Notice :
        /\ trail' = Append(trail, Audit(event, 0, 0))
        /\ event = "kill_switch.engaged" => engaged'
        /\ engaged /\ ~engaged' => event = "kill_switch.reset"
        /\ engaged' \in BOOLEAN
        /\ UNCHANGED <<orders, fills>>

Entered ==
    \E req \in Request, status \in {"REJECTED", "PENDING", "OPEN"} :
        /\ ~engaged
        /\ orders' = Append(orders, NewOrder(req, status, 0, 0))
        /\ trail' = Append(trail, Audit(IF status = "REJECTED" THEN "order.rejected"
                                        ELSE "order.placed", Len(orders) + 1, req.quantity))
        /\ UNCHANGED <<fills, engaged>>

Filled ==
    \E req \in Request, qty \in Nat \ {0}, price \in Nat \ {0} :
        LET o == Len(orders) + 1
        IN  /\ ~engaged
            /\ qty <= req.quantity
            /\ orders' = Append(orders, NewOrder(req, FilledStatus(req, qty), qty, price))
            /\ fills' = Append(fills, [order |-> o, symbol |-> req.symbol, side |-> req.side,
                                       quantity |-> qty, price |-> price])
            /\ trail' = Append(Append(trail, Audit("order.placed", o, req.quantity)),
                               Audit("order.filled", o, qty))
            /\ UNCHANGED engaged

Cancelled ==
    \E o \in DOMAIN orders :
        /\ orders[o].status \notin Terminal
        /\ orders' = [orders EXCEPT ![o].status = "CANCELLED"]
        /\ trail' = Append(trail, Audit("order.cancelled", o, 0))
        /\ UNCHANGED <<fills, engaged>>

(* What an order that fills fills at. *)
LEMMA FillType ==
    ASSUME TypeOK, NEW req \in Request, ~Rejects(req),
           ExecutionPrice(req) > 0, FillQuantity(req) > 0
    PROVE  /\ ExecutionPrice(req) \in Nat \ {0}
           /\ FillQuantity(req) \in Nat \ {0}
           /\ FillQuantity(req) <= req.quantity
<1>1. ExecutionPrice(req) \in Int
  BY ExecutionPriceType
<1>2. FillQuantity(req) \in Int /\ FillQuantity(req) <= req.quantity
  BY FillQuantityFits
<1>3. QED  BY <1>1, <1>2

LEMMA TwoEntries ==
    ASSUME TypeOK, NEW o \in Nat, NEW placed \in Nat, NEW filled \in Nat
    PROVE  trail \o FillEntries(o, placed, filled)
              = Append(Append(trail, Audit("order.placed", o, placed)),
                       Audit("order.filled", o, filled))
<1> DEFINE a == Audit("order.placed", o, placed)
           b == Audit("order.filled", o, filled)
           E == [event : Event, order : Nat, quantity : Nat]
<1>1. trail \in Seq(E) /\ a \in E /\ b \in E
  BY DEF TypeOK, Audit, Event
<1> HIDE DEF a, b, E
<1>2. trail \o <<a, b>> = Append(Append(trail, a), b)
  BY <1>1
<1>3. QED  BY <1>2 DEF FillEntries, a, b

LEMMA Steps ==
    ASSUME TypeOK, Next
    PROVE  Quiet \/ Noted \/ Entered \/ Filled \/ Cancelled
<1>1. CASE PlaceBlocked
  BY <1>1 DEF PlaceBlocked, vars, book, Quiet
<1>2. ASSUME NEW req \in Request, PlaceRejected(req)
      PROVE  Entered
  BY <1>2 DEF PlaceRejected, Entered
<1>3. ASSUME NEW req \in Request, PlaceStranded(req)
      PROVE  Entered
  BY <1>3 DEF PlaceStranded, Entered
<1>4. ASSUME NEW req \in Request, PlaceResting(req)
      PROVE  Entered
  BY <1>4 DEF PlaceResting, Entered
<1>5. ASSUME NEW req \in Request, PlaceFilled(req)
      PROVE  Filled
  <2>1. ~Rejects(req) /\ ExecutionPrice(req) > 0 /\ FillQuantity(req) > 0
    BY <1>5 DEF PlaceFilled
  <2>2. /\ ExecutionPrice(req) \in Nat \ {0}
        /\ FillQuantity(req) \in Nat \ {0}
        /\ FillQuantity(req) <= req.quantity
    BY <2>1, FillType
  <2>3. trail' = Append(Append(trail, Audit("order.placed", Len(orders) + 1, req.quantity)),
                        Audit("order.filled", Len(orders) + 1, FillQuantity(req)))
    <3>1. Len(orders) + 1 \in Nat /\ req.quantity \in Nat
      BY RequestType DEF TypeOK
    <3>2. QED  BY <1>5, <2>2, <3>1, TwoEntries DEF PlaceFilled
  <2>4. QED  BY <1>5, <2>2, <2>3 DEF PlaceFilled, Filled
<1>6. ASSUME NEW o \in DOMAIN orders, Cancel(o)
      PROVE  Cancelled
  BY <1>6 DEF Cancel, Cancelled
<1>7. ASSUME NEW o \in DOMAIN orders, CancelTerminal(o)
      PROVE  Quiet
  BY <1>7 DEF CancelTerminal, vars, book, Quiet
<1>9. ASSUME NEW s \in Symbol, NEW price \in QuotePrice, set_quote(s, price)
      PROVE  Quiet
  BY <1>9 DEF set_quote, Quiet
<1>10. ASSUME NEW s \in Symbol, NEW spec \in InstrumentSpec, register_instrument(s, spec)
       PROVE  Quiet
  BY <1>10 DEF register_instrument, book, Quiet
<1>11. ASSUME NEW event \in {"broker.connect", "broker.disconnect"}, Session(event)
       PROVE  Noted
  BY <1>11 DEF Session, book, Noted, Notice, TypeOK
<1>12. CASE engage
  BY <1>12 DEF engage, book, Noted, Notice
<1>13. CASE reset
  BY <1>13 DEF reset, book, Noted, Notice
<1>14. CASE check_loss
  BY <1>14 DEF check_loss, book, Noted, Notice
<1>15. QED
  BY <1>1, <1>2, <1>3, <1>4, <1>5, <1>6, <1>7, <1>9, <1>10, <1>11, <1>12,
     <1>13, <1>14 DEF Next, place_order

----------------------------------------------------------------------------
(* Types. *)

TrailEntry == [event : Event, order : Nat, quantity : Nat]

LEMMA TypeInit == Init => TypeOK
<1> SUFFICES ASSUME Init PROVE TypeOK
  OBVIOUS
<1>1. Whole(0) \in Fraction
  BY WholeType
<1>2. Flat \in PositionRecord /\ NoHold \in HoldingRecord
  BY <1>1 DEF Flat, NoHold, PositionRecord, HoldingRecord
<1>3. /\ positions \in [Symbol -> PositionRecord]
      /\ holdings \in [Symbol -> HoldingRecord]
  BY <1>2 DEF Init
<1>4. /\ orders \in Seq(Order) /\ fills \in Seq(Fill) /\ trail \in Seq(TrailEntry)
  BY DEF Init
<1>5. /\ cash \in Int
      /\ quotes \in [Symbol -> QuotePrice \union {None}]
      /\ specs \in [Symbol -> InstrumentSpec]
      /\ engaged \in BOOLEAN
  BY PaperAssumption DEF Init
<1>6. QED
  BY <1>3, <1>4, <1>5 DEF TypeOK, PositionRecord, HoldingRecord, TrailEntry

(* What a step writes to orders, fills and the trail keeps their types. *)
LEMMA WrittenType ==
    ASSUME TypeOK, Quiet \/ Noted \/ Entered \/ Filled \/ Cancelled
    PROVE  /\ orders' \in Seq(Order)
           /\ fills' \in Seq(Fill)
           /\ trail' \in Seq(TrailEntry)
           /\ engaged' \in BOOLEAN
<1>0. /\ orders \in Seq(Order) /\ fills \in Seq(Fill)
      /\ trail \in Seq(TrailEntry) /\ engaged \in BOOLEAN
  BY DEF TypeOK, TrailEntry
<1>1. CASE Quiet
  BY <1>0, <1>1 DEF Quiet
<1>2. CASE Noted
  <2>1. PICK event \in Notice :
            /\ trail' = Append(trail, Audit(event, 0, 0))
            /\ engaged' \in BOOLEAN
            /\ UNCHANGED <<orders, fills>>
    BY <1>2 DEF Noted
  <2>2. Audit(event, 0, 0) \in TrailEntry
    BY DEF Notice, Audit, TrailEntry, Event
  <2>3. QED  BY <1>0, <2>1, <2>2
<1>3. CASE Entered
  <2>1. PICK req \in Request, status \in {"REJECTED", "PENDING", "OPEN"} :
            /\ orders' = Append(orders, NewOrder(req, status, 0, 0))
            /\ trail' = Append(trail, Audit(IF status = "REJECTED" THEN "order.rejected"
                                            ELSE "order.placed", Len(orders) + 1, req.quantity))
            /\ UNCHANGED <<fills, engaged>>
    BY <1>3 DEF Entered
  <2>2. NewOrder(req, status, 0, 0) \in Order
    BY DEF NewOrder, Order, Status
  <2>3. Audit(IF status = "REJECTED" THEN "order.rejected" ELSE "order.placed",
              Len(orders) + 1, req.quantity) \in TrailEntry
    BY <1>0, RequestType DEF Audit, TrailEntry, Event
  <2>4. QED  BY <1>0, <2>1, <2>2, <2>3
<1>4. CASE Filled
  <2> DEFINE o == Len(orders) + 1
  <2>1. PICK req \in Request, qty \in Nat \ {0}, price \in Nat \ {0} :
            /\ orders' = Append(orders, NewOrder(req, FilledStatus(req, qty), qty, price))
            /\ fills' = Append(fills, [order |-> o, symbol |-> req.symbol, side |-> req.side,
                                       quantity |-> qty, price |-> price])
            /\ trail' = Append(Append(trail, Audit("order.placed", o, req.quantity)),
                               Audit("order.filled", o, qty))
            /\ UNCHANGED engaged
    BY <1>4 DEF Filled
  <2>2. NewOrder(req, FilledStatus(req, qty), qty, price) \in Order
    BY DEF NewOrder, Order, Status, FilledStatus
  <2>3. [order |-> o, symbol |-> req.symbol, side |-> req.side,
         quantity |-> qty, price |-> price] \in Fill
    BY <1>0, RequestType DEF Fill
  <2>4. /\ Audit("order.placed", o, req.quantity) \in TrailEntry
        /\ Audit("order.filled", o, qty) \in TrailEntry
    BY <1>0, RequestType DEF Audit, TrailEntry, Event
  <2>5. Append(trail, Audit("order.placed", o, req.quantity)) \in Seq(TrailEntry)
    BY <1>0, <2>4
  <2>6. QED  BY <1>0, <2>1, <2>2, <2>3, <2>4, <2>5
<1>5. CASE Cancelled
  <2>1. PICK o \in DOMAIN orders :
            /\ orders' = [orders EXCEPT ![o].status = "CANCELLED"]
            /\ trail' = Append(trail, Audit("order.cancelled", o, 0))
            /\ UNCHANGED <<fills, engaged>>
    BY <1>5 DEF Cancelled
  <2>2. orders[o] \in Order /\ o \in Nat
    BY <1>0
  <2>3. [orders[o] EXCEPT !.status = "CANCELLED"] \in Order
    BY <2>2 DEF Order, Status
  <2>4. Audit("order.cancelled", o, 0) \in TrailEntry
    BY <2>2 DEF Audit, TrailEntry, Event
  <2>5. orders' \in Seq(Order)
    BY <1>0, <2>1, <2>3
  <2>6. QED  BY <1>0, <2>1, <2>4, <2>5
<1>6. QED  BY <1>1, <1>2, <1>3, <1>4, <1>5

(* The book a fill leaves behind. *)
LEMMA FilledBookType ==
    ASSUME TypeOK, NEW req \in Request, PlaceFilled(req)
    PROVE  /\ positions' \in [Symbol -> PositionRecord]
           /\ holdings' \in [Symbol -> HoldingRecord]
           /\ cash' \in Int
<1> DEFINE price == ExecutionPrice(req)
           qty == FillQuantity(req)
           n == Signed(req.side, qty)
<1>1. price \in Nat \ {0} /\ qty \in Nat \ {0}
  BY FillType DEF PlaceFilled
<1>2. n \in Int \ {0}
  BY <1>1 DEF Signed
<1>3. /\ positions' = [positions EXCEPT ![req.symbol] = Traded(@, n, price)]
      /\ holdings' = Delivered(req, n, price)
      /\ cash' = cash - price * n
  BY DEF PlaceFilled
<1> HIDE DEF price, qty, n
<1>4. req.symbol \in Symbol
  BY RequestType
<1>5. /\ positions \in [Symbol -> PositionRecord]
      /\ holdings \in [Symbol -> HoldingRecord]
      /\ cash \in Int
  BY DEF TypeOK, PositionRecord, HoldingRecord
<1>6. Traded(positions[req.symbol], n, price) \in PositionRecord
  BY <1>1, <1>2, <1>4, <1>5, TradedType
<1>7. n > 0 => Bought(holdings[req.symbol], n, price) \in HoldingRecord
  BY <1>1, <1>2, <1>4, <1>5, BoughtType
<1>8. Delivered(req, n, price) \in [Symbol -> HoldingRecord]
  BY <1>5, <1>7 DEF Delivered
<1>9. price * n \in Int
  BY <1>1, <1>2
<1>10. positions' \in [Symbol -> PositionRecord]
  BY <1>3, <1>5, <1>6
<1>11. QED  BY <1>3, <1>5, <1>8, <1>9, <1>10

LEMMA TypeNext == TypeOK /\ [Next]_vars => TypeOK'
<1> SUFFICES ASSUME TypeOK, [Next]_vars PROVE TypeOK'
  OBVIOUS
<1>1. /\ positions \in [Symbol -> PositionRecord]
      /\ holdings \in [Symbol -> HoldingRecord]
      /\ cash \in Int
      /\ quotes \in [Symbol -> QuotePrice \union {None}]
      /\ specs \in [Symbol -> InstrumentSpec]
  BY DEF TypeOK, PositionRecord, HoldingRecord
<1>2. CASE UNCHANGED vars
  BY <1>2 DEF TypeOK, vars, book
<1>3. CASE Next
  <2>1. /\ orders' \in Seq(Order) /\ fills' \in Seq(Fill)
        /\ trail' \in Seq(TrailEntry) /\ engaged' \in BOOLEAN
    BY <1>3, Steps, WrittenType
  <2> DEFINE Rest == /\ positions' \in [Symbol -> PositionRecord]
                     /\ holdings' \in [Symbol -> HoldingRecord]
                     /\ cash' \in Int
                     /\ quotes' \in [Symbol -> QuotePrice \union {None}]
                     /\ specs' \in [Symbol -> InstrumentSpec]
  <2>2. ASSUME NEW req \in Request, PlaceFilled(req) PROVE Rest
    BY <1>1, <2>2, FilledBookType DEF PlaceFilled
  <2>3. ASSUME NEW req \in Request,
               PlaceRejected(req) \/ PlaceStranded(req) \/ PlaceResting(req)
        PROVE  Rest
    BY <1>1, <2>3 DEF PlaceRejected, PlaceStranded, PlaceResting
  <2>4. ASSUME NEW o \in DOMAIN orders, Cancel(o) \/ CancelTerminal(o) PROVE Rest
    BY <1>1, <2>4 DEF Cancel, CancelTerminal, book, vars
  <2>5. ASSUME NEW s \in Symbol, NEW price \in QuotePrice, set_quote(s, price) PROVE Rest
    <3>1. price \in Nat
      BY PaperAssumption
    <3>2. [positions[s] EXCEPT !.last = price] \in PositionRecord
      BY <1>1, <3>1 DEF PositionRecord
    <3>3. positions' \in [Symbol -> PositionRecord]
      BY <1>1, <2>5, <3>2 DEF set_quote
    <3>4. QED  BY <1>1, <2>5, <3>3 DEF set_quote
  <2>6. ASSUME NEW s \in Symbol, NEW spec \in InstrumentSpec, register_instrument(s, spec)
        PROVE  Rest
    BY <1>1, <2>6 DEF register_instrument, book
  <2>7. ASSUME PlaceBlocked \/ engage \/ reset \/ check_loss PROVE Rest
    BY <1>1, <2>7 DEF PlaceBlocked, engage, reset, check_loss, book, vars
  <2>8. ASSUME NEW event \in {"broker.connect", "broker.disconnect"}, Session(event)
        PROVE  Rest
    BY <1>1, <2>8 DEF Session, book
  <2> HIDE DEF Rest
  <2>9. Rest
    BY <1>3, <2>2, <2>3, <2>4, <2>5, <2>6, <2>7, <2>8 DEF Next, place_order
  <2>10. QED
    BY <2>1, <2>9 DEF Rest, TypeOK, PositionRecord, HoldingRecord, TrailEntry
<1>4. QED  BY <1>2, <1>3

(* Every variable keeps its type; in particular what _execute fills has a  *)
(* positive quantity and price, whatever the slippage, the ticks and the   *)
(* lots.                                                                   *)
THEOREM TypeCorrect == Spec => []TypeOK
<1>1. QED  BY TypeInit, TypeNext, PTL DEF Spec

----------------------------------------------------------------------------
(* Orders and fills. *)

LEMMA OrdersMatchFillsNext ==
    ASSUME TypeOK, OrdersMatchFills, Quiet \/ Noted \/ Entered \/ Filled \/ Cancelled
    PROVE  OrdersMatchFills'
<1>0. orders \in Seq(Order) /\ fills \in Seq(Fill)
  BY DEF TypeOK
<1>1. CASE Quiet \/ Noted
  BY <1>1 DEF Quiet, Noted, OrdersMatchFills
<1>2. CASE Entered
  <2>1. PICK req \in Request, status \in {"REJECTED", "PENDING", "OPEN"} :
            /\ orders' = Append(orders, NewOrder(req, status, 0, 0))
            /\ UNCHANGED <<fills, engaged>>
    BY <1>2 DEF Entered
  <2> DEFINE new == NewOrder(req, status, 0, 0)
  <2>2. /\ new.request = req /\ new.status = status /\ new.filled = 0
        /\ req.quantity \in Nat \ {0}
    BY RequestType DEF NewOrder
  <2> HIDE DEF new
  <2>3. /\ DOMAIN orders' = 1..(Len(orders) + 1)
        /\ \A o \in DOMAIN orders : o \in DOMAIN orders' /\ orders'[o] = orders[o]
        /\ orders'[Len(orders) + 1] = new
    BY <1>0, <2>1 DEF new
  <2>4. DOMAIN orders = 1..Len(orders) /\ fills' = fills
    BY <1>0, <2>1
  <2>5. QED  BY <2>2, <2>3, <2>4 DEF OrdersMatchFills
<1>3. CASE Filled
  <2> DEFINE n == Len(orders) + 1
             m == Len(fills) + 1
  <2>1. PICK req \in Request, qty \in Nat \ {0}, price \in Nat \ {0} :
            /\ qty <= req.quantity
            /\ orders' = Append(orders, NewOrder(req, FilledStatus(req, qty), qty, price))
            /\ fills' = Append(fills, [order |-> n, symbol |-> req.symbol, side |-> req.side,
                                       quantity |-> qty, price |-> price])
    BY <1>3 DEF Filled
  <2> DEFINE new == NewOrder(req, FilledStatus(req, qty), qty, price)
             fill == [order |-> n, symbol |-> req.symbol, side |-> req.side,
                      quantity |-> qty, price |-> price]
  <2>2. /\ new.request = req /\ new.filled = qty /\ new.average = price
        /\ new.status \in {"COMPLETE", "PARTIAL"}
        /\ new.status = "COMPLETE" <=> qty = req.quantity
        /\ req.quantity \in Nat \ {0}
    BY <2>1, RequestType DEF NewOrder, FilledStatus
  <2>3. /\ fill.order = n /\ fill.symbol = req.symbol /\ fill.side = req.side
        /\ fill.quantity = qty /\ fill.price = price
    OBVIOUS
  <2> HIDE DEF new, fill
  <2>4. /\ DOMAIN orders' = 1..n /\ DOMAIN orders = 1..(n - 1)
        /\ \A o \in DOMAIN orders : orders'[o] = orders[o]
        /\ orders'[n] = new
        /\ n \in Nat \ {0}
    BY <1>0, <2>1 DEF new
  <2>5. /\ DOMAIN fills' = 1..m /\ DOMAIN fills = 1..(m - 1)
        /\ \A i \in DOMAIN fills : fills'[i] = fills[i]
        /\ fills'[m] = fill
        /\ m \in Nat \ {0}
    BY <1>0, <2>1 DEF fill
  <2> HIDE DEF n, m
  <2>6. \A i \in DOMAIN fills : fills[i].order \in DOMAIN orders
    BY DEF OrdersMatchFills
  <2>7. ASSUME NEW i \in DOMAIN fills'
        PROVE  LET o == fills'[i].order
               IN  /\ o \in DOMAIN orders'
                   /\ orders'[o].filled = fills'[i].quantity
                   /\ orders'[o].average = fills'[i].price
                   /\ orders'[o].request.symbol = fills'[i].symbol
                   /\ orders'[o].request.side = fills'[i].side
                   /\ \A j \in DOMAIN fills' : fills'[j].order = o => j = i
    <3>1. CASE i = m
      <4>1. fills'[i].order = n /\ n \in DOMAIN orders'
        BY <2>3, <2>4, <2>5, <3>1
      <4>2. ASSUME NEW j \in DOMAIN fills', fills'[j].order = n PROVE j = m
        <5>1. CASE j \in DOMAIN fills
          <6>1. fills'[j] = fills[j] /\ fills[j].order \in 1..(n - 1)
            BY <2>4, <2>5, <2>6, <5>1
          <6>2. QED  BY <2>4, <4>2, <6>1
        <5>2. QED  BY <2>5, <5>1
      <4>3. QED  BY <2>2, <2>3, <2>4, <2>5, <3>1, <4>1, <4>2
    <3>2. CASE i \in DOMAIN fills
      <4>1. fills[i].order \in DOMAIN orders /\ fills[i].order # n
        BY <2>4, <2>6, <3>2
      <4>2. /\ fills'[i] = fills[i]
            /\ fills[i].order \in DOMAIN orders'
            /\ orders'[fills[i].order] = orders[fills[i].order]
        BY <2>4, <2>5, <3>2, <4>1
      <4>3. ASSUME NEW j \in DOMAIN fills', fills'[j].order = fills[i].order PROVE j = i
        <5>1. j # m
          BY <2>3, <2>5, <4>1, <4>3
        <5>2. j \in DOMAIN fills /\ fills'[j] = fills[j]
          BY <2>5, <5>1
        <5>3. QED  BY <3>2, <4>3, <5>2 DEF OrdersMatchFills
      <4>4. /\ orders[fills[i].order].filled = fills[i].quantity
            /\ orders[fills[i].order].average = fills[i].price
            /\ orders[fills[i].order].request.symbol = fills[i].symbol
            /\ orders[fills[i].order].request.side = fills[i].side
        BY <3>2 DEF OrdersMatchFills
      <4>5. QED  BY <4>2, <4>3, <4>4
    <3>3. QED  BY <2>5, <3>1, <3>2
  <2>8. ASSUME NEW o \in DOMAIN orders'
        PROVE  LET filled == orders'[o].filled
                   asked  == orders'[o].request.quantity
                   status == orders'[o].status
               IN  /\ filled > 0 => \E i \in DOMAIN fills' : fills'[i].order = o
                   /\ filled <= asked
                   /\ status = "COMPLETE" <=> filled = asked
                   /\ status = "PARTIAL" => filled > 0
                   /\ status \in {"PENDING", "OPEN", "REJECTED"} => filled = 0
    <3>1. CASE o = n
      <4>1. fills'[m].order = o /\ m \in DOMAIN fills'
        BY <2>3, <2>5, <3>1
      <4>2. orders'[o] = new
        BY <2>4, <3>1
      <4>3. /\ orders'[o].filled <= orders'[o].request.quantity
            /\ orders'[o].status \in {"COMPLETE", "PARTIAL"}
            /\ orders'[o].status = "COMPLETE" <=>
                  orders'[o].filled = orders'[o].request.quantity
            /\ orders'[o].filled > 0
        BY <2>1, <2>2, <4>2
      <4>4. QED  BY <4>1, <4>3
    <3>2. CASE o \in DOMAIN orders
      BY <2>4, <2>5, <3>2 DEF OrdersMatchFills
    <3>3. QED  BY <2>4, <3>1, <3>2
  <2>9. QED  BY <2>7, <2>8 DEF OrdersMatchFills
<1>4. CASE Cancelled
  <2>1. PICK c \in DOMAIN orders :
            /\ orders[c].status \notin Terminal
            /\ orders' = [orders EXCEPT ![c].status = "CANCELLED"]
            /\ UNCHANGED <<fills, engaged>>
    BY <1>4 DEF Cancelled
  <2>2. \A o \in DOMAIN orders : orders[o] \in Order
    BY <1>0
  <2>3. /\ DOMAIN orders' = DOMAIN orders /\ fills' = fills
        /\ \A o \in DOMAIN orders : o # c => orders'[o] = orders[o]
        /\ orders'[c] = [orders[c] EXCEPT !.status = "CANCELLED"]
    BY <1>0, <2>1
  <2>4. \A o \in DOMAIN orders : /\ orders'[o].request = orders[o].request
                                 /\ orders'[o].filled = orders[o].filled
                                 /\ orders'[o].average = orders[o].average
    BY <2>2, <2>3 DEF Order
  <2>5. orders'[c].status = "CANCELLED" /\ orders[c].status # "COMPLETE"
    BY <2>1, <2>2, <2>3 DEF Order, Terminal
  <2>6. ASSUME NEW o \in DOMAIN orders
        PROVE  /\ orders'[o].status = "COMPLETE" <=> orders[o].status = "COMPLETE"
               /\ orders'[o].status \in {"PARTIAL", "PENDING", "OPEN", "REJECTED"} =>
                     orders'[o].status = orders[o].status
    BY <2>3, <2>5
  <2>7. ASSUME NEW o \in DOMAIN orders
        PROVE  LET filled == orders'[o].filled
                   asked  == orders'[o].request.quantity
                   status == orders'[o].status
               IN  /\ filled > 0 => \E i \in DOMAIN fills : fills[i].order = o
                   /\ filled <= asked
                   /\ status = "COMPLETE" <=> filled = asked
                   /\ status = "PARTIAL" => filled > 0
                   /\ status \in {"PENDING", "OPEN", "REJECTED"} => filled = 0
    BY <2>4, <2>6 DEF OrdersMatchFills
  <2>8. ASSUME NEW i \in DOMAIN fills
        PROVE  LET o == fills[i].order
               IN  /\ o \in DOMAIN orders
                   /\ orders'[o].filled = fills[i].quantity
                   /\ orders'[o].average = fills[i].price
                   /\ orders'[o].request.symbol = fills[i].symbol
                   /\ orders'[o].request.side = fills[i].side
                   /\ \A j \in DOMAIN fills : fills[j].order = o => j = i
    BY <2>4 DEF OrdersMatchFills
  <2>9. QED  BY <2>3, <2>7, <2>8 DEF OrdersMatchFills
<1>5. QED  BY <1>1, <1>2, <1>3, <1>4

----------------------------------------------------------------------------
(* The trail. *)

Says(t, i, event, o) == t[i].event = event /\ t[i].order = o

OnceIn(t, event, o) ==
    \E i \in DOMAIN t : \A j \in DOMAIN t : Says(t, j, event, o) <=> j = i

NeverIn(t, event, o) == \A j \in DOMAIN t : ~Says(t, j, event, o)

LEMMA Tallies ==
    ASSUME NEW event, NEW o
    PROVE  /\ Once(event, o) <=> OnceIn(trail, event, o)
           /\ Never(event, o) <=> NeverIn(trail, event, o)
           /\ Once(event, o)' <=> OnceIn(trail', event, o)
           /\ Never(event, o)' <=> NeverIn(trail', event, o)
  BY DEF Once, Never, OnceIn, NeverIn, Says, Records

(* An entry that says something else changes no tally; the first that says *)
(* it makes it one.                                                        *)
LEMMA Tallied ==
    ASSUME NEW t \in Seq(TrailEntry), NEW e \in TrailEntry, NEW event, NEW o
    PROVE  /\ ~(e.event = event /\ e.order = o) =>
                  /\ OnceIn(t, event, o) => OnceIn(Append(t, e), event, o)
                  /\ NeverIn(t, event, o) => NeverIn(Append(t, e), event, o)
           /\ (e.event = event /\ e.order = o) =>
                  (NeverIn(t, event, o) => OnceIn(Append(t, e), event, o))
<1> DEFINE u == Append(t, e)
           n == Len(t) + 1
<1>1. /\ DOMAIN u = 1..n /\ DOMAIN t = 1..(n - 1) /\ n \in Nat
      /\ \A j \in DOMAIN t : j \in DOMAIN u /\ j # n /\ u[j] = t[j]
      /\ n \in DOMAIN u /\ u[n] = e
      /\ \A j \in DOMAIN u : j = n \/ j \in DOMAIN t
  OBVIOUS
<1> HIDE DEF u, n
<1>2. \A j \in DOMAIN t : Says(u, j, event, o) <=> Says(t, j, event, o)
  BY <1>1 DEF Says
<1>3. ASSUME ~(e.event = event /\ e.order = o)
      PROVE  /\ OnceIn(t, event, o) => OnceIn(u, event, o)
             /\ NeverIn(t, event, o) => NeverIn(u, event, o)
  <2>1. ~Says(u, n, event, o)
    BY <1>1, <1>3 DEF Says
  <2>2. QED  BY <1>1, <1>2, <2>1 DEF OnceIn, NeverIn
<1>4. ASSUME e.event = event, e.order = o, NeverIn(t, event, o)
      PROVE  OnceIn(u, event, o)
  <2>1. Says(u, n, event, o)
    BY <1>1, <1>4 DEF Says
  <2>2. QED  BY <1>1, <1>2, <1>4, <2>1 DEF OnceIn, NeverIn
<1>5. QED  BY <1>3, <1>4 DEF u

LEMMA TrailMatchesBookNext ==
    ASSUME TypeOK, OrdersMatchFills, TrailMatchesBook,
           Quiet \/ Noted \/ Entered \/ Filled \/ Cancelled
    PROVE  TrailMatchesBook'
<1> DEFINE Told(os, t, o) ==
        /\ IF os[o].status = "REJECTED" THEN OnceIn(t, "order.rejected", o)
                                        ELSE NeverIn(t, "order.rejected", o)
        /\ IF os[o].status # "REJECTED" THEN OnceIn(t, "order.placed", o)
                                        ELSE NeverIn(t, "order.placed", o)
        /\ IF os[o].filled > 0 THEN OnceIn(t, "order.filled", o)
                               ELSE NeverIn(t, "order.filled", o)
        /\ IF os[o].status = "CANCELLED" THEN OnceIn(t, "order.cancelled", o)
                                         ELSE NeverIn(t, "order.cancelled", o)
<1>0. orders \in Seq(Order) /\ fills \in Seq(Fill) /\ trail \in Seq(TrailEntry)
  BY DEF TypeOK, TrailEntry
<1>1. \A o \in DOMAIN orders : Told(orders, trail, o)
  BY Tallies DEF TrailMatchesBook, IfElseNever
<1>2. \A i \in DOMAIN trail : trail[i].order \in 0..Len(orders)
  BY DEF TrailMatchesBook
<1>3. SUFFICES /\ \A o \in DOMAIN orders' : Told(orders', trail', o)
               /\ \A i \in DOMAIN trail' : trail'[i].order \in 0..Len(orders')
  <2>1. \A o \in DOMAIN orders' :
           /\ IfElseNever(orders[o].status = "REJECTED", "order.rejected", o)'
           /\ IfElseNever(orders[o].status # "REJECTED", "order.placed", o)'
           /\ IfElseNever(orders[o].filled > 0, "order.filled", o)'
           /\ IfElseNever(orders[o].status = "CANCELLED", "order.cancelled", o)'
    BY <1>3, Tallies DEF IfElseNever
  <2>2. QED  BY <1>3, <2>1 DEF TrailMatchesBook
<1>4. ASSUME NEW o \in Nat, o > Len(orders)
      PROVE  \A event \in Event : NeverIn(trail, event, o)
  BY <1>0, <1>2, <1>4 DEF NeverIn, Says
<1>5. CASE Quiet
  BY <1>1, <1>2, <1>5 DEF Quiet
<1>6. CASE Noted
  <2>1. PICK event \in Notice :
            /\ trail' = Append(trail, Audit(event, 0, 0))
            /\ UNCHANGED <<orders, fills>>
    BY <1>6 DEF Noted
  <2>2. Audit(event, 0, 0) \in TrailEntry /\ Audit(event, 0, 0).order = 0
    BY DEF Notice, Audit, TrailEntry, Event
  <2>3. ASSUME NEW o \in DOMAIN orders PROVE Told(orders, trail', o)
    <3>1. o # 0
      BY <1>0
    <3>2. Told(orders, trail, o)
      BY <1>1
    <3>3. QED  BY <1>0, <2>1, <2>2, <3>1, <3>2, Tallied
  <2>4. \A i \in DOMAIN trail' : trail'[i].order \in 0..Len(orders)
    BY <1>0, <1>2, <2>1, <2>2
  <2>5. QED  BY <2>1, <2>3, <2>4
<1>7. CASE Entered
  <2> DEFINE n == Len(orders) + 1
  <2>1. PICK req \in Request, status \in {"REJECTED", "PENDING", "OPEN"} :
            /\ orders' = Append(orders, NewOrder(req, status, 0, 0))
            /\ trail' = Append(trail, Audit(IF status = "REJECTED" THEN "order.rejected"
                                            ELSE "order.placed", n, req.quantity))
    BY <1>7 DEF Entered
  <2> DEFINE e == Audit(IF status = "REJECTED" THEN "order.rejected" ELSE "order.placed",
                        n, req.quantity)
             new == NewOrder(req, status, 0, 0)
  <2>2. /\ e \in TrailEntry /\ e.order = n
        /\ e.event = IF status = "REJECTED" THEN "order.rejected" ELSE "order.placed"
    BY <1>0, RequestType DEF Audit, TrailEntry, Event
  <2>3. new.status = status /\ new.filled = 0
    BY DEF NewOrder
  <2> HIDE DEF e, new
  <2>4. /\ DOMAIN orders' = 1..n /\ DOMAIN orders = 1..(n - 1) /\ n \in Nat \ {0}
        /\ \A o \in DOMAIN orders : orders'[o] = orders[o]
        /\ orders'[n] = new
        /\ Len(orders') = n /\ n > Len(orders)
    BY <1>0, <2>1 DEF new
  <2>5. trail' = Append(trail, e)
    BY <2>1 DEF e
  <2> HIDE DEF n
  <2>6. Told(orders', trail', n)
    <3>1. /\ NeverIn(trail, "order.rejected", n) /\ NeverIn(trail, "order.placed", n)
          /\ NeverIn(trail, "order.filled", n) /\ NeverIn(trail, "order.cancelled", n)
      BY <1>4, <2>4 DEF Event
    <3>2. /\ NeverIn(trail', "order.filled", n) /\ NeverIn(trail', "order.cancelled", n)
      BY <1>0, <2>2, <2>5, <3>1, Tallied
    <3>3. CASE status = "REJECTED"
      <4>1. OnceIn(trail', "order.rejected", n) /\ NeverIn(trail', "order.placed", n)
        BY <1>0, <2>2, <2>5, <3>1, <3>3, Tallied
      <4>2. QED  BY <2>3, <2>4, <3>2, <3>3, <4>1
    <3>4. CASE status # "REJECTED"
      <4>1. NeverIn(trail', "order.rejected", n) /\ OnceIn(trail', "order.placed", n)
        BY <1>0, <2>2, <2>5, <3>1, <3>4, Tallied
      <4>2. status # "CANCELLED"
        OBVIOUS
      <4>3. QED  BY <2>3, <2>4, <3>2, <3>4, <4>1, <4>2
    <3>5. QED  BY <3>3, <3>4
  <2>7. ASSUME NEW o \in DOMAIN orders PROVE Told(orders', trail', o)
    <3>1. o # n /\ orders'[o] = orders[o]
      BY <2>4
    <3>2. Told(orders, trail, o)
      BY <1>1
    <3>3. QED  BY <1>0, <2>2, <2>5, <3>1, <3>2, Tallied
  <2>8. \A i \in DOMAIN trail' : trail'[i].order \in 0..n
    BY <1>0, <1>2, <2>2, <2>4, <2>5
  <2>9. QED  BY <2>4, <2>6, <2>7, <2>8
<1>8. CASE Filled
  <2> DEFINE n == Len(orders) + 1
  <2>1. PICK req \in Request, qty \in Nat \ {0}, price \in Nat \ {0} :
            /\ orders' = Append(orders, NewOrder(req, FilledStatus(req, qty), qty, price))
            /\ trail' = Append(Append(trail, Audit("order.placed", n, req.quantity)),
                               Audit("order.filled", n, qty))
    BY <1>8 DEF Filled
  <2> DEFINE a == Audit("order.placed", n, req.quantity)
             b == Audit("order.filled", n, qty)
             new == NewOrder(req, FilledStatus(req, qty), qty, price)
  <2>2. /\ a \in TrailEntry /\ a.order = n /\ a.event = "order.placed"
        /\ b \in TrailEntry /\ b.order = n /\ b.event = "order.filled"
    BY <1>0, RequestType DEF Audit, TrailEntry, Event
  <2>3. new.status \notin {"REJECTED", "CANCELLED"} /\ new.filled > 0
    BY DEF NewOrder, FilledStatus
  <2> DEFINE t == Append(trail, a)
  <2> HIDE DEF a, b, new
  <2>4. /\ DOMAIN orders' = 1..n /\ DOMAIN orders = 1..(n - 1) /\ n \in Nat \ {0}
        /\ \A o \in DOMAIN orders : orders'[o] = orders[o]
        /\ orders'[n] = new
        /\ Len(orders') = n /\ n > Len(orders)
    BY <1>0, <2>1 DEF new
  <2>5. t \in Seq(TrailEntry) /\ trail' = Append(t, b)
    BY <1>0, <2>1, <2>2 DEF a, b
  <2> HIDE DEF n
  <2>6. Told(orders', trail', n)
    <3>1. /\ NeverIn(trail, "order.rejected", n) /\ NeverIn(trail, "order.placed", n)
          /\ NeverIn(trail, "order.filled", n) /\ NeverIn(trail, "order.cancelled", n)
      BY <1>4, <2>4 DEF Event
    <3>2. /\ NeverIn(t, "order.rejected", n) /\ OnceIn(t, "order.placed", n)
          /\ NeverIn(t, "order.filled", n) /\ NeverIn(t, "order.cancelled", n)
      BY <1>0, <2>2, <3>1, Tallied
    <3> HIDE DEF t
    <3>3. /\ NeverIn(trail', "order.rejected", n) /\ OnceIn(trail', "order.placed", n)
          /\ OnceIn(trail', "order.filled", n) /\ NeverIn(trail', "order.cancelled", n)
      BY <2>2, <2>5, <3>2, Tallied
    <3>4. QED  BY <2>3, <2>4, <3>3
  <2>7. ASSUME NEW o \in DOMAIN orders PROVE Told(orders', trail', o)
    <3>1. o # n /\ orders'[o] = orders[o]
      BY <2>4
    <3>2. Told(orders, trail, o)
      BY <1>1
    <3>3. Told(orders, t, o)
      BY <1>0, <2>2, <3>1, <3>2, Tallied
    <3> HIDE DEF t
    <3>4. QED  BY <2>2, <2>5, <3>1, <3>3, Tallied
  <2>8. \A i \in DOMAIN t : t[i].order \in 0..n
    BY <1>0, <1>2, <2>2, <2>4
  <2> HIDE DEF t
  <2>9. \A i \in DOMAIN trail' : trail'[i].order \in 0..n
    BY <2>2, <2>4, <2>5, <2>8
  <2>10. QED  BY <2>4, <2>6, <2>7, <2>9
<1>9. CASE Cancelled
  <2>1. PICK c \in DOMAIN orders :
            /\ orders[c].status \notin Terminal
            /\ orders' = [orders EXCEPT ![c].status = "CANCELLED"]
            /\ trail' = Append(trail, Audit("order.cancelled", c, 0))
    BY <1>9 DEF Cancelled
  <2> DEFINE e == Audit("order.cancelled", c, 0)
  <2>2. e \in TrailEntry /\ e.order = c /\ e.event = "order.cancelled"
    BY <1>0 DEF Audit, TrailEntry, Event
  <2> HIDE DEF e
  <2>3. \A o \in DOMAIN orders : orders[o] \in Order
    BY <1>0
  <2>4. /\ DOMAIN orders' = DOMAIN orders /\ Len(orders') = Len(orders)
        /\ \A o \in DOMAIN orders : o # c => orders'[o] = orders[o]
        /\ orders'[c] = [orders[c] EXCEPT !.status = "CANCELLED"]
    BY <1>0, <2>1
  <2>5. orders'[c].status = "CANCELLED" /\ orders'[c].filled = orders[c].filled
    BY <2>3, <2>4 DEF Order
  <2>6. orders[c].status \notin {"REJECTED", "CANCELLED"}
    BY <2>1 DEF Terminal
  <2>7. trail' = Append(trail, e)
    BY <2>1 DEF e
  <2>8. ASSUME NEW o \in DOMAIN orders PROVE Told(orders', trail', o)
    <3>1. Told(orders, trail, o)
      BY <1>1
    <3>2. CASE o = c
      <4>1. /\ NeverIn(trail, "order.rejected", c) /\ OnceIn(trail, "order.placed", c)
            /\ NeverIn(trail, "order.cancelled", c)
            /\ IF orders[c].filled > 0 THEN OnceIn(trail, "order.filled", c)
                                       ELSE NeverIn(trail, "order.filled", c)
        BY <2>6, <3>1, <3>2
      <4>2. /\ NeverIn(trail', "order.rejected", c) /\ OnceIn(trail', "order.placed", c)
            /\ OnceIn(trail', "order.cancelled", c)
            /\ IF orders[c].filled > 0 THEN OnceIn(trail', "order.filled", c)
                                       ELSE NeverIn(trail', "order.filled", c)
        BY <1>0, <2>2, <2>7, <4>1, Tallied
      <4>3. QED  BY <2>5, <3>2, <4>2
    <3>3. CASE o # c
      <4>1. orders'[o] = orders[o]
        BY <2>4, <3>3
      <4>2. QED  BY <1>0, <2>2, <2>7, <3>1, <3>3, <4>1, Tallied
    <3>4. QED  BY <3>2, <3>3
  <2>9. \A i \in DOMAIN trail' : trail'[i].order \in 0..Len(orders)
    BY <1>0, <1>2, <2>2, <2>7
  <2>10. QED  BY <2>4, <2>8, <2>9
<1>10. QED  BY <1>5, <1>6, <1>7, <1>8, <1>9

(* Notices are the entries that concern no order. *)
NoticesApart == \A i \in DOMAIN trail : trail[i].order = 0 <=> trail[i].event \in Notice

(* After the last engagement an open switch has been reset. *)
Armed ==
    ~engaged => \A i \in DOMAIN trail :
                    trail[i].event = "kill_switch.engaged" =>
                        \E k \in DOMAIN trail : i <= k /\ trail[k].event = "kill_switch.reset"

Ordered(t) ==
    \A i, j \in DOMAIN t :
        (t[i].order = t[j].order /\ t[i].order # 0 /\ i < j) =>
            \/ t[i].event = "order.placed"
            \/ t[i].event = "order.filled" /\ t[j].event = "order.cancelled"

(* What may follow what an order has behind it. *)
LEMMA OrderedExtends ==
    ASSUME NEW t \in Seq(TrailEntry), NEW e \in TrailEntry, Ordered(t),
           \A i \in DOMAIN t :
               (t[i].order = e.order /\ e.order # 0) =>
                   \/ t[i].event = "order.placed"
                   \/ t[i].event = "order.filled" /\ e.event = "order.cancelled"
    PROVE  Ordered(Append(t, e))
<1> DEFINE u == Append(t, e)
           n == Len(t) + 1
<1>1. /\ DOMAIN u = 1..n /\ DOMAIN t = 1..(n - 1) /\ n \in Nat \ {0}
      /\ \A j \in DOMAIN t : u[j] = t[j]
      /\ u[n] = e
  OBVIOUS
<1> HIDE DEF u, n
<1>2. ASSUME NEW i \in DOMAIN u, NEW j \in DOMAIN u,
             u[i].order = u[j].order, u[i].order # 0, i < j
      PROVE  \/ u[i].event = "order.placed"
             \/ u[i].event = "order.filled" /\ u[j].event = "order.cancelled"
  <2>1. i \in DOMAIN t /\ u[i] = t[i]
    BY <1>1, <1>2
  <2>2. CASE j = n
    BY <1>1, <1>2, <2>1, <2>2
  <2>3. CASE j \in DOMAIN t
    BY <1>1, <1>2, <2>1, <2>3 DEF Ordered
  <2>4. QED  BY <1>1, <2>2, <2>3
<1>3. QED  BY <1>2 DEF Ordered, u

LEMMA TrailOrderedNext ==
    ASSUME TypeOK, OrdersMatchFills, TrailMatchesBook, TrailOrdered, NoticesApart,
           Quiet \/ Noted \/ Entered \/ Filled \/ Cancelled
    PROVE  TrailOrdered' /\ NoticesApart'
<1>0. orders \in Seq(Order) /\ trail \in Seq(TrailEntry)
  BY DEF TypeOK, TrailEntry
<1>1. Ordered(trail)
  BY DEF TrailOrdered, Ordered
<1>2. \A i \in DOMAIN trail : trail[i].order \in 0..Len(orders)
  BY DEF TrailMatchesBook
<1>3. SUFFICES Ordered(trail') /\ NoticesApart'
  BY <1>3 DEF TrailOrdered, Ordered
<1>4. CASE Quiet
  BY <1>1, <1>4 DEF Quiet, NoticesApart
<1>5. ASSUME NEW e \in TrailEntry, trail' = Append(trail, e),
             e.order = 0 <=> e.event \in Notice
      PROVE  NoticesApart'
  BY <1>0, <1>5 DEF NoticesApart
<1>6. CASE Noted
  <2>1. PICK event \in Notice : trail' = Append(trail, Audit(event, 0, 0))
    BY <1>6 DEF Noted
  <2> DEFINE e == Audit(event, 0, 0)
  <2>2. e \in TrailEntry /\ e.order = 0 /\ e.event \in Notice
    BY DEF Notice, Audit, TrailEntry, Event
  <2> HIDE DEF e
  <2>3. trail' = Append(trail, e)
    BY <2>1 DEF e
  <2>4. Ordered(trail')
    BY <1>0, <1>1, <2>2, <2>3, OrderedExtends
  <2>5. QED  BY <1>5, <2>2, <2>3, <2>4
<1>7. CASE Entered
  <2>1. PICK req \in Request, status \in {"REJECTED", "PENDING", "OPEN"} :
            trail' = Append(trail, Audit(IF status = "REJECTED" THEN "order.rejected"
                                         ELSE "order.placed", Len(orders) + 1, req.quantity))
    BY <1>7 DEF Entered
  <2> DEFINE e == Audit(IF status = "REJECTED" THEN "order.rejected" ELSE "order.placed",
                        Len(orders) + 1, req.quantity)
  <2>2. /\ e \in TrailEntry /\ e.order = Len(orders) + 1
        /\ e.event \in {"order.rejected", "order.placed"}
    BY <1>0, RequestType DEF Audit, TrailEntry, Event
  <2> HIDE DEF e
  <2>3. trail' = Append(trail, e)
    BY <2>1 DEF e
  <2>4. \A i \in DOMAIN trail : trail[i].order # e.order
    BY <1>0, <1>2, <2>2
  <2>5. Ordered(trail')
    BY <1>0, <1>1, <2>2, <2>3, <2>4, OrderedExtends
  <2>6. e.order # 0 /\ e.event \notin Notice
    BY <1>0, <2>2 DEF Notice
  <2>7. QED  BY <1>5, <2>2, <2>3, <2>5, <2>6
<1>8. CASE Filled
  <2> DEFINE n == Len(orders) + 1
  <2>1. PICK req \in Request, qty \in Nat \ {0} :
            trail' = Append(Append(trail, Audit("order.placed", n, req.quantity)),
                            Audit("order.filled", n, qty))
    BY <1>8 DEF Filled
  <2> DEFINE a == Audit("order.placed", n, req.quantity)
             b == Audit("order.filled", n, qty)
  <2>2. /\ a \in TrailEntry /\ a.order = n /\ a.event = "order.placed"
        /\ b \in TrailEntry /\ b.order = n /\ b.event = "order.filled"
        /\ n # 0
    BY <1>0, RequestType DEF Audit, TrailEntry, Event
  <2> DEFINE t == Append(trail, a)
  <2> HIDE DEF a, b
  <2>3. trail' = Append(t, b) /\ t \in Seq(TrailEntry)
    BY <1>0, <2>1, <2>2 DEF a, b
  <2>4. \A i \in DOMAIN trail : trail[i].order # n
    BY <1>0, <1>2
  <2> HIDE DEF n
  <2>5. Ordered(t)
    BY <1>0, <1>1, <2>2, <2>4, OrderedExtends
  <2>6. \A i \in DOMAIN t : t[i].order = n => t[i].event = "order.placed"
    BY <1>0, <2>2, <2>4
  <2>7. \A i \in DOMAIN t : t[i].order = 0 <=> t[i].event \in Notice
    <3>1. a.order # 0 /\ a.event \notin Notice
      BY <2>2 DEF Notice
    <3>2. QED  BY <1>0, <2>2, <3>1 DEF NoticesApart
  <2> HIDE DEF t
  <2>8. Ordered(trail')
    BY <2>2, <2>3, <2>5, <2>6, OrderedExtends
  <2>9. b.order # 0 /\ b.event \notin Notice
    BY <2>2 DEF Notice
  <2>10. NoticesApart'
    BY <2>2, <2>3, <2>7, <2>9 DEF NoticesApart
  <2>11. QED  BY <2>8, <2>10
<1>9. CASE Cancelled
  <2>1. PICK c \in DOMAIN orders :
            /\ orders[c].status \notin Terminal
            /\ trail' = Append(trail, Audit("order.cancelled", c, 0))
    BY <1>9 DEF Cancelled
  <2> DEFINE e == Audit("order.cancelled", c, 0)
  <2>2. e \in TrailEntry /\ e.order = c /\ e.event = "order.cancelled" /\ c # 0
    BY <1>0 DEF Audit, TrailEntry, Event
  <2> HIDE DEF e
  <2>3. trail' = Append(trail, e)
    BY <2>1 DEF e
  <2>4. Never("order.rejected", c) /\ Never("order.cancelled", c)
    <3>1. orders[c].status # "REJECTED" /\ orders[c].status # "CANCELLED"
      BY <2>1 DEF Terminal
    <3>2. QED  BY <3>1 DEF TrailMatchesBook, IfElseNever
  <2>5. ASSUME NEW i \in DOMAIN trail, trail[i].order = c
        PROVE  trail[i].event \in {"order.placed", "order.filled"}
    <3>1. trail[i].event \notin Notice
      BY <2>2, <2>5 DEF NoticesApart
    <3>2. trail[i].event \in Event
      <4>1. trail[i] \in TrailEntry
        BY <1>0
      <4>2. QED  BY <4>1 DEF TrailEntry
    <3>3. trail[i].event # "order.rejected" /\ trail[i].event # "order.cancelled"
      BY <2>4, <2>5 DEF Never, Records
    <3>4. QED  BY <3>1, <3>2, <3>3 DEF Event, Notice
  <2>6. Ordered(trail')
    BY <1>0, <1>1, <2>2, <2>3, <2>5, OrderedExtends
  <2>7. e.event \notin Notice
    BY <2>2 DEF Notice
  <2>8. QED  BY <1>5, <2>2, <2>3, <2>6, <2>7
<1>10. QED  BY <1>4, <1>6, <1>7, <1>8, <1>9

(* The halt. *)

Placement == {"order.placed", "order.filled", "order.rejected"}

ResetSince(t, i) == \E k \in DOMAIN t : i <= k /\ t[k].event = "kill_switch.reset"

Halted(t) ==
    \A i, j \in DOMAIN t :
        (i < j /\ t[i].event = "kill_switch.engaged" /\ t[j].event \in Placement) =>
            \E k \in i..j : t[k].event = "kill_switch.reset"

ArmedIn(t) ==
    \A i \in DOMAIN t : t[i].event = "kill_switch.engaged" => ResetSince(t, i)

(* An entry that engages nothing leaves a reset trail reset, and one that   *)
(* places comes only after a reset trail.                                   *)
LEMMA HaltExtends ==
    ASSUME NEW t \in Seq(TrailEntry), NEW e \in TrailEntry, Halted(t),
           e.event \in Placement => ArmedIn(t)
    PROVE  /\ Halted(Append(t, e))
           /\ ArmedIn(t) /\ e.event # "kill_switch.engaged" => ArmedIn(Append(t, e))
           /\ e.event = "kill_switch.reset" => ArmedIn(Append(t, e))
<1> DEFINE u == Append(t, e)
           n == Len(t) + 1
<1>1. /\ DOMAIN u = 1..n /\ DOMAIN t = 1..(n - 1) /\ n \in Nat \ {0}
      /\ \A j \in DOMAIN t : u[j] = t[j]
      /\ u[n] = e
  OBVIOUS
<1> HIDE DEF u, n
<1>2. ASSUME NEW i \in DOMAIN u, NEW j \in DOMAIN u,
             i < j, u[i].event = "kill_switch.engaged", u[j].event \in Placement
      PROVE  \E k \in i..j : u[k].event = "kill_switch.reset"
  <2>1. i \in DOMAIN t /\ u[i] = t[i]
    BY <1>1, <1>2
  <2>2. CASE j = n
    <3>1. ResetSince(t, i)
      BY <1>1, <1>2, <2>1, <2>2 DEF ArmedIn
    <3>2. PICK k \in DOMAIN t : i <= k /\ t[k].event = "kill_switch.reset"
      BY <3>1 DEF ResetSince
    <3>3. k \in i..j /\ u[k] = t[k]
      BY <1>1, <2>1, <2>2, <3>2
    <3>4. QED  BY <3>2, <3>3
  <2>3. CASE j \in DOMAIN t
    <3>1. PICK k \in i..j : t[k].event = "kill_switch.reset"
      BY <1>1, <1>2, <2>1, <2>3 DEF Halted
    <3>2. k \in DOMAIN t
      BY <1>1, <2>1, <2>3, <3>1
    <3>3. QED  BY <1>1, <3>1, <3>2
  <2>4. QED  BY <1>1, <2>2, <2>3
<1>3. ASSUME ArmedIn(t), e.event # "kill_switch.engaged"
      PROVE  ArmedIn(u)
  <2>1. ASSUME NEW i \in DOMAIN u, u[i].event = "kill_switch.engaged"
        PROVE  ResetSince(u, i)
    <3>1. i \in DOMAIN t /\ t[i].event = "kill_switch.engaged"
      BY <1>1, <1>3, <2>1
    <3>2. PICK k \in DOMAIN t : i <= k /\ t[k].event = "kill_switch.reset"
      BY <1>3, <3>1 DEF ArmedIn, ResetSince
    <3>3. k \in DOMAIN u /\ u[k] = t[k]
      BY <1>1
    <3>4. QED  BY <3>2, <3>3 DEF ResetSince
  <2>2. QED  BY <2>1 DEF ArmedIn
<1>4. ASSUME e.event = "kill_switch.reset"
      PROVE  ArmedIn(u)
  <2>1. \A i \in DOMAIN u : i <= n /\ n \in DOMAIN u
    BY <1>1
  <2>2. QED  BY <1>1, <1>4, <2>1 DEF ArmedIn, ResetSince
<1>5. QED  BY <1>2, <1>3, <1>4 DEF Halted, u

LEMMA HaltNext ==
    ASSUME TypeOK, HaltHonoured, Armed, Quiet \/ Noted \/ Entered \/ Filled \/ Cancelled
    PROVE  HaltHonoured' /\ Armed'
<1>0. orders \in Seq(Order) /\ trail \in Seq(TrailEntry) /\ engaged \in BOOLEAN
  BY DEF TypeOK, TrailEntry
<1>1. Halted(trail) /\ (~engaged => ArmedIn(trail))
  BY DEF HaltHonoured, Halted, Placement, Armed, ArmedIn, ResetSince
<1>2. SUFFICES Halted(trail') /\ (~engaged' => ArmedIn(trail'))
  BY <1>2 DEF HaltHonoured, Halted, Placement, Armed, ArmedIn, ResetSince
<1>3. CASE Quiet
  BY <1>1, <1>3 DEF Quiet
<1>4. CASE Noted
  <2>1. PICK event \in Notice :
            /\ trail' = Append(trail, Audit(event, 0, 0))
            /\ event = "kill_switch.engaged" => engaged'
            /\ engaged /\ ~engaged' => event = "kill_switch.reset"
    BY <1>4 DEF Noted
  <2> DEFINE e == Audit(event, 0, 0)
  <2>2. e \in TrailEntry /\ e.event = event /\ e.event \notin Placement
    BY DEF Notice, Audit, TrailEntry, Event, Placement
  <2> HIDE DEF e
  <2>3. trail' = Append(trail, e)
    BY <2>1 DEF e
  <2>4. /\ Halted(trail')
        /\ ArmedIn(trail) /\ e.event # "kill_switch.engaged" => ArmedIn(trail')
        /\ e.event = "kill_switch.reset" => ArmedIn(trail')
    BY <1>0, <1>1, <2>2, <2>3, HaltExtends
  <2>5. QED  BY <1>1, <2>1, <2>2, <2>4
<1>5. CASE Entered
  <2>1. PICK req \in Request, status \in {"REJECTED", "PENDING", "OPEN"} :
            /\ ~engaged
            /\ trail' = Append(trail, Audit(IF status = "REJECTED" THEN "order.rejected"
                                            ELSE "order.placed", Len(orders) + 1, req.quantity))
    BY <1>5 DEF Entered
  <2> DEFINE e == Audit(IF status = "REJECTED" THEN "order.rejected" ELSE "order.placed",
                        Len(orders) + 1, req.quantity)
  <2>2. e \in TrailEntry /\ e.event # "kill_switch.engaged"
    BY <1>0, RequestType DEF Audit, TrailEntry, Event
  <2> HIDE DEF e
  <2>3. trail' = Append(trail, e)
    BY <2>1 DEF e
  <2>4. QED  BY <1>0, <1>1, <2>1, <2>2, <2>3, HaltExtends
<1>6. CASE Filled
  <2> DEFINE n == Len(orders) + 1
  <2>1. PICK req \in Request, qty \in Nat \ {0} :
            /\ ~engaged
            /\ trail' = Append(Append(trail, Audit("order.placed", n, req.quantity)),
                               Audit("order.filled", n, qty))
    BY <1>6 DEF Filled
  <2> DEFINE a == Audit("order.placed", n, req.quantity)
             b == Audit("order.filled", n, qty)
             t == Append(trail, a)
  <2>2. /\ a \in TrailEntry /\ a.event # "kill_switch.engaged"
        /\ b \in TrailEntry /\ b.event # "kill_switch.engaged"
    BY <1>0, RequestType DEF Audit, TrailEntry, Event
  <2> HIDE DEF a, b
  <2>3. trail' = Append(t, b) /\ t \in Seq(TrailEntry)
    BY <1>0, <2>1, <2>2 DEF a, b
  <2>4. Halted(t) /\ ArmedIn(t)
    BY <1>0, <1>1, <2>1, <2>2, HaltExtends
  <2> HIDE DEF t
  <2>5. QED  BY <2>2, <2>3, <2>4, HaltExtends
<1>7. CASE Cancelled
  <2>1. PICK c \in DOMAIN orders :
            /\ trail' = Append(trail, Audit("order.cancelled", c, 0))
            /\ UNCHANGED engaged
    BY <1>7 DEF Cancelled
  <2> DEFINE e == Audit("order.cancelled", c, 0)
  <2>2. e \in TrailEntry /\ e.event = "order.cancelled" /\ e.event \notin Placement
    BY <1>0 DEF Audit, TrailEntry, Event, Placement
  <2> HIDE DEF e
  <2>3. trail' = Append(trail, e)
    BY <2>1 DEF e
  <2>4. QED  BY <1>0, <1>1, <2>1, <2>2, <2>3, HaltExtends
<1>8. QED  BY <1>3, <1>4, <1>5, <1>6, <1>7

----------------------------------------------------------------------------
(* The theorems. *)

BookInv ==
    /\ TypeOK
    /\ OrdersMatchFills
    /\ TrailMatchesBook
    /\ TrailOrdered
    /\ NoticesApart
    /\ HaltHonoured
    /\ Armed

LEMMA BookInvInit == Init => BookInv
<1> SUFFICES ASSUME Init PROVE BookInv
  OBVIOUS
<1>1. TypeOK
  BY TypeInit
<1>2. /\ DOMAIN orders = {} /\ DOMAIN fills = {} /\ DOMAIN trail = {}
  BY DEF Init
<1>3. QED
  BY <1>1, <1>2 DEF BookInv, OrdersMatchFills, TrailMatchesBook, TrailOrdered, NoticesApart,
     HaltHonoured, Armed

LEMMA BookInvNext == BookInv /\ [Next]_vars => BookInv'
<1> SUFFICES ASSUME BookInv, [Next]_vars PROVE BookInv'
  OBVIOUS
<1>1. TypeOK'
  BY TypeNext DEF BookInv
<1>2. Quiet \/ Noted \/ Entered \/ Filled \/ Cancelled
  <2>1. CASE Next
    BY <2>1, Steps DEF BookInv
  <2>2. CASE UNCHANGED vars
    BY <2>2 DEF Quiet, vars, book
  <2>3. QED  BY <2>1, <2>2
<1>3. OrdersMatchFills'
  BY <1>2, OrdersMatchFillsNext DEF BookInv
<1>4. TrailMatchesBook'
  BY <1>2, TrailMatchesBookNext DEF BookInv
<1>5. TrailOrdered' /\ NoticesApart'
  BY <1>2, TrailOrderedNext DEF BookInv
<1>6. HaltHonoured' /\ Armed'
  BY <1>2, HaltNext DEF BookInv
<1>7. QED  BY <1>1, <1>3, <1>4, <1>5, <1>6 DEF BookInv

LEMMA BookInvHolds == Spec => []BookInv
<1>1. QED  BY BookInvInit, BookInvNext, PTL DEF Spec

(* Orders and fills of the book agree, however the microstructure cuts a    *)
(* fill and wherever recording raises.                                      *)
THEOREM OrdersAgreeWithFills == Spec => []OrdersMatchFills
<1>1. BookInv => OrdersMatchFills
  BY DEF BookInv
<1>2. QED  BY <1>1, BookInvHolds, PTL

(* The audit trail tells the story of the book: each order is in it once    *)
(* for what became of it, and in the order in which it happened.            *)
THEOREM TrailAgreesWithBook == Spec => [](TrailMatchesBook /\ TrailOrdered)
<1>1. BookInv => TrailMatchesBook /\ TrailOrdered
  BY DEF BookInv
<1>2. QED  BY <1>1, BookInvHolds, PTL

(* Between an engagement of the kill switch and the next placement or fill  *)
(* in the trail there is a reset.                                           *)
THEOREM KillSwitchHalts == Spec => []HaltHonoured
<1>1. BookInv => HaltHonoured
  BY DEF BookInv
<1>2. QED  BY <1>1, BookInvHolds, PTL

(* An order in a terminal status never changes, and what an order has       *)
(* filled is never taken back.                                              *)
THEOREM TerminalOrdersStay == Spec => TerminalStays
<1> DEFINE Stays == \A o \in DOMAIN orders :
                        /\ o \in DOMAIN orders'
                        /\ orders[o].status \in Terminal => orders'[o] = orders[o]
                        /\ orders'[o].filled = orders[o].filled
<1>1. BookInv /\ [Next]_vars => [Stays]_vars
  <2> SUFFICES ASSUME BookInv, Next PROVE Stays
    OBVIOUS
  <2>0. orders \in Seq(Order)
    BY DEF BookInv, TypeOK
  <2>1. Quiet \/ Noted \/ Entered \/ Filled \/ Cancelled
    BY Steps DEF BookInv
  <2>2. CASE Quiet \/ Noted
    BY <2>2 DEF Quiet, Noted
  <2>3. CASE Entered \/ Filled
    <3>1. PICK new : orders' = Append(orders, new)
      BY <2>3 DEF Entered, Filled
    <3>2. \A o \in DOMAIN orders : o \in DOMAIN orders' /\ orders'[o] = orders[o]
      BY <2>0, <3>1
    <3>3. QED  BY <3>2
  <2>4. CASE Cancelled
    <3>1. PICK c \in DOMAIN orders :
              /\ orders[c].status \notin Terminal
              /\ orders' = [orders EXCEPT ![c].status = "CANCELLED"]
      BY <2>4 DEF Cancelled
    <3>2. orders[c] \in Order
      BY <2>0
    <3>3. orders'[c].filled = orders[c].filled
      BY <2>0, <3>1, <3>2 DEF Order
    <3>4. QED  BY <2>0, <3>1, <3>3
  <2>5. QED  BY <2>1, <2>2, <2>3, <2>4
<1>2. QED  BY <1>1, BookInvHolds, PTL DEF Spec, TerminalStays

(* The paper broker implements the abstract order book: each step of it     *)
(* enters one order while trading is not halted, cancels a live one, halts  *)
(* or resumes, or leaves book and switch alone.                             *)
THEOREM PaperImplementsOrderBook == Spec => ImplementsOrderBook
<1> DEFINE Entry(order) == [status |-> order.status, filled |-> order.filled]
<1>1. Init => Book!Init
  BY DEF Init, Book!Init, Entries
<1>2. BookInv /\ [Next]_vars => [Book!Next]_(Book!orderBookVars)
  <2> SUFFICES ASSUME BookInv, [Next]_vars PROVE [Book!Next]_(Book!orderBookVars)
    OBVIOUS
  <2>0. TypeOK /\ orders \in Seq(Order) /\ engaged \in BOOLEAN /\ Len(orders) \in Nat
        /\ DOMAIN orders = 1..Len(orders)
    BY DEF BookInv, TypeOK
  <2>1. Quiet \/ Noted \/ Entered \/ Filled \/ Cancelled
    <3>1. CASE Next
      BY <2>0, <3>1, Steps
    <3>2. CASE UNCHANGED vars
      BY <3>2 DEF vars, book, Quiet
    <3>3. QED  BY <3>1, <3>2
  <2>2. Entries = [o \in 1..Len(orders) |-> Entry(orders[o])]
    BY <2>0 DEF Entries
  <2>3. ASSUME orders' = orders, engaged' \in BOOLEAN
        PROVE  [Book!Next]_(Book!orderBookVars)
    <3>1. Entries' = Entries
      BY <2>3 DEF Entries
    <3>2. QED  BY <2>3, <3>1 DEF Book!Next, Book!HaltOrResume
  <2>4. ASSUME NEW status \in Status \ {"CANCELLED"}, NEW req \in Request,
               NEW filled \in 0..req.quantity, NEW price,
               ~engaged, orders' = Append(orders, NewOrder(req, status, filled, price)),
               engaged' = engaged
        PROVE  [Book!Next]_(Book!orderBookVars)
    <3> DEFINE new == NewOrder(req, status, filled, price)
    <3>1. new.status = status /\ new.filled = filled
      BY DEF NewOrder
    <3>2. /\ DOMAIN orders' = 1..(Len(orders) + 1) /\ orders'[Len(orders) + 1] = new
          /\ \A o \in 1..Len(orders) : orders'[o] = orders[o]
      BY <2>0, <2>4
    <3>3. Entries' = [o \in 1..(Len(orders) + 1) |-> Entry(orders'[o])]
      BY <3>2 DEF Entries
    <3>4. Entries' = [o \in 1..(Len(orders) + 1) |->
                        IF o <= Len(orders) THEN Entry(orders[o]) ELSE Entry(new)]
      BY <2>0, <3>2, <3>3
    <3>5. Append(Entries, Entry(new)) = [o \in 1..(Len(orders) + 1) |->
                        IF o <= Len(orders) THEN Entry(orders[o]) ELSE Entry(new)]
      BY <2>0, <2>2
    <3>6. Entries' = Append(Entries, [status |-> status, filled |-> filled])
      BY <3>1, <3>4, <3>5
    <3>7. Len(Entries) = Len(orders) /\ Len(Entries') = Len(orders) + 1
      BY <2>0, <2>2, <3>3
    <3>8. Entries'[Len(Entries')] = Entry(new)
      BY <2>0, <3>4, <3>7
    <3>9. status \in ((Status \ Terminal) \union Terminal) \ {"CANCELLED"}
      BY DEF Terminal, Status
    <3>10. filled \in UNION {0..r.quantity : r \in Request}
      OBVIOUS
    <3>11. Book!Enter
      BY <2>0, <2>4, <3>1, <3>6, <3>7, <3>8, <3>9, <3>10 DEF Book!Enter, Book!Entry
    <3>12. QED  BY <3>11 DEF Book!Next
  <2>5. CASE Quiet
    BY <2>0, <2>3, <2>5 DEF Quiet
  <2>6. CASE Noted
    BY <2>3, <2>6 DEF Noted
  <2>7. CASE Entered
    <3>1. PICK req \in Request, status \in {"REJECTED", "PENDING", "OPEN"} :
              /\ ~engaged /\ engaged' = engaged
              /\ orders' = Append(orders, NewOrder(req, status, 0, 0))
      BY <2>7 DEF Entered
    <3>2. status \in Status \ {"CANCELLED"}
      BY DEF Status
    <3>3. 0 \in 0..req.quantity
      BY PaperAssumption DEF OrderRequest
    <3>4. QED  BY <2>4, <3>1, <3>2, <3>3
  <2>8. CASE Filled
    <3>1. PICK req \in Request, qty \in Nat \ {0}, price \in Nat \ {0} :
              /\ ~engaged /\ engaged' = engaged /\ qty <= req.quantity
              /\ orders' = Append(orders, NewOrder(req, FilledStatus(req, qty), qty, price))
      BY <2>8 DEF Filled
    <3>2. FilledStatus(req, qty) \in Status \ {"CANCELLED"}
      BY DEF FilledStatus, Status
    <3>3. req.quantity \in Nat
      BY PaperAssumption DEF OrderRequest
    <3>4. qty \in 0..req.quantity
      BY <3>1, <3>3
    <3>5. QED  BY <2>4, <3>1, <3>2, <3>4
  <2>9. CASE Cancelled
    <3>1. PICK c \in DOMAIN orders :
              /\ orders[c].status \notin Terminal
              /\ orders' = [orders EXCEPT ![c].status = "CANCELLED"]
              /\ engaged' = engaged
      BY <2>9 DEF Cancelled
    <3>2. orders[c] \in Order
      BY <2>0
    <3>3. Entries[c] = Entry(orders[c]) /\ DOMAIN Entries = DOMAIN orders
          /\ orders[c].status \in Status
      BY <3>2 DEF Entries, Order
    <3>4. orders'[c].status = "CANCELLED" /\ orders'[c].filled = orders[c].filled
      BY <2>0, <3>1, <3>2 DEF Order
    <3>5. DOMAIN orders' = DOMAIN orders
          /\ \A o \in DOMAIN orders : o # c => orders'[o] = orders[o]
      BY <2>0, <3>1
    <3>6. Entries' = [o \in DOMAIN orders |->
                        IF o = c THEN [status |-> "CANCELLED", filled |-> orders[c].filled]
                        ELSE Entry(orders[o])]
      BY <3>4, <3>5 DEF Entries
    <3>7. [Entries EXCEPT ![c].status = "CANCELLED"] = [o \in DOMAIN orders |->
                        IF o = c THEN [status |-> "CANCELLED", filled |-> orders[c].filled]
                        ELSE Entry(orders[o])]
      <4>1. [Entries EXCEPT ![c].status = "CANCELLED"] = [o \in DOMAIN orders |->
                IF o = c THEN [Entries[c] EXCEPT !.status = "CANCELLED"] ELSE Entries[o]]
        BY <3>3
      <4>2. \A o \in DOMAIN orders : Entries[o] = Entry(orders[o])
        BY DEF Entries
      <4>3. [Entry(orders[c]) EXCEPT !.status = "CANCELLED"] =
                [status |-> "CANCELLED", filled |-> orders[c].filled]
        OBVIOUS
      <4>4. QED  BY <3>3, <4>1, <4>2, <4>3
    <3>8. Book!Cancel(c)
      BY <3>1, <3>3, <3>6, <3>7 DEF Book!Cancel
    <3>9. QED  BY <3>3, <3>8 DEF Book!Next
  <2>10. QED  BY <2>1, <2>5, <2>6, <2>7, <2>8, <2>9
<1>3. QED
  BY <1>1, <1>2, BookInvHolds, PTL DEF Spec, ImplementsOrderBook, Book!Spec

(* Only PlaceFilled fills, one order at a time. *)
LEMMA NewFill ==
    ASSUME TypeOK, [Next]_vars, NEW i \in (DOMAIN fills') \ DOMAIN fills
    PROVE  \E req \in Request :
              /\ PlaceFilled(req)
              /\ fills'[i].symbol = req.symbol
              /\ fills'[i].quantity = FillQuantity(req)
              /\ fills'[i].price = ExecutionPrice(req)
              /\ orders'[fills'[i].order].request = req
<1>0. orders \in Seq(Order) /\ fills \in Seq(Fill)
  BY DEF TypeOK
<1>1. fills' # fills
  OBVIOUS
<1>2. PICK req \in Request : PlaceFilled(req)
  <2>1. Next
    BY <1>1 DEF vars, book
  <2>2. QED
    BY <1>1, <2>1 DEF Next, place_order, PlaceRejected, PlaceStranded, PlaceResting,
       PlaceBlocked, Cancel, CancelTerminal, set_quote, register_instrument,
       Session, engage, reset, check_loss, book, vars
<1> DEFINE n == Len(orders) + 1
           new == NewOrder(req, FilledStatus(req, FillQuantity(req)), FillQuantity(req),
                           ExecutionPrice(req))
           fill == [order |-> n, symbol |-> req.symbol, side |-> req.side,
                    quantity |-> FillQuantity(req), price |-> ExecutionPrice(req)]
<1>3. orders' = Append(orders, new) /\ fills' = Append(fills, fill)
  BY <1>2 DEF PlaceFilled
<1>4. new.request = req
  BY DEF NewOrder
<1>5. /\ fill.order = n /\ fill.symbol = req.symbol
      /\ fill.quantity = FillQuantity(req) /\ fill.price = ExecutionPrice(req)
  OBVIOUS
<1> HIDE DEF new, fill
<1>6. orders'[n] = new /\ fills'[i] = fill
  BY <1>0, <1>3
<1>7. QED  BY <1>2, <1>4, <1>5, <1>6

(* A fill is whole lots, within its order, the displayed size and the       *)
(* freeze quantity, for every spec and every partial-fill ratio.            *)
THEOREM FillsFit == Spec => FillFits
<1> DEFINE Fits == \A i \in (DOMAIN fills') \ DOMAIN fills :
                       LET spec == specs[fills'[i].symbol]
                           qty  == fills'[i].quantity
                       IN  /\ qty % spec.lot_size = 0
                           /\ qty <= orders'[fills'[i].order].request.quantity
                           /\ spec.displayed_size # None => qty <= spec.displayed_size
                           /\ spec.freeze_quantity # None => qty <= spec.freeze_quantity
<1>1. TypeOK /\ [Next]_vars => [Fits]_vars
  <2> SUFFICES ASSUME TypeOK, [Next]_vars,
                      NEW i \in (DOMAIN fills') \ DOMAIN fills
               PROVE  LET spec == specs[fills'[i].symbol]
                          qty  == fills'[i].quantity
                      IN  /\ qty % spec.lot_size = 0
                          /\ qty <= orders'[fills'[i].order].request.quantity
                          /\ spec.displayed_size # None => qty <= spec.displayed_size
                          /\ spec.freeze_quantity # None => qty <= spec.freeze_quantity
    OBVIOUS
  <2>1. PICK req \in Request :
              /\ PlaceFilled(req)
              /\ fills'[i].symbol = req.symbol
              /\ fills'[i].quantity = FillQuantity(req)
              /\ orders'[fills'[i].order].request = req
    BY NewFill
  <2> DEFINE spec == specs[req.symbol]
             qty == FillQuantity(req)
  <2>2. /\ qty \in Int /\ qty <= req.quantity /\ qty % spec.lot_size = 0
        /\ spec.displayed_size # None => qty <= spec.displayed_size
    BY FillQuantityFits
  <2>3. spec.freeze_quantity # None => req.quantity <= spec.freeze_quantity
    <3>1. ~(spec.freeze_quantity # None /\ req.quantity > spec.freeze_quantity)
      BY <2>1 DEF PlaceFilled, Rejects
    <3>2. spec \in Microstructure
      BY RequestType, SpecType
    <3>3. spec.freeze_quantity \in OptionalSize
      BY <3>2 DEF Microstructure
    <3>4. QED  BY <3>1, <3>3, RequestType DEF OptionalSize
  <2>4. spec.freeze_quantity # None => qty <= spec.freeze_quantity
    <3>1. spec.freeze_quantity # None => spec.freeze_quantity \in Nat
      <4>1. spec \in Microstructure
        BY RequestType, SpecType
      <4>2. QED  BY <4>1 DEF Microstructure, OptionalSize
    <3> HIDE DEF qty
    <3>2. QED  BY <2>2, <2>3, <3>1, RequestType
  <2>5. QED  BY <2>1, <2>2, <2>4
<1>2. QED  BY <1>1, TypeCorrect, PTL DEF Spec, FillFits

(* A limit order fills at its limit, but for half a tick of rounding, for   *)
(* every tick and every quote.                                              *)
THEOREM LimitsRespected == Spec => LimitRespected
<1> DEFINE Respected == \A i \in (DOMAIN fills') \ DOMAIN fills :
                            LET req  == orders'[fills'[i].order].request
                                tick == specs[req.symbol].tick_size
                            IN  req.order_type = "LIMIT" =>
                                  2 * Signed(req.side, fills'[i].price - req.price) <= tick
<1>1. TypeOK /\ [Next]_vars => [Respected]_vars
  <2> SUFFICES ASSUME TypeOK, [Next]_vars,
                      NEW i \in (DOMAIN fills') \ DOMAIN fills
               PROVE  LET req  == orders'[fills'[i].order].request
                          tick == specs[req.symbol].tick_size
                      IN  req.order_type = "LIMIT" =>
                            2 * Signed(req.side, fills'[i].price - req.price) <= tick
    OBVIOUS
  <2>1. PICK req \in Request :
              /\ PlaceFilled(req)
              /\ fills'[i].price = ExecutionPrice(req)
              /\ orders'[fills'[i].order].request = req
    BY NewFill
  <2>2. ~Rejects(req) /\ ExecutionPrice(req) > 0
    BY <2>1 DEF PlaceFilled
  <2>3. QED  BY <2>1, <2>2, LimitPrice
<1>2. QED  BY <1>1, TypeCorrect, PTL DEF Spec, LimitRespected

----------------------------------------------------------------------------
LEMMA PlusCommutes ==
    ASSUME NEW a \in Fraction, NEW b \in Fraction, NEW c \in Fraction
    PROVE  Plus(a, Plus(b, c)) = Plus(b, Plus(a, c))
<1>1. ASSUME NEW p \in Int, NEW q \in Int, NEW r \in Int, NEW x \in Int, NEW y \in Int, NEW z \in Int
      PROVE  /\ x * (y * z) = y * (x * z)
             /\ p * (y * z) + (q * z + r * y) * x = q * (x * z) + (p * z + r * x) * y
  <2>1. p * (y * z) = p * z * y /\ q * z * x = q * (x * z) /\ r * y * x = r * x * y
    BY <1>1
  <2>2. /\ (q * z + r * y) * x = q * z * x + r * y * x
        /\ (p * z + r * x) * y = p * z * y + r * x * y
    BY <1>1
  <2>3. x * (y * z) = y * (x * z)
    BY <1>1
  <2> DEFINE A == p * (y * z)
             B == q * (x * z)
             D == r * y * x
  <2>4. A \in Int /\ B \in Int /\ D \in Int
    BY <1>1
  <2>5. (q * z + r * y) * x = B + D /\ (p * z + r * x) * y = A + D
    BY <2>1, <2>2
  <2> HIDE DEF A, B, D
  <2>6. A + (B + D) = B + (A + D)
    BY <2>4
  <2>7. p * (y * z) + (q * z + r * y) * x = q * (x * z) + (p * z + r * x) * y
    BY <2>5, <2>6 DEF A, B
  <2>8. QED  BY <2>3, <2>7
<1>2. QED  BY <1>1 DEF Plus, Fraction

(* A sum of fractions is such a fold. *)
Adding(f, S) == [x \in S |-> [a \in Fraction |-> Plus(f[x], a)]]

LEMMA SumFolds ==
    ASSUME NEW S, IsFiniteSet(S), NEW f \in [S -> Fraction]
    PROVE  \E g : /\ FoldsTo(g, S, Fraction, Whole(0), Adding(f, S))
                  /\ SumOver(f, S) = g[S]
<1> DEFINE Is(c) == c = [s \in SUBSET S |-> IF s = {} THEN Whole(0)
                                            ELSE Plus(f[Pick(s)], c[s \ {Pick(s)}])]
           c == CHOOSE c : Is(c)
<1>1. SumOver(f, S) = c[S]
  BY Zenon DEF SumOver, FoldFunctionOnSet, MapThenFoldSet, Pick
<1>2. Whole(0) \in Fraction
  BY DEF Whole, Fraction
<1>3. Adding(f, S) \in [S -> [Fraction -> Fraction]]
  BY PlusType DEF Adding
<1>4. PICK g : FoldsTo(g, S, Fraction, Whole(0), Adding(f, S))
  BY <1>2, <1>3, FoldExists
<1>5. Is(g)
  <2>1. \A s \in SUBSET S : s # {} => g[s] = Plus(f[Pick(s)], g[s \ {Pick(s)}])
    <3>1. SUFFICES ASSUME NEW s \in SUBSET S, s # {}
                   PROVE  g[s] = Plus(f[Pick(s)], g[s \ {Pick(s)}])
      OBVIOUS
    <3>2. Pick(s) \in S
      BY <3>1, PickIn
    <3>3. g[s \ {Pick(s)}] \in Fraction
      BY <1>4, <3>1 DEF FoldsTo
    <3>4. g[s] = Adding(f, S)[Pick(s)][g[s \ {Pick(s)}]]
      BY <1>4, <3>1 DEF FoldsTo
    <3>5. QED  BY <3>2, <3>3, <3>4 DEF Adding
  <2>2. g = [s \in SUBSET S |-> g[s]] /\ g[{}] = Whole(0)
    BY <1>4 DEF FoldsTo
  <2>3. QED  BY <2>1, <2>2
<1>6. Is(c)
  BY <1>5
<1>7. c[S] = g[S]
  <2>1. c[{}] = g[{}]
    BY <1>5, <1>6
  <2>2. ASSUME NEW s \in SUBSET S, s # {}, c[s \ {Pick(s)}] = g[s \ {Pick(s)}]
        PROVE  c[s] = g[s]
    <3>1. c[s] = Plus(f[Pick(s)], c[s \ {Pick(s)}])
      BY <1>6, <2>2
    <3>2. g[s] = Plus(f[Pick(s)], g[s \ {Pick(s)}])
      BY <1>5, <2>2
    <3>3. QED  BY <2>2, <3>1, <3>2
  <2> HIDE DEF c, Is
  <2>3. \A s \in SUBSET S : c[s] = g[s]
    BY <2>1, <2>2, AgreeOnSubsets
  <2>4. QED  BY <2>3
<1>8. QED  BY <1>1, <1>4, <1>7

LEMMA SumAdds ==
    ASSUME NEW S, IsFiniteSet(S), NEW f \in [S -> Fraction],
           NEW g, FoldsTo(g, S, Fraction, Whole(0), Adding(f, S)),
           NEW x \in S, NEW T \in SUBSET S, x \notin T
    PROVE  g[T \union {x}] = Adding(f, S)[x][g[T]]
<1> DEFINE add == Adding(f, S)
<1>1. Whole(0) \in Fraction
  BY DEF Whole, Fraction
<1>3. \A y, z \in S, v \in Fraction : add[y][add[z][v]] = add[z][add[y][v]]
  <2> SUFFICES ASSUME NEW y \in S, NEW z \in S, NEW v \in Fraction
               PROVE  add[y][add[z][v]] = add[z][add[y][v]]
    OBVIOUS
  <2>1. Plus(f[y], v) \in Fraction /\ Plus(f[z], v) \in Fraction
    BY PlusType
  <2>2. Plus(f[y], Plus(f[z], v)) = Plus(f[z], Plus(f[y], v))
    BY PlusCommutes
  <2>3. QED  BY <2>1, <2>2 DEF Adding
<1>2. add \in Commuting(S, Fraction)
  BY <1>3, PlusType DEF Adding, Commuting
<1> DEFINE zero == Whole(0)
<1>4. FoldsTo(g, S, Fraction, zero, add) /\ zero \in Fraction
  BY <1>1
<1> HIDE DEF add, zero
<1>5. g[T \union {x}] = add[x][g[T]]
  BY <1>2, <1>4, FoldAdds
<1>6. QED  BY <1>5 DEF add

LEMMA SumChanges ==
    ASSUME NEW S, IsFiniteSet(S), NEW f \in [S -> Fraction], NEW h \in [S -> Fraction],
           NEW x \in S, \A y \in S \ {x} : f[y] = h[y]
    PROVE  \E rest \in Fraction : /\ SumOver(f, S) = Plus(f[x], rest)
                                  /\ SumOver(h, S) = Plus(h[x], rest)
<1> DEFINE T == S \ {x}
           adf == Adding(f, S)
           adh == Adding(h, S)
<1>1. PICK g : FoldsTo(g, S, Fraction, Whole(0), adf) /\ SumOver(f, S) = g[S]
  BY SumFolds
<1>2. PICK k : FoldsTo(k, S, Fraction, Whole(0), adh) /\ SumOver(h, S) = k[S]
  BY SumFolds
<1>3. T \in SUBSET S /\ x \notin T /\ T \union {x} = S
  OBVIOUS
<1>4. IsFiniteSet(T)
  BY <1>3, FS_Subset
<1>5. g[T] \in Fraction /\ k[T] \in Fraction
  BY <1>1, <1>2, <1>3 DEF FoldsTo
<1>6. g[S] = Plus(f[x], g[T])
  <2>1. g[S] = adf[x][g[T]]
    <3> HIDE DEF T
    <3>1. g[T \union {x}] = Adding(f, S)[x][g[T]]
      BY <1>1, <1>3, SumAdds
    <3>2. QED  BY <1>3, <3>1
  <2>2. QED  BY <1>5, <2>1 DEF Adding
<1>7. k[S] = Plus(h[x], k[T])
  <2>1. k[S] = adh[x][k[T]]
    <3> HIDE DEF T
    <3>1. k[T \union {x}] = Adding(h, S)[x][k[T]]
      BY <1>2, <1>3, SumAdds
    <3>2. QED  BY <1>3, <3>1
  <2>2. QED  BY <1>5, <2>1 DEF Adding
<1>8. Alike(adf, adh, T)
  BY DEF Adding, Alike
<1> HIDE DEF T, adf, adh
<1>9. g[T] = k[T]
  <2>1. T \subseteq S
    BY <1>3
  <2> DEFINE zero == Whole(0)
  <2>2. FoldsTo(g, S, Fraction, zero, adf) /\ FoldsTo(k, S, Fraction, zero, adh)
    BY <1>1, <1>2
  <2> HIDE DEF zero
  <2>3. QED  BY <1>4, <1>8, <2>1, <2>2, FoldUnique
<1>10. QED  BY <1>1, <1>2, <1>5, <1>6, <1>7, <1>9

(* A sum of integers is a fold too. *)
AddingTo(f, S) == [x \in S |-> [a \in Int |-> f[x] + a]]

LEMMA TotalFolds ==
    ASSUME NEW S, IsFiniteSet(S), NEW f, \A x \in S : f[x] \in Int
    PROVE  \E g : /\ FoldsTo(g, S, Int, 0, AddingTo(f, S))
                  /\ SumFunctionOnSet(f, S) = g[S]
<1> DEFINE Is(c) == c = [s \in SUBSET S |-> IF s = {} THEN 0
                                            ELSE f[Pick(s)] + c[s \ {Pick(s)}]]
           c == CHOOSE c : Is(c)
<1>1. SumFunctionOnSet(f, S) = c[S]
  BY Zenon DEF SumFunctionOnSet, FoldFunctionOnSet, MapThenFoldSet, Pick
<1>2. AddingTo(f, S) \in [S -> [Int -> Int]]
  BY DEF AddingTo
<1>3. PICK g : FoldsTo(g, S, Int, 0, AddingTo(f, S))
  <2> DEFINE zero == 0
             add == AddingTo(f, S)
  <2>1. zero \in Int /\ add \in [S -> [Int -> Int]]
    BY <1>2
  <2> HIDE DEF zero, add
  <2>2. \E g : FoldsTo(g, S, Int, zero, add)
    BY <2>1, FoldExists
  <2>3. QED  BY <2>2 DEF zero, add
<1>4. Is(g)
  <2>1. ASSUME NEW s \in SUBSET S, s # {}
        PROVE  g[s] = f[Pick(s)] + g[s \ {Pick(s)}]
    <3>1. Pick(s) \in S
      BY <2>1, PickIn
    <3>2. g[s \ {Pick(s)}] \in Int
      BY <1>3, <2>1 DEF FoldsTo
    <3>3. g[s] = AddingTo(f, S)[Pick(s)][g[s \ {Pick(s)}]]
      BY <1>3, <2>1 DEF FoldsTo
    <3>4. QED  BY <3>1, <3>2, <3>3 DEF AddingTo
  <2>2. g = [s \in SUBSET S |-> g[s]] /\ g[{}] = 0
    BY <1>3 DEF FoldsTo
  <2>3. QED  BY <2>1, <2>2
<1>5. Is(c)
  BY <1>4
<1>6. c[S] = g[S]
  <2>1. c[{}] = g[{}]
    BY <1>4, <1>5
  <2>2. ASSUME NEW s \in SUBSET S, s # {}, c[s \ {Pick(s)}] = g[s \ {Pick(s)}]
        PROVE  c[s] = g[s]
    <3>1. c[s] = f[Pick(s)] + c[s \ {Pick(s)}]
      BY <1>5, <2>2
    <3>2. g[s] = f[Pick(s)] + g[s \ {Pick(s)}]
      BY <1>4, <2>2
    <3>3. QED  BY <2>2, <3>1, <3>2
  <2> HIDE DEF c, Is
  <2>3. \A s \in SUBSET S : c[s] = g[s]
    BY <2>1, <2>2, AgreeOnSubsets
  <2>4. QED  BY <2>3
<1>7. QED  BY <1>1, <1>3, <1>6

LEMMA TotalAgrees ==
    ASSUME NEW S, IsFiniteSet(S), NEW f, NEW h,
           \A x \in S : f[x] \in Int /\ h[x] = f[x]
    PROVE  SumFunctionOnSet(h, S) = SumFunctionOnSet(f, S)
<1> DEFINE adf == AddingTo(f, S)
           adh == AddingTo(h, S)
           zero == 0
<1>1. PICK g : FoldsTo(g, S, Int, zero, adf) /\ SumFunctionOnSet(f, S) = g[S]
  BY TotalFolds
<1>2. PICK k : FoldsTo(k, S, Int, zero, adh) /\ SumFunctionOnSet(h, S) = k[S]
  BY TotalFolds
<1>3. Alike(adf, adh, S) /\ S \subseteq S
  BY DEF AddingTo, Alike
<1> HIDE DEF adf, adh, zero
<1>4. g[S] = k[S]
  BY <1>1, <1>2, <1>3, FoldUnique
<1>5. QED  BY <1>1, <1>2, <1>4

(* One term more. *)
LEMMA TotalGrows ==
    ASSUME NEW T, IsFiniteSet(T), NEW x, x \notin T,
           NEW f, \A y \in T \union {x} : f[y] \in Int,
           NEW h, \A y \in T : h[y] = f[y]
    PROVE  SumFunctionOnSet(f, T \union {x}) = f[x] + SumFunctionOnSet(h, T)
<1> DEFINE S == T \union {x}
           adf == AddingTo(f, S)
           adh == AddingTo(h, T)
           zero == 0
<1>1. IsFiniteSet(S) /\ x \in S /\ T \in SUBSET S /\ T \subseteq T /\ T \subseteq S
  BY FS_AddElement
<1>2. PICK g : FoldsTo(g, S, Int, zero, adf) /\ SumFunctionOnSet(f, S) = g[S]
  BY <1>1, TotalFolds
<1>3. PICK k : FoldsTo(k, T, Int, zero, adh) /\ SumFunctionOnSet(h, T) = k[T]
  BY TotalFolds
<1>4. adf \in Commuting(S, Int)
  <2>1. adf \in [S -> [Int -> Int]]
    BY DEF AddingTo
  <2>2. ASSUME NEW y \in S, NEW z \in S, NEW v \in Int
        PROVE  adf[y][adf[z][v]] = adf[z][adf[y][v]]
    <3>1. f[y] \in Int /\ f[z] \in Int
      OBVIOUS
    <3>2. f[y] + v \in Int /\ f[z] + v \in Int /\ f[y] + (f[z] + v) = f[z] + (f[y] + v)
      BY <3>1
    <3>3. QED  BY <3>1, <3>2 DEF AddingTo
  <2>3. QED  BY <2>1, <2>2 DEF Commuting
<1>5. Alike(adh, adf, T)
  BY DEF AddingTo, Alike
<1>6. g[S] = adf[x][g[T]] /\ g[T] = k[T]
  <2> HIDE DEF adf, adh, zero, S
  <2>1. g[T \union {x}] = adf[x][g[T]]
    BY <1>1, <1>2, <1>4, FoldAdds
  <2>2. FoldsTo(k, T, Int, zero, adh) /\ FoldsTo(g, S, Int, zero, adf)
    BY <1>2, <1>3
  <2>3. T \subseteq S /\ T \subseteq T
    BY <1>1
  <2>4. k[T] = g[T]
    BY <1>5, <2>2, <2>3, FoldUnique
  <2>5. QED  BY <2>1, <2>4 DEF S
<1>7. g[T] \in Int
  <2> HIDE DEF adf, S
  <2>1. QED  BY <1>1, <1>2 DEF FoldsTo
<1>8. adf[x][g[T]] = f[x] + g[T]
  BY <1>1, <1>7 DEF AddingTo
<1>9. QED  BY <1>2, <1>3, <1>6, <1>8

----------------------------------------------------------------------------
(* Fractions. *)

LEMMA PlusSymmetric ==
    ASSUME NEW a \in Fraction, NEW b \in Fraction
    PROVE  Plus(a, b) = Plus(b, a)
  BY DEF Plus, Fraction

(* The same number: an equivalence that sums respect and reflect. *)
LEMMA SumsCross ==
    ASSUME NEW a \in Fraction, NEW b \in Fraction, NEW c \in Fraction
    PROVE  /\ Plus(a, c).num * Plus(b, c).den = (a.num * b.den) * (c.den * c.den) + c.num * c.den * (a.den * b.den)
           /\ Plus(b, c).num * Plus(a, c).den = (b.num * a.den) * (c.den * c.den) + c.num * c.den * (a.den * b.den)
<1>1. ASSUME NEW p \in Int, NEW q \in Int, NEW r \in Int, NEW x \in Int, NEW y \in Int, NEW z \in Int
      PROVE  (p * z + r * x) * (y * z) = (p * y) * (z * z) + r * z * (x * y)
  <2>1. (p * z + r * x) * (y * z) = (p * z) * (y * z) + (r * x) * (y * z)
    BY <1>1
  <2>2. (p * z) * (y * z) = (p * y) * (z * z)
    BY <1>1
  <2>3. (r * x) * (y * z) = r * z * (x * y)
    BY <1>1
  <2>4. QED  BY <2>1, <2>2, <2>3
<1>2. /\ a.num \in Int /\ b.num \in Int /\ c.num \in Int
      /\ a.den \in Int /\ b.den \in Int /\ c.den \in Int
  BY DEF Fraction
<1>3. /\ Plus(a, c).num * Plus(b, c).den = (a.num * c.den + c.num * a.den) * (b.den * c.den)
      /\ Plus(b, c).num * Plus(a, c).den = (b.num * c.den + c.num * b.den) * (a.den * c.den)
  BY DEF Plus
<1>4. b.den * a.den = a.den * b.den
  BY <1>2
<1>5. QED  BY <1>1, <1>2, <1>3, <1>4

LEMMA SumsKeepSame ==
    ASSUME NEW a \in Fraction, NEW b \in Fraction, NEW c \in Fraction
    PROVE  Same(Plus(a, c), Plus(b, c)) <=> Same(a, b)
<1> DEFINE x == a.num * b.den
           y == b.num * a.den
           d == c.den * c.den
           e == c.num * c.den * (a.den * b.den)
<1>1. x \in Int /\ y \in Int /\ d \in Nat \ {0} /\ e \in Int
  BY DEF Fraction
<1>2. Same(Plus(a, c), Plus(b, c)) <=> x * d + e = y * d + e
  BY SumsCross DEF Same
<1>3. Same(a, b) <=> x = y
  BY DEF Same
<1> HIDE DEF x, y, d, e
<1>4. x * d \in Int /\ y * d \in Int
  BY <1>1
<1>5. x * d + e = y * d + e <=> x * d = y * d
  BY <1>1, <1>4
<1>6. x * d = y * d <=> x = y
  BY <1>1, Cancels
<1>7. QED  BY <1>2, <1>3, <1>5, <1>6

(* What a fill does to a position at cost: with what it realises, the fill  *)
(* accounts for the change.                                                 *)
AtCost(p) == Scaled(p.average, p.quantity)

LEMMA ScaledDivided ==
    ASSUME NEW a \in Fraction, NEW n \in Int \ {0}
    PROVE  Same(Scaled(Divided(a, n), n), a)
<1>1. a.num \in Int /\ a.den \in Nat \ {0}
  BY DEF Fraction
<1>2. CASE n > 0
  <2>1. (a.num * n) * a.den = a.num * (a.den * n)
    BY <1>1
  <2>2. QED  BY <1>2, <2>1 DEF Divided, Scaled, Same
<1>3. CASE n < 0
  <2>1. ((-a.num) * n) * a.den = a.num * (a.den * (-n))
    BY <1>1
  <2>2. QED  BY <1>3, <2>1 DEF Divided, Scaled, Same
<1>4. QED  BY <1>2, <1>3

(* average * (q + n) = average * q + price * n + (price - average) * m, when *)
(* m = -n or, at the price as the average, m = q.                            *)
LEMMA ClosedAtCost ==
    ASSUME NEW a \in Fraction, NEW q \in Int, NEW n \in Int, NEW price \in Int
    PROVE  Same(Scaled(a, q + n),
                Plus(Plus(Scaled(a, q), Whole(price * n)),
                     Scaled(Minus(Whole(price), a), -n)))
<1>1. a.num \in Int /\ a.den \in Nat \ {0}
  BY DEF Fraction
<1>2. ASSUME NEW u \in Int, NEW d \in Int
      PROVE  (u * (q + n)) * ((d * 1) * (1 * d))
               = ((u * q * 1 + price * n * d) * (1 * d) + ((price * d - u * 1) * (-n)) * (d * 1)) * d
  <2>1. price * d - u \in Int /\ u * q \in Int /\ price * n \in Int
    OBVIOUS
  <2>2. (price * d - u) * (-n) = u * n - price * n * d
    OBVIOUS
  <2>3. u * q + price * n * d + (u * n - price * n * d) = u * q + u * n
    OBVIOUS
  <2>4. u * (q + n) = u * q + u * n
    OBVIOUS
  <2>5. QED  BY <2>1, <2>2, <2>3, <2>4
<1>3. QED  BY <1>1, <1>2 DEF Same, Scaled, Plus, Whole, Minus

LEMMA TurnedAtCost ==
    ASSUME NEW a \in Fraction, NEW q \in Int, NEW n \in Int, NEW price \in Int
    PROVE  Same(Scaled(Whole(price), q + n),
                Plus(Plus(Scaled(a, q), Whole(price * n)),
                     Scaled(Minus(Whole(price), a), q)))
<1>1. a.num \in Int /\ a.den \in Nat \ {0}
  BY DEF Fraction
<1>2. ASSUME NEW u \in Int, NEW d \in Int
      PROVE  (price * (q + n)) * ((d * 1) * (1 * d))
               = ((u * q * 1 + price * n * d) * (1 * d) + ((price * d - u * 1) * q) * (d * 1)) * 1
  <2>1. (price * d - u) * q = price * q * d - u * q
    OBVIOUS
  <2>2. u * q \in Int /\ price * n * d \in Int /\ price * q * d \in Int
    OBVIOUS
  <2>3. u * q + price * n * d + (price * q * d - u * q) = price * n * d + price * q * d
    BY <2>2
  <2>4. price * (q + n) * d = price * n * d + price * q * d
    OBVIOUS
  <2>5. QED  BY <2>1, <2>2, <2>3, <2>4
<1>3. QED  BY <1>1, <1>2 DEF Same, Scaled, Plus, Whole, Minus

LEMMA SameReflexive ==
    ASSUME NEW a
    PROVE  Same(a, a)
  BY DEF Same

LEMMA TradedBalances ==
    ASSUME NEW pos \in PositionRecord, NEW n \in Int \ {0}, NEW price \in Nat
    PROVE  Same(Plus(AtCost(Traded(pos, n, price)), pos.realised),
                Plus(Plus(AtCost(pos), Whole(price * n)), Traded(pos, n, price).realised))
<1> DEFINE p == pos.quantity
           a == pos.average
           r == pos.realised
           q == p + n
           adds == p = 0 \/ (p > 0) = (n > 0)
           closed == Smaller(Magnitude(n), Magnitude(p))
           m == IF p > 0 THEN closed ELSE -closed
           gain == Scaled(Minus(Whole(price), a), m)
           paid == Plus(Scaled(a, p), Whole(price * n))
           t == Traded(pos, n, price)
<1>1. p \in Int /\ a \in Fraction /\ r \in Fraction /\ price \in Int /\ q \in Int
  BY DEF PositionRecord
<1>2. paid \in Fraction
  <2>1. price * n \in Int
    OBVIOUS
  <2>2. QED  BY <1>1, <2>1, PlusType, ScaledType, WholeType
<1>3. /\ t.quantity = q
      /\ t.average = IF adds THEN Divided(paid, q)
                     ELSE IF q * p < 0 THEN Whole(price) ELSE a
      /\ t.realised = IF adds THEN r ELSE Plus(r, gain)
  BY DEF Traded
<1>4. CASE adds
  <2>1. q # 0
    BY <1>1, <1>4
  <2>2. AtCost(t) = Scaled(Divided(paid, q), q) /\ t.realised = r
    BY <1>3, <1>4 DEF AtCost
  <2>3. Divided(paid, q) \in Fraction
    BY <1>1, <1>2, <2>1, DividedType
  <2> HIDE DEF paid, q, t, adds
  <2>4. Same(AtCost(t), paid) /\ AtCost(t) \in Fraction
    BY <1>1, <1>2, <2>1, <2>2, <2>3, ScaledDivided, ScaledType
  <2>5. Same(Plus(AtCost(t), r), Plus(paid, r))
    BY <1>1, <1>2, <2>4, SumsKeepSame
  <2>6. QED  BY <2>2, <2>5 DEF paid, t, AtCost
<1>5. CASE ~adds
  <2>1. p # 0 /\ p \in Int /\ ~((p > 0) = (n > 0))
    BY <1>1, <1>5
  <2>2. (p > 0 /\ n < 0) \/ (p < 0 /\ n > 0)
    BY <2>1
  <2>3. Minus(Whole(price), a) \in Fraction
    BY <1>1, MinusType, WholeType
  <2>4. m \in Int
    BY <1>1 DEF Smaller, Magnitude
  <2>5. gain \in Fraction
    BY <2>3, <2>4, ScaledType
  <2>6. t.realised = Plus(r, gain)
    BY <1>3, <1>5
  <2>7. Same(AtCost(t), Plus(paid, gain)) /\ AtCost(t) \in Fraction
    <3>1. CASE q * p < 0
      <4>1. m = p
        BY <1>1, <2>2, <3>1 DEF Smaller, Magnitude
      <4>2. AtCost(t) = Scaled(Whole(price), q)
        BY <1>3, <1>5, <3>1 DEF AtCost
      <4>3. Same(Scaled(Whole(price), q), Plus(paid, Scaled(Minus(Whole(price), a), p)))
        BY <1>1, TurnedAtCost
      <4>4. Scaled(Whole(price), q) \in Fraction
        BY <1>1, ScaledType, WholeType
      <4>5. QED  BY <4>1, <4>2, <4>3, <4>4
    <3>2. CASE ~(q * p < 0)
      <4>1. m = -n
        <5>1. p > 0 => q >= 0
          BY <1>1, <3>2
        <5>2. p < 0 => q <= 0
          BY <1>1, <3>2
        <5>3. QED  BY <1>1, <2>2, <5>1, <5>2 DEF Smaller, Magnitude
      <4>2. AtCost(t) = Scaled(a, q)
        BY <1>3, <1>5, <3>2 DEF AtCost
      <4>3. Same(Scaled(a, q), Plus(paid, Scaled(Minus(Whole(price), a), -n)))
        BY <1>1, ClosedAtCost
      <4>4. Scaled(a, q) \in Fraction
        BY <1>1, ScaledType
      <4>5. QED  BY <4>1, <4>2, <4>3, <4>4
    <3>3. QED  BY <3>1, <3>2
  <2>8. Plus(paid, gain) \in Fraction
    BY <1>2, <2>5, PlusType
  <2> HIDE DEF paid, gain, t, q, m, adds
  <2>9. Same(Plus(AtCost(t), r), Plus(Plus(paid, gain), r))
    BY <1>1, <2>7, <2>8, SumsKeepSame
  <2>10. Plus(Plus(paid, gain), r) = Plus(paid, Plus(r, gain))
    <3>1. Plus(Plus(paid, gain), r) = Plus(r, Plus(paid, gain))
      BY <1>1, <2>8, PlusSymmetric
    <3>2. Plus(r, Plus(paid, gain)) = Plus(paid, Plus(r, gain))
      BY <1>1, <1>2, <2>5, PlusCommutes
    <3>3. QED  BY <3>1, <3>2
  <2>11. QED  BY <2>6, <2>9, <2>10 DEF paid, t, AtCost
<1>6. QED  BY <1>4, <1>5

(* Where sums may be rearranged. *)
LEMMA MovedOver ==
    ASSUME NEW kk \in Fraction, NEW p \in Fraction,
           NEW c \in Fraction, NEW cc \in Fraction, NEW ra \in Fraction,
           NEW s \in Fraction, NEW r \in Fraction, NEW rr \in Fraction, NEW rb \in Fraction,
           Same(Plus(cc, r), Plus(Plus(c, p), rr)),
           Same(Plus(Plus(kk, p), Plus(c, ra)), Plus(s, Plus(r, rb)))
    PROVE  Same(Plus(kk, Plus(cc, ra)), Plus(s, Plus(rr, rb)))
<1> DEFINE k == Plus(kk, p)
           left == Plus(kk, Plus(cc, ra))
           right == Plus(s, Plus(rr, rb))
           rest == Plus(kk, ra)
           cp == Plus(c, p)
           ca == Plus(c, ra)
           sb == Plus(s, rb)
<1>1. /\ k \in Fraction /\ left \in Fraction /\ right \in Fraction /\ rest \in Fraction
      /\ cp \in Fraction /\ ca \in Fraction /\ sb \in Fraction
      /\ Plus(cc, r) \in Fraction /\ Plus(cp, rr) \in Fraction /\ Plus(cp, rest) \in Fraction
      /\ Plus(k, ca) \in Fraction /\ Plus(s, Plus(r, rb)) \in Fraction
  BY PlusType
<1>2. ASSUME NEW x \in Fraction, NEW y \in Fraction, NEW z \in Fraction
      PROVE  /\ Plus(Plus(x, y), z) = Plus(x, Plus(y, z))
             /\ Plus(Plus(x, y), z) = Plus(Plus(x, z), y)
  <2>1. Plus(x, y) \in Fraction /\ Plus(x, z) \in Fraction
    BY PlusType
  <2>2. /\ Plus(Plus(x, y), z) = Plus(z, Plus(x, y))
        /\ Plus(Plus(x, z), y) = Plus(y, Plus(x, z))
    BY <2>1, PlusSymmetric
  <2>3. /\ Plus(z, Plus(x, y)) = Plus(x, Plus(z, y))
        /\ Plus(y, Plus(x, z)) = Plus(x, Plus(y, z))
    BY PlusCommutes
  <2>4. Plus(z, y) = Plus(y, z)
    BY PlusSymmetric
  <2>5. QED  BY <2>2, <2>3, <2>4
<1> HIDE DEF k, left, right, rest, cp, ca, sb
<1>3. Plus(left, r) = Plus(Plus(cc, r), rest)
  <2>1. left = Plus(cc, rest)
    BY PlusCommutes DEF left, rest
  <2>2. QED  BY <1>1, <1>2, <2>1
<1>4. Same(Plus(Plus(cc, r), rest), Plus(Plus(cp, rr), rest))
  <2>1. Same(Plus(cc, r), Plus(cp, rr))
    BY DEF cp
  <2>2. QED  BY <1>1, <2>1, SumsKeepSame
<1>5. Plus(Plus(cp, rr), rest) = Plus(Plus(k, ca), rr)
  <2>1. Plus(k, ca) = Plus(c, Plus(k, ra))
    BY <1>1, PlusCommutes DEF ca
  <2>2. Plus(k, ra) = Plus(rest, p)
    BY <1>2 DEF k, rest
  <2>3. Plus(rest, p) = Plus(p, rest)
    BY <1>1, PlusSymmetric
  <2>4. Plus(cp, rest) = Plus(c, Plus(p, rest))
    BY <1>1, <1>2 DEF cp
  <2>5. Plus(Plus(cp, rr), rest) = Plus(Plus(cp, rest), rr)
    BY <1>1, <1>2
  <2>6. QED  BY <2>1, <2>2, <2>3, <2>4, <2>5
<1>6. Same(Plus(Plus(k, ca), rr), Plus(Plus(s, Plus(r, rb)), rr))
  <2>1. Same(Plus(k, ca), Plus(s, Plus(r, rb)))
    BY DEF k, ca
  <2>2. QED  BY <1>1, <2>1, SumsKeepSame
<1>7. Plus(Plus(s, Plus(r, rb)), rr) = Plus(right, r)
  <2>1. Plus(s, Plus(r, rb)) = Plus(r, sb) /\ right = Plus(rr, sb)
    BY PlusCommutes DEF sb, right
  <2>2. Plus(r, sb) = Plus(sb, r) /\ Plus(rr, sb) = Plus(sb, rr)
    BY <1>1, PlusSymmetric
  <2>3. Plus(Plus(sb, r), rr) = Plus(Plus(sb, rr), r)
    BY <1>1, <1>2
  <2>4. QED  BY <2>1, <2>2, <2>3
<1>8. Same(Plus(left, r), Plus(right, r))
  <2> DEFINE x1 == Plus(left, r)
             x2 == Plus(Plus(k, ca), rr)
             x3 == Plus(right, r)
  <2>1. x1 \in Fraction /\ x2 \in Fraction /\ x3 \in Fraction
    BY <1>1, PlusType
  <2>2. Same(x1, x2) /\ Same(x2, x3)
    BY <1>3, <1>4, <1>5, <1>6, <1>7
  <2> HIDE DEF x1, x2, x3
  <2>3. Same(x1, x3)
    BY <2>1, <2>2, SameTransitive
  <2>4. QED  BY <2>3 DEF x1, x3
<1>9. Same(left, right)
  BY <1>1, <1>8, SumsKeepSame
<1>10. QED  BY <1>9 DEF left, right

----------------------------------------------------------------------------
(* Positions and money.  Only a fill touches either. *)

MoneyKept ==
    /\ UNCHANGED <<fills, cash>>
    /\ \A s \in Symbol : /\ positions'[s].quantity = positions[s].quantity
                         /\ positions'[s].average = positions[s].average
                         /\ positions'[s].realised = positions[s].realised

LEMMA MoneySteps ==
    ASSUME TypeOK, [Next]_vars, ~MoneyKept
    PROVE  \E req \in Request : PlaceFilled(req)
<1>0. positions \in [Symbol -> PositionRecord]
  BY DEF TypeOK, PositionRecord
<1>1. UNCHANGED <<fills, cash, positions>> => MoneyKept
  BY DEF MoneyKept
<1>2. CASE UNCHANGED vars
  BY <1>1, <1>2 DEF vars, book
<1>3. CASE Next
  <2>1. ASSUME NEW req \in Request,
               PlaceRejected(req) \/ PlaceStranded(req) \/ PlaceResting(req)
        PROVE  FALSE
    BY <1>1, <2>1 DEF PlaceRejected, PlaceStranded, PlaceResting
  <2>2. ASSUME NEW o \in DOMAIN orders, Cancel(o) \/ CancelTerminal(o) PROVE FALSE
    BY <1>1, <2>2 DEF Cancel, CancelTerminal, book, vars
  <2>3. ASSUME NEW s \in Symbol, NEW price \in QuotePrice, set_quote(s, price) PROVE FALSE
    <3>1. positions' = [positions EXCEPT ![s].last = price] /\ UNCHANGED <<fills, cash>>
      BY <2>3 DEF set_quote
    <3>2. \A z \in Symbol : positions'[z] = IF z = s THEN [positions[z] EXCEPT !.last = price]
                                            ELSE positions[z]
      BY <1>0, <3>1
    <3>3. \A z \in Symbol : LET q == [positions[z] EXCEPT !.last = price]
                            IN  /\ q.quantity = positions[z].quantity
                                /\ q.average = positions[z].average
                                /\ q.realised = positions[z].realised
      BY <1>0 DEF PositionRecord
    <3>4. QED  BY <3>1, <3>2, <3>3 DEF MoneyKept
  <2>4. ASSUME NEW s \in Symbol, NEW spec \in InstrumentSpec, register_instrument(s, spec)
        PROVE  FALSE
    BY <1>1, <2>4 DEF register_instrument, book
  <2>5. ASSUME PlaceBlocked \/ engage \/ reset \/ check_loss PROVE FALSE
    BY <1>1, <2>5 DEF PlaceBlocked, engage, reset, check_loss, book, vars
  <2>6. ASSUME NEW event \in {"broker.connect", "broker.disconnect"}, Session(event)
        PROVE  FALSE
    BY <1>1, <2>6 DEF Session, book
  <2>7. QED
    BY <1>3, <2>1, <2>2, <2>3, <2>4, <2>5, <2>6 DEF Next, place_order
<1>4. QED  BY <1>2, <1>3

(* What a fill changes of fills, cash and the position of its symbol. *)
LEMMA MoneyMoves ==
    ASSUME TypeOK, NEW req \in Request, PlaceFilled(req)
    PROVE  \E price \in Nat \ {0}, qty \in Nat \ {0} :
              LET n == Signed(req.side, qty)
              IN  /\ fills' = Append(fills, [order |-> Len(orders) + 1, symbol |-> req.symbol,
                                             side |-> req.side, quantity |-> qty,
                                             price |-> price])
                  /\ positions' = [positions EXCEPT ![req.symbol] = Traded(@, n, price)]
                  /\ cash' = cash - price * n
                  /\ n \in Int \ {0}
<1>1. ExecutionPrice(req) \in Nat \ {0} /\ FillQuantity(req) \in Nat \ {0}
  BY FillType DEF PlaceFilled
<1>2. Signed(req.side, FillQuantity(req)) \in Int \ {0}
  BY <1>1 DEF Signed
<1>3. QED  BY <1>1, <1>2 DEF PlaceFilled

(* The signed quantities of the fills. *)
Moves == [i \in DOMAIN fills |-> Signed(fills[i].side, fills[i].quantity)]

LEMMA FillsOfFinite ==
    ASSUME TypeOK, NEW s
    PROVE  IsFiniteSet(FillsOf(s))
<1>1. DOMAIN fills = 1..Len(fills) /\ Len(fills) \in Nat
  BY DEF TypeOK
<1>2. IsFiniteSet(1..Len(fills))
  BY <1>1, FS_Interval
<1>3. FillsOf(s) \in SUBSET (1..Len(fills))
  BY <1>1 DEF FillsOf
<1>4. QED  BY <1>2, <1>3, FS_Subset

LEMMA MovesType ==
    ASSUME TypeOK
    PROVE  \A i \in DOMAIN fills : Moves[i] \in Int
<1> SUFFICES ASSUME NEW i \in DOMAIN fills PROVE Moves[i] \in Int
  OBVIOUS
<1>1. fills[i] \in Fill
  BY DEF TypeOK
<1>2. fills[i].quantity \in Int
  BY <1>1 DEF Fill
<1>3. QED  BY <1>2 DEF Moves, Signed

LEMMA PositionsInit == Init => PositionsMatchFills
<1> SUFFICES ASSUME Init, NEW s \in Symbol
             PROVE  positions[s].quantity = SumFunctionOnSet(Moves, FillsOf(s))
  BY DEF PositionsMatchFills, Moves
<1>1. FillsOf(s) = {}
  BY DEF Init, FillsOf
<1>2. SumFunctionOnSet(Moves, {}) = 0
  <2>1. PICK g : /\ FoldsTo(g, {}, Int, 0, AddingTo(Moves, {}))
                 /\ SumFunctionOnSet(Moves, {}) = g[{}]
    BY FS_EmptySet, TotalFolds
  <2>2. QED  BY <2>1 DEF FoldsTo
<1>3. positions[s].quantity = 0
  BY DEF Init, Flat
<1>4. QED  BY <1>1, <1>2, <1>3

LEMMA PositionsNext ==
    ASSUME TypeOK, TypeOK', PositionsMatchFills, [Next]_vars
    PROVE  PositionsMatchFills'
<1> SUFFICES ASSUME NEW s \in Symbol
             PROVE  positions'[s].quantity = SumFunctionOnSet(Moves', FillsOf(s)')
  BY DEF PositionsMatchFills, Moves
<1>1. positions[s].quantity = SumFunctionOnSet(Moves, FillsOf(s))
  BY DEF PositionsMatchFills, Moves
<1>2. CASE MoneyKept
  <2>1. Moves' = Moves /\ FillsOf(s)' = FillsOf(s)
    BY <1>2 DEF MoneyKept, Moves, FillsOf
  <2>2. positions'[s].quantity = positions[s].quantity
    BY <1>2 DEF MoneyKept
  <2>3. QED  BY <1>1, <2>1, <2>2
<1>3. CASE ~MoneyKept
  <2>1. PICK req \in Request : PlaceFilled(req)
    BY <1>3, MoneySteps
  <2>2. PICK price \in Nat \ {0}, qty \in Nat \ {0} :
              LET n == Signed(req.side, qty)
              IN  /\ fills' = Append(fills, [order |-> Len(orders) + 1, symbol |-> req.symbol,
                                             side |-> req.side, quantity |-> qty,
                                             price |-> price])
                  /\ positions' = [positions EXCEPT ![req.symbol] = Traded(@, n, price)]
                  /\ n \in Int \ {0}
    BY <2>1, MoneyMoves
  <2> DEFINE n == Signed(req.side, qty)
             new == Len(fills) + 1
             T == FillsOf(s)
             f == [order |-> Len(orders) + 1, symbol |-> req.symbol,
                   side |-> req.side, quantity |-> qty, price |-> price]
  <2>3. /\ f.symbol = req.symbol /\ f.side = req.side /\ f.quantity = qty
        /\ fills' = Append(fills, f)
        /\ fills \in Seq(Fill)
    BY <2>2 DEF TypeOK
  <2> HIDE DEF f
  <2>4. /\ DOMAIN fills = 1..Len(fills) /\ Len(fills) \in Nat
        /\ DOMAIN fills' = DOMAIN fills \union {new}
        /\ new \notin DOMAIN fills
        /\ fills'[new] = f
        /\ \A i \in DOMAIN fills : fills'[i] = fills[i]
    BY <2>3
  <2>5. Moves'[new] = n /\ (\A i \in DOMAIN fills : Moves'[i] = Moves[i])
    BY <2>3, <2>4 DEF Moves
  <2>6. IsFiniteSet(T) /\ new \notin T /\ T \subseteq DOMAIN fills
    BY <2>4, FillsOfFinite DEF FillsOf
  <2>7. \A i \in DOMAIN fills' : Moves'[i] \in Int
    BY <2>4, <2>5, <2>2, MovesType
  <2>8. positions \in [Symbol -> PositionRecord] /\ req.symbol \in Symbol
    BY RequestType DEF TypeOK, PositionRecord
  <2>9. CASE s = req.symbol
    <3>1. FillsOf(s)' = T \union {new}
      BY <2>3, <2>4, <2>9 DEF FillsOf
    <3>2. /\ \A i \in T \union {new} : Moves'[i] \in Int
          /\ \A i \in T : Moves[i] = Moves'[i]
      BY <2>4, <2>5, <2>6, <2>7
    <3> DEFINE m == Moves'
               k == Moves
    <3>3. SumFunctionOnSet(m, T \union {new}) = m[new] + SumFunctionOnSet(k, T)
      <4>1. /\ IsFiniteSet(T) /\ new \notin T
            /\ \A i \in T \union {new} : m[i] \in Int
            /\ \A i \in T : k[i] = m[i]
        BY <2>6, <3>2
      <4> HIDE DEF m, k, T, new
      <4>2. QED  BY <4>1, TotalGrows
    <3>4. positions'[s].quantity = positions[s].quantity + n
      BY <2>2, <2>8, <2>9 DEF Traded
    <3>5. positions[s].quantity \in Int /\ n \in Int
      BY <2>2, <2>8 DEF PositionRecord
    <3>6. n + positions[s].quantity = positions[s].quantity + n
      BY <3>5
    <3>7. QED  BY <1>1, <2>5, <3>1, <3>3, <3>4, <3>6
  <2>10. CASE s # req.symbol
    <3>1. FillsOf(s)' = T
      BY <2>3, <2>4, <2>10 DEF FillsOf
    <3> DEFINE m == Moves'
               k == Moves
    <3>2. \A i \in T : k[i] \in Int /\ m[i] = k[i]
      BY <2>5, <2>6, MovesType
    <3>3. SumFunctionOnSet(m, T) = SumFunctionOnSet(k, T)
      <4> HIDE DEF m, k, T
      <4>1. QED  BY <2>6, <3>2, TotalAgrees
    <3>4. positions'[s] = positions[s]
      BY <2>2, <2>8, <2>10
    <3>5. QED  BY <1>1, <3>1, <3>3, <3>4
  <2>11. QED  BY <2>9, <2>10
<1>4. QED  BY <1>2, <1>3

(* Positions are what the fills add up to, through every turn round. *)
THEOREM PositionsAddUp == Spec => []PositionsMatchFills
<1>1. Init => TypeOK /\ PositionsMatchFills
  BY TypeInit, PositionsInit
<1>2. TypeOK /\ PositionsMatchFills /\ [Next]_vars => TypeOK' /\ PositionsMatchFills'
  BY TypeNext, PositionsNext
<1>3. QED  BY <1>1, <1>2, PTL DEF Spec

(* The two columns MoneyConserved adds up. *)
Costs == [s \in Symbol |-> AtCost(positions[s])]
Gains == [s \in Symbol |-> positions[s].realised]

LEMMA Columns ==
    ASSUME NEW p \in [Symbol -> PositionRecord]
    PROVE  /\ [s \in Symbol |-> AtCost(p[s])] \in [Symbol -> Fraction]
           /\ [s \in Symbol |-> p[s].realised] \in [Symbol -> Fraction]
<1>1. ASSUME NEW s \in Symbol
      PROVE  AtCost(p[s]) \in Fraction /\ p[s].realised \in Fraction
  <2>1. /\ p[s].average \in Fraction /\ p[s].quantity \in Int
        /\ p[s].realised \in Fraction
    BY DEF PositionRecord
  <2>2. QED  BY <2>1, ScaledType DEF AtCost
<1>2. QED  BY <1>1

LEMMA MoneyInit == Init => MoneyConserved
<1> SUFFICES ASSUME Init PROVE MoneyConserved
  OBVIOUS
<1>1. ASSUME NEW s \in Symbol
      PROVE  /\ AtCost(positions[s]) = Whole(0)
             /\ positions[s].realised = Whole(0)
  <2>1. positions[s] = Flat
    BY DEF Init
  <2>2. QED  BY <2>1 DEF Flat, AtCost, Scaled, Whole
<1>2. Costs = Gains
  BY <1>1 DEF Costs, Gains
<1>3. cash = starting_cash
  BY DEF Init
<1>4. Same(Plus(Whole(cash), SumOver(Costs, Symbol)),
           Plus(Whole(starting_cash), SumOver(Gains, Symbol)))
  BY <1>2, <1>3, SameReflexive
<1>5. QED  BY <1>4 DEF MoneyConserved, Costs, Gains, AtCost

LEMMA MoneyNext ==
    ASSUME TypeOK, TypeOK', MoneyConserved, [Next]_vars
    PROVE  MoneyConserved'
<1>1. Same(Plus(Whole(cash), SumOver(Costs, Symbol)),
           Plus(Whole(starting_cash), SumOver(Gains, Symbol)))
  BY DEF MoneyConserved, Costs, Gains, AtCost
<1>2. SUFFICES Same(Plus(Whole(cash'), SumOver(Costs', Symbol)),
                    Plus(Whole(starting_cash), SumOver(Gains', Symbol)))
  BY DEF MoneyConserved, Costs, Gains, AtCost
<1>3. positions \in [Symbol -> PositionRecord] /\ positions' \in [Symbol -> PositionRecord]
  BY DEF TypeOK, PositionRecord
<1>4. /\ Costs \in [Symbol -> Fraction] /\ Gains \in [Symbol -> Fraction]
      /\ Costs' \in [Symbol -> Fraction] /\ Gains' \in [Symbol -> Fraction]
  BY <1>3, Columns DEF Costs, Gains
<1>5. CASE MoneyKept
  <2>1. cash' = cash /\ Gains' = Gains
    BY <1>5 DEF MoneyKept, Gains
  <2>2. Costs' = Costs
    BY <1>5 DEF MoneyKept, Costs, AtCost
  <2>3. QED  BY <1>1, <2>1, <2>2
<1>6. CASE ~MoneyKept
  <2>1. PICK req \in Request : PlaceFilled(req)
    BY <1>6, MoneySteps
  <2>2. PICK price \in Nat \ {0}, qty \in Nat \ {0} :
              LET n == Signed(req.side, qty)
              IN  /\ positions' = [positions EXCEPT ![req.symbol] = Traded(@, n, price)]
                  /\ cash' = cash - price * n
                  /\ n \in Int \ {0}
    BY <2>1, MoneyMoves
  <2> DEFINE n == Signed(req.side, qty)
             x == req.symbol
  <2>3. /\ x \in Symbol
        /\ positions'[x] = Traded(positions[x], n, price)
        /\ \A s \in Symbol \ {x} : positions'[s] = positions[s]
        /\ positions[x] \in PositionRecord /\ positions'[x] \in PositionRecord
        /\ n \in Int \ {0} /\ cash \in Int /\ price * n \in Int
    <3>1. x \in Symbol
      BY RequestType
    <3>2. n \in Int \ {0}
      BY <2>2
    <3>3. cash \in Int /\ price * n \in Int
      BY <3>2 DEF TypeOK
    <3>4. positions' = [positions EXCEPT ![x] = Traded(@, n, price)]
      BY <2>2
    <3> HIDE DEF n, x
    <3>5. QED  BY <1>3, <3>1, <3>2, <3>3, <3>4
  <2> HIDE DEF n, x
  <2>4. /\ Costs[x] = AtCost(positions[x]) /\ Costs'[x] = AtCost(positions'[x])
        /\ Gains[x] = positions[x].realised /\ Gains'[x] = positions'[x].realised
        /\ \A s \in Symbol \ {x} : Costs[s] = Costs'[s] /\ Gains[s] = Gains'[s]
    BY <2>3 DEF Costs, Gains
  <2>5. IsFiniteSet(Symbol)
    BY PaperAssumption
  <2>6. PICK ra \in Fraction : /\ SumOver(Costs, Symbol) = Plus(Costs[x], ra)
                               /\ SumOver(Costs', Symbol) = Plus(Costs'[x], ra)
    <3> DEFINE f == Costs
               h == Costs'
    <3>1. /\ f \in [Symbol -> Fraction] /\ h \in [Symbol -> Fraction]
          /\ \A s \in Symbol \ {x} : f[s] = h[s]
      BY <1>4, <2>4
    <3> HIDE DEF f, h
    <3>2. \E rest \in Fraction : /\ SumOver(f, Symbol) = Plus(f[x], rest)
                                 /\ SumOver(h, Symbol) = Plus(h[x], rest)
      BY <2>3, <2>5, <3>1, SumChanges
    <3>3. QED  BY <3>2 DEF f, h
  <2>7. PICK rb \in Fraction : /\ SumOver(Gains, Symbol) = Plus(Gains[x], rb)
                               /\ SumOver(Gains', Symbol) = Plus(Gains'[x], rb)
    <3> DEFINE f == Gains
               h == Gains'
    <3>1. /\ f \in [Symbol -> Fraction] /\ h \in [Symbol -> Fraction]
          /\ \A s \in Symbol \ {x} : f[s] = h[s]
      BY <1>4, <2>4
    <3> HIDE DEF f, h
    <3>2. \E rest \in Fraction : /\ SumOver(f, Symbol) = Plus(f[x], rest)
                                 /\ SumOver(h, Symbol) = Plus(h[x], rest)
      BY <2>3, <2>5, <3>1, SumChanges
    <3>3. QED  BY <3>2 DEF f, h
  <2> DEFINE k == Whole(cash)
             kk == Whole(cash')
             p == Whole(price * n)
             c == AtCost(positions[x])
             cc == AtCost(positions'[x])
             r == positions[x].realised
             rr == positions'[x].realised
             s == Whole(starting_cash)
  <2>8. /\ k \in Fraction /\ kk \in Fraction /\ p \in Fraction /\ s \in Fraction
        /\ c \in Fraction /\ cc \in Fraction /\ r \in Fraction /\ rr \in Fraction
    <3>1. cash' \in Int
      BY DEF TypeOK
    <3>2. QED  BY <1>4, <2>3, <2>4, <3>1, WholeType, PaperAssumption
  <2>9. Plus(kk, p) = k
    <3>1. cash' = cash - price * n
      BY <2>2 DEF n
    <3>2. (cash - price * n) * 1 + price * n * 1 = cash
      BY <2>3
    <3>3. QED  BY <3>1, <3>2 DEF Plus, Whole
  <2>10. Same(Plus(cc, r), Plus(Plus(c, p), rr))
    BY <2>3, TradedBalances
  <2>11. Same(Plus(k, Plus(c, ra)), Plus(s, Plus(r, rb)))
    BY <1>1, <2>4, <2>6, <2>7
  <2>12. /\ Plus(Whole(cash'), SumOver(Costs', Symbol)) = Plus(kk, Plus(cc, ra))
         /\ Plus(Whole(starting_cash), SumOver(Gains', Symbol)) = Plus(s, Plus(rr, rb))
    BY <2>4, <2>6, <2>7
  <2> HIDE DEF k, kk, p, c, cc, r, rr, s
  <2>13. Same(Plus(kk, Plus(cc, ra)), Plus(s, Plus(rr, rb)))
    <3>1. Same(Plus(Plus(kk, p), Plus(c, ra)), Plus(s, Plus(r, rb)))
      BY <2>9, <2>11
    <3>2. QED  BY <2>8, <2>10, <3>1, MovedOver
  <2>14. QED  BY <2>12, <2>13
<1>7. QED  BY <1>5, <1>6

(* Cash and positions at cost are the starting cash and the gains realised, *)
(* whatever was bought and sold, in full or in part, at whatever prices.    *)
THEOREM MoneyIsConserved == Spec => []MoneyConserved
<1>1. Init => TypeOK /\ MoneyConserved
  BY TypeInit, MoneyInit
<1>2. TypeOK /\ MoneyConserved /\ [Next]_vars => TypeOK' /\ MoneyConserved'
  BY TypeNext, MoneyNext
<1>3. QED  BY <1>1, <1>2, PTL DEF Spec
=============================================================================
