------------------------------ MODULE Strategies ------------------------------
(***************************************************************************)
(* oq_backtest.strategies: the rebalance schedule and the two ranked       *)
(* signals, as a strategy lives with them: bars come in, one on each       *)
(* trading day of the calendar, and the signals are computed again over    *)
(* all there is.                                                           *)
(*                                                                         *)
(* index is the sequence of the bars' dates and prices has a row for each. *)
(* A row of weights is the set of the symbols held, which share the        *)
(* capital equally.  Rows are named by position: the dates of an index     *)
(* differ.  Every bar has every price.                                     *)
(***************************************************************************)
EXTENDS Calendar, FiniteSets, FiniteSetsExt

CONSTANTS
    Column,         \* the symbols, in the order of the columns
    PriceRow,       \* the rows prices may have, functions from symbols
    CalendarSet,    \* the calendars there may be
    lookback,       \* momentum_signal, mean_reversion_signal
    top_k,
    LastDay         \* bound: the day after the last there may be a bar on

VARIABLES
    cal,        \* the calendar
    day,        \* today
    index,      \* the bars so far
    prices

strategyVars == <<cal, day, index, prices>>

Schedule == {"daily", "weekly", "monthly", "quarterly"}

ASSUME StrategiesAssumption ==
    /\ lookback \in Nat /\ lookback >= 2
    /\ top_k \in Nat \ {0}
    /\ LastDay \in Nat

Symbols == {Column[c] : c \in DOMAIN Column}

----------------------------------------------------------------------------
Period(schedule, t) == IF schedule = "monthly" THEN month(t) ELSE quarter(t)

(* The last weekday of the period of day t. *)
LastWeekday(schedule, t) ==
    /\ ~is_weekend(t)
    /\ ~\E u \in (t + 1)..(t + 3) : Period(schedule, u) = Period(schedule, t) /\ ~is_weekend(u)

(* _REBAL_RULES: Fridays; last weekdays of the months or quarters. *)
IsTarget(schedule, t) ==
    IF schedule = "weekly" THEN t % 7 = 4 ELSE LastWeekday(schedule, t)

Targets(dates, schedule) ==
    {t \in dates[1]..dates[Len(dates)] : IsTarget(schedule, t)}

(* Seeded fault: snapped to the bar on or after the target. *)
SnappedForward(dates, t) == Min({i \in DOMAIN dates : dates[i] >= t})

(* The row a target snaps to: the last on or before it. *)
Snapped(dates, t) == Max({i \in DOMAIN dates : dates[i] <= t})

(* Targets that snap to the same row give one rebalance. *)
rebalance_dates(dates, schedule) ==
    IF schedule = "daily" THEN DOMAIN dates
    ELSE {Snapped(dates, t) : t \in Targets(dates, schedule)}

----------------------------------------------------------------------------
(* a's return over lookback rows up to row i exceeds b's. *)
Outran(rows, i, a, b) ==
    rows[i][a] * rows[i - lookback][b] > rows[i][b] * rows[i - lookback][a]

(* nlargest or nsmallest: of equals the first column. *)
Precedes(rows, i, winners, a, b) ==
    \/ IF winners THEN Outran(rows, i, Column[a], Column[b])
                  ELSE Outran(rows, i, Column[b], Column[a])
    \/ /\ ~Outran(rows, i, Column[a], Column[b])
       /\ ~Outran(rows, i, Column[b], Column[a])
       /\ a < b

(* Seeded fault: ranked by the return of the row that follows. *)
SelectedAhead(rows, i, winners) ==
    IF i <= lookback THEN {}
    ELSE LET seen == IF i < Len(rows) THEN i + 1 ELSE i
         IN  {Column[c] : c \in {c \in DOMAIN Column :
                 Cardinality({b \in DOMAIN Column : Precedes(rows, seen, winners, b, c)}) < top_k}}

(* What a rebalance on row i picks: nothing without lookback rows before. *)
Selected(rows, i, winners) ==
    IF i <= lookback THEN {}
    ELSE {Column[c] : c \in {c \in DOMAIN Column :
             Cardinality({b \in DOMAIN Column : Precedes(rows, i, winners, b, c)}) < top_k}}

(* The day loop: what a rebalance picks is held until the next; before the  *)
(* first there is nothing.                                                  *)
Held(dates, rows, schedule, winners) ==
    LET rebal == rebalance_dates(dates, schedule)
    IN  [i \in DOMAIN dates |->
            LET past == {r \in rebal : r <= i}
            IN  IF past = {} THEN {} ELSE Selected(rows, Max(past), winners)]

(* The winners are held, or the losers. *)
momentum_signal(dates, rows, schedule)       == Held(dates, rows, schedule, TRUE)
mean_reversion_signal(dates, rows, schedule) == Held(dates, rows, schedule, FALSE)

----------------------------------------------------------------------------
StrategiesInit ==
    /\ cal \in CalendarSet
    /\ day = 0
    /\ index = <<>>
    /\ prices = <<>>

(* A day passes, with a bar if there is any trading on it. *)
TradingDay ==
    /\ day < LastDay
    /\ is_trading_day(cal, day)
    /\ index' = Append(index, day)
    /\ \E row \in PriceRow : prices' = Append(prices, row)
    /\ day' = day + 1
    /\ UNCHANGED cal

ClosedDay ==
    /\ day < LastDay
    /\ ~is_trading_day(cal, day)
    /\ day' = day + 1
    /\ UNCHANGED <<cal, index, prices>>

StrategiesNext == TradingDay \/ ClosedDay

----------------------------------------------------------------------------
(* Properties. *)

(* The bars' days are the sessions the calendar enumerates, but for those   *)
(* with muhurat trading only; each session is next_session of the one       *)
(* before and previous_session of the one after, weekends, holidays and     *)
(* muhurat days notwithstanding.                                            *)
Regular(calendar, dates) ==
    LET kept[n \in Nat] ==
            IF n = 0 THEN <<>>
            ELSE IF is_market_open(calendar, dates[n], NSE_OPEN) THEN Append(kept[n - 1], dates[n])
            ELSE kept[n - 1]
    IN  kept[Len(dates)]

SessionsFound ==
    LET regular == Regular(cal, index)
    IN  /\ regular = sessions(cal, 0, day - 1)
        /\ \A i \in 1..(Len(regular) - 1) :
              /\ next_session(cal, regular[i]) = regular[i + 1]
              /\ previous_session(cal, regular[i + 1]) = regular[i]
              /\ session_count(cal, regular[i], regular[i + 1]) = 2
              /\ \A d \in (regular[i] + 1)..regular[i + 1] :
                    previous_session(cal, d) = regular[i]

(* The last bar closes its period and only a later bar shows it: the end of *)
(* the period is no trading day.                                            *)
ClosedLate(schedule) ==
    /\ schedule # "daily"
    /\ \E t \in (index[Len(index)] + 1)..(index'[Len(index')] - 1) : IsTarget(schedule, t)

(* What a signal said of a past bar it goes on saying when bars come in:    *)
(* computed over more data the weights of earlier rows are the same, but    *)
(* for the last row, when its period turns out to be over.                  *)
Settles(schedule, before, after) ==
    \A i \in DOMAIN index : i < Len(index) \/ ~ClosedLate(schedule) => after[i] = before[i]

SignalsSettled ==
    [][(index # <<>> /\ Len(index') > Len(index)) =>
          \A schedule \in Schedule :
              /\ Settles(schedule, momentum_signal(index, prices, schedule),
                                   momentum_signal(index', prices', schedule))
              /\ Settles(schedule, mean_reversion_signal(index, prices, schedule),
                                   mean_reversion_signal(index', prices', schedule))]_strategyVars

(* A strategy rebalances once in every period that has a bar and is over,   *)
(* on its last bar, and at no other time: not in a period that has begun    *)
(* after the bar, when holidays take the end of the period or all of it.    *)
RebalancedOncePerPeriod ==
    index # <<>> =>
        \A schedule \in Schedule \ {"daily"} :
            LET rebal   == rebalance_dates(index, schedule)
                ends    == Targets(index, schedule)
                Bars(t) == {i \in DOMAIN index :
                               index[i] <= t /\ ~\E u \in ends : index[i] <= u /\ u < t}
            IN  /\ \A t \in ends : Bars(t) # {} => Bars(t) \intersect rebal = {Max(Bars(t))}
                /\ \A r \in rebal : \E t \in ends : r \in Bars(t)
=============================================================================
