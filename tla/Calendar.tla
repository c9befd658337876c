------------------------------- MODULE Calendar -------------------------------
(***************************************************************************)
(* oq_core.calendar.TradingCalendar: which days the exchange is open.      *)
(*                                                                         *)
(* A date is a natural number, day 0 a Monday; months, quarters and years  *)
(* have the same number of days throughout.  A calendar is a record: the   *)
(* holidays by year, for the years that have a list, and the days with a   *)
(* muhurat session.                                                        *)
(***************************************************************************)
EXTENDS Integers, Sequences

CONSTANTS
    DaysInMonth,
    MonthsInQuarter,
    MonthsInYear

ASSUME CalendarAssumption ==
    {DaysInMonth, MonthsInQuarter, MonthsInYear} \subseteq Nat \ {0}

month(day)   == day \div DaysInMonth
quarter(day) == month(day) \div MonthsInQuarter
year(day)    == month(day) \div MonthsInYear

is_weekend(day) == day % 7 >= 5

(* A year without a list has no holidays. *)
is_holiday(cal, day) ==
    /\ year(day) \in DOMAIN cal.holidays
    /\ day \in cal.holidays[year(day)]

(* A regular session; a day with a muhurat session only is none. *)
is_session(cal, day) == ~is_weekend(day) /\ ~is_holiday(cal, day)

is_trading_day(cal, day) == is_session(cal, day) \/ day \in cal.muhurat

(* Seeded fault: the holidays are forgotten. *)
next_weekday(cal, day) ==
    LET candidate[d \in Nat] == IF ~is_weekend(d) THEN d ELSE candidate[d + 1]
    IN  candidate[day + 1]

(* The loops over the days after, and before. *)
next_session(cal, day) ==
    LET candidate[d \in Nat] == IF is_session(cal, d) THEN d ELSE candidate[d + 1]
    IN  candidate[day + 1]

previous_session(cal, day) ==
    LET candidate[d \in Int] == IF is_session(cal, d) THEN d ELSE candidate[d - 1]
    IN  candidate[day - 1]

(* The loop from start to end: what it has yielded after n days. *)
sessions(cal, start, end) ==
    LET yielded[n \in Nat] ==
            IF n = 0 THEN <<>>
            ELSE IF is_session(cal, start + n - 1) THEN Append(yielded[n - 1], start + n - 1)
            ELSE yielded[n - 1]
    IN  IF end < start THEN <<>> ELSE yielded[end - start + 1]

session_count(cal, start, end) == Len(sessions(cal, start, end))

(* Minutes after midnight; both ends belong to the session. *)
NSE_OPEN  == 9 * 60 + 15
NSE_CLOSE == 15 * 60 + 30

is_market_open(cal, day, time) ==
    /\ is_session(cal, day)
    /\ NSE_OPEN <= time
    /\ time <= NSE_CLOSE
=============================================================================
