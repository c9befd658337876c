---------------------------- MODULE ReferenceData ----------------------------
(***************************************************************************)
(* oq_data's reference tables and what api.py reads with them: corporate   *)
(* actions, which adjust prices; index constituents as of a day; renames   *)
(* and mergers of symbols.  A maintainer adds to the three files whenever  *)
(* an event becomes known, in any order; readers ask about any day.        *)
(*                                                                         *)
(* A day is a number.  A file is a function from the key that its          *)
(* drop_duplicates(keep="last") leaves unique to the other columns.  Of a  *)
(* price row the close and the volume are kept, Close[s][d] = 0 for a day  *)
(* without a row of s; money and ratios are exact fractions.  What         *)
(* happened in the world, event by event, is kept in history variables,    *)
(* and the properties compare the answers with it.  The files have nothing *)
(* to do with each other, so a behaviour is about one of them.             *)
(***************************************************************************)
EXTENDS Sequences, FiniteSetsExt, LowestTerms

CONSTANTS
    Date,       \* 1 to the last day
    Symbol,     \* with prices
    Close,      \* of each symbol, day by day
    Volume,     \* of every row
    Declarable, \* CorporateActions that may be declared
    Index,      \* the indices
    Isin,       \* the companies that join and leave them
    Ticker,     \* names that change
    Seed,       \* KNOWN_MAPPINGS: [old, new, day]
    Change,     \* the changes of names that may happen: [old, new, day]
    File,       \* those of interest among the three
    MaxWrites   \* bound: calls that write

ASSUME ReferenceAssumption ==
    /\ Date \subseteq Nat \ {0} /\ IsFiniteSet(Date) /\ Date # {}
    /\ Close \in [Symbol -> [Date -> Nat]]
    /\ Volume \in Nat \ {0}
    /\ \A a \in Declarable :
          /\ a.symbol \in Symbol /\ a.ex_date \in Date
          /\ a.action_type \in {"split", "bonus", "dividend"}
          /\ a.ratio \in Fraction /\ a.ratio = Ratio(a.ratio.num, a.ratio.den)
          /\ a.amount \in Nat
    /\ IsFiniteSet(Ticker)
    /\ Seed \union Change \subseteq [old : Ticker, new : Ticker, day : Date]
    /\ File \subseteq {"actions", "universes", "symbols"}
    /\ MaxWrites \in Nat

VARIABLES
    file,       \* the file that is written, which stays
    actions,    \* corporate_actions.parquet: key -> ratio and amount
    universes,  \* universes.parquet: key -> exclude_date, 0 for none
    symbols,    \* symbols.parquet: whether it exists, and its rows
    moves,      \* history: companies that joined or left an index
    changes,    \* history: names that changed
    writes      \* calls so far

referenceVars == <<file, actions, universes, symbols, moves, changes, writes>>

NoRows == [key \in {} |-> {}]

ReferenceInit ==
    /\ file \in File
    /\ actions = NoRows
    /\ universes = NoRows
    /\ symbols = [exists |-> FALSE, rows |-> {}]
    /\ moves = {}
    /\ changes = {}
    /\ writes = 0

Writes(f) ==
    /\ file = f /\ UNCHANGED file
    /\ writes < MaxWrites /\ writes' = writes + 1

(* concat and drop_duplicates(keep="last"): f's rows, but for g's keys. *)
Over(f, g) == [k \in DOMAIN f \union DOMAIN g |-> IF k \in DOMAIN g THEN g[k] ELSE f[k]]

----------------------------------------------------------------------------
(* corporate_actions.py *)

ActionKey(a) == [symbol |-> a.symbol, ex_date |-> a.ex_date, action_type |-> a.action_type]

add_actions(a) ==
    /\ Writes("actions")
    /\ actions' = Over(actions, [k \in {ActionKey(a)} |-> [ratio |-> a.ratio, amount |-> a.amount]])
    /\ UNCHANGED <<universes, symbols, moves, changes>>

Product(f, S) == FoldFunctionOnSet(Mul, Whole(1), f, S)

(* Seeded fault: the ex-date is adjusted too. *)
UpTo(d, ex) == d <= ex

(* The mask of the days an action adjusts. *)
Before(d, ex) == d < ex

(* The last close before ex in the frame, which need not be the day's before. *)
prev_close(s, frame, ex) ==
    LET prior == {d \in frame : d < ex}
    IN  IF prior = {} THEN 0 ELSE Close[s][Max(prior)]

(* What an action multiplies the prices before its ex-date by. *)
Multiplier(frame, k) ==
    LET a == actions[k]
        last == prev_close(k.symbol, frame, k.ex_date)
    IN  IF k.action_type = "dividend"
        THEN IF last = 0 \/ a.amount = 0
             THEN Whole(1)
             ELSE Ratio(IF a.amount > last THEN 0 ELSE last - a.amount, last)
        ELSE IF a.ratio.num <= 0 THEN Whole(1) ELSE Ratio(a.ratio.den, a.ratio.num)

ActionsOf(s) == {k \in DOMAIN actions : k.symbol = s}

_factor_series(s, frame, d) ==
    Product([k \in ActionsOf(s) |-> Multiplier(frame, k)],
            {k \in ActionsOf(s) : Before(d, k.ex_date)})

(* adjust_prices, its closes ... *)
AdjustedClose(s, frame, d) == Mul(Whole(Close[s][d]), _factor_series(s, frame, d))

(* ... and its volumes. *)
AdjustedVolume(s, frame, d) ==
    LET splits == {k \in ActionsOf(s) : k.action_type # "dividend" /\ Before(d, k.ex_date)
                                        /\ actions[k].ratio.num > 0}
        v == Mul(Whole(Volume), Product([k \in splits |-> actions[k].ratio], splits))
    IN  Rounded(v.num, v.den)

(* read_prices: the days of a symbol's rows from start to end. *)
read_prices(s, start, end) == {d \in Date : start <= d /\ d <= end /\ Close[s][d] > 0}

(* api.prices *)
prices(s, start, end) ==
    LET frame == read_prices(s, start, end)
    IN  [d \in frame |-> AdjustedClose(s, frame, d)]

(* api.wide_prices: the days any of the symbols has a row, and no value for *)
(* those that have none.                                                    *)
NaN == [num |-> 0, den |-> 0]

wide_prices(syms, start, end) ==
    LET long == [s \in syms |-> prices(s, start, end)]
    IN  [d \in UNION {DOMAIN long[s] : s \in syms} |->
            [s \in syms |-> IF d \in DOMAIN long[s] THEN long[s][d] ELSE NaN]]

----------------------------------------------------------------------------
(* universes.py *)

(* Seeded fault: the inclusion date is not part of the key. *)
add_entriesByIsin(batch) ==
    universes' =
        Over([k \in {old \in DOMAIN universes :
                        \A new \in DOMAIN batch :
                            <<old.index_name, old.isin>> # <<new.index_name, new.isin>>}
                  |-> universes[k]], batch)

add_entries(batch) == universes' = Over(universes, batch)

members_as_of(index, when) ==
    {k.isin : k \in {w \in DOMAIN universes :
        w.index_name = index /\ w.include_date <= when
            /\ (universes[w] = 0 \/ when < universes[w])}}

(* An index changes: companies join it and leave it on a day, and the       *)
(* maintainer adds the windows that open, and again those that close.       *)
MovesOf(index, i) == {m \in moves : m.index = index /\ m.isin = i}

LastMove(index, i) == CHOOSE m \in MovesOf(index, i) : \A n \in MovesOf(index, i) : n.day <= m.day

InNow(index, i) == MovesOf(index, i) # {} /\ LastMove(index, i).in

CanMove(index, i, day) == \A m \in MovesOf(index, i) : m.day < day

Move(index, i, day) == [index |-> index, isin |-> i, day |-> day, in |-> ~InNow(index, i)]

Window(index, i, day) ==
    [index_name |-> index, isin |-> i,
     include_date |-> IF InNow(index, i) THEN LastMove(index, i).day ELSE day]

Reconstituted(index, changed, day) ==
    /\ Writes("universes")
    /\ \A i \in changed : CanMove(index, i, day)
    /\ moves' = moves \union {Move(index, i, day) : i \in changed}
    /\ add_entries([w \in {Window(index, i, day) : i \in changed} |->
                       IF InNow(index, w.isin) THEN day ELSE 0])
    /\ UNCHANGED <<actions, symbols, changes>>

----------------------------------------------------------------------------
(* symbols.py *)

(* The rows, or the ones that a first load writes. *)
load_master == IF symbols.exists THEN symbols.rows ELSE Seed

(* A reader: api.resolve_symbol *)
resolve_symbol ==
    /\ Writes("symbols")
    /\ symbols' = [exists |-> TRUE, rows |-> load_master]
    /\ UNCHANGED <<actions, universes, moves, changes>>

(* A name changes; the maintainer hears of it some time. *)
NameChanges(c) ==
    /\ file = "symbols"
    /\ c \notin changes
    /\ changes' = changes \union {c}
    /\ UNCHANGED <<file, actions, universes, symbols, moves, writes>>

add_mapping(c) ==
    /\ Writes("symbols")
    /\ c \in changes
    /\ symbols' = [exists |-> TRUE, rows |-> load_master \union {c}]
    /\ UNCHANGED <<actions, universes, moves, changes>>

(* The mapping of the latest date among some. *)
Latest(rows) == CHOOSE r \in rows : \A q \in rows : q.day <= r.day

(* Seeded fault: one rename is followed. *)
canonicalOnce(s) ==
    LET forward == {r \in load_master : r.old = s}
    IN  IF forward = {} THEN s ELSE Latest(forward).new

canonical(s) ==
    LET From[x \in Ticker \X SUBSET Ticker] ==
            LET cur == x[1]
                seen == x[2]
                forward == {r \in load_master : r.old = cur}
            IN  IF cur \in seen \/ forward = {} THEN cur
                ELSE From[<<Latest(forward).new, seen \union {cur}>>]
    IN  From[<<s, {}>>]

(* The loop goes from the first to the last mapping into s. *)
resolve_as_of(s, when) ==
    LET chain == {r \in load_master : r.new = s /\ when < r.day}
    IN  IF chain = {} THEN s ELSE Latest(chain).old

----------------------------------------------------------------------------
ReferenceNext ==
    \/ \E a \in Declarable : add_actions(a)
    \/ \E index \in Index, changed \in SUBSET Isin \ {{}}, day \in Date :
          Reconstituted(index, changed, day)
    \/ resolve_symbol
    \/ \E c \in Change : NameChanges(c) \/ add_mapping(c)

ReferenceSpec == ReferenceInit /\ [][ReferenceNext]_referenceVars

----------------------------------------------------------------------------
(* Properties. *)

Between(s, from, to) == {k \in ActionsOf(s) : from < k.ex_date /\ k.ex_date <= to}

(* A holder's account from one close to the next: what a share becomes.  A  *)
(* split multiplies it; a dividend buys more, at the last close less it.    *)
Grown(s, last, k) ==
    IF k.action_type = "dividend"
    THEN Ratio(Close[s][last], Close[s][last] - actions[k].amount)
    ELSE IF actions[k].ratio.num <= 0 THEN Whole(1) ELSE actions[k].ratio

Growth(s, last, d) ==
    LET ks == Between(s, last, d)
    IN  Product([k \in ks |-> Grown(s, last, k)], ks)

(* No dividend takes all that a share was worth: nothing could be bought.   *)
Payable(s, last, d) ==
    \A k \in Between(s, last, d) :
        k.action_type = "dividend" => actions[k].amount < Close[s][last]

(* Whether the order of the actions between two closes does not matter.     *)
Unmixed(s, last, d) ==
    LET ks == Between(s, last, d)
    IN  Cardinality(ks) <= 1 \/ \A k \in ks : k.action_type # "dividend"

(* "Today's price is the truth, and history is multiplied down so a         *)
(* continuous price series reflects total return": whatever window is read, *)
(* whichever days have no row and in whatever order the actions were        *)
(* declared or corrected, adjusted closes go as the holder's account does;  *)
(* and without dividends the adjusted volume keeps a day's turnover, but    *)
(* for half a share.                                                        *)
AdjustedAsHeld ==
    \A start, end \in Date : \A s \in Symbol :
        LET frame == read_prices(s, start, end)
            wide  == wide_prices(Symbol, start, end)
            price == [d \in frame |-> wide[d][s]]
            turnover == [d \in frame |-> Mul(price[d], Whole(AdjustedVolume(s, frame, d)))]
        IN  /\ \A last, d \in frame :
                  (/\ last < d /\ \A e \in frame : e <= last \/ d <= e
                   /\ Unmixed(s, last, d) /\ Payable(s, last, d)) =>
                      Same(Mul(price[d], Whole(Close[s][last])),
                           Mul(Mul(price[last], Whole(Close[s][d])), Growth(s, last, d)))
            /\ (\A k \in ActionsOf(s) : k.action_type # "dividend") =>
                  \A d \in frame :
                      LET gap == Sub(turnover[d], Whole(Close[s][d] * Volume))
                      IN  Size(2 * gap.num) * price[d].den <= price[d].num * gap.den

(* "Who was in Nifty 50 on 2018-04-01?": the members as of a day are those  *)
(* whose last move up to it was to join, however often a company left and   *)
(* came back and in whatever order the changes of different companies were  *)
(* entered.                                                                 *)
MembersAsMoved ==
    \A index \in Index, when \in Date :
        members_as_of(index, when) =
            {i \in Isin : \E m \in MovesOf(index, i) :
                /\ m.in /\ m.day <= when
                /\ \A n \in MovesOf(index, i) : n.day <= when => n.day <= m.day}

(* What became of a name, change by change in the order they happened. *)
Today(s) ==
    LET happened == changes \union Seed
        On[d \in Nat] ==
            IF d = 0 THEN s
            ELSE LET c == {e \in happened : e.day = d /\ e.old = On[d - 1]}
                 IN  IF c = {} THEN On[d - 1] ELSE (CHOOSE e \in c : TRUE).new
    IN  On[Max(Date)]

(* No name that was given up is taken again, and none is given up twice.    *)
NoNameTwice ==
    \A c, e \in changes \union Seed :
        /\ c.new = e.old => c.day < e.day \/ c.old = c.new
        /\ c.old = e.old => c = e

(* Once all changes of names are in the file, "the most recent symbol that  *)
(* `symbol` was renamed into" is what became of it, through as many renames *)
(* and mergers as there were, unless a name was taken again; and a name     *)
(* that came of one change of an original name was that before its day.     *)
NamesFollowed ==
    (changes \subseteq load_master /\ NoNameTwice) =>
        /\ \A s \in Ticker : canonical(s) = Today(s)
        /\ \A c \in changes \union Seed :
              (\A e \in changes \union Seed : e.new \in {c.old, c.new} => e = c) =>
                  \A when \in Date :
                      resolve_as_of(c.new, when) = IF when < c.day THEN c.old ELSE c.new
=============================================================================
