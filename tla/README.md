# TLA+ models of OpenQuant

OpenQuant is a Python stack for Indian equities: market data (`oq-data`), a backtester
(`oq-backtest`), brokers with compliance guard-rails (`oq-broker`), an MCP server
(`oq-mcp`), a strategy zoo (`oq-zoo`) and shared types (`oq-core`), all under
`src/packages/`. This directory holds TLA+ modules of its state-keeping parts, the TLC
configurations that check them, and TLAPS proofs about each of the components they model.

    tlc -config Paper.cfg MCPaperBroker.tla     # check a run; PROJECT.json lists them
    tlapm PaperBroker_proofs.tla                # check the proofs

`PROJECT.json` is the index: components, runs, the lines each definition translates
(`map`), a seeded fault for every checked property (`mutants`), disagreements (`findings`),
hazards and theorems.

## 1. The system

| Component | State | Operations | Hard behaviour | What makes it correct |
|---|---|---|---|---|
| Audit log (`compliance.py`) | list of entries; a file that outlives the process; a lock | `record`, `__init__`/`_load`, `verify` | threads; a write that fails or stops half-way; death between any two steps and inside a write, and restart | one hash chain in list and file, but for a line that a death cut; nothing written is lost or altered unnoticed; the lock is released |
| Kill switch (`compliance.py`) | `engaged`, `reason` | `engage`, `reset`, `check`, `check_loss` | engaged by one thread while another has checked it; recording the engagement may raise | no order between engagement and reset, except those already checked |
| Paper broker (`paper.py`) | orders, fills, positions, holdings, cash, quotes, specs | `place_order`, `cancel_order`, `set_quote`, `register_instrument`, `connect`, `disconnect` | partial fills; positions turned round; `record` raising in the middle of an order | orders, fills, positions, cash and trail agree after any sequence of calls |
| Live adapters (`adapters.py`) | none but switch and log; the broker has the orders | construction, `place_order`, `cancel_order` | request or reply lost; check-then-send; fills at the broker | trail and broker differ only by calls that raised or are under way |
| Assembly and bridges (`base.py`, `notifications.py`) | which log, which switch; `record` replaced on the log object | `AsyncBroker.__init__`, attach, `_record`, `detach` | attach and detach while calls are under way; a notifier that raises | each event told once to each attached bridge |
| Tool cache (`oq-mcp/cache.py`, `tools.py`) | ordered dict of key to expiry and value | `get`, `set`, `clear`, the tools' look-up | entries at their limit of age and number; an empty cache is falsy | bounded; fresh by the clock of the cache that answers; room is made for a new key only, one entry at a time |
| Data sync (`bhavcopy.py` and its four copies, `storage.py`) | raw files; one Parquet file per dataset and year | `sync_range`, `download_*`, `write_eod`, `write_partitioned` | revisions, failing fetches, error pages, crashes between steps | a day is stored whole and its rows once; it stays but for the lost update of two processes, and for a crash that leaves the year's file truncated |
| Reference data (`corporate_actions.py`, `universes.py`, `symbols.py`) | three Parquet tables | `add_*`, `members_as_of`, `canonical`, `resolve_as_of`, `prices`, `wide_prices` | entries made in any order and corrected | answers as of a day agree with what happened up to it |
| Backtest engine (`engine.py`, `intraday.py`, `costs.py`, `slippage.py`, `tax.py`) | loop state: values, weights, trades; lots | `backtest`, `backtest_intraday`, `estimate_taxes` | look-ahead, gaps, charges, square-off, lots | past results do not depend on the future; money adds up |
| Calendar and signals (`calendar.py`, `strategies.py`) | none of its own; the bars there are so far | `sessions`, `next_session`, `previous_session`, `rebalance_dates`, `momentum_signal`, `mean_reversion_signal` | weekends, holidays and muhurat days in a row; a signal computed again when bars have come in | both directions agree; the past of a signal is settled |
| Zoo gate (`gate.py`, `registry.py`, `walkforward.py`) | registry, reports of a run | `register`, the hook, `run_gate`, `walk_forward` | NaN, too few folds, strategies that raise anywhere | a pass stands for evidence; folds never test what they trained on |
| Instruments, journal, metrics, server, command lines | none | pure functions or wiring | - | see section 7 |

**How they interact.** A script builds one `AuditLog`, one `KillSwitch` on it, and a broker
that is passed both. `place_order` asks the switch, acts, and records. A
`NotificationBridge` replaces `record` on the log *object*, so every caller of the log goes
through it. `oq sync` fetches raw files and writes Parquet; `api.py` reads that Parquet with
the reference tables; backtests, the zoo and the MCP tools read through `api.py`, the last
through the cache. `oq-zoo gate` backtests registered strategies over a panel of prices and
walks them forward. Nothing but the audit log takes a lock.

## 2. Modules

| Module | Models | State and actions |
|---|---|---|
| `Ledger` | what an audit log promises | `Commit(e)` enters a record, `Return(e)` tells its caller, `Tear` is a write that stopped half-way: what had entered stays, nothing is promised any more |
| `AuditLog` | `AuditLog` | `record` is `Acquire`, `Chain`, `AppendEntry`, `Write` (or `WriteFails`), `Leave`, `Return`, the steps of its body in their order; `Crash`, `Restart` for the process: it may die between two steps, or inside `fh.write` with a piece of the line in the file (`cut`). It implements `Ledger` under the mapping `ledger <- FileSerials` |
| `OrderBook` | what a broker promises of its orders | orders enter, are cancelled while live, and nothing else ever happens to them; trading is halted and resumed |
| `PaperBroker` (with `Fractions`) | `PaperBroker`, `KillSwitch` | `place_order(req)` is one of `PlaceBlocked`, `PlaceRejected`, `PlaceStranded` (first record raises), `PlaceResting`, `PlaceFilled`. The coroutine has no suspension point, so each is one step, trail included. A `record` that raises has already put its entry in the list (`compliance.py:115-116`): raising after "order.placed" leaves the order PENDING, raising later changes nothing more. It implements `OrderBook` with the orders' status and filled quantity |
| `LiveBroker` | `_BaseLiveAdapter` and its three subclasses | a call is split where it talks to the broker: `PlaceCheck`, `Submit` (or `SubmitLost`, `SubmitUnanswered`), `RecordPlaced`; `CancelSent` or `CancelUnanswered`, `RecordCancelled`. The broker takes note that it was `asked` to cancel, and may fill, reject or cancel the order when it likes (`MarketMoves`); the entry is written whatever status the reply has |
| `BrokerStack` | `AsyncBroker.__init__`, `KillSwitch(audit)`, `NotificationBridge` | `record` and `original` are who is called first and who each bridge calls; a call settles the chain it goes `through`, runs `RecordOwn`/`RecordGiven`, then tells the bridges outwards, `Notify` by `Notify` |
| `ToolCache` | `TTLCache` and its use by the tools | `CallHit`, `CallMiss` (read data, compute for a while, set), `CallRaises`, `set`, `clear`, `Tick`. A shared cache and one passed in, each with its own time to live and size; an empty one that is passed is answered for by the shared one (`Chosen`) |
| `DataSync` | `sync_range`, `download_*`, the command's second download, `write_*` | one action per file operation of a process: `Look`, `Fetch`, `OpenCache`, `FillCache`, `Parse`, `Again`, `ReadPartition`, `OpenPartition`, `FillPartition`; `Publish` is the exchange, `Crash` a death. `Init` chooses a scenario: the dataset, the processes that sync, the days they refresh past the cache, what `on_missing` says, the faults. A publication is a sequence of rows, of which several may have one key. The loop of one dataset stands for its copies; the map points at that of the equity bhavcopy |
| `ReferenceData` (with `LowestTerms`) | the three tables and `prices`, `wide_prices` | additions with the history of what really happened beside them; the look-ups are operators |
| `Backtest` (with `LowestTerms`) | the engine's loop, `apply_square_off`, costs, `SpreadSlippage`, the tax ledger | `Start` aligns and validates, `Iterate` is one bar, `TaxRow` one row of trades. A spread is looked up by the date of the bar, as of its midnight (`AsOf`), in a table by bar or by date (`by_date`). Two calls are made on inputs that agree up to a bar, so that look-ahead is an invariant |
| `Calendar` | `TradingCalendar` | operators; a calendar is its holidays by year and its muhurat days |
| `Strategies` | `rebalance_dates`, `momentum_signal`, `mean_reversion_signal` | bars come in one by one on the days of a `Calendar`, and the signals are computed again over all there is, as a strategy that runs every day does |
| `WalkForward` | `walk_forward` | operators; `FoldCount` is the loop's number of rounds, in closed form |
| `Gate` | `register`, the command's hook, `run_gate` | one spec after the other: `ReferenceRuns`, `ReferenceRaises` (a failure in the report) or `BenchmarkRaises` (outside the `try`, so the gate ends without its reports); then a fold at a time `FoldSkipped`, `FoldRuns` or `WalkRaises`; `WalkEnds`; `Declare`; `Judge` gives the exit status |
| `Zoo` | the way from calendar to gate | composes `Strategies` and `Gate`: the bars of the research become the panel of the gate |

The `*_proofs` modules hold the theorems, on the shared `Lemmas` (section 4). `MC*` modules give the model values.
`Fractions` keeps numerators and denominators as they come, so that it can be reasoned about without recursion;
`LowestTerms` reduces with Euclid's algorithm (a recursive function), which keeps TLC's states canonical and equal
values equal.

Abstractions common to all: names, payloads and timestamps are small values; SHA-256 is a
hash without collisions (a digest is the sequence it was computed from); floats are exact
integers or fractions, so rounding errors are not modelled, only the roundings the code
asks for (ticks, `round`).

### Assumptions made of what is outside

- A broker accepts or rejects an order once, and a lost reply hides an order that may be alive.
- The exchange publishes a day, may revise it, and may answer with an error page. Processes that sync
  share the raw files and the partitions, and nothing else.
- A file is opened empty, then filled: a crash in between leaves it unreadable. (For the
  log, opened to append, a cut line is left instead.)
- `pandas` from 3 on does not fill gaps in `pct_change`, before it did; `pyproject.toml` allows both
  and `uv.lock` pins 3.0.3, so the backtest is checked with both.
- A strategy and its backtest may raise, which goes into the report; a benchmark that cannot be read as dated returns
  raises too, which ends the gate. Otherwise they answer with a return or NaN; the numbers themselves are inputs.
- A broker that answers a cancellation may give any status.

## 3. Runs

| Run | Bounds | Distinct states | Shows |
|---|---|---|---|
| `AuditLog` | 3 threads, 5 records, 2 deaths, between steps or inside a write; writes fail whole or are cut | 32,570 | `FileVerifies`, `MemMirrorsFile`, `TamperEvident`, `EarlierLinesStay`, `LockReleased`, `ImplementsLedger` |
| `Paper` | 3 orders of 2 kinds, quotes 100 and 110, displayed size 3, slippage 5%, `record` may raise | 519,992 | `TypeOK`, `OrdersMatchFills`, `TrailMatchesBook`, `HaltHonoured`, `PositionsMatchFills`, `MoneyConserved`, `LimitRespected`, `ImplementsOrderBook` |
| `LiveTrading` | 2 callers, 2 orders, 1 recorded cancel, 2 switches | 2,743,258 | `PlacementsAccounted`, `CancellationsAccounted`, `AtMostOneLate` |
| `BrokerStack` | 2 nested bridges, 2 callers, 2 entries; one notifier may raise | 114,401 | `ToldOnce`, `AttachedHears`, `DetachedSilent` |
| `ToolCache` | 3 keys; shared: 1 entry, TTL 2; passed: 2 entries, TTL 1; 5 calls, clock to 5 | 63,264 | `Bounded`, `AnswersFresh`, `OneMakesRoom` |
| `DataSync` | 3 days with a Saturday, 3 revisions (one empty, one with two rows of one key), three datasets; one process with every fault, two with a refresh or a death | 2,770,622 | `DayWhole`, `KeysWhole`, `AvailableIngested`, `DaysStay` |
| `Reference` | 4 days, 2 symbols, 10 actions, 2 indices, 2 companies, 4 renames, 4 writes | 5,367 | `AdjustedAsHeld`, `MembersAsMoved`, `NamesFollowed` |
| `Backtest` | every table of 3 bars over 3 rows of signals and of prices, gaps, daily and intraday, spreads by bar and by date | 461,826 | `LooksNotAhead`, `NetBelowGross`, `HoldingEarns`, `FlatOvernight`, `LotsAccounted` |
| `Zoo` | 15 days and 4 calendars, 2 symbols; 2 specs out of 3 entries, 3 configurations | 811,521 | `SessionsFound`, `RebalancedOncePerPeriod`, `SignalsSettled`, `FoldsHonest`, `PassIsEarned` |
| `PaperMaxLoss`, `StackEmptyLog`, `SyncFlows` | smallest that show it | - | disagreements, section 5 |

Why these bounds are enough for the interesting cases to happen:

- *Audit log.* Three threads contend for the lock: one holds it, two wait; five records let one fail, one
  follow it, and others be made after a restart; two deaths let a restarted process die again. Both
  kinds of failing write are in one run, so that a torn line meets a lost one.
- *Paper.* Buying 2 and selling 4 (cut to 3 by the displayed size) opens, adds, reduces and turns a position
  round; the sell limit rests at 100 and fills at 110; slippage of 5% produces a loss that
  trips `max_loss`. One symbol: positions of different symbols share only `cash`, and
  the theorems of section 4 are for any number of symbols.
- *Live.* One caller engages the switch between the other's check and send, twice.
- *Bridges.* Two bridges nest either way; two callers let one attach or detach in the
  middle of the other's call. `Nested` restricts detaching to last in, first out.
- *Cache.* Three keys for two places, or one, force evictions; the clock passes an entry's age by more than the TTL
  and the time of computing. The shared cache's TTL is the longer one, so that an empty cache that is passed
  gets an answer it would itself have let go.
- *Sync.* Three days: one before, one skipped, one after; three revisions drop a row, repeat a key,
  and have none. Two processes read and write the same raw files and year, in every order: what
  they lose of each other's days is marked in `exposed` (a process had read the year's file before the day came in,
  and has yet to write it), and the properties say that nothing else is lost, and that no row is mixed up.
  The days that are refreshed lie in every process's range: were it not so, one that dies while it refreshes a day
  outside its own range would leave a good raw file that nobody reads, and `AvailableIngested` would not hold.
- *Reference.* A day without a row in front of, on and behind an ex-date; a stock that joins,
  leaves and rejoins an index; a chain of two renames entered in either order.
- *Backtest.* Three bars are the least with a gap inside a holding, two sessions of which
  the first has two bars, and two financial years with a holding longer than a year.
- *Zoo.* Fifteen days are two weeks and two month ends, on a weekend, on a holiday and on a muhurat Sunday; one
  calendar has a week without a session, one has no list for its year. Two specs let the first's outcome meet the
  second's; two entries have one name. The three configurations have folds that overlap, so that rows tested by one
  are trained on by a later one, folds that touch and are too short to count, and no walk at all.

**Fairness.** Only two specifications have any. `AuditLog!FairSpec` has weak fairness of a
thread's next step inside `record`: nothing in it waits for anything but the lock's holder,
which runs on; nothing is assumed of calls being made, of crashes or of restarts.
`PaperBroker!WatchfulSpec` has weak fairness of `check_loss`: the strategy that goes on calling
it, the best case for the switch; it is what makes the counterexample of `PaperMaxLoss` mean something.
`CHECK_DEADLOCK FALSE` is set where bounded calls run out, which is a script that ends.

What the properties say is in the comments over them; the exceptions in them matter: `FileVerifies` is of files of
which no record has raised, and where a death has cut a line it speaks of the lines before the first that is no JSON;
`CancellationsAccounted` is of what the broker was asked, not of what came of it; `AnswersFresh` counts by the shared
cache's time to live when the cache that was passed is empty; `DaysStay` and `AvailableIngested` are of years whose
file can be read, and of days that are not `exposed`; `LooksNotAhead` excepts tables of spreads by date, of which
every bar of a day sees the day's own row (for the exception to matter a day needs three bars: the theorem's may have
them, those of the run have two); `PassIsEarned` takes an alpha of NaN, or one equal to the margin, for enough;
`MoneyConserved` is of positions at cost, not holdings; `NetBelowGross` holds until the portfolio is ruined;
`FlatOvernight` excepts bars after `session_end` and sessions whose last bars have signals but no prices;
`AdjustedAsHeld` excepts a dividend and another action between the same two rows (what a holder's account does depends
on their order then, and the frame does not tell it) and a dividend of all that a share was worth (nothing can be
bought from it); `NamesFollowed` excepts names taken again, and for `resolve_as_of` chains.

## 4. Proofs

TLC sees small instances; the theorems hold for every value of the constants, under the
modules' named `ASSUME`s and, where this says so, an assumption of the theorem.

- `AuditLog_proofs`. `ChainInv` strengthens `MemVerifies` with who may be where: one thread between `Acquire` and
  `Leave` (`HolderInv`), its pending entry chained to the last of the list (`PendingInv`), and list and file in step
  but for it (`InStepInv`). None of the claims is inductive without them: an entry is hashed a step before it joins
  the list, and written a step after. What a death inside the write leaves is a piece of the last line, so the claims
  about the file are about its lines up to the first that is no JSON (`Legible`), and about all of it while no death
  has `cut` one. From `ChainInv` follow `FileChained`, `MemChained` and `MemAndFileAgree`, and `TamperingShows`
  (`TamperEvident`). `LedgerInv` adds where each serial can be, and gives the step simulation of `AuditLogIsLedger`,
  in which a torn write is the ledger's `Tear`. `TamperingIsDetected` is about the chain itself, for lists of any
  length, from the injectivity of the hash: an entry before the last that is replaced or taken out, two that change
  places, one that is put in, each make `verify` fail. The last entry may be replaced or dropped unnoticed.
- `PaperBroker_proofs`. `BookInv` conjoins the type invariant, orders against fills, trail
  against book, and the shape of the trail, including that an open switch has been reset
  since the last engagement in the trail (`Armed`): without it `HaltHonoured`, which is
  about the trail, says nothing of the state the next placement is made in. `Steps` reduces
  `Next` to five kinds of change so that each part is proved once per kind. The action
  properties `TerminalOrdersStay`, `LimitsRespected` and `FillsFit` follow from `BookInv` and
  arithmetic about rounding to ticks and to lots; so does the simulation of `PaperImplementsOrderBook`.
  `PositionsAddUp` and `MoneyIsConserved` are about sums: of the fills of a symbol, to which each step adds at most one
  at the end, and over the symbols, of which one fill moves one. What cash, the positions at their
  average and the realised gains amount to is the same before and after each of the four ways a fill
  meets a position (it opens, adds, reduces, turns round).
- `LiveBroker_proofs`. `LiveInv` adds to the checked invariants what a caller has in hand
  (`InHand`: an order in state "placed" is at the broker and not yet in the trail, and two
  callers hold different ones) and that a caller that has been late has no second checked
  order (`LateIsSpent`). Both are needed for the recording steps. `CancellationsAreAccounted` is of orders the broker was
  asked to cancel: what became of them neither the trail nor the theorem says.
- `BrokerStack_proofs`. `ToldInv` gives each entry under way to one call, and each call a chain without
  repetition of bridges it has still to tell; so `EachToldOnce` holds even of scripts that detach
  in any order. `StackInv` is for scripts that nest (the constant `Nested`, an assumption of the theorems): the chain is
  the stack of the attached bridges, each remembering the chain below it, and every call under way
  owes those of its chain. With it `AttachedAreTold` and `DetachedAreSilent` are inductive.
- `Data_proofs`. For `DataSync`: `SyncInv` says of the rows that are on their way, in a raw file, in a process that
  has parsed or read them, in a partition, what the properties say of those at rest, for any number of processes, days
  and revisions, and for publications that repeat keys: `KeysAreWhole` is of all rows of a key, as no step splits them
  (`KeyWise`); a process that is about to write carries every day that is not `exposed`. `AvailableIsIngested` needs a
  second one, `DutyInv`: for each good raw file that was never stored there is a process that cannot end its sync
  before it is, because it has yet to come to the day, is on the way from its raw file to the year's, or has died and
  must start again. It assumes `RefreshesWithin`, that scripts refresh only days in the range of their process: an
  assumption about the scripts, which no code sees to. The ranges may differ. Both it and `StoredDaysStay` are of
  years whose file can be read and of days not `exposed`: a process that dies between opening the year's file and
  filling it loses all its days, and two that overlap lose each other's. For `ReferenceData`: `WindowsInv` says that
  the windows in the file are those of the joinings, each ended by the company's next move, if there is one; the last
  move of a company is then also the window that is open. `NamesInv` bounds the file by what happened.
  `NamesAreFollowed` compares two loops: `canonical`, which stops at a name it has seen, and `Today`, which goes
  through the days. Where no name is used twice, the days after a change are those ahead, so no name seen is met again
  (`Ahead`, `Behind`), and both go through the same names. `PricesGoAsHeld` needs of the file only that its ratios are
  in lowest terms and its keys few (`ActionsInv`). The factor series of a row is the product over the actions after
  it, in whatever order the fold takes them; that of the row before has besides the factors of the actions between the
  two (`ProductParts`), and each cancels what the share grows by (`GrownUndoes`), because the last close an action
  sees is that row's (`LastBefore`). A volume is multiplied by what the price is divided by, and its rounding is off
  by half a share at most. For `ToolCache`: `CacheInv` says of each cache that it is within its size, has each key
  once (`Apart`), and that no entry expires later than its age allows (`Aged`). The age of answers follows;
  `OnlyOneMakesRoom` compares the keys before and after each operation.
- `Backtest_proofs`. `EngineInv` is the recurrence of the loop: each bar of each call is computed from the bar before
  it, and two calls agree as far as `cut` lets them. `NothingAhead` follows by comparing what the operations of an
  iteration look at; nothing is assumed of the arithmetic, the charges or the spreads. What a bar is charged depends
  on the spreads of its day where they are looked up by date, so it is told once the day is over (`Settled`). That the
  bars are in order, which all theorems need, is an argument about ranks in a finite set. `CarriedOvernight` shows
  that `FlatOvernight` names every way past `apply_square_off`. `HoldingsEarn` multiplies the returns of a holding
  into the ratio of its last and first price, with the weights, prices and tables typed along the way; of a holding
  over a gap it speaks only if `pct_change` pads. `CostsOnlyCost` compares the net with the gross value bar by bar. It
  assumes `Modest`: a whole portfolio at the largest leverage, sold and bought again, is charged no more than it is
  worth. Every preset of `costs.py` (lines 111-179) charges less than one percent of what is traded, at a leverage of
  1 (`engine.py:73`) or 5 (`intraday.py:86`): a tenth of the bound, which leaves room for spreads of up to 18 percent,
  against a default of 0.1 (`slippage.py:77`). A minimum per order may be anything. Without `Modest` a ruined
  portfolio could be charged a negative amount, so `CostsNeverPay` states what holds for any rates: as long as both
  values have been positive, charges only cost. The rates of the run are exaggerated for TLC's few bars and are not
  `Modest`; `NetBelowGross` holds there all the same. `LedgerBalances` rests on `TaxInv`: per symbol, the lots are in
  the order of their bars (`Ordered`), each is a purchase (`Bought`), each purchase after the oldest lot is there
  whole (`Complete`), and none is older than the rows read; over all symbols, what was spent and gained is what was
  received and is still in stock.
- `Zoo_proofs`. `WalkIsHonest` is arithmetic: the number of folds is a quotient, and windows lie a step apart.
  `PassesAreEarned` rests on an invariant about each report at each stage of the gate, and on `FoldsBehind`: each fold
  that was backtested lies behind its own train window. Rows tested by one fold may be trained on by a later one.
  `RebalancesOnce` and `SignalsSettle` need only that bars come in ascending (`BarsInv`): which bar a target is
  snapped to is settled once a later bar is there, and what the signals look at lies before it. `SessionsAreFound`
  says that the bars so far are the enumeration of the calendar, day by day (`Enumerated`).

`Lemmas` holds what these proofs share and is about no component: least elements, loops and folds, and the laws of
fractions in lowest terms.

Three techniques recur. *Least counterexamples*: the induction rules of the proof library cannot be used, so a claim
about every number or every finite set is proved by taking the least that fails (`LeastNatural`, `LeastSubset`,
from well-foundedness). *Existence of recursive functions*: that `gcd`, `sessions`, `canonical`, `Today` and the folds of the
community modules are functions that satisfy their own equations is proved, not assumed (`FoldExists`,
`FoldUnique` and their like). *Fractions* are compared over a common denominator: `LowestTerms` reduces every result, and
the laws of sums, products and order are derived from `gcd` being the greatest common divisor.
The assumptions of the constants are the modules' own: sets of symbols are finite, days are numbers, units positive.

Only model-checked: `LockReleased` and `MaxLossEngages`, as liveness is out of the prover's
reach. Every invariant and every action property that a run checks is stated by a theorem.

## 5. Where code and text disagree

Shown by a run (and listed under `findings`):

- `PaperMaxLoss`: a realised loss beyond `max_loss` is forgotten when the position is flat
  (`paper.py:317`), so the switch stays open.
- `StackEmptyLog`: `audit or AuditLog()` (`base.py:55`) replaces a log that is still empty.
- `SyncFlows`: the flows' address has no day (`flows.py:45-48`), every day gets the latest figures.

Met while modelling; the models do what the code does:

- Broker: `cancel_order` and fills at a live broker are not what `base.py:39-41` suggests: a cancel ignores the switch, a
  cancel whose reply is lost and all live fills are absent from the trail; "order.cancelled" is recorded whatever status
  the reply has (`adapters.py:152-156`), of an order that is open still, filled or rejected too; a request's own tag
  hides the Algo-ID (`adapters.py:265` against `docs/compliance/index.md:10`). Bridges detached
  in another order than last in, first out lose or keep notifications.
- Audit log: a process that dies inside the write leaves a piece of a line, and the next `AuditLog` on that file
  raises in `_load` (`compliance.py:90-96`), or, if all but the newline was written, glues the next entry to it.
- Cache: `cache.py:5-6` and `test_eviction_fifo` say first in first out; `get` moves a hit to the end, which makes it
  least recently used. No property takes sides. `docs/api/oq-mcp.md:63-68` and `docs/cookbook/mcp-claude.md:48-50`
  tune it by `OQ_MCP_CACHE_TTL` (900) and `OQ_MCP_CACHE_SIZE` (1024), which nothing reads: the cache has 300 seconds
  and 256 entries (`tools.py:25`). A cache that is passed and still empty is not used: the shared one answers, with
  its own time to live (`tools.py:60`, `:90`). The cached dict itself is returned, so a caller could change it.
- Data: an error page in the raw cache makes every later sync skip its day (`bhavcopy.py:200-205`);
  datasets merged by key keep rows that a revision dropped, against `storage.py:12-13`;
  two announcements with one key in one blob are both kept, as `write_partitioned` compares what comes with what is
  stored only (`storage.py:52-59`); two syncs of one year lose each other's days, as
  nothing locks the year's file.
- Reference: `resolve_as_of` goes one step back where it "walks the rename chain"
  (`symbols.py:53`), and gives `HDFC` for `HDFCBANK` before the merger; a name taken back resolves
  to where the loop is cut; two dividends on one ex-date overwrite each other
  (`corporate_actions.py:77-79`); a dividend's factor uses the raw close before it, which is on
  another scale if a split lies between that row and the ex-date.
- Backtest: `engine.py:19-21` says a missing price forces the prior weight forward, the code trades at the target
  weight; spreads are looked up by `dates[i].date()` (`engine.py:147`), so that a table by the minute is read as of
  midnight, and one by the day gives the first bar of a day what may be known at its end; under pandas 3 the return
  over a gap is lost; `intraday.py:110-112` says every session end is flat, but see `FlatOvernight`'s exceptions;
  `VolumeParticipationSlippage` multiplies its coefficient by 100 (`slippage.py:113`, against line 66); a minimum
  brokerage can ruin a small account, after which charges turn negative; the tax ledger sees trades by target weights,
  not drifted units, so lots can remain or sales find none (`tax.py:85-95`).
- Zoo: an alpha that is NaN, or exactly the minimum, 0 by default, passes (`gate.py:138`) a gate that "strictly beats"
  (`gate.py:5`) and fails a "Net CAGR ≤ benchmark CAGR" (`docs/community/zoo.md:16`). A benchmark without a date index
  raises outside the `try` (`gate.py:136-137`) and takes the reports of all strategies with it. A lookback of a test
  window or more trades nothing, so the Sharpe ratio is 0, which passes (`gate.py:165-180`); so do constant returns. A
  run without specs exits with 0. `STRATEGY_TEMPLATE.md:28` says that CI runs `oq-zoo gate`, but
  `zoo-honesty-gate.yml` runs the tests and `oq-zoo list`.

## 6. Plan

Done: 1 `AuditLog` with `Ledger`, 2 `PaperBroker` with `OrderBook`, 3 `LiveBroker`, 4 `BrokerStack`,
5 `ToolCache`, 6 `DataSync` with two processes, 7 `Backtest`, 8 `ReferenceData`, 9 `Calendar`, `Strategies`,
`WalkForward`, `Gate` and `Zoo`; proofs of all of them.

What could follow:

1. An abstract store of days that `DataSync` implements for one process.
2. `LiveBroker` against `OrderBook`: its book is at the broker, so orders enter late and halting does not
   stop those under way; the abstract specification would have to allow it.

## 7. Not modelled

- `metrics.py`, `result.py`, the zoo's strategies, `equal_weight`, `synthetic_universe`: numeric
  functions of frames, without state; only floats matter in them.
- `train_test_split`: one rounded product of floats.
- `VolumeParticipationSlippage`: a square root of a participation rate.
- `screener.py`, `server.py`, the command lines, `journal.py`: parsing, formatting, wiring.
- Parsers of the exchange's files: which rows a blob yields is modelled, not how its text is split.
- The read side of `storage.py` (filters on the stored frames) beyond what `ReferenceData` needs.
- `instrument.py`: a record with a validator. The calendars' lists of holidays are data.
- A ratio of a corporate action that is NaN, which `corporate_actions.py` treats differently at lines 93 and 147; a
  `record` of the script's log that raises under bridges (`BrokerStack` takes its file for writable; what such a record
  leaves is the subject of `AuditLog`, and no bridge goes on with it).
