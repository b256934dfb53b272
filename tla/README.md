# A model of forexml

forexml trades rule-based foreign exchange strategies: a backtest replays bars
through a feature engine, a rule engine and a risk gate; a live loop does the same
against a MetaTrader 5 terminal, with simulated fills or real orders. This directory
holds TLA+ modules of it, the TLC configurations that check them and TLAPS proofs.
Paths below are relative to `src/`; `live/loop.py` is short for `forexml/live/loop.py`.

## The system

| component | state | operations | what makes it correct |
|---|---|---|---|
| live loop (`live/loop.py`) | open positions and equity in memory | `poll`: fetch, manage exits, evaluate, publish, size, open | no trade lost or held beyond the limit, whatever fails; memory, table and ledger agree; exits happen |
| paper-trade process (`cli/main.py`) | the scheduler, one connection per store | start, one poll per bar close, Ctrl+C, close the stores | a restart goes on where the last session stopped |
| open position store (`live/positions.py`) | one row per open trade | save, delete, load_all | what was open is reloaded |
| trade ledger (`ledger/ledger.py`) | append-only open and close rows | record, load | a close per open |
| signal bus and store (`signals/`) | one row per evaluation, later its outcome | publish, append, resolve_outcome | every trade is explained by a logged signal; labels follow results |
| execution (`execution/`) | the broker's positions | submit_market_order, reconcile | a close order closes the position it names |
| bar feed (`data/adapters/mt5.py`, `data/validation/`) | none | fetch, quarantine | decisions are taken on closed, complete bars |
| bar store (`data/store.py`) | one file of bars per symbol, timeframe and year | write (merge year by year, rewrite in place), read | what was written is there; a merge drops nothing, whatever dies |
| ingest command (`cli/main.py`, `data/adapters/dukascopy.py`, `histdata.py`) | none | download, resample, validate, write | what it could not store it reports |
| feature engine (`features/engine.py`) | none | get_feature_vector | nothing later than the decision is used |
| rule engine (`strategies/engine.py`, `primitives/`) | none | evaluate | levels come from completed sessions; stop and target on either side of the entry |
| risk gate (`risk/gate.py`) | frozen limits | evaluate | caps and loss limits hold of every book it leads to |
| backtest engine (`backtest/engine.py`) | open trades, ledger | run | the same decisions as live |
| lifecycle (`strategies/lifecycle.py`) | `status` in the YAML file, transitions | record, is_tradeable | only a human makes a strategy tradeable (the code leaves this to its users) |
| report command (`cli/main.py`), walk-forward, metrics (`analytics/`) | none | read_all, generate_windows, compute_metrics | train and test never share a result; a later report continues an earlier one |
| resampling, calendar, decision log, indicators | none | aggregate, tag | |

The live loop's components run in one process. The scheduler calls `poll` in a worker thread, one
call at a time; the main thread waits, and on Ctrl+C closes the adapter and the stores
while a poll may still be running. `poll` reads the feed, then walks the open positions
(order, ledger, label, table, one after the other, without a transaction), then
evaluates and may open one trade (log, order, table, ledger). The rule engine, the
feature engine and the gate are pure calls in between. What is hard is therefore not
contention but sequence: every one of those calls may be the last, may fail, or may
have happened without the caller knowing; positions come back from disk in another
shape than they were stored; and three stores, a list and a broker all hold a version
of "what is open".

The ingest, backtest and report commands are processes of their own, started by hand
beside or between live sessions. They meet the loop in files: the yearly Parquet files
of bars, which nothing locks; the signal store, which DuckDB opens for one process at a
time; and the strategy's YAML file, which people and agents edit.

## Modules

* `LiveLoop` models the live process over its stores and the broker. `pc` is the place
  a poll has reached; each call with an effect outside the process is one action:
  `Hold` (save), `SubmitClose`/`CloseFails` (order), `BookClose` (ledger),
  `ResolveOutcome` (label), `DeleteRow` (table), `FinishManage` (the list is replaced),
  `SignalRejected`/`SignalTakenOnly`/`SignalApproved` (publish and the decision),
  `SubmitOpen`/`OpenFails` (order), `SavePosition`, `BookOpen`. `Start` is
  `LiveTradingLoop.__init__` with `_reload_open_positions`; `Interrupt`, `CloseNext` and
  `Exit` are the `finally` block of `paper_trade`; `Crash` ends the process anywhere.
  A step that finds its store closed raises (`Raise`): the scheduler logs it, the list
  in memory stays what it was. Prices are abstracted to what they decide: whether a
  position is hit, and the sign and size of a result. `barsLeft` is the distance of the
  clock from a trade's `time_stop_at`, in bars (the code compares the two and counts
  nothing); `clock` says whether `time_stop_at` still has its time zone. After the data
  adapter has been shut down an order may fail or get through (`BrokerReachable`):
  `execution/mt5.py` connects anew for the session's first order and not for a later one,
  and which of them it is, is left open.
* `TradeBook` is the abstract specification of `LiveLoop`'s stores: a trade is opened
  once, kept, closed once. `LiveLoop!ImplementsTradeBook` is the refinement: the rows of
  the table are the open trades, the ledger's close rows the closed ones.
* `LiveLoopProofs` proves the invariants of `LiveLoop` and the refinement of `TradeBook`.
* `BarFeed` models how ticks become bars, bars reach the store and three readers take
  their view of it. A bar is the set of ticks it was built from, so a bar fetched while
  it forms is one that lacks ticks. `Poll` is the first half of `poll` with
  `fetch_bars`, `validate_bars`, `BarStore.write` and `read`, `StoreBarSource.get_bars`
  and the cut of `get_feature_vector`.
* `RiskGate` is `RiskGate.evaluate` as operators; `RiskBook` an account whose trades all
  pass it. `Reporting` chooses the snapshot the caller gives: the account's, or the one
  the loop and the backtest build (`OpenPosition(symbol, 0.0)`, no realised result). A
  trade closes at any result, also beyond its stop: it is closed at the market of the bar
  that reached the stop, less slippage and commission, so the approved risk is no bound.
  How far beyond is the market's; `MaxOverrun` stands for it, and nothing in the code
  limits it.
* `RiskProofs` proves the caps and limits of `RiskBook`, and first what a sum over a set
  of positions is.
* `Parity` runs the backtest's bar loop and the live loop's poll over one market. The
  lists of open trades are sets: at most one trade is opened per bar, and neither engine
  looks at the order. `ParityProofs` proves that both keep the same trades.
* `SignalRules` has the session levels, conditions, filters, exits and
  `StrategyEngine.evaluate` as operators over the bars traded so far; the properties
  compare them with reference definitions at every bar close.
* `SignalRulesProofs` proves facts about these operators for every length of day.
* `BarStore` is `BarStore.write`, one file of a year after the other, by several
  processes: `ReadPartition` (read the file), `Truncate` (opening it for writing empties
  it), `Finish` (the merged rows are in it), `Crash` anywhere in between. While it is
  written, and after a crash, a file is "torn": reading it raises. Two processes at one
  file may leave a mixture of both (`FinishBeside`, `FinishGarbled`). `overtaken` and
  `raced` are history: who has not seen whose rows.
* `BarMap` is what the files stand for: a map of bars that grows by merges and loses a
  year only as a whole. `BarStore!ImplementsBarMap` is the refinement; what a writer has
  read counts as kept until it is written back.
* `Ingest` composes the ingest command and the live loop over one `BarStore`. A bar is
  the set of hours it was built from, so that a bar with an hour missing, because its
  download failed or the range began in the middle of it, differs from the whole one.
  `IngestCommand` is the download, `validate_bars` and the call of `write`; `Poll` and
  `ReadBack` are the first half of `poll`; `Dies` kills either in the middle of a write.
* `Lifecycle` has the status in the file, which anybody edits to any of the four values
  (`EditStatus`), and the trails that actors have `record` append to, each a list in the
  memory of its process (`LoseTrail`). Neither looks at the other, as in the code. `WalkForward` is the report: the rows it has read, its windows one by one,
  and the drawdown of `compute_metrics` as operators on a series of results. `Research`
  composes both with sessions and backtests that log signals and trades.
* `IngestProofs`, `ResearchProofs` and `FeedProofs` prove the properties of the modules
  they are named for, `IngestProofs` those of `BarStore` too; `NumberFacts` has two facts
  about least and greatest numbers that all proofs by induction use.
* `MC*` modules hold the constants that a `.cfg` cannot write.

Operators marked "faulty variant" are plausible mistakes in the definition that
follows them. They are used by no specification: substituting one for its original
must break the property it is paired with in `PROJECT.json`, which shows that the
property depends on that code.

## Runs

| run | question | bounds |
|---|---|---|
| `live_faults` | what holds under crashes, Ctrl+C in mid-poll, refused, unacknowledged and manually closed orders, restarts in either mode | 3 signals, 2 positions, time stop of 3 bars |
| `live_calm` | do memory, table, ledger, labels and equity agree, does the time stop close, do the stores implement `TradeBook` | the same but a time stop of 4, no failures, results -1 and 1 |
| `live_broker` | does every close order hit its own position and every broker position have a row | 4 signals, time stop of 4, MT5, refusals, manual closes, clean restarts |
| `bar_feed` | what the features, the rules and the exit check see | 4 bars of 2 ticks, window 3, features of 2, delay 0 or 1 |
| `risk_book` | do the caps hold of every book, and are losses bounded although stops are overrun | 4 symbols, 4 trades, 3 positions, limits in quarters of a percent, closed up to a quarter beyond the stop |
| `parity` | do the backtest and the live loop keep the same trades | 5 intervals, 2 positions, time stop of 2 |
| `signal_rules` | are levels, windows and filters what they are meant to be | 8 bars, days of 4, 3 shapes of bar or none |
| `bar_store` | what is stored, reported and read back when the command and the loop share a store | 3 bars of 2 hours, the first in the old year, window of 2; 2 runs of the command, 1 death |
| `research` | what reports of a strategy's signals are worth, whatever its status becomes | 5 bounded instances: a status edited freely around 1 signal; 3 rows in 5 days, live; 3 rows in 3 days, live, wins relabelled as losses and back; 2 rows in 4 days, with backtests; series of 5 results |
| `time_stop_after_restart` | violated: a reloaded trade's time stop never closes it | 2 signals |
| `forming_bar` | violated: with a poll delay the rules are handed the forming bar | 3 bars |
| `risk_in_loop` | violated: the gate does not count what the loop has open | 3 trades |

Why the bounds are enough. Three signals with two positions give a full book, a full
book with one more signal, and a closed trade beside open ones; the loop compares ids
only, so signals are symmetric. Failures need at most two positions to interact: one
that fails and one already handled in the same pass. A time stop of three bars lets two
trades, opened one bar after the other, both be open when a third signal comes; with two
bars the limit would never be reached. Four let a trade that was closed in a pass which
then failed be held by the next one. `MaxCloses` stops
polls once a trade has that many close rows: a second one is the interesting case (a
trade closed again after a crash), a third repeats it. In `BarFeed` a bar of two ticks
can be missing, half-built or whole; a window of three lets a poll quarantine the newest
two bars and still see one, and four bars make bars enter and leave it. In `RiskBook`
three trades reach each cap, the fourth finds the book full, one symbol is in no group,
and the loss limits are a few stops away. In `Parity` five intervals hold two trades one after the other. In
`SignalRules` eight bars are two days, so that a session of the day before, of today and
one forming occur; the window of five bars is the shortest that suffices
(`DayLen + 2 - 1`) and four are not enough.
In `bar_store` three bars across New Year make every window of the loop touch one year
or both, and a bar be rejected between two that are kept; a second run of the command
repairs or collides with the first; one of the three middle hours closes with a bad
spread, two may fail to download, one bar may be taken for a spike; a second death
would only lose the other year too. In `research` `Bounds` lists the instances, because
the histories of the status and of the reports are independent but for one thing, the
status a session or backtest has read: since the file may be edited to any status at any
time, one signal sees every status it can be evaluated under, and a trail of one
transition is appended to and lost; windows of one or two training days and a test day
follow one another in five days; three rows let a trade be labelled again between two
reports with others before and after it; five results make a fall, a recovery and a
deeper fall.

Fairness (`FairSpec`, used by `live_calm` and `time_stop_after_restart`): a poll that
began runs on and the scheduler polls again while it runs (`WF(Poll)`), a stopped
process is started again, and a shutdown completes. Nothing is assumed of prices, of
signals or of failures, and bars may also pass without a poll. `BlockingScheduler`
with a cron trigger justifies it: an exception in a job does not remove the job.
`Ingest!Spec` assumes as much of the bars' closing, the polls and the steps of a write;
not that anybody runs the command, nor that anything dies or fails. `Research!Spec`
assumes only that a report that was started runs on.

Deadlock is checked in every run but `bar_store` and `research`. `BarFeed`, `Parity` and
`SignalRules` end in `Rest` when their bounded simulation is over; `LiveLoop` and
`RiskBook` never stop. `bar_store` and `research` stop when the bounded runs, days, rows
and transitions are used up, or, in `bar_store`, while a lost year stops the polls.

## What the checks show

The loop is careful in the order that matters most: the table is written before the
ledger's open row and deleted after its close row, so a trade is never forgotten
(`NothingForgotten`), and the label is written after the close (`OutcomeHasClose`), at
any crash point. `max_concurrent` survives restarts and failed orders
(`RestartWithinLimit`). Without failures all five records agree (`Mirror`,
`EquityMatchesLedger`).

The bar store keeps every completed write (`WriteStored`) and, with one writer at a time,
drops no bar in a merge (`ImplementsBarMap`); since the last write wins, each poll
repairs its window, whatever an ingest run has left there (`WindowWhole`). The ingest
command reports every hole its tolerance lets it see (`LossReported`). Walk-forward windows
share no test day (`TestedOnce`), and a report made after more signals has each window of
the one before with every trade it counted (`ReportStable`), because windows start at the
oldest signal of all; a trade closed again may have changed its result, not its place.

The gate's bound on losses (`WorstCaseBounded`) is weaker than its configuration suggests,
also for a caller that reports everything: entries stop at the limit, but what is open by
then, and carried over midnight, can still be lost, and each of those trades beyond its
stop.

What the code does not keep, found while modelling:

* `time_stop_at` loses its time zone in the table; after a restart every poll that hits
  neither stop nor target raises (`time_stop_after_restart`).
* A position opened at the broker just before a crash, or by an order whose answer is
  lost, is never found: `reconcile()` has no caller. `NoOrphan` is checked without
  these two.
* With `--poll-delay-seconds` above 0, its default, the newest stored bar is the forming
  one: rules and exits look at it, and at the bar just closed only when it was seconds
  old (`forming_bar`; `EveryTickExamined` holds for delay 0).
* The gate is told that open positions carry no risk (`risk_in_loop`).
* Equity restarts at `--initial-equity`, although README.md:63 says the process "picks
  up exactly where it left off".
* If one close order of a pass fails, trades closed earlier in the pass stay in the list
  and are closed again; a crash between close row and deletion does the same.
* A session with `--execution mt5` on positions of a simulated one sends close orders
  without ticket.
* The live window is 505 bars: for M1 that is less than a day and a session, and the
  session level is not the backtest's. For M5 and slower the window suffices.
* A positive `--server-utc-offset` makes `fetch_bars` miss the newest bars: the range is
  sent in UTC, the terminal's times are the server's.
* A write that dies leaves a file without its footer; every later read of the directory
  and every later write of that year raises, until somebody deletes the file. Restarting
  the loop does not help. `PollsGoOnUnlessLost` excepts it.
* Two processes that merge into one year at a time lose the bars of one of them, or the
  file. Nothing locks it. `WriteStored` and `ImplementsBarMap` except it.
* A bar built from ticks with an hour missing is stored as if it were whole, and no
  report mentions it; skipped hours of a download are not reported either.
* HistData bars have `bid_close` = `ask_close`, and `validate_bars` rejects every one of
  them for its spread: `ingest --source histdata` stores nothing, and says so only in the
  count of bars kept.
* `strategies/lifecycle.py:3-5` says that only a human may move a strategy to `active`,
  "enforced here, not by convention". It is not enforced: `LifecycleAuditTrail.record` has
  no caller, its trail is a list in memory that starts empty, it takes `from_status` from
  whoever calls, and `paper-trade` tells its user to edit the status in the YAML file
  (`cli/main.py:253`), which nothing compares with a trail. Whoever can write the file
  makes the strategy trade. No property claims otherwise. A running session also goes on
  with the status it has read.
* `resolve_outcome` overwrites the label a row has (`signals/store.py:81`): when a trade is
  closed again, a later report shows the second result for it.
* `--train-days 0` makes `generate_windows` loop for ever; with test windows longer than
  the training windows, test windows overlap.
* A result is in-sample or out-of-sample by the time of its signal, not of its close.
* The windows are anchored at the oldest row of the store, of any strategy: a backtest
  over older bars shifts all windows of the next report. `ReportStable` excepts it.
* Every evaluation gets a fresh id, so a backtest that is run twice into one store counts
  twice in the report.
* `max_drawdown` ignores a fall from the equity before the first trade.

## Proofs

`LiveLoopProofs` proves, for any set of signals, limits, results, modes and failures:

* `TypeCorrect`: `Spec => [](TypeOK /\ LocalsOK)`. `LocalsOK` says what the locals of a
  poll are at each `pc`: inside the walk the cursor points into the list, and the
  elements of the lists are positions.
* `LedgerSafe`: `NothingForgotten`, and `LabelsAreEarned`: `OutcomeHasClose`. Neither is
  inductive alone. The strengthening (`LedgerInv`) says where the pending trade's and the
  current trade's rows and close counts are at each step of the poll: the row exists from
  `save` on, the close count is positive from `resolve` to `delete`.
* `Logged`: `TradeIsLogged`, with the pending signal logged from `submit` on.
* `Limit`: `RestartWithinLimit`. The table may differ from the list after a failure, so
  the invariant bounds both together: every stored row belongs to the list or was
  reloaded into it, and the list is bounded by what was checked before the append.

Of sessions that all run in the same mode, whatever fails:

* `Straight`: `NoStray` when `Modes = {"mt5"}`. Every position in memory, in the table
  and about to be saved carries a ticket (`TicketInv`).
* `Implements`: `ImplementsTradeBook` when `Modes = {"simulated"}`. The invariant
  `BookInv` is about the list: a position the walk has yet to reach has its row, or was
  closed by an earlier pass that raised. Such a pass raised at a reloaded position,
  whose time stop it could not compare; reloaded positions come first in the list, so
  what it had closed are reloaded positions too, and those are never held, that is,
  never saved again. Raising at a closed store ends all polls. With MT5 a failed close
  order raises anywhere in the list, and a closed trade does come back into the table.

And of sessions to which some of the failures never happen, as in the runs `live_calm`
and `live_broker`. Each hypothesis names the failures that do break the property:

* `NeverOrphaned`: `NoOrphan` when `Modes = {"mt5"}` and no process dies, is interrupted
  or waits for an answer that is lost. The broker is one position ahead of the table
  between the fill and the save, and one behind while a close is booked (`TrackedInv`);
  in between are the only places where a crash leaves a position nobody knows.
* `EquityIsRealised`: `EquityMatchesLedger` of one session in either mode. The result of
  a fill is in the equity before it is in the ledger (`EquityInv`). A second session
  starts from `--initial-equity`, whatever the ledger says, hence the hypothesis.
* `OneStory`: `Mirror`, and `ImplementsThroughBroker`: `ImplementsTradeBook` in both modes
  and across them, when nothing fails (`NothingFails`): a session ends between polls,
  and if another follows no trade has a time stop, since one read back from the table
  makes every later pass raise. The invariant (`CalmInv`) holds list, kept positions and
  table together with their tickets at each point of the walk; `TalliedInv` counts the
  close rows against the labels. When neither crash nor interrupt is possible the stores
  are open as long as a poll runs (`Quiet`), which all of these use.

`SignalRulesProofs` proves, for any day, sessions, strategy, bars and window:

* `Types`: `Spec => []TypeOK`: a bar is known only once it has closed.
* `LiveIsBacktest`: `SameAsBacktest`, under `WindowSuffices` (the window is at least a
  day and the longest session used, less one bar). A completed session began at most
  that long ago (`SessionIsRecent`, by the arithmetic of days and clocks), so the window
  and the whole history give the same level, hence the same answer to every condition
  and filter and the same signal. The hypothesis is not implied by the code:
  `history_window_bars` is 500 whatever the timeframe.
* `HoursAreCircular`: `WindowIsCircular`, from the uniqueness of the remainder.
* `LevelsAreOfTheLastSession`: `LevelIsLastCompleted`. The day and clock that
  `_session_extreme` computes are those of the last moment at which a session of that
  kind ended (`LastEnd`), by cases over whether today's has ended yet. Sessions lie within
  a day: one whose start is after its end selects no bar, in the code and on both sides of
  the property.

`IngestProofs` proves of the store alone, for any bars, years and processes:

* `CompletedWritesStored`: `WriteStored`. The inductive invariant `StoreInv` says of each
  process which year it is at, that a file being written is torn and holds no rows, that
  every year a write is done with still has its rows unless another process has begun on
  it (`Stored`), and that of two processes at one year one was overtaken (`Noticed`).
* `FilesImplementMap`: `ImplementsBarMap`. Without a race a file has one writer
  (`OneWriter`) and what that writer has read is what the file held (`BaseIsCurrent`):
  opening the file changes nothing of what is kept, closing it is a merge, dying in
  between loses the year. Once raced, `BarMap` promises nothing.

It carries both over to the command and the loop (`WritesAreStored`, `MapIsImplemented`:
each step of `Ingest` is one of `BarStore` or none) and proves for any bars, ranges,
outages, rejections and number of deaths:

* `TypeCorrect`: `TypeOK`.
* `LossIsReported`: `LossReported`. While the command writes, `gaps` are those of its batch
  (`Reported`); a bar missing between two kept ones has a nearest kept bar on either side
  (`Neighbours`), and their distance is what the report looked at.
* `WindowIsWhole`: `WindowWhole`. While a poll writes, its batch has every bar of the
  window whole or rejected; what `WriteStored` says of it holds when it is read back.

`ResearchProofs` proves, for any actors, flags and bounds:

* `TypeCorrect`: `TypeOK`.
* `NothingTestedTwice`: `TestedOnce`. Invariant: the windows so far end before the cursor's,
  and start at least the training days apart.
* `ReportsContinue`: `ReportStable`. The starts of a report's windows are an unbroken chain
  from its first day (`Unbroken`, and `Recorded` once rendered). A trade closed again is
  labelled again, but no row is removed and one with a result keeps having one
  (`Outlived`), so later rows leave the first day where it was; the least start the later
  report lacked would have the predecessor it does have, hence none is lacking, and every
  window holds at least the trades it held, though not the results.

* `FiguresAreRight`: `DrawdownIsWorstFall`. The equity, the running maximum and the count
  of trades below it are recursive over the series. A function defined by recursion
  exists (`RecursionExists`) and what it counts is right at each trade (`RunsAre`)
  because there is no least trade at which it is not; `FiguresOfAnySeries` then holds for
  any series of numbers. The rows of the store are such a series because no two are of
  the same day and source (`LoggedOnce`), so that every place in its order is taken by
  one row (`EveryPlaceIsTaken`).

`RiskProofs` proves, for any limits, groups, symbols and trades:

* sums: `RiskOf` is a fold, that is, it adds the risks in an order nobody knows. That
  such a fold exists, that it is a number and that any position may be added first
  (`RiskOfOne`) is shown by the least number of positions for which it would not be.
* `TypeCorrect`: `TypeOK`, whatever the gate is told.
* `TotalRiskIsCapped`: `TotalRiskCapped`; `GroupsAreCapped`: `CorrelatedCapped`;
  `LossesAreBounded`: `WorstCaseBounded`. All three when the gate is told what the account
  has open and has lost (`Reporting = "account"`): it must be, `risk_in_loop` shows the
  second one violated by the snapshot the loop builds. That one also needs disjoint
  groups: `evaluate` looks at the first group that holds a symbol and at no other. For the
  third, a trade has at stake its risk and what the market may take beyond its stop
  (`AtStake`). An entry is made when losses are within their limit, and the book it leads
  to has no more at stake than a full one, by the cap on its risk and the number of its
  positions (`StakeCapped`); a close moves at most what the trade had at stake into the
  losses of the day and the week (`CloseStake`).
* `RiskIsCounted`: what is left with the loop's own snapshot: at most the allowed number
  of positions, each with at most the allowed risk.

`ParityProofs` proves, for any limit on open trades, time stop and number of intervals:

* `TypeCorrect`: `TypeOK`.
* `BacktestIsTheLiveBook`: `SameBook`, and `BacktestIsTheLiveHistory`: `SameHistory`. While
  every interval has its bar, the backtest's open trades are the image of the live
  loop's under `AsTrade` (`Together`): an index into the bars for a time to close at. The
  image is one to one, so both count as many under the limit. An invariant that only
  said that the entries are the same would not be inductive: it leaves open what the
  indexes and the times are.
* `TimeStopIsExact`: `HeldAtMostTimeStop`, with or without gaps (`Timed`, `PastTimed`).

`FeedProofs` proves, for any length of bar, window and delay, whatever polls are missed and
whatever is quarantined:

* `TypeCorrect`: `TypeOK`, with the count of the features' bars.
* `FeaturesComplete`: `FeatureBarsComplete`. A bar that has closed gets no more ticks, so
  what a clean fetch stored after that stands (`RefetchedStands`).
* `WindowIsRepaired`: `WindowRepaired`, and `EveryTickIsExamined`: `EveryTickExamined`, both
  when the server's clock is UTC (`Offsets = {0}`, as in the runs; with a positive offset
  the fetch misses the newest bars and neither holds). Polls come at bar closes (`Clockwork`), so the bar that has just closed is the
  newest one stored, which is the one the exit check looks at (`LookedAt`).

The assumptions are those named `...Assumption` in the modules; TLC evaluates them in
every run. With these every invariant and action property that a passing run checks is
stated by a theorem, and both refinements. Liveness under fairness (`TimeStopCloses`, `PollsGoOnUnlessLost`,
`ReportEnds`) is out of the prover's reach and checked by TLC only. The properties that
the code violates are TLC's too.

## Not modelled, and why

Indicator arithmetic, the amounts of spread, slippage and commission (`MaxOverrun` stands
for what they add to a loss), the ratios of `compute_metrics`: functions of numbers, tested
by the repository. A prepared file (`ingest --source local`) is taken to be as good as
downloaded ticks or, without bid and ask columns, as an export of HistData; what else such
a file may hold (rows twice, in any order) is not modelled. Decoding of tick files and parsing of exports and
of strategy files. The economic calendar: no event is ever loaded. DuckDB's file lock
between processes: reports and backtests run between sessions. `news_blackout`,
day-of-week tags, `coverage()`, `validate-strategy`, the decision log, which nothing
calls. Prices are abstract in `LiveLoop` and `Parity`: the two engines share the code
path that turns prices into hits.

## Plan

Next, in this order:

1. a composition of `BarFeed` with the exit check of `LiveLoop`: which exits a delay or
   a missed poll hides;
2. several strategies in one signal store, and the decision log once something calls it.

To prove: that a poll whose fetch is clean leaves nothing of what an earlier delay hid,
once `BarFeed` is composed with the exits; `SameAsBacktest` from the polls of `BarFeed`
instead of the bars traded; which of the theorems about sessions without failures
survive a single refused order.
