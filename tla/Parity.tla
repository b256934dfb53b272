------------------------------- MODULE Parity -------------------------------
(***************************************************************************)
(* The backtest engine (forexml/backtest/engine.py) and the live loop      *)
(* (forexml/live/loop.py, without faults, polled at every bar close) over  *)
(* the same market.  Time is counted in bar intervals; an interval in      *)
(* which the market does not trade leaves no bar.  The backtest steps from *)
(* bar to bar, the live loop from interval to interval, and where there is *)
(* no new bar it works on the last one again.                              *)
(*                                                                         *)
(* What depends on the same data is the same for both: whether a bar       *)
(* reaches the stop or the target of a trade entered at a given bar, what  *)
(* the rules say at a bar, and the gate's verdict.  A trade is known by the *)
(* interval it was decided at, no two by the same one, and nothing here    *)
(* depends on the order of the lists of open trades: they are sets.        *)
(***************************************************************************)
EXTENDS Integers, FiniteSets

CONSTANTS
    MaxConcurrent, \* strategy.risk.max_concurrent
    TimeStop,      \* strategy.exit.time_stop.bars
    MaxInterval    \* bound: number of intervals

ASSUME ParityAssumption ==
    {MaxConcurrent, MaxInterval} \subseteq Nat /\ TimeStop \in Nat \ {0}

VARIABLES
    interval,      \* intervals elapsed
    bars,          \* bars so far; the backtest's loop index is bars - 1
    barAt,         \* the interval of the last bar
    backtest,      \* open_trades: [entry, index], entry being the interval decided at
    live,          \* open_positions: [entry, stopAt]
    backtestPast,  \* closed trades: [entry, exit, reason]
    livePast,
    backtestSignals, liveSignals  \* intervals of the published evaluations

vars == <<interval, bars, barAt, backtest, live, backtestPast, livePast,
          backtestSignals, liveSignals>>

Interval == 1..MaxInterval
PastTrade == [entry : Interval, exit : Interval, reason : {"price", "time"}]

TypeOK ==
    /\ interval \in 0..MaxInterval /\ bars \in 0..interval /\ barAt \in 0..interval
    /\ backtest \in SUBSET [entry : Interval, index : 0..MaxInterval]
    /\ live \in SUBSET [entry : Interval, stopAt : 0..(MaxInterval + TimeStop)]
    /\ backtestPast \subseteq PastTrade /\ livePast \subseteq PastTrade
    /\ backtestSignals \subseteq Interval /\ liveSignals \subseteq Interval

Init ==
    /\ interval = 0 /\ bars = 0 /\ barAt = 0
    /\ backtest = {} /\ live = {}
    /\ backtestPast = {} /\ livePast = {}
    /\ backtestSignals = {} /\ liveSignals = {}

-----------------------------------------------------------------------------
(* One iteration of the backtest: bar i, decided at interval t.  `hit' are   *)
(* the entries whose stop or target the bar reaches; it is checked before    *)
(* the time stop.                                                            *)

BacktestTimeStopLate(trade, i) == i - trade.index > TimeStop    \* faulty variant

BacktestTimeStop(trade, i) == i - trade.index >= TimeStop

BacktestExits(hit, i) ==
    {trade \in backtest : trade.entry \in hit \/ BacktestTimeStop(trade, i)}

BacktestKept(hit, i) == backtest \ BacktestExits(hit, i)

\* The rules have nothing to say; they publish a signal that is rejected, not
\* tradeable or refused by the gate; or one the gate approves.
Verdict == {"none", "published", "approved"}

ReasonFor(entry, hit) == IF entry \in hit THEN "price" ELSE "time"

Closed(trade, t, hit) ==
    [entry |-> trade.entry, exit |-> t, reason |-> ReasonFor(trade.entry, hit)]

Backtest(t, i, hit, verdict) ==
    LET kept == BacktestKept(hit, i)
    IN /\ backtestPast' = backtestPast \cup
              {Closed(trade, t, hit) : trade \in BacktestExits(hit, i)}
       /\ backtestSignals' = IF verdict # "none" THEN backtestSignals \cup {t} ELSE backtestSignals
       /\ backtest' = IF verdict = "approved" /\ Cardinality(kept) < MaxConcurrent
                      THEN kept \cup {[entry |-> t, index |-> i]} ELSE kept

-----------------------------------------------------------------------------
(* One poll of the live loop, decided at interval t. *)

LiveTimeStopLate(position, t) == t > position.stopAt    \* faulty variant

LiveTimeStop(position, t) == t >= position.stopAt

LiveExits(hit, t) ==
    {position \in live : position.entry \in hit \/ LiveTimeStop(position, t)}

LiveKept(hit, t) == live \ LiveExits(hit, t)

RoomBeforeExits(kept) == Cardinality(live) < MaxConcurrent   \* faulty variant: the list as it was

RoomAfterExits(kept) == Cardinality(kept) < MaxConcurrent

StopFromNextInterval(t) == t + TimeStop + 1    \* faulty variant

StopAt(t) == t + TimeStop

LivePoll(t, hit, verdict) ==
    LET kept == LiveKept(hit, t)
    IN /\ livePast' = livePast \cup
              {Closed(position, t, hit) : position \in LiveExits(hit, t)}
       /\ liveSignals' = IF verdict # "none" THEN liveSignals \cup {t} ELSE liveSignals
       /\ live' = IF verdict = "approved" /\ RoomAfterExits(kept)
                  THEN kept \cup {[entry |-> t, stopAt |-> StopAt(t)]} ELSE kept

-----------------------------------------------------------------------------
\* The market trades: both engines take the new bar.
NewBar ==
    /\ interval < MaxInterval
    /\ interval' = interval + 1 /\ bars' = bars + 1 /\ barAt' = interval + 1
    /\ \E hit \in SUBSET (1..interval), verdict \in Verdict :
          /\ Backtest(interval + 1, bars, hit, verdict)
          /\ LivePoll(interval + 1, hit, verdict)

\* It does not: only the live loop wakes up, on the last bar.  That bar reaches
\* no trade it did not reach before, but may reach the one entered at its close.
NoBar ==
    /\ interval < MaxInterval
    /\ interval' = interval + 1
    /\ UNCHANGED <<bars, barAt, backtest, backtestPast, backtestSignals>>
    /\ IF bars = 0
       THEN UNCHANGED <<live, livePast, liveSignals>>
       ELSE \E hit \in SUBSET (barAt..interval), verdict \in Verdict :
                LivePoll(interval + 1, hit, verdict)

\* The bounded simulation is over.
Rest == interval = MaxInterval /\ UNCHANGED vars

Next == NewBar \/ NoBar \/ Rest

Spec == Init /\ [][Next]_vars

-----------------------------------------------------------------------------
Entries(open) == {trade.entry : trade \in open}

\* The market has traded in every interval so far.
NoGap == bars = interval

\* As long as the market trades in every interval the two engines hold the same
\* trades: entries, exits and the limit on open trades interleave alike in both.
SameBook == NoGap => Entries(backtest) = Entries(live)

\* ... and have closed the same trades at the same bars for the same reasons, and
\* published the same signals.
SameHistory == NoGap => backtestPast = livePast /\ backtestSignals = liveSignals

\* With a time stop, no trade outlives that many intervals, and one that reaches
\* them is closed by the time stop only if the price did not come first.
HeldAtMostTimeStop ==
    /\ \A position \in live : interval - position.entry < TimeStop
    /\ \A p \in livePast : /\ p.exit - p.entry <= TimeStop
                           /\ p.reason = "time" => p.exit - p.entry = TimeStop

=============================================================================
