---------------------------- MODULE SignalRules ----------------------------
(***************************************************************************)
(* What a strategy says at a bar close: the session levels and breakout    *)
(* conditions (strategies/primitives/entries.py), the filters, the stop    *)
(* and target (exits.py) and StrategyEngine.evaluate, which puts them in   *)
(* order.  They are pure functions of the bars a caller hands them and of  *)
(* the feature vector; the backtest hands over every bar so far, the live  *)
(* loop those of a fetch window (live/loop.py).                            *)
(*                                                                         *)
(* Time is counted in bars; bar k is the one open in [k, k + 1).  A bar of *)
(* any intraday timeframe lies within one session or outside it.           *)
(***************************************************************************)
EXTENDS Integers, Sequences, FiniteSets, FiniteSetsExt, SequencesExt

CONSTANTS
    DayLen,        \* bars in a day
    Sessions,      \* DEFAULT_SESSIONS: name -> [start, end), in bars of the day
    Shapes,        \* the bars that occur, each [low, high, close]
    Conditions,    \* entry.conditions, in order
    Filters,       \* filters, in order
    StopLoss,      \* stop_loss: [type |-> "atr_multiple" or "fixed_pips", by]
    TakeProfit,    \* take_profit: [type |-> "r_multiple" or "fixed_pips", by]
    SpikeMultiple, \* volatility_spike_guard
    Atrs,          \* values of the ATR feature; NoValue when there are too few bars
    Regimes,       \* values of the volatility_regime feature
    NoValue,
    Window,        \* bars the live loop reads (history_window_bars + 5)
    Horizon        \* bound: number of bars simulated

\* The multiples and pips of a YAML file are not validated by the schema; the
\* documented ones are positive.
ASSUME ExitAssumption == StopLoss.by > 0 /\ TakeProfit.by > 0

ASSUME DayAssumption ==
    /\ DayLen \in Nat \ {0}
    /\ \A s \in DOMAIN Sessions :
          Sessions[s].start \in 0..(DayLen - 1) /\ Sessions[s].end \in 1..(DayLen - 1)
    /\ {Window, Horizon} \subseteq Nat

\* Only known sessions can be referred to (_REFERENCE_SESSIONS).
ASSUME ConditionAssumption ==
    \A i \in DOMAIN Conditions :
        Conditions[i].type = "breaks" => Conditions[i].session \in DOMAIN Sessions

\* A price_breaks condition names a session level and the price of the bar that must
\* pass it ("close", or "high" or "low" where touch is enough); any other condition is
\* true or false with the feature vector.
Breaks(session, kind, confirmation) ==
    [type |-> "breaks", session |-> session, kind |-> kind, confirmation |-> confirmation]
Indicator == [type |-> "indicator"]

VARIABLES
    now,   \* the bar close the rules are evaluated at
    bars   \* open time -> [low, high, close], undefined where the market did not trade

vars == <<now, bars>>

TypeOK ==
    /\ now \in 0..Horizon
    /\ DOMAIN bars \subseteq 0..(now - 1)
    /\ \A k \in DOMAIN bars : bars[k] \in Shapes

Init == now = 0 /\ bars = <<>>

LabelRight(t) == t + 1    \* faulty variant

\* Bars are labelled with their open time (label="left").
Label(t) == t

Trade ==
    /\ now < Horizon
    /\ now' = now + 1
    /\ \E b \in Shapes :
             bars' = [k \in DOMAIN bars \cup {Label(now)} |-> IF k = Label(now) THEN b ELSE bars[k]]

Gap == now < Horizon /\ now' = now + 1 /\ UNCHANGED bars

Rest == now = Horizon /\ UNCHANGED vars

Next == Trade \/ Gap \/ Rest

Spec == Init /\ [][Next]_vars

-----------------------------------------------------------------------------
(* Sessions and their levels *)

DayOf(t) == t \div DayLen
Clock(t) == t % DayLen

CurrentDay(t, s) == DayOf(t)    \* faulty variant: today's session, ended or not

\* The day of the session's last completed occurrence.
CompletedDay(t, s) == IF Clock(t) >= Sessions[s].end THEN DayOf(t) ELSE DayOf(t) - 1

SessionBars(visible, t, s) ==
    {k \in visible : /\ DayOf(k) = CompletedDay(t, s)
                     /\ Clock(k) \in Sessions[s].start..(Sessions[s].end - 1)}

Extreme(set, kind) ==
    IF set = {} THEN NoValue
    ELSE IF kind = "high" THEN Max({bars[k].high : k \in set})
                          ELSE Min({bars[k].low : k \in set})

Level(visible, t, c) == Extreme(SessionBars(visible, t, c.session), c.kind)

InSession(t, s) == Clock(t) \in Sessions[s].start..(Sessions[s].end - 1)

-----------------------------------------------------------------------------
(* Conditions, filters, exits; f is the rest of the feature vector *)

Latest(visible) == bars[Max(visible)]

Broken(visible, t, c) ==
    LET level == Level(visible, t, c)
        price == Latest(visible)[c.confirmation]
    IN /\ visible # {} /\ level # NoValue
       /\ IF c.kind = "high" THEN price > level ELSE price < level

Met(c, visible, t, f) ==
    IF c.type = "breaks" THEN Broken(visible, t, c) ELSE f.indicator

\* The guard compares nothing when there is no ATR, or an ATR of 0.
Spiked(visible, f) ==
    /\ f.atr \notin {NoValue, 0} /\ visible # {}
    /\ Latest(visible).high - Latest(visible).low > SpikeMultiple * f.atr

StraightHours(t, start, end) == Clock(t) >= start /\ Clock(t) < end    \* faulty variant

\* time_of_day: a window whose start is after its end wraps past midnight.
WithinHours(t, start, end) ==
    IF start <= end THEN Clock(t) \in start..(end - 1) ELSE Clock(t) \notin end..(start - 1)

Passes(filter, visible, t, f) ==
    \/ filter.type = "session" /\ InSession(t, filter.session)
    \/ filter.type = "time_of_day" /\ WithinHours(t, filter.start, filter.end)
    \/ filter.type = "volatility_regime" /\ f.regime \in filter.allowed
    \/ filter.type = "volatility_spike_guard" /\ ~Spiked(visible, f)

\* _infer_direction: of the first condition that implies one.
Direction ==
    LET breakouts == {i \in DOMAIN Conditions : Conditions[i].type = "breaks"}
    IN IF breakouts = {} \/ Conditions[Min(breakouts)].kind = "high" THEN "long" ELSE "short"

Away(from, distance, side) == IF side = "long" THEN from + distance ELSE from - distance

StopDistance(f) == IF StopLoss.type = "atr_multiple" THEN StopLoss.by * f.atr ELSE StopLoss.by

StopPrice(entry, f) == Away(entry, -StopDistance(f), Direction)

Magnitude(x) == IF x < 0 THEN -x ELSE x

TargetPrice(entry, stop) ==
    Away(entry,
         IF TakeProfit.type = "r_multiple" THEN TakeProfit.by * Magnitude(entry - stop)
                                           ELSE TakeProfit.by,
         Direction)

-----------------------------------------------------------------------------
(* StrategyEngine.evaluate.  "raised" is the ValueError of a stop without ATR, *)
(* which leaves no signal behind.                                              *)

MetConditions(visible, t, f) ==
    {i \in DOMAIN Conditions : Met(Conditions[i], visible, t, f)}

Silent == [status |-> "none"]
Rejected(why) == [status |-> "rejected", why |-> why]
Taken(entry, f) ==
    LET stop == StopPrice(entry, f)
    IN [status |-> "taken", direction |-> Direction, entry |-> entry, stop |-> stop,
        target |-> TargetPrice(entry, stop)]

Evaluate(visible, t, f) ==
    LET met == Cardinality(MetConditions(visible, t, f))
        failed == {i \in DOMAIN Filters : ~Passes(Filters[i], visible, t, f)}
    IN CASE 2 * met < Len(Conditions) -> Silent
         [] met < Len(Conditions) /\ 2 * met >= Len(Conditions) -> Rejected("near miss")
         [] met = Len(Conditions) /\ failed # {} -> Rejected(Filters[Min(failed)])
         [] met = Len(Conditions) /\ failed = {} /\ visible = {} -> Rejected("no bar")
         [] OTHER -> IF StopLoss.type = "atr_multiple" /\ f.atr = NoValue
                     THEN [status |-> "raised"]
                     ELSE Taken(Latest(visible).close, f)

Features == [indicator : BOOLEAN, atr : Atrs, regime : Regimes]

AllBars == DOMAIN bars                                \* bars.slice(0, i + 1)
WindowExclusive == {k \in DOMAIN bars : k > now - Window}    \* faulty variant: timestamp > start
WindowBars == {k \in DOMAIN bars : k >= now - Window}    \* BarStore.read(now - window, now)

-----------------------------------------------------------------------------
\* The session's occurrences that have ended by t, newest last: day d's ends at
\* d * DayLen + end.
EndsOf(t, s) == {e \in 0..t : Clock(e) = Sessions[s].end}

\* A level is the extreme of the whole of the session's last occurrence to have
\* ended, and of nothing since: no bar of a session still forming moves it.
LevelIsLastCompleted ==
    \A i \in DOMAIN Conditions :
        LET c == Conditions[i]
            ends == EndsOf(now, c.session)
            whole == IF ends = {} THEN {}
                     ELSE (Max(ends) - Sessions[c.session].end + Sessions[c.session].start)
                              ..(Max(ends) - 1)
        IN c.type = "breaks" =>
              Level(AllBars, now, c) = Extreme(whole \cap AllBars, c.kind)

\* The live loop evaluates as the backtest does (live/loop.py, poll: "identical
\* logic"): at the close of a bar its window holds all the rules depend on.
SameAsBacktest ==
    now - 1 \in DOMAIN bars =>
        \A f \in Features : Evaluate(WindowBars, now, f) = Evaluate(AllBars, now, f)

\* A time-of-day window is a stretch of the clock, from start on for as many hours
\* as lie between start and end, past midnight or not.
WindowIsCircular ==
    \A start, end \in 0..(DayLen - 1) :
        WithinHours(now, start, end) <=> (now - start) % DayLen < (end - start) % DayLen

=============================================================================
