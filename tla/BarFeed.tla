------------------------------- MODULE BarFeed -------------------------------
(***************************************************************************)
(* How bars reach a live decision: the terminal aggregates ticks into      *)
(* bars, a poll fetches the last of them, validation quarantines some, the *)
(* rest overwrite the store, and three readers take their view of it: the  *)
(* rule engine and the exit check (live/loop.py) and the feature engine.   *)
(*                                                                         *)
(* A bar is the set of ticks it was built from: high, low and close are    *)
(* functions of it, and a bar fetched too early is one that lacks ticks.   *)
(* Time is counted in ticks from 0; bar k opens at k * BarLen.             *)
(***************************************************************************)
EXTENDS Integers, FiniteSets, FiniteSetsExt

CONSTANTS
    BarLen,      \* length of a bar (TIMEFRAME_SECONDS)
    Window,      \* bars a poll fetches and reads back (history_window_bars + 5)
    Needed,      \* bars the feature engine keeps of them
    Delays,      \* --poll-delay-seconds, in ticks
    Offsets,     \* --server-utc-offset, in ticks
    Quarantine,  \* whether validation may drop bars
    Horizon      \* bound: number of bars simulated

ASSUME SizeAssumption == {BarLen, Window, Needed, Horizon} \subseteq Nat \ {0}
ASSUME TimingAssumption == Delays \subseteq 0..(BarLen - 1) /\ Offsets \subseteq Nat
ASSUME QuarantineAssumption == Quarantine \in BOOLEAN

VARIABLES
    delay, offset, \* the session's flags
    now,           \* time of the next scheduled poll
    due,           \* that poll has not run yet
    ticks,         \* when the market traded, before now
    store,         \* bar -> ticks of its stored version, {} when not stored
    view,          \* what the last poll saw
    examined,      \* ticks some exit check has looked at
    lost,          \* bars whose own poll was missed or quarantined them
    refetched      \* bars stored from a fetch made after they closed

vars == <<delay, offset, now, due, ticks, store, view, examined, lost, refetched>>

Bar == 0..Horizon
FeatureSpan == 2 * Needed    \* bars StoreBarSource reads back for the features
Interval(k) == (k * BarLen)..((k + 1) * BarLen - 1)
Built(k) == ticks \cap Interval(k)      \* the terminal's version of bar k, now
ClosedBy(k, t) == (k + 1) * BarLen <= t

JustClosed == {k \in Bar : (k + 1) * BarLen = now - delay}

NoView == [at |-> 0, last |-> 0, rule |-> {}, features |-> {}, bad |-> {}]

TypeOK ==
    /\ delay \in Delays /\ offset \in Offsets
    /\ now \in Nat /\ due \in BOOLEAN
    /\ ticks \subseteq 0..(now - 1)
    /\ store \in [Bar -> SUBSET ticks]
    /\ view \in [at : 0..now, last : Bar, rule : SUBSET Bar, features : SUBSET Bar,
                 bad : SUBSET Bar]
    /\ Cardinality(view.features) <= Needed
    /\ examined \subseteq ticks
    /\ lost \subseteq Bar /\ refetched \subseteq Bar

Init ==
    /\ delay \in Delays /\ offset \in Offsets
    /\ now = delay /\ due = FALSE
    /\ ticks = {}
    /\ store = [k \in Bar |-> {}]
    /\ view = NoView
    /\ examined = {} /\ lost = {} /\ refetched = {}

-----------------------------------------------------------------------------
(* The market, until the next scheduled poll; it may be closed. *)

Trade ==
    /\ ~due /\ now + BarLen <= Horizon * BarLen + delay
    /\ now' = now + BarLen
    /\ due' = TRUE
    /\ \E T \in SUBSET (now..(now + BarLen - 1)) : ticks' = ticks \cup T
    /\ UNCHANGED <<delay, offset, store, view, examined, lost, refetched>>

\* The poll does not run, or the adapter returns nothing.
Miss ==
    /\ due /\ due' = FALSE
    /\ lost' = lost \cup JustClosed
    /\ UNCHANGED <<delay, offset, now, ticks, store, view, examined, refetched>>

-----------------------------------------------------------------------------
(* poll() *)

\* faulty variant: the forming bar is left out by position, not by time
FetchedButLast ==
    LET inRange == {k \in Bar : Built(k) # {} /\ k * BarLen + offset <= now
                                /\ k * BarLen + offset >= now - Window * BarLen}
    IN inRange \ (IF inRange = {} THEN {} ELSE {Max(inRange)})

\* copy_rates_range compares the requested range, in UTC, with bar times that
\* are in server time; the offset is taken off the bars afterwards.
Fetched ==
    {k \in Bar : /\ Built(k) # {}
                 /\ k * BarLen + offset \in (now - Window * BarLen)..now}

FirstWriteWins(clean) ==    \* faulty variant: unique(keep="first")
    [k \in Bar |-> IF k \in clean /\ store[k] = {} THEN Built(k) ELSE store[k]]

\* BarStore.write: by timestamp, the last write wins.
Written(clean) == [k \in Bar |-> IF k \in clean THEN Built(k) ELSE store[k]]

\* BarStore.read over [start, end), on what is stored after the write.
Read(stored, start, end) ==
    {k \in Bar : stored[k] # {} /\ k * BarLen \in start..(end - 1)}

Newest(n, bars) == {k \in bars : Cardinality({j \in bars : j > k}) < n}

FeatureBarsToNow(stored) ==   \* faulty variant: no point-in-time cutoff
    Newest(Needed, Read(stored, now - FeatureSpan * BarLen, now))

FeatureBarsUncut(stored) ==   \* faulty variant: no tail(n_bars)
    {k \in Read(stored, now - FeatureSpan * BarLen, now) : k * BarLen <= now - BarLen}

\* get_feature_vector: only bars whose interval has passed, the newest Needed.
FeatureBars(stored) ==
    Newest(Needed, {k \in Read(stored, now - FeatureSpan * BarLen, now) :
                        k * BarLen <= now - BarLen})

\* closed_bars of the loop: for the rule engine, and its last for the exit check.
RuleBars(stored) == Read(stored, now - Window * BarLen, now)

\* validate_bars quarantines; what is left is written, then read back.
Poll ==
    /\ due /\ due' = FALSE
    /\ Fetched # {}
    /\ \E bad \in SUBSET Fetched :
          /\ bad # {} => Quarantine
          /\ LET clean == Fetched \ bad
                 stored == Written(clean)
                 rule == RuleBars(stored)
             IN /\ store' = stored
                /\ lost' = lost \cup (JustClosed \cap bad)
                /\ refetched' = refetched \cup {k \in clean : ClosedBy(k, now)}
                /\ IF rule = {}
                   THEN UNCHANGED <<view, examined>>
                   ELSE /\ view' = [at |-> now, last |-> Max(rule), rule |-> rule,
                                    features |-> FeatureBars(stored), bad |-> bad]
                        /\ examined' = examined \cup stored[Max(rule)]
    /\ UNCHANGED <<delay, offset, now, ticks>>

\* The bounded simulation is over.
Rest ==
    /\ ~due /\ now + BarLen > Horizon * BarLen + delay
    /\ UNCHANGED vars

Next == Trade \/ Miss \/ Poll \/ Rest

Spec == Init /\ [][Next]_vars

-----------------------------------------------------------------------------
Complete(k) == ClosedBy(k, view.at) /\ store[k] = Built(k)

\* A bar the features are computed from is closed; and it carries every tick of
\* its interval, unless no clean fetch saw it after it closed (the poll that
\* would have was missed, or validation quarantined the full bar).
FeatureBarsComplete ==
    \A k \in view.features :
        ClosedBy(k, view.at) /\ (k \in refetched => store[k] = Built(k))

\* The rule engine and the exit check see closed, complete bars only
\* (primitives/base.py, EvalContext.bars).
RuleBarsClosed == \A k \in view.rule : Complete(k)

\* A poll repairs the store: whatever was missed or fetched half-built before,
\* every bar that closed within the window is complete, unless quarantined now.
WindowRepaired ==
    \A k \in Bar \ view.bad :
        (Built(k) # {} /\ ClosedBy(k, view.at) /\ k * BarLen >= view.at - Window * BarLen)
            => store[k] = Built(k)

\* Polled at bar closes, the exit check looks at every tick of every bar up to
\* the last poll, but for the bars whose own poll was missed or quarantined them.
EveryTickExamined ==
    delay = 0 =>
        \A k \in Bar \ lost : ClosedBy(k, view.at) => Built(k) \subseteq examined

=============================================================================
