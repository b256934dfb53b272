------------------------------ MODULE Research ------------------------------
(***************************************************************************)
(* A strategy's way through the framework: its status is changed, sessions *)
(* and backtests log their signals and trades in the signal store, and     *)
(* reports are made from it (forexml/cli/main.py).                         *)
(***************************************************************************)
EXTENDS Lifecycle, WalkForward

CONSTANTS
    LastDay,   \* bound: the last day of any instance
    Bounds     \* what each behaviour is bounded by: records of type Bound

Sources == {"live", "backtest"}
Outcomes == {"open", "win", "loss", "timeout"}

\* Bounds: the transitions in one trail (0: the status never changes), the rows logged,
\* the days, where signals come from and how trades end, and whether reports are made.
Bound == [changes : Nat, rows : Nat, days : 0 .. LastDay, sources : SUBSET Sources,
          outcomes : SUBSET Outcomes, reports : BOOLEAN]

ASSUME BoundsAssumption == LastDay \in Nat /\ Bounds \subseteq Bound

VARIABLES
    today,
    session,  \* the status the running session has read, or "none"
    log,      \* rows of the signal store
    bound

vars == <<lifecycle, reporting, today, session, log, bound>>

\* A live session evaluates each day once.  Bound: a day is backtested once (every
\* further backtest of it would log its signals again, under ids of their own).
Row == [day : 0 .. LastDay, source : Sources, status : {"taken", "rejected"},
        traded : BOOLEAN, outcome : Outcomes]

TypeOK ==
    /\ LifecycleTypeOK
    /\ busy \in BOOLEAN
    /\ log \subseteq Row /\ snapshot \subseteq Row
    /\ flags \in Flags \cup {NoFlags}
    /\ cursor \in 0 .. bound.days
    /\ \A w \in windows \cup report.windows :
          w.start \in 0 .. LastDay /\ w.inSample \cup w.outOfSample \subseteq Row
    /\ today \in 0 .. LastDay
    /\ session \in Status \cup {"none"}
    /\ bound \in Bounds

Init ==
    /\ LifecycleInit
    /\ WalkForwardInit
    /\ today = 0
    /\ session = "none"
    /\ log = {}
    /\ bound \in Bounds

-----------------------------------------------------------------------------
\* The rows an evaluation may leave: a signal is traded only if the status its
\* process has read is tradeable, and the gate and the limit let it.  (A rejected
\* signal has no outcome; none is ever looked at.)
Rows(day, source, s, outcomes) ==
    {r \in [day : {day}, source : {source}, status : {"taken", "rejected"},
            traded : BOOLEAN, outcome : outcomes] :
        /\ r.traded => r.status = "taken" /\ IsTradeable(s)
        /\ ~r.traded => r.outcome = "open"}

Logged(day, source) == \E r \in log : r.day = day /\ r.source = source

\* paper-trade: the strategy is loaded once, when the session starts.
StartSession ==
    /\ session = "none"
    /\ session' = status
    /\ UNCHANGED <<lifecycle, reporting, today, log, bound>>

EndSession ==
    /\ session # "none"
    /\ session' = "none"
    /\ UNCHANGED <<lifecycle, reporting, today, log, bound>>

Signal ==
    /\ session # "none" /\ "live" \in bound.sources
    /\ Cardinality(log) < bound.rows
    /\ ~Logged(today, "live")
    /\ \E r \in Rows(today, "live", session, {"open"}) : log' = log \cup {r}
    /\ UNCHANGED <<lifecycle, reporting, today, session, bound>>

\* resolve_outcome, in this session or, after a restart, in a later one: the row is
\* found by its id, and a trade that is closed again is labelled again.
Resolve ==
    /\ session # "none"
    /\ \E r \in log, o \in bound.outcomes \ {"open"} :
          /\ r.source = "live" /\ r.traded
          /\ log' = (log \ {r}) \cup {[r EXCEPT !.outcome = o]}
    /\ UNCHANGED <<lifecycle, reporting, today, session, bound>>

\* backtest: by default into the signal store of the sessions, which it opens for
\* itself; a trade may still be open when the bars end.
Backtest ==
    /\ session = "none" /\ "backtest" \in bound.sources
    /\ Cardinality(log) < bound.rows
    /\ \E day \in 0 .. today :
          /\ ~Logged(day, "backtest")
          /\ \E r \in Rows(day, "backtest", status, bound.outcomes) : log' = log \cup {r}
    /\ UNCHANGED <<lifecycle, reporting, today, session, bound>>

\* report: it must open the store itself, too.
Report ==
    /\ session = "none" /\ bound.reports
    /\ ReadLog(log)
    /\ UNCHANGED <<lifecycle, today, session, log, bound>>

Reporting == ReportStep /\ UNCHANGED <<lifecycle, today, session, log, bound>>

NextDay ==
    /\ today < bound.days
    /\ today' = today + 1
    /\ UNCHANGED <<lifecycle, reporting, session, log, bound>>

Change ==
    /\ bound.changes > 0
    /\ LifecycleNext
    /\ \A a \in Actor : Cardinality(trail'[a]) <= bound.changes
    /\ UNCHANGED <<reporting, today, session, log, bound>>

Next ==
    \/ Change \/ StartSession \/ EndSession \/ Signal \/ Resolve \/ Backtest
    \/ Report \/ Reporting \/ NextDay

\* A report that was started runs to its end.
Spec == Init /\ [][Next]_vars /\ WF_vars(Reporting)

-----------------------------------------------------------------------------
(* Properties *)

\* Where the test days are no more than the training days, no trade is
\* out-of-sample twice in a report, and none is in a window's training and test at
\* once: results "never blended".
TestedOnce ==
    \A v, w \in windows :
        /\ w.inSample \cap w.outOfSample = {}
        /\ flags.test <= flags.train /\ v # w => v.outOfSample \cap w.outOfSample = {}

\* If only later signals were logged in between, a report with the same flags still
\* has each window of the one before, with every trade it counted, in training or test
\* as before, although a trade closed again may by then count with another result.
Trades(results) == {<<r.day, r.source>> : r \in results}
LaterOnly(old, new) ==
    \A r \in new : (\E q \in old : q.day = r.day /\ q.source = r.source)
                       \/ \A q \in old : q.day <= r.day
Extends(new, old) ==
    \A w \in old : \E v \in new : /\ v.start = w.start
                                  /\ Trades(w.inSample) \subseteq Trades(v.inSample)
                                  /\ Trades(w.outOfSample) \subseteq Trades(v.outOfSample)
ReportStable ==
    [][ report'.flags = report.flags /\ LaterOnly(report.rows, report'.rows)
            => Extends(report'.windows, report.windows) ]_report

\* The results of a set of rows in the order of the store, in R.
Before(q, r) ==
    q.day < r.day \/ (q.day = r.day /\ q.source = "live" /\ r.source = "backtest")
Place(r, rows) == Cardinality({q \in rows : q = r \/ Before(q, r)})
RowAt(i, rows) == CHOOSE r \in rows : Place(r, rows) = i
Results(rows) ==
    LET R == [win |-> 2, loss |-> -1, timeout |-> 0]
    IN  [i \in 1 .. Cardinality(Resolved(rows)) |-> R[RowAt(i, Resolved(rows)).outcome]]

\* The drawdown of a series is the worst fall from the equity after one trade to that
\* after a later one, and its duration the most trades in a row that end below an
\* equity reached before.  (The fall from the equity before the first trade is not
\* counted.)
WorstFall(pnl) ==
    LET Stretches == {s \in (DOMAIN pnl) \X (DOMAIN pnl) : s[1] <= s[2]}
        Fall(i, j) == Equity(pnl)[j] - Equity(pnl)[i]
        Below(j) == \E i \in 1 .. j : Fall(i, j) < 0
    IN  /\ MaxDrawdown(pnl) = Min({Fall(s[1], s[2]) : s \in Stretches})
        /\ MaxDuration(pnl) =
              Max({0} \cup {s[2] - s[1] + 1 :
                               s \in {t \in Stretches : \A j \in t[1] .. t[2] : Below(j)}})

\* compute_metrics reports that of the results in the store.
DrawdownIsWorstFall == Results(log) # <<>> => WorstFall(Results(log))

\* Every report comes to its end.
ReportEnds == busy ~> ~busy

=============================================================================
