---------------------------- MODULE WalkForward ----------------------------
(***************************************************************************)
(* The walk-forward report (forexml/analytics/walkforward.py, report in    *)
(* forexml/cli/main.py): windows of some training days and the test days   *)
(* after them, laid over the signals read from the store, each starting    *)
(* the training days after the one before.  And the drawdown of a series   *)
(* of results (forexml/analytics/metrics.py).                              *)
(***************************************************************************)
EXTENDS Integers, Sequences, FiniteSetsExt

CONSTANT Flags   \* --train-days and --test-days, as [train, test]

\* With train = 0 the windows would never end.
ASSUME FlagsAssumption == Flags \subseteq [train : Nat \ {0}, test : Nat]

VARIABLES
    busy,      \* the report is laying windows
    flags,     \* its flags
    snapshot,  \* the rows it has read, each with the day of its signal
    cursor,    \* the start of the next window
    windows,   \* the windows so far
    report     \* the last report: its flags, what it had read, and its windows

reporting == <<busy, flags, snapshot, cursor, windows, report>>

NoFlags == [train |-> 0, test |-> 0]
NoReport == [flags |-> NoFlags, rows |-> {}, windows |-> {}]

WalkForwardInit ==
    /\ busy = FALSE
    /\ flags = NoFlags
    /\ snapshot = {}
    /\ cursor = 0
    /\ windows = {}
    /\ report = NoReport

Taken(rows) == {r \in rows : r.status = "taken"}
Resolved(rows) == {r \in Taken(rows) : r.outcome # "open"}
Days(rows) == {r.day : r \in rows}

\* faulty variant: the days of the resolved signals
DaysOfResolved(rows) == Days(Resolved(rows))

\* The range of the windows is that of all signals, rejected ones included.
RangeDays(rows) == Days(rows)

InTrain(d, start) == start <= d /\ d < start + flags.train

\* faulty variant: the test window is closed
InTestClosed(d, start) == start + flags.train <= d /\ d <= start + flags.train + flags.test

InTest(d, start) == start + flags.train <= d /\ d < start + flags.train + flags.test

\* faulty variant: the range ends the loop, not the window
FitsStart(start) == start <= Max(RangeDays(snapshot))

Fits(start) == start + flags.train + flags.test <= Max(RangeDays(snapshot))

Window(start) ==
    [start |-> start,
     inSample |-> {r \in Resolved(snapshot) : InTrain(r.day, start)},
     outOfSample |-> {r \in Resolved(snapshot) : InTest(r.day, start)}]

\* read_all, and report() up to the loop; without a result there are no windows.
ReadLog(rows) ==
    /\ ~busy
    /\ Resolved(rows) # {}
    /\ busy' = TRUE
    /\ flags' \in Flags
    /\ snapshot' = rows
    /\ cursor' = Min(RangeDays(rows))
    /\ windows' = {}
    /\ UNCHANGED report

SameStart(start) == start     \* faulty variant: the cursor is not moved

After(start) == start + flags.train

AddWindow ==
    /\ busy
    /\ Fits(cursor)
    /\ windows' = windows \cup {Window(cursor)}
    /\ cursor' = After(cursor)
    /\ UNCHANGED <<busy, flags, snapshot, report>>

Render ==
    /\ busy
    /\ ~Fits(cursor)
    /\ report' = [flags |-> flags, rows |-> snapshot, windows |-> windows]
    /\ busy' = FALSE
    /\ flags' = NoFlags
    /\ snapshot' = {}
    /\ cursor' = 0
    /\ windows' = {}

ReportStep == AddWindow \/ Render

-----------------------------------------------------------------------------
(* compute_metrics *)

\* np.cumsum
Equity(pnl) ==
    LET sum[i \in 0 .. Len(pnl)] == IF i = 0 THEN 0 ELSE sum[i - 1] + pnl[i]
    IN  [i \in 1 .. Len(pnl) |-> sum[i]]

\* faulty variant: the peak of the whole series
HighestEver(equity, i) == Max({equity[j] : j \in DOMAIN equity})

\* np.maximum.accumulate
RunningMax(equity, i) == Max({equity[j] : j \in 1 .. i})

Drawdown(pnl) ==
    LET equity == Equity(pnl)
    IN  [i \in DOMAIN equity |-> equity[i] - RunningMax(equity, i)]

MaxDrawdown(pnl) == IF pnl = <<>> THEN 0 ELSE Min({Drawdown(pnl)[i] : i \in DOMAIN pnl})

MaxDuration(pnl) ==
    LET below[i \in 0 .. Len(pnl)] ==
            IF i > 0 /\ Drawdown(pnl)[i] < 0 THEN below[i - 1] + 1 ELSE 0
    IN  Max({below[i] : i \in 0 .. Len(pnl)})

=============================================================================
