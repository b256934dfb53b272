--------------------------- MODULE ResearchProofs ---------------------------
(***************************************************************************)
(* What holds of a strategy's records, whoever changes its status and      *)
(* however sessions, backtests and reports take turns: no result is tested *)
(* on twice, a later report continues an earlier one, and the drawdown     *)
(* reported is that of the results.                                        *)
(***************************************************************************)
EXTENDS Research, NumberFacts, FiniteSetTheorems, FunctionTheorems

-----------------------------------------------------------------------------
(* Types *)

\* The days of the bound are never passed, and a report has read some rows.
WithinDays ==
    /\ today <= bound.days
    /\ \A r \in log \cup snapshot : r.day <= bound.days
    /\ busy => snapshot # {} /\ flags \in Flags

Typed == TypeOK /\ WithinDays

LEMMA BoundDays == TypeOK => bound.days \in 0 .. LastDay /\ LastDay \in Nat
BY BoundsAssumption DEF TypeOK, Bound

LEMMA MaxOf ==
    ASSUME NEW n \in Nat, NEW S \in SUBSET (0 .. n), S # {}
    PROVE  Max(S) \in S /\ \A x \in S : x <= Max(S)
<1>1. PICK x \in S : \A y \in S : y <= x
  BY GreatestNumber
<1>2. \A y \in S : x >= y
  BY <1>1
<1>3. Max(S) \in S /\ \A y \in S : Max(S) >= y
  BY <1>2 DEF Max
<1> QED
  BY <1>3

LEMMA MinOf ==
    ASSUME NEW S \in SUBSET Nat, S # {}
    PROVE  Min(S) \in S /\ \A x \in S : Min(S) <= x
<1>1. PICK x \in S : \A y \in S : x <= y
  BY LeastNumber
<1> QED
  BY <1>1 DEF Min

LEMMA RangeIs ==
    ASSUME Typed, NEW rows \in {log, snapshot}, rows # {}
    PROVE  /\ Min(RangeDays(rows)) \in 0 .. bound.days
           /\ Max(RangeDays(rows)) \in 0 .. bound.days
           /\ RangeDays(rows) \subseteq 0 .. bound.days
           /\ \A r \in rows : Min(RangeDays(rows)) <= r.day /\ r.day <= Max(RangeDays(rows))
<1>1. bound.days \in Nat
  BY BoundDays DEF Typed
<1>2. \A r \in rows : r.day \in 0 .. bound.days
  BY <1>1 DEF Typed, TypeOK, WithinDays, Row
<1>3. RangeDays(rows) \in SUBSET (0 .. bound.days) /\ RangeDays(rows) # {}
  BY <1>2 DEF RangeDays, Days
<1>4. RangeDays(rows) \in SUBSET Nat
  BY <1>1, <1>3
<1>5. \A r \in rows : r.day \in RangeDays(rows)
  BY DEF RangeDays, Days
<1> HIDE DEF RangeDays
<1>6. /\ Max(RangeDays(rows)) \in RangeDays(rows)
      /\ \A x \in RangeDays(rows) : x <= Max(RangeDays(rows))
  BY <1>1, <1>3, MaxOf
<1>7. /\ Min(RangeDays(rows)) \in RangeDays(rows)
      /\ \A x \in RangeDays(rows) : Min(RangeDays(rows)) <= x
  BY <1>3, <1>4, MinOf
<1> QED
  BY <1>3, <1>5, <1>6, <1>7

LEMMA FlagsAre == \A f \in Flags : f.train \in Nat \ {0} /\ f.test \in Nat
BY FlagsAssumption

\* A row that is logged.
LEMMA RowsTyped ==
    ASSUME NEW day \in 0 .. LastDay, NEW source \in Sources, NEW s,
           NEW outcomes \in SUBSET Outcomes, NEW r \in Rows(day, source, s, outcomes)
    PROVE  r \in Row /\ r.day = day /\ (r.traded => IsTradeable(s))
<1>1. r \in [day : {day}, source : {source}, status : {"taken", "rejected"},
             traded : BOOLEAN, outcome : Outcomes \cup {"open"}]
  BY DEF Rows
<1>2. r.traded => IsTradeable(s)
  BY DEF Rows
<1> QED
  BY <1>1, <1>2 DEF Row, Outcomes

LEMMA InitTyped == Init => Typed
<1> SUFFICES ASSUME Init PROVE Typed
  OBVIOUS
<1>1. LifecycleTypeOK
  BY DEF Init, LifecycleInit, LifecycleTypeOK
<1>2. bound \in Bounds /\ bound.days \in Nat /\ LastDay \in Nat
  BY BoundsAssumption DEF Init, Bound
<1>3. /\ today = 0 /\ cursor = 0 /\ log = {} /\ snapshot = {} /\ busy = FALSE
      /\ windows = {} /\ report.windows = {} /\ session = "none" /\ flags = NoFlags
  BY DEF Init, WalkForwardInit, NoReport
<1>4. /\ log \subseteq Row /\ snapshot \subseteq Row /\ session \in Status \cup {"none"}
      /\ \A w \in windows \cup report.windows :
            w.start \in 0 .. LastDay /\ w.inSample \cup w.outOfSample \subseteq Row
  BY <1>3
<1>5. today \in 0 .. LastDay /\ cursor \in 0 .. bound.days /\ today <= bound.days
  BY <1>2, <1>3
<1>6. flags \in Flags \cup {NoFlags} /\ busy \in BOOLEAN
  BY <1>3
<1>7. TypeOK
  BY <1>1, <1>2, <1>4, <1>5, <1>6 DEF TypeOK
<1> QED
  BY <1>3, <1>5, <1>7 DEF Typed, WithinDays

LEMMA LifecycleTyped == LifecycleTypeOK /\ LifecycleNext => LifecycleTypeOK'
<1> SUFFICES ASSUME LifecycleTypeOK, LifecycleNext PROVE LifecycleTypeOK'
  OBVIOUS
<1>1. CASE \E to \in Status : EditStatus(to)
  BY <1>1 DEF EditStatus, LifecycleTypeOK
<1>2. CASE \E a \in Actor : LoseTrail(a)
  BY <1>2 DEF LoseTrail, LifecycleTypeOK
<1>3. ASSUME NEW a \in Actor, NEW from \in Status, NEW to \in Status, Record(a, from, to)
      PROVE  LifecycleTypeOK'
  <2>1. trail[a] \cup {[from |-> from, to |-> to]} \in SUBSET Transition
    BY DEF LifecycleTypeOK, Transition
  <2> QED
    BY <1>3, <2>1 DEF Record, LifecycleTypeOK
<1> QED
  BY <1>1, <1>2, <1>3 DEF LifecycleNext

\* The log of a typed state is typed when a row is added.
LEMMA LogTyped ==
    ASSUME Typed, UNCHANGED <<lifecycle, reporting, today, session, bound>>,
           NEW r \in Row, r.day <= bound.days, log' \subseteq log \cup {r}
    PROVE  Typed'
BY DEF Typed, TypeOK, WithinDays, LifecycleTypeOK, lifecycle, reporting

LEMMA ReportTyped ==
    ASSUME Typed, ReportStep, UNCHANGED <<lifecycle, today, session, log, bound>>
    PROVE  Typed'
<1> USE DEF Typed
<1>1. bound.days \in Nat /\ bound.days <= LastDay /\ LastDay \in Nat
  BY BoundDays
<1>2. CASE AddWindow
  <2>1. flags \in Flags /\ snapshot # {} /\ flags.train \in Nat /\ flags.test \in Nat
    BY <1>2, FlagsAre DEF AddWindow, WithinDays
  <2>2. cursor + flags.train + flags.test <= bound.days /\ cursor \in Nat
    <3>1. Max(RangeDays(snapshot)) \in 0 .. bound.days
      BY <2>1, RangeIs
    <3>2. cursor + flags.train + flags.test <= Max(RangeDays(snapshot))
      BY <1>2 DEF AddWindow, Fits
    <3>3. cursor \in 0 .. bound.days
      BY DEF TypeOK
    <3> QED
      BY <3>1, <3>2, <3>3, <2>1, <1>1
  <2>3. cursor' \in 0 .. bound.days /\ cursor \in 0 .. LastDay
    BY <1>1, <1>2, <2>1, <2>2 DEF AddWindow, After
  <2>4. /\ Window(cursor).start \in 0 .. LastDay
        /\ Window(cursor).inSample \cup Window(cursor).outOfSample \subseteq Row
    BY <2>3 DEF Window, Resolved, Taken, TypeOK
  <2>5. TypeOK'
    <3>1. /\ windows' = windows \cup {Window(cursor)}
          /\ UNCHANGED <<busy, flags, snapshot, report, lifecycle, today, session, log, bound>>
      BY <1>2 DEF AddWindow
    <3> QED
      BY <3>1, <2>3, <2>4 DEF TypeOK, LifecycleTypeOK, lifecycle
  <2> QED
    BY <1>2, <2>5 DEF AddWindow, WithinDays
<1>3. CASE Render
  <2>1. /\ report'.windows = windows /\ windows' = {} /\ snapshot' = {} /\ cursor' = 0
        /\ busy' = FALSE /\ flags' = NoFlags
    BY <1>3 DEF Render
  <2>2. /\ snapshot' \subseteq Row /\ busy' \in BOOLEAN /\ flags' \in Flags \cup {NoFlags}
        /\ cursor' \in 0 .. bound'.days
    <3>1. snapshot' \subseteq Row /\ busy' \in BOOLEAN /\ flags' \in Flags \cup {NoFlags}
      BY <2>1
    <3>2. 0 \in 0 .. bound.days
      BY <1>1
    <3> QED
      BY <3>1, <3>2, <2>1
  <2>3. \A w \in windows' \cup report'.windows :
            w.start \in 0 .. LastDay /\ w.inSample \cup w.outOfSample \subseteq Row
    BY <2>1 DEF TypeOK
  <2>4. LifecycleTypeOK'
    BY DEF TypeOK, LifecycleTypeOK, lifecycle
  <2>5. TypeOK'
    BY <2>2, <2>3, <2>4 DEF TypeOK
  <2> QED
    BY <2>1, <2>5 DEF WithinDays
<1> QED
  BY <1>2, <1>3 DEF ReportStep

LEMMA NextTyped == Typed /\ [Next]_vars => Typed'
<1> SUFFICES ASSUME Typed, [Next]_vars PROVE Typed'
  OBVIOUS
<1> USE DEF Typed
<1>1. /\ bound.days \in Nat /\ bound.days <= LastDay /\ LastDay \in Nat
      /\ bound.outcomes \subseteq Outcomes /\ today \in 0 .. LastDay /\ today <= bound.days
  BY BoundsAssumption DEF TypeOK, WithinDays, Bound
<1>2. CASE Change
  <2>1. LifecycleTypeOK'
    BY <1>2, LifecycleTyped DEF Change, TypeOK
  <2> QED
    BY <1>2, <2>1 DEF Change, TypeOK, WithinDays, reporting
<1>3. CASE StartSession
  BY <1>3 DEF StartSession, TypeOK, WithinDays, LifecycleTypeOK, lifecycle, reporting
<1>4. CASE EndSession
  BY <1>4 DEF EndSession, TypeOK, WithinDays, LifecycleTypeOK, lifecycle, reporting
<1>5. CASE Signal
  <2>1. PICK r \in Rows(today, "live", session, {"open"}) : log' = log \cup {r}
    BY <1>5 DEF Signal
  <2>2. r \in Row /\ r.day = today
    BY <1>1, RowsTyped DEF Sources, Outcomes
  <2> QED
    BY <1>1, <1>5, <2>1, <2>2, LogTyped DEF Signal
<1>6. CASE Resolve
  <2>1. PICK r \in log, o \in Outcomes : log' = (log \ {r}) \cup {[r EXCEPT !.outcome = o]}
    BY <1>1, <1>6 DEF Resolve
  <2>2. r \in Row /\ r.day <= bound.days
    BY DEF TypeOK, WithinDays
  <2>3. [r EXCEPT !.outcome = o] \in Row /\ [r EXCEPT !.outcome = o].day = r.day
    BY <2>2 DEF Row
  <2> QED
    BY <1>6, <2>1, <2>2, <2>3, LogTyped DEF Resolve
<1>7. CASE Backtest
  <2>1. PICK day \in 0 .. today :
            \E r \in Rows(day, "backtest", status, bound.outcomes) : log' = log \cup {r}
    BY <1>7 DEF Backtest
  <2>2. PICK r \in Rows(day, "backtest", status, bound.outcomes) : log' = log \cup {r}
    BY <2>1
  <2>3. day \in 0 .. LastDay /\ day <= bound.days
    BY <1>1
  <2>4. r \in Row /\ r.day = day
    BY <1>1, <2>3, RowsTyped DEF Sources
  <2> QED
    BY <1>7, <2>2, <2>3, <2>4, LogTyped DEF Backtest
<1>8. CASE Report
  <2>1. /\ log # {} /\ flags' \in Flags /\ snapshot' = log /\ windows' = {}
        /\ cursor' = Min(RangeDays(log)) /\ busy' = TRUE
        /\ UNCHANGED <<report, lifecycle, today, session, log, bound>>
    BY <1>8 DEF Report, ReadLog, Resolved, Taken
  <2>2. cursor' \in 0 .. bound.days
    BY <2>1, RangeIs
  <2> QED
    BY <2>1, <2>2 DEF TypeOK, WithinDays, LifecycleTypeOK, lifecycle
<1>9. CASE Reporting
  BY <1>9, ReportTyped DEF Reporting
<1>10. CASE NextDay
  <2>1. today' \in 0 .. LastDay /\ today' <= bound.days
    BY <1>1, <1>10 DEF NextDay
  <2> QED
    BY <1>10, <2>1 DEF NextDay, TypeOK, WithinDays, LifecycleTypeOK, lifecycle, reporting
<1>11. CASE UNCHANGED vars
  BY <1>11 DEF vars, TypeOK, WithinDays, LifecycleTypeOK, lifecycle, reporting
<1> QED
  BY <1>2, <1>3, <1>4, <1>5, <1>6, <1>7, <1>8, <1>9, <1>10, <1>11 DEF Next

LEMMA TypedInvariant == Spec => []Typed
BY InitTyped, NextTyped, PTL DEF Spec

\* The variables keep their types; a report's windows stay within the logged days.
THEOREM TypeCorrect == Spec => []TypeOK
<1>1. Typed => TypeOK
  BY DEF Typed
<1> QED
  BY <1>1, TypedInvariant, PTL

-----------------------------------------------------------------------------
(* Nothing is tested on twice *)

\* The windows are those of starts that are a training period apart.
Laid ==
    /\ ~busy => windows = {}
    /\ \A w \in windows : w = Window(w.start) /\ w.start \in Nat /\ w.start + flags.train <= cursor
    /\ \A v, w \in windows :
          v # w => v.start + flags.train <= w.start \/ w.start + flags.train <= v.start

LEMMA LaidNext == Typed /\ Laid /\ [Next]_vars => Laid'
<1> SUFFICES ASSUME Typed, Laid, [Next]_vars PROVE Laid'
  OBVIOUS
<1>1. CASE windows' = {}
  BY <1>1 DEF Laid
<1>2. CASE UNCHANGED reporting
  BY <1>2 DEF reporting, Laid, Window, Resolved, Taken, InTrain, InTest
<1>3. CASE Change \/ StartSession \/ EndSession \/ Signal \/ Resolve \/ Backtest \/ NextDay
            \/ UNCHANGED vars
  BY <1>2, <1>3 DEF Change, StartSession, EndSession, Signal, Resolve, Backtest, NextDay, vars
<1>4. CASE Report \/ Render
  BY <1>1, <1>4 DEF Report, ReadLog, Render
<1>5. CASE AddWindow
  <2>1. /\ windows' = windows \cup {Window(cursor)} /\ cursor' = cursor + flags.train
        /\ UNCHANGED <<flags, snapshot, busy>> /\ busy
    BY <1>5 DEF AddWindow, After
  <2>2. cursor \in Nat /\ flags.train \in Nat
    BY <2>1, BoundDays, FlagsAre DEF Typed, TypeOK, WithinDays
  <2>3. \A s : Window(s)' = Window(s)
    BY <2>1 DEF Window, Resolved, Taken, InTrain, InTest
  <2>4. \A w \in windows' : w = Window(w.start)' /\ w.start \in Nat /\ w.start + flags.train <= cursor'
    <3>1. Window(cursor).start = cursor
      BY DEF Window
    <3>2. \A w \in windows : w = Window(w.start) /\ w.start \in Nat /\ w.start + flags.train <= cursor
      BY DEF Laid
    <3> QED
      BY <3>1, <3>2, <2>1, <2>2, <2>3
  <2>5. ASSUME NEW v \in windows', NEW w \in windows', v # w
        PROVE  v.start + flags.train <= w.start \/ w.start + flags.train <= v.start
    <3>1. Window(cursor).start = cursor
      BY DEF Window
    <3>2. CASE v \in windows /\ w \in windows
      BY <2>5, <3>2 DEF Laid
    <3>3. CASE v = Window(cursor) /\ w \in windows
      BY <3>1, <3>3 DEF Laid
    <3>4. CASE w = Window(cursor) /\ v \in windows
      BY <3>1, <3>4 DEF Laid
    <3> QED
      BY <2>1, <2>5, <3>2, <3>3, <3>4
  <2> QED
    BY <2>1, <2>4, <2>5 DEF Laid
<1> QED
  BY <1>3, <1>4, <1>5 DEF Next, Reporting, ReportStep

LEMMA LaidApart == Typed /\ Laid => TestedOnce
<1> SUFFICES ASSUME Typed, Laid, NEW v \in windows, NEW w \in windows
             PROVE  /\ w.inSample \cap w.outOfSample = {}
                    /\ flags.test <= flags.train /\ v # w
                          => v.outOfSample \cap w.outOfSample = {}
  BY DEF TestedOnce
<1>1. flags.train \in Nat /\ flags.test \in Nat
  BY FlagsAre DEF Laid, Typed, WithinDays
<1>2. /\ v.start \in Nat /\ w.start \in Nat
      /\ v.outOfSample = {r \in Resolved(snapshot) : InTest(r.day, v.start)}
      /\ w.outOfSample = {r \in Resolved(snapshot) : InTest(r.day, w.start)}
      /\ w.inSample = {r \in Resolved(snapshot) : InTrain(r.day, w.start)}
  BY DEF Laid, Window
<1>3. \A r \in Resolved(snapshot) : r.day \in Nat
  BY BoundDays DEF Resolved, Taken, Typed, TypeOK, Row
<1>4. w.inSample \cap w.outOfSample = {}
  BY <1>1, <1>2, <1>3 DEF InTrain, InTest
<1>5. ASSUME flags.test <= flags.train, v # w, NEW r \in v.outOfSample \cap w.outOfSample
      PROVE  FALSE
  <2>1. v.start + flags.train <= w.start \/ w.start + flags.train <= v.start
    BY <1>5 DEF Laid
  <2>2. /\ r.day \in Nat
        /\ v.start + flags.train <= r.day /\ r.day < v.start + flags.train + flags.test
        /\ w.start + flags.train <= r.day /\ r.day < w.start + flags.train + flags.test
    BY <1>2, <1>3 DEF InTest
  <2> QED
    BY <1>1, <1>2, <1>5, <2>1, <2>2
<1> QED
  BY <1>4, <1>5

\* Whatever is logged while a report is made: no trade is in a window's training and
\* test at once, and none is out-of-sample in two windows unless the test days are
\* more than the training days.
THEOREM NothingTestedTwice == Spec => []TestedOnce
<1>1. Init => Laid
  BY DEF Init, WalkForwardInit, Laid
<1>2. Spec => []Laid
  BY <1>1, LaidNext, TypedInvariant, PTL DEF Spec
<1> QED
  BY <1>2, LaidApart, TypedInvariant, PTL

-----------------------------------------------------------------------------
(* A report continues the one before *)

StartDay(rows) == Min(RangeDays(rows))
EndDay(rows) == Max(RangeDays(rows))

\* The windows being laid follow one another from the first day up to the cursor.
Unbroken ==
    busy =>
        /\ cursor = StartDay(snapshot) \/ \E v \in windows : v.start = StartDay(snapshot)
        /\ cursor = StartDay(snapshot) \/ \E v \in windows : v.start + flags.train = cursor
        /\ \A w \in windows :
              /\ w.start + flags.train + flags.test <= EndDay(snapshot)
              /\ \/ w.start = StartDay(snapshot)
                 \/ \E v \in windows : v.start + flags.train = w.start
              /\ \/ w.start + flags.train = cursor
                 \/ \E v \in windows : v.start = w.start + flags.train

\* So do those of the last report, over the rows it had read.
Recorded ==
    /\ report.rows \subseteq Row
    /\ report.windows # {} => report.flags \in Flags /\ report.rows # {}
    /\ \A w \in report.windows :
          /\ w.start \in Nat
          /\ w.start + report.flags.train + report.flags.test <= EndDay(report.rows)
          /\ \/ w.start = StartDay(report.rows)
             \/ \E v \in report.windows : v.start + report.flags.train = w.start
          /\ \A r \in w.inSample :
                /\ r \in Resolved(report.rows)
                /\ w.start <= r.day /\ r.day < w.start + report.flags.train
          /\ \A r \in w.outOfSample :
                /\ r \in Resolved(report.rows)
                /\ w.start + report.flags.train <= r.day
                /\ r.day < w.start + report.flags.train + report.flags.test

\* Rows are never removed, and a trade that has a result keeps one.
Among(r, rows) == \E q \in rows : q.day = r.day /\ q.source = r.source
Outlives(old, rows) ==
    /\ \A q \in Resolved(old) : Among(q, Resolved(rows))
    /\ \A q \in old : Among(q, rows)
Outlived ==
    /\ Outlives(report.rows, log)
    /\ busy => Outlives(report.rows, snapshot) /\ Outlives(snapshot, log)

LEMMA RangeOf ==
    ASSUME NEW rows \in SUBSET Row, rows # {}
    PROVE  /\ StartDay(rows) \in Nat /\ EndDay(rows) \in Nat
           /\ \A r \in rows : r.day \in Nat /\ StartDay(rows) <= r.day /\ r.day <= EndDay(rows)
           /\ \E r \in rows : r.day = StartDay(rows)
           /\ \E r \in rows : r.day = EndDay(rows)
<1>1. LastDay \in Nat
  BY BoundsAssumption
<1>2. \A r \in rows : r.day \in 0 .. LastDay
  BY DEF Row
<1>3. RangeDays(rows) \in SUBSET (0 .. LastDay) /\ RangeDays(rows) # {}
  BY <1>2 DEF RangeDays, Days
<1>4. RangeDays(rows) \in SUBSET Nat
  BY <1>1, <1>3
<1>5. /\ \A r \in rows : r.day \in RangeDays(rows)
      /\ \A d \in RangeDays(rows) : \E r \in rows : r.day = d
  BY DEF RangeDays, Days
<1> HIDE DEF RangeDays
<1>6. EndDay(rows) \in RangeDays(rows) /\ \A d \in RangeDays(rows) : d <= EndDay(rows)
  BY <1>1, <1>3, MaxOf DEF EndDay
<1>7. StartDay(rows) \in RangeDays(rows) /\ \A d \in RangeDays(rows) : StartDay(rows) <= d
  BY <1>3, <1>4, MinOf DEF StartDay
<1> QED
  BY <1>4, <1>5, <1>6, <1>7

\* Later rows leave the first day where it was.
LEMMA SameStartDay ==
    ASSUME NEW old \in SUBSET Row, old # {}, NEW new \in SUBSET Row,
           Outlives(old, new), LaterOnly(old, new)
    PROVE  new # {} /\ StartDay(new) = StartDay(old) /\ EndDay(old) <= EndDay(new)
<1>1. PICK first \in old, last \in old :
          first.day = StartDay(old) /\ last.day = EndDay(old)
  BY RangeOf
<1>2. PICK f \in new, l \in new : f.day = StartDay(old) /\ l.day = EndDay(old)
  BY <1>1 DEF Outlives, Among
<1>3. StartDay(new) <= f.day /\ l.day <= EndDay(new) /\ StartDay(new) \in Nat
  BY RangeOf
<1>4. PICK r \in new : r.day = StartDay(new)
  BY <1>2, RangeOf
<1>5. StartDay(old) <= r.day
  <2>1. CASE \E q \in old : q.day = r.day /\ q.source = r.source
    BY <2>1, RangeOf
  <2>2. CASE \A q \in old : q.day <= r.day
    BY <1>1, <2>2
  <2> QED
    BY <2>1, <2>2 DEF LaterOnly
<1>6. StartDay(old) \in Nat
  BY RangeOf
<1> QED
  BY <1>2, <1>3, <1>4, <1>5, <1>6

\* Only the report command touches reports; what it adds to is not the log.
LEMMA StepsApart ==
    ASSUME [Next]_vars
    PROVE  \/ UNCHANGED reporting
           \/ (Report \/ AddWindow \/ Render) /\ log' = log
<1>1. CASE Change
  BY <1>1, Zenon DEF Change
<1>2. CASE StartSession \/ EndSession
  BY <1>2, Zenon DEF StartSession, EndSession
<1>3. CASE Signal \/ Resolve \/ Backtest
  BY <1>3, Zenon DEF Signal, Resolve, Backtest
<1>4. CASE NextDay \/ UNCHANGED vars
  BY <1>4 DEF NextDay, vars
<1>5. CASE Report \/ Reporting
  BY <1>5 DEF Report, Reporting, ReportStep
<1> QED
  BY <1>1, <1>2, <1>3, <1>4, <1>5 DEF Next

LEMMA UnbrokenNext == Typed /\ Laid /\ Unbroken /\ [Next]_vars => Unbroken'
<1> SUFFICES ASSUME Typed, Laid, Unbroken, [Next]_vars PROVE Unbroken'
  OBVIOUS
<1>1. CASE UNCHANGED reporting
  BY <1>1 DEF reporting, Unbroken, StartDay, EndDay, RangeDays, Days
<1>2. CASE Report
  <2>1. windows' = {} /\ snapshot' = log /\ cursor' = StartDay(log)
    BY <1>2 DEF Report, ReadLog, StartDay
  <2> QED
    BY <2>1 DEF Unbroken, StartDay, RangeDays, Days
<1>3. CASE Render
  BY <1>3 DEF Render, Unbroken
<1>4. CASE AddWindow
  <2> DEFINE w == Window(cursor)
  <2>1. /\ windows' = windows \cup {w} /\ cursor' = cursor + flags.train
        /\ flags' = flags /\ snapshot' = snapshot /\ busy
        /\ cursor + flags.train + flags.test <= EndDay(snapshot)
    BY <1>4 DEF AddWindow, After, Fits, EndDay
  <2>2. w.start = cursor
    BY DEF Window
  <2>3. StartDay(snapshot)' = StartDay(snapshot) /\ EndDay(snapshot)' = EndDay(snapshot)
    BY <2>1 DEF StartDay, EndDay, RangeDays, Days
  <2> HIDE DEF w
  <2>4. \E v \in windows' : v.start = StartDay(snapshot)
    BY <2>1, <2>2 DEF Unbroken
  <2>5. \E v \in windows' : v.start + flags.train = cursor'
    BY <2>1, <2>2
  <2>6. ASSUME NEW x \in windows'
        PROVE  /\ x.start + flags.train + flags.test <= EndDay(snapshot)
               /\ \/ x.start = StartDay(snapshot)
                  \/ \E v \in windows' : v.start + flags.train = x.start
               /\ \/ x.start + flags.train = cursor'
                  \/ \E v \in windows' : v.start = x.start + flags.train
    <3>1. CASE x = w
      BY <2>1, <2>2, <3>1 DEF Unbroken
    <3>2. CASE x \in windows
      BY <2>1, <2>2, <3>2 DEF Unbroken
    <3> QED
      BY <2>1, <3>1, <3>2
  <2> QED
    BY <2>1, <2>3, <2>4, <2>5, <2>6 DEF Unbroken
<1> QED
  BY <1>1, <1>2, <1>3, <1>4, StepsApart

LEMMA RecordedNext == Typed /\ Laid /\ Unbroken /\ Recorded /\ [Next]_vars => Recorded'
<1> SUFFICES ASSUME Typed, Laid, Unbroken, Recorded, [Next]_vars PROVE Recorded'
  OBVIOUS
<1>1. CASE report' = report
  BY <1>1 DEF Recorded, StartDay, EndDay, RangeDays, Days, Resolved, Taken
<1>2. CASE Render
  <2>1. report'.flags = flags /\ report'.rows = snapshot /\ report'.windows = windows /\ busy
    BY <1>2 DEF Render
  <2>2. snapshot \subseteq Row /\ flags \in Flags /\ snapshot # {}
    BY <2>1 DEF Typed, TypeOK, WithinDays
  <2>3. \A w \in windows :
           /\ w.start \in Nat
           /\ w.inSample = {r \in Resolved(snapshot) : InTrain(r.day, w.start)}
           /\ w.outOfSample = {r \in Resolved(snapshot) : InTest(r.day, w.start)}
    BY DEF Laid, Window
  <2>4. /\ StartDay(report.rows)' = StartDay(snapshot) /\ EndDay(report.rows)' = EndDay(snapshot)
        /\ Resolved(report.rows)' = Resolved(snapshot)
    BY <2>1 DEF StartDay, EndDay, RangeDays, Days, Resolved, Taken
  <2>5. \A w \in windows :
           /\ w.start + flags.train + flags.test <= EndDay(snapshot)
           /\ w.start = StartDay(snapshot) \/ \E v \in windows : v.start + flags.train = w.start
    BY <2>1 DEF Unbroken
  <2>6. \A w \in windows :
           /\ \A r \in w.inSample : /\ r \in Resolved(snapshot)
                                    /\ w.start <= r.day /\ r.day < w.start + flags.train
           /\ \A r \in w.outOfSample : /\ r \in Resolved(snapshot)
                                       /\ w.start + flags.train <= r.day
                                       /\ r.day < w.start + flags.train + flags.test
    BY <2>3 DEF InTrain, InTest
  <2> QED
    BY <2>1, <2>2, <2>3, <2>4, <2>5, <2>6 DEF Recorded
<1> QED
  BY <1>1, <1>2, StepsApart DEF AddWindow, Report, ReadLog, reporting

\* resolve_outcome of a row
Labelled(rows, r, o) == (rows \ {r}) \cup {[r EXCEPT !.outcome = o]}

\* A row that is labelled is still a row, and still among the results if it was.
LEMMA Relabelled ==
    ASSUME NEW rows \in SUBSET Row, NEW r \in rows, NEW o \in Outcomes \ {"open"},
           NEW q \in rows
    PROVE  /\ Among(q, Labelled(rows, r, o))
           /\ q \in Resolved(rows) => Among(q, Resolved(Labelled(rows, r, o)))
<1> DEFINE t == [r EXCEPT !.outcome = o]
           new == Labelled(rows, r, o)
<1>1. t.day = r.day /\ t.source = r.source /\ t.status = r.status /\ t.outcome # "open"
  BY DEF Row
<1>2. new = (rows \ {r}) \cup {t}
  BY DEF Labelled
<1> SUFFICES Among(q, new) /\ (q \in Resolved(rows) => Among(q, Resolved(new)))
  OBVIOUS
<1> HIDE DEF t, new
<1>3. t \in new /\ (r \in Resolved(rows) => t \in Resolved(new))
  BY <1>1, <1>2 DEF Resolved, Taken
<1>4. CASE q = r
  BY <1>1, <1>3, <1>4 DEF Among
<1>5. CASE q # r
  <2>1. q \in new /\ (q \in Resolved(rows) => q \in Resolved(new))
    BY <1>2, <1>5 DEF Resolved, Taken
  <2> QED
    BY <2>1 DEF Among
<1> QED
  BY <1>4, <1>5

\* The log outlives what was in it.
LEMMA LogOutlives ==
    ASSUME Typed, [Next]_vars, NEW old, Outlives(old, log)
    PROVE  Outlives(old, log')
<1>1. CASE log \subseteq log'
  <2>1. Resolved(log) \subseteq Resolved(log')
    BY <1>1 DEF Resolved, Taken
  <2> QED
    BY <1>1, <2>1 DEF Outlives, Among
<1>2. CASE Resolve
  <2>1. PICK r \in log, o \in Outcomes \ {"open"} :
            log' = Labelled(log, r, o)
    BY <1>2, BoundsAssumption DEF Resolve, Typed, TypeOK, Bound, Labelled
  <2>2. log \in SUBSET Row
    BY DEF Typed, TypeOK
  <2>3. \A q \in log : Among(q, log') /\ (q \in Resolved(log) => Among(q, Resolved(log')))
    BY <2>1, <2>2, Relabelled
  <2>4. ASSUME NEW p \in old PROVE Among(p, log')
    BY <2>3 DEF Outlives, Among
  <2>5. ASSUME NEW p \in Resolved(old) PROVE Among(p, Resolved(log'))
    <3>1. PICK q \in Resolved(log) : q.day = p.day /\ q.source = p.source
      BY DEF Outlives, Among
    <3>2. q \in log
      BY DEF Resolved, Taken
    <3> QED
      BY <2>3, <3>1, <3>2 DEF Among
  <2> QED
    BY <2>4, <2>5 DEF Outlives
<1>3. CASE Signal \/ Backtest
  BY <1>1, <1>3, Zenon DEF Signal, Backtest
<1>4. CASE Change \/ StartSession \/ EndSession \/ NextDay \/ UNCHANGED vars
  <2>1. log' = log
    BY <1>4, Zenon DEF Change, StartSession, EndSession, NextDay, vars
  <2> QED
    BY <1>1, <2>1
<1>5. CASE Report \/ Reporting
  BY <1>1, <1>5 DEF Report, Reporting
<1> QED
  BY <1>2, <1>3, <1>4, <1>5 DEF Next

LEMMA OutlivedNext == Typed /\ Outlived /\ [Next]_vars => Outlived'
<1> SUFFICES ASSUME Typed, Outlived, [Next]_vars PROVE Outlived'
  OBVIOUS
<1>1. Outlives(report.rows, log') /\ (busy => Outlives(snapshot, log'))
  BY LogOutlives DEF Outlived
<1>2. CASE UNCHANGED <<busy, report, snapshot>>
  BY <1>1, <1>2 DEF Outlived, Outlives, Among, Resolved, Taken
<1>3. CASE UNCHANGED reporting \/ AddWindow
  BY <1>2, <1>3 DEF AddWindow, reporting
<1>4. CASE Report /\ log' = log
  <2>1. snapshot' = log /\ log' = log /\ report' = report
    BY <1>4 DEF Report, ReadLog
  <2>2. Outlives(log, log)
    BY DEF Outlives, Among
  <2> QED
    BY <1>1, <2>1, <2>2 DEF Outlived, Outlives, Among, Resolved, Taken
<1>5. CASE Render
  <2>1. report'.rows = snapshot /\ busy /\ busy' = FALSE
    BY <1>5 DEF Render
  <2> QED
    BY <1>1, <2>1 DEF Outlived, Outlives, Among, Resolved, Taken
<1> QED
  BY <1>3, <1>4, <1>5, StepsApart

\* A start of the last report that the new one lacks has no start before it.
LEMMA RenderExtends ==
    ASSUME Typed, Laid, Unbroken, Recorded, Outlived, Render,
           report.flags = flags, LaterOnly(report.rows, snapshot)
    PROVE  Extends(windows, report.windows)
<1>1. CASE report.windows = {}
  BY <1>1 DEF Extends
<1>2. CASE report.windows # {}
  <2>1. busy /\ ~Fits(cursor)
    BY DEF Render
  <2>2. /\ report.rows \subseteq Row /\ report.rows # {} /\ snapshot \subseteq Row
        /\ flags.train \in Nat \ {0} /\ flags.test \in Nat /\ cursor \in Nat
    BY <1>2, FlagsAre, BoundDays DEF Recorded, Typed, TypeOK
  <2>3. /\ StartDay(snapshot) = StartDay(report.rows)
        /\ EndDay(report.rows) <= EndDay(snapshot)
    BY <2>1, <2>2, SameStartDay DEF Outlived
  <2>4. EndDay(report.rows) \in Nat /\ EndDay(snapshot) \in Nat
    BY <2>1, <2>2, RangeOf DEF Typed, WithinDays
  <2>5. \A w \in report.windows : w.start \in Nat /\ w.start # cursor
    <3> SUFFICES ASSUME NEW w \in report.windows, w.start = cursor PROVE FALSE
      BY DEF Recorded
    <3>1. w.start + flags.train + flags.test <= EndDay(report.rows)
      BY DEF Recorded
    <3>2. Fits(cursor)
      BY <2>2, <2>3, <2>4, <3>1 DEF Fits, EndDay
    <3> QED
      BY <2>1, <3>2
  <2>6. \A w \in report.windows : \E v \in windows : v.start = w.start
    <3> DEFINE missing == {w.start : w \in {u \in report.windows :
                                              \A v \in windows : v.start # u.start}}
    <3>1. SUFFICES ASSUME missing # {} PROVE FALSE
      OBVIOUS
    <3>2. missing \in SUBSET Nat
      BY <2>5
    <3>3. PICK s \in missing : \A x \in missing : s <= x
      BY <3>1, <3>2, LeastNumber
    <3>4. PICK w \in report.windows : w.start = s /\ \A v \in windows : v.start # s
      BY <3>3
    <3>5. w.start # StartDay(report.rows)
      BY <2>1, <2>3, <2>5, <3>4 DEF Unbroken
    <3>6. PICK u \in report.windows : u.start + flags.train = w.start
      BY <3>5 DEF Recorded
    <3>7. u.start \notin missing
      BY <2>2, <2>5, <3>3, <3>4, <3>6
    <3>8. PICK v \in windows : v.start = u.start
      BY <3>7
    <3>9. v.start + flags.train = cursor \/ \E x \in windows : x.start = v.start + flags.train
      BY <2>1 DEF Unbroken
    <3> QED
      BY <2>5, <3>4, <3>6, <3>8, <3>9
  <2>7. ASSUME NEW w \in report.windows, NEW v \in windows, v.start = w.start
        PROVE  /\ Trades(w.inSample) \subseteq Trades(v.inSample)
               /\ Trades(w.outOfSample) \subseteq Trades(v.outOfSample)
    <3>1. /\ v.inSample = {r \in Resolved(snapshot) : InTrain(r.day, v.start)}
          /\ v.outOfSample = {r \in Resolved(snapshot) : InTest(r.day, v.start)}
      BY DEF Laid, Window
    <3>2. \A r \in Resolved(report.rows) : Among(r, Resolved(snapshot))
      BY <2>1 DEF Outlived, Outlives
    <3>3. /\ \A r \in w.inSample : r \in Resolved(report.rows) /\ InTrain(r.day, v.start)
          /\ \A r \in w.outOfSample : r \in Resolved(report.rows) /\ InTest(r.day, v.start)
      BY <2>7 DEF Recorded, InTrain, InTest
    <3>4. \A r \in w.inSample : \E q \in v.inSample : q.day = r.day /\ q.source = r.source
      BY <3>1, <3>2, <3>3 DEF Among
    <3>5. \A r \in w.outOfSample :
              \E q \in v.outOfSample : q.day = r.day /\ q.source = r.source
      BY <3>1, <3>2, <3>3 DEF Among
    <3> QED
      BY <3>4, <3>5 DEF Trades
  <2> QED
    BY <2>6, <2>7 DEF Extends
<1> QED
  BY <1>1, <1>2

\* If only later signals were logged since the last report, one with the same flags has
\* each of its windows, at the same days, with at least the trades it counted: whatever
\* was labelled, or labelled again, in between, and whatever was logged meanwhile.
THEOREM ReportsContinue == Spec => ReportStable
<1> DEFINE Inv == Typed /\ Laid /\ Unbroken /\ Recorded /\ Outlived
           Step == [report'.flags = report.flags /\ LaterOnly(report.rows, report'.rows)
                        => Extends(report'.windows, report.windows)]_report
<1>1. Init => Typed /\ Laid /\ Unbroken /\ Recorded /\ Outlived
  <2> SUFFICES ASSUME Init PROVE Laid /\ Unbroken /\ Recorded /\ Outlived
    BY InitTyped
  <2>1. ~busy /\ windows = {} /\ report.windows = {} /\ report.rows = {}
    BY DEF Init, WalkForwardInit, NoReport
  <2> QED
    BY <2>1 DEF Laid, Unbroken, Recorded, Outlived, Outlives, Resolved, Taken
<1>2. Inv /\ [Next]_vars => Inv'
  BY NextTyped, LaidNext, UnbrokenNext, RecordedNext, OutlivedNext
<1>3. Inv /\ [Next]_vars => Step
  <2> SUFFICES ASSUME Inv, [Next]_vars, report' # report,
                      report'.flags = report.flags, LaterOnly(report.rows, report'.rows)
               PROVE  Extends(report'.windows, report.windows)
    OBVIOUS
  <2>1. Render
    BY StepsApart DEF AddWindow, Report, ReadLog, reporting
  <2>2. report'.flags = flags /\ report'.rows = snapshot /\ report'.windows = windows
    BY <2>1 DEF Render
  <2>3. Typed /\ Laid /\ Unbroken /\ Recorded /\ Outlived
    OBVIOUS
  <2> HIDE DEF Inv
  <2>4. report.flags = flags /\ LaterOnly(report.rows, snapshot)
    BY <2>2
  <2> QED
    BY <2>1, <2>2, <2>3, <2>4, RenderExtends
<1> HIDE DEF Inv
<1>4. Init => Inv
  BY <1>1 DEF Inv
<1> QED
  BY <1>2, <1>3, <1>4, PTL DEF Spec, ReportStable

-----------------------------------------------------------------------------
(* The drawdown of a series *)

\* A function defined by primitive recursion exists.
IsRecursion(f, n, G) == f = [i \in 0 .. n |-> IF i = 0 THEN 0 ELSE G[<<i, f[i - 1]>>]]

LEMMA RecursionExists ==
    ASSUME NEW n \in Nat, NEW G \in [(1 .. n) \X Int -> Int]
    PROVE  \E f \in [0 .. n -> Int] : IsRecursion(f, n, G)
<1> DEFINE Upto(m) == \E f \in [0 .. m -> Int] : IsRecursion(f, m, G)
           Missing == {m \in 0 .. n : ~Upto(m)}
<1>1. Upto(0)
  <2> DEFINE f == [i \in 0 .. 0 |-> 0]
  <2>1. f \in [0 .. 0 -> Int]
    OBVIOUS
  <2>2. \A i \in 0 .. 0 : i = 0
    OBVIOUS
  <2>3. IsRecursion(f, 0, G)
    BY <2>2 DEF IsRecursion
  <2> QED
    BY <2>1, <2>3
<1>2. ASSUME NEW m \in 1 .. n, Upto(m - 1) PROVE Upto(m)
  <2>1. PICK f \in [0 .. m - 1 -> Int] : IsRecursion(f, m - 1, G)
    BY <1>2
  <2> DEFINE g == [i \in 0 .. m |-> IF i = m THEN G[<<m, f[m - 1]>>] ELSE f[i]]
  <2>2. m \in Int /\ m - 1 \in 0 .. m - 1 /\ f[m - 1] \in Int /\ <<m, f[m - 1]>> \in (1 .. n) \X Int
    OBVIOUS
  <2>3. G[<<m, f[m - 1]>>] \in Int
    BY <2>2
  <2>4. \A i \in 0 .. m : i # m => i \in 0 .. m - 1
    OBVIOUS
  <2>5. g \in [0 .. m -> Int]
    BY <2>3, <2>4
  <2>6. \A i \in 0 .. m - 1 : g[i] = f[i]
    OBVIOUS
  <2>7. \A i \in 0 .. m - 1 : f[i] = IF i = 0 THEN 0 ELSE G[<<i, f[i - 1]>>]
    BY <2>1 DEF IsRecursion
  <2>8. \A i \in 0 .. m : g[i] = IF i = 0 THEN 0 ELSE G[<<i, g[i - 1]>>]
    <3> SUFFICES ASSUME NEW i \in 0 .. m PROVE g[i] = IF i = 0 THEN 0 ELSE G[<<i, g[i - 1]>>]
      OBVIOUS
    <3>1. CASE i = m
      <4>1. g[i] = G[<<m, f[m - 1]>>] /\ g[i - 1] = f[m - 1]
        BY <2>2, <2>6, <3>1
      <4>2. i # 0
        BY <3>1
      <4> HIDE DEF g
      <4> QED
        BY <4>1, <4>2, <3>1
    <3>2. CASE i # m /\ i # 0
      <4>1. i \in 0 .. m - 1 /\ i - 1 \in 0 .. m - 1
        BY <3>2
      <4>2. g[i] = f[i] /\ g[i - 1] = f[i - 1]
        BY <4>1, <2>6
      <4> QED
        BY <4>1, <4>2, <3>2, <2>7
    <3>3. CASE i # m /\ i = 0
      BY <3>3, <2>4, <2>6, <2>7
    <3> QED
      BY <3>1, <3>2, <3>3
  <2>9. IsRecursion(g, m, G)
    BY <2>8 DEF IsRecursion
  <2> HIDE DEF g
  <2> QED
    BY <2>5, <2>9
<1>3. CASE Missing = {}
  BY <1>3
<1>4. CASE Missing # {}
  <2>1. Missing \in SUBSET Nat
    OBVIOUS
  <2> HIDE DEF Missing
  <2>2. PICK m \in Missing : \A y \in Missing : m <= y
    BY <1>4, <2>1, LeastNumber
  <2> USE DEF Missing
  <2>3. m \in 0 .. n /\ ~Upto(m)
    BY <2>2
  <2> HIDE DEF Upto
  <2>4. m # 0
    BY <1>1, <2>3
  <2>5. m \in 1 .. n /\ m - 1 \in 0 .. n /\ ~(m <= m - 1)
    BY <2>3, <2>4
  <2>6. m - 1 \notin Missing
    BY <2>2, <2>5
  <2>7. Upto(m - 1)
    BY <2>5, <2>6
  <2> QED
    BY <1>2, <2>3, <2>5, <2>7
<1> QED
  BY <1>3, <1>4

\* The equity after each trade is a number.
LEMMA EquityTyped ==
    ASSUME NEW pnl \in Seq(Int)
    PROVE  Equity(pnl) \in [1 .. Len(pnl) -> Int]
<1> DEFINE n == Len(pnl)
           G == [p \in (1 .. n) \X Int |-> p[2] + pnl[p[1]]]
           Is(f) == f = [i \in 0 .. n |-> IF i = 0 THEN 0 ELSE f[i - 1] + pnl[i]]
           sum == CHOOSE f : Is(f)
<1>1. n \in Nat /\ \A i \in 1 .. n : pnl[i] \in Int
  OBVIOUS
<1>2. G \in [(1 .. n) \X Int -> Int]
  BY <1>1
<1>3. PICK f \in [0 .. n -> Int] : IsRecursion(f, n, G)
  <2> HIDE DEF G, n
  <2> QED
    BY <1>1, <1>2, RecursionExists
<1>4. Is(f)
  <2>1. ASSUME NEW i \in 0 .. n, i # 0 PROVE G[<<i, f[i - 1]>>] = f[i - 1] + pnl[i]
    <3>1. i \in 1 .. n /\ i - 1 \in 0 .. n
      BY <2>1, <1>1
    <3>2. <<i, f[i - 1]>> \in (1 .. n) \X Int
      BY <3>1
    <3> QED
      BY <3>2
  <2> HIDE DEF G
  <2> QED
    BY <1>3, <2>1 DEF IsRecursion
<1>5. Is(sum)
  <2> HIDE DEF Is
  <2> QED
    BY <1>4
<1> DEFINE Untyped == {i \in 0 .. n : sum[i] \notin Int}
<1>6. Untyped = {}
  <2> SUFFICES ASSUME Untyped # {} PROVE FALSE
    OBVIOUS
  <2> HIDE DEF sum
  <2>1. Untyped \in SUBSET Nat
    BY <1>1
  <2> HIDE DEF Untyped
  <2>2. PICK i \in Untyped : \A j \in Untyped : i <= j
    BY <2>1, LeastNumber
  <2> USE DEF Untyped
  <2>3. i \in 0 .. n /\ sum[i] \notin Int
    BY <2>2
  <2>4. sum[0] = 0
    BY <1>1, <1>5
  <2>5. i # 0 /\ i \in 1 .. n /\ i - 1 \in 0 .. n /\ ~(i <= i - 1)
    BY <2>3, <2>4, <1>1
  <2>6. sum[i - 1] \in Int
    BY <2>2, <2>5
  <2>7. sum[i] = sum[i - 1] + pnl[i]
    BY <1>5, <2>3, <2>5
  <2> QED
    BY <1>1, <2>3, <2>5, <2>6, <2>7
<1>7. Equity(pnl) = [i \in 1 .. n |-> sum[i]]
  BY DEF Equity
<1>8. \A i \in 1 .. n : sum[i] \in Int
  <2> HIDE DEF sum
  <2> QED
    BY <1>1, <1>6
<1> HIDE DEF sum
<1> QED
  BY <1>7, <1>8

\* A function on an interval takes a greatest and a least value.
LEMMA HighestOf ==
    ASSUME NEW n \in Nat, NEW e \in [1 .. n -> Int], NEW i \in 1 .. n
    PROVE  /\ \E j \in 1 .. i : Max({e[k] : k \in 1 .. i}) = e[j]
           /\ \A j \in 1 .. i : e[j] <= Max({e[k] : k \in 1 .. i})
<1> DEFINE Peak(m) == \E j \in 1 .. m : \A k \in 1 .. m : e[k] <= e[j]
           Without == {m \in 1 .. n : ~Peak(m)}
<1>1. Without = {}
  <2> SUFFICES ASSUME Without # {} PROVE FALSE
    OBVIOUS
  <2>1. Without \in SUBSET Nat
    OBVIOUS
  <2> HIDE DEF Without
  <2>2. PICK m \in Without : \A y \in Without : m <= y
    BY <2>1, LeastNumber
  <2> USE DEF Without
  <2>3. m \in 1 .. n /\ ~Peak(m)
    BY <2>2
  <2>4. CASE m = 1
    <3>1. Peak(1)
      <4>1. 1 \in 1 .. 1 /\ \A k \in 1 .. 1 : k = 1 /\ e[1] \in Int
        BY <2>3, <2>4
      <4>2. e[1] <= e[1]
        BY <4>1
      <4> QED
        BY <4>1, <4>2
    <3> QED
      BY <2>3, <2>4, <3>1
  <2>5. CASE m # 1
    <3>1. m - 1 \in 1 .. n /\ ~(m <= m - 1)
      BY <2>3, <2>5
    <3>2. Peak(m - 1)
      BY <2>2, <3>1
    <3>3. PICK j \in 1 .. m - 1 : \A k \in 1 .. m - 1 : e[k] <= e[j]
      BY <3>2
    <3>4. m \in 1 .. m /\ j \in 1 .. m /\ e[m] \in Int /\ e[j] \in Int
      BY <2>3, <3>1
    <3>5. \A k \in 1 .. m : (k = m \/ k \in 1 .. m - 1) /\ e[k] \in Int
      BY <2>3
    <3>6. CASE e[m] <= e[j]
      BY <2>3, <3>3, <3>4, <3>5, <3>6
    <3>7. CASE e[j] <= e[m]
      <4>1. ASSUME NEW k \in 1 .. m PROVE e[k] <= e[m]
        <5>1. CASE k = m
          BY <3>4, <5>1
        <5>2. CASE k \in 1 .. m - 1
          <6>1. e[k] <= e[j] /\ e[k] \in Int
            BY <3>3, <3>5, <5>2
          <6> QED
            BY <3>4, <3>7, <6>1
        <5> QED
          BY <3>5, <5>1, <5>2
      <4> QED
        BY <2>3, <3>4, <4>1
    <3> QED
      BY <3>4, <3>6, <3>7
  <2> QED
    BY <2>4, <2>5
<1>2. PICK j \in 1 .. i : \A k \in 1 .. i : e[k] <= e[j]
  BY <1>1
<1> DEFINE S == {e[k] : k \in 1 .. i}
<1>3. S \subseteq Int
  OBVIOUS
<1>4. e[j] \in S /\ \A y \in S : e[j] >= y
  BY <1>2, <1>3
<1> HIDE DEF S
<1>5. Max(S) \in S /\ \A y \in S : Max(S) >= y
  BY <1>4 DEF Max
<1>6. Max(S) = e[j]
  <2>1. Max(S) \in Int /\ e[j] \in Int /\ Max(S) >= e[j] /\ e[j] >= Max(S)
    BY <1>3, <1>4, <1>5
  <2> HIDE DEF Max
  <2> QED
    BY <2>1
<1> USE DEF S
<1> QED
  BY <1>2, <1>6

LEMMA LowestAt ==
    ASSUME NEW n \in Nat, n > 0, NEW d \in [1 .. n -> Int]
    PROVE  \E i \in 1 .. n : \A j \in 1 .. n : d[i] <= d[j]
<1> DEFINE up == [i \in 1 .. n |-> 0 - d[i]]
<1>1. up \in [1 .. n -> Int] /\ n \in 1 .. n
  OBVIOUS
<1> HIDE DEF up
<1>2. PICK i \in 1 .. n : \A j \in 1 .. n : up[j] <= up[i]
  <2>1. /\ \E j \in 1 .. n : Max({up[k] : k \in 1 .. n}) = up[j]
        /\ \A j \in 1 .. n : up[j] <= Max({up[k] : k \in 1 .. n})
    BY <1>1, HighestOf
  <2> QED
    BY <2>1
<1>3. \A j \in 1 .. n : up[j] = 0 - d[j] /\ d[j] \in Int
  BY DEF up
<1>4. \A j \in 1 .. n : d[i] <= d[j]
  BY <1>2, <1>3
<1> QED
  BY <1>4

\* The figure is that of the falls: at the trade the figure is reached, the running
\* maximum is the equity after some trade before.
LEMMA FallIsMaxDrawdown ==
    ASSUME NEW pnl \in Seq(Int), pnl # <<>>,
           NEW Falls, Falls = {Equity(pnl)[s[2]] - Equity(pnl)[s[1]] :
                      s \in {t \in (DOMAIN pnl) \X (DOMAIN pnl) : t[1] <= t[2]}}
    PROVE  MaxDrawdown(pnl) = Min(Falls)
<1> DEFINE n == Len(pnl)
           e == Equity(pnl)
           D == {Drawdown(pnl)[i] : i \in 1 .. n}
<1>1. n \in Nat /\ n > 0 /\ DOMAIN pnl = 1 .. n /\ e \in [1 .. n -> Int]
  BY EquityTyped
<1>2. \A i \in 1 .. n : /\ \E j \in 1 .. i : RunningMax(e, i) = e[j]
                        /\ \A j \in 1 .. i : e[j] <= RunningMax(e, i)
  BY <1>1, HighestOf DEF RunningMax
<1>3. Drawdown(pnl) = [i \in 1 .. n |-> e[i] - RunningMax(e, i)]
  BY <1>1 DEF Drawdown
<1>4. MaxDrawdown(pnl) = Min(D)
  BY <1>1, <1>3 DEF MaxDrawdown
<1> HIDE DEF n, e
<1>5. Falls = {e[s[2]] - e[s[1]] : s \in {t \in (1 .. n) \X (1 .. n) : t[1] <= t[2]}}
  BY <1>1 DEF e
<1>6. D \subseteq Falls
  <2> SUFFICES ASSUME NEW i \in 1 .. n PROVE Drawdown(pnl)[i] \in Falls
    OBVIOUS
  <2>1. PICK j \in 1 .. i : RunningMax(e, i) = e[j]
    BY <1>2
  <2>2. Drawdown(pnl)[i] = e[i] - e[j]
    BY <1>3, <2>1
  <2>3. <<j, i>> \in {t \in (1 .. n) \X (1 .. n) : t[1] <= t[2]}
    BY <1>1
  <2>4. e[<<j, i>>[2]] - e[<<j, i>>[1]] \in Falls
    BY <1>5, <2>3
  <2> QED
    BY <2>2, <2>4
<1>7. \A x \in Falls : \E d \in D : d <= x
  <2> SUFFICES ASSUME NEW x \in Falls PROVE \E d \in D : d <= x
    OBVIOUS
  <2>1. PICK s \in {t \in (1 .. n) \X (1 .. n) : t[1] <= t[2]} : x = e[s[2]] - e[s[1]]
    BY <1>5
  <2>2. s[1] \in 1 .. s[2] /\ s[2] \in 1 .. n /\ s[1] \in 1 .. n
    BY <1>1, <2>1
  <2>3. e[s[1]] <= RunningMax(e, s[2])
    BY <1>2, <2>2
  <2>4. RunningMax(e, s[2]) \in Int
    <3>1. PICK j \in 1 .. s[2] : RunningMax(e, s[2]) = e[j]
      BY <1>2, <2>2
    <3> QED
      BY <1>1, <2>2, <3>1
  <2>5. Drawdown(pnl)[s[2]] <= x
    BY <1>1, <1>3, <2>1, <2>2, <2>3, <2>4
  <2> QED
    BY <2>2, <2>5
<1>8. Falls \subseteq Int /\ D # {}
  <2>1. \A s \in (1 .. n) \X (1 .. n) : e[s[2]] - e[s[1]] \in Int
    BY <1>1
  <2>2. 1 \in 1 .. n
    BY <1>1
  <2> QED
    BY <1>5, <2>1, <2>2
<1>9. \E d \in D : \A y \in D : d <= y
  <2> SUFFICES ASSUME TRUE PROVE \E i \in 1 .. n : \A j \in 1 .. n : Drawdown(pnl)[i] <= Drawdown(pnl)[j]
    OBVIOUS
  <2>1. [i \in 1 .. n |-> Drawdown(pnl)[i]] \in [1 .. n -> Int]
    BY <1>6, <1>8
  <2> QED
    BY <1>1, <2>1, LowestAt
<1> HIDE DEF D
<1>10. PICK d \in D : \A y \in D : d <= y
  BY <1>9
<1>11. d \in Falls /\ \A x \in Falls : d <= x
  <2>1. \A y \in D : y \in Int
    BY <1>6, <1>8
  <2> QED
    <3>1. d \in Falls /\ d \in Int
      BY <1>6, <1>8, <1>10
    <3>2. ASSUME NEW x \in Falls PROVE d <= x
      <4>1. PICK y \in D : y <= x
        BY <1>7
      <4>2. d <= y /\ y \in Int /\ x \in Int
        BY <1>8, <1>10, <2>1
      <4> QED
        BY <3>1, <4>1, <4>2
    <3> QED
      BY <3>1, <3>2
<1>12. Min(D) = Min(Falls)
  <2>1. \A x \in Int : \A y \in Int : x <= y /\ y <= x => x = y
    OBVIOUS
  <2>2. Min(D) = d
    BY <1>6, <1>8, <1>10, <2>1 DEF Min
  <2>3. Min(Falls) = d
    BY <1>8, <1>11, <2>1 DEF Min
  <2> QED
    BY <2>2, <2>3
<1> QED
  BY <1>4, <1>12

\* How many trades in a row, up to trade i, ended below an equity reached before.
IsRun(f, pnl) ==
    f = [i \in 0 .. Len(pnl) |-> IF i > 0 /\ Drawdown(pnl)[i] < 0 THEN f[i - 1] + 1 ELSE 0]
RunTo(pnl) == CHOOSE f : IsRun(f, pnl)

RunIs(f, pnl, i) ==
    /\ f[i] \in 0 .. i
    /\ \A j \in i - f[i] + 1 .. i : Drawdown(pnl)[j] < 0
    /\ f[i] < i => ~(Drawdown(pnl)[i - f[i]] < 0)

LEMMA RunsAre ==
    ASSUME NEW pnl \in Seq(Int), NEW i \in 0 .. Len(pnl)
    PROVE  RunIs(RunTo(pnl), pnl, i)
<1> DEFINE n == Len(pnl)
           f == RunTo(pnl)
           G == [p \in (1 .. n) \X Int |-> IF Drawdown(pnl)[p[1]] < 0 THEN p[2] + 1 ELSE 0]
<1>1. n \in Nat
  OBVIOUS
<1>2. G \in [(1 .. n) \X Int -> Int]
  OBVIOUS
<1>3. PICK g \in [0 .. n -> Int] : IsRecursion(g, n, G)
  <2> HIDE DEF G, n
  <2> QED
    BY <1>1, <1>2, RecursionExists
<1>4. IsRun(g, pnl)
  <2>1. ASSUME NEW k \in 0 .. n, k # 0
        PROVE  G[<<k, g[k - 1]>>] = IF Drawdown(pnl)[k] < 0 THEN g[k - 1] + 1 ELSE 0
    <3>1. k \in 1 .. n /\ k - 1 \in 0 .. n
      BY <2>1, <1>1
    <3>2. <<k, g[k - 1]>> \in (1 .. n) \X Int
      BY <3>1
    <3> QED
      BY <3>2
  <2>2. \A k \in 0 .. n : k > 0 <=> k # 0
    OBVIOUS
  <2> HIDE DEF G
  <2> QED
    BY <1>3, <2>1, <2>2 DEF IsRecursion, IsRun
<1>5. IsRun(f, pnl)
  BY <1>4 DEF RunTo
<1>6. \A k \in 0 .. n : f[k] = IF k > 0 /\ Drawdown(pnl)[k] < 0 THEN f[k - 1] + 1 ELSE 0
  BY <1>5 DEF IsRun
<1> HIDE DEF f
<1> DEFINE Wrong == {k \in 0 .. n : ~RunIs(f, pnl, k)}
<1>7. ASSUME Wrong # {} PROVE FALSE
  <2>1. Wrong \in SUBSET Nat
    OBVIOUS
  <2> HIDE DEF Wrong
  <2>2. PICK k \in Wrong : \A j \in Wrong : k <= j
    BY <1>7, <2>1, LeastNumber
  <2> USE DEF Wrong
  <2>3. k \in 0 .. n /\ ~RunIs(f, pnl, k)
    BY <2>2
  <2>4. CASE ~(k > 0 /\ Drawdown(pnl)[k] < 0)
    <3>1. f[k] = 0
      BY <1>6, <2>3, <2>4
    <3>2. RunIs(f, pnl, k)
      BY <2>3, <2>4, <3>1 DEF RunIs
    <3> QED
      BY <2>3, <3>2
  <2>5. CASE k > 0 /\ Drawdown(pnl)[k] < 0
    <3>1. k - 1 \in 0 .. n /\ ~(k <= k - 1)
      BY <2>3, <2>5
    <3>2. RunIs(f, pnl, k - 1)
      BY <2>2, <3>1
    <3>3. f[k] = f[k - 1] + 1
      BY <1>6, <2>3, <2>5
    <3>4. f[k - 1] \in 0 .. k - 1 /\ f[k] \in 1 .. k /\ k - f[k] = (k - 1) - f[k - 1]
      BY <2>3, <3>1, <3>2, <3>3 DEF RunIs
    <3>5. \A j \in k - f[k] + 1 .. k : j = k \/ j \in (k - 1) - f[k - 1] + 1 .. k - 1
      BY <2>3, <3>4
    <3>6. \A j \in k - f[k] + 1 .. k : Drawdown(pnl)[j] < 0
      BY <2>5, <3>2, <3>5 DEF RunIs
    <3>7. f[k] < k => f[k - 1] < k - 1
      BY <2>3, <3>3, <3>4
    <3>8. RunIs(f, pnl, k)
      BY <2>3, <3>2, <3>4, <3>6, <3>7 DEF RunIs
    <3> QED
      BY <2>3, <3>8
  <2> QED
    BY <2>4, <2>5
<1> QED
  BY <1>7

LEMMA SameGreatest ==
    ASSUME NEW n \in Nat, NEW S \in SUBSET (0 .. n), NEW T \in SUBSET (0 .. n), S # {}, T # {},
           \A x \in S : \E y \in T : x <= y, \A y \in T : \E x \in S : y <= x
    PROVE  Max(S) = Max(T)
<1>1. Max(S) \in S /\ (\A x \in S : x <= Max(S)) /\ Max(T) \in T /\ (\A y \in T : y <= Max(T))
  BY MaxOf
<1> DEFINE a == Max(S)
           b == Max(T)
<1>2. a \in 0 .. n /\ b \in 0 .. n
  BY <1>1
<1> HIDE DEF a, b
<1>3. a <= b
  <2>1. PICK y \in T : a <= y
    BY <1>1 DEF a
  <2>2. y <= b /\ y \in 0 .. n
    BY <1>1 DEF b
  <2> QED
    BY <1>2, <2>1, <2>2
<1>4. b <= a
  <2>1. PICK x \in S : b <= x
    BY <1>1 DEF b
  <2>2. x <= a /\ x \in 0 .. n
    BY <1>1 DEF a
  <2> QED
    BY <1>2, <2>1, <2>2
<1>5. a = b
  BY <1>2, <1>3, <1>4
<1> QED
  BY <1>5 DEF a, b

\* The runs that are counted are the stretches below an equity reached before, and the
\* longest of either kind is as long as that of the other.
LEMMA RunIsMaxDuration ==
    ASSUME NEW pnl \in Seq(Int), pnl # <<>>,
           NEW Under, Under = {t \in (DOMAIN pnl) \X (DOMAIN pnl) :
                      /\ t[1] <= t[2]
                      /\ \A j \in t[1] .. t[2] : \E i \in 1 .. j : Equity(pnl)[j] - Equity(pnl)[i] < 0}
    PROVE  MaxDuration(pnl) = Max({0} \cup {s[2] - s[1] + 1 : s \in Under})
<1> DEFINE n == Len(pnl)
           e == Equity(pnl)
           f == RunTo(pnl)
           Counted == {f[i] : i \in 0 .. n}
           Lengths == {0} \cup {s[2] - s[1] + 1 : s \in Under}
<1>1. n \in Nat /\ n > 0 /\ DOMAIN pnl = 1 .. n /\ e \in [1 .. n -> Int]
  BY EquityTyped
<1>2. MaxDuration(pnl) = Max(Counted)
  BY DEF MaxDuration, RunTo, IsRun
<1>3. \A i \in 0 .. n : RunIs(f, pnl, i)
  BY RunsAre
<1> HIDE DEF n, e, f
<1>4. \A j \in 1 .. n : Drawdown(pnl)[j] < 0 <=> \E i \in 1 .. j : e[j] - e[i] < 0
  <2> SUFFICES ASSUME NEW j \in 1 .. n
               PROVE  Drawdown(pnl)[j] < 0 <=> \E i \in 1 .. j : e[j] - e[i] < 0
    OBVIOUS
  <2>1. /\ \E i \in 1 .. j : RunningMax(e, j) = e[i]
        /\ \A i \in 1 .. j : e[i] <= RunningMax(e, j)
    BY <1>1, HighestOf DEF RunningMax
  <2>2. Drawdown(pnl)[j] = e[j] - RunningMax(e, j)
    BY <1>1 DEF Drawdown, e
  <2>3. PICK k \in 1 .. j : RunningMax(e, j) = e[k]
    BY <2>1
  <2>4. e[j] \in Int /\ e[k] \in Int /\ \A i \in 1 .. j : e[i] \in Int /\ e[i] <= e[k]
    BY <1>1, <2>1, <2>3
  <2>5. Drawdown(pnl)[j] = e[j] - e[k]
    BY <2>2, <2>3
  <2> QED
    BY <2>4, <2>5
<1>5. Under = {t \in (1 .. n) \X (1 .. n) :
                  t[1] <= t[2] /\ \A j \in t[1] .. t[2] : Drawdown(pnl)[j] < 0}
  <2>1. Under = {t \in (1 .. n) \X (1 .. n) :
                   t[1] <= t[2] /\ \A j \in t[1] .. t[2] : \E i \in 1 .. j : e[j] - e[i] < 0}
    BY <1>1 DEF e
  <2>2. \A t \in (1 .. n) \X (1 .. n) : \A j \in t[1] .. t[2] : j \in 1 .. n
    BY <1>1
  <2> QED
    BY <1>4, <2>1, <2>2
<1>6. \A i \in 0 .. n : f[i] \in 0 .. n
  BY <1>1, <1>3 DEF RunIs
<1>7. Counted \in SUBSET (0 .. n) /\ Counted # {}
  <2>1. 0 \in 0 .. n
    BY <1>1
  <2> QED
    BY <1>6, <2>1
<1>8. \A s \in Under : s[2] - s[1] + 1 \in 0 .. n
  BY <1>1, <1>5
<1>9. Lengths \in SUBSET (0 .. n) /\ Lengths # {}
  BY <1>1, <1>8
<1>10. \A x \in Counted : \E y \in Lengths : x <= y
  <2> SUFFICES ASSUME NEW i \in 0 .. n PROVE f[i] \in Lengths
    BY <1>6
  <2>1. CASE f[i] = 0
    BY <2>1
  <2>2. CASE f[i] # 0
    <3>1. f[i] \in 1 .. i
      BY <1>1, <1>3, <2>2 DEF RunIs
    <3> DEFINE a == i - f[i] + 1
    <3>2. a \in 1 .. i /\ i \in 1 .. n /\ a \in 1 .. n /\ i - a + 1 = f[i] /\ a <= i
      BY <1>1, <3>1
    <3>3. \A j \in a .. i : Drawdown(pnl)[j] < 0
      BY <1>3 DEF RunIs
    <3> HIDE DEF a
    <3>4. <<a, i>> \in Under
      BY <1>5, <3>2, <3>3
    <3>5. <<a, i>>[2] - <<a, i>>[1] + 1 \in Lengths
      BY <3>4
    <3> QED
      BY <3>2, <3>5
  <2> QED
    BY <2>1, <2>2
<1>11. \A y \in Lengths : \E x \in Counted : y <= x
  <2>1. ASSUME NEW s \in Under PROVE s[2] - s[1] + 1 <= f[s[2]]
    <3>1. /\ s[1] \in 1 .. n /\ s[2] \in 1 .. n /\ s[1] <= s[2]
          /\ \A j \in s[1] .. s[2] : Drawdown(pnl)[j] < 0
      BY <1>5, <2>1
    <3>2. RunIs(f, pnl, s[2]) /\ f[s[2]] \in 0 .. s[2]
      BY <1>1, <1>3, <3>1 DEF RunIs
    <3> SUFFICES ASSUME ~(s[2] - s[1] + 1 <= f[s[2]]) PROVE FALSE
      OBVIOUS
    <3>3. s[2] - f[s[2]] \in s[1] .. s[2] /\ f[s[2]] < s[2]
      BY <1>1, <3>1, <3>2
    <3> QED
      BY <3>1, <3>2, <3>3 DEF RunIs
  <2>2. 0 \in 0 .. n /\ 0 <= f[0]
    BY <1>1, <1>6
  <2>3. \A s \in Under : s[2] \in 0 .. n
    BY <1>1, <1>5
  <2> QED
    BY <2>1, <2>2, <2>3
<1> HIDE DEF Counted, Lengths
<1>12. Max(Counted) = Max(Lengths)
  BY <1>1, <1>7, <1>9, <1>10, <1>11, SameGreatest
<1> QED
  BY <1>2, <1>12 DEF Lengths

\* For a series of any length: what compute_metrics walks through is the worst fall.
THEOREM FiguresOfAnySeries ==
    ASSUME NEW pnl \in Seq(Int), pnl # <<>>
    PROVE  WorstFall(pnl)
<1> DEFINE Stretches == {s \in (DOMAIN pnl) \X (DOMAIN pnl) : s[1] <= s[2]}
           Falls == {Equity(pnl)[s[2]] - Equity(pnl)[s[1]] : s \in Stretches}
           Under == {t \in Stretches :
                        \A j \in t[1] .. t[2] : \E i \in 1 .. j : Equity(pnl)[j] - Equity(pnl)[i] < 0}
<1>1. MaxDrawdown(pnl) = Min(Falls)
  BY FallIsMaxDrawdown
<1>2. MaxDuration(pnl) = Max({0} \cup {s[2] - s[1] + 1 : s \in Under})
  <2>1. Under = {t \in (DOMAIN pnl) \X (DOMAIN pnl) :
                      /\ t[1] <= t[2]
                      /\ \A j \in t[1] .. t[2] : \E i \in 1 .. j : Equity(pnl)[j] - Equity(pnl)[i] < 0}
    OBVIOUS
  <2> QED
    BY <2>1, RunIsMaxDuration
<1> QED
  BY <1>1, <1>2 DEF WorstFall

-----------------------------------------------------------------------------
(* The results in the store are such a series *)

\* A day is evaluated once by the sessions, and once by a backtest.
OneEach(rows) == \A q, r \in rows : q.day = r.day /\ q.source = r.source => q = r

LoggedOnce == IsFiniteSet(log) /\ OneEach(log)

LEMMA LoggedOnceNext == Typed /\ LoggedOnce /\ [Next]_vars => LoggedOnce'
<1> SUFFICES ASSUME Typed, LoggedOnce, [Next]_vars PROVE LoggedOnce'
  OBVIOUS
<1>1. CASE UNCHANGED log
  BY <1>1 DEF LoggedOnce, OneEach
<1>2. ASSUME NEW r, log' = log \cup {r}, ~Logged(r.day, r.source)
      PROVE  LoggedOnce'
  <2>1. IsFiniteSet(log')
    BY <1>2, FS_AddElement DEF LoggedOnce
  <2>2. OneEach(log')
    BY <1>2 DEF LoggedOnce, OneEach, Logged
  <2> QED
    BY <2>1, <2>2 DEF LoggedOnce, OneEach
<1>3. CASE Signal
  <2>1. PICK r \in Rows(today, "live", session, {"open"}) : log' = log \cup {r}
    BY <1>3 DEF Signal
  <2>2. r.day = today /\ r.source = "live"
    BY DEF Rows
  <2> QED
    BY <1>2, <1>3, <2>1, <2>2 DEF Signal
<1>4. CASE Resolve
  <2>1. PICK r \in log, o \in Outcomes : log' = (log \ {r}) \cup {[r EXCEPT !.outcome = o]}
    BY <1>4, BoundsAssumption DEF Resolve, Typed, TypeOK, Bound
  <2> DEFINE t == [r EXCEPT !.outcome = o]
  <2>2. t.day = r.day /\ t.source = r.source
    BY DEF Typed, TypeOK, Row
  <2> HIDE DEF t
  <2>3. IsFiniteSet(log \ {r})
    BY FS_RemoveElement DEF LoggedOnce
  <2>4. IsFiniteSet((log \ {r}) \cup {t})
    BY <2>3, FS_AddElement
  <2>5. log' = (log \ {r}) \cup {t}
    BY <2>1 DEF t
  <2>6. OneEach(log')
    BY <2>2, <2>5 DEF LoggedOnce, OneEach
  <2> QED
    BY <2>4, <2>5, <2>6 DEF LoggedOnce, OneEach
<1>5. CASE Backtest
  <2>1. PICK day \in 0 .. today : /\ ~Logged(day, "backtest")
                                  /\ \E r \in Rows(day, "backtest", status, bound.outcomes) :
                                        log' = log \cup {r}
    BY <1>5 DEF Backtest
  <2>2. PICK r \in Rows(day, "backtest", status, bound.outcomes) : log' = log \cup {r}
    BY <2>1
  <2>3. r.day = day /\ r.source = "backtest"
    BY DEF Rows
  <2> QED
    BY <1>2, <2>1, <2>2, <2>3
<1>6. CASE Change \/ StartSession \/ EndSession \/ Report \/ Reporting \/ NextDay
  BY <1>1, <1>6 DEF Change, StartSession, EndSession, Report, Reporting, NextDay
<1> QED
  BY <1>1, <1>3, <1>4, <1>5, <1>6 DEF Next, vars

\* The places of rows, no two of one day and source, are the numbers from 1 on.
LEMMA EveryPlaceIsTaken ==
    ASSUME NEW rows \in SUBSET Row, IsFiniteSet(rows), OneEach(rows),
           NEW i \in 1 .. Cardinality(rows)
    PROVE  \E r \in rows : Place(r, rows) = i
<1> DEFINE n == Cardinality(rows)
           Upto(r) == {q \in rows : q = r \/ Before(q, r)}
           place == [r \in rows |-> Place(r, rows)]
<1>1. n \in Nat
  BY FS_CardinalityType
<1>2. \A r \in rows : /\ Upto(r) \in SUBSET rows /\ IsFiniteSet(Upto(r)) /\ r \in Upto(r)
                      /\ Place(r, rows) = Cardinality(Upto(r)) /\ Place(r, rows) <= n
                      /\ Place(r, rows) \in Nat /\ Place(r, rows) # 0
  <2> SUFFICES ASSUME NEW r \in rows
               PROVE  /\ Upto(r) \in SUBSET rows /\ IsFiniteSet(Upto(r)) /\ r \in Upto(r)
                      /\ Place(r, rows) = Cardinality(Upto(r)) /\ Place(r, rows) <= n
                      /\ Place(r, rows) \in Nat /\ Place(r, rows) # 0
    OBVIOUS
  <2>1. Upto(r) \in SUBSET rows /\ r \in Upto(r)
    OBVIOUS
  <2>2. Place(r, rows) = Cardinality(Upto(r))
    BY DEF Place
  <2> HIDE DEF Upto
  <2>3. IsFiniteSet(Upto(r)) /\ Cardinality(Upto(r)) <= n
    BY <2>1, FS_Subset
  <2>4. Cardinality(Upto(r)) \in Nat /\ Cardinality(Upto(r)) # 0
    BY <2>1, <2>3, FS_CardinalityType, FS_EmptySet
  <2> QED
    BY <2>1, <2>2, <2>3, <2>4
<1>3. \A q, r \in rows : q # r => Before(q, r) \/ Before(r, q)
  <2> SUFFICES ASSUME NEW q \in rows, NEW r \in rows, q # r PROVE Before(q, r) \/ Before(r, q)
    OBVIOUS
  <2>1. /\ q.day \in 0 .. LastDay /\ r.day \in 0 .. LastDay /\ LastDay \in Nat
        /\ q.source \in {"live", "backtest"} /\ r.source \in {"live", "backtest"}
    BY BoundsAssumption DEF Row, Sources
  <2>2. ~(q.day = r.day /\ q.source = r.source)
    BY DEF OneEach
  <2> QED
    BY <2>1, <2>2 DEF Before
<1>4. ASSUME NEW q \in rows, NEW r \in rows, Before(q, r) PROVE Place(q, rows) < Place(r, rows)
  <2>1. /\ q.day \in 0 .. LastDay /\ r.day \in 0 .. LastDay /\ LastDay \in Nat
    BY BoundsAssumption DEF Row
  <2>2. r \notin Upto(q)
    BY <1>4, <2>1 DEF Before
  <2>3. Upto(q) \subseteq Upto(r)
    <3> SUFFICES ASSUME NEW p \in rows, p = q \/ Before(p, q) PROVE Before(p, r)
      OBVIOUS
    <3>1. p.day \in 0 .. LastDay
      BY DEF Row
    <3> QED
      BY <1>4, <2>1, <3>1 DEF Before
  <2> HIDE DEF Upto
  <2>4. Upto(q) \in SUBSET Upto(r) /\ Upto(q) # Upto(r)
    BY <1>2, <2>2, <2>3
  <2>5. /\ Cardinality(Upto(q)) <= Cardinality(Upto(r))
        /\ Cardinality(Upto(r)) # Cardinality(Upto(q))
    BY <1>2, <2>4, FS_Subset
  <2> QED
    BY <1>2, <2>5
<1>5. place \in Injection(rows, 1 .. n)
  <2>1. place \in [rows -> 1 .. n]
    <3>1. \A r \in rows : Place(r, rows) \in 1 .. n
      <4> SUFFICES ASSUME NEW r \in rows PROVE Place(r, rows) \in 1 .. n
        OBVIOUS
      <4>1. Place(r, rows) <= n /\ Place(r, rows) \in Nat /\ Place(r, rows) # 0
        BY <1>2
      <4> HIDE DEF n
      <4> QED
        BY <1>1, <4>1
    <3> QED
      BY <3>1
  <2>2. ASSUME NEW q \in rows, NEW r \in rows, place[q] = place[r] PROVE q = r
    <3>1. Place(q, rows) = Place(r, rows) /\ Place(q, rows) \in Nat
      BY <1>2, <2>2
    <3>2. ~Before(q, r) /\ ~Before(r, q)
      BY <1>4, <3>1
    <3> QED
      BY <1>3, <3>2
  <2> HIDE DEF place
  <2> QED
    BY <2>1, <2>2, Fun_IsInj
<1>6. IsFiniteSet(1 .. n) /\ Cardinality(1 .. n) = n
  BY <1>1, FS_Interval
<1>7. place \in Surjection(rows, 1 .. n)
  <2> HIDE DEF place
  <2> QED
    BY <1>5, <1>6, FS_Injection
<1>8. PICK r \in rows : place[r] = i
  <2> HIDE DEF place
  <2> QED
    BY <1>7 DEF Surjection
<1> QED
  BY <1>8

LEMMA ResultsTyped ==
    ASSUME Typed, LoggedOnce
    PROVE  Results(log) \in Seq(Int)
<1> DEFINE rows == Resolved(log)
           R == [win |-> 2, loss |-> -1, timeout |-> 0]
<1>1. rows \in SUBSET Row /\ rows \in SUBSET log
  BY DEF Resolved, Taken, Typed, TypeOK
<1>2. \A r \in rows : r.outcome \in {"win", "loss", "timeout"}
  BY <1>1 DEF Resolved, Row, Outcomes
<1> HIDE DEF rows
<1>3. IsFiniteSet(rows) /\ Cardinality(rows) \in Nat
  BY <1>1, FS_Subset, FS_CardinalityType DEF LoggedOnce
<1>4. OneEach(rows)
  BY <1>1 DEF LoggedOnce, OneEach
<1>5. \A i \in 1 .. Cardinality(rows) : RowAt(i, rows) \in rows
  BY <1>1, <1>3, <1>4, EveryPlaceIsTaken DEF RowAt
<1>6. \A i \in 1 .. Cardinality(rows) : R[RowAt(i, rows).outcome] \in Int
  BY <1>2, <1>5
<1>7. Results(log) = [i \in 1 .. Cardinality(rows) |-> R[RowAt(i, rows).outcome]]
  BY DEF Results, rows
<1> HIDE DEF R
<1> QED
  BY <1>3, <1>6, <1>7

\* Whatever was logged, in whatever order: the results in the order of the store are a
\* series of numbers, and the figures reported of it are the worst fall and the longest
\* run of trades below an equity reached before.
THEOREM FiguresAreRight == Spec => []DrawdownIsWorstFall
<1>1. Init => LoggedOnce
  BY FS_EmptySet DEF Init, LoggedOnce, OneEach
<1>2. Typed /\ LoggedOnce => DrawdownIsWorstFall
  BY ResultsTyped, FiguresOfAnySeries DEF DrawdownIsWorstFall
<1> QED
  BY <1>1, <1>2, LoggedOnceNext, TypedInvariant, PTL DEF Spec

=============================================================================
