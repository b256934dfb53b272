------------------------- MODULE SignalRulesProofs --------------------------
(***************************************************************************)
(* Facts about the rules of SignalRules for every length of day, sessions, *)
(* strategy and window: a time-of-day window is circular, a session level  *)
(* depends on no bar older than a day and a session, and therefore the     *)
(* live loop, which sees a window, evaluates as the backtest, which sees   *)
(* everything.  That level is of the last occurrence to have ended.        *)
(***************************************************************************)
EXTENDS SignalRules, TLAPS

\* The live window holds a day and the longest session the strategy refers to.
WindowSuffices ==
    /\ Window > 0
    /\ \A i \in DOMAIN Conditions :
          Conditions[i].type = "breaks" =>
              Window >= DayLen + Sessions[Conditions[i].session].end
                               - Sessions[Conditions[i].session].start - 1

-----------------------------------------------------------------------------
(* Days and clocks *)

\* A time is its day and its clock.
LEMMA DayAndClock ==
    ASSUME NEW t \in Int
    PROVE  /\ DayOf(t) \in Int
           /\ Clock(t) \in 0..(DayLen - 1)
           /\ t = DayLen * DayOf(t) + Clock(t)
BY DayAssumption DEF DayOf, Clock

\* Bars of one day, or of consecutive days, are as far apart as their clocks say.
LEMMA Distance ==
    ASSUME NEW t \in Int, NEW k \in Int
    PROVE  /\ DayOf(k) = DayOf(t) => t - k = Clock(t) - Clock(k)
           /\ DayOf(k) = DayOf(t) - 1 => t - k = DayLen + Clock(t) - Clock(k)
<1>1. t = DayLen * DayOf(t) + Clock(t) /\ DayOf(t) \in Int /\ Clock(t) \in Int
  BY DayAndClock
<1>2. k = DayLen * DayOf(k) + Clock(k) /\ DayOf(k) \in Int /\ Clock(k) \in Int
  BY DayAndClock
<1>3. DayLen \in Int
  BY DayAssumption
<1>4. DayLen * (DayOf(t) - 1) = DayLen * DayOf(t) - DayLen
  BY <1>1, <1>3
<1>5. DayLen * DayOf(t) \in Int /\ DayLen * DayOf(k) \in Int
  BY <1>1, <1>2, <1>3
<1>6. ASSUME DayOf(k) = DayOf(t) PROVE t - k = Clock(t) - Clock(k)
  <2>1. k = DayLen * DayOf(t) + Clock(k)
    BY <1>2, <1>6
  <2>2. QED
    BY <1>1, <1>2, <1>5, <2>1
<1>7. ASSUME DayOf(k) = DayOf(t) - 1 PROVE t - k = DayLen + Clock(t) - Clock(k)
  <2>1. k = DayLen * DayOf(t) - DayLen + Clock(k)
    BY <1>2, <1>4, <1>7
  <2>2. QED
    BY <1>1, <1>2, <1>3, <1>5, <2>1
<1>8. QED
  BY <1>6, <1>7

\* A multiple of the day shorter than a day is none.
LEMMA NoMultiple ==
    ASSUME NEW m \in Int, -DayLen < DayLen * m, DayLen * m < DayLen
    PROVE  m = 0
<1>1. DayLen \in Int /\ DayLen > 0
  BY DayAssumption
<1>2. ASSUME m >= 1 PROVE FALSE
  <2>1. DayLen * m = DayLen + DayLen * (m - 1)
    BY <1>1
  <2>2. DayLen * (m - 1) >= 0
    BY <1>1, <1>2
  <2>3. DayLen * m \in Int /\ DayLen * (m - 1) \in Int
    BY <1>1
  <2>4. QED
    BY <1>1, <2>1, <2>2, <2>3
<1>3. ASSUME m <= -1 PROVE FALSE
  <2>1. DayLen * m = DayLen * (m + 1) - DayLen
    BY <1>1
  <2>2. DayLen * (-(m + 1)) >= 0
    BY <1>1, <1>3
  <2>3. DayLen * (-(m + 1)) = -(DayLen * (m + 1))
    BY <1>1
  <2>4. DayLen * m \in Int /\ DayLen * (m + 1) \in Int
    BY <1>1
  <2>5. QED
    BY <1>1, <2>1, <2>2, <2>3, <2>4
<1>4. QED
  BY <1>2, <1>3

\* The remainder of a day is the only one.
LEMMA OneClock ==
    ASSUME NEW x \in Int, NEW q \in Int, NEW r \in 0..(DayLen - 1), x = DayLen * q + r
    PROVE  x % DayLen = r
<1>1. DayLen \in Int /\ DayLen > 0
  BY DayAssumption
<1>2. /\ x = DayLen * DayOf(x) + Clock(x)
      /\ DayOf(x) \in Int /\ Clock(x) \in 0..(DayLen - 1)
  BY DayAndClock
<1>3. DayLen * (q - DayOf(x)) = DayLen * q - DayLen * DayOf(x)
  BY <1>1, <1>2
<1>4. DayLen * q \in Int /\ DayLen * DayOf(x) \in Int
  BY <1>1, <1>2
<1>5. DayLen * (q - DayOf(x)) = Clock(x) - r
  BY <1>1, <1>2, <1>3, <1>4
<1>6. -DayLen < Clock(x) - r /\ Clock(x) - r < DayLen
  BY <1>1, <1>2
<1>7. q - DayOf(x) = 0
  BY <1>2, <1>5, <1>6, NoMultiple
<1>8. Clock(x) = r
  BY <1>1, <1>2, <1>4, <1>7
<1>9. QED
  BY <1>8 DEF Clock

\* How long ago, around the clock, it was a given hour.
LEMMA SinceHour ==
    ASSUME NEW t \in Int, NEW h \in 0..(DayLen - 1)
    PROVE  (t - h) % DayLen = IF Clock(t) >= h THEN Clock(t) - h ELSE Clock(t) - h + DayLen
<1>1. DayLen \in Int /\ DayLen > 0
  BY DayAssumption
<1>2. /\ t = DayLen * DayOf(t) + Clock(t)
      /\ DayOf(t) \in Int /\ Clock(t) \in 0..(DayLen - 1)
  BY DayAndClock
<1>3. DayLen * DayOf(t) \in Int
  BY <1>1, <1>2
<1>4. ASSUME Clock(t) >= h PROVE (t - h) % DayLen = Clock(t) - h
  <2>1. Clock(t) - h \in 0..(DayLen - 1) /\ t - h \in Int
    BY <1>1, <1>2, <1>4
  <2>2. t - h = DayLen * DayOf(t) + (Clock(t) - h)
    BY <1>1, <1>2, <1>3
  <2>3. QED
    BY <1>2, <2>1, <2>2, OneClock
<1>5. ASSUME Clock(t) < h PROVE (t - h) % DayLen = Clock(t) - h + DayLen
  <2>1. Clock(t) - h + DayLen \in 0..(DayLen - 1) /\ t - h \in Int
    BY <1>1, <1>2, <1>5
  <2>2. DayLen * (DayOf(t) - 1) = DayLen * DayOf(t) - DayLen
    BY <1>1, <1>2
  <2>3. t - h = DayLen * (DayOf(t) - 1) + (Clock(t) - h + DayLen)
    BY <1>1, <1>2, <1>3, <2>2
  <2>4. DayOf(t) - 1 \in Int
    BY <1>2
  <2>5. QED
    BY <2>1, <2>3, <2>4, OneClock
<1>6. QED
  BY <1>1, <1>2, <1>4, <1>5

-----------------------------------------------------------------------------
\* The bars of a completed session lie before t, at most a day and the session back.
LEMMA SessionIsRecent ==
    ASSUME NEW t \in Nat, NEW s \in DOMAIN Sessions, NEW k \in Int,
           DayOf(k) = CompletedDay(t, s),
           Clock(k) \in Sessions[s].start..(Sessions[s].end - 1)
    PROVE  k < t /\ k >= t - (DayLen + Sessions[s].end - Sessions[s].start - 1)
<1>1. /\ Sessions[s].start \in 0..(DayLen - 1) /\ Sessions[s].end \in 1..(DayLen - 1)
      /\ DayLen \in Nat
  BY DayAssumption
<1>2. Clock(t) \in 0..(DayLen - 1) /\ Clock(k) \in 0..(DayLen - 1)
  BY DayAndClock
<1>3. CASE Clock(t) >= Sessions[s].end
  <2>1. t - k = Clock(t) - Clock(k)
    BY <1>3, Distance DEF CompletedDay
  <2>2. QED
    BY <1>1, <1>2, <1>3, <2>1
<1>4. CASE ~(Clock(t) >= Sessions[s].end)
  <2>1. t - k = DayLen + Clock(t) - Clock(k)
    BY <1>4, Distance DEF CompletedDay
  <2>2. QED
    BY <1>1, <1>2, <1>4, <2>1
<1>5. QED
  BY <1>3, <1>4

\* Levels look neither ahead nor further back than a day and a session.
LEMMA SameSession ==
    ASSUME TypeOK, NEW s \in DOMAIN Sessions,
           Window >= DayLen + Sessions[s].end - Sessions[s].start - 1
    PROVE  SessionBars(WindowBars, now, s) = SessionBars(AllBars, now, s)
<1>1. ASSUME NEW k \in AllBars, DayOf(k) = CompletedDay(now, s),
             Clock(k) \in Sessions[s].start..(Sessions[s].end - 1)
      PROVE  k \in WindowBars
  <2>1. now \in Nat /\ k \in Int
    BY DayAssumption DEF TypeOK, AllBars
  <2>2. k >= now - (DayLen + Sessions[s].end - Sessions[s].start - 1)
    BY <1>1, <2>1, SessionIsRecent
  <2>3. /\ Sessions[s].start \in Int /\ Sessions[s].end \in Int
        /\ DayLen \in Int /\ Window \in Int
    BY DayAssumption
  <2>4. k >= now - Window
    BY <2>1, <2>2, <2>3
  <2>5. QED
    BY <2>4 DEF WindowBars, AllBars
<1>2. WindowBars \subseteq AllBars
  BY DEF WindowBars, AllBars
<1>3. QED
  BY <1>1, <1>2 DEF SessionBars

-----------------------------------------------------------------------------
(* The live loop and the backtest *)

\* At the close of a bar both look at that bar last.
LEMMA SameLatest ==
    ASSUME TypeOK, WindowSuffices, now - 1 \in DOMAIN bars
    PROVE  /\ WindowBars # {} /\ AllBars # {}
           /\ Latest(WindowBars) = Latest(AllBars)
<1>1. now \in Nat /\ Window \in Nat /\ Window > 0
  BY DayAssumption DEF TypeOK, WindowSuffices
<1>2. now - 1 \in WindowBars /\ now - 1 \in AllBars
  BY <1>1 DEF WindowBars, AllBars
<1>3. \A k \in AllBars : k \in Int /\ k <= now - 1
  BY <1>1 DEF TypeOK, AllBars
<1>4. \A k \in WindowBars : k \in Int /\ k <= now - 1
  BY <1>3 DEF WindowBars, AllBars
<1>5. ASSUME NEW S, now - 1 \in S, \A k \in S : k \in Int /\ k <= now - 1
      PROVE  Max(S) = now - 1
  BY <1>5, <1>1 DEF Max
<1>6. Max(WindowBars) = now - 1 /\ Max(AllBars) = now - 1
  BY <1>2, <1>3, <1>4, <1>5
<1>7. QED
  BY <1>2, <1>6 DEF Latest

\* Every condition and every filter answers the two alike.
LEMMA SameAnswers ==
    ASSUME TypeOK, WindowSuffices, now - 1 \in DOMAIN bars, NEW f
    PROVE  /\ MetConditions(WindowBars, now, f) = MetConditions(AllBars, now, f)
           /\ \A i \in DOMAIN Filters :
                 Passes(Filters[i], WindowBars, now, f) <=> Passes(Filters[i], AllBars, now, f)
<1>1. /\ WindowBars # {} /\ AllBars # {}
      /\ Latest(WindowBars) = Latest(AllBars)
  BY SameLatest
<1>2. ASSUME NEW i \in DOMAIN Conditions
      PROVE  Met(Conditions[i], WindowBars, now, f) <=> Met(Conditions[i], AllBars, now, f)
  <2>1. CASE Conditions[i].type = "breaks"
    <3>1. /\ Conditions[i].session \in DOMAIN Sessions
          /\ Window >= DayLen + Sessions[Conditions[i].session].end
                              - Sessions[Conditions[i].session].start - 1
      BY <2>1, ConditionAssumption DEF WindowSuffices
    <3>2. SessionBars(WindowBars, now, Conditions[i].session)
              = SessionBars(AllBars, now, Conditions[i].session)
      BY <3>1, SameSession
    <3>3. Level(WindowBars, now, Conditions[i]) = Level(AllBars, now, Conditions[i])
      BY <3>2 DEF Level
    <3>4. QED
      BY <1>1, <2>1, <3>3 DEF Met, Broken
  <2>2. CASE Conditions[i].type # "breaks"
    BY <2>2 DEF Met
  <2>3. QED
    BY <2>1, <2>2
<1>3. Spiked(WindowBars, f) <=> Spiked(AllBars, f)
  BY <1>1 DEF Spiked
<1>4. QED
  BY <1>2, <1>3 DEF MetConditions, Passes

\* The types of the variables: bars are known by their open time, and only once
\* they have closed.
THEOREM Types == Spec => []TypeOK
<1>1. Init => TypeOK
  BY DayAssumption DEF Init, TypeOK
<1>2. TypeOK /\ [Next]_vars => TypeOK'
  <2> SUFFICES ASSUME TypeOK, [Next]_vars PROVE TypeOK'
    OBVIOUS
  <2>1. CASE Trade
    <3>1. PICK b \in Shapes :
             bars' = [k \in DOMAIN bars \cup {Label(now)} |->
                         IF k = Label(now) THEN b ELSE bars[k]]
      BY <2>1 DEF Trade
    <3>2. now \in Nat /\ now' = now + 1 /\ now' \in 0..Horizon
      BY <2>1, DayAssumption DEF Trade, TypeOK
    <3>3. DOMAIN bars' = DOMAIN bars \cup {now}
      BY <3>1 DEF Label
    <3>4. DOMAIN bars' \subseteq 0..(now' - 1)
      BY <3>2, <3>3 DEF TypeOK
    <3>5. \A k \in DOMAIN bars' : bars'[k] \in Shapes
      BY <3>1 DEF TypeOK
    <3>6. QED
      BY <3>2, <3>4, <3>5 DEF TypeOK
  <2>2. CASE Gap
    BY <2>2, DayAssumption DEF Gap, TypeOK
  <2>3. CASE Rest
    BY <2>3 DEF Rest, vars, TypeOK
  <2>4. CASE UNCHANGED vars
    BY <2>4 DEF vars, TypeOK
  <2>5. QED
    BY <2>1, <2>2, <2>3, <2>4 DEF Next
<1>3. QED
  BY <1>1, <1>2, PTL DEF Spec

\* With a window of a day and a session the live loop's evaluation at the close of
\* a bar is the backtest's (live/loop.py, poll: "identical logic"), for every
\* strategy built from these conditions, filters and exits.
THEOREM LiveIsBacktest == WindowSuffices => (Spec => []SameAsBacktest)
<1> SUFFICES ASSUME WindowSuffices PROVE Spec => []SameAsBacktest
  OBVIOUS
<1>1. TypeOK => SameAsBacktest
  <2> SUFFICES ASSUME TypeOK, now - 1 \in DOMAIN bars, NEW f \in Features
               PROVE  Evaluate(WindowBars, now, f) = Evaluate(AllBars, now, f)
    BY DEF SameAsBacktest
  <2>1. MetConditions(WindowBars, now, f) = MetConditions(AllBars, now, f)
    BY SameAnswers
  <2>2. {i \in DOMAIN Filters : ~Passes(Filters[i], WindowBars, now, f)}
            = {i \in DOMAIN Filters : ~Passes(Filters[i], AllBars, now, f)}
    BY SameAnswers
  <2>3. /\ WindowBars # {} /\ AllBars # {}
        /\ Latest(WindowBars) = Latest(AllBars)
    BY SameLatest
  <2>4. QED
    BY <2>1, <2>2, <2>3, Zenon DEF Evaluate
<1>2. QED
  BY <1>1, Types, PTL

-----------------------------------------------------------------------------
\* A time-of-day filter passes for as many hours from start on as lie between
\* start and end (TimeOfDayFilter.passes), in a day of any length: the wrap past
\* midnight neither adds an hour nor loses one.
THEOREM HoursAreCircular == Spec => []WindowIsCircular
<1>1. TypeOK => WindowIsCircular
  <2> SUFFICES ASSUME TypeOK, NEW start \in 0..(DayLen - 1), NEW end \in 0..(DayLen - 1)
               PROVE  WithinHours(now, start, end)
                          <=> (now - start) % DayLen < (end - start) % DayLen
    BY DEF WindowIsCircular
  <2>1. now \in Int /\ DayLen \in Int /\ start \in Int /\ end \in Int
    BY DayAssumption DEF TypeOK
  <2>2. Clock(now) \in 0..(DayLen - 1)
    BY <2>1, DayAndClock
  <2>3. Clock(end) = end
    <3>1. end = DayLen * 0 + end
      BY <2>1
    <3>2. end % DayLen = end
      BY <2>1, <3>1, OneClock
    <3>3. QED
      BY <3>2 DEF Clock
  <2>4. (end - start) % DayLen = IF end >= start THEN end - start ELSE end - start + DayLen
    BY <2>1, <2>3, SinceHour
  <2>5. (now - start) % DayLen = IF Clock(now) >= start THEN Clock(now) - start
                                                         ELSE Clock(now) - start + DayLen
    BY <2>1, SinceHour
  <2>6. QED
    BY <2>1, <2>2, <2>4, <2>5 DEF WithinHours
<1>2. QED
  BY <1>1, Types, PTL

-----------------------------------------------------------------------------
(* The last occurrence of a session to have ended *)

LEMMA MoreDays ==
    ASSUME NEW m \in Int, NEW n \in Int
    PROVE  /\ DayLen * m \in Int /\ DayLen * n \in Int
           /\ m <= n => DayLen * m <= DayLen * n
           /\ m < n => DayLen * m + DayLen <= DayLen * n
<1>1. DayLen \in Int /\ DayLen > 0
  BY DayAssumption
<1>2. DayLen * m \in Int /\ DayLen * n \in Int
  BY <1>1
<1>3. ASSUME NEW p \in Int, NEW q \in Int, p <= q PROVE DayLen * p <= DayLen * q
  <2>1. DayLen * (q - p) >= 0
    BY <1>1, <1>3
  <2>2. DayLen * (q - p) = DayLen * q - DayLen * p
    BY <1>1
  <2>3. DayLen * q \in Int /\ DayLen * p \in Int
    BY <1>1
  <2> QED
    BY <2>1, <2>2, <2>3
<1>4. ASSUME m < n PROVE DayLen * m + DayLen <= DayLen * n
  <2>1. DayLen * (m + 1) <= DayLen * n
    BY <1>3, <1>4
  <2>2. DayLen * (m + 1) = DayLen * m + DayLen
    BY <1>1
  <2> QED
    BY <2>1, <2>2
<1> QED
  BY <1>2, <1>3, <1>4

\* The day and the clock of a time are the only ones that make it up.
LEMMA OneDay ==
    ASSUME NEW x \in Int, NEW q \in Int, NEW r \in 0..(DayLen - 1), x = DayLen * q + r
    PROVE  DayOf(x) = q /\ Clock(x) = r
<1>1. Clock(x) = r
  BY OneClock DEF Clock
<1>2. x = DayLen * DayOf(x) + r /\ DayOf(x) \in Int
  BY <1>1, DayAndClock
<1>3. DayLen \in Int /\ DayLen > 0 /\ r \in Int
  BY DayAssumption
<1>4. DayLen * q \in Int /\ DayLen * DayOf(x) \in Int
  BY <1>2, MoreDays
<1>5. DayLen * DayOf(x) = DayLen * q
  BY <1>2, <1>3, <1>4
<1>6. ~(DayOf(x) < q) /\ ~(q < DayOf(x))
  BY <1>2, <1>3, <1>4, <1>5, MoreDays
<1> QED
  BY <1>1, <1>2, <1>6

\* Later times are not on earlier days.
LEMMA DaysInOrder ==
    ASSUME NEW x \in Int, NEW y \in Int, x <= y
    PROVE  DayOf(x) <= DayOf(y)
<1>1. /\ x = DayLen * DayOf(x) + Clock(x) /\ DayOf(x) \in Int /\ Clock(x) \in 0..(DayLen - 1)
      /\ y = DayLen * DayOf(y) + Clock(y) /\ DayOf(y) \in Int /\ Clock(y) \in 0..(DayLen - 1)
  BY DayAndClock
<1>2. DayLen \in Int
  BY DayAssumption
<1>3. ASSUME DayOf(y) < DayOf(x) PROVE FALSE
  <2>1. /\ DayLen * DayOf(y) \in Int /\ DayLen * DayOf(x) \in Int
        /\ DayLen * DayOf(y) + DayLen <= DayLen * DayOf(x)
    BY <1>1, <1>3, MoreDays
  <2> QED
    BY <1>1, <1>2, <2>1
<1> QED
  BY <1>1, <1>3

\* When the session s last ended, if it ever has.
LastEnd(t, s) == DayLen * CompletedDay(t, s) + Sessions[s].end

LEMMA LastEndIsLast ==
    ASSUME NEW t \in Nat, NEW s \in DOMAIN Sessions
    PROVE  /\ CompletedDay(t, s) \in Int /\ LastEnd(t, s) \in Int
           /\ Clock(LastEnd(t, s)) = Sessions[s].end /\ LastEnd(t, s) <= t
           /\ DayOf(LastEnd(t, s)) = CompletedDay(t, s)
           /\ \A e \in EndsOf(t, s) : e <= LastEnd(t, s)
<1>1. /\ t = DayLen * DayOf(t) + Clock(t) /\ DayOf(t) \in Int /\ Clock(t) \in 0..(DayLen - 1)
      /\ DayLen * DayOf(t) \in Int
  BY DayAndClock, MoreDays
<1>2. Sessions[s].end \in 1..(DayLen - 1) /\ DayLen \in Int /\ DayLen > 0
  BY DayAssumption
<1>3. CompletedDay(t, s) \in Int
  BY <1>1 DEF CompletedDay
<1>4. DayLen * CompletedDay(t, s) \in Int /\ LastEnd(t, s) \in Int
  BY <1>2, <1>3, MoreDays DEF LastEnd
<1>5. Clock(LastEnd(t, s)) = Sessions[s].end /\ DayOf(LastEnd(t, s)) = CompletedDay(t, s)
  <2>1. Sessions[s].end \in 0..(DayLen - 1)
    BY <1>2
  <2> QED
    BY <1>3, <1>4, <2>1, OneDay DEF LastEnd
<1>6. LastEnd(t, s) <= t
  <2>1. CASE Clock(t) >= Sessions[s].end
    BY <1>1, <1>2, <2>1 DEF LastEnd, CompletedDay
  <2>2. CASE ~(Clock(t) >= Sessions[s].end)
    <3>1. CompletedDay(t, s) = DayOf(t) - 1
      BY <2>2 DEF CompletedDay
    <3>2. DayLen * CompletedDay(t, s) + DayLen <= DayLen * DayOf(t)
      BY <1>1, <1>3, <3>1, MoreDays
    <3> QED
      BY <1>1, <1>2, <1>4, <3>2 DEF LastEnd
  <2> QED
    BY <2>1, <2>2
<1>7. ASSUME NEW e \in EndsOf(t, s) PROVE e <= LastEnd(t, s)
  <2>1. e \in Int /\ e <= t /\ Clock(e) = Sessions[s].end
    BY DEF EndsOf
  <2>2. e = DayLen * DayOf(e) + Sessions[s].end /\ DayOf(e) \in Int /\ DayLen * DayOf(e) \in Int
    BY <2>1, DayAndClock, MoreDays
  <2>3. DayOf(e) <= DayOf(t)
    BY <2>1, DaysInOrder
  <2>4. DayOf(e) <= CompletedDay(t, s)
    <3>1. CASE Clock(t) >= Sessions[s].end
      BY <2>3, <3>1 DEF CompletedDay
    <3>2. CASE ~(Clock(t) >= Sessions[s].end)
      <4>1. DayOf(e) # DayOf(t)
        BY <1>1, <1>2, <2>1, <2>2, <3>2
      <4> QED
        BY <1>1, <2>2, <2>3, <3>2, <4>1 DEF CompletedDay
    <3> QED
      BY <3>1, <3>2
  <2>5. DayLen * DayOf(e) <= DayLen * CompletedDay(t, s)
    BY <1>3, <2>2, <2>4, MoreDays
  <2> QED
    BY <1>2, <1>4, <2>2, <2>5 DEF LastEnd
<1> QED
  BY <1>3, <1>4, <1>5, <1>6, <1>7

\* The bars of that occurrence are the times up to its end, and no others.
LEMMA WholeOccurrence ==
    ASSUME NEW t \in Nat, NEW s \in DOMAIN Sessions, NEW k \in Int
    PROVE  /\ DayOf(k) = CompletedDay(t, s)
           /\ Clock(k) \in Sessions[s].start..(Sessions[s].end - 1)
           <=> k \in (LastEnd(t, s) - Sessions[s].end + Sessions[s].start)..(LastEnd(t, s) - 1)
<1>1. /\ Sessions[s].start \in 0..(DayLen - 1) /\ Sessions[s].end \in 1..(DayLen - 1)
      /\ DayLen \in Int
  BY DayAssumption
<1>2. CompletedDay(t, s) \in Int /\ DayLen * CompletedDay(t, s) \in Int
  BY LastEndIsLast, MoreDays
<1>3. k = DayLen * DayOf(k) + Clock(k) /\ Clock(k) \in 0..(DayLen - 1)
  BY DayAndClock
<1>4. ASSUME DayOf(k) = CompletedDay(t, s), Clock(k) \in Sessions[s].start..(Sessions[s].end - 1)
      PROVE  k \in (LastEnd(t, s) - Sessions[s].end + Sessions[s].start)..(LastEnd(t, s) - 1)
  <2>1. k = DayLen * CompletedDay(t, s) + Clock(k)
    BY <1>3, <1>4
  <2> QED
    BY <1>1, <1>2, <1>3, <1>4, <2>1 DEF LastEnd
<1>5. ASSUME k \in (LastEnd(t, s) - Sessions[s].end + Sessions[s].start)..(LastEnd(t, s) - 1)
      PROVE  /\ DayOf(k) = CompletedDay(t, s)
             /\ Clock(k) \in Sessions[s].start..(Sessions[s].end - 1)
  <2> DEFINE r == k - DayLen * CompletedDay(t, s)
  <2>1. r \in Sessions[s].start..(Sessions[s].end - 1) /\ r \in 0..(DayLen - 1)
    BY <1>1, <1>2, <1>5 DEF LastEnd
  <2>2. k = DayLen * CompletedDay(t, s) + r
    BY <1>2
  <2> HIDE DEF r
  <2>3. DayOf(k) = CompletedDay(t, s) /\ Clock(k) = r
    BY <1>2, <2>1, <2>2, OneDay
  <2> QED
    BY <2>1, <2>3
<1> QED
  BY <1>4, <1>5

LEMMA MaxIsLast ==
    ASSUME NEW S, NEW m \in S, \A x \in S : x \in Int, \A x \in S : x <= m
    PROVE  Max(S) = m
<1>1. m \in S /\ \A y \in S : m >= y
  OBVIOUS
<1>2. ASSUME NEW x \in S, \A y \in S : x >= y PROVE x = m
  <2>1. x >= m /\ x <= m /\ x \in Int /\ m \in Int
    BY <1>2
  <2> QED
    BY <2>1
<1> QED
  BY <1>1, <1>2 DEF Max

\* LevelIsLastCompleted holds in every state (_session_extreme): a session level is
\* the extreme of the whole of the last occurrence to have ended, whatever the length
\* of the day and the hours of the sessions.
THEOREM LevelsAreOfTheLastSession == Spec => []LevelIsLastCompleted
<1>1. ASSUME TypeOK PROVE LevelIsLastCompleted
  <2> SUFFICES ASSUME NEW i \in DOMAIN Conditions, Conditions[i].type = "breaks"
               PROVE  LET c == Conditions[i]
                          ends == EndsOf(now, c.session)
                          whole == IF ends = {} THEN {}
                                   ELSE (Max(ends) - Sessions[c.session].end
                                             + Sessions[c.session].start)..(Max(ends) - 1)
                      IN Level(AllBars, now, c) = Extreme(whole \cap AllBars, c.kind)
    BY DEF LevelIsLastCompleted
  <2> DEFINE c == Conditions[i]
             s == c.session
             ends == EndsOf(now, s)
             last == LastEnd(now, s)
             occurrence == (last - Sessions[s].end + Sessions[s].start)..(last - 1)
  <2>1. s \in DOMAIN Sessions
    BY ConditionAssumption
  <2>2. now \in Nat /\ \A k \in AllBars : k \in Nat
    BY <1>1, DayAssumption DEF TypeOK, AllBars
  <2>3. SessionBars(AllBars, now, s) = occurrence \cap AllBars
    BY <2>1, <2>2, WholeOccurrence DEF SessionBars
  <2>4. /\ CompletedDay(now, s) \in Int /\ last \in Int /\ Clock(last) = Sessions[s].end
        /\ last <= now /\ DayOf(last) = CompletedDay(now, s) /\ \A e \in ends : e <= last
    BY <2>1, <2>2, LastEndIsLast
  <2>5. ends \subseteq Int
    BY DEF EndsOf
  <2>6. last >= 0 => last \in ends
    BY <2>2, <2>4 DEF EndsOf
  <2>7. CASE ends = {}
    <3>1. last < 0
      BY <2>4, <2>6, <2>7
    <3>2. \A k \in occurrence : k < 0
      BY <2>4, <3>1
    <3>3. occurrence \cap AllBars = {}
      BY <2>2, <3>2
    <3> QED
      BY <2>3, <2>7, <3>3 DEF Level
  <2>8. CASE ends # {}
    <3>1. PICK e \in ends : TRUE
      BY <2>8
    <3>2. e >= 0 /\ e <= last /\ e \in Int
      BY <2>2, <2>4, <3>1 DEF EndsOf
    <3>3. last \in ends
      BY <2>4, <2>6, <3>2
    <3>4. Max(ends) = last
      <4> HIDE DEF last, ends
      <4> QED
        BY <2>4, <2>5, <3>3, MaxIsLast
    <3> QED
      BY <2>3, <2>8, <3>4 DEF Level
  <2> QED
    BY <2>7, <2>8
<1> QED
  BY <1>1, Types, PTL

=============================================================================
