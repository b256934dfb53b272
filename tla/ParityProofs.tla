---------------------------- MODULE ParityProofs ----------------------------
(***************************************************************************)
(* The backtest and the live loop are the same strategy, for every limit   *)
(* on open trades, every time stop and however long the market trades.     *)
(*                                                                         *)
(* A trade of one engine is known from the trade of the other: what the    *)
(* backtest keeps is its index in the bars, what the live loop keeps is    *)
(* the time it must be closed at.  While no interval went by without a bar *)
(* the open trades of the one are the image of those of the other          *)
(* (Together), so that both have as much room under the limit and both     *)
(* close the same trades next.                                             *)
(***************************************************************************)
EXTENDS Parity, FiniteSetTheorems, FunctionTheorems, TLAPS

-----------------------------------------------------------------------------
\* The trade of the backtest that a live position stands for, without gaps.
AsTrade(position) == [entry |-> position.entry, index |-> position.entry - 1]

Together ==
    NoGap => /\ backtest = {AsTrade(position) : position \in live}
             /\ backtestPast = livePast
             /\ backtestSignals = liveSignals

\* What the live loop knows of an open position.
Timed ==
    \A position \in live :
        /\ position.stopAt = position.entry + TimeStop
        /\ position.entry <= interval /\ interval < position.stopAt

PastTimed ==
    \A p \in livePast : /\ p.exit - p.entry <= TimeStop
                        /\ p.reason = "time" => p.exit - p.entry = TimeStop

Inv ==
    /\ TypeOK
    /\ bars = 0 => live = {}
    /\ IsFiniteSet(live)
    /\ Timed /\ PastTimed /\ Together

-----------------------------------------------------------------------------
(* One poll *)

LEMMA PollTypes ==
    ASSUME TypeOK, interval < MaxInterval,
           NEW hit, NEW verdict \in Verdict, LivePoll(interval + 1, hit, verdict)
    PROVE  /\ live' \in SUBSET [entry : Interval, stopAt : 0..(MaxInterval + TimeStop)]
           /\ livePast' \subseteq PastTrade /\ liveSignals' \subseteq Interval
<1>1. interval + 1 \in Interval
  BY ParityAssumption DEF TypeOK, Interval
<1>2. LiveKept(hit, interval + 1) \subseteq live /\ LiveExits(hit, interval + 1) \subseteq live
  BY DEF LiveKept, LiveExits
<1>3. live' \in SUBSET [entry : Interval, stopAt : 0..(MaxInterval + TimeStop)]
  <2>1. StopAt(interval + 1) \in 0..(MaxInterval + TimeStop)
    BY <1>1, ParityAssumption DEF StopAt, Interval
  <2>2. [entry |-> interval + 1, stopAt |-> StopAt(interval + 1)]
            \in [entry : Interval, stopAt : 0..(MaxInterval + TimeStop)]
    BY <1>1, <2>1
  <2> QED
    BY <1>2, <2>2 DEF LivePoll, TypeOK
<1>4. \A position \in live : Closed(position, interval + 1, hit) \in PastTrade
  BY <1>1 DEF Closed, PastTrade, ReasonFor, TypeOK
<1> QED
  BY <1>1, <1>2, <1>3, <1>4 DEF LivePoll, TypeOK

LEMMA PollFinite ==
    ASSUME IsFiniteSet(live), NEW t, NEW hit, NEW verdict, LivePoll(t, hit, verdict)
    PROVE  IsFiniteSet(live')
<1>1. LiveKept(hit, t) \subseteq live
  BY DEF LiveKept
<1>2. IsFiniteSet(LiveKept(hit, t))
  BY <1>1, FS_Subset
<1> QED
  BY <1>2, FS_AddElement DEF LivePoll

\* The time stop closes a position at the interval it is due, or the price did.
LEMMA PollTimed ==
    ASSUME TypeOK, Timed, PastTimed, interval < MaxInterval,
           NEW hit, NEW verdict, LivePoll(interval + 1, hit, verdict),
           interval' = interval + 1
    PROVE  Timed' /\ PastTimed'
<1>1. \A position \in LiveKept(hit, interval + 1) :
          position \in live /\ interval + 1 < position.stopAt
  BY DEF LiveKept, LiveExits, LiveTimeStop, TypeOK
<1>2. Timed'
  <2>1. \A position \in LiveKept(hit, interval + 1) :
            /\ position.stopAt = position.entry + TimeStop
            /\ position.entry <= interval' /\ interval' < position.stopAt
    BY <1>1 DEF Timed, TypeOK, Interval
  <2> DEFINE new == [entry |-> interval + 1, stopAt |-> StopAt(interval + 1)]
  <2>2. /\ new.stopAt = new.entry + TimeStop
        /\ new.entry <= interval' /\ interval' < new.stopAt
    BY ParityAssumption DEF StopAt, TypeOK
  <2>3. \A position \in live' : position \in LiveKept(hit, interval + 1) \/ position = new
    BY DEF LivePoll
  <2> HIDE DEF new
  <2> QED
    BY <2>1, <2>2, <2>3 DEF Timed
<1>3. PastTimed'
  <2>1. ASSUME NEW position \in LiveExits(hit, interval + 1)
        PROVE  LET p == Closed(position, interval + 1, hit)
               IN /\ p.exit - p.entry <= TimeStop
                  /\ p.reason = "time" => p.exit - p.entry = TimeStop
    <3>1. position \in live /\ position.entry \in Int /\ interval \in Int /\ TimeStop \in Int
      BY ParityAssumption DEF LiveExits, TypeOK, Interval
    <3>2. /\ position.stopAt = position.entry + TimeStop
          /\ interval < position.stopAt
      BY <3>1 DEF Timed
    <3>3. position.entry \in hit \/ interval + 1 >= position.stopAt
      BY DEF LiveExits, LiveTimeStop
    <3> QED
      BY <3>1, <3>2, <3>3 DEF Closed, ReasonFor
  <2> QED
    BY <2>1 DEF LivePoll, PastTimed
<1> QED
  BY <1>2, <1>3

-----------------------------------------------------------------------------
(* A bar that both engines take *)

LEMMA SameExits ==
    ASSUME TypeOK, Timed, Together, NoGap, NEW hit
    PROVE  /\ BacktestExits(hit, bars) =
                  {AsTrade(position) : position \in LiveExits(hit, interval + 1)}
           /\ BacktestKept(hit, bars) =
                  {AsTrade(position) : position \in LiveKept(hit, interval + 1)}
<1>1. ASSUME NEW position \in live
      PROVE  BacktestTimeStop(AsTrade(position), bars) <=> LiveTimeStop(position, interval + 1)
  <2>1. /\ position.entry \in Int /\ interval \in Int /\ TimeStop \in Int
        /\ position.stopAt = position.entry + TimeStop /\ bars = interval
    BY ParityAssumption DEF TypeOK, Interval, Timed, NoGap
  <2> QED
    BY <2>1 DEF BacktestTimeStop, LiveTimeStop, AsTrade
<1>2. \A position \in live : AsTrade(position).entry = position.entry
  BY DEF AsTrade
<1>3. \A position \in live :
          AsTrade(position) \in BacktestExits(hit, bars)
              <=> position \in LiveExits(hit, interval + 1)
  BY <1>1, <1>2 DEF Together, BacktestExits, LiveExits
<1> QED
  BY <1>3 DEF Together, BacktestExits, BacktestKept, LiveExits, LiveKept

\* Positions that are held at once were opened at different intervals.
LEMMA AsManyKept ==
    ASSUME TypeOK, Timed, IsFiniteSet(live), NEW S \in SUBSET live
    PROVE  Cardinality({AsTrade(position) : position \in S}) = Cardinality(S)
<1> DEFINE image == {AsTrade(position) : position \in S}
           f == [position \in S |-> AsTrade(position)]
<1>1. IsFiniteSet(S)
  BY FS_Subset
<1>2. \A p, q \in S : AsTrade(p) = AsTrade(q) => p = q
  <2> SUFFICES ASSUME NEW p \in S, NEW q \in S, AsTrade(p) = AsTrade(q) PROVE p = q
    OBVIOUS
  <2>1. p.entry = q.entry
    BY DEF AsTrade
  <2>2. p.stopAt = q.stopAt
    BY <2>1 DEF Timed
  <2> QED
    BY <2>1, <2>2 DEF TypeOK
<1>3. f \in Bijection(S, image)
  <2>1. f \in [S -> image] /\ \A t \in image : \E p \in S : f[p] = t
    OBVIOUS
  <2>2. \A p, q \in S : f[p] = f[q] => p = q
    BY <1>2
  <2> HIDE DEF f, image
  <2> QED
    BY <2>1, <2>2, Fun_IsBij
<1> HIDE DEF f, image
<1>4. Cardinality(image) = Cardinality(S)
  BY <1>1, <1>3, FS_Bijection DEF ExistsBijection
<1> QED
  BY <1>4 DEF image

\* One bar, one poll: the same trades closed, and the same trade opened or not.
LEMMA BarTogether ==
    ASSUME Inv, NoGap, interval < MaxInterval,
           NEW hit, NEW verdict \in Verdict,
           Backtest(interval + 1, bars, hit, verdict), LivePoll(interval + 1, hit, verdict)
    PROVE  /\ backtest' = {AsTrade(position) : position \in live'}
           /\ backtestPast' = livePast'
           /\ backtestSignals' = liveSignals'
<1> DEFINE kept == LiveKept(hit, interval + 1)
           new == [entry |-> interval + 1, stopAt |-> StopAt(interval + 1)]
<1>1. BacktestKept(hit, bars) = {AsTrade(position) : position \in kept}
  BY SameExits DEF Inv
<1>2. Cardinality(BacktestKept(hit, bars)) = Cardinality(kept)
  <2>1. kept \in SUBSET live
    BY DEF LiveKept
  <2> HIDE DEF kept
  <2> QED
    BY <1>1, <2>1, AsManyKept DEF Inv
<1>3. AsTrade(new) = [entry |-> interval + 1, index |-> bars]
  BY DEF AsTrade, NoGap, Inv, TypeOK
<1>4. backtest' = {AsTrade(position) : position \in live'}
  <2>1. CASE verdict = "approved" /\ Cardinality(kept) < MaxConcurrent
    <3>1. live' = kept \cup {new}
      BY <2>1 DEF LivePoll, RoomAfterExits
    <3>2. backtest' = BacktestKept(hit, bars) \cup {AsTrade(new)}
      BY <2>1, <1>2, <1>3 DEF Backtest
    <3> HIDE DEF kept, new
    <3> QED
      BY <1>1, <3>1, <3>2
  <2>2. CASE ~(verdict = "approved" /\ Cardinality(kept) < MaxConcurrent)
    <3>1. live' = kept
      BY <2>2 DEF LivePoll, RoomAfterExits
    <3>2. backtest' = BacktestKept(hit, bars)
      BY <2>2, <1>2 DEF Backtest
    <3> HIDE DEF kept
    <3> QED
      BY <1>1, <3>1, <3>2
  <2> QED
    BY <2>1, <2>2
<1>5. backtestPast' = livePast'
  <2>1. BacktestExits(hit, bars) =
            {AsTrade(position) : position \in LiveExits(hit, interval + 1)}
    BY SameExits DEF Inv
  <2>2. \A position : Closed(AsTrade(position), interval + 1, hit)
                          = Closed(position, interval + 1, hit)
    BY DEF Closed, AsTrade
  <2>3. {Closed(trade, interval + 1, hit) : trade \in BacktestExits(hit, bars)} =
            {Closed(position, interval + 1, hit) : position \in LiveExits(hit, interval + 1)}
    BY <2>1, <2>2
  <2> QED
    BY <2>3 DEF Backtest, LivePoll, Inv, Together
<1> QED
  BY <1>4, <1>5 DEF Backtest, LivePoll, Inv, Together

-----------------------------------------------------------------------------
(* The steps *)

LEMMA BacktestTypes ==
    ASSUME TypeOK, interval < MaxInterval,
           NEW hit, NEW verdict \in Verdict, Backtest(interval + 1, bars, hit, verdict)
    PROVE  /\ backtest' \in SUBSET [entry : Interval, index : 0..MaxInterval]
           /\ backtestPast' \subseteq PastTrade /\ backtestSignals' \subseteq Interval
<1>1. interval + 1 \in Interval /\ bars \in 0..MaxInterval
  BY ParityAssumption DEF TypeOK, Interval
<1>2. BacktestKept(hit, bars) \subseteq backtest /\ BacktestExits(hit, bars) \subseteq backtest
  BY DEF BacktestKept, BacktestExits
<1>3. backtest' \in SUBSET [entry : Interval, index : 0..MaxInterval]
  <2>1. [entry |-> interval + 1, index |-> bars] \in [entry : Interval, index : 0..MaxInterval]
    BY <1>1
  <2> QED
    BY <1>2, <2>1 DEF Backtest, TypeOK
<1>4. \A trade \in backtest : Closed(trade, interval + 1, hit) \in PastTrade
  BY <1>1 DEF Closed, PastTrade, ReasonFor, TypeOK
<1> QED
  BY <1>1, <1>2, <1>3, <1>4 DEF Backtest, TypeOK

LEMMA InitInv == Init => Inv
<1> SUFFICES ASSUME Init PROVE Inv
  OBVIOUS
<1>1. TypeOK
  BY ParityAssumption DEF Init, TypeOK
<1>2. IsFiniteSet(live)
  BY FS_EmptySet DEF Init
<1>3. Timed /\ PastTimed /\ Together
  BY DEF Init, Timed, PastTimed, Together
<1> QED
  BY <1>1, <1>2, <1>3 DEF Init, Inv

LEMMA NewBarInv == ASSUME Inv, NewBar PROVE Inv'
<1>1. PICK hit \in SUBSET (1..interval), verdict \in Verdict :
          /\ Backtest(interval + 1, bars, hit, verdict)
          /\ LivePoll(interval + 1, hit, verdict)
  BY DEF NewBar
<1>2. /\ interval < MaxInterval /\ interval' = interval + 1 /\ bars' = bars + 1
      /\ barAt' = interval + 1 /\ interval \in Nat /\ bars \in Nat /\ bars <= interval
  BY DEF NewBar, Inv, TypeOK
<1>3. TypeOK'
  <2>1. interval' \in 0..MaxInterval /\ bars' \in 0..interval' /\ barAt' \in 0..interval'
    BY <1>2, ParityAssumption DEF Inv, TypeOK
  <2> QED
    BY <1>1, <1>2, <2>1, PollTypes, BacktestTypes DEF Inv, TypeOK
<1>4. IsFiniteSet(live')
  BY <1>1, PollFinite DEF Inv
<1>5. Timed' /\ PastTimed'
  BY <1>1, <1>2, PollTimed DEF Inv
<1>6. Together'
  <2> SUFFICES ASSUME NoGap' PROVE Together'
    BY DEF Together
  <2>1. NoGap
    BY <1>2 DEF NoGap
  <2> QED
    BY <1>1, <1>2, <2>1, BarTogether DEF Together
<1> QED
  BY <1>2, <1>3, <1>4, <1>5, <1>6 DEF Inv

LEMMA NoBarInv == ASSUME Inv, NoBar PROVE Inv'
<1>1. /\ interval < MaxInterval /\ interval' = interval + 1
      /\ UNCHANGED <<bars, barAt, backtest, backtestPast, backtestSignals>>
      /\ interval \in Nat /\ bars \in Nat /\ bars <= interval
  BY DEF NoBar, Inv, TypeOK
<1>2. Together'
  BY <1>1 DEF Together, NoGap
<1>3. interval' \in 0..MaxInterval /\ bars' \in 0..interval' /\ barAt' \in 0..interval'
  BY <1>1, ParityAssumption DEF Inv, TypeOK
<1>4. CASE bars = 0
  <2>1. live = {} /\ UNCHANGED <<live, livePast, liveSignals>>
    BY <1>4 DEF NoBar, Inv
  <2>2. TypeOK'
    BY <1>1, <1>3, <2>1 DEF Inv, TypeOK
  <2> QED
    BY <1>1, <1>2, <2>1, <2>2 DEF Inv, Timed, PastTimed
<1>5. CASE bars # 0
  <2>1. PICK hit \in SUBSET (barAt..interval), verdict \in Verdict :
            LivePoll(interval + 1, hit, verdict)
    BY <1>5 DEF NoBar
  <2>2. TypeOK'
    BY <1>1, <1>3, <2>1, PollTypes DEF Inv, TypeOK
  <2>3. IsFiniteSet(live')
    BY <2>1, PollFinite DEF Inv
  <2>4. Timed' /\ PastTimed'
    BY <1>1, <2>1, PollTimed DEF Inv
  <2> QED
    BY <1>1, <1>2, <1>5, <2>2, <2>3, <2>4 DEF Inv
<1> QED
  BY <1>4, <1>5

LEMMA NextInv == Inv /\ [Next]_vars => Inv'
<1> SUFFICES ASSUME Inv, [Next]_vars PROVE Inv'
  OBVIOUS
<1>1. CASE NewBar
  BY <1>1, NewBarInv
<1>2. CASE NoBar
  BY <1>2, NoBarInv
<1>3. CASE UNCHANGED vars
  BY <1>3 DEF vars, Inv, TypeOK, Timed, PastTimed, Together, NoGap
<1> QED
  BY <1>1, <1>2, <1>3 DEF Next, Rest

LEMMA AlwaysInv == Spec => []Inv
BY InitInv, NextInv, PTL DEF Spec

-----------------------------------------------------------------------------
\* The types of the two engines' books: every trade is dated in the intervals
\* that went by, and its time stop falls due by MaxInterval + TimeStop.
THEOREM TypeCorrect == Spec => []TypeOK
<1>1. Inv => TypeOK
  BY DEF Inv
<1> QED
  BY <1>1, AlwaysInv, PTL

\* engine.py:3 "the same code path a paper or live loop would use": as long as
\* every interval has its bar, the open trades of the engines are the same.
THEOREM BacktestIsTheLiveBook == Spec => []SameBook
<1>1. ASSUME Inv PROVE SameBook
  <2> SUFFICES ASSUME NoGap PROVE Entries(backtest) = Entries(live)
    BY DEF SameBook
  <2>1. backtest = {AsTrade(position) : position \in live}
    BY <1>1 DEF Inv, Together
  <2>2. \A position \in live : AsTrade(position).entry = position.entry
    BY DEF AsTrade
  <2> QED
    BY <2>1, <2>2 DEF Entries
<1> QED
  BY <1>1, AlwaysInv, PTL

\* ... and so are the trades they have closed, with the reason, and the signals
\* they have published.
THEOREM BacktestIsTheLiveHistory == Spec => []SameHistory
<1>1. Inv => SameHistory
  BY DEF Inv, Together, SameHistory
<1> QED
  BY <1>1, AlwaysInv, PTL

\* The live loop's time stop, with or without bars: no position is held longer,
\* and one closed for its age is of that age exactly.
THEOREM TimeStopIsExact == Spec => []HeldAtMostTimeStop
<1>1. ASSUME Inv PROVE HeldAtMostTimeStop
  <2>1. \A position \in live : interval - position.entry < TimeStop
    <3> SUFFICES ASSUME NEW position \in live PROVE interval - position.entry < TimeStop
      OBVIOUS
    <3>1. /\ position.entry \in Int /\ interval \in Int /\ TimeStop \in Int
          /\ position.stopAt = position.entry + TimeStop /\ interval < position.stopAt
      BY <1>1, ParityAssumption DEF Inv, TypeOK, Interval, Timed
    <3> QED
      BY <3>1
  <2> QED
    BY <1>1, <2>1 DEF Inv, PastTimed, HeldAtMostTimeStop
<1> QED
  BY <1>1, AlwaysInv, PTL

=============================================================================
