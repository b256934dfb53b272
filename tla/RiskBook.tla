------------------------------ MODULE RiskBook ------------------------------
(***************************************************************************)
(* An account traded through the risk gate: trades are proposed, opened    *)
(* with the risk the gate approved, and closed at a result; days and weeks *)
(* end.  Reporting says what the caller tells the gate about the account:  *)
(*   "account"  the snapshot PortfolioState describes;                     *)
(*   "loop"     what the live loop and the backtest pass: the positions    *)
(*              with risk 0.0, and no realised result.                     *)
(***************************************************************************)
EXTENDS RiskGate

CONSTANTS
    Trade,      \* ids, free again once the trade is closed
    Proposals,  \* percentages a sizer may propose
    Reporting,  \* "account" or "loop"
    MaxOverrun, \* how far beyond its stop the market may close a trade, in percent
    MaxGain     \* bound: no day or week is won beyond this realised result

ASSUME ReportingAssumption == Reporting \in {"account", "loop"}
ASSUME ProposalAssumption == Proposals \subseteq Int /\ MaxGain \in Nat
ASSUME OverrunAssumption == MaxOverrun \in Nat

VARIABLES
    book,   \* open positions, each [id, symbol, risk] with the risk it was opened at
    today,  \* realised result of the day and of the week, in percent
    week

vars == <<book, today, week>>

Position == [id : Trade, symbol : Symbol, risk : 1..MaxRiskPerTrade]

TypeOK ==
    /\ book \subseteq Position
    /\ \A p, q \in book : p.id = q.id => p = q
    /\ today \in Int /\ week \in Int

Init == book = {} /\ today = 0 /\ week = 0

Snapshot == [positions |-> book, today |-> today, week |-> week]

\* live/loop.py and backtest/engine.py: OpenPosition(symbol, 0.0), and no P&L.
LoopSnapshot ==
    [positions |-> {[p EXCEPT !.risk = 0] : p \in book}, today |-> 0, week |-> 0]

Portfolio == IF Reporting = "account" THEN Snapshot ELSE LoopSnapshot

Open ==
    \E t \in Trade, s \in Symbol, proposed \in Proposals, distance \in {0, 1} :
        /\ \A p \in book : p.id # t
        /\ Approves(s, proposed, distance, Portfolio)
        /\ book' = book \cup {[id |-> t, symbol |-> s, risk |-> Clamped(proposed)]}
        /\ UNCHANGED <<today, week>>

\* A trade is closed at the market once a bar has reached its stop, its target or its
\* time: at any result, and beyond the stop as far as a gap, the spread, the slippage
\* and the commission take it.  What was approved as its risk is no bound on its loss.
Close ==
    \E p \in book : \E result \in -(p.risk + MaxOverrun) .. MaxGain :
        /\ today + result <= MaxGain /\ week + result <= MaxGain
        /\ book' = book \ {p}
        /\ today' = today + result
        /\ week' = week + result

NewDay == today' = 0 /\ UNCHANGED <<book, week>>

NewWeek == today' = 0 /\ week' = 0 /\ UNCHANGED book

Next == Open \/ Close \/ NewDay \/ NewWeek

Spec == Init /\ [][Next]_vars

-----------------------------------------------------------------------------
\* What is open together never risks more than the cap on the book.
TotalRiskCapped == RiskOf(book) <= MaxTotalRisk

\* No correlated group is exposed beyond its cap, in whatever order its symbols
\* are traded (the groups of example_limits.yaml are disjoint).
CorrelatedCapped ==
    \A i \in DOMAIN Groups :
        RiskOf({p \in book : p.symbol \in Groups[i]}) <= CorrelatedCap

\* What the open trades lose if each is closed beyond its stop as far as can be.
AtStake(positions) == RiskOf(positions) + Cardinality(positions) * MaxOverrun

\* However entries, exits and new days interleave, and however far beyond their stops
\* trades are closed: a day loses at most the daily limit and what one full book has at
\* stake, a week the weekly limit and as much, also when everything open is lost.
WorstCaseBounded ==
    LET FullBook == MaxTotalRisk + MaxPositions * MaxOverrun
    IN  /\ AtStake(book) - today <= Magnitude(DailyLossLimit) + FullBook
        /\ AtStake(book) - week <= Magnitude(WeeklyLossLimit) + FullBook

=============================================================================
