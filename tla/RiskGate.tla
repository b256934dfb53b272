------------------------------ MODULE RiskGate ------------------------------
(***************************************************************************)
(* RiskGate.evaluate (forexml/risk/gate.py): a pure function of a proposal *)
(* and of the portfolio snapshot its caller passes.  Percentages are       *)
(* integers in one small unit.                                             *)
(***************************************************************************)
EXTENDS Integers, Sequences, FiniteSets, FiniteSetsExt

CONSTANTS
    Symbol,
    Groups,           \* correlated_groups, a sequence of sets of symbols
    MaxRiskPerTrade,  \* max_risk_per_trade_pct
    MaxPositions,     \* max_concurrent_positions
    MaxTotalRisk,     \* max_total_risk_pct
    CorrelatedCap,    \* correlated_exposure_cap_pct
    DailyLossLimit,   \* daily_loss_limit_pct
    WeeklyLossLimit   \* weekly_loss_limit_pct

ASSUME GroupAssumption == Groups \in Seq(SUBSET Symbol)
ASSUME LimitsAssumption ==
    {MaxRiskPerTrade, MaxPositions, MaxTotalRisk, CorrelatedCap} \subseteq Nat
    /\ {DailyLossLimit, WeeklyLossLimit} \subseteq Int

Magnitude(x) == IF x < 0 THEN -x ELSE x

\* Sum of risk over a set of open positions, each [id, symbol, risk].
RiskOf(positions) == FoldSet(LAMBDA p, sum : p.risk + sum, 0, positions)

Unclamped(proposed) == proposed    \* faulty variant: the sizer is believed

\* Whatever the sizer proposes, the hard limit bounds it.
Clamped(proposed) == IF proposed < MaxRiskPerTrade THEN proposed ELSE MaxRiskPerTrade

LossLimitByWeek(portfolio) ==      \* faulty variant: only the week is looked at
    portfolio.week <= -Magnitude(WeeklyLossLimit)

LossLimitReached(portfolio) ==
    \/ portfolio.today <= -Magnitude(DailyLossLimit)
    \/ portfolio.week <= -Magnitude(WeeklyLossLimit)

WithoutNewRisk(risk, positions) == RiskOf(positions)    \* faulty variant

BookRisk(risk, positions) == RiskOf(positions) + risk

OwnSymbolRisk(symbol, risk, positions) ==   \* faulty variant: the symbol, not its group
    RiskOf({p \in positions : p.symbol = symbol}) + risk

\* Exposure of the first group that holds the symbol: the loop breaks after it.
CorrelatedRisk(symbol, risk, positions) ==
    LET mine == {i \in DOMAIN Groups : symbol \in Groups[i]}
    IN IF mine = {} THEN 0
       ELSE risk + RiskOf({p \in positions : p.symbol \in Groups[Min(mine)]})

Approves(symbol, proposed, stopDistance, portfolio) ==
    LET risk == Clamped(proposed)
    IN /\ ~LossLimitReached(portfolio)
       /\ Cardinality(portfolio.positions) < MaxPositions
       /\ risk > 0
       /\ BookRisk(risk, portfolio.positions) <= MaxTotalRisk
       /\ CorrelatedRisk(symbol, risk, portfolio.positions) <= CorrelatedCap
       /\ stopDistance > 0

=============================================================================
