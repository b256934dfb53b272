SPECIFICATION Spec
CONSTANTS
    eurusd = eurusd
    gbpusd = gbpusd
    audusd = audusd
    usdjpy = usdjpy
    Symbol = {eurusd, gbpusd, audusd, usdjpy}
    Groups <- TwoGroups
    MaxRiskPerTrade = 2
    MaxPositions = 3
    MaxTotalRisk = 5
    CorrelatedCap = 3
    DailyLossLimit = 4
    WeeklyLossLimit = 6
    Trade = {t1, t2, t3, t4}
    Proposals <- SizerProposals
    Reporting = "account"
    MaxOverrun = 1
    MaxGain = 2
SYMMETRY TradeSymmetry
INVARIANT TypeOK
INVARIANT TotalRiskCapped
INVARIANT CorrelatedCapped
INVARIANT WorstCaseBounded
