SPECIFICATION Spec
CONSTANTS
    DayLen = 4
    Sessions <- TwoSessions
    Shapes <- ThreeShapes
    Conditions <- AsianLow
    Filters <- OvernightAndQuiet
    StopLoss <- OneAtr
    TakeProfit <- TwoR
    SpikeMultiple = 3
    Atrs <- AtrValues
    Regimes <- RegimeValues
    NoValue = NoValue
    Window = 5
    Horizon = 8
INVARIANT TypeOK
INVARIANT LevelIsLastCompleted
INVARIANT SameAsBacktest
INVARIANT WindowIsCircular
