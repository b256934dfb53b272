SPECIFICATION FairSpec
CONSTANTS
    Signal = {s1, s2, s3}
    NoSignal = NoSignal
    MaxConcurrent = 2
    TimeStop = 4
    Pnl <- LossOrWin
    Modes = {"simulated", "mt5"}
    Tradeable = {TRUE}
    Faults = {}
    InitialEquity = 10
    MaxCloses = 2
INVARIANT Mirror
INVARIANT EquityMatchesLedger
PROPERTY TimeStopCloses
PROPERTY ImplementsTradeBook
