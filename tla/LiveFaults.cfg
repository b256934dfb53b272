SPECIFICATION Spec
CONSTANTS
    Signal = {s1, s2, s3}
    NoSignal = NoSignal
    MaxConcurrent = 2
    TimeStop = 3
    Pnl <- Flat
    Modes = {"simulated", "mt5"}
    Tradeable = {TRUE, FALSE}
    Faults = {"crash", "interrupt", "reject", "unack", "manual"}
    InitialEquity = 10
    MaxCloses = 2
SYMMETRY SignalSymmetry
INVARIANT TypeOK
INVARIANT NothingForgotten
INVARIANT RestartWithinLimit
INVARIANT OutcomeHasClose
INVARIANT TradeIsLogged
