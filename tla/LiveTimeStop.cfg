SPECIFICATION FairSpec
CONSTANTS
    Signal = {s1, s2}
    NoSignal = NoSignal
    MaxConcurrent = 1
    TimeStop = 1
    Pnl <- Flat
    Modes = {"simulated"}
    Tradeable = {TRUE}
    Faults = {"stop"}
    InitialEquity = 10
    MaxCloses = 2
PROPERTY TimeStopCloses
