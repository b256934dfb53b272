SPECIFICATION Spec
CONSTANTS
    Signal = {s1, s2, s3, s4}
    NoSignal = NoSignal
    MaxConcurrent = 2
    TimeStop = 4
    Pnl <- Flat
    Modes = {"mt5"}
    Tradeable = {TRUE}
    Faults = {"reject", "stop", "manual"}
    InitialEquity = 10
    MaxCloses = 2
SYMMETRY SignalSymmetry
INVARIANT NoStray
INVARIANT NoOrphan
