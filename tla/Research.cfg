CONSTANTS
    Actor = {"trader", "agent"}
    Human = {"trader"}
    Flags <- MCFlags
    LastDay = 4
    Bounds <- MCBounds
SPECIFICATION Spec
INVARIANTS TypeOK TestedOnce DrawdownIsWorstFall
PROPERTIES ReportStable ReportEnds
CHECK_DEADLOCK FALSE
