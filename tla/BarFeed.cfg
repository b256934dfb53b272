SPECIFICATION Spec
CONSTANTS
    BarLen = 2
    Window = 3
    Needed = 2
    Delays = {0, 1}
    Offsets = {0}
    Quarantine = TRUE
    Horizon = 4
INVARIANT TypeOK
INVARIANT FeatureBarsComplete
INVARIANT WindowRepaired
INVARIANT EveryTickExamined
