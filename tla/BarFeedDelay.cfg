SPECIFICATION Spec
CONSTANTS
    BarLen = 2
    Window = 2
    Needed = 2
    Delays = {1}
    Offsets = {0}
    Quarantine = FALSE
    Horizon = 3
INVARIANT RuleBarsClosed
