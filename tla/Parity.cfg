SPECIFICATION Spec
CONSTANTS
    MaxConcurrent = 2
    TimeStop = 2
    MaxInterval = 5
INVARIANT TypeOK
INVARIANT SameBook
INVARIANT SameHistory
INVARIANT HeldAtMostTimeStop
