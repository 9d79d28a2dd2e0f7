CONSTANTS
    NumTh = 2
    Fees = {0, 1}
    MaxRounds = 3
    SequentialHost = FALSE
SPECIFICATION Spec
INVARIANT FeesAccounted
CHECK_DEADLOCK FALSE
