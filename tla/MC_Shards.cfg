CONSTANTS
    NumTh = 2
    Fees = {0, 1}
    MaxRounds = 3
    SequentialHost = TRUE
SPECIFICATION Spec
INVARIANT TypeOK FeesAccounted HandlersDelivered BridgeCallsFollowResults
CHECK_DEADLOCK FALSE
