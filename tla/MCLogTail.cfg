SPECIFICATION FairSpec
CONSTANTS
    Cap = 2
    MaxLogs = 4
    MaxErrs = 3
    Modes = {"logs", "wait"}
CHECK_DEADLOCK FALSE
INVARIANTS NothingLostOrReordered LogsAreSeenOut
PROPERTIES NothingAfterStop StopReturns EveryLogIsPrinted
