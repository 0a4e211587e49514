SPECIFICATION FairSpec
CONSTANTS
    MaxRun = 2
    MaxVersion = 2
    MaxRead = 2
    MaxFault = 1
CHECK_DEADLOCK FALSE
INVARIANTS ConsumedOnce OnlyNewestPending
PROPERTIES NoCopyAfterRetract UnconfirmedSettles
