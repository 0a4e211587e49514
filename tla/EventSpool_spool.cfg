SPECIFICATION FairSpec
CONSTANTS
    MaxSeq = 2
    MaxConn = 2
    MaxFail = 2
INVARIANTS NothingLost
PROPERTIES ImplementsLog EventuallyDelivered
