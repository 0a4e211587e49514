SPECIFICATION FairSpec
CONSTANTS
    MaxAttempt = 2
    Followup = {f1}
    Cancel = {c1, c2}
    MaxStoreFail = 1
    MaxCrash = 1
CHECK_DEADLOCK FALSE
INVARIANTS AcceptedIsWritten
PROPERTIES CancelEnds EndedIsReleased
