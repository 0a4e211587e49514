SPECIFICATION FairSpec
CONSTANTS
    Evaluation = {1, 2}
    Worker = {w1}
    MaxVersion = 2
    MaxCrash = 1
CHECK_DEADLOCK FALSE
INVARIANTS Resumable
PROPERTIES CreatedUnderCurrent NoLateStart EndedMandateReaches WaitEnds
