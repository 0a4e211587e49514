SPECIFICATION FairSpec
CONSTANTS
    Run = {1, 2}
    Source <- ResumesFirst
    MaxTwice = 1
    MaxCrash = 1
    MaxFault = 1
    MaxStuck = 1
CHECK_DEADLOCK FALSE
INVARIANTS DoneIsClean SourceSessionKept
PROPERTIES KeptWhileUsed CleanedInTheEnd
