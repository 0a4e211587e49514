SPECIFICATION FairSpec
CONSTANTS
    Evaluation = {1}
    Facts = {f1}
    NoFacts = NoFacts
    Trigger = {t1}
    Reserve = 2
    Actual = 1
    Over = 3
    Limit = 3
    MaxRetries = 0
    MaxFrames = 2
    MaxDown = 1
    MaxDrop = 1
    MaxCrash = 1
    MaxChange = 1
CHECK_DEADLOCK FALSE
PROPERTIES Concludes ResultAcked
