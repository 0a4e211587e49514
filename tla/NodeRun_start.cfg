SPECIFICATION Spec
CONSTANTS
    MaxAttempt = 3
    Followup = {}
    Cancel = {}
    MaxStoreFail = 0
    MaxCrash = 1
CHECK_DEADLOCK FALSE
INVARIANTS OneRuntime PromptedOnce EndingKnown
