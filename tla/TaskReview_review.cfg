SPECIFICATION Spec
CONSTANTS
    Assignee = {m1, m2}
    Reviewer = {r1}
    MaxMove = 1
    MaxRun = 3
    MaxArtifact = 3
    MaxRound = 2
    MaxCall = 2
SYMMETRY MemberSymmetry
CHECK_DEADLOCK FALSE
INVARIANTS JudgedOnLinked SilenceIsTrue
