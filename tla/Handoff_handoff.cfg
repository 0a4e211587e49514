SPECIFICATION HandoffSpec
CONSTANTS
    Member = {m1, m2}
    Nobody = Nobody
    MaxSave = 1
    MaxRevision = 2
    MaxDownMove = 2
    MaxDownRun = 2
SYMMETRY MemberSymmetry
VIEW LiveView
CHECK_DEADLOCK FALSE
INVARIANTS OneActiveDecision
PROPERTIES ConfirmedByAssignee
