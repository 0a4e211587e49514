SPECIFICATION Spec
CONSTANTS
    Approval = {a1, a2}
    Message = {m1}
    Start = {s1, s2}
    Worker = {w1, w2}
    Idle = Idle
SYMMETRY Symmetry
ACTION_CONSTRAINT Workload
INVARIANTS WaitingIffOpen OneIdDelivered NoneForgotten RevocationHolds
PROPERTIES ImplementsLifecycle
