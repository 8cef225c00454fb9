CONSTANTS
    Vids = {v1, v2}
    Subjects = {s1}
    Tasks = {t1, t2}
    None = None
    Disturbances = {"reload", "writeFault"}
    MaxEpoch = 3
    ReuseIds = FALSE
    ManagerMoves = {}
SPECIFICATION Spec
CHECK_DEADLOCK FALSE
SYMMETRY Symmetry
INVARIANT IInv
PROPERTIES LifecycleIsFollowed FailedPersistLeavesNothing
