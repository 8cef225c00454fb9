CONSTANTS
    Vids = {v1, v2, v3}
    Subjects = {s1}
    Tasks = {t1, t2}
    None = None
    Disturbances = {}
    MaxEpoch = 1
    ReuseIds = FALSE
    ManagerMoves = {}
SPECIFICATION Spec
CHECK_DEADLOCK FALSE
SYMMETRY Symmetry
INVARIANT SingleActivePerSubject
