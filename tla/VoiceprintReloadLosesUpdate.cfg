CONSTANTS
    Vids = {v1, v2}
    Subjects = {s1}
    Tasks = {t1, t2}
    None = None
    Disturbances = {"reload"}
    MaxEpoch = 2
    ReuseIds = FALSE
    ManagerMoves = {}
SPECIFICATION Spec
CHECK_DEADLOCK FALSE
SYMMETRY Symmetry
PROPERTY DiskNeverRegresses
