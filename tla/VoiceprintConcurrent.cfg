CONSTANTS
    Vids = {v1, v2, v3}
    Subjects = {s1}
    Tasks = {t1, t2}
    None = None
    Disturbances = {"timeout", "crash"}
    MaxEpoch = 2
    ReuseIds = FALSE
    ManagerMoves = {}
SPECIFICATION Spec
CHECK_DEADLOCK FALSE
SYMMETRY Symmetry
INVARIANTS TypeOK LineageForest SingleActivePerLineage
PROPERTIES ImplementsCatalogue
