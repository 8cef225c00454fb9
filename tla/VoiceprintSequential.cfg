CONSTANTS
    Vids = {v1, v2, v3}
    Subjects = {s1}
    Tasks = {t1}
    None = None
    Disturbances = {"crash", "storageFault"}
    MaxEpoch = 2
    ReuseIds = TRUE
    ManagerMoves = {"active", "inactive", "failed"}
SPECIFICATION Spec
CHECK_DEADLOCK FALSE
SYMMETRY Symmetry
INVARIANTS
    SingleActivePerSubject
    RevisionsAreUnique
PROPERTIES
    ImplementsCatalogue
