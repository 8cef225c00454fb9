CONSTANTS
    Vids = {v1, v2, v3}
    Subjects = {s1}
    Tasks = {t1, t2}
    None = None
    Disturbances = {"storageFault"}
    MaxEpoch = 1
    ReuseIds = FALSE
    ManagerMoves = {}
SPECIFICATION FairSpec
CHECK_DEADLOCK FALSE
INVARIANTS
    NoStrandedSuccessor
    RecordsHaveArtifacts
    AckIsDurable
PROPERTIES
    SupersessionsSettle
    DiskNeverRegresses
