CONSTANTS
    Vids = {v1, v2}
    Subjects = {s1}
    Tasks = {t1}
    None = None
    Disturbances = {"reload", "crash", "timeout", "storageFault"}
    MaxEpoch = 2
    ReuseIds = FALSE
    ManagerMoves = {}
SPECIFICATION FairSetupSpec
CHECK_DEADLOCK FALSE
INVARIANTS
    SetupTypeOK
    OnlyErasureTakesBytes
    AttributionOutlivesInterruptions
    DegradedByLostGeneration
    MissingBytesStayMissing
PROPERTIES
    ErasureEndsAttribution
