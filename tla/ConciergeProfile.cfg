CONSTANTS
    Vids = {v1, v2}
    Subjects = {s1}
    None = None
    ProfileTtl = 1
    DiscoveryTtl = 0
    CacheSize = 1
    Withdrawals = {"deleted"}
SPECIFICATION FairProfileSpec
CHECK_DEADLOCK FALSE
INVARIANTS
    ProfileTypeOK
    ReadyWasActive
    SwitchedOffIsSilent
PROPERTIES
    AnswersNeverGoBack
    ActiveBecomesReady
