CONSTANTS
    Gens = {g1}
    Runs = {r1, r2}
    Ops = {o1}
    None = None
    NoConfig = NoConfig
    NoPreference = NoPreference
    s1 = s1
    s2 = s2
    m1 = m1
    m2 = m2
    Samples = {s1, s2}
    WellFormed = {s1, s2}
    SourceOf <- MCSourceOf
    Forms <- MCForms
    Requests <- MCRequests
SPECIFICATION FairOperationSpec
CHECK_DEADLOCK FALSE
INVARIANTS
    OperationTypeOK
    NoAbandonedHistory
    StatusesAgree
    AcceptedFormsLoad
    FormsShowWhatRuns
PROPERTIES
    NoStaleCancel
    AloneRunsReturn
    TerminalIsFinal
    ResultsFindTheirStatus
    CompletedMeetTheConfiguration
    OperationsSettle
