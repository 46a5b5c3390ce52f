SPECIFICATION EvidenceSpec
CONSTANTS
    m1 = m1 m2 = m2 m3 = m3
    missed = missed nativeOnly = nativeOnly reviewed = reviewed
    idle = idle
    Ordinary <- MCOrdinary
    Serial = {}
    Shards = 2
    Cases = {missed, nativeOnly, reviewed}
    CasesOf <- MCCasesOf
    Unstable = {missed}
    MaySkip = {m2}
    ReviewedModules = {m2}
    Reviewed = {reviewed}
    NativeOnly = {nativeOnly}
    Floor = 0
    RunCases <- OneCase Nested = "nested" Prepared = "prepared" Other = "other"
    MaxSessions = 2 MaxLost = 1
    MaxCommits <- CommitsAfter MaxFaults = 2
INVARIANTS AcceptedMeansAllRun RejectsOnlyTrouble TimingCompleteMeansWhole
    InputsReviewed LastingReviewsStay SkipsStayReviewed
CHECK_DEADLOCK FALSE
