SPECIFICATION MCSpec
CONSTANTS
    Digests = {d1, d2, d3}
    PageSize = 1 MaxPages = 4 Depth = 2 MaxTime = 7
    Pulls = {p1, p2, p3}
    p1 = p1 p2 = p2 p3 = p3
    Below <- Stack Accepted <- History
    AuditTime = 5 Hours = 2 Activation = 1 Registered = {p1} Frozen = 3 ByPush = ByPush
SYMMETRY Symmetry
INVARIANTS PlanIsComplete RecentPromotionsPlanned MissedOnlyIfMoved
CHECK_DEADLOCK FALSE
