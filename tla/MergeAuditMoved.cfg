SPECIFICATION Spec
CONSTANTS
    p1 = p1 p2 = p2 p3 = p3 
    Pulls = {p1, p2, p3}
    PageSize = 2 Hours = 2 Activation = 1 MaxTime = 5
    Below = {} Registered = {} Accepted = {} Frozen = 0 ByPush = ByPush
SYMMETRY Symmetry
INVARIANT UnreceiptedIsReported
CHECK_DEADLOCK FALSE
