SPECIFICATION Spec
CONSTANTS
    None = None
    a = a
    b = b
    Issues = {1, 2, 3}
    Improvements = {a, b}
    Capacity = 2
    Frontier = 2
    MaxSlots = 2
    MaxReviews = 2
    MaxPlans = 1
    MaxRetries = 1
    MaxFaults = 1
    BadDeps = FALSE
    ImprovementOf <- Lanes
    KeyPrefixes <- LaneKeys
    Deps <- Chain
INVARIANTS
    CapacityKept
    AcceptedIsMapped
    SlotNotStranded
CHECK_DEADLOCK FALSE
