SPECIFICATION Spec
CONSTANTS
    None = None
    a = a
    b = b
    Issues = {1, 2, 3}
    Improvements = {a, b}
    Capacity = 1
    Frontier = 3
    MaxSlots = 1
    MaxReviews = 1
    MaxPlans = 1
    MaxRetries = 0
    MaxFaults = 0
    BadDeps = FALSE
    ImprovementOf <- Two
    KeyPrefixes <- Nested
    Deps <- Apart
INVARIANT SlotNotStranded
CHECK_DEADLOCK FALSE
