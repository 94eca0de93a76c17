SPECIFICATION Spec
CONSTANTS
    Issues = {i1}
    Workers = {w1, w2}
    MaxRepairs = 1
    MaxRecoveries = 2
    MaxRequeues = 1
    MaxInvocations = 3
    MaxAttempts = 3
    MaxFaults = 2
    MaxOperator = 0
    None = None
INVARIANTS InterruptedLaunchParks
CHECK_DEADLOCK FALSE
