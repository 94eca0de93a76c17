SPECIFICATION Spec
CONSTANTS
    Issues = {i1}
    Workers = {w1, w2}
    MaxRepairs = 0
    MaxRecoveries = 2
    MaxRequeues = 1
    MaxInvocations = 2
    MaxAttempts = 3
    MaxFaults = 1
    MaxOperator = 1
    None = None
INVARIANTS RetryKeepsWork
CHECK_DEADLOCK FALSE
