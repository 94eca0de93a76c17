SPECIFICATION Spec
CONSTANTS
    Issues = {i1}
    Workers = {w1}
    MaxRepairs = 0
    MaxRecoveries = 2
    MaxRequeues = 1
    MaxInvocations = 1
    MaxAttempts = 2
    MaxFaults = 1
    MaxOperator = 1
    None = None
INVARIANTS AssignedBranchCheckedOut
CHECK_DEADLOCK FALSE
