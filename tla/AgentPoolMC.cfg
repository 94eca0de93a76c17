SPECIFICATION Spec
CONSTANTS
    Issues = {i1, i2}
    Workers = {w1, w2}
    MaxRepairs = 1
    MaxRecoveries = 2
    MaxRequeues = 1
    MaxInvocations = 2
    MaxAttempts = 2
    MaxFaults = 1
    MaxOperator = 1
    None = None
INVARIANTS LiveIsOwned OneWriterPerClone NoWorkLost WorkersDistinct LeasesMatchAgents
CHECK_DEADLOCK FALSE
