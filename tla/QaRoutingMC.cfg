SPECIFICATION Spec
CONSTANTS
    Scenarios = {s1, s2}
    Capabilities = {}
    MaxRev = 2
    MaxRuns = 2
    MaxFaults = 0
    MaxOpen = 2
    MaxIssues = 2
    MaxFixCycles = 1
    MaxAttempts = 1
    SrcKeep = 1
    RunsKeep = 0
    Dispositions = {"accepted"}
    None = None
INVARIANT DefectRouted
CHECK_DEADLOCK FALSE
