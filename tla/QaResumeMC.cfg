SPECIFICATION Spec
CONSTANTS
    Scenarios = {s1}
    Capabilities = {c1}
    MaxRev = 2
    MaxRuns = 3
    MaxFaults = 1
    MaxOpen = 2
    MaxIssues = 1
    MaxFixCycles = 2
    MaxAttempts = 2
    SrcKeep = 1
    RunsKeep = 0
    Dispositions = {"accepted"}
    None = None
CHECK_DEADLOCK FALSE
INVARIANT IngestResumes
