SPECIFICATION Spec
CONSTANTS
    Procs = {p1, p2}
    NoProc = NoProc
    Cuts = {"torn", "bare"}
    MaxLines = 6
INVARIANTS RunningJournalReplays
