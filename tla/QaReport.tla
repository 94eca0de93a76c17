-------------------------------- MODULE QaReport --------------------------------
(***************************************************************************)
(* What the QA lane on the rig host and the findings lane of the supervisor *)
(* share: the revisions of main, the report of a run (qa_lane/report.py)    *)
(* and the findings the supervisor derives from it.                          *)
(***************************************************************************)
EXTENDS Integers, Sequences, FiniteSets

CONSTANTS
    Scenarios,      \* keys of the deterministic cases
    Capabilities,   \* keys of the configured capability limitations
    MaxRev,         \* bound: revisions of main
    MaxRuns,        \* bound: run records of the lane
    MaxFaults,      \* bound: crashes and failed calls
    None

ASSUME QaAssumption ==
    /\ MaxRev \in Nat \ {0} /\ MaxRuns \in Nat /\ MaxFaults \in Nat
    /\ Scenarios \intersect Capabilities = {} /\ None \notin Scenarios \union Capabilities
    /\ None \notin [outcome : {"passed", "failed", "inconclusive"}, evidence : BOOLEAN]

VARIABLES
    main,           \* the newest revision of main; 1 .. main exist
    faults

Keys == Scenarios \union Capabilities
Revisions == 1 .. MaxRev
Outcomes == {"passed", "failed", "inconclusive"}

\* git merge-base --is-ancestor on main, which only grows.
Includes(tested, fix) == fix <= tested

\* What a replay shows: its case's outcome, and whether it captured evidence.
Proof(outcome, evidence) == [outcome |-> outcome, evidence |-> evidence]

NoCases == [k \in Scenarios |-> "absent"]

\* The outcome of an assessment from the outcomes of its cases.
Overall(cases) ==
    IF \A k \in Scenarios : cases[k] = "passed" THEN "passed"
    ELSE IF \E k \in Scenarios : cases[k] = "failed" THEN "failed" ELSE "inconclusive"

\* adapt_report: only a run with a verdict is a completed assessment.
Completed(r) == r.outcome \in {"passed", "failed"}

\* derive_findings: the limitations and every case that did not pass; a failed
\* case is a defect, any other rig-side.
FindingsOf(r) == Capabilities \union {k \in Scenarios : r.cases[k] \in {"failed", "inconclusive"}}

KindOf(r, k) ==
    IF k \in Capabilities THEN "capability"
    ELSE IF r.cases[k] = "failed" THEN "defect" ELSE "infrastructure"
================================================================================
