--------------------------------- MODULE QaChain ---------------------------------
(***************************************************************************)
(* The chain from a reproduced defect to a verified fix: the QA lane and the *)
(* findings lane, joined by a relay that carries reports one way, and the    *)
(* verification queue and the revisions of main the other, each when it gets *)
(* to it.  The relay is a script outside the repository.                     *)
(***************************************************************************)
EXTENDS Findings, QaLane

VARIABLE pulled     \* reports the relay has delivered

vars == <<main, faults, pulled, findingVars, laneVars>>

Init ==
    /\ main = 1 /\ faults = 0 /\ pulled = {}
    /\ FindingsInit /\ LaneInit

\* External: a report is dropped into the inbox; a second copy is a fault.
Pull(i) ==
    /\ reports[i] # None /\ reports[i] \notin inbox
    /\ inbox' = inbox \union {reports[i]} /\ pulled' = pulled \union {i}
    /\ faults' = faults + (IF i \in pulled THEN 1 ELSE 0) /\ faults' <= MaxFaults
    /\ UNCHANGED <<main, finding, gh, stash, candidate, row, queue, sup, laneVars>>

\* External: the queue file reaches the lane.
PushQueue ==
    /\ items # queue /\ items' = queue
    /\ UNCHANGED <<main, faults, pulled, findingVars, runs, reports, marks, mirror, staged, dirs,
                   pins, own, rig, lane>>

\* External: a new revision is mirrored, staged and enqueued.
PushRevision ==
    /\ mirror < main /\ mirror' = main
    /\ staged' = staged \union {main}
    /\ runs' = Enqueue(runs, main, 1)
    /\ UNCHANGED <<main, faults, pulled, findingVars, reports, items, marks, dirs,
                   pins, own, rig, lane>>

Next ==
    \/ FindingsNext /\ UNCHANGED <<laneVars, pulled>>
    \/ LaneNext /\ UNCHANGED <<findingVars, pulled>>
    \/ \E i \in 1 .. MaxRuns : Pull(i)
    \/ PushQueue \/ PushRevision

\* The supervisor polls for ever and the relay's timer fetches every report.
Fairness ==
    /\ WF_vars(Poll /\ UNCHANGED <<laneVars, pulled>>)
    /\ \A i \in 1 .. MaxRuns : WF_vars(i \notin pulled /\ Pull(i))

Spec == Init /\ [][Next]_vars /\ Fairness

-------------------------------------------------------------------------------
\* merged does not mean verified: a finding is verified only by a replay of its
\* own case that passed, with evidence of it, on a revision holding the fix it was
\* waiting for.
CertifiedByReplay ==
    \A k \in Keys : finding[k].status = "verified" =>
        \E i \in DOMAIN runs : /\ runs[i].kind = "qav" /\ runs[i].verdict = Proof("passed", TRUE)
                               /\ runs[i].item = [key |-> k, fix |-> finding[k].fix]
                               /\ Includes(runs[i].sha, finding[k].fix)

\* Whatever crashes and repeats between GitHub and the database, a defect has
\* one issue per fix cycle and no more cycles than max_fix_cycles.
OneIssuePerCycle ==
    \A k \in Keys : /\ Len(gh[k]) <= MaxFixCycles
                    /\ \A i, j \in DOMAIN gh[k] : gh[k][i].n = gh[k][j].n => i = j

\* Containers of two runs are never on the host together.
OneRig == Cardinality(rig) <= 1

\* The directory and the source of a verification that ran are kept as long as
\* the lane sees its item pending.
PendingEvidenceKept ==
    \A i \in DOMAIN runs :
        runs[i].kind = "qav" /\ runs[i].status # "queued" /\ runs[i].item \in items =>
            i \in dirs /\ runs[i].sha \in staged

\* A verdict that the lane has reported with its evidence moves the finding that
\* waits for it, whatever dies or fails on the way (apply_verification,
\* retry_verifications).
Awaits(k, fix) == finding[k].status = "fix-merged" /\ finding[k].fix = fix

Settles(i, k, fix) ==
    LET e == reports[i].verification
    IN  /\ runs[i].status = "finished"
        /\ e # None /\ e.contained /\ e.outcome # "inconclusive" /\ e.evidence
        /\ e.key = k /\ e.fix = fix

VerdictApplied ==
    \A k \in Scenarios, fix \in 2 .. MaxRev :
        (\E i \in DOMAIN runs : Settles(i, k, fix)) /\ Awaits(k, fix) ~> ~Awaits(k, fix)

\* "Anything less stays pending" (docs/qa-findings-ingestion.md): a finding stops
\* waiting for its fix only when its own case was replayed on a revision holding
\* the fix, and passed or failed with evidence.
PendingStep ==
    \A k \in Keys, fix \in Revisions :
        Awaits(k, fix) /\ ~Awaits(k, fix)' =>
            \E i \in DOMAIN runs :
                /\ runs[i].kind = "qav" /\ runs[i].item = [key |-> k, fix |-> fix]
                /\ runs[i].verdict \in {Proof("passed", TRUE), Proof("failed", TRUE)}
                /\ Includes(runs[i].sha, fix)
LessStaysPending == [][PendingStep]_vars

\* docs/qa-findings-ingestion.md:77, the route of a defect is a "Managed issue" and
\* only infrastructure is an "Operational record": a finding that a completed and
\* ingested report shows as a defect is not filed as the rig's fault.
DefectRouted ==
    \A i \in DOMAIN runs, k \in Scenarios :
        row[i] = "done" /\ Completed(reports[i]) /\ reports[i].cases[k] = "failed" =>
            finding[k].status # "infra"

\* ingest_report's docstring: "every step below is idempotent", "the pass resumes
\* and finishes": a finding of an ingested report that has the status of an open
\* issue knows which issue it is.
IngestResumes ==
    \A i \in DOMAIN runs, k \in Scenarios :
        row[i] = "done" /\ finding[k].status = "issue-open" => finding[k].issue # 0
================================================================================
