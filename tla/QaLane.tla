--------------------------------- MODULE QaLane ---------------------------------
(***************************************************************************)
(* The QA lane on the rig host (qa_lane/runner.py, verify.py, state.py): a   *)
(* timer starts cycles, one at a time; a cycle reaps what a dead one left,   *)
(* reclaims storage, picks a verification or the newest queued assessment    *)
(* and runs it on the rig.  A cycle may die between any two commits.         *)
(*                                                                          *)
(* Exploratory runs, the images and caches that reclaim bounds by size, and  *)
(* the daily budget of assessments are not modelled.                         *)
(***************************************************************************)
EXTENDS QaReport, SequencesExt

CONSTANTS
    MaxAttempts,    \* max_attempts_per_sha
    SrcKeep,        \* src_keep
    RunsKeep        \* runs_keep

ASSUME LaneAssumption ==
    MaxAttempts \in Nat \ {0} /\ SrcKeep \in Nat /\ RunsKeep \in Nat

VARIABLES
    runs,           \* the run records, in order of creation
    reports,        \* reports/<id>.json
    items,          \* verifications.json as the relay last pushed it
    marks,          \* verification:reported
    mirror,         \* the bare mirror holds the revisions 1 .. mirror
    staged,         \* revisions whose source is staged
    dirs,           \* runs with a run directory
    pins,           \* preserve: pinned runs and revisions
    own,            \* verification:pins, those this lane took
    rig,            \* runs with containers or networks on the host
    lane            \* the cycle: where it is, its run, the report it writes

laneVars == <<runs, reports, items, marks, mirror, staged, dirs, pins, own, rig, lane>>

Idle == [at |-> "idle", run |-> 0, report |-> None]
NoPins == [runs |-> {}, shas |-> {}]

LaneInit ==
    /\ runs = <<>> /\ reports = [i \in 1 .. MaxRuns |-> None]
    /\ items = {} /\ marks = [k \in Scenarios |-> None]
    /\ mirror = 0 /\ staged = {} /\ dirs = {}
    /\ pins = NoPins /\ own = NoPins
    /\ rig = {} /\ lane = Idle

-------------------------------------------------------------------------------
(* Run records.                                                              *)

Record(kind, sha, attempt, item, contained) ==
    [kind |-> kind, sha |-> sha, status |-> "queued", outcome |-> None, attempt |-> attempt,
     item |-> item, contained |-> contained, report |-> FALSE, verdict |-> None]

Ids(rs, kind, statuses) == {i \in DOMAIN rs : rs[i].kind = kind /\ rs[i].status \in statuses}
Newest(ids) == IF ids = {} THEN 0 ELSE CHOOSE i \in ids : \A j \in ids : j <= i

\* enqueue: a no-op for a revision in flight; supersedes the queued ones.
Enqueue(rs, sha, attempt) ==
    IF (\E i \in Ids(rs, "qa", {"queued", "running"}) : rs[i].sha = sha) \/ Len(rs) = MaxRuns
    THEN rs
    ELSE Append([i \in DOMAIN rs |-> IF i \in Ids(rs, "qa", {"queued"})
                                     THEN [rs[i] EXCEPT !.status = "superseded"] ELSE rs[i]],
                Record("qa", sha, attempt, None, FALSE))

\* _target_sha: the newest queued assessment's revision, else the last attempted.
LastAttempted(rs) ==
    Newest({i \in Ids(rs, "qa", {"queued", "running", "finished", "interrupted"}) :
                rs[i].outcome # "blocked"})
TargetSha(rs) ==
    LET q == Newest(Ids(rs, "qa", {"queued"}))
        i == IF q # 0 THEN q ELSE LastAttempted(rs)
    IN  IF i = 0 THEN 0 ELSE rs[i].sha

\* _maybe_retry: an inconclusive assessment is queued again, within its attempts.
Attempts(rs, sha) ==
    LET ran == {i \in DOMAIN rs : rs[i].sha = sha /\ rs[i].status \in {"running", "finished", "interrupted"}}
    IN  IF ran = {} THEN 0 ELSE CHOOSE n \in {rs[i].attempt : i \in ran} : \A i \in ran : rs[i].attempt <= n

MaybeRetry(rs) ==
    LET i == Newest(Ids(rs, "qa", {"finished"}))
    IN  IF i = 0 THEN rs
        ELSE IF rs[i].outcome # "inconclusive" \/ Ids(rs, "qa", {"queued"}) # {} THEN rs
        ELSE IF Attempts(rs, rs[i].sha) >= MaxAttempts THEN rs
        ELSE Enqueue(rs, rs[i].sha, Attempts(rs, rs[i].sha) + 1)

-------------------------------------------------------------------------------
(* The head of a cycle.                                                      *)

Report(i, outcome, cases, verification) ==
    [id |-> i, kind |-> runs[i].kind, sha |-> runs[i].sha, outcome |-> outcome,
     cases |-> cases, verification |-> verification]

\* sync_preserves: what this lane wants pinned while items are pending.
Wanted(rs) ==
    LET pending == {item.key : item \in items}
        target == IF pending = {} \/ TargetSha(rs) = 0 THEN {} ELSE {TargetSha(rs)}
        marked == {marks[k].tested : k \in {j \in pending : marks[j] # None}}
        wanted == {i \in DOMAIN rs : rs[i].kind = "qav" /\ rs[i].item.key \in pending}
    IN  [runs |-> wanted, shas |-> target \union marked \union {rs[i].sha : i \in wanted}]

Interrupted(i) == Report(i, "interrupted", NoCases, None)

Repin(set, had, want) == (set \union (want \ had)) \ (had \ want)

\* reconcile: every running record is a dead cycle's; it is interrupted and
\* reported, its containers are removed as far as docker obeys.  The pass may
\* die once the records are interrupted.  Then the pins follow the items.
CycleStart(left, died) ==
    LET dead == {i \in DOMAIN runs : runs[i].status = "running"}
        want == Wanted(runs')
    IN  /\ lane.at = "idle"
        /\ left \subseteq rig /\ (died => dead # {} /\ left = rig)
        /\ runs' = [i \in DOMAIN runs |-> IF i \in dead
                      THEN [runs[i] EXCEPT !.status = "interrupted", !.outcome = "interrupted",
                                           !.report = ~died]
                      ELSE runs[i]]
        /\ IF died THEN UNCHANGED <<reports, rig, pins, own, lane>>
           ELSE /\ reports' = [i \in 1 .. MaxRuns |-> IF i \in dead
                                 THEN Interrupted(i) ELSE reports[i]]
                /\ rig' = left
                /\ pins' = [runs |-> Repin(pins.runs, own.runs, want.runs),
                            shas |-> Repin(pins.shas, own.shas, want.shas)]
                /\ own' = want
                /\ lane' = [lane EXCEPT !.at = "reclaim"]
        /\ faults' = faults + (IF died THEN 1 ELSE 0) /\ faults' <= MaxFaults
        /\ UNCHANGED <<items, marks, mirror, staged, dirs, main>>

\* reclaim: the sources and run directories nothing refers to, without the pins.
Active == {i \in DOMAIN runs : runs[i].status \in {"queued", "running"}}
RecentShas ==
    LET shas == {runs[i].sha : i \in DOMAIN runs}
        last(s) == Newest({i \in DOMAIN runs : runs[i].sha = s})
    IN  {s \in shas : Cardinality({t \in shas : last(t) > last(s)}) < SrcKeep}
Unfinished == {i \in DOMAIN runs : ~runs[i].report /\ runs[i].status # "superseded"}
RecentRuns(kept) ==
    LET ended == {i \in DOMAIN runs : runs[i].status \in {"finished", "interrupted"}} \ kept
    IN  {i \in ended : Cardinality({j \in ended : j > i}) < RunsKeep}

KeptShas == {runs[i].sha : i \in Active} \union pins.shas \union RecentShas
\* Mutant: the pinned runs are not spared.
KeptRunsUnpinned ==
    LET kept == Active \union Unfinished
    IN  kept \union RecentRuns(kept)
KeptRuns ==
    LET kept == Active \union pins.runs \union Unfinished
    IN  kept \union RecentRuns(kept)

Reclaim ==
    /\ lane.at = "reclaim"
    /\ staged' = staged \intersect KeptShas
    /\ dirs' = dirs \intersect KeptRuns
    /\ runs' = MaybeRetry(runs)
    /\ lane' = [lane EXCEPT !.at = "dispatch"]
    /\ UNCHANGED <<reports, items, marks, mirror, pins, own, rig, faults, main>>

-------------------------------------------------------------------------------
(* Dispatch.                                                                 *)

\* ownership_block: leftovers on the host refuse every new run.
OwnershipBlockNever == FALSE      \* mutant
OwnershipBlock == rig # {} \/ \E i \in DOMAIN runs : runs[i].status = "running"

CycleBlocked ==
    /\ lane.at = "dispatch" /\ OwnershipBlock
    /\ lane' = Idle
    /\ UNCHANGED <<runs, reports, items, marks, mirror, staged, dirs, pins, own, rig, faults, main>>

\* verify.next_run: items whose verdict on the target is not reported yet and
\* whose ancestry the mirror can answer.
Due ==
    LET target == TargetSha(runs)
        settled(item) ==
            LET mark == marks[item.key]
            IN  /\ mark # None
                /\ mark.fix = item.fix /\ mark.tested = target
                /\ mark.outcome = "inconclusive" => mark.attempts >= MaxAttempts
    IN  {item \in items : /\ target \in staged /\ target <= mirror /\ item.fix <= mirror
                          /\ ~settled(item)}

Begin(rs, i) == [rs EXCEPT ![i].status = "running"]

\* The egress gate may refuse: the queued record stays behind.
DispatchVerification(item, egress) ==
    LET target == TargetSha(runs)
        rs == Append(runs, Record("qav", target, 1, item, Includes(target, item.fix)))
    IN  /\ lane.at = "dispatch" /\ ~OwnershipBlock /\ item \in Due /\ Len(runs) < MaxRuns
        /\ runs' = IF egress THEN Begin(rs, Len(rs)) ELSE rs
        /\ dirs' = IF egress THEN dirs \union {Len(rs)} ELSE dirs
        /\ lane' = IF egress THEN [lane EXCEPT !.at = "run", !.run = Len(rs)] ELSE Idle
        /\ faults' = faults + (IF egress THEN 0 ELSE 1) /\ faults' <= MaxFaults
        /\ UNCHANGED <<reports, items, marks, mirror, staged, pins, own, rig, main>>

DispatchAssessment(egress) ==
    LET i == Newest(Ids(runs, "qa", {"queued"}))
    IN  /\ lane.at = "dispatch" /\ ~OwnershipBlock /\ (Due = {} \/ Len(runs) = MaxRuns)
        /\ IF i = 0 \/ ~egress
           THEN lane' = Idle /\ UNCHANGED <<runs, dirs>>
           ELSE /\ runs' = Begin(runs, i) /\ dirs' = dirs \union {i}
                /\ lane' = [lane EXCEPT !.at = "run", !.run = i]
        /\ faults' = faults + (IF egress THEN 0 ELSE 1) /\ faults' <= MaxFaults
        /\ UNCHANGED <<reports, items, marks, mirror, staged, pins, own, rig, main>>

-------------------------------------------------------------------------------
(* A run.                                                                    *)

\* The verification entry of a run's report.  The queue names a finding's own key
\* as the case to replay; a run that judged nothing has its reason as evidence.
Entry(i, shown) ==
    IF runs[i].kind = "qa" THEN None
    ELSE [key |-> runs[i].item.key, case |-> runs[i].item.key, fix |-> runs[i].item.fix,
          tested |-> runs[i].sha, contained |-> runs[i].contained,
          outcome |-> shown.outcome, evidence |-> shown.evidence]
NoVerdict == Proof("inconclusive", TRUE)

Write(report) == lane' = [lane EXCEPT !.at = "stage", !.report = report]

\* _teardown_rig, _teardown: a removal docker refuses, and a verification's listing
\* that fails, leave the containers behind.
Torn(stuck) == rig' = IF stuck THEN rig ELSE rig \ {lane.run}

\* Refused before the rig: a revision without the fix, no source; or, as
\* _preflight_blocked finds (a fault), no space for another run.
Refused(i) == runs[i].sha \notin staged \/ (runs[i].kind = "qav" /\ ~runs[i].contained)

RunBlocked(fault) ==
    LET i == lane.run
    IN  /\ lane.at = "run" /\ (fault \/ Refused(i))
        /\ Write(Report(i, "blocked", NoCases, Entry(i, NoVerdict)))
        /\ faults' = faults + (IF fault THEN 1 ELSE 0) /\ faults' <= MaxFaults
        /\ UNCHANGED <<runs, reports, items, marks, mirror, staged, dirs, pins, own, rig, main>>

\* _build_images, _start_rig.
StartRig ==
    /\ lane.at = "run" /\ ~Refused(lane.run)
    /\ rig' = rig \union {lane.run}
    /\ lane' = [lane EXCEPT !.at = "rig"]
    /\ UNCHANGED <<runs, reports, items, marks, mirror, staged, dirs, pins, own, faults, main>>

\* The build, the rig, a case or a verification's teardown raises: no verdict.
RunError(stuck) ==
    LET i == lane.run
    IN  /\ lane.at \in {"run", "rig"} /\ ~Refused(i) /\ faults < MaxFaults
        /\ Torn(stuck)
        /\ Write(Report(i, "inconclusive", NoCases, Entry(i, NoVerdict)))
        /\ faults' = faults + 1
        /\ UNCHANGED <<runs, reports, items, marks, mirror, staged, dirs, pins, own, main>>

\* verify.run: what a replayed case proves.
VerdictLoose(case) == IF case = "failed" THEN "failed" ELSE "passed"    \* mutant
Verdict(case) == IF case \in {"passed", "failed"} THEN case ELSE "inconclusive"

\* run_all, or the one case of a verification; then the teardown.  A case may end
\* before it has captured anything: its verdict is reported without evidence.
Judge(cases, evidence, stuck) ==
    LET i == lane.run
        key == runs[i].item.key
        replayed == [NoCases EXCEPT ![key] = cases[key]]
    IN  /\ lane.at = "rig"
        /\ IF runs[i].kind = "qa"
           THEN /\ Write(Report(i, Overall(cases), cases, None))
                /\ UNCHANGED runs
           ELSE /\ \A k \in Scenarios \ {key} : cases[k] = "passed"
                /\ Write(Report(i, Verdict(cases[key]), replayed,
                                Entry(i, Proof(Verdict(cases[key]), evidence))))
                /\ runs' = [runs EXCEPT ![i].verdict = Proof(cases[key], evidence)]
        /\ Torn(stuck)
        /\ faults' = faults + (IF stuck THEN 1 ELSE 0) /\ faults' <= MaxFaults
        /\ UNCHANGED <<reports, items, marks, mirror, staged, dirs, pins, own, main>>

\* _persist_report stages the file the relay pulls, then finishes the record.
StageReport ==
    /\ lane.at = "stage"
    /\ reports' = [reports EXCEPT ![lane.run] = lane.report]
    /\ lane' = [lane EXCEPT !.at = "finish"]
    /\ UNCHANGED <<runs, items, marks, mirror, staged, dirs, pins, own, rig, faults, main>>

FinishRun ==
    /\ lane.at = "finish"
    /\ runs' = [runs EXCEPT ![lane.run] = [@ EXCEPT !.status = "finished", !.report = TRUE,
                                                    !.outcome = lane.report.outcome]]
    /\ lane' = [lane EXCEPT !.at = "end"]
    /\ UNCHANGED <<reports, items, marks, mirror, staged, dirs, pins, own, rig, faults, main>>

\* _mark_reported, for a verification, and the last teardown.
EndRun(stuck) ==
    LET i == lane.run
        e == lane.report.verification
        mark == marks[e.key]
        again == mark # None /\ mark.fix = e.fix /\ mark.tested = e.tested
    IN  /\ lane.at = "end"
        /\ marks' = IF e = None THEN marks
                    ELSE [marks EXCEPT ![e.key] =
                            [fix |-> e.fix, tested |-> e.tested,
                             outcome |-> IF e.contained THEN e.outcome ELSE "not-contained",
                             attempts |-> IF again THEN mark.attempts + 1 ELSE 1]]
        /\ stuck => i \in rig
        /\ Torn(stuck)
        /\ lane' = Idle
        /\ faults' = faults + (IF stuck THEN 1 ELSE 0) /\ faults' <= MaxFaults
        /\ UNCHANGED <<runs, reports, items, mirror, staged, dirs, pins, own, main>>

\* The cycle's process dies: timeout, kill, reboot.
LaneCrash ==
    /\ lane.at # "idle" /\ faults < MaxFaults
    /\ lane' = Idle /\ faults' = faults + 1
    /\ UNCHANGED <<runs, reports, items, marks, mirror, staged, dirs, pins, own, rig, main>>

LaneNext ==
    \/ \E left \in SUBSET rig, died \in BOOLEAN : CycleStart(left, died)
    \/ Reclaim \/ CycleBlocked
    \/ \E egress \in BOOLEAN : DispatchAssessment(egress)
                               \/ \E item \in items : DispatchVerification(item, egress)
    \/ \E fault \in BOOLEAN : RunBlocked(fault) \/ EndRun(fault) \/ RunError(fault)
    \/ StartRig \/ StageReport \/ FinishRun \/ LaneCrash
    \/ \E cases \in [Scenarios -> Outcomes], evidence, stuck \in BOOLEAN : Judge(cases, evidence, stuck)
================================================================================
