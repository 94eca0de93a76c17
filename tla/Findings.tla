-------------------------------- MODULE Findings --------------------------------
(***************************************************************************)
(* The supervisor's findings lane (agent_pool/findings.py): it ingests run  *)
(* reports, routes findings to issues, follows their fixes and certifies     *)
(* them by the verdicts of verification runs.                                *)
(*                                                                          *)
(* poll walks its functions in one order; sup.at says where it is.  Each     *)
(* finding is handled by several commits (its row, an issue on GitHub, the   *)
(* stash): a handler is the sequence of the values they produce, taken       *)
(* whole or cut by a crash (Commit).  Routing mode is on; the inventory of   *)
(* issues that a pass fetches at its start is read where it is used.         *)
(***************************************************************************)
EXTENDS QaReport, SequencesExt

CONSTANTS
    MaxOpen,        \* qa.max_open
    MaxIssues,      \* qa.max_issues_per_report
    MaxFixCycles,   \* qa.max_fix_cycles
    Dispositions    \* what the planner may decide: accepted, deferred, rejected

ASSUME FindingsAssumption ==
    /\ MaxOpen \in Nat /\ MaxIssues \in Nat \ {0} /\ MaxFixCycles \in Nat \ {0}
    /\ Dispositions \subseteq {"accepted", "deferred", "rejected"}

VARIABLES
    finding,        \* qa_findings, by key
    gh,             \* the issues of a key on GitHub: marker suffix and merged fix
    stash,          \* qa:verification_retries
    candidate,      \* the planner's table
    row,            \* qa_reports: none, ingesting (the sentinel), done
    inbox,          \* report files
    queue,          \* verifications.json
    sup             \* where poll is: step, report, keys to visit, issues made

findingVars == <<finding, gh, stash, candidate, row, inbox, queue, sup>>

OpenStatuses == {"recorded", "issue-open", "redispatched", "fix-merged", "failed", "candidate"}

NoFinding == [status |-> "new", kind |-> None, completed |-> FALSE, issue |-> 0, fix |-> 0, cycles |-> 0]
Start == [at |-> "inbox", report |-> None, todo |-> {}, created |-> 0, spent |-> 0]

FindingsInit ==
    /\ finding = [k \in Keys |-> NoFinding]
    /\ gh = [k \in Keys |-> <<>>]
    /\ stash = [k \in Keys |-> None]
    /\ candidate = [k \in Keys |-> "none"]
    /\ row = [i \in 1 .. MaxRuns |-> "none"]
    /\ inbox = {} /\ queue = {} /\ sup = Start

\* The values of one key that a handler commits.
World(k) == [f |-> finding[k], g |-> gh[k], s |-> stash[k], c |-> candidate[k]]

Commit(k, trace, cost, next) ==
    \E n \in 1 .. Len(trace) :
        LET died == n < Len(trace)
        IN  /\ finding' = [finding EXCEPT ![k] = trace[n].f]
            /\ gh' = [gh EXCEPT ![k] = trace[n].g]
            /\ stash' = [stash EXCEPT ![k] = trace[n].s]
            /\ candidate' = [candidate EXCEPT ![k] = trace[n].c]
            /\ sup' = IF died THEN Start ELSE next
            /\ faults' = faults + (IF died THEN 1 ELSE 0) + cost
            /\ faults' <= MaxFaults

Cost(failed) == IF failed THEN 1 ELSE 0

OpenCount == Cardinality({k \in Keys : finding[k].status \in OpenStatuses})

-------------------------------------------------------------------------------
(* Issues.                                                                   *)

\* The issue of a marker; create_issue looks for the marker before it creates.
IssueOf(g, n) == {i \in DOMAIN g : g[i].n = n}
CreateIssueBlind(g, n) == Append(g, [n |-> n, fix |-> 0])     \* mutant: no marker
CreateIssue(g, n) == IF IssueOf(g, n) # {} THEN g ELSE Append(g, [n |-> n, fix |-> 0])

\* _redispatch: a bounded follow-up with a marker of its own.
Redispatch(x, failed) ==
    LET n == x.f.cycles + 1
        y == [x EXCEPT !.g = CreateIssue(x.g, n)]
        issue == CHOOSE i \in IssueOf(y.g, n) : TRUE
    IN  IF x.f.issue = 0 \/ x.f.cycles >= MaxFixCycles THEN <<[x EXCEPT !.f.status = "unresolved"]>>
        ELSE IF failed THEN <<x>>
        ELSE <<y, [y EXCEPT !.f = [@ EXCEPT !.status = "redispatched", !.issue = issue,
                                            !.cycles = n, !.fix = 0]]>>

\* What _route decides for a finding of a kind: status, issue, cycles, and the
\* world with the issue or the candidate it has made by then.
Routed(x, status, issue, cycles) == [x |-> x, status |-> status, issue |-> issue, cycles |-> cycles]

Route(x, kind, mayCreate, failed) ==
    LET known == IssueOf(x.g, 1)
        i == CHOOSE j \in known : TRUE
        y == [x EXCEPT !.g = CreateIssue(x.g, 1)]
    IN  IF known # {} THEN Routed(x, IF x.g[i].fix # 0 THEN "failed" ELSE "issue-open", i, 1)
        ELSE IF kind = "infrastructure" THEN Routed(x, "infra", 0, 0)
        ELSE IF kind = "capability" THEN Routed([x EXCEPT !.c = "pending"], "candidate", 0, 0)
        ELSE IF ~mayCreate THEN Routed(x, "held", 0, 0)
        ELSE IF failed THEN Routed(x, "recorded", 0, 0)
        ELSE Routed(y, "issue-open", CHOOSE j \in IssueOf(y.g, 1) : TRUE, 1)

Fields(f, r) == IF r.issue = 0 THEN f ELSE [f EXCEPT !.issue = r.issue, !.cycles = r.cycles]

-------------------------------------------------------------------------------
(* Verdicts.                                                                 *)

\* apply_verification's gates, up to the lookup on GitHub.
AdmissibleBare(f, e, sha) ==                                  \* mutant: no evidence asked
    /\ f.status = "fix-merged" /\ f.fix # 0
    /\ e.fix = f.fix /\ e.case = e.key /\ e.tested = sha /\ e.contained
    /\ e.outcome # "inconclusive"
Admissible(f, e, sha) ==
    /\ f.status = "fix-merged" /\ f.fix # 0
    /\ e.fix = f.fix /\ e.case = e.key /\ e.tested = sha /\ e.contained
    /\ e.outcome # "inconclusive" /\ e.evidence

ApplyVerification(x, e, sha, lookupFailed, publishFailed) ==
    LET failed == [x EXCEPT !.f.status = "failed"]
    IN  IF ~Admissible(x.f, e, sha) THEN <<x>>
        ELSE IF lookupFailed THEN <<[x EXCEPT !.s = e]>>
        ELSE IF ~Includes(e.tested, x.f.fix) THEN <<x>>
        ELSE IF e.outcome = "passed" THEN <<[x EXCEPT !.f.status = "verified"]>>
        ELSE <<failed>> \o Redispatch(failed, publishFailed)

-------------------------------------------------------------------------------
(* ingest_inbox.                                                             *)

\* The first file by name: assessments sort before verifications.
First(files) ==
    CHOOSE r \in files : \A q \in files :
        IF r.kind = q.kind THEN r.id <= q.id ELSE r.kind = "qa"

\* Mutant: a row that exists is a duplicate, its ingest finished or not.
DuplicateRow(r) == row[r.id] # "none"
Duplicate(r) == row[r.id] = "done"

TakeReport ==
    LET r == First(inbox)
    IN  /\ sup.at = "inbox" /\ inbox # {}
        /\ IF Duplicate(r)
           THEN inbox' = inbox \ {r} /\ UNCHANGED <<row, sup>>
           ELSE /\ row' = [row EXCEPT ![r.id] = "ingesting"]
                /\ sup' = [sup EXCEPT !.at = "findings", !.report = r,
                                      !.todo = FindingsOf(r), !.created = 0]
                /\ UNCHANGED inbox
        /\ UNCHANGED <<finding, gh, stash, candidate, queue, faults, main>>

\* The limitations come before the cases.
InOrder(keys) == IF keys \intersect Capabilities # {} THEN keys \intersect Capabilities ELSE keys

\* One finding of the report: a new row, or what a known one needs.
IngestFinding(k, failed) ==
    LET r == sup.report
        x == World(k)
        kind == KindOf(r, k)
        route == Route(x, kind, sup.created < MaxIssues /\ OpenCount < MaxOpen, failed)
        made == route.x.g # x.g
        known == [x EXCEPT !.f.kind = kind, !.f.completed = Completed(r)]
        \* A known row keeps the evidence; an unrouted one is routed now.
        linked == [known EXCEPT !.g = route.x.g, !.c = route.x.c]
        rerouted == [linked EXCEPT !.f = Fields(@, route)]
        \* A new row is inserted with its status before it gets its issue.
        inserted == [route.x EXCEPT !.f = [NoFinding EXCEPT !.status = route.status, !.kind = kind,
                                                            !.completed = TRUE]]
        trace ==
            IF x.f.status = "new" /\ ~Completed(r)
            THEN <<[known EXCEPT !.f.status = "recorded"]>>
            ELSE IF x.f.status = "new"
            THEN <<route.x, inserted, [inserted EXCEPT !.f = Fields(@, route)]>>
            ELSE IF Completed(r) /\ x.f.status \in {"recorded", "held"}
            THEN <<known, linked, rerouted, [rerouted EXCEPT !.f.status = route.status]>>
            ELSE IF x.f.status = "verified" /\ kind = "defect"
            THEN <<known, [known EXCEPT !.f.status = "failed"]>>
            ELSE <<known>>
        routing == Completed(r) /\ x.f.status \in {"new", "recorded", "held"}
    IN  /\ sup.at = "findings" /\ k \in InOrder(sup.todo)
        /\ failed => routing /\ kind = "defect"
        /\ Commit(k, trace, Cost(failed),
                  [sup EXCEPT !.todo = @ \ {k},
                              !.created = @ + (IF routing /\ made THEN 1 ELSE 0),
                              !.spent = @ + (IF routing /\ made THEN 1 ELSE 0)])
        /\ UNCHANGED <<row, inbox, queue, main>>

IngestVerification(lookupFailed, publishFailed) ==
    LET e == sup.report.verification
    IN  /\ sup.at = "findings" /\ sup.todo = {} /\ e # None
        /\ Commit(e.key, ApplyVerification(World(e.key), e, sup.report.sha, lookupFailed, publishFailed),
                  Cost(lookupFailed \/ publishFailed), [sup EXCEPT !.at = "close"])
        /\ UNCHANGED <<row, inbox, queue, main>>

\* The row is rewritten with the summary, then the file moves to processed/.
CloseReport(died) ==
    /\ \/ sup.at = "close"
       \/ sup.at = "findings" /\ sup.todo = {} /\ sup.report.verification = None
    /\ row' = [row EXCEPT ![sup.report.id] = "done"]
    /\ inbox' = IF died THEN inbox ELSE inbox \ {sup.report}
    /\ sup' = IF died THEN Start ELSE [sup EXCEPT !.at = "inbox", !.report = None]
    /\ faults' = faults + Cost(died) /\ faults' <= MaxFaults
    /\ UNCHANGED <<finding, gh, stash, candidate, queue, main>>

-------------------------------------------------------------------------------
(* The rest of poll.                                                         *)

\* sync_candidates, then the sweep of the findings that still owe routing starts.
SyncCandidates ==
    LET decided == {k \in Keys : finding[k].status = "candidate" /\ candidate[k] \in Dispositions}
        synced == [k \in Keys |-> IF k \in decided THEN [finding[k] EXCEPT !.status = candidate[k]]
                                  ELSE finding[k]]
    IN  /\ sup.at = "inbox" /\ inbox = {}
        /\ finding' = synced
        /\ sup' = [sup EXCEPT !.at = "route",
                                !.todo = {k \in Keys : synced[k].status \in {"failed", "held", "recorded"}}]
        /\ UNCHANGED <<gh, stash, candidate, row, inbox, queue, faults, main>>

Budget == MaxIssues - sup.spent
FailedLeft == {k \in sup.todo : finding[k].status = "failed"}
SweepOver ==
    \/ Budget <= 0 \/ sup.todo = {}
    \/ FailedLeft = {} /\ OpenCount >= MaxOpen

\* route_pending: the failed findings first, then the held and recorded ones.
RouteFailed(k, failed) ==
    LET trace == Redispatch(World(k), failed)
    IN  /\ sup.at = "route" /\ k \in FailedLeft /\ Budget > 0
        /\ Commit(k, trace, Cost(failed),
                  [sup EXCEPT !.todo = @ \ {k},
                              !.spent = @ + (IF Last(trace).f.status = "redispatched" THEN 1 ELSE 0)])
        /\ UNCHANGED <<row, inbox, queue, main>>

\* A kind is filed before the inventory is asked, unlike in _route.
Swept(x, failed) ==
    IF x.f.kind = "infrastructure" THEN Routed(x, "infra", 0, 0)
    ELSE IF x.f.kind = "capability" THEN Routed([x EXCEPT !.c = "pending"], "candidate", 0, 0)
    ELSE Route(x, "defect", TRUE, failed)

RoutePending(k, failed) ==
    LET x == World(k)
        route == Swept(x, failed)
        stays == (x.f.status = "recorded" /\ ~x.f.completed) \/ route.status = "recorded"
        made == route.x.g # x.g
        trace == IF stays THEN <<x>>
                 ELSE <<route.x, [route.x EXCEPT !.f = [Fields(@, route) EXCEPT !.status = route.status]]>>
    IN  /\ sup.at = "route" /\ FailedLeft = {} /\ k \in sup.todo
        /\ Budget > 0 /\ OpenCount < MaxOpen
        /\ failed => x.f.kind = "defect"
        /\ Commit(k, trace, Cost(failed),
                  [sup EXCEPT !.todo = @ \ {k}, !.spent = @ + (IF made /\ ~stays THEN 1 ELSE 0)])
        /\ UNCHANGED <<row, inbox, queue, main>>

\* reconcile_merged: the issue's job is done and the merge commit is known.
ReconcileMerged(lost) ==
    LET fixed == {k \in Keys \ lost :
                    /\ finding[k].status \in {"issue-open", "redispatched"} /\ finding[k].issue # 0
                    /\ gh[k][finding[k].issue].fix # 0}
    IN  /\ sup.at = "route" /\ SweepOver
        /\ finding' = [k \in Keys |-> IF k \in fixed
                        THEN [finding[k] EXCEPT !.status = "fix-merged",
                                                !.fix = gh[k][finding[k].issue].fix]
                        ELSE finding[k]]
        /\ lost \subseteq {k \in Keys : finding[k].issue # 0}
        /\ sup' = [sup EXCEPT !.at = "retry", !.todo = {k \in Keys : stash[k] # None}]
        /\ faults' = faults + Cost(lost # {}) /\ faults' <= MaxFaults
        /\ UNCHANGED <<gh, stash, candidate, row, inbox, queue, main>>

\* retry_verifications: re-applied, and dropped once the lookup answers.
RetryVerification(k, lookupFailed, publishFailed) ==
    LET e == stash[k]
        trace == ApplyVerification(World(k), e, e.tested, lookupFailed, publishFailed)
        parked == lookupFailed /\ Admissible(finding[k], e, e.tested)
    IN  /\ sup.at = "retry" /\ k \in sup.todo
        /\ Commit(k, IF parked THEN trace ELSE Append(trace, [Last(trace) EXCEPT !.s = None]),
                  Cost(lookupFailed \/ publishFailed), [sup EXCEPT !.todo = @ \ {k}])
        /\ UNCHANGED <<row, inbox, queue, main>>

\* write_verification_queue ends the pass.
WriteQueue ==
    /\ sup.at = "retry" /\ sup.todo = {}
    /\ queue' = {[key |-> k, fix |-> finding[k].fix] :
                    k \in {j \in Keys : finding[j].status = "fix-merged" /\ finding[j].fix # 0}}
    /\ sup' = Start
    /\ UNCHANGED <<finding, gh, stash, candidate, row, inbox, faults, main>>

Poll ==
    \/ TakeReport \/ SyncCandidates \/ WriteQueue
    \/ \E k \in Keys, failed \in BOOLEAN :
          IngestFinding(k, failed) \/ RouteFailed(k, failed) \/ RoutePending(k, failed)
    \/ \E lookup, publish \in BOOLEAN :
          \/ IngestVerification(lookup, publish)
          \/ \E k \in Keys : RetryVerification(k, lookup, publish)
    \/ \E died \in BOOLEAN : CloseReport(died)
    \/ \E lost \in SUBSET Keys : ReconcileMerged(lost)

\* The supervisor dies between two commits and polls again after its restart.
SupervisorCrash ==
    /\ sup # Start /\ faults < MaxFaults
    /\ sup' = Start /\ faults' = faults + 1
    /\ UNCHANGED <<finding, gh, stash, candidate, row, inbox, queue, main>>

\* External: a worker's fix of an open issue is merged and closes it.
MergeFix(k, i) ==
    /\ main < MaxRev /\ i \in DOMAIN gh[k] /\ gh[k][i].fix = 0
    /\ main' = main + 1
    /\ gh' = [gh EXCEPT ![k][i].fix = main']
    /\ UNCHANGED <<finding, stash, candidate, row, inbox, queue, sup, faults>>

\* External: the planner decides a candidate.
Decide(k, disposition) ==
    /\ candidate[k] = "pending"
    /\ candidate' = [candidate EXCEPT ![k] = disposition]
    /\ UNCHANGED <<finding, gh, stash, row, inbox, queue, sup, faults, main>>

FindingsNext ==
    \/ Poll \/ SupervisorCrash
    \/ \E k \in Keys : (\E i \in DOMAIN gh[k] : MergeFix(k, i))
                       \/ \E d \in Dispositions : Decide(k, d)
================================================================================
