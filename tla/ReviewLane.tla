------------------------------- MODULE ReviewLane -------------------------------
(***************************************************************************)
(* The supervisor's background lanes (agent_pool/supervisor.py): the daily   *)
(* architecture review proposes improvements, the planner turns accepted     *)
(* ones into issues, dispatch works on one improvement at a time.             *)
(*                                                                          *)
(* db is the supervisor's database with what stands on GitHub and the agents *)
(* beside it.  A handler is the sequence of the states its commits produce,   *)
(* taken whole or cut by a crash.  A job is followed as far as these lanes    *)
(* see it: AgentPool has its launch, publication and recovery.  The rollout   *)
(* stage, assessments, quota leases, a planner switched off and issues closed  *)
(* by hand are not modelled: admission may deny a launch at any time.         *)
(***************************************************************************)
EXTENDS Integers, Sequences, FiniteSets, SequencesExt

CONSTANTS
    Issues,         \* numbers of the issues the planner may propose
    Improvements,   \* keys of the candidates a reviewer may propose
    ImprovementOf,  \* the improvement an issue belongs to, or None
    KeyPrefixes,    \* the improvements m an issue's key names: arch-m, or arch-m-...
    Deps,           \* an issue's dependencies
    Capacity,       \* agent slots
    Frontier,       \* the planner publishes up to this many ready issues
    MaxSlots, MaxReviews, MaxPlans, MaxRetries, MaxFaults,  \* bounds
    BadDeps,        \* whether a proposal may name an issue that does not exist
    None

ASSUME ReviewAssumption ==
    /\ Issues \subseteq Nat /\ IsFiniteSet(Issues)
    /\ ImprovementOf \in [Issues -> Improvements \union {None}] /\ None \notin Improvements
    /\ KeyPrefixes \in [Issues -> SUBSET Improvements]
    /\ Deps \in [Issues -> SUBSET Issues]
    /\ \A i \in Issues : \A d \in Deps[i] : d < i       \* planning.ordered_issues
    /\ {Capacity, Frontier, MaxSlots, MaxReviews, MaxPlans, MaxRetries, MaxFaults} \subseteq Nat
    /\ BadDeps \in BOOLEAN

VARIABLES
    db,         \* the database, GitHub and the agents
    up,         \* the supervisor runs
    faults
vars == <<db, up, faults>>

Init ==
    /\ db = [slot |-> 1, rows |-> <<>>, last |-> 0, retry |-> 0, manual |-> FALSE, enabled |-> TRUE,
             reviewer |-> 0, intent |-> 0, cand |-> [m \in Improvements |-> "none"],
             plans |-> 0, planner |-> "none", shown |-> {}, proposal |-> None,
             gh |-> [i \in Issues |-> "none"], fresh |-> {}, mapped |-> {}, active |-> None,
             job |-> [i \in Issues |-> "none"], retries |-> 0, paused |-> FALSE]
    /\ up = TRUE /\ faults = 0

\* The commits of a handler, or those before a crash.
Perform(trace) ==
    \E n \in 1 .. Len(trace) :
        /\ db' = trace[n]
        /\ up' = (n = Len(trace))
        /\ faults' = faults + (IF n = Len(trace) THEN 0 ELSE 1) /\ faults' <= MaxFaults

\* A crash after a commit that leaves this state.
CutShort(x) ==
    /\ db' = x
    /\ up' = FALSE
    /\ faults' = faults + 1 /\ faults' <= MaxFaults

-------------------------------------------------------------------------------
(* The review lane.                                                          *)

Working(x) == {i \in Issues : x.job[i] = "working"}
SlotsUsedJobs(x) == Cardinality(Working(x))                   \* mutant
SlotsUsed(x) == Cardinality(Working(x)) + (IF x.reviewer # 0 THEN 1 ELSE 0)

LiveReviewers(x) == {i \in DOMAIN x.rows : x.rows[i].agent \in {"running", "stopping"}}

\* Runtime.terminate asks the runner to stop its agent and does not wait.
StopAgent(row) == [row EXCEPT !.agent = IF @ = "running" THEN "stopping" ELSE @]

\* Runtime.spawn refuses a checkout that a live agent owns.
SpawnRefused(x) == LiveReviewers(x) # {}

FinishReviewRun(x, i, status) ==
    LET finished == [x EXCEPT !.rows[i].status = status]
    IN  IF status = "inconclusive" /\ x.rows[i].attempt = 1
        THEN <<finished, [finished EXCEPT !.retry = x.rows[i].slot]>>
        ELSE <<finished>>

\* launch_review, admitted.  An unchanged base is skipped, a failing preflight
\* is inconclusive, a refused spawn leaves the row running.
LaunchReview(x, attempt, how) ==
    LET i == Len(x.rows) + 1
        begun == [x EXCEPT !.rows = Append(@, [slot |-> x.slot, attempt |-> attempt,
                                               status |-> "running", agent |-> "none"])]
        slotted == [begun EXCEPT !.last = x.slot]
        owed == [slotted EXCEPT !.manual = FALSE]
        intended == [owed EXCEPT !.intent = i]
        spawned == [intended EXCEPT !.rows[i].agent = "running"]
        head == <<begun, slotted, owed>>
    IN  CASE how = "skip" -> head \o <<[owed EXCEPT !.rows[i].status = "skipped"]>>
          [] how = "preflight" -> head \o FinishReviewRun(owed, i, "inconclusive")
          [] SpawnRefused(x) -> head \o <<intended>>
          [] OTHER -> head \o <<intended, spawned, [spawned EXCEPT !.reviewer = i]>>

\* ingest_review: only a completed report publishes candidates; one decided
\* before is reopened by a changed payload.
IngestReview(x, i, proposed) ==
    LET recorded == [x EXCEPT !.cand = [m \in Improvements |->
                        IF m \in proposed /\ x.cand[m] \in {"none", "declined"}
                        THEN "pending" ELSE x.cand[m]]]
    IN  IF x.rows[i].agent # "done" THEN FinishReviewRun(x, i, "inconclusive")
        ELSE <<recorded, [recorded EXCEPT !.rows[i].status = "completed"]>>

\* The record of a reviewer: stopped where the lane is disabled, followed else.
ReviewCurrent(x, proposed) ==
    LET i == x.reviewer
        dropped == [x EXCEPT !.reviewer = 0]
        stopped == [dropped EXCEPT !.rows[i] = StopAgent(@)]
    IN  IF i = 0 THEN <<x>>
        ELSE IF ~x.enabled THEN <<stopped>> \o FinishReviewRun(stopped, i, "inconclusive")
        ELSE IF x.rows[i].agent \in {"running", "stopping"} THEN <<x>>
        ELSE <<dropped>> \o IngestReview(dropped, i, proposed)

\* A launch that left no record is closed.
ReviewStale(x) ==
    LET running == {i \in DOMAIN x.rows : x.rows[i].status = "running"}
        stale == CHOOSE i \in running : \A j \in running : j <= i
    IN  IF x.reviewer # 0 \/ running = {} THEN <<x>>
        ELSE <<[x EXCEPT !.rows[stale].status = "inconclusive"]>>

\* A manual run, the slot's first run, or the slot's one retry.
ReviewDue(x, how) ==
    LET owed == [x EXCEPT !.retry = 0]
        second == x.last = x.slot /\ x.retry = x.slot /\ ~x.manual
        admitted == how # "denied"
    IN  IF \/ x.reviewer # 0 \/ ~x.enabled \/ x.paused \/ SlotsUsed(x) >= Capacity
           \/ Len(x.rows) = MaxReviews
        THEN <<x>>
        ELSE IF second THEN <<owed>> \o (IF admitted THEN LaunchReview(owed, 2, how) ELSE <<>>)
        ELSE IF (x.manual \/ x.last # x.slot) /\ admitted THEN LaunchReview(x, 1, how)
        ELSE <<x>>

\* A spawn refused raises after its intent and leaves the pass.
Review(how, proposed) ==
    LET one == ReviewCurrent(db, proposed)
        two == one \o ReviewStale(Last(one))
        x == Last(two)
    IN  /\ up
        /\ how = "skip" => ~x.manual /\ x.last # x.slot
        /\ Perform(two \o ReviewDue(x, how))

-------------------------------------------------------------------------------
(* The planner.                                                              *)

\* What a pass's inventory shows of an issue: it was read before the planner
\* published.
Seen(x, i) == IF i \in x.fresh THEN "none" ELSE x.gh[i]

\* scheduling.classify for an issue without a job.
Ready(x, i) ==
    /\ Seen(x, i) = "open" /\ x.job[i] = "none"
    /\ \A d \in Deps[i] : x.gh[d] = "closed"
    /\ x.active # None /\ ImprovementOf[i] # None => ImprovementOf[i] = x.active
ReadyFrontier(x) == Cardinality({i \in Issues : Ready(x, i)})

\* What a pass publishes, in dependency order while the frontier has room: it was
\* counted before the first item and grows by each one that could start at once.
Unpublished(x) == {i \in x.proposal.items : x.gh[i] = "none"}
Startable(x, i) == \A d \in Deps[i] : x.gh[d] = "closed"
Publishable(x) ==
    {i \in Unpublished(x) :
        ReadyFrontier(x) + Cardinality({j \in Unpublished(x) : j < i /\ Startable(x, j)}) < Frontier}
Carried(S) == {i \in S : ImprovementOf[i] # None}

Issued(x, created, linked) ==
    [x EXCEPT !.gh = [i \in Issues |-> IF i \in created THEN "open" ELSE @[i]],
              !.fresh = @ \union created,
              !.mapped = @ \union {<<ImprovementOf[i], i>> : i \in Carried(linked)}]

\* After each issue is created, and after it is mapped.
Issuing(x) ==
    LET upto(i) == {j \in Publishable(x) : j <= i}
    IN  UNION {{Issued(x, upto(i), upto(i) \ {i}), Issued(x, upto(i), upto(i))} : i \in Publishable(x)}

\* apply_dispositions for one candidate; a deferred and a rejected one are
\* treated alike from then on.  An issue carries it by its field or by its key.
Carries(i, m) == ImprovementOf[i] = m \/ m \in KeyPrefixes[i]
Carriers(x, m) == {i \in Issues : Carries(i, m) /\ x.gh[i] # "none"}
Disposable(x, m) == x.proposal.decide[m] # "none" /\ x.cand[m] \in {"pending", "accepted"}

\* Mutant: an accept needs no issue.
DecidedUnchecked(x, m) ==
    IF ~Disposable(x, m) THEN x.cand[m]
    ELSE IF x.proposal.decide[m] = "accept" THEN "accepted" ELSE "declined"
Decided(x, m) ==
    IF ~Disposable(x, m) THEN x.cand[m]
    ELSE IF x.proposal.decide[m] = "accept" /\ (Carriers(x, m) # {} \/ x.cand[m] = "accepted")
    THEN "accepted" ELSE "declined"
Links(x, m) ==
    IF Disposable(x, m) /\ x.proposal.decide[m] = "accept" THEN {m} \X Carriers(x, m) ELSE {}

Disposed(x, M, links) ==
    [x EXCEPT !.cand = [m \in Improvements |-> IF m \in M THEN Decided(x, m) ELSE @[m]],
              !.mapped = @ \union links]

\* The candidates in the proposal's order, each decided before its issues are
\* mapped one by one.
Disposing(x) ==
    UNION {{Disposed(x, M \union {m}, (UNION {Links(x, n) : n \in M}) \union links) :
               links \in SUBSET Links(x, m)} : M \in SUBSET Improvements, m \in Improvements}

AllIssued(x) == Issued(x, Publishable(x), Publishable(x))
Published(x) ==
    LET y == AllIssued(x)
    IN  [Disposed(y, Improvements, UNION {Links(y, m) : m \in Improvements}) EXCEPT !.proposal = None]

\* Dependencies on issues that do not exist raise at the first item, in this
\* pass and in every later one: the pass ends before retries and dispatch.
Raises(x) == x.proposal # None /\ x.proposal.bad /\ ~x.paused

PlannerDone(x, proposal) ==
    LET taken == [x EXCEPT !.planner = "none", !.shown = {}]
    IN  IF proposal = None THEN <<taken>> ELSE <<taken, [taken EXCEPT !.proposal = proposal]>>

\* A plan that ended is taken over, and what is pending is published, unless a
\* crash cuts the publication short.
Planner(proposal) ==
    LET one == IF db.planner = "done" THEN PlannerDone(db, proposal) ELSE <<db>>
        x == Last(one)
    IN  /\ up /\ db.fresh = {}
        /\ db.planner = "done" \/ (db.planner = "none" /\ db.proposal # None)
        /\ IF x.proposal = None \/ x.paused \/ Raises(x) THEN Perform(one)
           ELSE \/ Perform(Append(one, Published(x)))
                \/ \E y \in Issuing(x) \union Disposing(AllIssued(x)) : CutShort(y)

\* No launch intent is kept: a crash before the record loses the planner.
LaunchPlanner ==
    LET spawned == [db EXCEPT !.planner = "unrecorded", !.plans = @ + 1,
                              !.shown = {m \in Improvements : db.cand[m] \in {"pending", "accepted"}}]
    IN  /\ up /\ db.planner = "none" /\ db.proposal = None /\ ~db.paused /\ db.plans < MaxPlans
        /\ Perform(<<spawned, [spawned EXCEPT !.planner = "running"]>>)

\* What a planner may propose: it decides the candidates it was shown, and
\* emits issues for what it accepts or what was accepted.
Proposals ==
    {p \in [items: SUBSET Issues, decide: [Improvements -> {"none", "accept", "decline"}],
            bad: {FALSE, BadDeps}] :
        /\ \A m \in Improvements : p.decide[m] # "none" => m \in db.shown
        /\ \A i \in p.items :
              /\ Deps[i] \subseteq p.items \union {d \in Issues : db.gh[d] # "none"}
              /\ LET m == ImprovementOf[i]
                 IN  m = None \/ db.cand[m] = "accepted" \/ p.decide[m] = "accept"
        /\ p.bad => p.items # {}}

-------------------------------------------------------------------------------
(* Dispatch and jobs.                                                        *)

\* refresh_improvements: an issue that can never be dispatched.
StalledNever(x) == [i \in Issues |-> FALSE]                   \* mutant
Stalled(x) ==
    LET stalled[i \in Issues] ==
            IF x.job[i] = "working" \/ x.gh[i] = "closed" THEN FALSE
            ELSE IF x.job[i] # "none" THEN x.job[i] = "blocked"
            ELSE Seen(x, i) # "open" \/ \E d \in Deps[i] : x.gh[d] # "closed" /\ stalled[d]
    IN  stalled

Refreshed(x) ==
    LET issues == {i \in Issues : <<x.active, i>> \in x.mapped}
        resolved == \A i \in issues : x.job[i] \in {"done", "blocked"} \/ x.gh[i] = "closed" \/ Stalled(x)[i]
    IN  IF x.active # None /\ resolved THEN [x EXCEPT !.active = None] ELSE x

\* dispatch: the reservation, then the improvement's slot, then the launch.
Dispatch(i, launched) ==
    LET x == Refreshed(db)
        reserved == [x EXCEPT !.job[i] = "working"]
        claimed == IF ImprovementOf[i] # None /\ x.active = None
                   THEN [reserved EXCEPT !.active = ImprovementOf[i]] ELSE reserved
        failed == IF launched THEN <<>> ELSE <<[claimed EXCEPT !.job[i] = "blocked"]>>
    IN  /\ up /\ ~db.paused /\ ~Raises(db)
        /\ Ready(x, i) /\ SlotsUsed(x) < Capacity
        /\ Perform(<<x, reserved, claimed>> \o failed)

\* The next pass reads the inventory anew.
Inventory == up /\ db.fresh # {} /\ db' = [db EXCEPT !.fresh = {}] /\ UNCHANGED <<up, faults>>

\* A pass with nothing to dispatch still refreshes.
Refresh ==
    /\ up /\ ~db.paused /\ ~Raises(db) /\ Refreshed(db) # db
    /\ Perform(<<Refreshed(db)>>)

\* A worker's agent ends: its pull request is merged and closes the issue, or
\* the job is parked.
JobEnds(i, status) ==
    /\ up /\ db.job[i] = "working"
    /\ db' = IF status = "done" THEN [db EXCEPT !.job[i] = "done", !.gh[i] = "closed"]
             ELSE [db EXCEPT !.job[i] = "blocked"]
    /\ UNCHANGED <<up, faults>>

\* retries: an armed retry; its improvement is not asked for.
Retry(i) ==
    /\ up /\ ~db.paused /\ ~Raises(db) /\ db.job[i] = "blocked" /\ db.retries < MaxRetries
    /\ SlotsUsed(db) < Capacity
    /\ db' = [db EXCEPT !.job[i] = "working", !.retries = @ + 1]
    /\ UNCHANGED <<up, faults>>

-------------------------------------------------------------------------------
(* Restarts and the environment.                                             *)

\* recover_processes: the launch intent is never cleared, so a review that
\* ended long ago is adopted again.  What has no owner is stopped and pauses
\* the pool.
Recovered(x) ==
    LET adopted == x.reviewer = 0 /\ x.intent # 0 /\ x.rows[x.intent].agent # "none"
        owner == IF adopted THEN x.intent ELSE x.reviewer
        unowned == LiveReviewers(x) \ {owner}
    IN  [x EXCEPT !.reviewer = owner,
                  !.rows = [i \in DOMAIN x.rows |->
                              IF i \in unowned THEN StopAgent(x.rows[i]) ELSE x.rows[i]],
                  !.planner = IF @ = "unrecorded" THEN "stopping" ELSE @,
                  !.shown = IF x.planner = "unrecorded" THEN {} ELSE @,
                  !.paused = @ \/ unowned # {} \/ x.planner = "unrecorded"]

\* The configuration is read at start.
Restart(enabled) ==
    /\ ~up /\ up' = TRUE
    /\ db' = [Recovered(db) EXCEPT !.enabled = enabled, !.fresh = {}]
    /\ UNCHANGED faults

\* An orderly stop terminates the agents on record (a planner by ending it).
Stop ==
    /\ up /\ faults < MaxFaults /\ up' = FALSE /\ faults' = faults + 1
    /\ db' = [db EXCEPT
                !.rows = [i \in DOMAIN db.rows |->
                            IF i = db.reviewer THEN StopAgent(db.rows[i]) ELSE db.rows[i]]]

ReviewerEnds(i, how) ==
    /\ i \in LiveReviewers(db)
    /\ db' = [db EXCEPT !.rows[i].agent = IF @ = "stopping" THEN "failed" ELSE how]
    /\ UNCHANGED <<up, faults>>

PlannerEnds ==
    /\ db.planner \in {"running", "stopping"}
    /\ db' = [db EXCEPT !.planner = IF @ = "running" THEN "done" ELSE "none"]
    /\ UNCHANGED <<up, faults>>

\* A new slot, or a manual run, while the bound leaves a review to make.
ReviewLeft == Len(db.rows) < MaxReviews

NextSlot ==
    /\ db.slot < MaxSlots /\ ReviewLeft
    /\ db' = [db EXCEPT !.slot = @ + 1]
    /\ UNCHANGED <<up, faults>>

\* dcs-agents review run, pause, resume (an integrity error cleared first).
Operator ==
    /\ \/ ~db.paused /\ ~db.manual /\ ReviewLeft /\ db' = [db EXCEPT !.manual = TRUE] /\ UNCHANGED faults
       \/ ~db.paused /\ faults < MaxFaults /\ db' = [db EXCEPT !.paused = TRUE] /\ faults' = faults + 1
       \/ db.paused /\ db' = [db EXCEPT !.paused = FALSE] /\ UNCHANGED faults
    /\ UNCHANGED up

\* What a launch may come to, where one may be due.
Hows ==
    IF ~db.enabled \/ db.paused \/ Len(db.rows) = MaxReviews THEN {"denied"}
    ELSE {"denied", "skip", "preflight", "launch"}
\* What the report of a reviewer that completed may propose.
Reports ==
    IF db.reviewer # 0 /\ db.rows[db.reviewer].agent = "done" THEN SUBSET Improvements ELSE {{}}
AnyReview == \E how \in Hows, proposed \in Reports : Review(how, proposed)
AnyPlanner == \E p \in {None} \union (IF db.planner = "done" THEN Proposals ELSE {}) : Planner(p)

Next ==
    \/ AnyReview \/ AnyPlanner \/ LaunchPlanner \/ Inventory \/ Refresh
    \/ \E i \in Issues : \/ \E launched \in BOOLEAN : Dispatch(i, launched)
                         \/ \E status \in {"done", "blocked"} : JobEnds(i, status)
                         \/ Retry(i)
    \/ \E enabled \in BOOLEAN : Restart(enabled)
    \/ Stop \/ PlannerEnds \/ NextSlot \/ Operator
    \/ \E i \in DOMAIN db.rows, how \in {"done", "failed"} : ReviewerEnds(i, how)

Spec == Init /\ [][Next]_vars

-------------------------------------------------------------------------------
(* Properties.                                                               *)

\* Workers and the reviewer together never exceed the capacity, although a
\* reviewer may run for a while with no record but its launch intent.
CapacityKept ==
    Cardinality(Working(db)) + Cardinality({i \in DOMAIN db.rows : db.rows[i].agent = "running"})
        <= Capacity

\* Once no proposal is pending, an accepted candidate has an issue to carry
\* it: a crash between the acceptance and its mapping leaves the proposal to
\* be applied again (apply_dispositions).
AcceptedIsMapped ==
    up /\ db.proposal = None =>
        \A m \in Improvements : db.cand[m] = "accepted" => \E i \in Issues : <<m, i>> \in db.mapped

\* No strand of dependencies keeps the improvement slot for ever: while no
\* work is under way, the next pass frees it or has an issue to dispatch
\* (refresh_improvements).
SlotNotStranded ==
    up /\ db.active # None /\ Working(db) = {} /\ db.fresh = {} =>
        Refreshed(db).active = None \/ \E i \in Issues : Ready(db, i)

\* A proposal that names an issue which does not exist does not end every
\* pass before its retries and its dispatch (planner).
PassCompletes == up => ~Raises(db)

\* Work of one improvement only is under way at a time (docs/agent-operations.md,
\* "only one architecture improvement is active at a time").
OneActiveImprovement ==
    \A i, j \in Working(db) :
        ImprovementOf[i] # None /\ ImprovementOf[j] # None => ImprovementOf[i] = ImprovementOf[j]
================================================================================
