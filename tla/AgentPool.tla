------------------------------- MODULE AgentPool -------------------------------
(***************************************************************************)
(* The agent pool's supervisor (agent_pool/supervisor.py over state.py and  *)
(* runtime.py): one single-threaded loop reserves issues, launches agents   *)
(* in worker checkouts, acts on their receipts, publishes and integrates    *)
(* pull requests and recovers blocked jobs.  Invocations run on their own   *)
(* and outlive the supervisor.                                               *)
(*                                                                          *)
(* A handler makes several commits (SQLite rows, settings, git, a spawned   *)
(* process), and the supervisor may die after any of them.  A handler is    *)
(* therefore the sequence of the worlds its commits produce; an action      *)
(* takes all of them, or a prefix and a crash (Perform).                    *)
(*                                                                          *)
(* A branch is an issue and an attempt (codex/issue-<n>-<attempt>).  Edits  *)
(* are named by the invocation that made them: the content of a branch or a *)
(* working tree is a set of invocations and Main, the base all work starts  *)
(* from; a missing branch is the empty set.  Admission is modelled in its   *)
(* own module; here it grants or denies a lease at will.  The factory queue  *)
(* is not modelled; ReviewLane has the planner and reviewer.                 *)
(***************************************************************************)
EXTENDS Integers, Sequences, FiniteSets, SequencesExt

CONSTANTS
    Issues, Workers,    \* issues to implement, worker checkouts
    MaxRepairs,         \* state.repair's bound on repairs (3)
    MaxRecoveries,      \* recover_job's bound on failed restores (3)
    MaxRequeues,        \* scheduler.max_quota_requeues
    MaxInvocations,     \* bound: invocations spawned in a behaviour
    MaxAttempts,        \* bound: attempts of a job
    MaxFaults,          \* bound: crashes and other faults
    MaxOperator,        \* bound: operator commands and outside events
    None

Branches == Issues \X (1 .. MaxAttempts)

ASSUME PoolAssumption ==
    /\ MaxRepairs \in Nat /\ MaxRecoveries \in Nat \ {0} /\ MaxRequeues \in Nat
    /\ MaxInvocations \in Nat /\ MaxAttempts \in Nat \ {0}
    /\ MaxFaults \in Nat /\ MaxOperator \in Nat
    /\ None \notin Issues /\ None \notin Workers /\ None \notin Branches

Invocations == 1 .. MaxInvocations
Main == 0       \* origin/main, the commit every branch starts from

VARIABLES
    w,          \* the durable world: database, invocation records, git, GitHub
    up,         \* the supervisor runs (its flock is held)
    faults, operator

vars == <<w, up, faults, operator>>

-------------------------------------------------------------------------------
(* The world.                                                                *)

NoJob == [status |-> "none", worker |-> None, clone |-> None, branch |-> None,
          attempt |-> 0, repairs |-> 0]
NoRecovery == [work |-> "unsurveyed", branch |-> None, clone |-> None, head |-> {},
               first |-> None, sources |-> {}, moved |-> FALSE, attempts |-> 0, requeues |-> 0]
NoInvocation == [issue |-> None, key |-> <<>>, clone |-> None, state |-> "none"]
EmptyClone == [branch |-> None, tree |-> {Main}, ref |-> [b \in Branches |-> {}]]

Init ==
    /\ w = [job |-> [i \in Issues |-> NoJob],
            process |-> [i \in Issues |-> 0],           \* process:<n>
            launch |-> [i \in Issues |-> <<>>],         \* launch:<n>, the intent's key
            retry |-> [i \in Issues |-> FALSE],         \* retry:<n>
            recovery |-> [i \in Issues |-> NoRecovery], \* recovery:<n>
            lease |-> {},                               \* owners of admission leases
            paused |-> FALSE, integrity |-> FALSE,
            inv |-> [k \in Invocations |-> NoInvocation],
            clone |-> [c \in Workers |-> EmptyClone],
            quarantine |-> {},                          \* the renamed checkouts
            remote |-> [b \in Branches |-> {}],         \* the pushed branches
            pr |-> [i \in Issues |-> "none"],
            open |-> Issues,                            \* issues not closed
            listed |-> Issues,                          \* issues in the inventory
            \* History, read by no handler:
            edits |-> {},       \* invocations that edited a branch of their issue
            strayed |-> {},     \* invocations that edited another issue's branch
            unrecorded |-> {},  \* issues with edits their record may not cover
            outdated |-> {},    \* issues retried from such a record
            parked |-> {}]      \* issue and attempt blocked for a missing process record
    /\ up = TRUE /\ faults = 0 /\ operator = 0

\* One handler: all its commits, or some of them and a crash.  A crash, and a
\* fault of git or of a spawn inside the handler, count against the bound.
Perform(trace, fault) ==
    \E n \in 1 .. Len(trace) :
        /\ w' = trace[n]
        /\ up' = (n = Len(trace))
        /\ faults' = faults + (IF n = Len(trace) THEN 0 ELSE 1) + (IF fault THEN 1 ELSE 0)
        /\ faults' <= MaxFaults
        /\ UNCHANGED operator

Paused(x) == x.paused \/ x.integrity
\* A lost runner is gone without a receipt; its agent still runs.
Live(x) == {k \in Invocations : x.inv[k].state \in {"running", "stopping", "lost"}}
LiveJobs(x) == {i \in Issues : x.job[i].status \in {"working", "pr-open"}}
Spawned(x) == {k \in Invocations : x.inv[k].state # "none"}
Key(x, i) == <<i, x.job[i].attempt, x.job[i].repairs>>

\* Mutant: only the process records of working jobs are looked at.
OwnedByJob(x, c) ==
    \E i \in LiveJobs(x) : x.process[i] \in Live(x) /\ x.inv[x.process[i]].clone = c

\* runtime.clone_owned: a runner that lives, or the agent of a lost one, has it.
Owned(x, c) == \E k \in Live(x) : x.inv[k].clone = c

\* A checkout with uncommitted edits.
Dirty(d) == d.branch # None /\ d.tree # d.ref[d.branch]
Dirs(x) == {x.clone[c] : c \in Workers} \union x.quarantine

\* Mutant: a job whose pull request is open no longer holds its worker.
FreeWorkersIdle(x) ==
    {c \in Workers : \A i \in LiveJobs(x) :
        x.job[i].status = "working" => x.job[i].worker # c /\ x.job[i].clone # c}

\* free_workers: neither assigned to a live job nor its checkout.
FreeWorkers(x) ==
    {c \in Workers : \A i \in LiveJobs(x) : x.job[i].worker # c /\ x.job[i].clone # c}

-------------------------------------------------------------------------------
(* Preserved work: what block records, what a retry restores.                *)

Committed(d, b) == IF d.branch = b THEN [d EXCEPT !.ref[b] = d.tree] ELSE d

\* survey_preserved commits the edits of every checkout on the branch that no
\* live invocation owns.
CommitWip(x, b) ==
    [x EXCEPT !.clone = [c \in Workers |->
                  IF Owned(x, c) THEN x.clone[c] ELSE Committed(x.clone[c], b)],
              !.quarantine = {Committed(d, b) : d \in @}]

Sources(x, b) == {c \in Workers : x.clone[c].ref[b] # {}}
Moved(x, b) == {d \in x.quarantine : d.ref[b] # {}}

\* The first source: the recorded checkout, else another.
FirstSource(x, i, b) ==
    IF Sources(x, b) = {} THEN None
    ELSE IF x.job[i].clone \in Sources(x, b) THEN x.job[i].clone
    ELSE CHOOSE c \in Sources(x, b) : TRUE

MovedHead(x, b) == (CHOOSE d \in Moved(x, b) : TRUE).ref[b]

\* Its head, else a quarantined checkout's, else the pushed one.
FirstHead(x, i, b) ==
    IF Sources(x, b) # {} THEN x.clone[FirstSource(x, i, b)].ref[b]
    ELSE IF Moved(x, b) # {} THEN MovedHead(x, b)
    ELSE x.remote[b]

\* work is "no" without a branch, without a ref, and where the head has no edits;
\* it is "yes" with uncommitted edits, also when they could not be committed, and
\* with a head that could not be compared.  Any other exception leaves "unknown".
Survey(x, i, head, fault) ==
    LET b == x.job[i].branch
    IN  IF b = None THEN "no"
        ELSE IF fault = "probe" THEN "unknown"
        ELSE IF \E d \in Dirs(x) : d.branch = b /\ Dirty(d) THEN "yes"
        ELSE IF head # {} /\ fault = "diff" THEN "yes"
        ELSE IF head \subseteq {Main} THEN "no" ELSE "yes"

\* capture_recovery: the commits of the survey, then the record.
CaptureRecovery(x, i, fault) ==
    LET b == x.job[i].branch
        blind == b = None \/ fault = "probe"
        y == IF blind \/ fault = "commit" THEN x ELSE CommitWip(x, b)
        head == IF blind THEN {} ELSE FirstHead(y, i, b)
        left == \/ \E k \in Live(y) : y.inv[k].issue = i
                \/ b # None /\ \E c \in Workers : y.clone[c].branch = b /\ Dirty(y.clone[c])
    IN  <<y, [y EXCEPT !.recovery[i] =
                [@ EXCEPT !.work = Survey(x, i, head, fault), !.branch = b,
                          !.clone = x.job[i].clone, !.head = head,
                          !.first = IF blind THEN None ELSE FirstSource(y, i, b),
                          !.sources = IF blind THEN {} ELSE Sources(y, b),
                          !.moved = ~blind /\ Moved(y, b) # {}],
                       !.unrecorded = IF left THEN @ \union {i} ELSE @ \ {i}]>>

Release(x, i) == [x EXCEPT !.lease = @ \ {i}]

\* Mutant: the lease is left to the next restart.
BlockLeased(x, i, fault) ==
    LET captured == CaptureRecovery(x, i, fault)
        a == [Last(captured) EXCEPT !.job[i].status = "blocked"]
    IN  captured \o <<a, [a EXCEPT !.process[i] = 0]>>

\* block: the survey, the lease, the row, the process record.
Block(x, i, fault) ==
    LET captured == CaptureRecovery(x, i, fault)
        a == Release(captured[2], i)
        b == [a EXCEPT !.job[i].status = "blocked"]
        d == [b EXCEPT !.process[i] = 0]
    IN  captured \o <<a, b, d>>

Detached(d) == [d EXCEPT !.branch = None, !.tree = {Main}]

\* Mutant: a dirty checkout is cleaned in place.
QuarantinedClean(x, c) ==
    IF Dirty(x.clone[c]) THEN [x EXCEPT !.clone[c].tree = x.clone[c].ref[x.clone[c].branch]] ELSE x

\* runtime.prepare_clone: a dirty checkout is renamed away, never cleaned, and
\* cloned anew.
Quarantined(x, c) ==
    IF Dirty(x.clone[c])
    THEN [x EXCEPT !.quarantine = @ \union {x.clone[c]}, !.clone[c] = EmptyClone]
    ELSE x

\* Without a branch it ends at origin/main, detached.
PrepareClone(x, c) == [Quarantined(x, c) EXCEPT !.clone[c] = Detached(@)]

OnBranch(x, c, b, content) ==
    [x EXCEPT !.clone[c] = [@ EXCEPT !.branch = b, !.tree = content, !.ref[b] = content]]

\* What a restore did to the checkouts, and whether it succeeded.
Result(ok, steps) == [ok |-> ok, steps |-> steps]

\* The commit is in the checkout's object store: part of its branch, or pushed.
HasObjects(x, c, b, head) == head \subseteq x.clone[c].ref[b] \/ head \subseteq x.remote[b]

\* restore_preserved on the recorded checkout: switch to the branch, create it
\* at the recorded head, or commit what is there; a head the record is not part
\* of is reset to the record.
RestoreHere(x, i, b, c) ==
    LET rec == x.recovery[i]
        cl == x.clone[c]
        missing == cl.branch # b /\ cl.ref[b] = {}
        head == IF cl.branch = b THEN cl.tree ELSE cl.ref[b]
    IN  IF \/ cl.branch # b /\ Dirty(cl)
           \/ missing /\ (rec.head = {} \/ ~HasObjects(x, c, b, rec.head))
        THEN Result(FALSE, <<x>>)
        ELSE Result(TRUE, <<OnBranch(x, c, b, IF rec.head \subseteq head THEN head ELSE rec.head)>>)

\* The branch a fetch finds: the first source's, another's, a quarantined one's
\* that the survey had listed, origin's.
Fetched(x, i, b) ==
    LET rec == x.recovery[i]
        alive == rec.sources \intersect Sources(x, b)
    IN  IF rec.first \in alive THEN x.clone[rec.first].ref[b]
        ELSE IF alive # {} THEN x.clone[CHOOSE d \in alive : TRUE].ref[b]
        ELSE IF rec.moved THEN MovedHead(x, b)
        ELSE x.remote[b]

\* restore_preserved on another worker: a prepared checkout, the branch fetched
\* over its own from the first source that still has it, reset to the recorded head.
RestoreThere(x, i, b, c) ==
    LET p == PrepareClone(x, c)
        found == Fetched(p, i, b)
        f == OnBranch(p, c, b, found)
        head == x.recovery[i].head
    IN  IF Owned(x, c) THEN Result(FALSE, <<x>>)
        ELSE IF found = {} THEN Result(FALSE, <<p>>)
        ELSE IF ~(head \subseteq found \/ HasObjects(p, c, b, head)) THEN Result(FALSE, <<p, f>>)
        ELSE Result(TRUE, <<p, f, OnBranch(f, c, b, IF head = {} THEN found ELSE head)>>)

RestorePreserved(x, i, b, c) ==
    IF c = x.recovery[i].clone THEN RestoreHere(x, i, b, c) ELSE RestoreThere(x, i, b, c)

\* fresh_start refuses a leftover branch that carries work.
FreshStart(x, b, c) ==
    LET p == PrepareClone(x, c)
    IN  IF Owned(x, c) THEN Result(FALSE, <<x>>)
        ELSE IF ~(p.clone[c].ref[b] \subseteq {Main}) THEN Result(FALSE, <<p>>)
        ELSE Result(TRUE, <<p, OnBranch(p, c, b, {Main})>>)

\* git fails after the first n commits of a restore; no restore has more than three.
MaxSteps == 3
Cut(result, n) ==
    IF n >= Len(result.steps) THEN result ELSE Result(FALSE, SubSeq(result.steps, 1, n))

-------------------------------------------------------------------------------
(* Launching.                                                                *)

NextInvocation(x) == CHOOSE k \in Invocations \ Spawned(x) : \A j \in Invocations : j < k => j \in Spawned(x)

\* Runtime.spawn refuses a checkout, or a key, that a live invocation owns.
SpawnRefused(x, i, c) == Owned(x, c) \/ \E k \in Live(x) : x.inv[k].key = Key(x, i)

\* The branch of the row, or the one launch names for this attempt.
BranchOf(x, i) ==
    IF x.job[i].branch # None THEN x.job[i].branch ELSE <<i, x.job[i].attempt>>

\* launch, from a prepared checkout: the row, the intent's key, the process, its
\* record.  Nothing compares the row's branch with a preserved checkout's.  An
\* exception releases the lease and is raised to the caller.  Past the bound on
\* invocations a spawn fails.
LaunchFrom(x, i, c, fault) ==
    LET b == [x EXCEPT !.job[i] = [@ EXCEPT !.branch = BranchOf(x, i), !.clone = c,
                                            !.status = "working"]]
        d == [b EXCEPT !.launch[i] = Key(x, i)]
        k == NextInvocation(x)
        e == [d EXCEPT !.inv[k] = [issue |-> i, key |-> Key(x, i), clone |-> c, state |-> "running"],
                       !.unrecorded = @ \union {i}]
        f == [e EXCEPT !.process[i] = k]
        full == Spawned(x) = Invocations
    IN  IF fault = "spawn" \/ full \/ SpawnRefused(x, i, c) THEN <<x, b, d, Release(d, i)>>
        ELSE <<x, b, d, e, f>>

\* launch in the job's own checkout, which a repair and a retry keep.
Relaunch(x, i, fault) == LaunchFrom(x, i, x.job[i].clone, fault)

\* launch in the worker's checkout: it is prepared and the branch created there.
\* A branch that exists, or git, fails it, before or after a dirty checkout is moved.
Launch(x, i, fault) ==
    LET c == x.job[i].worker
        b == BranchOf(x, i)
        p == Quarantined(x, c)
    IN  IF fault = "prepare" \/ Owned(x, c) THEN <<Release(x, i)>>
        ELSE IF fault = "branch" \/ p.clone[c].ref[b] # {} THEN <<p, Release(p, i)>>
        ELSE <<p>> \o LaunchFrom(OnBranch(p, c, b, {Main}), i, c, fault)

Raised(trace, i) == i \notin Last(trace).lease

Faults == {"none", "prepare", "branch", "spawn"}
Relaunches == {"none", "spawn"}
Surveys == {"none", "probe", "commit", "diff"}
CanSpawn == Spawned(w) # Invocations

\* dispatch: admit_worker, state.reserve, launch; a launch that fails blocks.
Dispatch(i, c, fault) ==
    LET a == [w EXCEPT !.lease = @ \union {i}]
        b == [a EXCEPT !.job[i] = [NoJob EXCEPT !.status = "working", !.worker = c, !.attempt = 1]]
        launch == Launch(b, i, fault)
    IN  /\ up /\ ~Paused(w) /\ CanSpawn
        /\ w.job[i].status = "none" /\ i \in w.open \intersect w.listed
        /\ c \in FreeWorkers(w)
        /\ Perform(<<a, b>> \o launch \o
                   (IF Raised(launch, i) THEN Block(Last(launch), i, "none") ELSE <<>>), fault # "none")

-------------------------------------------------------------------------------
(* Receipts.                                                                 *)

\* repair: a bounded relaunch in the job's own checkout, or the block.
Repair(x, i, fault) ==
    LET a == [x EXCEPT !.lease = @ \union {i}]
        b == [a EXCEPT !.job[i].repairs = @ + 1, !.job[i].status = "working"]
        d == [a EXCEPT !.job[i].status = "blocked"]
        e == Release(d, i)
    IN  IF x.job[i].repairs < MaxRepairs THEN <<a, b>> \o Relaunch(b, i, fault)
        ELSE <<a, d, e>> \o Block(e, i, "none")

\* runtime.poll: a lost runner reads as a failure, its agent alive or not.
Receipt(i) == IF w.process[i] = 0 THEN "none" ELSE w.inv[w.process[i]].state

\* A working job without an issue or without a process record.
ReconcileMissing(i, survey) ==
    /\ up /\ w.job[i].status = "working"
    /\ i \notin w.listed \/ w.process[i] = 0
    /\ Perform(Block([w EXCEPT !.parked = IF i \in w.listed
                                    THEN @ \union {<<i, w.job[i].attempt>>} ELSE @], i, survey), survey # "none")

\* requeue_quota: one bounded retry is armed for a congested or killed invocation.
Requeue(x, i) ==
    LET a == [x EXCEPT !.recovery[i].requeues = @ + 1]
    IN  IF x.recovery[i].requeues >= MaxRequeues THEN <<>> ELSE <<a, [a EXCEPT !.retry[i] = TRUE]>>

\* A receipt that failed: admission's feedback, a requeue where it may, block.
ReconcileFailed(i, survey) ==
    LET a == Release(w, i)
        r == IF Receipt(i) = "killed" THEN <<a>> \o Requeue(a, i) ELSE <<a>>
    IN  /\ up /\ w.job[i].status = "working" /\ i \in w.listed
        /\ Receipt(i) \in {"failed", "killed", "lost"}
        /\ Perform(r \o Block(Last(r), i, survey), survey # "none")

\* publish: commit what is there, push, find or create the pull request.
Publishable(i) ==
    LET cl == w.clone[w.job[i].clone]
    IN  /\ cl.branch = w.job[i].branch
        /\ cl.tree # {Main} /\ w.remote[cl.branch] \subseteq cl.tree

Publish(i) ==
    LET c == w.job[i].clone
        a == [w EXCEPT !.clone[c] = Committed(@, w.job[i].branch)]
        b == [a EXCEPT !.remote[w.job[i].branch] = w.clone[c].tree]
        d == [b EXCEPT !.pr[i] = IF @ = "none" THEN "open" ELSE @]
        e == [d EXCEPT !.job[i].status = "pr-open"]
        f == [e EXCEPT !.process[i] = 0]
    IN  <<a, b, d, e, f, Release(f, i)>>

ReconcileSucceeded(i) ==
    /\ up /\ w.job[i].status = "working" /\ i \in w.listed /\ Receipt(i) = "ok"
    /\ Publishable(i)
    /\ Perform(Publish(i), FALSE)

\* Any other failure of publish (the wrong branch, nothing changed, a rejected
\* push, git) repairs or blocks this job.
PublishFailed(i, fault) ==
    /\ up /\ w.job[i].status = "working" /\ i \in w.listed /\ Receipt(i) = "ok"
    /\ ~Paused(w)
    /\ Perform(Repair(w, i, fault), fault # "none")

\* GitHub fails after the push: the pass ends, the receipt is read again.
PublishDeferred(i) ==
    /\ up /\ w.job[i].status = "working" /\ i \in w.listed /\ Receipt(i) = "ok"
    /\ Publishable(i)
    /\ \E n \in 1 .. 3 : w' = Publish(i)[n] /\ w' # w
    /\ UNCHANGED <<up, faults, operator>>

-------------------------------------------------------------------------------
(* Integration and recovery.                                                 *)

\* state.complete: done once, its recovery and retry settings cleared.
Complete(i) ==
    /\ up /\ ~Paused(w) /\ w.job[i].status = "pr-open"
    /\ w.pr[i] = "merged" /\ i \notin w.open
    /\ Perform(<<[w EXCEPT !.job[i].status = "done", !.retry[i] = FALSE,
                           !.recovery[i] = NoRecovery]>>, FALSE)

IntegrateClosed(i, survey) ==
    /\ up /\ ~Paused(w) /\ w.job[i].status = "pr-open" /\ w.pr[i] = "closed"
    /\ Perform(Block(w, i, survey), survey # "none")

\* A conflict with main, a failed push or a failed check: repair.
IntegrateRepair(i, fault) ==
    /\ up /\ ~Paused(w) /\ w.job[i].status = "pr-open" /\ w.pr[i] = "open"
    /\ Perform(Repair(w, i, fault), fault # "none")

\* Up to date and green: the merge is submitted.
IntegrateMerge(i) ==
    /\ up /\ ~Paused(w) /\ w.job[i].status = "pr-open" /\ w.pr[i] = "open"
    /\ Perform(<<[w EXCEPT !.pr[i] = "merged"]>>, FALSE)

\* The recorded checkout while no live job holds it, else a free worker.
Targets(i) ==
    FreeWorkers(w) \union
    {c \in Workers : /\ w.recovery[i].work = "yes" /\ c = w.recovery[i].clone
                     /\ \A j \in LiveJobs(w) : w.job[j].clone # c}

\* recover_job: lease, record, workspace, row, state.retry, launch.  A branch the
\* row does not have is named in the record only, for the attempt that ended.  The
\* retry flag is cleared after the launch; a launch that fails leaves the job working.
RecoverJob(i, c, git, fault) ==
    LET rec == w.recovery[i]
        br == IF rec.branch # None THEN rec.branch ELSE BranchOf(w, i)
        a == [w EXCEPT !.lease = @ \union {i},
                       !.outdated = @ \union ({i} \intersect w.unrecorded)]
        b == [a EXCEPT !.recovery[i].branch = br]
        restored == Cut(IF rec.work = "yes" THEN RestorePreserved(b, i, br, c)
                        ELSE FreshStart(b, br, c), git)
        s == <<a, b>> \o restored.steps
        e == Release(Last(s), i)
        failed == [e EXCEPT !.recovery[i].attempts = @ + 1,
                            !.retry[i] = @ /\ rec.attempts + 1 < MaxRecoveries]
        d == [Last(s) EXCEPT !.job[i] = [@ EXCEPT !.worker = c, !.clone = c]]
        taken == \E j \in LiveJobs(w) : w.job[j].worker = c
        f == [d EXCEPT !.job[i].status = "working", !.job[i].attempt = @ + 1, !.job[i].repairs = 0]
        launch == Relaunch(f, i, fault)
    IN  IF ~restored.ok THEN s \o <<e, failed>>
        ELSE IF taken THEN s \o <<d, Release(d, i)>>
        ELSE s \o <<d, f>> \o launch \o
             IF Raised(launch, i) THEN <<>>
             ELSE <<[Last(launch) EXCEPT !.retry[i] = FALSE]>>

Retry(i, c, git, fault) ==
    /\ up /\ ~Paused(w) /\ w.job[i].status = "blocked" /\ i \in w.listed /\ w.retry[i]
    /\ w.job[i].attempt < MaxAttempts
    /\ w.recovery[i].work \in {"yes", "no"} /\ c \in Targets(i)
    /\ Perform(RecoverJob(i, c, git, fault), git < MaxSteps \/ fault # "none")

\* A job that state.repair blocked before a crash may have no record yet.
RetrySurvey(i) ==
    /\ up /\ ~Paused(w) /\ w.job[i].status = "blocked" /\ i \in w.listed /\ w.retry[i]
    /\ w.recovery[i] = NoRecovery
    /\ Perform(CaptureRecovery(w, i, "none"), FALSE)

\* Mutant: a restart trusts the process records alone.
RecoveredTrusting(x) ==
    [x EXCEPT !.lease = @ \intersect {i \in Issues : x.job[i].status = "working"}]

\* run, on a restart: recover_processes adopts the invocation of an interrupted
\* launch or stops an unowned one; reconcile keeps the leases of working jobs.
Recovered(x) ==
    LET working == {i \in Issues : x.job[i].status = "working"}
        known == {x.process[i] : i \in working}
        adopted(i) == {k \in Spawned(x) \ known :
                          /\ i \in working /\ x.process[i] = 0 /\ x.inv[k].key = x.launch[i]}
        orphans == {k \in Live(x) \ known :
                       x.inv[k].state # "lost" /\ \A i \in Issues : k \notin adopted(i)}
    IN  [x EXCEPT !.process = [i \in Issues |->
                        IF adopted(i) # {} THEN CHOOSE k \in adopted(i) : TRUE ELSE @[i]],
                  !.inv = [k \in Invocations |->
                        IF k \in orphans THEN [@[k] EXCEPT !.state = "stopping"] ELSE @[k]],
                  !.integrity = @ \/ orphans # {},
                  !.lease = @ \intersect working]

Restart ==
    /\ ~up /\ up' = TRUE /\ w' = Recovered(w)
    /\ UNCHANGED <<faults, operator>>

Crash ==
    /\ up /\ faults < MaxFaults
    /\ up' = FALSE /\ faults' = faults + 1
    /\ UNCHANGED <<w, operator>>

\* A stopped service terminates the invocations of its working jobs.
Stop ==
    LET ours == {w.process[i] : i \in {j \in Issues : w.job[j].status = "working"}}
    IN  /\ up /\ faults < MaxFaults
        /\ up' = FALSE /\ faults' = faults + 1
        /\ w' = [w EXCEPT !.inv = [k \in Invocations |->
                    IF k \in ours /\ @[k].state = "running" THEN [@[k] EXCEPT !.state = "stopping"]
                    ELSE @[k]]]
        /\ UNCHANGED operator

-------------------------------------------------------------------------------
(* What runs by itself: the agents, GitHub, the operator.                    *)

\* The agent edits the checkout it was given, on the branch that is there, until
\* it ends: also while its runner is being stopped, or after its runner is lost.
Edit(k) ==
    LET d == w.clone[w.inv[k].clone]
        home == d.branch # None /\ d.branch[1] = w.inv[k].issue
    IN  /\ k \in Live(w) /\ k \notin w.edits \union w.strayed
        /\ w' = [w EXCEPT !.clone[w.inv[k].clone].tree = IF d.branch = None THEN @ ELSE @ \union {k},
                           !.edits = IF home THEN @ \union {k} ELSE @,
                           !.strayed = IF home THEN @ ELSE @ \union {k}]
        /\ UNCHANGED <<up, faults, operator>>

\* The runner writes its receipt: done, a failure of the agent's, or a kill that
\* may be requeued (congestion, a timeout, a stall); a stopped runner failed, and
\* the agent of a lost one ends without a receipt.
Exit(k, receipt) ==
    /\ k \in Live(w) /\ receipt \in {"ok", "failed", "killed"}
    /\ w.inv[k].state # "running" => receipt = "failed"
    /\ w' = [w EXCEPT !.inv[k].state = receipt]
    /\ UNCHANGED <<up, faults, operator>>

\* The runner dies without a receipt, and its agent goes on.
LoseRunner(k) ==
    /\ w.inv[k].state \in {"running", "stopping"} /\ faults < MaxFaults
    /\ w' = [w EXCEPT !.inv[k].state = "lost"]
    /\ faults' = faults + 1
    /\ UNCHANGED <<up, operator>>

\* GitHub closes the linked issue some time after the merge.
CloseIssue(i) ==
    /\ w.pr[i] = "merged" /\ i \in w.open
    /\ w' = [w EXCEPT !.open = @ \ {i}]
    /\ UNCHANGED <<up, faults, operator>>

\* Bounded outside events: the operator's retry, pause, resume and clearing of an
\* integrity error, a pull request closed by hand, an issue that disappears.
Outside(i) ==
    /\ operator < MaxOperator /\ operator' = operator + 1
    /\ \/ /\ ~Paused(w) /\ w.job[i].status = "blocked" /\ ~w.retry[i]
          /\ w' = [w EXCEPT !.retry[i] = TRUE, !.parked = {p \in @ : p[1] # i}]
       \/ w' = [w EXCEPT !.paused = ~@]
       \/ w.integrity /\ w' = [w EXCEPT !.integrity = FALSE, !.paused = FALSE]
       \/ w.pr[i] = "open" /\ w' = [w EXCEPT !.pr[i] = "closed"]
       \/ i \in w.listed /\ w' = [w EXCEPT !.listed = @ \ {i}]
    /\ UNCHANGED <<up, faults>>

\* reconcile_workers visits every working job in every pass.
Reconcile(i) ==
    \/ \E survey \in Surveys : ReconcileMissing(i, survey) \/ ReconcileFailed(i, survey)
    \/ ReconcileSucceeded(i)
    \/ \E fault \in Relaunches : PublishFailed(i, fault)

Supervise(i) ==
    \/ \E c \in Workers, fault \in Faults : Dispatch(i, c, fault)
    \/ \E survey \in Surveys : IntegrateClosed(i, survey)
    \/ Complete(i) \/ IntegrateMerge(i) \/ RetrySurvey(i)
    \/ \E fault \in Relaunches : IntegrateRepair(i, fault)
    \/ \E c \in Workers, git \in 0 .. MaxSteps, fault \in Relaunches : Retry(i, c, git, fault)

Next ==
    \/ \E i \in Issues : Reconcile(i) \/ Supervise(i) \/ PublishDeferred(i) \/ CloseIssue(i) \/ Outside(i)
    \/ \E k \in Invocations : Edit(k) \/ LoseRunner(k) \/ \E r \in {"ok", "failed", "killed"} : Exit(k, r)
    \/ Restart \/ Crash \/ Stop

Spec == Init /\ [][Next]_vars

-------------------------------------------------------------------------------
\* Every live invocation is the process of a working job, is being stopped, or
\* belongs to an issue that vanished from the inventory: a crash anywhere inside
\* a launch leaves no agent that the restarted supervisor does not know.
LiveIsOwned ==
    up => \A k \in Invocations : w.inv[k].state = "running" =>
        LET i == w.inv[k].issue
        IN  \/ w.job[i].status = "working" /\ w.process[i] = k
            \/ i \notin w.listed

\* One agent at a time edits a checkout.
OneWriterPerClone ==
    \A k, m \in Live(w) : w.inv[k].clone = w.inv[m].clone => k = m

BranchesOf(i) == {b \in Branches : b[1] = i}

\* What a checkout holds for issue i: its branches, and the tree when it is on one.
Carries(d, i) ==
    (UNION {d.ref[b] : b \in BranchesOf(i)}) \union
    (IF d.branch \in BranchesOf(i) THEN d.tree ELSE {})

\* Where the edits of issue i are kept: in a checkout, a quarantined one, the remote.
Held(x, i) ==
    (UNION {Carries(d, i) : d \in Dirs(x)}) \union (UNION {x.remote[b] : b \in BranchesOf(i)})

WorkKept(issues) ==
    \A k \in w.edits :
        LET i == w.inv[k].issue
        IN  i \in issues /\ w.job[i].status # "done" => k \in Held(w, i)

\* "Supervisor stopped; work preserved": until its job is done, whatever an agent
\* edited on a branch of its issue is kept there, for an issue of the inventory,
\* as long as the job was never retried from a record that did not cover its edits.
NoWorkLost == WorkKept(w.listed \ w.outdated)

\* docs/agent-operations.md:232: "When a job blocks, the supervisor records a
\* recovery state (branch, original checkout, last known commit, and whether
\* preserved work exists) and commits dirty work-in-progress onto the issue branch
\* while its checkout is still assigned": so a retry loses nothing.
RetryKeepsWork == WorkKept(w.listed)

\* The live jobs' workers differ, and a job works in its own worker's checkout.
WorkersDistinct ==
    /\ \A i, j \in LiveJobs(w) : w.job[i].worker = w.job[j].worker => i = j
    /\ \A i \in LiveJobs(w) : w.job[i].clone \in {None, w.job[i].worker}

\* Admission's leases and the agents agree while the supervisor runs: a lease is
\* a working job's, and every agent that runs for a listed issue is counted by one.
\* A leaked lease would shrink the pool, a missing one would overload the provider.
LeasesMatchAgents ==
    up => /\ \A i \in w.lease : w.job[i].status = "working"
          /\ \A k \in Invocations : w.inv[k].state = "running" =>
                w.inv[k].issue \in w.lease \/ w.inv[k].issue \notin w.listed

\* supervisor.py:101, the prompt of a worker: "Work on existing branch {branch};
\* the assigned branch is already checked out in this clone".
AssignedBranchCheckedOut ==
    \A i \in Issues : w.job[i].status = "working" /\ w.process[i] # 0 =>
        LET k == w.process[i]
        IN  w.inv[k].state = "running" => w.clone[w.inv[k].clone].branch = w.job[i].branch

\* docs/agent-operations.md:232: a retry "recovers under an exclusive clone lease":
\* no agent of a listed issue edits a checkout switched to another issue's branch.
EditsStayHome == \A k \in w.strayed : w.inv[k].issue \notin w.listed

\* supervisor.py:664, on a working job without a process record: "An interrupted
\* launch is never automatically reassigned."
InterruptedLaunchParks == \A p \in w.parked : w.job[p[1]].attempt = p[2]
================================================================================
