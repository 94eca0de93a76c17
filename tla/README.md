# TLA+ models of dcs

This directory holds the formal models kept beside the `dcs` code: TLA+ modules
for the parts whose correctness depends on interleaving, failure or order, the
TLC configurations that check small instances of them, and TLAPS proofs of the
properties that matter most for instances of every size. `PROJECT.json` is the
index: the parts of the system, the runs, the mapping of every definition to
source lines, the hazards and the theorems.

Paths are relative to the repository; `dcs-monitor/src/x.rs` is short for
`crates/dcs-monitor/src/x.rs`.

## 1. The system

`dcs` is a control platform: controllers run a block graph in fixed scans
against a field (simulated here), two controllers can form a redundant pair,
and a monitor inside each controller serves and records the run. Beside it the
repository keeps the Python tooling that develops it.

| part | state it keeps | operations | talks to |
|---|---|---|---|
| plant server (`dcs-sim-net/src/server.rs`) | the writer claim: owner token, holding connections, yielded and controller marks; the simulated plant | one arm of `dispatch` per request, connection end, restart | drivers and tools over TCP |
| `RemoteDriver` (`client.rs`) | one lazily dialled stream behind a mutex, the recorded owner token | claim, claim-unless-held, ensure, reclaim, release, yield, step, read, write; re-attach and re-arm | plant server; called by scan and HTTP threads |
| redundant peer (`dcs-runtime/src/peer.rs`, `gate.rs`) | role, sync verdict, miss count, convergence proof, write gate, loss marks | track, scan, promote, demote, final sync, self-promotion, reclaim | its source's checkpoints, the claim hooks |
| monitor (`dcs-monitor/src/lib.rs`) | the mutex around the executor, tracking source, pairing | tracking cycle, switchover, command and history requests | peer, recorder, other controllers over HTTP |
| controller shell (`dcs-controller/src/main.rs`) | the process: threads, drivers, hooks | the scan loop, startup claim, signal handling | everything above |
| drain (`dcs-monitor/src/drain.rs`) | a bounded channel, counters, first failure | push, writer loop, health, waits, drop | recorder; the files |
| journal, history, state files | append-only lines or one replaced document | open, lock, replay, write | recorder; the next process lifetime |
| recorder, store | last values, seq, served rings | record a scan, push an entry, publish | drain, HTTP readers |
| executor, checkpoint | block state, points, commands and receipts | scan, submit, checkpoint, restore | drivers, peer |
| driver fan-out (`dcs-assembly/src/drivers.rs`) | one driver per backend | claim all, roll back | drivers |
| simulated fieldbus (`dcs-sim-bus`) | its own claim | claim, release, exchange | drivers |
| blocks (`dcs-blocks`) | per-block state | `step` | executor |
| plant physics, model, build tools, EtherCAT | | | |
| agent pool: supervisor (`agent_pool/supervisor.py`, `state.py`, `runtime.py`) | SQLite rows of jobs, settings (launch intents, retries, process records); invocation directories; worker checkouts | reserve, launch, reconcile, publish, integrate, repair, recover, retry, stop | GitHub, git, agents that outlive it |
| agent pool: admission (`admission.py`) | leases, outcomes, per quota group a target, a mode, a cooldown and an episode | reserve, attach, finish, useful, release, reset, reconcile | supervisor |
| agent pool: review lane and planner (`supervisor.py`, `review.py`, `scheduling.py`, `planning.py`) | review rows, candidates, the pending proposal, the active improvement | review, ingest, plan, publish, dispose, refresh, dispatch | reviewer and planner agents, GitHub |
| agent pool: findings lane (`findings.py`) | findings, ingested reports, the verification stash | ingest, route, follow fixes, certify, write the queue | QA lane's reports, GitHub, planner |
| QA lane (`qa_lane/runner.py`, `verify.py`, `state.py`, `report.py`) | run records, staged sources, run directories, pins, marks; containers | a cycle: reconcile, pin, reclaim, pick, run, report | findings lane through a relay |
| QA scenarios, reference-plant CI legs, scripts | none of the system's | test scripts | running containers |

What is hard to get right:

* **One writer to the field.** Two controllers and any tool may believe they
  own it. A request may time out at the client and still be executed; a link
  may end, a server restart, a token be re-asserted late. Correct means: only
  live connections of one token are accepted, a live controller is not
  unseated by anything but an explicit promotion, and no forgotten token acts.
* **Role changes of a peer.** There are six ways to gain or lose ownership, on
  two threads. Correct means the gate follows the role, the marks of an earlier
  loss never steer a later one, and an operator's switch stands.
* **Durability off the scan.** The scan must never wait for a disk, and an
  answer that promises durability must not be early. Correct means that queue,
  counters and file agree whatever the order of the threads, that waits end,
  and that a failure is reported as one.
* **Work that outlives its supervisor.** Agents run on when the supervisor dies
  between any two commits. Correct means: an agent is owned or stopped, a
  checkout has one agent, unmerged work is never overwritten, leases and slots
  are returned, a penalty is paid once.
* **A verdict that travels.** A finding, its fix and the replay that certifies
  it live on two hosts joined by files. Correct means: only a passing replay of
  the waiting fix certifies, no evidence a verification needs is reclaimed, no
  issue is opened twice, and a verdict reported is applied.
* **One audit trail over many lifetimes.** Processes die mid-write and two may
  be pointed at one file. Correct means that numbering never repeats.

The hazards behind this list are in `PROJECT.json`, each at its line.

## 2. The modules

```
SingleWriter  <-- refines --  FieldAttachment  --EXTENDS-->  WriterClaim
                                 |
                       FieldHandback  <--EXTENDS--  FieldAttachmentProofs
Peer  <--EXTENDS--  StandbyPeer  <--EXTENDS--  StandbyPeerProofs
Drain  <--EXTENDS--  DrainProofs
JournalFile  <--EXTENDS--  JournalFileProofs
Admission  <--EXTENDS--  AdmissionMC, AdmissionProofs
AgentPool  <--EXTENDS--  AgentPoolProofs
ReviewLane  <--EXTENDS--  ReviewLaneMC, ReviewLaneProofs
QaReport  <--EXTENDS--  Findings, QaLane  <--EXTENDS--  QaChain  <--EXTENDS--  QaChainProofs
```

### WriterClaim: the claim and its arbitration

No variables: each operator is one arm of the server's `dispatch`, a function
from the standing claim, the connection and the request to the claim left
behind and the verdict. A claim is a record of owner, holders, `yielded` and
`controller`; `NoClaim` is `writer: None`. The `monitor` endpoint and the plant's
points are left out, no decision reads them.

### FieldAttachment: driver, link and server together

State: `claim` is `Shared.writer`; `up`, `dialer` and `wire` are the server's
connections and what is in flight on each; `stream`, `owner` and `lock` are a
`Connection`'s fields and mutex; `call[d][t]` is the driver method a thread is
inside. A method is cut where the code leaves a critical section: `Start` (the
release paths forget the token here), `Send` or `Dial` (an exchange under the
connection mutex, after `reattach` when there is no stream), `Attached` (the
re-armed token is answered), `Receive`, and `Settle`, the critical section in
which the answer records or forgets the token. `Dispatch` executes a request
whether or not its sender still waits. `FailExchange`, `NoLink`, `CloseConn`,
`Restart` and `Crash` are the faults, together at most `MaxFaults`.

Who may call what, when, comes from the controller: the monitor mutex
serialises everything but the plant step, which `scan_loop` runs outside it,
and an HTTP promotion needs a tracking cycle of the scan thread since the last
ownership (`MayStart`). `Uses` bounds the calls an instance explores.

`SingleWriter` is the promise: one claimant at a time, and every mutation the
plant accepts is the claimant's. The refinement maps `claimant` to
`claim.owner`. `FieldHandback` adds one history variable that remembers who
yielded.

### Peer and StandbyPeer: one peer in any environment

`Peer` has no variables: a peer is a record and each operator a method of
`peer.rs` as a function of it and of what the outside answered. `StandbyPeer`
owns one peer and lets the outside answer anything: any checkpoint, any probe,
any answer of a claim hook, at every cycle. Its steps are those of
`tracked_cycle` between which the monitor's lock is free (track, diagnose,
scan), with the HTTP requests `Promote`, `PromoteSynced` and `Demote` between any
two of them. `attempted`, `line` and `taken` are history variables for the
properties. Tick arithmetic is reduced to aligned or not, and the image staged
for the divergence check to staged or not.

### Drain: the queue in front of a file

One producer (pushes are serialised by the executor lock), the writer thread
and the waiting request threads. Each load or update of a shared counter is a
step, because the counters are atomics read without a lock: `push` is
`PushCheck`, `PushCount`, `PushSend` and, refused, `PushRefused`; the writer loop is
`Recv`, `Take`, `WriteDone` or `WriteFailed`, `CountDrained`, `RecordFailure`,
`CountLost`; a wait loads `accepted`, `taken`, `drained` and `lost` one by one and
then tests. `Attest` is `StateSink::attest` over `wait_through`, `Flush` is
`wait_drained`. A record is its position in push order. The disconnected arm of
`try_send` is unreachable: the writer ends only after the sender is dropped.

Concurrent pushes are not modelled. The code serialises them; without that,
the remark on `push` that ordinals are never duplicated would not hold (one push
counts k+1, a second k+2, the first is refused and gives one back, a third
counts k+2 again).

### JournalFile: the file over process lifetimes

Processes open one path: take the advisory lock, replay, mark a boundary,
append entries, and end at any point. A write may be cut before the record is
whole (`torn`) or just before its newline (`bare`); a record written behind a bare
one shares its line (`fused`). The history file's `open`, `replay` and `write` are
the same code with other record types, and the module stands for both.
What replay rebuilds from the entries' content is left out. The order in which
`AppendEntry` takes seqs is what `Drain` proves of the queue.

### Admission: the ledger in front of every launch

Each method of `Admission` is one transaction, hence one action; `Reconcile` is
the supervisor's restart. A lease carries the groups its model spends and the
time it was granted; a group carries its target, mode (normal, probing,
blocked), cooldown and the time of its last congestion. `classify` is modelled by
what it does: the words found in a log and the exit status give a category, the
provider's hint is capped. A report without a lease charges the groups of its model
(`Charged`). Time is an integer clock. `overtaken` and `congested`
are history variables.

### AgentPool: jobs, launches and recovery

`w` is the durable world: rows, invocation records, checkouts, branches and pull
requests. A handler of the loop makes several commits and the supervisor may die
after any of them, so a handler is written as the sequence of the worlds its
commits produce, and an action (`Perform`) takes all of it, or a prefix and a
crash. Content is a set of invocations, so that lost work is visible as a
missing member. Agents end on their own, before or after the supervisor, and a
runner may die before its agent (`LoseRunner`): its receipt then reads as a failure,
while `Owned` still counts the checkout as taken.

A branch is an issue and an attempt. The row, the recovery record and the checkout
each name one, and the code lets them differ: `launch` names a branch for the row of
its own attempt (`BranchOf`), `recover_job` restores the one it names for the attempt
that ended and writes it to the record only (`RecoverJob`). `Survey` has the four
answers of the code: nothing without a branch, a ref or a difference; something with
uncommitted edits, committed or not, and with a head that could not be compared;
unknown when anything else raised.

Abstractions: a survey fails as a whole ("probe"), while the code may miss a single
checkout; where several other checkouts have the branch, which of them comes first is
chosen once and not by name; an agent edits once; a git failure inside a restore or a
launch cuts it after any of its commits.

`edits`, `strayed`, `unrecorded` and `outdated` are history: which invocations edited
a branch of their issue or another's, which issues have edits their recovery record
may not cover (an agent was launched, or a survey left an owned checkout uncommitted,
since the record was written), and which issues were retried from such a record.
`NoWorkLost` speaks of the listed issues that are not outdated; what happens to the
others is item 13 of section 5.

### ReviewLane: reviewer, planner and the improvement slot

The same form, for the lanes around the jobs. A review row, the launch intent
and the reviewer's record are separate commits; an intent is never cleared. The
planner's proposal is stored, published item by item up to the frontier, its
decisions applied, and only then forgotten: `Publishable` is what the frontier has
room for, `Issuing` and `Disposing` the states a crash between two commits of the
publication leaves, `Published` its end. `fresh` holds the issues published
after the pass read its inventory: dispatch and `refresh_improvements` do not see
them. A job is `working` from its reservation to its merge. An issue carries a
candidate by its `improvement` field or by its key, which may be `arch-<key>` or
extend it (`KeyPrefixes`, `Carries`).

### QaReport, Findings, QaLane, QaChain: from a defect to a verified fix

`QaReport` has what both hosts share: revisions, a run's report, the findings
derived from it. `Findings` is `findings.poll`, one function after the other, one
finding at a time, each handler a sequence of commits that a crash may cut.
`QaLane` is the cycle on the rig host with its gates in the code's order. `QaChain`
joins them by a relay (a script outside the repository, marked external) that
carries reports and the queue when it gets to it, may deliver a report twice,
and publishes new revisions. A case may end before it captured anything: its
verdict then has no evidence, and `Admissible` leaves it unapplied. `Awaits` and
`Settles` say which verdicts the chain owes an application.

## 3. The runs

Deadlock is checked in the field, peer, drain and journal runs. The others may
stop: their bounds on invocations, time and revisions run out.

| run | instance | what it shows |
|---|---|---|
| `field_pair` | two controllers, one of them with an HTTP thread, three connections, one fault | `FencingSound` and its inductive `FencingInv`; `ForgottenNeverHolds`: an idle driver with no recorded token holds nothing; `IncumbentKeepsField`; the refinement of `SingleWriter` |
| `field_tool` | a controller that steps and demotes on its scan thread, beside a tool | `HandedBackStaysForgotten`, `ForgottenNeverHolds`, `IncumbentKeepsField`; `RecordedTokenResolves` under fairness |
| `handback_race` | the same with the demotion over HTTP | violated, see section 5 |
| `peer` | budget 2, no revised model | `PeerInv` and its three readable parts, `YieldedStaysAside`, `UnownedLineDefers` |
| `drain` | queue of 2, 4 pushes, one wait at a time | `DrainInv`, `AttestHonest`, `LossHasItsFailure`; `WaitsEnd` and `DropCompletes` under fairness |
| `journal` | two processes, 7 lines | `JournalInv`, `OneSequence` |
| `journal_tail` | two processes, 6 lines | violated, see section 5 |
| `admission` | two owners, two models in overlapping groups, three invocations | `AdmissionInv`, `OneLiftingProbe`, `ProbeLiftsOwnEpisode`, `PenaltyOncePerInvocation` |
| `pool` | two issues, two checkouts, two invocations, two attempts, one crash, lost runner or failure, one operator command | `LiveIsOwned`, `OneWriterPerClone`, `NoWorkLost`, `WorkersDistinct`, `LeasesMatchAgents` |
| `review` | improvement `a` of two chained issues, one of them by its key alone, improvement `b` of one, no key a prefix of the other, capacity 2, two reviews, one crash, stop or pause | `CapacityKept`, `AcceptedIsMapped`, `SlotNotStranded` |
| `qa_chain` | one scenario, one capability, two revisions, three runs, one fault | `CertifiedByReplay`, `OneIssuePerCycle`, `OneRig`, `PendingEvidenceKept`, `LessStaysPending`: nothing but a verdict with evidence ends a wait; `VerdictApplied` under fairness |
| `qa_routing` | the same without a fault | violated, see section 5 |

Every property of a passing run has a mutant in `PROJECT.json`: a plausible bug
in the code, written as an operator next to the one it replaces, under which
TLC finds the property violated.

**Bounds.** Three connections let one process re-dial while an abandoned
connection of each process is still served, which is what a late execution
needs. One fault is enough for each kind of fault to meet every phase of an
exchange; the safety proofs hold for any number. `Uses` splits the
calls over the two peers so that each claiming call is made by one of them.
Connection ids are interchangeable, hence the symmetry set, which is used for
safety only. A budget of two distinguishes below, at and past the budget, and
`Bump` stops counting one past it, after which nothing in the code tells counts
apart. In `Drain` four pushes against a queue of two fill it, refuse one and
leave records behind a failure; waits write nothing that another thread reads,
so a second waiter would add no behaviour, and the proof covers any number.
`Word` stands for 2^64. In `JournalFile` seven lines hold three lifetimes with
entries in each. In `Admission` three invocations let an old lease, a probe and a
newcomer report on one group in any order. In `AgentPool` two invocations of one
job are an original and its relaunch, and one crash meets every commit of every
handler; a second job competes for the other checkout. In `ReviewLane` two
reviews are a slot's run and its retry, or the runs of two slots. Once both are
made no new slot begins and no manual run is asked for: neither could have an effect
under that bound. In `QaChain`
three runs are an assessment that finds, a verification, and one more that a
crash or a replaced fix needs; two revisions are the defect and its fix.

**Fairness.** `field_tool` assumes that threads run, that an exchange is
answered or times out, that the server executes what arrived and reaps ended
connections (weak fairness of each), and that `scan_loop` reaches its plant step
again and again (strong fairness, because other calls of the same thread come
between). Nothing is assumed of dialling succeeding while faults last: faults
are finite, so the property says what happens once they stop. `drain` assumes
that a thread keeps running and that a write ends, well or badly; `Drop`'s own
comment says it waits for a stalled write. The wait's deadline is not relied on:
`WaitsEnd` holds without it ever firing. `qa_chain` assumes that the supervisor
polls again and again and that the relay's timer carries every report once;
the lane's own cycles are not assumed to run. Pushing, closing, attesting and
switching over are never assumed to happen.

## 4. The proofs

Eight modules hold proofs, checked by TLAPS with Z3, Zenon and LS4. What they need
of the constants is in the named assumptions of the modules they extend, which
TLC evaluates on every run.

**FieldAttachmentProofs**, for any set of processes, tokens and connections and
any number of faults, from `TokenAssumption` and `DriverAssumption`.
`FencingSound` is not inductive: a request in flight could carry anybody's token.
`FencingInv` adds that what is in flight is on a live connection and asks for its
dialer's own token (`WireSound`), that a stream is its dialer's end of that
connection (`StreamSound`), that a process records only its own token
(`TokenSound`), and that the thread in an exchange holds the mutex
(`ExchangeSound`). One lemma per arbitration rule shows that it adds nobody but the
requester and keeps holders only under the same owner; one lemma per action
shows that the action preserves the invariant. Theorems: `FencingIsSound`,
`FieldIsFenced`, and the refinement `FieldImplementsSingleWriter`, whose only
interesting step is `Dispatch`: an accepted mutation comes from a holder, and
`FencingInv` makes the holder's token the claim's.

**StandbyPeerProofs**, for every budget and with or without a revised model,
from `BudgetAssumption` and `RevisedAssumption`. `PeerInv` joins the three
properties with `StartupOwed` (a startup grant still owed belongs to a standby
that never owned the field), without which the scan's hook could promote a
peer that carries a yield mark. The lemmas are one per method of the peer.
Theorems: `PeerIsSound`, `GateIsSound`, `OwnerIsSound`, `ProofIsHonest`, and the
action properties `YieldIsKept` and `UnownedDefers`. The last one has the hypothesis
`~Revised`, without which it is false (`StandbyRevisedMC`, section 5), and rests on
`LineSound`: a standby whose line last reported no owner has either the verdict
`orphaned` and no foreign writer named, or `usurped` and one named, or `degraded` and
no convergence proof, since a refused checkpoint keeps the line's report but voids
the proof. Only the first may promote, and it asks conditionally.

**DrainProofs**, for every capacity and any set of waiting threads, from
`DrainAssumption`. `AttestHonest` needs the file's content tied to the counter
(`SinkSound`), which needs the record in the writer's hand tied to the queue's
order (`QueueSound`) and the counters to each other and to the failure flag
(`AccountSound`); `WaitSound` says that a wait's loads are lower bounds of the
counters and that its verdict follows from them. Theorems: `DrainIsSound`,
`AttestsAreHonest`, `LossesAreNamed`.

**JournalFileProofs**, for any processes and any number of lines, from
`JournalAssumption`. `OneSequence` rests on what the next write will number:
`LockSound` (a process past the lock is its holder, so a write meets no other
process mid-run), `NumberSound` (its next seq and run are past all the file
holds) and `RunSound` (no boundary is numbered past the boundaries there are, so
the count replay makes is a fresh number). Lemmas say what an appended and what
a fused line leave of the file's numbers, order and count. Theorems:
`JournalIsSound`, `TrailIsOneSequence`.

**AdmissionProofs**, for any models, groups, owners, receipts and configured
bounds, from `ConfigAssumption`. `AdmissionInv` says of every lease that its grant
is not in the future and that each group it was overtaken on is open again or
congested since the grant (`LeaseSound`), and of every group that its dates lie in
the past (`Dated`); without these a probe granted before a congestion could count
as one after it. `OneLiftingProbe` follows with one lemma per action.
`LiftIsCausal` and `PenaltyIsSpentOnce` are action properties from the same
invariant. Theorems: `AdmissionSound`, `SingleProbe`, `LiftIsCausal`,
`PenaltyIsSpentOnce`.

**FieldAttachmentProofs**, second part, from the same assumptions and
`ToolAssumption` (a tool's token is no controller's), takes the three properties
about who loses or forgets the field. They rest on a chain of invariants, each inductive given those
before it. `ThreadSound` says what the monitor mutex leaves: two threads are
inside one driver only as the scan thread's plant step beside an HTTP demotion.
`OriginSound` and `ControllerSound` tie a request and the server's controller
mark to the process that made them; with them no request but an outright claim
replaces a controller that did not yield (`IncumbentIsKept`). `LinkSound` says
what a stream carries while the mutex is free; `AnswerSound` that a connection
answered `fenced` holds nothing, `ForgetSound` that it still holds nothing when
that answer is settled in a later critical section, and `HoldSound` that a driver
with no token recorded holds the field only while a call is on its way to give it
up or to record it. An idle driver has no such call: `ForgottenIsUnheld`.
`HandbackIsForgotten` has the hypothesis `Http = {}`, a process whose demotions
come from the scan thread. It is what the deployment without switchover calls
has, `field_tool` is an instance, and without it the statement is false
(`handback_race`).

**AgentPoolProofs**, for any issues, workers and bounds, from `PoolAssumption`. A
handler is a sequence of worlds and a crash may leave any of them, so the
invariant has two strengths: `DownInv` holds of every world in every trace,
`UpInv` of the last one. `DownInv` says that live jobs have distinct workers
(`Distinct`), that a checkout has one live agent (`OneWriter`), that process
records and intents are their issue's (`Processes`, `Intents`), that launch keys
are unique and never ahead of the job's attempt and repair counts (`Launched`,
`UniqueKeys`), and that an agent that runs is under a lease (`Leased`). `UpInv`
adds what a handler restores before it ends: a running agent is its job's process
and a lease is a working job's. In between, `Phase` keeps `UpInv` for the other
issues and says that nothing runs for this one. One lemma (`TouchKeeps`) covers
every commit about a single issue; the operators (`Block`, `Launch`, `Repair`,
`RecoverJob`, `Publish`) are then walked commit by commit, and `SpawnRuns` is the
only place where an agent appears. `RecoveredUp` shows that `recover_processes`
turns any `DownInv` world into an `UpInv` one: keys are unique, so at most one
invocation answers to an intent. A lost runner owns its checkout as a running one
does, so it is in `OneWriter` and in no lease. Git, branches and recovery records are
left arbitrary: these four properties do not depend on them. Theorems: `PoolIsSound`,
`NoAgentIsLost`, `OneAgentEdits`, `WorkersAreDistinct`, `LeasesAreAgents`.

**QaChainProofs**, for any scenarios, capabilities, runs, revisions and faults,
from `QaAssumption`, `FindingsAssumption` and `LaneAssumption`. `ShapeInv` types
the state and says what each place of the two loops implies of what they hold.
Two relations replace the handlers: `Follows` is what any prefix of a handler may
do to the values of one key (a status never skips the fix it waits for, an issue
is appended only under a fresh marker, an entry certifies only the fix of its
finding), `RunsStep` what a step of the lane may do to a run record. Every handler
is shown to satisfy them once, and the invariants are proved from them.
`HostHasOneRig`: a run starts its rig only on a clean host (`RigInv`).
`IssuesAreOnePerCycle`: markers are distinct (`MarkersInv`) and in
`1 .. MaxFixCycles`, so there are no more issues than markers.
`VerifiedWasReplayed`: a passed entry is backed by a run wherever it is, in the
lane's report (`ReportsInv`), the inbox, the supervisor's hand or the stash
(`HeldInv`), and run records keep their verdict and whether it had evidence.
`OnlyVerdictsSettle` reads the same facts at the step that ends a wait. `EvidenceIsKept`: a fix is the
merge of one issue and revisions only grow (`FixInv`), so an item that left the
queue is of a fix cycle that is settled and never comes back (`QueueInv`); hence
no item is pushed after a cycle computed its pins without it (`PinsInv`). The least
and greatest elements the model chooses exist by the well-foundedness of the
naturals.

**ReviewLaneProofs**, for any issues, improvements, dependencies and bounds, from
`ReviewAssumption`. `LaneInv` has the two strengths of the pool's: `Sound` holds of
every state a crash may leave behind, `Attended` of those the supervisor has
between two handlers. `Sound` counts the running agents themselves (`Within`), not
the reviewer on record, and `Attended` says that a reviewer who runs is the one on
record; together they make `slots_used` an upper bound where it is asked, and
`recover_processes` restores the second. `Accepted` says that an accepted candidate
has its issue, or that a pending proposal accepts it and an issue to carry it
exists: that is what a crash between the acceptance and the mapping leaves, and
what the next publication needs. `OnePlan` (a planner on record means no pending
proposal) keeps a second proposal from replacing the one that is owed. `Quiet` is
what a commit of the review lane may do to the rest; the handlers are walked
commit by commit, `SpawnSound` and `JobSound` are the only places where an agent
appears. Theorems: `LaneIsSound`, `CapacityIsKept`, `AcceptedStaysMapped`, and
`SlotIsNotStranded` under two hypotheses: `NoCrossing`, an issue waits for issues of
its own improvement or of none, and `KeysApart`, an issue that carries a candidate by
its key has no other improvement in its field. Without either the statement is false
(`ReviewStrandMC` and `ReviewPrefixMC`, section 5); the `review` run is an instance
with both. The argument:
an issue that holds the slot and is not stalled waits only for issues that are
not stalled either; dependencies point to smaller numbers, so the least such issue
waits for nothing and is ready. That the recursion `stalled` satisfies its own
equation is not for the prover to assume: `StallFixedPoint` shows that its rule has
a fixed point, the least set closed under it.

Only model-checked, and why:

* the liveness properties, whose fairness involves ENABLED: `RecordedTokenResolves`,
  `WaitsEnd`, `DropCompletes`, `VerdictApplied`;
* `NoWorkLost`: its inductive strengthening has to relate the branches that the row,
  the record, every checkout and the remote name, over every reset and forced fetch;
  it is planned (section 7).

Every other safety property of a passing run is a theorem. Three have hypotheses that
name the instance (`Http = {}`; `~Revised`; `NoCrossing` and `KeysApart`), without
which they are false.

## 5. What the runs found

Each is a counterexample of TLC. The first three are runs of the project, with
an entry under `findings`; for the others the configuration is kept here, to be
run by hand (`tlc -config X.cfg Module`).

1. `handback_race`. `try_rearm` copies the token, releases the mutex, asks the
   server and records the token in a later critical section. The plant step runs
   outside the monitor mutex, so a demotion over HTTP can forget the token in
   between; the token is then recorded after the hand-back.
2. `journal_tail`. A record cut just before its newline replays as whole, and
   the boundary marker is then written on the same line. That startup succeeds
   and every later one fails.
3. `qa_routing`. A case that is inconclusive in one completed run is filed as
   infrastructure; when a later run fails it, `ingest_report` only refreshes the
   row and the defect gets no issue.
4. `StandbyBudgetMC.cfg` (`StandbyPeer`, `BudgetBoundaryAttempted`). A final pull,
   or a refused checkpoint of an unowned line, can be the budget-th miss. Neither
   attempts the promotion, and the boundary passes with no attempt and no named
   refusal.
5. `StandbyRevisedMC.cfg` (`StandbyPeer`, `UnownedLineDefers`). Reinitialising from
   a line that owns nothing leaves the verdict `Reinitialized`, under which a
   promotion claims unconditionally.
6. `DrainHealthMC.cfg` (`Drain`, `DepthHonest`). `health()` loads `accepted` before
   `taken`; a push and a take in between make `accepted - taken` underflow.
7. `AdmissionGrowthMC.cfg` (`AdmissionMC`, `GrowthAfterQuietWindow`). A congestion
   reported while the group is already probing does not restart the quiet
   window, so the target may rise right after recovery; the operations guide says
   "a new congestion event restarts the window".
8. `AgentRelaunchMC.cfg` (`AgentPool`, `InterruptedLaunchParks`). A relaunch that is
   interrupted leaves its retry armed, and the parked job starts again by itself;
   the comment at the parking says an interrupted launch is never automatically
   reassigned.
9. `QaResumeMC.cfg` (`QaChain`, `IngestResumes`). A new finding's row is inserted
   with the status of an open issue before the issue's number is set; a crash in
   between leaves a row no later pass completes, though `ingest_report` says the
   pass resumes and finishes.
10. `ReviewStrandMC.cfg` (`ReviewLaneMC`, `SlotNotStranded`). An issue of the active
    improvement that depends on an open issue of another improvement is not
    `stalled`, since that issue could be dispatched; but the slot keeps it from
    being dispatched. The slot is then held for ever, and the docstring of
    `refresh_improvements` says a stalled strand must not hold it.
11. `ReviewActiveMC.cfg` (`ReviewLaneMC`, `OneActiveImprovement`). `retries` does not
    ask for the slot: the retry of a blocked job runs beside the improvement that
    took the slot meanwhile. The operations guide says only one is active at a
    time. A crash between the reservation and the claim of the slot does it too.
12. `ReviewPoisonMC.cfg` (`ReviewLaneMC`, `PassCompletes`). A proposal that names a
    nonexistent issue number passes `validate`, raises in `planner` and stays
    pending: every later pass ends there, before retries and dispatch.
13. `AgentOutdatedMC.cfg` (`AgentPool`, `RetryKeepsWork`). A retry restores what the
    job's recovery record says, and the record may be older than the edits.
    `state.repair` blocks the job in a transaction of its own (`state.py:313`),
    before `block` records anything; after a crash in between, an earlier attempt's
    record is still there, and `retries` surveys again only when there is none
    (`supervisor.py:1343`). A retry into a checkout other than the recorded one
    fetches the branch there by force and resets it to the recorded head
    (`supervisor.py:277`), also when that checkout is the one whose branch is ahead:
    only git's reflog has the newer commits then. It also happens when a survey meets the job's checkout while a stopping agent still
    owns it: its edits are left uncommitted and unrecorded. The instance sets
    `MaxRepairs` to 0 to reach the block early; the code's 3 only makes it longer.
    The operations guide (`docs/agent-operations.md:232`) says that when a job blocks
    the supervisor records its state and commits its work in progress. `NoWorkLost`
    therefore leaves out the issues that were retried this way, and the `pool` run
    checks it for all others.
14. `AgentBranchMC.cfg` (`AgentPool`, `AssignedBranchCheckedOut`). A launch that fails
    before it wrote its branch, say in `prepare_clone`, leaves a row without one. The
    operator's retry then restores `codex/issue-<n>-1`, named in the record only
    (`supervisor.py:322`), counts the next attempt, and `launch` writes
    `codex/issue-<n>-2` to the row (`supervisor.py:392`); it compares branch and
    checkout only for a prepared checkout (`supervisor.py:403`). The agent is told
    that its assigned branch is checked out (`supervisor.py:101`), which is not so.
    Publication then raises each time, and the survey of the row's branch finds no
    ref and records that there is no work (`supervisor.py:239`), although the other
    branch has the edits. A checkout keeps them, which is what `NoWorkLost` asks; no
    later retry restores them.
15. `AgentStrayMC.cfg` (`AgentPool`, `EditsStayHome`). `restore_preserved`, when it
    restores into the recorded checkout, does not ask `clone_owned` before it switches
    the branch (`supervisor.py:246`), as `prepare_clone` does. The agent of a lost
    runner may still edit there, and its edits then go to another issue's branch. The
    operations guide (`docs/agent-operations.md:232`) says that a retry recovers under
    an exclusive clone lease.
16. `ReviewPrefixMC.cfg` (`ReviewLaneMC`, `SlotNotStranded`). An issue is mapped to
    every accepted candidate whose `arch-<key>` its own key extends
    (`supervisor.py:1078`, `1086`). With candidates `foo` and `foo-bar` the issue of
    `foo-bar` counts for `foo` too: while `foo` has the slot it is in the lane of
    another improvement, is not dispatched and is not `stalled`, and the slot is held
    for ever.

Smaller remarks, with no run: `attest` may report a failure for a record that
did land, when it loaded `drained` before the record was counted and `lost` after
a later one was; its promise is one-sided (`Ok` only when durable) and holds.
`write_all` can leave a torn last record, where the drain's header says a failed
write ends the file at the last whole one; replay refuses such a file by name.
The review lane's launch intent is never cleared, so a restart adopts the last
review again even when it ended long ago, and ingests it twice. A retry of a
review that admission denies is lost: the mark is cleared before the question. An
issue created just before a crash is mapped to its improvement later only if the
proposal also decides that candidate. A verdict without evidence
(`qa_lane/scenarios` has cases that fail before they capture anything) leaves its
finding waiting, as the ingestion guide says, and the lane does not replay it on the
same revision (`verify.py:260`): it waits for the next revision. In `QaChain`
`VerdictApplied` asks for the application of a verdict with evidence only.

## 6. Not modelled, and why

* Executor, checkpoint, recorder, store, pairing, source resolution, driver
  fan-out, simulated fieldbus, state file replacement: planned, below.
* Regulators, filters and plant physics: arithmetic over `f64`, no protocol.
* EtherCAT: hardware I/O. Model loading and build tools: offline conversion.
* HTTP framing, JSON, options, logging: conversions with no property here.
* Agent pool: factory mode, merge flow and mechanical merge resolution, area
  allocation, the review lane's rollout stage and assessments, the dashboard,
  redaction and report validation.
* QA lane: exploratory runs (an agent's own), images, caches and the daily
  budget; the explorer, shipping, network policy and rig model. The levers of
  `runner.py` (lines 1009 to 4235: restart, pause, park or stall a container for a
  scenario) are stateless wrappers around docker calls.
* Test scripts. By far the most Python of the repository is black-box tests:
  `qa_lane/scenarios` (about 96 000 lines) and `reference-plant/ci` (about 105 000).
  Each is a sequential script with a judge of its own against running
  containers. They keep no state of the system, so there is nothing in them to
  model; the behaviour they exercise is that of the peer, the field, the drain
  and the files, which are modelled from the code that has it. This is why the
  mapped share of the Python lines is small: what can be modelled of them is the
  agent pool and the QA lane's own logic, some 7000 lines.

## 7. Plan

Done so far: field ownership (`WriterClaim`, `FieldAttachment`, `SingleWriter`,
`FieldHandback`), one peer (`Peer`, `StandbyPeer`), the drain, the journal file,
with proofs for all of them; the agent pool's admission and its jobs, with
proofs, its review lane and planner, with proofs; and the chain between the QA lane and the
findings lane, with proofs.

Next, in this order:

1. `RedundantPair`: two `Peer`s over one `WriterClaim`, with checkpoints pulled
   from each other. At most one open gate whose writes land; failover after a
   crash; the operator's switch from both ends. An abstract pair (one owner,
   handed over) for it to implement.
2. `Durability`: `Drain` in front of `JournalFile` with a crash. A seq a reader
   was served is never given to another entry; the state file's
   write-then-rename and its order against the journal.
3. `CommandAudit`: operator commands, receipts and their settlement across
   scans, hand-overs and restores (executor, carry-over, recorder).
4. `TickAlignment`: the offset arithmetic a standby uses to compare images.
5. `ClaimFanout`: several claims taken one after another and rolled back; and
   the simulated fieldbus as a variant of `WriterClaim` whose claim dies with
   its last holder.
6. Source resolution and the checkpoint puller of the monitor.
7. The discrete blocks (sequencer, latching alarms, group coordinators) as
   per-scan state machines against their declared behaviour.
8. Factory mode and the merge queue of the agent pool; exploratory runs of the
   QA lane.

Proofs to add: the pair's single open gate; `NoWorkLost`, from what each of row,
record and checkout has of each branch.
