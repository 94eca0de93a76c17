------------------------------- MODULE Admission -------------------------------
(***************************************************************************)
(* The agent pool's admission ledger (agent_pool/admission.py): every       *)
(* managed invocation holds one lease before it is spawned, and every       *)
(* receipt feeds the adaptive state of the quota groups of its model.  Each *)
(* method is one SQLite transaction (BEGIN IMMEDIATE ... commit), so one    *)
(* action; the supervisor may crash between any two of them.                *)
(*                                                                          *)
(* Time is an integer clock.  A NULL column is None = -1; the clock starts  *)
(* at 0 and is cut at MaxTime.  Jitter is a choice in 0 .. MaxJitter.  A    *)
(* lease's overtaken field is history: the groups on which provider feedback*)
(* was recorded since its grant.  No action's guard reads it.               *)
(***************************************************************************)
EXTENDS Integers, FiniteSets, FiniteSetsExt

CONSTANTS
    Owners,         \* lease owners: job:<n>, planner, reviewer
    Models, Groups, \* model identifiers and quota groups
    GroupsOf,       \* group_names: the groups whose budget a model spends
    Initial, Ceiling, Minimum, ExternalSlots,   \* per group, from the config
    Limit,          \* the pool's capacity, the global bound on leases
    Quiet, Cooldown, MaxCooldown, HintCeiling, MaxJitter,
    Receipts,       \* the receipts an invocation may end with
    MaxInvocations, MaxTime, MaxResets

None == -1
MaxOf(a, b) == IF a >= b THEN a ELSE b
MinOf(a, b) == IF a <= b THEN a ELSE b

Words == {"stream", "auth", "credits", "rate", "endpoint", "hang"}
Receipt == [timeout: BOOLEAN, clean: BOOLEAN, words: SUBSET Words, hint: Nat]

\* config.scheduler: what the loader accepts of a scheduler section.
ASSUME ConfigAssumption ==
    /\ GroupsOf \in [Models -> SUBSET Groups]
    /\ Initial \in [Groups -> Nat] /\ Ceiling \in [Groups -> Nat]
    /\ Minimum \in [Groups -> Nat] /\ ExternalSlots \in [Groups -> Nat]
    /\ \A g \in Groups : 1 <= Minimum[g] /\ Minimum[g] <= Initial[g] /\ Initial[g] <= Ceiling[g]
    /\ Quiet \in Nat \ {0} /\ Cooldown \in Nat \ {0} /\ MaxCooldown \in Nat \ {0}
    /\ HintCeiling \in Nat \ {0} /\ MaxJitter \in Nat /\ Limit \in Nat
    /\ MaxInvocations \in Nat /\ MaxTime \in Nat /\ MaxResets \in Nat
    /\ Receipts \subseteq Receipt

Invocations == 1 .. MaxInvocations
Categories == {"success", "rate", "endpoint", "auth", "credits", "timeout", "stall", "failure"}
NoLease == [held |-> FALSE, grps |-> {}, probe |-> FALSE, granted |-> None, overtaken |-> {}]
NoOutcome == [known |-> FALSE, owner |-> None, grps |-> {}, clean |-> FALSE,
              useful |-> FALSE]

VARIABLES
    now,        \* self.clock()
    group,      \* the admission_groups rows
    lease,      \* the admission_leases rows, by owner
    outcome,    \* the admission_outcomes rows, by invocation
    process,    \* the invocation an owner's process record names, 0 for none
    spawned,    \* invocations spawned so far
    resets,     \* operator resets so far, cut at MaxResets
    congested   \* history, read by no action: when the last congestion of a group was reported, None if never

vars == <<now, group, lease, outcome, process, spawned, resets,
          congested>>

-------------------------------------------------------------------------------
(* classify: the category of a receipt, and the delay it asks for.          *)

\* _quota_signal: a rate word or the stated reset window.
QuotaSignal(r) == "rate" \in r.words

\* _clamp: a delay is bounded by the ceiling, an absent one stays absent (0).
Clamp(hint, cap) == IF hint = 0 THEN 0 ELSE MinOf(hint, cap)

\* classify: a timeout wins over the transcript unless the tail holds a stream
\* error; a clean exit is a success whatever it printed; a hint never decides.
Classify(r) ==
    IF r.timeout
    THEN IF "stream" \in r.words /\ QuotaSignal(r) THEN "rate"
         ELSE IF "stream" \in r.words /\ "endpoint" \in r.words THEN "endpoint"
         ELSE "timeout"
    ELSE IF r.clean THEN "success"
    ELSE IF "auth" \in r.words THEN "auth"
    ELSE IF "credits" \in r.words THEN "credits"
    ELSE IF QuotaSignal(r) THEN "rate"
    ELSE IF "endpoint" \in r.words THEN "endpoint"
    ELSE IF "hang" \in r.words THEN "stall"
    ELSE "failure"

\* The delay classify returns: only congestion carries one, and the timeout
\* branch drops an endpoint receipt's.
RetryAfter(r) ==
    CASE Classify(r) = "rate" -> Clamp(r.hint, HintCeiling)
      [] Classify(r) = "endpoint" /\ ~r.timeout -> Clamp(r.hint, HintCeiling)
      [] OTHER -> 0

-------------------------------------------------------------------------------
(* The ledger's queries.                                                     *)

Held == {o \in Owners : lease[o].held}

\* _active: the leases, and the probe leases, that spend a group's budget.
Active(g) == {o \in Held : g \in lease[o].grps}
ActiveProbes(g) == {o \in Active(g) : lease[o].probe}

Effective(g) == MaxOf(0, group[g].target - ExternalSlots[g])

\* The provider asked for a pause that is not over.
Cooling(g) == group[g].cooldown # None /\ now < group[g].cooldown

\* Mutant of Denied: recovery admits up to the target instead of one probe.
DeniedWave(g) ==
    \/ group[g].mode = "blocked"
    \/ Cooling(g)
    \/ Cardinality(Active(g)) >= MaxOf(1, Effective(g))

\* reserve's verdict on one group.
Denied(g) ==
    \/ group[g].mode = "blocked"
    \/ Cooling(g)
    \/ /\ group[g].mode = "probing"
       /\ \/ ActiveProbes(g) # {}
          \/ Cardinality(Active(g)) >= MaxOf(1, Effective(g))
    \/ /\ group[g].mode = "normal"
       /\ Cardinality(Active(g)) >= Effective(g)

\* A denial for lack of room in a normal group counts as demand.
Saturated(g) == group[g].mode = "normal" /\ ~Cooling(g) /\ Cardinality(Active(g)) >= Effective(g)

\* The quiet window that earns one more slot.
Earned(g) ==
    /\ group[g].mode = "normal" /\ group[g].useful >= 1
    /\ group[g].loaded # None /\ group[g].loaded >= group[g].windowStart
    /\ now - group[g].windowStart >= Quiet

Grown(g) ==
    IF Earned(g)
    THEN [group[g] EXCEPT !.target = MinOf(Ceiling[g], @ + 1), !.windowStart = now,
                          !.useful = 0, !.loaded = None]
    ELSE group[g]

\* Mutant of Outranked: feedback of the very second of the grant is taken as older.
OutrankedStrict(row, l) ==
    \/ row.mode = "blocked"
    \/ row.congestedAt # None /\ row.congestedAt > l.granted

\* _outranked: newer provider feedback outranks this probe's success.
Outranked(row, l) ==
    \/ row.mode = "blocked"
    \/ row.congestedAt # None /\ row.congestedAt >= l.granted

\* finish has recorded an outcome of this invocation.
Reported(i) == outcome[i].known

-------------------------------------------------------------------------------
Init ==
    /\ now = 0
    /\ group = [g \in Groups |->
          [target |-> Initial[g], mode |-> "normal", cooldown |-> None, len |-> Cooldown,
           windowStart |-> 0, loaded |-> None, useful |-> 0, congestedAt |-> None]]
    /\ lease = [o \in Owners |-> NoLease]
    /\ outcome = [i \in Invocations |-> NoOutcome]
    /\ process = [o \in Owners |-> 0]
    /\ spawned = 0 /\ resets = 0
    /\ congested = [g \in Groups |-> None]
-------------------------------------------------------------------------------
(* reserve: a denied request only records demand, in the group that is full; *)
(* a request of an owner that holds a lease or past the global bound changes *)
(* nothing.  A paused pool, or a checkout that another lease names, refuses   *)
(* without effect, which no action models: the request is not granted.        *)

MayAsk(o) == ~lease[o].held /\ Cardinality(Held) < Limit

ReserveDenied(o, m) ==
    /\ MayAsk(o)
    /\ \E g \in GroupsOf[m] :       \* reserve stops at one denied group
          /\ Denied(g) /\ Saturated(g)
          /\ group' = [group EXCEPT ![g].loaded = now]
    /\ UNCHANGED <<now, lease, outcome, process, spawned, resets, congested>>

ReserveGranted(o, m) ==
    /\ MayAsk(o)
    /\ \A g \in GroupsOf[m] : ~Denied(g)
    /\ group' = [g \in Groups |-> IF g \in GroupsOf[m] THEN Grown(g) ELSE group[g]]
    /\ lease' = [lease EXCEPT ![o] =
          [held |-> TRUE, grps |-> GroupsOf[m], granted |-> now, overtaken |-> {},
           probe |-> \E g \in GroupsOf[m] : group[g].mode = "probing"]]
    /\ UNCHANGED <<now, outcome, process, spawned, resets, congested>>

\* launch under a lease: spawn, the process record, attach.
Launch(o) ==
    /\ lease[o].held /\ spawned < MaxInvocations
    /\ process[o] # 0 => Reported(process[o])
    /\ spawned' = spawned + 1
    /\ process' = [process EXCEPT ![o] = spawned + 1]
    /\ UNCHANGED <<now, group, lease, outcome, resets, congested>>

-------------------------------------------------------------------------------
(* finish: the feedback of one receipt on one group of the lease.            *)

\* Mutant of Penalised: the halved target ignores the floor.
PenalisedFloorless(g, delay, jitter) ==
    [group[g] EXCEPT !.target = @ \div 2, !.mode = "probing", !.cooldown = now + 1,
                     !.windowStart = now, !.congestedAt = now]

\* A first congestion report: the target is halved, the group probes next.
Penalised(g, delay, jitter) ==
    [group[g] EXCEPT !.target = MaxOf(Minimum[g], (@ + 1) \div 2), !.mode = "probing",
                     !.cooldown = now + (IF delay = 0 THEN group[g].len ELSE delay) + jitter,
                     !.windowStart = now, !.congestedAt = now, !.useful = 0, !.loaded = None]

\* Congestion reported while the group recovers or is blocked: the cooldown is
\* only ever lengthened, and doubled when the report is the probe's.
Extended(g, delay, jitter, probe) ==
    [group[g] EXCEPT !.cooldown = MaxOf(@, now + (IF delay = 0 THEN group[g].len ELSE delay) + jitter),
                     !.len = IF probe THEN MinOf(MaxCooldown, 2 * MaxOf(@, Cooldown)) ELSE @,
                     !.congestedAt = now]

Blocked(g) == [group[g] EXCEPT !.mode = "blocked", !.cooldown = None, !.congestedAt = now]
Lifted(g) == [group[g] EXCEPT !.mode = "normal", !.cooldown = None, !.len = Cooldown,
                              !.congestedAt = None]
Rearmed(g, jitter) == [group[g] EXCEPT !.cooldown = MaxOf(@, now + group[g].len + jitter)]

Feedback(g, l, category, delay, jitter) ==
    CASE category \in {"rate", "endpoint"} /\ group[g].mode = "normal" -> Penalised(g, delay, jitter)
      [] category \in {"rate", "endpoint"} /\ group[g].mode # "normal" ->
            Extended(g, delay, jitter, l.probe)
      [] category \in {"auth", "credits"} -> Blocked(g)
      [] category = "success" /\ l.probe /\ ~Outranked(group[g], l) -> Lifted(g)
      [] category = "failure" /\ l.probe /\ group[g].mode = "probing" -> Rearmed(g, jitter)
      [] OTHER -> group[g]

\* Mutant of Repeated: the outcome table is not consulted.
RepeatedNever(i) == FALSE

\* A report repeated for a known invocation spends no penalty.
Repeated(i) == Reported(i)

FinishRepeated(o) ==
    /\ process[o] # 0 /\ Repeated(process[o])
    /\ lease' = [lease EXCEPT ![o] = NoLease]
    /\ UNCHANGED <<now, group, outcome, process, spawned, resets, congested>>

\* Whose budget a report speaks of: the lease's groups, or those of the model its
\* record names when the lease is gone (released, or dropped at a restart).
Charged(o, m) == IF lease[o].held THEN lease[o].grps ELSE GroupsOf[m]

FinishFirst(o, m, r, jitter) ==
    LET i == process[o]
        l == lease[o]
        names == Charged(o, m)
        category == Classify(r)
        hit == IF category \in {"rate", "endpoint", "auth", "credits"} THEN names ELSE {}
    IN  /\ i # 0 /\ ~Repeated(i)
        /\ lease' = [p \in Owners |->
              CASE p = o -> NoLease
                [] p # o /\ lease[p].held ->
                     [lease[p] EXCEPT !.overtaken = @ \union (hit \intersect lease[p].grps)]
                [] OTHER -> lease[p]]
        /\ outcome' = [outcome EXCEPT ![i] = [known |-> TRUE, owner |-> o, grps |-> names,
                          clean |-> category = "success", useful |-> FALSE]]
        /\ group' = [g \in Groups |-> IF g \in names
                                      THEN Feedback(g, l, category, RetryAfter(r), jitter)
                                      ELSE group[g]]
        /\ congested' = [g \in Groups |-> IF g \in hit THEN now ELSE congested[g]]
        /\ UNCHANGED <<now, process, spawned, resets>>

\* useful: a verified completion is credited once, to the groups its outcome
\* names.  Callers name the invocation of the owner's process or the owner; both
\* find the owner's latest outcome (outcomes of an owner come in spawn order), a
\* success: only then was work published, planned or reviewed.
Useful(o) ==
    \E i \in Invocations :
        /\ outcome[i].owner = o /\ outcome[i].clean /\ ~outcome[i].useful
        /\ \A j \in Invocations : outcome[j].owner = o => j <= i
        /\ outcome' = [outcome EXCEPT ![i].useful = TRUE]
        /\ group' = [g \in Groups |-> IF g \in outcome[i].grps
                                      THEN [group[g] EXCEPT !.useful = @ + 1] ELSE group[g]]
        /\ UNCHANGED <<now, lease, process, spawned, resets, congested>>

\* release: a lease dropped without an outcome (launch abort, blocked job).
Release(o) ==
    /\ lease[o].held
    /\ lease' = [lease EXCEPT ![o] = NoLease]
    /\ UNCHANGED <<now, group, outcome, process, spawned, resets, congested>>

\* reset: the operator reopens a blocked or cooling group.
Reset(g) ==
    /\ resets < MaxResets /\ resets' = resets + 1
    /\ group' = [group EXCEPT ![g] = [@ EXCEPT !.mode = "normal", !.cooldown = None,
                    !.len = Cooldown, !.windowStart = now, !.congestedAt = None,
                    !.useful = 0, !.loaded = None]]
    /\ congested' = [congested EXCEPT ![g] = None]
    /\ UNCHANGED <<now, lease, outcome, process, spawned>>

\* A restarted supervisor: reconcile keeps the leases of the owners it names.
Restart(owners) ==
    /\ lease' = [o \in Owners |-> IF o \in owners THEN lease[o] ELSE NoLease]
    /\ UNCHANGED <<now, group, outcome, process, spawned, resets, congested>>

Tick ==
    /\ now < MaxTime
    /\ now' = now + 1
    /\ UNCHANGED <<group, lease, outcome, process, spawned, resets, congested>>

Next ==
    \/ \E o \in Owners, m \in Models : ReserveDenied(o, m) \/ ReserveGranted(o, m)
    \/ \E o \in Owners : Launch(o) \/ FinishRepeated(o) \/ Release(o) \/ Useful(o)
    \/ \E o \in Owners, m \in Models, r \in Receipts, jitter \in 0 .. MaxJitter :
          FinishFirst(o, m, r, jitter)
    \/ \E g \in Groups : Reset(g)
    \/ \E owners \in SUBSET Owners : Restart(owners)
    \/ Tick

Spec == Init /\ [][Next]_vars

-------------------------------------------------------------------------------
GroupRow == [target: Nat, mode: {"normal", "probing", "blocked"}, cooldown: Int, len: Nat,
             windowStart: Nat, loaded: Int, useful: Nat, congestedAt: Int]
LeaseRow == [held: BOOLEAN, grps: SUBSET Groups, probe: BOOLEAN, granted: Int,
             overtaken: SUBSET Groups]
OutcomeRow == [known: BOOLEAN, owner: Owners \union {None}, grps: SUBSET Groups,
               clean: BOOLEAN, useful: BOOLEAN]

\* Types, and a target that stays between the configured floor and ceiling.
TypeOK ==
    /\ now \in Nat /\ spawned \in 0 .. MaxInvocations /\ resets \in Nat
    /\ group \in [Groups -> GroupRow]
    /\ lease \in [Owners -> LeaseRow]
    /\ outcome \in [Invocations -> OutcomeRow]
    /\ process \in [Owners -> 0 .. MaxInvocations]
    /\ congested \in [Groups -> Int]
    /\ \A g \in Groups : Minimum[g] <= group[g].target /\ group[g].target <= Ceiling[g]

\* What a row and a lease keep across every transaction: nothing is dated after
\* the clock, only a held lease spends a budget, and feedback recorded since a
\* grant still outranks the lease unless the group has recovered from it.
Dated(g) == None <= group[g].cooldown /\ group[g].congestedAt <= now
LeaseSound(o) ==
    /\ lease[o].granted <= now
    /\ ~lease[o].held => lease[o].grps = {} /\ ~lease[o].probe /\ lease[o].overtaken = {}
    /\ \A g \in lease[o].overtaken : group[g].mode = "normal" \/ Outranked(group[g], lease[o])

AdmissionInv ==
    /\ TypeOK
    /\ \A g \in Groups : Dated(g)
    /\ \A o \in Owners : LeaseSound(o)

\* "Recovery reopens with a single probe session, never a retry wave": however
\* groups overlap, of the leases on a probing group at most one was granted
\* since its last congestion, so at most one can still reopen it.
OneLiftingProbe ==
    \A g \in Groups : group[g].mode = "probing" =>
        \A o, p \in ActiveProbes(g) :
            ~Outranked(group[g], lease[o]) /\ ~Outranked(group[g], lease[p]) => o = p

\* "That unblock is causal": without an operator's reset, a group returns to
\* normal only by a probe that was granted after the last provider feedback on
\* the group was recorded, and never from a block.
LiftStep ==
    \A g \in Groups :
        group[g].mode # "normal" /\ group'[g].mode = "normal" =>
            \/ lease' = lease /\ outcome' = outcome          \* Reset
            \/ /\ group[g].mode = "probing"
               /\ \E o \in Owners : /\ lease[o].held /\ ~lease'[o].held
                                    /\ g \in lease[o].grps /\ lease[o].probe
                                    /\ g \notin lease[o].overtaken
ProbeLiftsOwnEpisode == [][LiftStep]_vars

\* finish: "a repeated report for the same invocation never spends another
\* penalty": a target falls, a cooldown is armed or lengthened and a group is
\* blocked only with the first report of some invocation.
PenaltyStep ==
    \A g \in Groups :
        \/ group'[g].target < group[g].target
        \/ group'[g].cooldown > group[g].cooldown
        \/ group'[g].mode = "blocked" /\ group[g].mode # "blocked"
        => \E i \in Invocations : ~outcome[i].known /\ outcome'[i].known
PenaltyOncePerInvocation == [][PenaltyStep]_vars

\* agent-operations.md: a target is raised "only after a quiet_seconds window";
\* "a new congestion event restarts the window".
GrowthAfterQuietWindow ==
    [][\A g \in Groups : group'[g].target > group[g].target /\ congested[g] # None =>
          now - congested[g] >= Quiet]_vars
================================================================================
