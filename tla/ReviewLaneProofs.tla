---------------------------- MODULE ReviewLaneProofs ----------------------------
(***************************************************************************)
(* Proofs about the supervisor's background lanes, for any issues,          *)
(* improvements, dependencies and bounds: the agents stay within the        *)
(* capacity, an accepted candidate is carried by an issue, and the           *)
(* improvement slot is never stranded where no dependency crosses from one   *)
(* improvement to another.                                                   *)
(*                                                                          *)
(* Sound holds of every world a crash may leave behind, Attended of every    *)
(* world the supervisor has between two handlers.                            *)
(***************************************************************************)
EXTENDS ReviewLane, FiniteSetTheorems, WellFoundedInduction, TLAPS

Agents == {"none", "running", "stopping", "done", "failed"}
Outcomes == {"running", "skipped", "inconclusive", "completed"}
Rows == [slot : Nat, attempt : Nat, status : Outcomes, agent : Agents]
Standings == {"none", "pending", "accepted", "declined"}
JobStates == {"none", "working", "blocked", "done"}
PlannerStates == {"none", "unrecorded", "running", "stopping", "done"}
AnyProposal == [items : SUBSET Issues, decide : [Improvements -> {"none", "accept", "decline"}],
                bad : BOOLEAN]

\* The settings and records the argument reads.
Core == {"slot", "rows", "reviewer", "intent", "cand", "planner", "proposal", "gh", "mapped", "job",
         "active"}

Shaped(x) ==
    /\ Core \subseteq DOMAIN x
    /\ x.slot \in Nat
    /\ x.rows \in Seq(Rows)
    /\ x.reviewer \in 0 .. Len(x.rows)
    /\ x.intent \in 0 .. Len(x.rows)
    /\ x.cand \in [Improvements -> Standings]
    /\ x.planner \in PlannerStates
    /\ x.proposal \in AnyProposal \union {None}
    /\ x.gh \in [Issues -> {"none", "open", "closed"}]
    /\ x.job \in [Issues -> JobStates]

Running(x) == {i \in DOMAIN x.rows : x.rows[i].agent = "running"}

Within(x) == Cardinality(Working(x)) + Cardinality(Running(x)) <= Capacity

\* A job that is done closed its issue.
DoneCloses(x) == \A i \in Issues : x.job[i] = "done" => x.gh[i] = "closed"

\* An improvement's issues are those that carry it.
MapsOwn(x) == \A m, i : <<m, i>> \in x.mapped => i \in Issues /\ Carries(i, m)

\* An accepted candidate has an issue, or a proposal that will map one is pending.
Mapped(x, m) == \E i \in Issues : <<m, i>> \in x.mapped
Owed(x, m) ==
    /\ x.proposal # None /\ x.proposal.decide[m] = "accept"
    /\ Carriers(x, m) # {}
Accepted(x) ==
    \A m \in Improvements : x.cand[m] = "accepted" => Mapped(x, m) \/ Owed(x, m)

\* A planner is asked only when no proposal is pending.
OnePlan(x) == x.planner # "none" => x.proposal = None

Sound(x) ==
    Shaped(x) /\ Within(x) /\ DoneCloses(x) /\ MapsOwn(x) /\ Accepted(x) /\ OnePlan(x)

\* The reviewer that runs is the one on record.
Attended(x) == Running(x) \subseteq {x.reviewer}

LaneInv == Sound(db) /\ up \in BOOLEAN /\ (up => Attended(db))

\* Nothing but the review rows, their records and a candidate's first standings
\* changed, and no reviewer was started.
Quiet(x, y) ==
    /\ Core \subseteq DOMAIN y
    /\ y.slot \in Nat
    /\ y.rows \in Seq(Rows)
    /\ y.reviewer \in 0 .. Len(y.rows)
    /\ y.intent \in 0 .. Len(y.rows)
    /\ y.cand \in [Improvements -> Standings]
    /\ \A m \in Improvements : y.cand[m] = "accepted" => x.cand[m] = "accepted"
    /\ y.planner = x.planner /\ y.proposal = x.proposal /\ y.gh = x.gh
    /\ y.mapped = x.mapped /\ y.job = x.job
    /\ Running(y) \subseteq Running(x)

\* A sequence of worlds a crash may leave behind.
Safe(s) == \E S : s \in Seq(S) /\ s # <<>> /\ \A x \in S : Sound(x)

-------------------------------------------------------------------------------
(* Sequences of worlds.                                                      *)

LEMMA SafeBy ==
    ASSUME NEW s, NEW S, s \in Seq(S), s # <<>>, \A x \in S : Sound(x)
    PROVE  Safe(s)
BY DEF Safe

LEMMA SafeOne ==
    ASSUME NEW x, Sound(x)
    PROVE  Safe(<<x>>) /\ Last(<<x>>) = x
<1> DEFINE S == {x}
<1>1. <<x>> \in Seq(S) /\ <<x>> # <<>> /\ \A world \in S : Sound(world)
  OBVIOUS
<1>2. Safe(<<x>>)
  <2> HIDE DEF S
  <2> QED BY <1>1, SafeBy
<1>3. Len(<<x>>) = 1 /\ <<x>>[1] = x
  OBVIOUS
<1> QED BY <1>2, <1>3 DEF Last

LEMMA SafePair ==
    ASSUME NEW x, NEW y, Sound(x), Sound(y)
    PROVE  Safe(<<x, y>>) /\ Last(<<x, y>>) = y
<1> DEFINE S == {x, y}
<1>1. <<x, y>> \in Seq(S) /\ <<x, y>> # <<>> /\ \A world \in S : Sound(world)
  OBVIOUS
<1>2. Safe(<<x, y>>)
  <2> HIDE DEF S
  <2> QED BY <1>1, SafeBy
<1>3. Len(<<x, y>>) = 2 /\ <<x, y>>[2] = y
  OBVIOUS
<1> QED BY <1>2, <1>3 DEF Last

LEMMA SafeThree ==
    ASSUME NEW x, NEW y, NEW z, Sound(x), Sound(y), Sound(z)
    PROVE  Safe(<<x, y, z>>) /\ Last(<<x, y, z>>) = z
<1> DEFINE S == {x, y, z}
<1>1. <<x, y, z>> \in Seq(S) /\ <<x, y, z>> # <<>> /\ \A world \in S : Sound(world)
  OBVIOUS
<1>2. Safe(<<x, y, z>>)
  <2> HIDE DEF S
  <2> QED BY <1>1, SafeBy
<1>3. Len(<<x, y, z>>) = 3 /\ <<x, y, z>>[3] = z
  OBVIOUS
<1> QED BY <1>2, <1>3 DEF Last

LEMMA SafeConcat ==
    ASSUME NEW s, NEW t, Safe(s), Safe(t)
    PROVE  Safe(s \o t) /\ Last(s \o t) = Last(t)
<1>1. PICK S : s \in Seq(S) /\ s # <<>> /\ \A x \in S : Sound(x)
  BY DEF Safe
<1>2. PICK T : t \in Seq(T) /\ t # <<>> /\ \A x \in T : Sound(x)
  BY DEF Safe
<1>3. s \in Seq(S \union T) /\ t \in Seq(S \union T) /\ \A x \in S \union T : Sound(x)
  <2> HIDE DEF Sound
  <2> QED BY <1>1, <1>2
<1>4. Len(s) \in Nat /\ Len(t) \in Nat /\ Len(t) # 0
  BY <1>1, <1>2
<1>5. s \o t \in Seq(S \union T) /\ Len(s \o t) = Len(s) + Len(t)
  BY <1>3
<1>6. (s \o t)[Len(s) + Len(t)] = t[Len(t)]
  BY <1>3, <1>4
<1>7. s \o t # <<>>
  BY <1>4, <1>5
<1> QED BY <1>3, <1>5, <1>6, <1>7 DEF Safe, Last

LEMMA SafeEmpty ==
    ASSUME NEW s, Safe(s)
    PROVE  s \o <<>> = s
<1>1. PICK S : s \in Seq(S)
  BY DEF Safe
<1> QED BY <1>1

\* A crash may leave any world of a handler's trace, and the supervisor goes on
\* from the last.
LEMMA PerformKeeps ==
    ASSUME NEW trace, Safe(trace), Attended(Last(trace)), Perform(trace)
    PROVE  LaneInv'
<1>1. PICK S : trace \in Seq(S) /\ \A x \in S : Sound(x)
  BY DEF Safe
<1>2. PICK n \in 1 .. Len(trace) : db' = trace[n] /\ up' = (n = Len(trace))
  BY DEF Perform
<1>3. trace[n] \in S
  BY <1>1
<1>4. Sound(db')
  BY <1>1, <1>2, <1>3
<1>5. ASSUME up' PROVE Attended(db')
  BY <1>2, <1>5 DEF Last
<1>6. up' \in BOOLEAN
  BY <1>2
<1>7. Sound(db)' /\ (up' => Attended(db)')
  BY <1>4, <1>5 DEF Sound, Attended
<1> QED BY <1>6, <1>7 DEF LaneInv

-------------------------------------------------------------------------------
(* Counting agents.                                                          *)

LEMMA Counts ==
    ASSUME NEW x, Shaped(x)
    PROVE  /\ IsFiniteSet(Working(x)) /\ Cardinality(Working(x)) \in Nat
           /\ IsFiniteSet(Running(x)) /\ Cardinality(Running(x)) \in Nat
           /\ Capacity \in Nat
<1>1. IsFiniteSet(Working(x))
  <2>1. Working(x) \subseteq Issues /\ IsFiniteSet(Issues)
    BY ReviewAssumption DEF Working
  <2> QED BY <2>1, FS_Subset
<1>2. IsFiniteSet(Running(x))
  <2>1. Len(x.rows) \in Nat /\ DOMAIN x.rows = 1 .. Len(x.rows)
    BY DEF Shaped
  <2>2. IsFiniteSet(1 .. Len(x.rows))
    BY <2>1, FS_Interval
  <2>3. Running(x) \subseteq 1 .. Len(x.rows)
    BY <2>1 DEF Running
  <2> QED BY <2>2, <2>3, FS_Subset
<1> QED BY <1>1, <1>2, FS_CardinalityType, ReviewAssumption

\* Where the reviewer on record is the only one that runs, slots_used bounds the agents.
LEMMA SlotsBound ==
    ASSUME NEW x, Shaped(x), Attended(x)
    PROVE  /\ SlotsUsed(x) \in Nat
           /\ Cardinality(Working(x)) + Cardinality(Running(x)) <= SlotsUsed(x)
           /\ x.reviewer = 0 => Running(x) = {} /\ SlotsUsed(x) = Cardinality(Working(x))
<1>1. Cardinality(Working(x)) \in Nat /\ Cardinality(Running(x)) \in Nat
  BY Counts
<1>2. ASSUME x.reviewer = 0 PROVE Running(x) = {}
  BY <1>2 DEF Attended, Running, Shaped
<1>3. Cardinality({}) = 0
  BY FS_EmptySet
<1>4. IsFiniteSet({x.reviewer}) /\ Cardinality({x.reviewer}) = 1
  BY FS_Singleton
<1>5. Cardinality(Running(x)) <= 1
  <2>1. Running(x) \subseteq {x.reviewer}
    BY DEF Attended
  <2> QED BY <1>4, <2>1, FS_Subset
<1> QED BY <1>1, <1>2, <1>3, <1>5 DEF SlotsUsed

LEMMA FewerRunning ==
    ASSUME NEW x, NEW y, Shaped(x), Shaped(y), Within(x),
           Working(y) = Working(x), Running(y) \subseteq Running(x)
    PROVE  Within(y)
<1>1. Cardinality(Running(y)) <= Cardinality(Running(x))
  BY Counts, FS_Subset
<1>2. /\ Cardinality(Working(x)) \in Nat /\ Cardinality(Running(x)) \in Nat
      /\ Cardinality(Running(y)) \in Nat /\ Capacity \in Nat
  BY Counts
<1> QED BY <1>1, <1>2 DEF Within

LEMMA QuietKeeps ==
    ASSUME NEW x, NEW y, Sound(x), Quiet(x, y)
    PROVE  Sound(y)
<1>1. Shaped(x) /\ Shaped(y)
  BY DEF Sound, Shaped, Quiet
<1>2. Within(y)
  <2>1. Working(y) = Working(x) /\ Running(y) \subseteq Running(x) /\ Within(x)
    BY DEF Quiet, Working, Sound
  <2> QED BY <1>1, <2>1, FewerRunning
<1>3. DoneCloses(y) /\ MapsOwn(y) /\ OnePlan(y)
  BY DEF Sound, Quiet, DoneCloses, MapsOwn, OnePlan
<1>4. Accepted(y)
  <2>1. \A m : Carriers(y, m) = Carriers(x, m)
    BY DEF Carriers, Quiet
  <2>2. Accepted(x)
    BY DEF Sound
  <2> QED BY <2>1, <2>2 DEF Accepted, Quiet, Mapped, Owed
<1> QED BY <1>1, <1>2, <1>3, <1>4 DEF Sound

LEMMA QuietSelf ==
    ASSUME NEW x, Sound(x)
    PROVE  Quiet(x, x)
BY DEF Sound, Shaped, Quiet

LEMMA QuietAttended ==
    ASSUME NEW x, NEW y, Quiet(x, y), Attended(x), y.reviewer = x.reviewer
    PROVE  Attended(y)
BY DEF Quiet, Attended

-------------------------------------------------------------------------------
(* Rows of reviews.                                                          *)

LEMMA RowStatus ==
    ASSUME NEW rows \in Seq(Rows), NEW i \in DOMAIN rows, NEW v \in Outcomes
    PROVE  LET new == [rows EXCEPT ![i].status = v]
           IN  /\ new \in Seq(Rows) /\ Len(new) = Len(rows) /\ DOMAIN new = DOMAIN rows
               /\ \A j \in DOMAIN rows : new[j].agent = rows[j].agent
<1> DEFINE new == [rows EXCEPT ![i].status = v]
<1>1. Len(rows) \in Nat /\ DOMAIN rows = 1 .. Len(rows) /\ \A j \in DOMAIN rows : rows[j] \in Rows
  OBVIOUS
<1>2. [rows[i] EXCEPT !.status = v] \in Rows /\ [rows[i] EXCEPT !.status = v].agent = rows[i].agent
  BY <1>1 DEF Rows
<1>3. DOMAIN new = DOMAIN rows /\ new[i] = [rows[i] EXCEPT !.status = v]
      /\ \A j \in DOMAIN rows : j # i => new[j] = rows[j]
  BY <1>1
<1>n. new = [j \in 1 .. Len(rows) |-> new[j]]
  BY <1>1
<1> HIDE DEF new
<1>4. \A j \in 1 .. Len(rows) : new[j] \in Rows
  BY <1>1, <1>2, <1>3
<1>5. new \in Seq(Rows) /\ Len(new) = Len(rows)
  BY <1>1, <1>4, <1>n
<1>6. \A j \in DOMAIN rows : new[j].agent = rows[j].agent
  BY <1>2, <1>3
<1> QED BY <1>3, <1>5, <1>6 DEF new

LEMMA RowAgent ==
    ASSUME NEW rows \in Seq(Rows), NEW i \in DOMAIN rows, NEW v \in Agents
    PROVE  LET new == [rows EXCEPT ![i].agent = v]
           IN  /\ new \in Seq(Rows) /\ Len(new) = Len(rows) /\ DOMAIN new = DOMAIN rows
               /\ new[i].agent = v
               /\ \A j \in DOMAIN rows \ {i} : new[j].agent = rows[j].agent
<1> DEFINE new == [rows EXCEPT ![i].agent = v]
<1>1. Len(rows) \in Nat /\ DOMAIN rows = 1 .. Len(rows) /\ \A j \in DOMAIN rows : rows[j] \in Rows
  OBVIOUS
<1>2. [rows[i] EXCEPT !.agent = v] \in Rows /\ [rows[i] EXCEPT !.agent = v].agent = v
  BY <1>1 DEF Rows
<1>3. DOMAIN new = DOMAIN rows /\ new[i] = [rows[i] EXCEPT !.agent = v]
      /\ \A j \in DOMAIN rows : j # i => new[j] = rows[j]
  BY <1>1
<1>n. new = [j \in 1 .. Len(rows) |-> new[j]]
  BY <1>1
<1> HIDE DEF new
<1>4. \A j \in 1 .. Len(rows) : new[j] \in Rows
  BY <1>1, <1>2, <1>3
<1>5. new \in Seq(Rows) /\ Len(new) = Len(rows)
  BY <1>1, <1>4, <1>n
<1> QED BY <1>2, <1>3, <1>5 DEF new

\* A review's outcome changes no agent.
LEMMA StatusQuiet ==
    ASSUME NEW x, NEW i, NEW v \in Outcomes, Shaped(x), i \in DOMAIN x.rows
    PROVE  LET y == [x EXCEPT !.rows[i].status = v]
           IN  Quiet(x, y) /\ y.reviewer = x.reviewer /\ Len(y.rows) = Len(x.rows)
<1> DEFINE new == [x.rows EXCEPT ![i].status = v]
           y == [x EXCEPT !.rows[i].status = v]
<1>1. /\ new \in Seq(Rows) /\ Len(new) = Len(x.rows) /\ DOMAIN new = DOMAIN x.rows
      /\ \A j \in DOMAIN x.rows : new[j].agent = x.rows[j].agent
  BY RowStatus DEF Shaped
<1>2. /\ y = [x EXCEPT !.rows = new] /\ DOMAIN y = DOMAIN x /\ y.rows = new
  BY DEF Shaped, Core
<1> HIDE DEF new, y
<1>3. /\ y.slot = x.slot /\ y.reviewer = x.reviewer /\ y.intent = x.intent /\ y.cand = x.cand
      /\ y.planner = x.planner /\ y.proposal = x.proposal /\ y.gh = x.gh /\ y.mapped = x.mapped
      /\ y.job = x.job
  BY <1>2
<1>4. Running(y) = Running(x)
  BY <1>1, <1>2 DEF Running
<1> QED BY <1>1, <1>2, <1>3, <1>4 DEF Quiet, Shaped, y

\* Runtime.terminate only lets an agent end.
LEMMA StopQuiet ==
    ASSUME NEW x, NEW i, Shaped(x), i \in DOMAIN x.rows
    PROVE  LET y == [x EXCEPT !.rows[i] = StopAgent(@)]
           IN  Quiet(x, y) /\ y.reviewer = x.reviewer /\ Len(y.rows) = Len(x.rows)
               /\ Running(y) = Running(x) \ {i}
<1> DEFINE v == IF x.rows[i].agent = "running" THEN "stopping" ELSE x.rows[i].agent
           new == [x.rows EXCEPT ![i].agent = v]
           y == [x EXCEPT !.rows[i] = StopAgent(@)]
<1>1. x.rows[i] \in Rows /\ v \in Agents /\ v # "running"
  <2>1. x.rows[i] \in Rows
    BY DEF Shaped
  <2>2. x.rows[i].agent \in Agents
    BY <2>1 DEF Rows
  <2> QED BY <2>1, <2>2 DEF Agents
<1>2. /\ new \in Seq(Rows) /\ Len(new) = Len(x.rows) /\ DOMAIN new = DOMAIN x.rows
      /\ new[i].agent = v /\ \A j \in DOMAIN x.rows \ {i} : new[j].agent = x.rows[j].agent
  <2> HIDE DEF v
  <2> QED BY <1>1, RowAgent DEF Shaped
<1>3. /\ y = [x EXCEPT !.rows = new] /\ DOMAIN y = DOMAIN x /\ y.rows = new
  BY <1>1 DEF Shaped, Core, StopAgent, Rows
<1> HIDE DEF new, y, v
<1>4. /\ y.slot = x.slot /\ y.reviewer = x.reviewer /\ y.intent = x.intent /\ y.cand = x.cand
      /\ y.planner = x.planner /\ y.proposal = x.proposal /\ y.gh = x.gh /\ y.mapped = x.mapped
      /\ y.job = x.job
  BY <1>3
<1>5. Running(y) = Running(x) \ {i}
  BY <1>1, <1>2, <1>3 DEF Running
<1> QED BY <1>2, <1>3, <1>4, <1>5 DEF Quiet, Shaped, y

-------------------------------------------------------------------------------
(* The review lane.                                                          *)

LEMMA QuietThen ==
    ASSUME NEW x, NEW y, NEW z, Sound(x), Quiet(x, y), Quiet(y, z)
    PROVE  Quiet(x, z)
BY DEF Quiet

\* A write to a setting the argument does not read, or to a record it bounds.
LEMMA SettingQuiet ==
    ASSUME NEW x, NEW y, Sound(x), Core \subseteq DOMAIN y,
           y.slot = x.slot, y.rows = x.rows, y.cand = x.cand, y.planner = x.planner,
           y.proposal = x.proposal, y.gh = x.gh, y.mapped = x.mapped, y.job = x.job,
           y.reviewer \in 0 .. Len(x.rows), y.intent \in 0 .. Len(x.rows)
    PROVE  Quiet(x, y)
<1>1. Running(y) = Running(x)
  BY DEF Running
<1> QED BY <1>1 DEF Sound, Shaped, Quiet

LEMMA FinishRuns ==
    ASSUME NEW x, NEW i, NEW v \in Outcomes, Sound(x), i \in DOMAIN x.rows
    PROVE  LET t == FinishReviewRun(x, i, v)
           IN  /\ Safe(t) /\ Quiet(x, Last(t))
               /\ Last(t).reviewer = x.reviewer
<1> DEFINE y == [x EXCEPT !.rows[i].status = v]
           z == [y EXCEPT !.retry = x.rows[i].slot]
<1>1. Quiet(x, y) /\ y.reviewer = x.reviewer
  BY StatusQuiet DEF Sound
<1>2. FinishReviewRun(x, i, v) \in {<<y, z>>, <<y>>}
  BY DEF FinishReviewRun
<1> HIDE DEF y
<1>3. Sound(y)
  BY <1>1, QuietKeeps
<1>4. Quiet(y, z) /\ z.reviewer = y.reviewer
  <2>1. Shaped(y)
    BY <1>3 DEF Sound
  <2> QED BY <2>1, <1>3, SettingQuiet DEF Shaped, Core
<1> HIDE DEF z
<1>5. Sound(z) /\ Quiet(x, z)
  BY <1>1, <1>3, <1>4, QuietKeeps, QuietThen
<1> QED BY <1>1, <1>2, <1>3, <1>4, <1>5, SafeOne, SafePair

\* A reviewer is started only while none runs and a slot is free.
LEMMA SpawnSound ==
    ASSUME NEW x, NEW i, Sound(x), i \in DOMAIN x.rows, Running(x) = {},
           Cardinality(Working(x)) < Capacity
    PROVE  LET y == [x EXCEPT !.rows[i].agent = "running"]
           IN  /\ Sound(y) /\ Running(y) = {i} /\ y.reviewer = x.reviewer /\ Len(y.rows) = Len(x.rows)
               /\ y.job = x.job /\ Core \subseteq DOMAIN y
<1> DEFINE new == [x.rows EXCEPT ![i].agent = "running"]
           y == [x EXCEPT !.rows[i].agent = "running"]
<1>1. /\ new \in Seq(Rows) /\ Len(new) = Len(x.rows) /\ DOMAIN new = DOMAIN x.rows
      /\ new[i].agent = "running" /\ \A j \in DOMAIN x.rows \ {i} : new[j].agent = x.rows[j].agent
  BY RowAgent DEF Sound, Shaped, Agents
<1>2. y = [x EXCEPT !.rows = new] /\ DOMAIN y = DOMAIN x /\ y.rows = new
  BY DEF Sound, Shaped, Core
<1> HIDE DEF new, y
<1>3. /\ y.slot = x.slot /\ y.reviewer = x.reviewer /\ y.intent = x.intent /\ y.cand = x.cand
      /\ y.planner = x.planner /\ y.proposal = x.proposal /\ y.gh = x.gh /\ y.mapped = x.mapped
      /\ y.job = x.job
  BY <1>2
<1>4. Shaped(y)
  BY <1>1, <1>2, <1>3 DEF Sound, Shaped
<1>5. Running(y) = {i}
  BY <1>1, <1>2 DEF Running
<1>6. Within(y)
  <2>1. Cardinality(Running(y)) = 1
    BY <1>5, FS_Singleton
  <2>2. Working(y) = Working(x)
    BY <1>3 DEF Working
  <2>3. Cardinality(Working(x)) \in Nat /\ Capacity \in Nat
    BY Counts DEF Sound
  <2> QED BY <2>1, <2>2, <2>3 DEF Within
<1>7. DoneCloses(y) /\ MapsOwn(y) /\ OnePlan(y)
  BY <1>3 DEF Sound, DoneCloses, MapsOwn, OnePlan
<1>8. Accepted(y)
  <2>1. \A m : Carriers(y, m) = Carriers(x, m)
    BY <1>3 DEF Carriers
  <2>2. Accepted(x)
    BY DEF Sound
  <2> QED BY <2>1, <2>2, <1>3 DEF Accepted, Mapped, Owed
<1> QED BY <1>1, <1>2, <1>3, <1>4, <1>5, <1>6, <1>7, <1>8 DEF Sound, Shaped, y

\* launch_review, walked commit by commit.
LEMMA LaunchReviewRuns ==
    ASSUME NEW x, NEW attempt \in Nat, NEW how, Sound(x), Attended(x), x.reviewer = 0,
           Cardinality(Working(x)) < Capacity
    PROVE  Safe(LaunchReview(x, attempt, how)) /\ Attended(Last(LaunchReview(x, attempt, how)))
<1> DEFINE i == Len(x.rows) + 1
           row == [slot |-> x.slot, attempt |-> attempt, status |-> "running", agent |-> "none"]
           begun == [x EXCEPT !.rows = Append(@, row)]
           slotted == [begun EXCEPT !.last = x.slot]
           owed == [slotted EXCEPT !.manual = FALSE]
           intended == [owed EXCEPT !.intent = i]
           spawned == [intended EXCEPT !.rows[i].agent = "running"]
           recorded == [spawned EXCEPT !.reviewer = i]
           skipped == [owed EXCEPT !.rows[i].status = "skipped"]
           head == <<begun, slotted, owed>>
<1>1. Shaped(x) /\ Running(x) = {}
  BY SlotsBound DEF Sound
<1>2. Quiet(x, begun) /\ begun.reviewer = 0 /\ Len(begun.rows) = i /\ Core \subseteq DOMAIN begun
  <2> DEFINE rows == Append(x.rows, row)
  <2>1. begun.rows = rows /\ DOMAIN begun = DOMAIN x
    BY <1>1 DEF Shaped, Core
  <2>2. row \in Rows /\ row.agent = "none"
    BY <1>1 DEF Shaped, Rows, Outcomes, Agents
  <2>3. x.rows \in Seq(Rows) /\ Len(x.rows) \in Nat
    BY <1>1 DEF Shaped
  <2>4. /\ begun.slot = x.slot /\ begun.reviewer = x.reviewer /\ begun.intent = x.intent
        /\ begun.cand = x.cand /\ begun.planner = x.planner /\ begun.proposal = x.proposal
        /\ begun.gh = x.gh /\ begun.mapped = x.mapped /\ begun.job = x.job
    OBVIOUS
  <2> HIDE DEF row, begun
  <2>5. /\ rows \in Seq(Rows) /\ Len(rows) = i /\ rows[i] = row
        /\ \A j \in 1 .. Len(x.rows) : rows[j] = x.rows[j]
    BY <2>2, <2>3
  <2> HIDE DEF rows
  <2>6. Running(begun) = {}
    BY <1>1, <2>1, <2>2, <2>3, <2>5 DEF Running
  <2>7. begun.reviewer \in 0 .. i /\ begun.intent \in 0 .. i
    BY <1>1, <2>3, <2>4 DEF Shaped
  <2> HIDE DEF i
  <2> QED BY <1>1, <2>1, <2>4, <2>5, <2>6, <2>7 DEF Quiet, Shaped
<1> HIDE DEF begun
<1>3. Sound(begun)
  BY <1>2, QuietKeeps
<1>4. Quiet(begun, slotted) /\ slotted.reviewer = 0 /\ slotted.rows = begun.rows
  <2>1. Shaped(begun)
    BY <1>3 DEF Sound
  <2> QED BY <1>2, <1>3, <2>1, SettingQuiet DEF Shaped, Core
<1> HIDE DEF slotted
<1>5. Sound(slotted)
  BY <1>3, <1>4, QuietKeeps
<1>6. Quiet(slotted, owed) /\ owed.reviewer = 0 /\ owed.rows = begun.rows
  <2>1. Shaped(slotted)
    BY <1>5 DEF Sound
  <2> QED BY <1>4, <1>5, <2>1, SettingQuiet DEF Shaped, Core
<1> HIDE DEF owed
<1>7. Sound(owed)
  BY <1>5, <1>6, QuietKeeps
<1>8. Running(owed) = {} /\ owed.job = x.job
  BY <1>1, <1>2, <1>4, <1>6 DEF Quiet
<1>9. i \in DOMAIN owed.rows /\ DOMAIN owed.rows = 1 .. i /\ Len(owed.rows) = i /\ i \in Nat
  <2>1. owed.rows \in Seq(Rows) /\ Len(x.rows) \in Nat
    BY <1>1, <1>7 DEF Sound, Shaped
  <2> QED BY <2>1, <1>2, <1>6
<1>10. Quiet(owed, intended) /\ intended.reviewer = 0 /\ intended.rows = owed.rows
  <2>1. Shaped(owed)
    BY <1>7 DEF Sound
  <2> HIDE DEF i
  <2> QED BY <1>6, <1>7, <1>9, <2>1, SettingQuiet DEF Shaped, Core
<1> HIDE DEF intended, i
<1>11. Sound(intended) /\ Running(intended) = {} /\ intended.job = x.job
  BY <1>7, <1>8, <1>10, QuietKeeps DEF Quiet
<1>12. Safe(head) /\ Attended(owed) /\ Attended(intended)
  <2> HIDE DEF head
  <2>1. Safe(head)
    BY <1>3, <1>5, <1>7, SafeThree DEF head
  <2> QED BY <2>1, <1>8, <1>11 DEF Attended
<1>13. /\ Sound(spawned) /\ Running(spawned) = {i} /\ Len(spawned.rows) = Len(intended.rows)
       /\ Core \subseteq DOMAIN spawned
  <2>1. Working(intended) = Working(x)
    BY <1>11 DEF Working
  <2> QED BY <1>9, <1>10, <1>11, <2>1, SpawnSound
<1> HIDE DEF spawned
<1>14. Sound(recorded) /\ Attended(recorded)
  <2>1. /\ recorded.slot = spawned.slot /\ recorded.rows = spawned.rows /\ recorded.cand = spawned.cand
        /\ recorded.planner = spawned.planner /\ recorded.proposal = spawned.proposal
        /\ recorded.gh = spawned.gh /\ recorded.mapped = spawned.mapped /\ recorded.job = spawned.job
        /\ recorded.reviewer = i /\ recorded.intent = spawned.intent /\ Core \subseteq DOMAIN recorded
    BY <1>13 DEF Core
  <2>2. i \in 0 .. Len(spawned.rows) /\ spawned.intent \in 0 .. Len(spawned.rows)
    BY <1>9, <1>10, <1>13 DEF Sound, Shaped
  <2> HIDE DEF recorded
  <2>3. Quiet(spawned, recorded)
    BY <1>13, <2>1, <2>2, SettingQuiet
  <2>4. Running(recorded) = Running(spawned)
    BY <2>1 DEF Running
  <2> QED BY <1>13, <2>1, <2>3, <2>4, QuietKeeps DEF Attended
<1> HIDE DEF recorded
<1>15. Safe(<<intended, spawned, recorded>>) /\ Last(<<intended, spawned, recorded>>) = recorded
  BY <1>11, <1>13, <1>14, SafeThree
<1>16. Safe(<<intended>>) /\ Last(<<intended>>) = intended
  BY <1>11, SafeOne
<1>17. Safe(<<skipped>>) /\ Attended(Last(<<skipped>>))
  <2>1. Quiet(owed, skipped) /\ skipped.reviewer = owed.reviewer
    BY <1>7, <1>9, StatusQuiet DEF Sound, Outcomes
  <2> HIDE DEF skipped
  <2>2. Sound(skipped) /\ Attended(skipped)
    BY <1>7, <1>12, <2>1, QuietKeeps, QuietAttended
  <2> QED BY <2>2, SafeOne
<1>18. /\ Safe(FinishReviewRun(owed, i, "inconclusive"))
       /\ Attended(Last(FinishReviewRun(owed, i, "inconclusive")))
  <2>1. "inconclusive" \in Outcomes
    BY DEF Outcomes
  <2> QED BY <1>7, <1>9, <1>12, <2>1, FinishRuns, QuietAttended
<1>19. LaunchReview(x, attempt, how) \in
          {head \o <<skipped>>, head \o FinishReviewRun(owed, i, "inconclusive"),
           head \o <<intended>>, head \o <<intended, spawned, recorded>>}
  BY DEF LaunchReview, i, begun, slotted, owed, intended, spawned, recorded
<1> HIDE DEF head, skipped
<1>20. \A t : Safe(t) /\ Attended(Last(t)) => Safe(head \o t) /\ Attended(Last(head \o t))
  BY <1>12, SafeConcat
<1> QED BY <1>12, <1>14, <1>15, <1>16, <1>17, <1>18, <1>19, <1>20

LEMMA IngestRuns ==
    ASSUME NEW x, NEW i, NEW proposed, Sound(x), Attended(x), i \in DOMAIN x.rows
    PROVE  LET t == IngestReview(x, i, proposed) IN Safe(t) /\ Attended(Last(t))
<1> DEFINE cand == [m \in Improvements |->
                       IF m \in proposed /\ x.cand[m] \in {"none", "declined"} THEN "pending" ELSE x.cand[m]]
           recorded == [x EXCEPT !.cand = cand]
           completed == [recorded EXCEPT !.rows[i].status = "completed"]
           t == IngestReview(x, i, proposed)
<1>1. t \in {FinishReviewRun(x, i, "inconclusive"), <<recorded, completed>>}
  BY DEF IngestReview
<1>2. Quiet(x, recorded) /\ recorded.reviewer = x.reviewer /\ recorded.rows = x.rows
  <2>1. x.cand \in [Improvements -> Standings] /\ Shaped(x)
    BY DEF Sound, Shaped
  <2>2. /\ cand \in [Improvements -> Standings]
        /\ \A m \in Improvements : cand[m] = "accepted" => x.cand[m] = "accepted"
    BY <2>1 DEF Standings
  <2> HIDE DEF cand
  <2>3. /\ Core \subseteq DOMAIN recorded /\ recorded.cand = cand /\ recorded.rows = x.rows
        /\ recorded.slot = x.slot /\ recorded.reviewer = x.reviewer /\ recorded.intent = x.intent
        /\ recorded.planner = x.planner /\ recorded.proposal = x.proposal /\ recorded.gh = x.gh
        /\ recorded.mapped = x.mapped /\ recorded.job = x.job
    BY <2>1 DEF Shaped, Core
  <2> HIDE DEF recorded
  <2>4. Running(recorded) = Running(x)
    BY <2>3 DEF Running
  <2> QED BY <2>1, <2>2, <2>3, <2>4 DEF Quiet, Shaped
<1> HIDE DEF recorded
<1>3. Sound(recorded) /\ Attended(recorded)
  BY <1>2, QuietKeeps, QuietAttended
<1>4. Sound(completed) /\ Attended(completed)
  <2>1. Quiet(recorded, completed) /\ completed.reviewer = recorded.reviewer
    BY <1>2, <1>3, StatusQuiet DEF Sound, Outcomes
  <2> HIDE DEF completed
  <2> QED BY <1>3, <2>1, QuietKeeps, QuietAttended
<1> HIDE DEF completed
<1>5. Safe(<<recorded, completed>>) /\ Attended(Last(<<recorded, completed>>))
  BY <1>3, <1>4, SafePair
<1>6. /\ Safe(FinishReviewRun(x, i, "inconclusive"))
      /\ Attended(Last(FinishReviewRun(x, i, "inconclusive")))
  <2>1. "inconclusive" \in Outcomes
    BY DEF Outcomes
  <2> QED BY <2>1, FinishRuns, QuietAttended
<1> QED BY <1>1, <1>5, <1>6

LEMMA CurrentRuns ==
    ASSUME NEW x, NEW proposed, Sound(x), Attended(x)
    PROVE  LET t == ReviewCurrent(x, proposed) IN Safe(t) /\ Attended(Last(t))
<1> DEFINE i == x.reviewer
           dropped == [x EXCEPT !.reviewer = 0]
           stopped == [dropped EXCEPT !.rows[i] = StopAgent(@)]
           t == ReviewCurrent(x, proposed)
<1>1. CASE t = <<x>>
  BY <1>1, SafeOne
<1>2. ASSUME i # 0
      PROVE  Quiet(x, dropped) /\ dropped.reviewer = 0 /\ dropped.rows = x.rows /\ i \in DOMAIN x.rows
  <2>1. Shaped(x)
    BY DEF Sound
  <2>2. i \in DOMAIN x.rows
    BY <1>2, <2>1 DEF Shaped
  <2>3. Quiet(x, dropped)
    BY <2>1, SettingQuiet DEF Shaped, Core
  <2>4. dropped.reviewer = 0 /\ dropped.rows = x.rows
    BY <2>1 DEF Shaped, Core
  <2> QED BY <2>2, <2>3, <2>4
<1>3. CASE i # 0 /\ ~x.enabled /\ t = <<stopped>> \o FinishReviewRun(stopped, i, "inconclusive")
  <2> HIDE DEF dropped
  <2>1. Sound(dropped) /\ Shaped(dropped)
    BY <1>2, <1>3, QuietKeeps DEF Sound
  <2>2. /\ Quiet(dropped, stopped) /\ stopped.reviewer = 0 /\ Len(stopped.rows) = Len(x.rows)
        /\ Running(stopped) = Running(dropped) \ {i}
    BY <1>2, <1>3, <2>1, StopQuiet
  <2> HIDE DEF stopped
  <2>3. Sound(stopped)
    BY <2>1, <2>2, QuietKeeps
  <2>4. Attended(stopped)
    <3>1. Running(dropped) \subseteq {i}
      BY <1>2, <1>3 DEF Attended, Quiet
    <3> QED BY <2>2, <3>1 DEF Attended
  <2>5. i \in DOMAIN stopped.rows
    BY <1>2, <1>3, <2>2, <2>3 DEF Sound, Shaped
  <2>6. "inconclusive" \in Outcomes
    BY DEF Outcomes
  <2>7. Safe(<<stopped>>)
    BY <2>3, SafeOne
  <2>8. /\ Safe(FinishReviewRun(stopped, i, "inconclusive"))
        /\ Attended(Last(FinishReviewRun(stopped, i, "inconclusive")))
    BY <2>3, <2>4, <2>5, <2>6, FinishRuns, QuietAttended
  <2>9. /\ Safe(<<stopped>> \o FinishReviewRun(stopped, i, "inconclusive"))
        /\ Attended(Last(<<stopped>> \o FinishReviewRun(stopped, i, "inconclusive")))
    BY <2>7, <2>8, SafeConcat
  <2> QED BY <1>3, <2>9
<1>4. CASE /\ i # 0 /\ x.rows[i].agent \notin {"running", "stopping"}
           /\ t = <<dropped>> \o IngestReview(dropped, i, proposed)
  <2> HIDE DEF dropped
  <2>1. Sound(dropped)
    BY <1>2, <1>4, QuietKeeps
  <2>2. Running(x) = {}
    BY <1>4 DEF Attended, Running
  <2>3. Attended(dropped)
    BY <1>2, <1>4, <2>2 DEF Attended, Quiet
  <2>4. i \in DOMAIN dropped.rows
    BY <1>2, <1>4
  <2>5. Safe(<<dropped>>)
    BY <2>1, SafeOne
  <2>6. Safe(IngestReview(dropped, i, proposed)) /\ Attended(Last(IngestReview(dropped, i, proposed)))
    BY <2>1, <2>3, <2>4, IngestRuns
  <2>7. /\ Safe(<<dropped>> \o IngestReview(dropped, i, proposed))
        /\ Attended(Last(<<dropped>> \o IngestReview(dropped, i, proposed)))
    BY <2>5, <2>6, SafeConcat
  <2> QED BY <1>4, <2>7
<1> HIDE DEF dropped, stopped
<1>5. \/ t = <<x>>
      \/ i # 0 /\ ~x.enabled /\ t = <<stopped>> \o FinishReviewRun(stopped, i, "inconclusive")
      \/ /\ i # 0 /\ x.rows[i].agent \notin {"running", "stopping"}
         /\ t = <<dropped>> \o IngestReview(dropped, i, proposed)
  BY DEF ReviewCurrent, dropped, stopped
<1> QED BY <1>1, <1>3, <1>4, <1>5

LEMMA StaleRuns ==
    ASSUME NEW x, Sound(x), Attended(x)
    PROVE  LET t == ReviewStale(x) IN Safe(t) /\ Attended(Last(t))
<1> DEFINE running == {i \in DOMAIN x.rows : x.rows[i].status = "running"}
           stale == CHOOSE i \in running : \A j \in running : j <= i
           y == [x EXCEPT !.rows[stale].status = "inconclusive"]
<1>1. ReviewStale(x) = <<x>> \/ ReviewStale(x) = <<y>>
  BY DEF ReviewStale
<1>2. Sound(y) /\ Attended(y)
  <2> HIDE DEF stale
  <2>1. CASE stale \in DOMAIN x.rows
    <3>1. Quiet(x, y) /\ y.reviewer = x.reviewer
      BY <2>1, StatusQuiet DEF Sound, Outcomes
    <3> HIDE DEF y
    <3> QED BY <3>1, QuietKeeps, QuietAttended
  <2>2. CASE stale \notin DOMAIN x.rows
    <3>1. Shaped(x)
      BY DEF Sound
    <3>2. x.rows = [j \in DOMAIN x.rows |-> x.rows[j]]
      BY <3>1 DEF Shaped
    <3>3. [x.rows EXCEPT ![stale].status = "inconclusive"] = x.rows
      BY <2>2, <3>2
    <3>4. y = [x EXCEPT !.rows = x.rows]
      BY <3>1, <3>3 DEF Shaped, Core
    <3> HIDE DEF y
    <3>5. Quiet(x, y) /\ y.reviewer = x.reviewer
      BY <3>1, <3>4, SettingQuiet DEF Shaped, Core
    <3> QED BY <3>5, QuietKeeps, QuietAttended
  <2> QED BY <2>1, <2>2
<1> HIDE DEF y
<1> QED BY <1>1, <1>2, SafeOne

\* What a step of the lane that may do nothing adds to the steps before it.
LEMMA DueRuns ==
    ASSUME NEW x, NEW how, Sound(x), Attended(x)
    PROVE  LET t == ReviewDue(x, how) IN Safe(t) /\ Attended(Last(t))
<1> DEFINE owed == [x EXCEPT !.retry = 0]
           t == ReviewDue(x, how)
<1>1. CASE t = <<x>>
  BY <1>1, SafeOne
<1>2. Quiet(x, owed) /\ owed.reviewer = x.reviewer /\ owed.job = x.job
  BY SettingQuiet DEF Sound, Shaped, Core
<1> HIDE DEF owed
<1>3. Sound(owed) /\ Attended(owed)
  BY <1>2, QuietKeeps, QuietAttended
<1>4. ASSUME x.reviewer = 0, SlotsUsed(x) < Capacity
      PROVE  Cardinality(Working(x)) < Capacity /\ Cardinality(Working(owed)) < Capacity
  <2>1. Working(owed) = Working(x)
    BY <1>2 DEF Working
  <2> QED BY <1>4, <2>1, SlotsBound DEF Sound
<1>5. CASE x.reviewer = 0 /\ SlotsUsed(x) < Capacity /\ t = <<owed>> \o LaunchReview(owed, 2, how)
  <2>1. Safe(<<owed>>)
    BY <1>3, SafeOne
  <2>2. owed.reviewer = 0 /\ Cardinality(Working(owed)) < Capacity
    BY <1>2, <1>4, <1>5
  <2>3. Safe(LaunchReview(owed, 2, how)) /\ Attended(Last(LaunchReview(owed, 2, how)))
    BY <1>3, <2>2, LaunchReviewRuns
  <2>4. /\ Safe(<<owed>> \o LaunchReview(owed, 2, how))
        /\ Attended(Last(<<owed>> \o LaunchReview(owed, 2, how)))
    BY <2>1, <2>3, SafeConcat
  <2> QED BY <1>5, <2>4
<1>6. CASE t = <<owed>> \o <<>>
  <2>1. Safe(<<owed>>) /\ Last(<<owed>>) = owed
    BY <1>3, SafeOne
  <2>2. <<owed>> \o <<>> = <<owed>>
    BY <2>1, SafeEmpty
  <2> QED BY <1>3, <1>6, <2>1, <2>2
<1>7. CASE x.reviewer = 0 /\ SlotsUsed(x) < Capacity /\ t = LaunchReview(x, 1, how)
  BY <1>4, <1>7, LaunchReviewRuns
<1>8. \/ x.reviewer # 0 \/ ~x.enabled \/ x.paused \/ SlotsUsed(x) >= Capacity \/ Len(x.rows) = MaxReviews
      \/ x.reviewer = 0 /\ SlotsUsed(x) < Capacity
  <2>1. SlotsUsed(x) \in Nat /\ Capacity \in Nat
    BY SlotsBound, Counts DEF Sound
  <2> QED BY <2>1
<1>9. \/ t = <<x>>
      \/ /\ x.reviewer = 0 /\ SlotsUsed(x) < Capacity
         /\ \/ t = <<owed>> \o LaunchReview(owed, 2, how)
            \/ t = <<owed>> \o <<>>
            \/ t = LaunchReview(x, 1, how)
  BY <1>8 DEF ReviewDue, owed
<1> QED BY <1>1, <1>5, <1>6, <1>7, <1>9

LEMMA ReviewStep ==
    ASSUME NEW how, NEW proposed, LaneInv, Review(how, proposed)
    PROVE  LaneInv'
<1> DEFINE one == ReviewCurrent(db, proposed)
           two == one \o ReviewStale(Last(one))
           x == Last(two)
           trace == two \o ReviewDue(x, how)
<1>1. Sound(db) /\ Attended(db) /\ Perform(trace)
  BY DEF LaneInv, Review
<1>2. Safe(one) /\ Attended(Last(one))
  BY <1>1, CurrentRuns
<1> HIDE DEF one
<1>3. ASSUME NEW s, Safe(s) PROVE Sound(Last(s))
  <2>1. PICK S : s \in Seq(S) /\ s # <<>> /\ \A y \in S : Sound(y)
    BY <1>3 DEF Safe
  <2>2. s[Len(s)] \in S
    BY <2>1
  <2> QED BY <2>1, <2>2 DEF Last
<1>4. Safe(two) /\ Attended(x)
  <2>1. Safe(ReviewStale(Last(one))) /\ Attended(Last(ReviewStale(Last(one))))
    BY <1>2, <1>3, StaleRuns
  <2> QED BY <1>2, <2>1, SafeConcat
<1> HIDE DEF two
<1>5. Sound(x)
  BY <1>3, <1>4
<1> HIDE DEF x
<1>6. Safe(ReviewDue(x, how)) /\ Attended(Last(ReviewDue(x, how)))
  BY <1>4, <1>5, DueRuns
<1>7. Safe(trace) /\ Attended(Last(trace))
  BY <1>4, <1>6, SafeConcat
<1> HIDE DEF trace
<1> QED BY <1>1, <1>7, PerformKeeps

-------------------------------------------------------------------------------
(* The planner.                                                              *)

\* A world whose jobs and review rows stand is sound for its candidates' sake.
LEMMA PlanSound ==
    ASSUME NEW x, NEW y, Sound(x), Core \subseteq DOMAIN y,
           y.slot = x.slot, y.rows = x.rows, y.reviewer = x.reviewer, y.intent = x.intent,
           y.job = x.job, y.cand \in [Improvements -> Standings], y.planner \in PlannerStates,
           y.proposal \in AnyProposal \union {None},
           y.gh \in [Issues -> {"none", "open", "closed"}],
           \A i \in Issues : x.gh[i] = "closed" => y.gh[i] = "closed",
           MapsOwn(y), Accepted(y), OnePlan(y)
    PROVE  Sound(y) /\ (Attended(x) => Attended(y))
<1>1. Shaped(y)
  BY DEF Sound, Shaped
<1>2. Within(y)
  BY DEF Sound, Within, Working, Running
<1>3. DoneCloses(y)
  BY DEF Sound, DoneCloses
<1>4. Attended(x) => Attended(y)
  BY DEF Attended, Running
<1> QED BY <1>1, <1>2, <1>3, <1>4 DEF Sound

\* An accepted candidate keeps its issues while issues and mappings are only added.
LEMMA AcceptedGrows ==
    ASSUME NEW x, NEW y, Accepted(x), x.mapped \subseteq y.mapped, y.proposal = x.proposal,
           \A i \in Issues : x.gh[i] # "none" => y.gh[i] # "none",
           \A m \in Improvements : y.cand[m] = "accepted" => x.cand[m] = "accepted" \/ Owed(y, m)
    PROVE  Accepted(y)
<1> SUFFICES ASSUME NEW m \in Improvements, x.cand[m] = "accepted" PROVE Mapped(y, m) \/ Owed(y, m)
  BY DEF Accepted
<1>1. Carriers(x, m) \subseteq Carriers(y, m)
  BY DEF Carriers
<1>2. Mapped(x, m) \/ Owed(x, m)
  BY DEF Accepted
<1> QED BY <1>1, <1>2 DEF Mapped, Owed

LEMMA IssuedSound ==
    ASSUME NEW x, NEW created, NEW linked, Sound(x),
           created \subseteq Publishable(x), linked \subseteq Issues
    PROVE  LET y == Issued(x, created, linked)
           IN  Sound(y) /\ (Attended(x) => Attended(y)) /\ y.proposal = x.proposal
<1> DEFINE gh == [i \in Issues |-> IF i \in created THEN "open" ELSE x.gh[i]]
           links == {<<ImprovementOf[i], i>> : i \in Carried(linked)}
           y == Issued(x, created, linked)
<1>1. Shaped(x) /\ Core \subseteq DOMAIN x
  BY DEF Sound, Shaped
<1>2. /\ DOMAIN y = DOMAIN x /\ y.gh = gh /\ y.mapped = x.mapped \union links
      /\ y.slot = x.slot /\ y.rows = x.rows /\ y.reviewer = x.reviewer /\ y.intent = x.intent
      /\ y.job = x.job /\ y.cand = x.cand /\ y.planner = x.planner /\ y.proposal = x.proposal
  BY <1>1 DEF Issued, Core
<1>3. \A i \in created : x.gh[i] = "none"
  BY DEF Publishable, Unpublished
<1>4. /\ gh \in [Issues -> {"none", "open", "closed"}]
      /\ \A i \in Issues : x.gh[i] = "closed" => gh[i] = "closed"
      /\ \A i \in Issues : x.gh[i] # "none" => gh[i] # "none"
  BY <1>1, <1>3 DEF Shaped
<1>5. \A m, i : <<m, i>> \in links => i \in Issues /\ Carries(i, m)
  BY DEF Carried, Carries
<1> HIDE DEF gh, links, y
<1>6. MapsOwn(y)
  BY <1>2, <1>5 DEF Sound, MapsOwn
<1>7. Accepted(y)
  BY <1>2, <1>4, AcceptedGrows DEF Sound
<1>8. OnePlan(y)
  BY <1>2 DEF Sound, OnePlan
<1>9. Sound(y) /\ (Attended(x) => Attended(y))
  BY <1>1, <1>2, <1>4, <1>6, <1>7, <1>8, PlanSound DEF Shaped
<1> QED BY <1>2, <1>9 DEF y

\* apply_dispositions decides a candidate as accepted only with issues to carry it.
LEMMA DecidedStanding ==
    ASSUME NEW x, NEW m \in Improvements, Shaped(x)
    PROVE  /\ Decided(x, m) \in Standings
           /\ Decided(x, m) = "accepted" /\ x.cand[m] # "accepted" =>
                 Disposable(x, m) /\ x.proposal.decide[m] = "accept" /\ Carriers(x, m) # {}
<1>1. x.cand[m] \in Standings
  BY DEF Shaped
<1> QED BY <1>1 DEF Decided, Standings

LEMMA LinksOwn ==
    ASSUME NEW x, NEW m, NEW i, <<m, i>> \in UNION {Links(x, n) : n \in Improvements}
    PROVE  i \in Issues /\ Carries(i, m)
<1>1. PICK n \in Improvements : <<m, i>> \in Links(x, n)
  OBVIOUS
<1>2. <<m, i>> \in {n} \X Carriers(x, n)
  BY <1>1 DEF Links
<1> QED BY <1>2 DEF Carriers

LEMMA DisposedSound ==
    ASSUME NEW x, NEW M, NEW links, Sound(x), x.proposal # None, M \subseteq Improvements,
           links \subseteq UNION {Links(x, n) : n \in Improvements}
    PROVE  LET y == Disposed(x, M, links) IN Sound(y) /\ (Attended(x) => Attended(y))
<1> DEFINE cand == [m \in Improvements |-> IF m \in M THEN Decided(x, m) ELSE x.cand[m]]
           y == Disposed(x, M, links)
<1>1. Shaped(x) /\ Core \subseteq DOMAIN x
  BY DEF Sound, Shaped
<1>2. /\ DOMAIN y = DOMAIN x /\ y.cand = cand /\ y.mapped = x.mapped \union links
      /\ y.slot = x.slot /\ y.rows = x.rows /\ y.reviewer = x.reviewer /\ y.intent = x.intent
      /\ y.job = x.job /\ y.gh = x.gh /\ y.planner = x.planner /\ y.proposal = x.proposal
  BY <1>1 DEF Disposed, Core
<1>3. cand \in [Improvements -> Standings]
  BY <1>1, DecidedStanding DEF Shaped
<1>4. \A m \in Improvements : cand[m] = "accepted" =>
         \/ x.cand[m] = "accepted"
         \/ x.proposal.decide[m] = "accept" /\ Carriers(x, m) # {}
  BY <1>1, DecidedStanding
<1> HIDE DEF cand, y
<1>5. \A m : Carriers(y, m) = Carriers(x, m)
  BY <1>2 DEF Carriers
<1>6. Accepted(y)
  <2>1. \A m \in Improvements : y.cand[m] = "accepted" => x.cand[m] = "accepted" \/ Owed(y, m)
    BY <1>2, <1>4, <1>5 DEF Owed
  <2> QED BY <1>2, <2>1, AcceptedGrows DEF Sound
<1>7. MapsOwn(y)
  BY <1>2, LinksOwn DEF Sound, MapsOwn
<1>8. OnePlan(y)
  BY <1>2 DEF Sound, OnePlan
<1>9. Sound(y) /\ (Attended(x) => Attended(y))
  BY <1>1, <1>2, <1>3, <1>6, <1>7, <1>8, PlanSound DEF Shaped
<1> QED BY <1>9 DEF y

\* Once the proposal is taken down, what it accepted is mapped.
LEMMA PublishedSound ==
    ASSUME NEW x, Sound(x), x.proposal # None
    PROVE  Sound(Published(x)) /\ (Attended(x) => Attended(Published(x)))
<1> DEFINE y == AllIssued(x)
           links == UNION {Links(y, m) : m \in Improvements}
           z == Disposed(y, Improvements, links)
           done == [z EXCEPT !.proposal = None]
<1>1. Sound(y) /\ (Attended(x) => Attended(y)) /\ y.proposal # None
  <2>1. Publishable(x) \subseteq Issues
    <3>1. x.proposal \in AnyProposal
      BY DEF Sound, Shaped
    <3> QED BY <3>1 DEF Publishable, Unpublished, AnyProposal
  <2> QED BY <2>1, IssuedSound DEF AllIssued
<1>2. Published(x) = done
  BY DEF Published
<1> HIDE DEF y
<1>3. Sound(z) /\ (Attended(y) => Attended(z))
  BY <1>1, DisposedSound
<1>4. /\ z.cand = [m \in Improvements |-> Decided(y, m)] /\ z.mapped = y.mapped \union links
  <2>1. Core \subseteq DOMAIN y
    BY <1>1 DEF Sound, Shaped
  <2> QED BY <2>1 DEF Disposed, Core
<1>5. \A m \in Improvements : Decided(y, m) = "accepted" => \E i \in Issues : <<m, i>> \in z.mapped
  <2> SUFFICES ASSUME NEW m \in Improvements, Decided(y, m) = "accepted"
               PROVE  \E i \in Issues : <<m, i>> \in z.mapped
    OBVIOUS
  <2>1. Carriers(y, m) \subseteq Issues /\ Links(y, m) \subseteq z.mapped
    BY <1>4 DEF Carriers
  <2>2. CASE Disposable(y, m) /\ y.proposal.decide[m] = "accept" /\ Carriers(y, m) # {}
    BY <2>1, <2>2 DEF Links
  <2>3. CASE ~(y.proposal.decide[m] = "accept" /\ Carriers(y, m) # {})
    <3>1. y.cand[m] = "accepted"
      BY <2>3, <1>1, DecidedStanding DEF Sound
    <3>2. Mapped(y, m)
      BY <2>3, <3>1, <1>1 DEF Sound, Accepted, Owed
    <3> QED BY <3>2, <1>4 DEF Mapped
  <2>4. CASE ~Disposable(y, m) /\ y.proposal.decide[m] = "accept"
    <3>1. y.cand[m] = "accepted"
      BY <2>4 DEF Decided
    <3> QED BY <2>4, <3>1 DEF Disposable
  <2> QED BY <2>2, <2>3, <2>4
<1> HIDE DEF z, links
<1>6. Core \subseteq DOMAIN z
  BY <1>3 DEF Sound, Shaped
<1>7. /\ done.proposal = None /\ DOMAIN done = DOMAIN z /\ done.cand = z.cand /\ done.mapped = z.mapped
      /\ done.slot = z.slot /\ done.rows = z.rows /\ done.reviewer = z.reviewer
      /\ done.intent = z.intent /\ done.job = z.job /\ done.gh = z.gh /\ done.planner = z.planner
  BY <1>6 DEF Core
<1> HIDE DEF done
<1>8. Accepted(done) /\ OnePlan(done)
  BY <1>4, <1>5, <1>7 DEF Accepted, Mapped, OnePlan
<1>9. MapsOwn(done)
  BY <1>3, <1>7 DEF Sound, MapsOwn
<1>10. Sound(done) /\ (Attended(z) => Attended(done))
  BY <1>3, <1>6, <1>7, <1>8, <1>9, PlanSound DEF Sound, Shaped
<1> QED BY <1>1, <1>2, <1>3, <1>10

\* A planner's proposal is pending only once no planner is on record.
LEMMA PlannerDoneRuns ==
    ASSUME NEW x, NEW proposal \in AnyProposal \union {None}, Sound(x), Attended(x),
           x.planner # "none"
    PROVE  LET t == PlannerDone(x, proposal)
           IN  Safe(t) /\ Sound(Last(t)) /\ Attended(Last(t))
<1> DEFINE taken == [x EXCEPT !.planner = "none", !.shown = {}]
           pending == [taken EXCEPT !.proposal = proposal]
           t == PlannerDone(x, proposal)
<1>1. Shaped(x) /\ Core \subseteq DOMAIN x /\ x.proposal = None
  BY DEF Sound, Shaped, OnePlan
<1>2. /\ DOMAIN taken = DOMAIN x /\ taken.planner = "none" /\ taken.cand = x.cand
      /\ taken.mapped = x.mapped /\ taken.slot = x.slot /\ taken.rows = x.rows
      /\ taken.reviewer = x.reviewer /\ taken.intent = x.intent /\ taken.job = x.job
      /\ taken.gh = x.gh /\ taken.proposal = x.proposal
  BY <1>1 DEF Core
<1>3. t \in {<<taken>>, <<taken, pending>>}
  BY DEF PlannerDone
<1> HIDE DEF taken
<1>4. \A m \in Improvements : x.cand[m] = "accepted" => Mapped(x, m)
  BY <1>1 DEF Sound, Accepted, Owed
<1>5. Sound(taken) /\ Attended(taken)
  <2>1. MapsOwn(taken) /\ Accepted(taken) /\ OnePlan(taken)
    BY <1>2, <1>4 DEF Sound, MapsOwn, Accepted, Mapped, OnePlan
  <2>2. taken.planner \in PlannerStates
    BY <1>2 DEF PlannerStates
  <2> QED BY <1>1, <1>2, <2>1, <2>2, PlanSound DEF Shaped
<1>6. /\ DOMAIN pending = DOMAIN x /\ pending.planner = "none" /\ pending.cand = x.cand
      /\ pending.mapped = x.mapped /\ pending.slot = x.slot /\ pending.rows = x.rows
      /\ pending.reviewer = x.reviewer /\ pending.intent = x.intent /\ pending.job = x.job
      /\ pending.gh = x.gh /\ pending.proposal = proposal
  BY <1>1, <1>2 DEF Core
<1> HIDE DEF pending
<1>7. Sound(pending) /\ Attended(pending)
  <2>1. MapsOwn(pending) /\ Accepted(pending) /\ OnePlan(pending)
    BY <1>4, <1>6 DEF Sound, MapsOwn, Accepted, Mapped, OnePlan
  <2>2. pending.planner \in PlannerStates
    BY <1>6 DEF PlannerStates
  <2> QED BY <1>1, <1>6, <2>1, <2>2, PlanSound DEF Shaped
<1> HIDE DEF t
<1>8. Safe(t) /\ Sound(Last(t)) /\ Attended(Last(t))
  BY <1>3, <1>5, <1>7, SafeOne, SafePair
<1> QED BY <1>8 DEF t

LEMMA CutShortKeeps ==
    ASSUME NEW y, Sound(y), CutShort(y)
    PROVE  LaneInv'
<1>1. Sound(db)' /\ up' = FALSE
  BY DEF CutShort
<1> QED BY <1>1 DEF LaneInv

LEMMA PlannerStep ==
    ASSUME NEW proposal \in AnyProposal \union {None}, LaneInv, Planner(proposal)
    PROVE  LaneInv'
<1> DEFINE one == IF db.planner = "done" THEN PlannerDone(db, proposal) ELSE <<db>>
           x == Last(one)
<1>1. Sound(db) /\ Attended(db)
  BY DEF LaneInv, Planner
<1>2. Safe(one) /\ Sound(x) /\ Attended(x)
  <2>1. CASE db.planner = "done"
    BY <1>1, <2>1, PlannerDoneRuns
  <2>2. CASE db.planner # "done"
    BY <1>1, <2>2, SafeOne
  <2> QED BY <2>1, <2>2
<1>3. \/ Perform(one)
      \/ /\ x.proposal # None
         /\ \/ Perform(Append(one, Published(x)))
            \/ \E y \in Issuing(x) \union Disposing(AllIssued(x)) : CutShort(y)
  BY DEF Planner
<1> HIDE DEF one
<1>4. CASE Perform(one)
  BY <1>2, <1>4, PerformKeeps
<1>5. CASE x.proposal # None /\ Perform(Append(one, Published(x)))
  <2> DEFINE z == Published(x)
  <2>1. Sound(z) /\ Attended(z)
    BY <1>2, <1>5, PublishedSound
  <2> HIDE DEF z
  <2>2. Safe(one \o <<z>>) /\ Attended(Last(one \o <<z>>))
    BY <1>2, <2>1, SafeOne, SafeConcat
  <2>3. Append(one, z) = one \o <<z>>
    <3>1. PICK S : one \in Seq(S)
      BY <1>2 DEF Safe
    <3>2. one \in Seq(S \union {z})
      BY <3>1
    <3> QED BY <3>2
  <2>4. Perform(one \o <<z>>)
    BY <1>5, <2>3 DEF z
  <2> QED BY <2>2, <2>4, PerformKeeps
<1>6. CASE x.proposal # None /\ \E y \in Issuing(x) \union Disposing(AllIssued(x)) : CutShort(y)
  <2> HIDE DEF x
  <2>1. PICK y \in Issuing(x) \union Disposing(AllIssued(x)) : CutShort(y)
    BY <1>6
  <2>2. Publishable(x) \subseteq Issues
    <3>1. x.proposal \in AnyProposal
      BY <1>2, <1>6 DEF Sound, Shaped
    <3> QED BY <3>1 DEF Publishable, Unpublished, AnyProposal
  <2>3. ASSUME y \in Issuing(x) PROVE Sound(y)
    <3>1. PICK created, linked :
             created \subseteq Publishable(x) /\ linked \subseteq created /\ y = Issued(x, created, linked)
      BY <2>3 DEF Issuing
    <3> QED BY <1>2, <2>2, <3>1, IssuedSound
  <2>4. ASSUME y \in Disposing(AllIssued(x)) PROVE Sound(y)
    <3> DEFINE z == AllIssued(x)
    <3>1. Sound(z) /\ z.proposal # None
      BY <1>2, <1>6, <2>2, IssuedSound DEF AllIssued
    <3> HIDE DEF z
    <3> DEFINE Before(M) == UNION {Links(z, n) : n \in M}
               Cut(M, m) == {Disposed(z, M \union {m}, Before(M) \union links) : links \in SUBSET Links(z, m)}
    <3>2. PICK M \in SUBSET Improvements, m \in Improvements : y \in Cut(M, m)
      <4>1. Disposing(z) = UNION {Cut(M, m) : M \in SUBSET Improvements, m \in Improvements}
        BY DEF Disposing
      <4> HIDE DEF Cut
      <4> QED BY <2>4, <4>1 DEF z
    <3>3. PICK links \in SUBSET Links(z, m) : y = Disposed(z, M \union {m}, Before(M) \union links)
      BY <3>2
    <3>5. Before(M) \union links \subseteq UNION {Links(z, n) : n \in Improvements}
      BY <3>2, <3>3
    <3> HIDE DEF Before, Cut
    <3>4. M \union {m} \subseteq Improvements
      BY <3>2
    <3> QED BY <3>1, <3>3, <3>4, <3>5, DisposedSound
  <2> QED BY <2>1, <2>3, <2>4, CutShortKeeps
<1> QED BY <1>3, <1>4, <1>5, <1>6

LEMMA LaunchPlannerStep ==
    ASSUME LaneInv, LaunchPlanner
    PROVE  LaneInv'
<1> DEFINE shown == {m \in Improvements : db.cand[m] \in {"pending", "accepted"}}
           spawned == [db EXCEPT !.planner = "unrecorded", !.plans = @ + 1, !.shown = shown]
           recorded == [spawned EXCEPT !.planner = "running"]
<1>1. Sound(db) /\ Attended(db) /\ db.proposal = None /\ Perform(<<spawned, recorded>>)
  BY DEF LaneInv, LaunchPlanner
<1>2. Shaped(db) /\ Core \subseteq DOMAIN db
  BY <1>1 DEF Sound, Shaped
<1> HIDE DEF shown
<1>3. /\ DOMAIN spawned = DOMAIN db /\ spawned.planner = "unrecorded" /\ spawned.cand = db.cand
      /\ spawned.mapped = db.mapped /\ spawned.slot = db.slot /\ spawned.rows = db.rows
      /\ spawned.reviewer = db.reviewer /\ spawned.intent = db.intent /\ spawned.job = db.job
      /\ spawned.gh = db.gh /\ spawned.proposal = db.proposal
  BY <1>2 DEF Core
<1> HIDE DEF spawned
<1>4. Sound(spawned) /\ Attended(spawned)
  <2>1. MapsOwn(spawned) /\ Accepted(spawned) /\ OnePlan(spawned)
    BY <1>1, <1>3 DEF Sound, MapsOwn, Accepted, Mapped, Owed, Carriers, OnePlan
  <2>2. spawned.planner \in PlannerStates
    BY <1>3 DEF PlannerStates
  <2> QED BY <1>1, <1>2, <1>3, <2>1, <2>2, PlanSound DEF Shaped
<1>5. /\ DOMAIN recorded = DOMAIN db /\ recorded.planner = "running" /\ recorded.cand = db.cand
      /\ recorded.mapped = db.mapped /\ recorded.slot = db.slot /\ recorded.rows = db.rows
      /\ recorded.reviewer = db.reviewer /\ recorded.intent = db.intent /\ recorded.job = db.job
      /\ recorded.gh = db.gh /\ recorded.proposal = db.proposal
  BY <1>2, <1>3 DEF Core
<1> HIDE DEF recorded
<1>6. Sound(recorded) /\ Attended(recorded)
  <2>1. MapsOwn(recorded) /\ Accepted(recorded) /\ OnePlan(recorded)
    BY <1>1, <1>5 DEF Sound, MapsOwn, Accepted, Mapped, Owed, Carriers, OnePlan
  <2>2. recorded.planner \in PlannerStates
    BY <1>5 DEF PlannerStates
  <2> QED BY <1>1, <1>2, <1>5, <2>1, <2>2, PlanSound DEF Shaped
<1>7. Safe(<<spawned, recorded>>) /\ Attended(Last(<<spawned, recorded>>))
  BY <1>4, <1>6, SafePair
<1> QED BY <1>1, <1>7, PerformKeeps

-------------------------------------------------------------------------------
(* Dispatch and jobs.                                                        *)

\* One job changes its status; a job that starts has a slot.
LEMMA JobSound ==
    ASSUME NEW x, NEW y, NEW i \in Issues, NEW status \in JobStates,
           Sound(x), Core \subseteq DOMAIN y,
           y.slot = x.slot, y.rows = x.rows, y.reviewer = x.reviewer, y.intent = x.intent,
           y.cand = x.cand, y.planner = x.planner, y.proposal = x.proposal, y.mapped = x.mapped,
           y.job = [x.job EXCEPT ![i] = status],
           \/ y.gh = x.gh /\ status # "done"
           \/ y.gh = [x.gh EXCEPT ![i] = "closed"],
           status = "working" => Cardinality(Working(x)) + Cardinality(Running(x)) < Capacity
    PROVE  Sound(y) /\ (Attended(x) => Attended(y))
<1>1. Shaped(x) /\ Core \subseteq DOMAIN x
  BY DEF Sound, Shaped
<1>2. Shaped(y)
  BY <1>1 DEF Shaped
<1>3. Running(y) = Running(x)
  BY DEF Running
<1>4. Within(y)
  <2>1. Working(y) \subseteq Working(x) \union (IF status = "working" THEN {i} ELSE {})
    BY <1>1 DEF Working, Shaped
  <2>2. /\ IsFiniteSet(Working(x)) /\ Cardinality(Working(x)) \in Nat
        /\ Cardinality(Running(x)) \in Nat /\ Capacity \in Nat /\ Cardinality(Working(y)) \in Nat
    BY <1>1, <1>2, Counts
  <2>3. CASE status # "working"
    <3>1. Working(y) \subseteq Working(x)
      BY <2>1, <2>3
    <3>2. Cardinality(Working(y)) <= Cardinality(Working(x))
      BY <2>2, <3>1, FS_Subset
    <3> QED BY <1>3, <2>2, <3>2 DEF Sound, Within
  <2>4. CASE status = "working"
    <3>1. Working(y) \subseteq Working(x) \union {i}
      BY <2>1, <2>4
    <3>2. /\ IsFiniteSet(Working(x) \union {i})
          /\ Cardinality(Working(x) \union {i}) <= Cardinality(Working(x)) + 1
      <4> DEFINE W == Working(x)
      <4>1. IsFiniteSet(W) /\ Cardinality(W) \in Nat
        BY <2>2
      <4> HIDE DEF W
      <4>2. /\ IsFiniteSet(W \union {i})
            /\ Cardinality(W \union {i}) = (IF i \in W THEN Cardinality(W) ELSE Cardinality(W) + 1)
        BY <4>1, FS_AddElement
      <4>3. Cardinality(W \union {i}) <= Cardinality(W) + 1
        BY <4>1, <4>2
      <4> QED BY <4>2, <4>3 DEF W
    <3>3. Cardinality(Working(y)) <= Cardinality(Working(x) \union {i})
      BY <3>1, <3>2, FS_Subset
    <3>4. Cardinality(Working(x) \union {i}) \in Nat
      BY <3>2, FS_CardinalityType
    <3> QED BY <1>3, <2>2, <2>4, <3>2, <3>3, <3>4 DEF Within
  <2> QED BY <2>3, <2>4
<1>5. DoneCloses(y)
  BY <1>1 DEF Sound, DoneCloses, Shaped
<1>6. MapsOwn(y) /\ OnePlan(y)
  BY DEF Sound, MapsOwn, OnePlan
<1>7. \A j \in Issues : x.gh[j] # "none" => y.gh[j] # "none"
  BY <1>1 DEF Shaped
<1>8. Accepted(y)
  BY <1>7, AcceptedGrows DEF Sound
<1>9. Attended(x) => Attended(y)
  BY <1>3 DEF Attended
<1> QED BY <1>2, <1>4, <1>5, <1>6, <1>8, <1>9 DEF Sound

\* The improvement's slot is no part of the argument.
LEMMA ActiveSound ==
    ASSUME NEW x, NEW m, Sound(x)
    PROVE  LET y == [x EXCEPT !.active = m]
           IN  /\ Sound(y) /\ (Attended(x) => Attended(y))
               /\ y.job = x.job /\ y.reviewer = x.reviewer /\ y.rows = x.rows
<1> DEFINE y == [x EXCEPT !.active = m]
<1>1. Shaped(x) /\ Core \subseteq DOMAIN x
  BY DEF Sound, Shaped
<1>2. /\ y.slot = x.slot /\ y.rows = x.rows /\ y.cand = x.cand /\ y.planner = x.planner
      /\ y.proposal = x.proposal /\ y.gh = x.gh /\ y.mapped = x.mapped /\ y.job = x.job
      /\ y.reviewer = x.reviewer /\ y.intent = x.intent /\ Core \subseteq DOMAIN y
  BY <1>1 DEF Core
<1> HIDE DEF y
<1>3. Quiet(x, y)
  BY <1>1, <1>2, SettingQuiet DEF Shaped
<1> QED BY <1>2, <1>3, QuietKeeps, QuietAttended DEF y

LEMMA RefreshedSound ==
    ASSUME NEW x, Sound(x)
    PROVE  Sound(Refreshed(x)) /\ (Attended(x) => Attended(Refreshed(x)))
<1>1. Refreshed(x) = x \/ Refreshed(x) = [x EXCEPT !.active = None]
  BY DEF Refreshed
<1> QED BY <1>1, ActiveSound

LEMMA DispatchStep ==
    ASSUME NEW i \in Issues, NEW launched \in BOOLEAN, LaneInv, Dispatch(i, launched)
    PROVE  LaneInv'
<1> DEFINE x == Refreshed(db)
           reserved == [x EXCEPT !.job[i] = "working"]
           claimed == IF ImprovementOf[i] # None /\ x.active = None
                      THEN [reserved EXCEPT !.active = ImprovementOf[i]] ELSE reserved
           parked == [claimed EXCEPT !.job[i] = "blocked"]
           failed == IF launched THEN <<>> ELSE <<parked>>
<1>1. /\ Sound(db) /\ Attended(db) /\ SlotsUsed(x) < Capacity
      /\ Perform(<<x, reserved, claimed>> \o failed)
  BY DEF LaneInv, Dispatch
<1>2. Sound(x) /\ Attended(x)
  BY <1>1, RefreshedSound
<1> HIDE DEF x
<1>3. Sound(reserved) /\ Attended(reserved)
  <2>1. Shaped(x) /\ Core \subseteq DOMAIN x
    BY <1>2 DEF Sound, Shaped
  <2>2. Cardinality(Working(x)) + Cardinality(Running(x)) < Capacity
    <3>1. /\ Cardinality(Working(x)) + Cardinality(Running(x)) <= SlotsUsed(x)
          /\ SlotsUsed(x) \in Nat
      BY <1>2, <2>1, SlotsBound
    <3>2. /\ Cardinality(Working(x)) \in Nat /\ Cardinality(Running(x)) \in Nat /\ Capacity \in Nat
      BY <2>1, Counts
    <3> QED BY <1>1, <3>1, <3>2
  <2>3. /\ reserved.slot = x.slot /\ reserved.rows = x.rows /\ reserved.cand = x.cand
        /\ reserved.planner = x.planner /\ reserved.proposal = x.proposal /\ reserved.gh = x.gh
        /\ reserved.mapped = x.mapped /\ reserved.reviewer = x.reviewer
        /\ reserved.intent = x.intent /\ Core \subseteq DOMAIN reserved
        /\ reserved.job = [x.job EXCEPT ![i] = "working"]
    BY <2>1 DEF Core
  <2> HIDE DEF reserved
  <2>4. "working" \in JobStates /\ "working" # "done"
    BY DEF JobStates
  <2> QED BY <1>2, <2>2, <2>3, <2>4, JobSound
<1> HIDE DEF reserved
<1>4. Sound(claimed) /\ Attended(claimed)
  BY <1>3, ActiveSound
<1> HIDE DEF claimed
<1>5. Sound(parked) /\ Attended(parked)
  <2>1. Shaped(claimed) /\ Core \subseteq DOMAIN claimed
    BY <1>4 DEF Sound, Shaped
  <2>2. /\ parked.slot = claimed.slot /\ parked.rows = claimed.rows /\ parked.cand = claimed.cand
        /\ parked.planner = claimed.planner /\ parked.proposal = claimed.proposal
        /\ parked.gh = claimed.gh /\ parked.mapped = claimed.mapped
        /\ parked.reviewer = claimed.reviewer /\ parked.intent = claimed.intent
        /\ Core \subseteq DOMAIN parked /\ parked.job = [claimed.job EXCEPT ![i] = "blocked"]
    BY <2>1 DEF Core
  <2> HIDE DEF parked
  <2>3. "blocked" \in JobStates /\ "blocked" # "done" /\ "blocked" # "working"
    BY DEF JobStates
  <2> QED BY <1>4, <2>2, <2>3, JobSound
<1> HIDE DEF parked
<1>6. Safe(<<x, reserved, claimed>>) /\ Last(<<x, reserved, claimed>>) = claimed
  BY <1>2, <1>3, <1>4, SafeThree
<1> DEFINE head == <<x, reserved, claimed>>
<1>7. Safe(head) /\ Last(head) = claimed /\ Perform(head \o failed)
  BY <1>1, <1>6
<1> HIDE DEF head
<1>8. Safe(head \o failed) /\ Attended(Last(head \o failed))
  <2>1. CASE launched
    <3>1. failed = <<>> /\ head \o <<>> = head
      BY <1>7, <2>1, SafeEmpty
    <3> QED BY <1>4, <1>7, <3>1
  <2>2. CASE ~launched
    <3>1. failed = <<parked>> /\ Safe(<<parked>>) /\ Last(<<parked>>) = parked
      BY <1>5, <2>2, SafeOne
    <3> HIDE DEF failed
    <3> QED BY <1>5, <1>7, <3>1, SafeConcat
  <2> QED BY <2>1, <2>2
<1> HIDE DEF failed
<1> QED BY <1>7, <1>8, PerformKeeps

LEMMA RefreshStep ==
    ASSUME LaneInv, Refresh
    PROVE  LaneInv'
<1> DEFINE x == Refreshed(db)
<1>1. Sound(x) /\ Attended(x) /\ Perform(<<x>>)
  BY RefreshedSound DEF LaneInv, Refresh
<1> HIDE DEF x
<1> QED BY <1>1, SafeOne, PerformKeeps

\* A step outside the handlers: the next world is sound, and attended where this one is.
LEMMA StepKeeps ==
    ASSUME NEW y, LaneInv, db' = y, up' = up, Sound(y), Attended(db) => Attended(y)
    PROVE  LaneInv'
<1>1. Sound(db)' /\ (Attended(db) => Attended(db)')
  BY DEF Sound, Attended
<1> QED BY <1>1 DEF LaneInv

LEMMA JobEndsStep ==
    ASSUME NEW i \in Issues, NEW status \in {"done", "blocked"}, LaneInv, JobEnds(i, status)
    PROVE  LaneInv'
<1>1. Sound(db) /\ Shaped(db) /\ Core \subseteq DOMAIN db
  BY DEF LaneInv, Sound, Shaped
<1>2. "done" \in JobStates /\ "blocked" \in JobStates /\ "done" # "working" /\ "blocked" # "working"
      /\ "blocked" # "done"
  BY DEF JobStates
<1>3. CASE status = "done"
  <2> DEFINE y == [db EXCEPT !.job[i] = "done", !.gh[i] = "closed"]
  <2>1. /\ y.slot = db.slot /\ y.rows = db.rows /\ y.cand = db.cand /\ y.planner = db.planner
        /\ y.proposal = db.proposal /\ y.mapped = db.mapped /\ y.reviewer = db.reviewer
        /\ y.intent = db.intent /\ Core \subseteq DOMAIN y
        /\ y.job = [db.job EXCEPT ![i] = "done"] /\ y.gh = [db.gh EXCEPT ![i] = "closed"]
    BY <1>1 DEF Core
  <2>2. db' = y /\ up' = up
    BY <1>3 DEF JobEnds
  <2> HIDE DEF y
  <2>3. Sound(y) /\ (Attended(db) => Attended(y))
    BY <1>1, <1>2, <2>1, JobSound
  <2> QED BY <2>2, <2>3, StepKeeps
<1>4. CASE status = "blocked"
  <2> DEFINE y == [db EXCEPT !.job[i] = "blocked"]
  <2>1. /\ y.slot = db.slot /\ y.rows = db.rows /\ y.cand = db.cand /\ y.planner = db.planner
        /\ y.proposal = db.proposal /\ y.mapped = db.mapped /\ y.reviewer = db.reviewer
        /\ y.intent = db.intent /\ Core \subseteq DOMAIN y
        /\ y.job = [db.job EXCEPT ![i] = "blocked"] /\ y.gh = db.gh
    BY <1>1 DEF Core
  <2>2. db' = y /\ up' = up
    BY <1>2, <1>4 DEF JobEnds
  <2> HIDE DEF y
  <2>3. Sound(y) /\ (Attended(db) => Attended(y))
    BY <1>1, <1>2, <2>1, JobSound
  <2> QED BY <2>2, <2>3, StepKeeps
<1> QED BY <1>3, <1>4

LEMMA RetryStep ==
    ASSUME NEW i \in Issues, LaneInv, Retry(i)
    PROVE  LaneInv'
<1> DEFINE y == [db EXCEPT !.job[i] = "working", !.retries = @ + 1]
<1>1. Sound(db) /\ Shaped(db) /\ Core \subseteq DOMAIN db /\ Attended(db)
      /\ SlotsUsed(db) < Capacity /\ db' = y /\ up' = up
  BY DEF LaneInv, Sound, Shaped, Retry
<1>2. Cardinality(Working(db)) + Cardinality(Running(db)) < Capacity
  <2>1. /\ Cardinality(Working(db)) + Cardinality(Running(db)) <= SlotsUsed(db)
        /\ SlotsUsed(db) \in Nat
    BY <1>1, SlotsBound
  <2>2. /\ Cardinality(Working(db)) \in Nat /\ Cardinality(Running(db)) \in Nat /\ Capacity \in Nat
    BY <1>1, Counts
  <2> QED BY <1>1, <2>1, <2>2
<1>3. /\ y.slot = db.slot /\ y.rows = db.rows /\ y.cand = db.cand /\ y.planner = db.planner
      /\ y.proposal = db.proposal /\ y.mapped = db.mapped /\ y.reviewer = db.reviewer
      /\ y.intent = db.intent /\ Core \subseteq DOMAIN y
      /\ y.job = [db.job EXCEPT ![i] = "working"] /\ y.gh = db.gh
  BY <1>1 DEF Core
<1> HIDE DEF y
<1>4. Sound(y) /\ (Attended(db) => Attended(y))
  <2>1. "working" \in JobStates /\ "working" # "done"
    BY DEF JobStates
  <2> QED BY <1>1, <1>2, <1>3, <2>1, JobSound
<1> QED BY <1>1, <1>4, StepKeeps

-------------------------------------------------------------------------------
(* Restarts and the environment.                                             *)

\* Agents of review rows that are asked to end.
LEMMA RowsStopped ==
    ASSUME NEW x, NEW stop, NEW rows, Shaped(x),
           rows = [i \in DOMAIN x.rows |-> IF stop[i] THEN StopAgent(x.rows[i]) ELSE x.rows[i]]
    PROVE  /\ rows \in Seq(Rows) /\ Len(rows) = Len(x.rows) /\ DOMAIN rows = DOMAIN x.rows
           /\ \A i \in DOMAIN rows : rows[i].agent = "running" =>
                 x.rows[i].agent = "running" /\ ~stop[i]
<1>1. DOMAIN x.rows = 1 .. Len(x.rows) /\ Len(x.rows) \in Nat /\ \A i \in DOMAIN x.rows : x.rows[i] \in Rows
  BY DEF Shaped
<1>2. \A row \in Rows : StopAgent(row) \in Rows /\ StopAgent(row).agent # "running"
  BY DEF Rows, Agents, StopAgent
<1>3. rows \in Seq(Rows) /\ DOMAIN rows = DOMAIN x.rows /\ Len(rows) = Len(x.rows)
  BY <1>1, <1>2
<1>4. ASSUME NEW i \in DOMAIN rows, rows[i].agent = "running"
      PROVE  x.rows[i].agent = "running" /\ ~stop[i]
  BY <1>1, <1>2, <1>3, <1>4
<1> QED BY <1>3, <1>4

\* recover_processes leaves no reviewer but the one it adopts.
LEMMA RestartStep ==
    ASSUME NEW enabled, LaneInv, Restart(enabled)
    PROVE  LaneInv'
<1> DEFINE adopted == db.reviewer = 0 /\ db.intent # 0 /\ db.rows[db.intent].agent # "none"
           owner == IF adopted THEN db.intent ELSE db.reviewer
           unowned == LiveReviewers(db) \ {owner}
           rows == [i \in DOMAIN db.rows |->
                       IF i \in unowned THEN StopAgent(db.rows[i]) ELSE db.rows[i]]
           planner == IF db.planner = "unrecorded" THEN "stopping" ELSE db.planner
           y == [Recovered(db) EXCEPT !.enabled = enabled, !.fresh = {}]
<1>1. Sound(db) /\ Shaped(db) /\ Core \subseteq DOMAIN db /\ db' = y /\ up'
  BY DEF LaneInv, Sound, Shaped, Restart
<1>2. /\ y.slot = db.slot /\ y.rows = rows /\ y.cand = db.cand /\ y.planner = planner
      /\ y.proposal = db.proposal /\ y.mapped = db.mapped /\ y.reviewer = owner
      /\ y.intent = db.intent /\ Core \subseteq DOMAIN y /\ y.job = db.job /\ y.gh = db.gh
  BY <1>1 DEF Core, Recovered
<1>3. /\ rows \in Seq(Rows) /\ Len(rows) = Len(db.rows) /\ DOMAIN rows = DOMAIN db.rows
      /\ \A i \in DOMAIN rows : rows[i].agent = "running" =>
            db.rows[i].agent = "running" /\ i \notin unowned
  <2> DEFINE stop == [i \in DOMAIN db.rows |-> i \in unowned]
  <2>1. rows = [i \in DOMAIN db.rows |-> IF stop[i] THEN StopAgent(db.rows[i]) ELSE db.rows[i]]
    OBVIOUS
  <2>2. \A i \in DOMAIN db.rows : stop[i] <=> i \in unowned
    OBVIOUS
  <2> HIDE DEF stop, rows, unowned
  <2>3. /\ rows \in Seq(Rows) /\ Len(rows) = Len(db.rows) /\ DOMAIN rows = DOMAIN db.rows
        /\ \A i \in DOMAIN rows : rows[i].agent = "running" =>
              db.rows[i].agent = "running" /\ ~stop[i]
    BY <1>1, <2>1, RowsStopped
  <2> QED BY <2>2, <2>3
<1>4. owner \in 0 .. Len(db.rows)
  BY <1>1 DEF Shaped
<1>5. \A i \in DOMAIN rows : rows[i].agent = "running" => i = owner
  BY <1>3 DEF LiveReviewers
<1>6. planner \in PlannerStates /\ (planner # "none" => db.planner # "none")
  BY <1>1 DEF Shaped, PlannerStates
<1> HIDE DEF y, rows, owner, planner, unowned, adopted
<1>7. Running(y) \subseteq Running(db) /\ Attended(y)
  BY <1>2, <1>3, <1>5 DEF Running, Attended
<1> DEFINE z == [y EXCEPT !.planner = db.planner]
<1>8. /\ z.slot = db.slot /\ z.rows = rows /\ z.cand = db.cand /\ z.planner = db.planner
      /\ z.proposal = db.proposal /\ z.mapped = db.mapped /\ z.reviewer = owner
      /\ z.intent = db.intent /\ Core \subseteq DOMAIN z /\ z.job = db.job /\ z.gh = db.gh
  BY <1>2 DEF Core
<1> HIDE DEF z
<1>9. Sound(z)
  <2>1. Running(z) = Running(y)
    BY <1>2, <1>8 DEF Running
  <2>2. Quiet(db, z)
    BY <1>1, <1>3, <1>4, <1>7, <1>8, <2>1 DEF Quiet, Shaped
  <2> QED BY <1>1, <2>2, QuietKeeps
<1>10. Sound(y)
  <2>1. MapsOwn(y) /\ Accepted(y) /\ OnePlan(y)
    BY <1>1, <1>2, <1>6 DEF Sound, MapsOwn, Accepted, Mapped, Owed, Carriers, OnePlan
  <2> QED BY <1>1, <1>2, <1>6, <1>8, <1>9, <2>1, PlanSound DEF Shaped
<1>11. Sound(db)' /\ Attended(db)'
  BY <1>1, <1>7, <1>10 DEF Sound, Attended
<1> QED BY <1>1, <1>11 DEF LaneInv

LEMMA StopStep ==
    ASSUME LaneInv, Stop
    PROVE  LaneInv'
<1> DEFINE rows == [i \in DOMAIN db.rows |->
                       IF i = db.reviewer THEN StopAgent(db.rows[i]) ELSE db.rows[i]]
           y == [db EXCEPT !.rows = rows]
<1>1. Sound(db) /\ Shaped(db) /\ Core \subseteq DOMAIN db /\ db' = y /\ up' = FALSE
  BY DEF LaneInv, Sound, Shaped, Stop
<1>2. /\ y.slot = db.slot /\ y.rows = rows /\ y.cand = db.cand /\ y.planner = db.planner
      /\ y.proposal = db.proposal /\ y.mapped = db.mapped /\ y.reviewer = db.reviewer
      /\ y.intent = db.intent /\ Core \subseteq DOMAIN y /\ y.job = db.job /\ y.gh = db.gh
  BY <1>1 DEF Core
<1>3. /\ rows \in Seq(Rows) /\ Len(rows) = Len(db.rows) /\ DOMAIN rows = DOMAIN db.rows
      /\ \A i \in DOMAIN rows : rows[i].agent = "running" => db.rows[i].agent = "running"
  <2> DEFINE stop == [i \in DOMAIN db.rows |-> i = db.reviewer]
  <2>1. rows = [i \in DOMAIN db.rows |-> IF stop[i] THEN StopAgent(db.rows[i]) ELSE db.rows[i]]
    OBVIOUS
  <2> HIDE DEF stop, rows
  <2> QED BY <1>1, <2>1, RowsStopped
<1> HIDE DEF y, rows
<1>4. Running(y) \subseteq Running(db)
  BY <1>2, <1>3 DEF Running
<1>5. Quiet(db, y)
  BY <1>1, <1>2, <1>3, <1>4 DEF Quiet, Shaped
<1>6. Sound(db)'
  BY <1>1, <1>5, QuietKeeps DEF Sound
<1> QED BY <1>1, <1>6 DEF LaneInv

LEMMA ReviewerEndsStep ==
    ASSUME NEW i, NEW how \in {"done", "failed"}, LaneInv, ReviewerEnds(i, how)
    PROVE  LaneInv'
<1> DEFINE v == IF db.rows[i].agent = "stopping" THEN "failed" ELSE how
           rows == [db.rows EXCEPT ![i].agent = v]
           y == [db EXCEPT !.rows = rows]
<1>1. /\ Sound(db) /\ Shaped(db) /\ Core \subseteq DOMAIN db /\ i \in DOMAIN db.rows
      /\ db' = [db EXCEPT !.rows[i].agent = IF @ = "stopping" THEN "failed" ELSE how] /\ up' = up
  BY DEF LaneInv, Sound, Shaped, ReviewerEnds, LiveReviewers
<1>2. db' = y /\ DOMAIN y = DOMAIN db /\ y.rows = rows
  BY <1>1 DEF Core
<1>3. v \in Agents /\ v # "running"
  BY DEF Agents
<1> HIDE DEF v
<1>4. /\ rows \in Seq(Rows) /\ Len(rows) = Len(db.rows) /\ DOMAIN rows = DOMAIN db.rows
      /\ rows[i].agent = v /\ \A j \in DOMAIN db.rows \ {i} : rows[j].agent = db.rows[j].agent
  BY <1>1, <1>3, RowAgent DEF Shaped
<1>5. /\ y.slot = db.slot /\ y.cand = db.cand /\ y.planner = db.planner
      /\ y.proposal = db.proposal /\ y.mapped = db.mapped /\ y.reviewer = db.reviewer
      /\ y.intent = db.intent /\ y.job = db.job /\ y.gh = db.gh
  BY <1>1 DEF Core
<1> HIDE DEF y, rows
<1>6. Running(y) \subseteq Running(db)
  BY <1>1, <1>2, <1>3, <1>4 DEF Running
<1>7. Quiet(db, y)
  BY <1>1, <1>2, <1>4, <1>5, <1>6 DEF Quiet, Shaped
<1>8. Sound(y) /\ (Attended(db) => Attended(y))
  BY <1>1, <1>5, <1>7, QuietKeeps, QuietAttended
<1> QED BY <1>1, <1>2, <1>8, StepKeeps

LEMMA PlannerEndsStep ==
    ASSUME LaneInv, PlannerEnds
    PROVE  LaneInv'
<1> DEFINE planner == IF db.planner = "running" THEN "done" ELSE "none"
           y == [db EXCEPT !.planner = planner]
<1>1. Sound(db) /\ Shaped(db) /\ Core \subseteq DOMAIN db /\ db' = y /\ up' = up /\ db.planner # "none"
  BY DEF LaneInv, Sound, Shaped, PlannerEnds
<1>2. /\ y.slot = db.slot /\ y.rows = db.rows /\ y.cand = db.cand /\ y.planner = planner
      /\ y.proposal = db.proposal /\ y.mapped = db.mapped /\ y.reviewer = db.reviewer
      /\ y.intent = db.intent /\ Core \subseteq DOMAIN y /\ y.job = db.job /\ y.gh = db.gh
  BY <1>1 DEF Core
<1>3. planner \in PlannerStates
  BY DEF PlannerStates
<1> HIDE DEF y, planner
<1>4. MapsOwn(y) /\ Accepted(y) /\ OnePlan(y)
  BY <1>1, <1>2 DEF Sound, MapsOwn, Accepted, Mapped, Owed, Carriers, OnePlan
<1>5. Sound(y) /\ (Attended(db) => Attended(y))
  BY <1>1, <1>2, <1>3, <1>4, PlanSound DEF Shaped
<1> QED BY <1>1, <1>5, StepKeeps

\* The steps that write one setting the argument does not read.
LEMMA SettingKeeps ==
    ASSUME NEW y, LaneInv, db' = y, up' = up, Core \subseteq DOMAIN y, y.slot \in Nat,
           y.rows = db.rows, y.cand = db.cand, y.planner = db.planner,
           y.proposal = db.proposal, y.gh = db.gh, y.mapped = db.mapped, y.job = db.job,
           y.reviewer = db.reviewer, y.intent = db.intent
    PROVE  LaneInv'
<1>1. Sound(db) /\ Shaped(db)
  BY DEF LaneInv, Sound
<1>2. Quiet(db, y)
  <2>1. Running(y) = Running(db)
    BY DEF Running
  <2> QED BY <1>1, <2>1 DEF Quiet, Shaped
<1>3. Sound(y) /\ (Attended(db) => Attended(y))
  BY <1>1, <1>2, QuietKeeps, QuietAttended
<1> QED BY <1>3, StepKeeps

LEMMA SettingsStep ==
    ASSUME LaneInv, Inventory \/ NextSlot \/ Operator
    PROVE  LaneInv'
<1>1. Shaped(db) /\ Core \subseteq DOMAIN db
  BY DEF LaneInv, Sound, Shaped
<1>2. CASE Inventory
  <2> DEFINE y == [db EXCEPT !.fresh = {}]
  <2>1. db' = y /\ up' = up
    BY <1>2 DEF Inventory
  <2>2. /\ Core \subseteq DOMAIN y /\ y.slot \in Nat
        /\ y.rows = db.rows /\ y.cand = db.cand /\ y.planner = db.planner
        /\ y.proposal = db.proposal /\ y.gh = db.gh /\ y.mapped = db.mapped /\ y.job = db.job
        /\ y.reviewer = db.reviewer /\ y.intent = db.intent
    BY <1>1 DEF Core, Shaped
  <2> HIDE DEF y
  <2> QED BY <2>1, <2>2, SettingKeeps
<1>3. CASE NextSlot
  <2> DEFINE y == [db EXCEPT !.slot = @ + 1]
  <2>1. db' = y /\ up' = up
    BY <1>3 DEF NextSlot
  <2>2. /\ Core \subseteq DOMAIN y /\ y.slot \in Nat
        /\ y.rows = db.rows /\ y.cand = db.cand /\ y.planner = db.planner
        /\ y.proposal = db.proposal /\ y.gh = db.gh /\ y.mapped = db.mapped /\ y.job = db.job
        /\ y.reviewer = db.reviewer /\ y.intent = db.intent
    BY <1>1 DEF Core, Shaped
  <2> HIDE DEF y
  <2> QED BY <2>1, <2>2, SettingKeeps
<1>4. CASE Operator
  <2>1. PICK y \in {[db EXCEPT !.manual = TRUE], [db EXCEPT !.paused = TRUE], [db EXCEPT !.paused = FALSE]} :
           db' = y /\ up' = up
    BY <1>4 DEF Operator
  <2>2. /\ Core \subseteq DOMAIN y /\ y.slot \in Nat
        /\ y.rows = db.rows /\ y.cand = db.cand /\ y.planner = db.planner
        /\ y.proposal = db.proposal /\ y.gh = db.gh /\ y.mapped = db.mapped /\ y.job = db.job
        /\ y.reviewer = db.reviewer /\ y.intent = db.intent
    BY <1>1, <2>1 DEF Core, Shaped
  <2> QED BY <2>1, <2>2, SettingKeeps
<1> QED BY <1>2, <1>3, <1>4

-------------------------------------------------------------------------------
(* The invariant.                                                            *)

LEMMA InitSound ==
    ASSUME Init
    PROVE  LaneInv
<1>1. up = TRUE /\ Core \subseteq DOMAIN db
  BY DEF Init, Core
<1>2. /\ db.slot = 1 /\ db.rows = <<>> /\ db.reviewer = 0 /\ db.intent = 0
      /\ db.cand = [m \in Improvements |-> "none"] /\ db.planner = "none" /\ db.proposal = None
      /\ db.gh = [i \in Issues |-> "none"] /\ db.mapped = {} /\ db.job = [i \in Issues |-> "none"]
  BY DEF Init
<1>3. Shaped(db)
  BY <1>1, <1>2 DEF Shaped, Standings, PlannerStates, JobStates
<1>4. Working(db) = {} /\ Running(db) = {}
  BY <1>2 DEF Working, Running
<1>5. Within(db)
  BY <1>3, <1>4, Counts, FS_EmptySet DEF Within
<1>6. DoneCloses(db) /\ MapsOwn(db) /\ Accepted(db) /\ OnePlan(db)
  BY <1>2 DEF DoneCloses, MapsOwn, Accepted, OnePlan
<1>7. Attended(db)
  BY <1>4 DEF Attended
<1> QED BY <1>1, <1>3, <1>5, <1>6, <1>7 DEF LaneInv, Sound

LEMMA StepSound ==
    ASSUME LaneInv, [Next]_vars
    PROVE  LaneInv'
<1>1. CASE AnyReview
  BY <1>1, ReviewStep DEF AnyReview
<1>2. CASE AnyPlanner
  <2>1. Proposals \subseteq AnyProposal
    BY ReviewAssumption DEF Proposals, AnyProposal
  <2>2. PICK p \in AnyProposal \union {None} : Planner(p)
    BY <1>2, <2>1 DEF AnyPlanner
  <2> QED BY <2>2, PlannerStep
<1>3. CASE LaunchPlanner
  BY <1>3, LaunchPlannerStep
<1>4. CASE Inventory \/ NextSlot \/ Operator
  BY <1>4, SettingsStep
<1>5. CASE Refresh
  BY <1>5, RefreshStep
<1>6. CASE \E i \in Issues, launched \in BOOLEAN : Dispatch(i, launched)
  BY <1>6, DispatchStep
<1>7. CASE \E i \in Issues, status \in {"done", "blocked"} : JobEnds(i, status)
  BY <1>7, JobEndsStep
<1>8. CASE \E i \in Issues : Retry(i)
  BY <1>8, RetryStep
<1>9. CASE \E enabled \in BOOLEAN : Restart(enabled)
  BY <1>9, RestartStep
<1>10. CASE Stop
  BY <1>10, StopStep
<1>11. CASE PlannerEnds
  BY <1>11, PlannerEndsStep
<1>12. CASE \E i \in DOMAIN db.rows, how \in {"done", "failed"} : ReviewerEnds(i, how)
  BY <1>12, ReviewerEndsStep
<1>13. CASE UNCHANGED vars
  <2>1. db' = db /\ up' = up /\ Sound(db)
    BY <1>13 DEF vars, LaneInv
  <2> QED BY <2>1, StepKeeps
<1> QED BY <1>1, <1>2, <1>3, <1>4, <1>5, <1>6, <1>7, <1>8, <1>9, <1>10, <1>11, <1>12, <1>13 DEF Next

\* Every world of the lanes is sound, and attended while the supervisor runs,
\* whatever commit a crash cuts a handler short at (supervisor.Supervisor.tick).
THEOREM LaneIsSound == Spec => []LaneInv
<1>1. Init => LaneInv
  BY InitSound
<1>2. LaneInv /\ [Next]_vars => LaneInv'
  BY StepSound
<1> QED BY <1>1, <1>2, PTL DEF Spec

\* The workers and the reviewer together keep to the capacity (slots_used,
\* launch_review, recover_processes).
THEOREM CapacityIsKept == Spec => []CapacityKept
<1>1. LaneInv => CapacityKept
  BY DEF LaneInv, Sound, Within, Running, CapacityKept
<1> QED BY <1>1, LaneIsSound, PTL

\* Once no proposal is pending, an accepted candidate is mapped to an issue
\* (planner, apply_dispositions).
THEOREM AcceptedStaysMapped == Spec => []AcceptedIsMapped
<1>1. LaneInv => AcceptedIsMapped
  BY DEF LaneInv, Sound, Accepted, Mapped, Owed, AcceptedIsMapped
<1> QED BY <1>1, LaneIsSound, PTL

-------------------------------------------------------------------------------
(* The improvement's slot.                                                   *)

\* An improvement's issue waits for issues of its own or of no improvement.
NoCrossing ==
    \A i \in Issues : \A d \in Deps[i] : ImprovementOf[d] \in {None, ImprovementOf[i]}

\* No issue of one improvement has a key that starts with the prefix of another.
KeysApart ==
    \A i \in Issues : \A m \in KeyPrefixes[i] : ImprovementOf[i] \in {None, m}

LEMMA NatOrder ==
    \E R : IsWellFoundedOn(R, Nat) /\ \A j, i \in Nat : j < i => <<j, i>> \in R
<1>1. IsWellFoundedOn(OpToRel(<, Nat), Nat)
  BY NatLessThanWellFounded
<1>2. \A j, i \in Nat : j < i => <<j, i>> \in OpToRel(<, Nat)
  BY DEF OpToRel
<1> QED BY <1>1, <1>2, Zenon

LEMMA Least ==
    ASSUME NEW S \in SUBSET Nat, S # {}
    PROVE  \E i \in S : \A j \in S : i <= j
<1>1. PICK R : IsWellFoundedOn(R, Nat) /\ \A j, i \in Nat : j < i => <<j, i>> \in R
  BY NatOrder
<1>2. IsWellFoundedOn(R, Nat) /\ S \subseteq Nat
  BY <1>1
<1>3. \E i \in S : \A j \in S : ~(<<j, i>> \in R)
  BY <1>2, WFMin, Zenon
<1>4. PICK i \in S : \A j \in S : ~(<<j, i>> \in R)
  BY <1>3
<1>5. ASSUME NEW j \in S PROVE i <= j
  <2>1. ~(j < i)
    BY <1>1, <1>4
  <2> QED BY <2>1
<1> QED BY <1>5

\* refresh_improvements.stalled for one issue, from what it says of its
\* dependencies; and the same of a set of issues held to be stalled.
StallRule(x, f, i) ==
    IF x.job[i] = "working" \/ x.gh[i] = "closed" THEN FALSE
    ELSE IF x.job[i] # "none" THEN x.job[i] = "blocked"
    ELSE Seen(x, i) # "open" \/ \E d \in Deps[i] : x.gh[d] # "closed" /\ f[d]
StallsBy(x, S, i) ==
    /\ ~(x.job[i] = "working" \/ x.gh[i] = "closed")
    /\ \/ x.job[i] # "none" /\ x.job[i] = "blocked"
       \/ /\ x.job[i] = "none"
          /\ Seen(x, i) # "open" \/ \E d \in Deps[i] : x.gh[d] # "closed" /\ d \in S

\* The rule has a fixed point: the least set it closes.
LEMMA StallFixedPoint ==
    ASSUME NEW x
    PROVE  \E f : f = [i \in Issues |-> StallRule(x, f, i)]
<1> DEFINE Closed(S) == \A i \in Issues : StallsBy(x, S, i) => i \in S
           L == {i \in Issues : \A S \in SUBSET Issues : Closed(S) => i \in S}
           g == [i \in Issues |-> i \in L]
<1>1. ASSUME NEW i \in Issues, StallsBy(x, L, i) PROVE i \in L
  <2> SUFFICES ASSUME NEW S \in SUBSET Issues, Closed(S) PROVE i \in S
    OBVIOUS
  <2>1. L \subseteq S
    OBVIOUS
  <2> HIDE DEF L
  <2>2. StallsBy(x, S, i)
    BY <1>1, <2>1 DEF StallsBy
  <2> QED BY <2>2
<1>2. ASSUME NEW i \in L PROVE StallsBy(x, L, i)
  <2> DEFINE T == {j \in Issues : StallsBy(x, L, j)}
  <2>1. T \subseteq L
    BY <1>1
  <2>2. \A j \in Issues : StallsBy(x, T, j) => StallsBy(x, L, j)
    <3> HIDE DEF T, L
    <3> QED BY <2>1 DEF StallsBy
  <2>3. Closed(T)
    BY <2>2
  <2> QED BY <1>2, <2>3
<1> HIDE DEF L
<1>3. \A i \in Issues : Deps[i] \subseteq Issues
  BY ReviewAssumption
<1>4. ASSUME NEW i \in Issues PROVE StallRule(x, g, i) = (i \in L)
  <2>1. \A d \in Deps[i] : g[d] = (d \in L)
    BY <1>3
  <2>2. StallRule(x, g, i) <=> StallsBy(x, L, i)
    <3> HIDE DEF g
    <3> QED BY <2>1, Zenon DEF StallRule, StallsBy
  <2>3. StallsBy(x, L, i) <=> i \in L
    BY <1>1, <1>2
  <2>4. StallRule(x, g, i) \in BOOLEAN
    BY Zenon DEF StallRule
  <2> QED BY <2>2, <2>3, <2>4
<1>5. g = [i \in Issues |-> StallRule(x, g, i)]
  <2> HIDE DEF g
  <2>1. [i \in Issues |-> StallRule(x, g, i)] = [i \in Issues |-> i \in L]
    BY <1>4
  <2> QED BY <2>1 DEF g
<1> QED BY <1>5

LEMMA StalledIs ==
    ASSUME NEW x, NEW i \in Issues
    PROVE  Stalled(x)[i] = StallRule(x, Stalled(x), i)
<1>1. Stalled(x) = CHOOSE f : f = [j \in Issues |-> StallRule(x, f, j)]
  BY DEF Stalled, StallRule
<1>2. PICK g : g = [j \in Issues |-> StallRule(x, g, j)]
  BY StallFixedPoint
<1>3. Stalled(x) = [j \in Issues |-> StallRule(x, Stalled(x), j)]
  BY <1>1, <1>2
<1> QED BY <1>3

\* An issue that is not stalled and waits only for issues like itself has a first
\* one to dispatch.
LEMMA SlotMoves ==
    ASSUME NoCrossing, KeysApart, LaneInv
    PROVE  SlotNotStranded
<1> SUFFICES ASSUME db.active # None, Working(db) = {}, db.fresh = {}, Refreshed(db).active # None
             PROVE  \E i \in Issues : Ready(db, i)
  BY DEF SlotNotStranded
<1> DEFINE Moving(i) == db.job[i] = "none" /\ db.gh[i] # "closed" /\ ~Stalled(db)[i]
           S == {i \in Issues : Moving(i) /\ ImprovementOf[i] \in {None, db.active}}
<1>1. Shaped(db) /\ DoneCloses(db) /\ MapsOwn(db) /\ "active" \in DOMAIN db
  BY DEF LaneInv, Sound, Shaped, Core
<1>2. \A i \in Issues : db.job[i] \in {"none", "blocked", "done"}
  BY <1>1 DEF Shaped, JobStates, Working
<1>3. S # {}
  <2>1. PICK i : /\ <<db.active, i>> \in db.mapped /\ i \in Issues
                 /\ db.job[i] \notin {"done", "blocked"} /\ db.gh[i] # "closed" /\ ~Stalled(db)[i]
    BY <1>1 DEF Refreshed
  <2>2. ImprovementOf[i] \in {None, db.active}
    BY <1>1, <2>1, ReviewAssumption DEF MapsOwn, Carries, KeysApart
  <2> QED BY <1>2, <2>1, <2>2
<1>4. PICK i \in S : \A j \in S : i <= j
  <2>1. S \in SUBSET Nat
    BY ReviewAssumption
  <2> QED BY <1>3, <2>1, Least
<1>5. i \in Issues /\ db.job[i] = "none" /\ db.gh[i] # "closed" /\ ~Stalled(db)[i]
      /\ ImprovementOf[i] \in {None, db.active}
  BY <1>4
<1>6. Seen(db, i) = "open" /\ \A d \in Deps[i] : db.gh[d] = "closed" \/ ~Stalled(db)[d]
  BY <1>5, StalledIs, Zenon DEF StallRule
<1>7. ASSUME NEW d \in Deps[i], db.gh[d] # "closed" PROVE FALSE
  <2>1. d \in Issues /\ d < i /\ ImprovementOf[d] \in {None, db.active}
    BY <1>5, ReviewAssumption DEF NoCrossing
  <2>2. ~Stalled(db)[d]
    BY <1>6, <1>7
  <2>3. db.job[d] # "done"
    BY <1>1, <1>7, <2>1 DEF DoneCloses
  <2>4. db.job[d] # "blocked"
    <3>1. CASE db.job[d] = "blocked"
      BY <3>1, <1>7, <2>1, <2>2, StalledIs DEF StallRule
    <3> QED BY <3>1
  <2>5. d \in S
    BY <1>2, <1>7, <2>1, <2>2, <2>3, <2>4
  <2>6. i \in Nat /\ d \in Nat
    BY <1>5, <2>1, ReviewAssumption
  <2> QED BY <1>4, <2>1, <2>5, <2>6
<1> QED BY <1>5, <1>6, <1>7 DEF Ready

\* Where no dependency crosses improvements and no issue of one has a key that
\* names another, a pass without work under way frees the slot or has an issue to
\* dispatch (refresh_improvements, classify, apply_dispositions).
THEOREM SlotIsNotStranded ==
    ASSUME NoCrossing, KeysApart
    PROVE  Spec => []SlotNotStranded
<1>1. LaneInv => SlotNotStranded
  BY SlotMoves
<1> QED BY <1>1, LaneIsSound, PTL
================================================================================
