----------------------------- MODULE QaChainProofs -----------------------------
(***************************************************************************)
(* Proofs about the chain from a reproduced defect to a verified fix, for    *)
(* every set of keys and every bound.  The invariants are per key where the  *)
(* code is: Follows says what any prefix of a handler's commits may do to    *)
(* the values of its key, RunsStep what a step of the lane may do to the run *)
(* records those values refer to, and the invariants are proved from these   *)
(* two relations rather than from the handlers.                              *)
(***************************************************************************)
EXTENDS QaChain, FiniteSetTheorems, WellFoundedInduction, TLAPS

-------------------------------------------------------------------------------
(* The shape of the state.                                                   *)

Statuses == {"new", "recorded", "held", "infra", "candidate", "accepted", "deferred", "rejected",
             "issue-open", "redispatched", "fix-merged", "verified", "failed", "unresolved"}
CandidateStates == {"none", "pending", "accepted", "deferred", "rejected"}
RunStatuses == {"queued", "running", "superseded", "interrupted", "finished"}
ReportOutcomes == Outcomes \union {"blocked", "interrupted"}
PollPlaces == {"inbox", "findings", "close", "route", "retry"}
CyclePlaces == {"idle", "reclaim", "dispatch", "run", "rig", "stage", "finish", "end"}

FindingSet == [status : Statuses, kind : {"defect", "infrastructure", "capability", None},
               completed : BOOLEAN, issue : Nat, fix : Nat, cycles : Nat]
IssueSet == [n : 1 .. MaxFixCycles, fix : Nat]
EntrySet == [key : Scenarios, case : Scenarios, fix : Nat, tested : Nat, contained : BOOLEAN,
             outcome : Outcomes, evidence : BOOLEAN]
VerdictSet == [outcome : Outcomes, evidence : BOOLEAN]
ItemSet == [key : Scenarios, fix : Nat]
ReportSet == [id : 1 .. MaxRuns, kind : {"qa", "qav"}, sha : Nat, outcome : ReportOutcomes,
              cases : [Scenarios -> Outcomes \union {"absent"}], verification : EntrySet \union {None}]
RunSet == [kind : {"qa", "qav"}, sha : Nat, status : RunStatuses, outcome : ReportOutcomes \union {None},
           attempt : Nat, item : ItemSet \union {None}, contained : BOOLEAN,
           report : BOOLEAN, verdict : VerdictSet \union {None}]
SupSet == [at : PollPlaces, report : ReportSet \union {None}, todo : SUBSET Keys,
           created : Nat, spent : Nat]
LaneSet == [at : CyclePlaces, run : Nat, report : ReportSet \union {None}]
WorldSet == [f : FindingSet, g : Seq(IssueSet), s : EntrySet \union {None}, c : CandidateStates]

TypeOK ==
    /\ main \in Nat
    /\ finding \in [Keys -> FindingSet] /\ gh \in [Keys -> Seq(IssueSet)]
    /\ stash \in [Keys -> EntrySet \union {None}] /\ candidate \in [Keys -> CandidateStates]
    /\ inbox \subseteq ReportSet /\ queue \subseteq ItemSet /\ sup \in SupSet
    /\ runs \in Seq(RunSet) /\ Len(runs) <= MaxRuns
    /\ reports \in [1 .. MaxRuns -> ReportSet \union {None}]
    /\ items \subseteq ItemSet /\ lane \in LaneSet

\* Where poll stands: a report in hand is one, a key to route is unrouted, a key
\* to retry has a stashed entry.
PollSound ==
    /\ sup.at \in {"findings", "close"} => sup.report \in ReportSet
    /\ sup.at = "route" => \A k \in sup.todo : finding[k].status \in {"failed", "held", "recorded"}
    /\ sup.at = "retry" => \A k \in sup.todo : stash[k] # None

\* A run the cycle is in exists and has begun; until it is judged it has no verdict.
InRun == {"run", "rig", "stage", "finish", "end"}

CycleSound ==
    /\ lane.at \in InRun => lane.run \in DOMAIN runs /\ runs[lane.run].status # "queued"
    /\ lane.at \in {"run", "rig"} => runs[lane.run].verdict = None
    /\ lane.at \in {"stage", "finish", "end"} => lane.report \in ReportSet
    /\ \A i \in DOMAIN runs : runs[i].kind = "qav" => runs[i].item \in ItemSet
    /\ \A i \in DOMAIN runs : runs[i].status = "queued" => runs[i].verdict = None

\* A capability limitation never gets an issue, so nothing of it is verified.
CapabilitySound ==
    \A k \in Capabilities : /\ gh[k] = <<>> /\ finding[k].issue = 0 /\ finding[k].fix = 0
                            /\ finding[k].status # "new" => finding[k].kind = "capability"

\* The issue a finding is linked to exists and is the one of its fix cycle.
LinkedWorld(x) == x.f.issue # 0 => x.f.issue \in DOMAIN x.g /\ x.g[x.f.issue].n = x.f.cycles
LinkSound == \A k \in Keys : LinkedWorld(World(k))

ShapeInv == TypeOK /\ PollSound /\ CycleSound /\ CapabilitySound /\ LinkSound

-------------------------------------------------------------------------------
(* The invariants.                                                           *)

\* The host is clean before a run touches the rig.
RigInv ==
    /\ \E x : rig \subseteq {x}
    /\ lane.at = "run" => rig = {}

\* No two issues of a key have the same marker.
MarkersInv ==
    \A k \in Keys : \A i, j \in DOMAIN gh[k] : gh[k][i].n = gh[k][j].n => i = j

\* An entry that passed or failed with evidence, wherever it has got to, is what a
\* run of its item has shown.
Conclusive == {"passed", "failed"}
Replayed(rs, k, fix, sha, outcome) ==
    \E i \in DOMAIN rs : /\ rs[i].kind = "qav" /\ rs[i].verdict = Proof(outcome, TRUE)
                         /\ rs[i].item = [key |-> k, fix |-> fix] /\ rs[i].sha = sha
Backed(rs, e) ==
    e # None /\ e.outcome \in Conclusive /\ e.evidence =>
        Replayed(rs, e.key, e.fix, e.tested, e.outcome)

\* The reports the lane has written or is about to write.
ReportsInv ==
    /\ lane.at = "stage" => Backed(runs, lane.report.verification)
    /\ \A i \in 1 .. MaxRuns : reports[i] # None => Backed(runs, reports[i].verification)

\* What the supervisor has of them.
HeldInv ==
    /\ \A r \in inbox : Backed(runs, r.verification)
    /\ sup.at \in {"findings", "close"} => Backed(runs, sup.report.verification)
    /\ \A k \in Keys : stash[k] # None => stash[k].key = k /\ Backed(runs, stash[k])

\* A finding waits for the fix of the issue it is linked to, and a fix is the merge
\* of one issue.
FixInv ==
    \A k \in Keys :
        /\ finding[k].status = "fix-merged" =>
             /\ finding[k].issue # 0 /\ finding[k].fix # 0
             /\ gh[k][finding[k].issue].fix = finding[k].fix
        /\ \A i \in DOMAIN gh[k] : gh[k][i].fix <= main
        /\ \A i, j \in DOMAIN gh[k] : gh[k][i].fix = gh[k][j].fix /\ gh[k][i].fix # 0 => i = j

\* An item that was ever queued is of a fix cycle that has not been left without
\* settling it, so once it is off the queue it does not come back.
Current(a) == finding[a.key].status = "fix-merged" /\ finding[a.key].fix = a.fix
Seen(a) == a \in queue \/ a \in items \/ \E i \in DOMAIN runs : runs[i].kind = "qav" /\ runs[i].item = a
Settled == {"fix-merged", "verified", "failed", "unresolved"}
Spent(x, fix) ==
    /\ x.f.status \in Settled \union {"redispatched"}
    /\ \E j \in DOMAIN x.g : /\ x.g[j].fix = fix /\ x.g[j].n <= x.f.cycles
                             /\ x.g[j].n = x.f.cycles => x.f.status \in Settled /\ x.f.fix = fix

SeenSpent == \A a \in ItemSet : Seen(a) => a.fix # 0 /\ Spent(World(a.key), a.fix)
SeenOff == \A a \in ItemSet : Seen(a) /\ a \notin queue => ~Current(a)
QueuedKnown == \A i \in DOMAIN runs :
                  runs[i].kind = "qav" /\ runs[i].item \notin items => runs[i].item \notin queue

QueueInv == SeenSpent /\ SeenOff /\ QueuedKnown

\* What the lane has pinned when it reclaims storage.
PinsInv ==
    /\ own.runs \subseteq pins.runs /\ own.shas \subseteq pins.shas
    /\ lane.at = "reclaim" =>
          \A i \in DOMAIN runs : runs[i].kind = "qav" /\ runs[i].item \in items =>
              i \in pins.runs /\ runs[i].sha \in pins.shas

-------------------------------------------------------------------------------
(* Minima and maxima of finite sets of numbers.                              *)

\* A nonempty set of naturals has a least element.
LEMMA NatMin ==
    ASSUME NEW T \in SUBSET Nat, T # {}
    PROVE  \E x \in T : \A y \in T : x <= y
<1> DEFINE Less == {ss \in Nat \X Nat : ss[1] < ss[2]}
<1>1. IsWellFoundedOn(Less, Nat)
    BY NatLessThanWellFounded, Zenon DEF OpToRel
<1> HIDE DEF Less
<1>2. PICK x \in T : \A y \in T : ~(<<y, x>> \in Less)
    BY <1>1, WFMin
<1>3. ASSUME NEW y \in T PROVE x <= y
    <2>1. y < x => <<y, x>> \in Less
        BY DEF Less
    <2> QED BY <2>1, <1>2
<1> QED BY <1>3

\* A nonempty set of naturals with a bound has a greatest element.
LEMMA NatMax ==
    ASSUME NEW N \in Nat, NEW T \in SUBSET (0 .. N), T # {}
    PROVE  \E x \in T : \A y \in T : y <= x
<1> DEFINE D == {N - y : y \in T}
<1>1. D \subseteq Nat
    <2> SUFFICES ASSUME NEW y \in T PROVE N - y \in Nat
        OBVIOUS
    <2>1. y \in 0 .. N
        OBVIOUS
    <2> QED BY <2>1
<1>2. D # {}
    OBVIOUS
<1> HIDE DEF D
<1>3. PICK m \in D : \A z \in D : m <= z
    BY <1>1, <1>2, NatMin
<1>4. PICK x \in T : m = N - x
    BY <1>3 DEF D
<1>5. ASSUME NEW y \in T PROVE y <= x
    <2>1. N - y \in D
        BY DEF D
    <2> QED BY <2>1, <1>3, <1>4
<1> QED BY <1>5

\* The newest of some run records is one of them.
LEMMA NewestIn ==
    ASSUME NEW N \in Nat, NEW ids \in SUBSET (1 .. N)
    PROVE  /\ Newest(ids) = 0 <=> ids = {}
           /\ ids # {} => Newest(ids) \in ids
<1>1. CASE ids = {}
    BY <1>1 DEF Newest
<1>2. CASE ids # {}
    <2>1. \E x \in ids : \A y \in ids : y <= x
        <3>1. ids \in SUBSET (0 .. N)
            OBVIOUS
        <3> QED BY <1>2, <3>1, NatMax
    <2>2. Newest(ids) \in ids
        BY <1>2, <2>1 DEF Newest
    <2>3. Newest(ids) # 0
        <3>1. Newest(ids) \in 1 .. N
            BY <2>2
        <3> QED BY <3>1
    <2> QED BY <1>2, <2>2, <2>3
<1> QED BY <1>1, <1>2

\* Finitely many numbers have a bound.
LEMMA Bounded ==
    ASSUME NEW N \in Nat, NEW h \in [1 .. N -> Nat]
    PROVE  \E b \in Nat : \A i \in 1 .. N : h[i] <= b
<1> DEFINE Bad == {m \in 0 .. N : ~\E b \in Nat : \A i \in 1 .. m : h[i] <= b}
<1>1. CASE Bad = {}
    <2>1. N \notin Bad
        BY <1>1
    <2> QED BY <2>1
<1>2. CASE Bad # {}
    <2>1. PICK m \in Bad : \A y \in Bad : m <= y
        <3>1. Bad \in SUBSET Nat
            OBVIOUS
        <3> QED BY <1>2, <3>1, NatMin
    <2>2. m # 0
        OBVIOUS
    <2>3. m - 1 \in 0 .. N /\ m - 1 \notin Bad
        <3>1. m \in 0 .. N
            OBVIOUS
        <3>2. m - 1 \in 0 .. N /\ ~(m <= m - 1)
            BY <2>2, <3>1
        <3> HIDE DEF Bad
        <3> QED BY <2>1, <3>2
    <2>4. PICK b \in Nat : \A i \in 1 .. m - 1 : h[i] <= b
        BY <2>3
    <2>5. m \in 1 .. N /\ h[m] \in Nat
        BY <2>2
    <2>6. PICK c \in Nat : b <= c /\ h[m] <= c
        <3> DEFINE c == IF b <= h[m] THEN h[m] ELSE b
        <3>1. c \in Nat /\ b <= c /\ h[m] <= c
            BY <2>5
        <3> QED BY <3>1
    <2>7. \A i \in 1 .. m : i = m \/ i \in 1 .. m - 1
        BY <2>5
    <2>8. \A i \in 1 .. m : h[i] <= c
        BY <2>4, <2>5, <2>6, <2>7
    <2> QED BY <2>8
<1> QED BY <1>1, <1>2

\* The attempts counted for a revision are a number.
LEMMA AttemptsType ==
    ASSUME NEW rs \in Seq(RunSet), NEW sha
    PROVE  Attempts(rs, sha) \in Nat
<1> DEFINE ran == {i \in DOMAIN rs : rs[i].sha = sha /\ rs[i].status \in {"running", "finished", "interrupted"}}
           T == {rs[i].attempt : i \in ran}
<1>1. CASE ran = {}
    BY <1>1 DEF Attempts
<1>2. CASE ran # {}
    <2>1. Len(rs) \in Nat /\ DOMAIN rs = 1 .. Len(rs)
        OBVIOUS
    <2>2. \A i \in DOMAIN rs : rs[i].attempt \in Nat
        <3> SUFFICES ASSUME NEW i \in DOMAIN rs PROVE rs[i].attempt \in Nat
            OBVIOUS
        <3>1. rs[i] \in RunSet
            BY <2>1
        <3> QED BY <3>1 DEF RunSet
    <2> DEFINE h == [i \in 1 .. Len(rs) |-> rs[i].attempt]
    <2>3. PICK b \in Nat : \A i \in 1 .. Len(rs) : h[i] <= b
        <3>1. h \in [1 .. Len(rs) -> Nat]
            BY <2>1, <2>2
        <3> HIDE DEF h
        <3> QED BY <3>1, <2>1, Bounded
    <2>4. T \in SUBSET (0 .. b) /\ T # {}
        <3>1. ASSUME NEW i \in ran PROVE rs[i].attempt \in 0 .. b
            <4>1. i \in 1 .. Len(rs) /\ rs[i].attempt \in Nat
                BY <2>1, <2>2
            <4>2. h[i] = rs[i].attempt /\ h[i] <= b
                BY <2>3, <4>1
            <4> QED BY <4>1, <4>2
        <3> HIDE DEF ran
        <3> QED BY <1>2, <3>1
    <2>5. PICK n \in T : \A y \in T : y <= n
        <3> HIDE DEF T
        <3> QED BY <2>4, NatMax
    <2>6. \E z \in T : \A i \in ran : rs[i].attempt <= z
        BY <2>5
    <2>7. Attempts(rs, sha) = CHOOSE z \in T : \A i \in ran : rs[i].attempt <= z
        BY <1>2 DEF Attempts
    <2>8. Attempts(rs, sha) \in T
        <3> HIDE DEF T, ran
        <3> QED BY <2>6, <2>7
    <2> QED BY <2>8, <2>4
<1> QED BY <1>1, <1>2

-------------------------------------------------------------------------------
(* What a handler may do to the values of a key.                             *)

\* At most one issue is created, under a marker none of the others has.
Grown(g, h) ==
    \/ h = g
    \/ \E m \in 1 .. MaxFixCycles : /\ h = Append(g, [n |-> m, fix |-> 0])
                                    /\ \A i \in DOMAIN g : g[i].n # m

Certifies(e, fix) ==
    e # None /\ e.outcome = "passed" /\ e.evidence /\ e.fix = fix /\ Includes(e.tested, fix)

Concludes(e, fix) ==
    e # None /\ e.outcome \in Conclusive /\ e.evidence /\ e.fix = fix /\ Includes(e.tested, fix)

CapableWorld(x) == /\ x.g = <<>> /\ x.f.issue = 0 /\ x.f.fix = 0
                   /\ x.f.status # "new" => x.f.kind = "capability"

\* y is what x may have become when a handler given the entry e ends or dies;
\* cap says whether the key is a capability's.
Follows(x, y, cap, e) ==
    /\ y \in WorldSet
    /\ Grown(x.g, y.g)
    /\ y.s \in {x.s, e, None}
    /\ y.f.status = "verified" =>
          y.f.fix = x.f.fix /\ (x.f.status = "verified" \/ Certifies(e, x.f.fix))
    /\ y.f.status = "fix-merged" =>
          x.f.status = "fix-merged" /\ y.f.issue = x.f.issue /\ y.f.fix = x.f.fix
    /\ x.f.status = "fix-merged" /\ y.f.status # "fix-merged" => Concludes(e, x.f.fix)
    /\ LinkedWorld(x) => LinkedWorld(y)
    /\ \A fix \in Nat : Spent(x, fix) => Spent(y, fix)
    /\ cap /\ CapableWorld(x) => CapableWorld(y)

\* The issues a key had are kept when one is created.
LEMMA GrownKeeps ==
    ASSUME NEW g \in Seq(IssueSet), NEW h, Grown(g, h)
    PROVE  /\ h \in Seq(IssueSet)
           /\ DOMAIN g \subseteq DOMAIN h
           /\ \A i \in DOMAIN g : h[i] = g[i]
           /\ \A i \in DOMAIN h : i \in DOMAIN g \/ (h[i].fix = 0 /\ \A j \in DOMAIN g : g[j].n # h[i].n)
           /\ \A i, j \in DOMAIN h : i \notin DOMAIN g /\ j \notin DOMAIN g => i = j
<1>1. CASE h = g
    BY <1>1
<1>2. ASSUME NEW m \in 1 .. MaxFixCycles, h = Append(g, [n |-> m, fix |-> 0]),
             \A i \in DOMAIN g : g[i].n # m
      PROVE  /\ h \in Seq(IssueSet)
             /\ DOMAIN g \subseteq DOMAIN h
             /\ \A i \in DOMAIN g : h[i] = g[i]
             /\ \A i \in DOMAIN h : i \in DOMAIN g \/ (h[i].fix = 0 /\ \A j \in DOMAIN g : g[j].n # h[i].n)
             /\ \A i, j \in DOMAIN h : i \notin DOMAIN g /\ j \notin DOMAIN g => i = j
    <2>1. [n |-> m, fix |-> 0] \in IssueSet
        BY DEF IssueSet
    <2>2. /\ h \in Seq(IssueSet) /\ Len(h) = Len(g) + 1
          /\ \A i \in 1 .. Len(g) : h[i] = g[i]
          /\ h[Len(h)] = [n |-> m, fix |-> 0]
        BY <1>2, <2>1
    <2>3. /\ DOMAIN g = 1 .. Len(g) /\ DOMAIN h = 1 .. Len(h) /\ Len(g) \in Nat
        BY <2>2
    <2>4. \A i \in DOMAIN h : i \in DOMAIN g \/ i = Len(h)
        BY <2>2, <2>3
    <2> QED BY <1>2, <2>2, <2>3, <2>4
<1> QED BY <1>1, <1>2 DEF Grown

\* create_issue leaves one issue with the marker.
LEMMA CreateIssueGrows ==
    ASSUME NEW g \in Seq(IssueSet), NEW m \in 1 .. MaxFixCycles
    PROVE  /\ Grown(g, CreateIssue(g, m))
           /\ IssueOf(CreateIssue(g, m), m) # {}
<1>1. CASE IssueOf(g, m) # {}
    BY <1>1 DEF CreateIssue, Grown
<1>2. CASE IssueOf(g, m) = {}
    <2> DEFINE h == Append(g, [n |-> m, fix |-> 0])
    <2>1. CreateIssue(g, m) = h
        BY <1>2 DEF CreateIssue
    <2>2. \A i \in DOMAIN g : g[i].n # m
        BY <1>2 DEF IssueOf
    <2>3. [n |-> m, fix |-> 0] \in IssueSet
        BY DEF IssueSet
    <2>4. Len(g) + 1 \in DOMAIN h /\ h[Len(g) + 1] = [n |-> m, fix |-> 0]
        BY <2>3
    <2>5. Len(g) + 1 \in IssueOf(h, m)
        <3> HIDE DEF h
        <3> QED BY <2>4 DEF IssueOf
    <2> QED BY <2>1, <2>2, <2>5 DEF Grown
<1> QED BY <1>1, <1>2

\* A handler that leaves the issues and the cycle of a finding alone.
LEMMA KeepsCycle ==
    ASSUME NEW x \in WorldSet, NEW y \in WorldSet, NEW cap, NEW e,
           Grown(x.g, y.g), y.s \in {x.s, e, None},
           y.f.issue = x.f.issue, y.f.cycles = x.f.cycles, y.f.fix = x.f.fix,
           \/ y.f.status = x.f.status
           \/ y.f.status = "verified" /\ x.f.status = "fix-merged" /\ Certifies(e, x.f.fix)
           \/ /\ y.f.status \in {"failed", "unresolved"}
              /\ x.f.status = "fix-merged" => Concludes(e, x.f.fix)
           \/ x.f.status \in {"new", "recorded", "held"} /\ y.f.status \notin {"verified", "fix-merged"},
           cap /\ CapableWorld(x) => y.g = x.g /\ (y.f.status # "new" => y.f.kind = "capability")
    PROVE  Follows(x, y, cap, e)
<1>1. /\ x.g \in Seq(IssueSet) /\ x.f \in FindingSet /\ y.f \in FindingSet
    BY DEF WorldSet
<1>2. /\ DOMAIN x.g \subseteq DOMAIN y.g
      /\ \A i \in DOMAIN x.g : y.g[i] = x.g[i]
    BY <1>1, GrownKeeps
<1>3. LinkedWorld(x) => LinkedWorld(y)
    BY <1>2 DEF LinkedWorld
<1>4. ASSUME NEW fix \in Nat, Spent(x, fix) PROVE Spent(y, fix)
    <2>1. PICK j \in DOMAIN x.g :
            /\ x.g[j].fix = fix /\ x.g[j].n <= x.f.cycles
            /\ x.g[j].n = x.f.cycles => x.f.status \in Settled /\ x.f.fix = fix
        BY <1>4 DEF Spent
    <2>2. j \in DOMAIN y.g /\ y.g[j] = x.g[j]
        BY <1>2
    <2>3. x.f.status \in Settled \union {"redispatched"}
        BY <1>4 DEF Spent
    <2>4. y.f.status \in Settled \union {"redispatched"}
        BY <2>3 DEF Settled
    <2>5. x.f.status \in Settled => y.f.status \in Settled
        BY <2>3 DEF Settled
    <2> QED BY <2>1, <2>2, <2>4, <2>5 DEF Spent
<1>5. y.f.status = "verified" =>
          y.f.fix = x.f.fix /\ (x.f.status = "verified" \/ Certifies(e, x.f.fix))
    OBVIOUS
<1>6. y.f.status = "fix-merged" =>
          x.f.status = "fix-merged" /\ y.f.issue = x.f.issue /\ y.f.fix = x.f.fix
    OBVIOUS
<1>7. cap /\ CapableWorld(x) => CapableWorld(y)
    BY DEF CapableWorld
<1>8. x.f.status = "fix-merged" /\ y.f.status # "fix-merged" => Concludes(e, x.f.fix)
    BY DEF Certifies, Concludes, Conclusive
<1> QED BY <1>3, <1>4, <1>5, <1>6, <1>7, <1>8 DEF Follows

\* _redispatch, wherever it is cut: the old cycle's issue stays and the new one has
\* its own marker.
LEMMA RedispatchFollows ==
    ASSUME NEW x \in WorldSet, NEW failed \in BOOLEAN, NEW cap, x.f.status = "failed"
    PROVE  /\ Redispatch(x, failed) \in Seq(WorldSet) /\ Len(Redispatch(x, failed)) > 0
           /\ \A n \in 1 .. Len(Redispatch(x, failed)) : Follows(x, Redispatch(x, failed)[n], cap, None)
<1> DEFINE n == x.f.cycles + 1
           y == [x EXCEPT !.g = CreateIssue(x.g, n)]
           issue == CHOOSE i \in IssueOf(y.g, n) : TRUE
           z == [y EXCEPT !.f = [@ EXCEPT !.status = "redispatched", !.issue = issue,
                                          !.cycles = n, !.fix = 0]]
           u == [x EXCEPT !.f.status = "unresolved"]
<1>1. x.f \in FindingSet /\ x.g \in Seq(IssueSet) /\ x.f.cycles \in Nat /\ x.s \in EntrySet \union {None}
    BY DEF WorldSet, FindingSet, Statuses
<1>2. MaxFixCycles \in Nat
    BY FindingsAssumption
<1>3. CASE x.f.issue = 0 \/ x.f.cycles >= MaxFixCycles
    <2>1. Redispatch(x, failed) = <<u>>
        BY <1>3 DEF Redispatch
    <2>2. u \in WorldSet /\ u.g = x.g /\ u.s = x.s /\ u.f = [x.f EXCEPT !.status = "unresolved"]
        BY DEF WorldSet, FindingSet, Statuses
    <2>3. /\ u.f.status = "unresolved" /\ u.f.kind = x.f.kind /\ u.f.issue = x.f.issue
          /\ u.f.cycles = x.f.cycles /\ u.f.fix = x.f.fix
        BY <1>1, <2>2 DEF FindingSet
    <2>4. Follows(x, u, cap, None)
        <3>1. Grown(x.g, u.g)
            BY <2>2 DEF Grown
        <3>2. CapableWorld(x) => u.f.kind = "capability"
            BY <2>3 DEF CapableWorld
        <3> HIDE DEF u
        <3> QED BY <2>2, <2>3, <3>1, <3>2, KeepsCycle
    <2> HIDE DEF u
    <2> QED BY <2>1, <2>2, <2>4
<1>4. CASE ~(x.f.issue = 0 \/ x.f.cycles >= MaxFixCycles) /\ failed
    <2>1. Redispatch(x, failed) = <<x>>
        BY <1>4 DEF Redispatch
    <2>2. Follows(x, x, cap, None)
        <3>1. Grown(x.g, x.g)
            BY DEF Grown
        <3>2. CapableWorld(x) => x.f.kind = "capability"
            BY DEF CapableWorld
        <3> QED BY <3>1, <3>2, KeepsCycle
    <2> QED BY <2>1, <2>2
<1>5. CASE ~(x.f.issue = 0 \/ x.f.cycles >= MaxFixCycles) /\ ~failed
    <2>1. Redispatch(x, failed) = <<y, z>>
        BY <1>5 DEF Redispatch
    <2>2. n \in 1 .. MaxFixCycles
        BY <1>1, <1>2, <1>5
    <2>3. Grown(x.g, CreateIssue(x.g, n)) /\ IssueOf(CreateIssue(x.g, n), n) # {}
        BY <1>1, <2>2, CreateIssueGrows
    <2>4. /\ CreateIssue(x.g, n) \in Seq(IssueSet)
          /\ DOMAIN x.g \subseteq DOMAIN CreateIssue(x.g, n)
          /\ \A i \in DOMAIN x.g : CreateIssue(x.g, n)[i] = x.g[i]
        BY <1>1, <2>3, GrownKeeps
    <2>5. y \in WorldSet /\ y.f = x.f /\ y.s = x.s /\ y.c = x.c /\ y.g = CreateIssue(x.g, n)
        BY <2>4 DEF WorldSet
    <2>6. ~CapableWorld(x)
        BY <1>5 DEF CapableWorld
    <2>7. Follows(x, y, cap, None)
        <3> HIDE DEF y
        <3> QED BY <2>3, <2>5, <2>6, KeepsCycle
    <2>8. issue \in DOMAIN y.g /\ y.g[issue].n = n /\ issue \in Nat
        <3>1. issue \in IssueOf(y.g, n)
            BY <2>3, <2>5
        <3>2. DOMAIN y.g \subseteq Nat
            BY <2>4, <2>5
        <3> HIDE DEF issue, y
        <3> QED BY <3>1, <3>2 DEF IssueOf
    <2>9. /\ z \in WorldSet /\ z.g = y.g /\ z.s = x.s
          /\ z.f = [x.f EXCEPT !.status = "redispatched", !.issue = issue, !.cycles = n, !.fix = 0]
        <3>1. [x.f EXCEPT !.status = "redispatched", !.issue = issue, !.cycles = n, !.fix = 0] \in FindingSet
            <4>1. n \in Nat
                BY <1>1
            <4> HIDE DEF issue, n
            <4> QED BY <1>1, <2>8, <4>1 DEF FindingSet, Statuses
        <3> HIDE DEF y, issue, n
        <3> QED BY <2>5, <3>1 DEF WorldSet
    <2>10. z.f.status = "redispatched" /\ z.f.issue = issue /\ z.f.cycles = n
        <3> HIDE DEF z, issue, n
        <3> QED BY <1>1, <2>9 DEF FindingSet
    <2>11. LinkedWorld(z)
        <3> HIDE DEF z, issue, n, y
        <3> QED BY <2>8, <2>9, <2>10 DEF LinkedWorld
    <2>12. ASSUME NEW fix \in Nat, Spent(x, fix) PROVE Spent(z, fix)
        <3>1. PICK j \in DOMAIN x.g : x.g[j].fix = fix /\ x.g[j].n <= x.f.cycles
            BY <2>12 DEF Spent
        <3>2. j \in DOMAIN z.g /\ z.g[j] = x.g[j]
            <4> HIDE DEF z, y
            <4> QED BY <2>4, <2>5, <2>9
        <3>3. x.g[j].n \in Nat
            <4>1. x.g[j] \in IssueSet
                BY <1>1
            <4> QED BY <4>1, <1>2 DEF IssueSet
        <3>4. z.g[j].fix = fix /\ z.g[j].n <= z.f.cycles /\ z.g[j].n # z.f.cycles
            <4> HIDE DEF z
            <4> QED BY <1>1, <2>10, <3>1, <3>2, <3>3
        <3> HIDE DEF z
        <3> QED BY <3>2, <3>4, <2>10 DEF Spent, Settled
    <2>13. Follows(x, z, cap, None)
        <3>1. Grown(x.g, z.g)
            <4> HIDE DEF z, y
            <4> QED BY <2>3, <2>5, <2>9
        <3> HIDE DEF z
        <3> QED BY <3>1, <2>6, <2>9, <2>10, <2>11, <2>12 DEF Follows
    <2> HIDE DEF y, z
    <2> QED BY <2>1, <2>5, <2>7, <2>9, <2>13
<1> QED BY <1>3, <1>4, <1>5

\* What follows from a failed verdict follows from what the verdict was about.
LEMMA FollowsFailed ==
    ASSUME NEW x \in WorldSet, NEW y \in WorldSet, NEW z, NEW cap, NEW e,
           y.g = x.g, y.s = x.s, y.f.status = "failed",
           Follows(x, y, cap, e), Follows(y, z, cap, None)
    PROVE  Follows(x, z, cap, e)
<1>1. z.f.status # "verified" /\ z.f.status # "fix-merged"
    BY DEF Follows, Certifies
<1>2. z \in WorldSet /\ Grown(x.g, z.g) /\ z.s \in {x.s, e, None}
    BY DEF Follows
<1>3. /\ LinkedWorld(x) => LinkedWorld(z)
      /\ \A fix \in Nat : Spent(x, fix) => Spent(z, fix)
      /\ cap /\ CapableWorld(x) => CapableWorld(z)
    BY DEF Follows
<1> QED BY <1>1, <1>2, <1>3 DEF Follows

\* apply_verification certifies only by a passed entry whose revision has the fix.
LEMMA ApplyFollows ==
    ASSUME NEW x \in WorldSet, NEW e \in EntrySet, NEW sha,
           NEW lookup \in BOOLEAN, NEW publish \in BOOLEAN, NEW cap, e # None
    PROVE  /\ ApplyVerification(x, e, sha, lookup, publish) \in Seq(WorldSet)
           /\ Len(ApplyVerification(x, e, sha, lookup, publish)) > 0
           /\ \A n \in 1 .. Len(ApplyVerification(x, e, sha, lookup, publish)) :
                 Follows(x, ApplyVerification(x, e, sha, lookup, publish)[n], cap, e)
<1> DEFINE T == ApplyVerification(x, e, sha, lookup, publish)
           f == [x EXCEPT !.f.status = "failed"]
           p == [x EXCEPT !.s = e]
           v == [x EXCEPT !.f.status = "verified"]
<1>1. x.f \in FindingSet /\ x.g \in Seq(IssueSet) /\ x.s \in EntrySet \union {None}
    BY DEF WorldSet
<1>2. Grown(x.g, x.g)
    BY DEF Grown
<1>3. Follows(x, x, cap, e)
    BY <1>2, KeepsCycle DEF CapableWorld
<1>4. CASE T = <<x>>
    <2> HIDE DEF T
    <2> QED BY <1>3, <1>4 DEF T
<1>5. CASE T = <<p>>
    <2>1. p \in WorldSet /\ p.f = x.f /\ p.g = x.g /\ p.s = e
        BY DEF WorldSet
    <2>2. Follows(x, p, cap, e)
        <3> HIDE DEF p
        <3> QED BY <2>1, <1>2, KeepsCycle DEF CapableWorld
    <2> HIDE DEF T, p
    <2> QED BY <1>5, <2>1, <2>2 DEF T
<1>6. CASE T = <<v>> /\ Admissible(x.f, e, sha) /\ Includes(e.tested, x.f.fix) /\ e.outcome = "passed"
    <2>1. v \in WorldSet /\ v.g = x.g /\ v.s = x.s /\ v.f = [x.f EXCEPT !.status = "verified"]
        BY DEF WorldSet, FindingSet, Statuses
    <2>2. /\ v.f.status = "verified" /\ v.f.kind = x.f.kind /\ v.f.issue = x.f.issue
          /\ v.f.cycles = x.f.cycles /\ v.f.fix = x.f.fix
        <3> HIDE DEF v
        <3> QED BY <1>1, <2>1 DEF FindingSet
    <2>3. x.f.status = "fix-merged" /\ Certifies(e, x.f.fix)
        BY <1>6 DEF Admissible, Certifies
    <2>4. Follows(x, v, cap, e)
        <3> HIDE DEF v
        <3>1. CapableWorld(x) => v.f.kind = "capability"
            BY <2>2, <2>3 DEF CapableWorld
        <3> QED BY <2>1, <2>2, <2>3, <3>1, <1>2, KeepsCycle
    <2> HIDE DEF T, v
    <2> QED BY <1>6, <2>1, <2>4 DEF T
<1>7. CASE T = <<f>> \o Redispatch(f, publish) /\ Admissible(x.f, e, sha) /\ Includes(e.tested, x.f.fix)
    <2>1. f \in WorldSet /\ f.g = x.g /\ f.s = x.s /\ f.f = [x.f EXCEPT !.status = "failed"]
        BY DEF WorldSet, FindingSet, Statuses
    <2>2. /\ f.f.status = "failed" /\ f.f.kind = x.f.kind /\ f.f.issue = x.f.issue
          /\ f.f.cycles = x.f.cycles /\ f.f.fix = x.f.fix
        <3> HIDE DEF f
        <3> QED BY <1>1, <2>1 DEF FindingSet
    <2>3. Follows(x, f, cap, e)
        <3> HIDE DEF f
        <3>1. x.f.status = "fix-merged" /\ Concludes(e, x.f.fix)
            BY <1>7 DEF Admissible, Concludes, Conclusive, EntrySet, Outcomes
        <3>2. CapableWorld(x) => f.f.kind = "capability"
            BY <2>2, <3>1 DEF CapableWorld
        <3> QED BY <2>1, <2>2, <3>1, <3>2, <1>2, KeepsCycle
    <2> DEFINE R == Redispatch(f, publish)
    <2>4. /\ R \in Seq(WorldSet) /\ Len(R) > 0
          /\ \A n \in 1 .. Len(R) : Follows(f, R[n], cap, None)
        <3> HIDE DEF f
        <3> QED BY <2>1, <2>2, RedispatchFollows
    <2> HIDE DEF T, f, R
    <2>5. \A n \in 1 .. Len(R) : Follows(x, R[n], cap, e)
        BY <2>1, <2>2, <2>3, <2>4, FollowsFailed
    <2>6. /\ T \in Seq(WorldSet) /\ Len(T) = Len(R) + 1 /\ T[1] = f
          /\ \A n \in 2 .. Len(T) : T[n] = R[n - 1]
        BY <1>7, <2>1, <2>4 DEF R
    <2>7. ASSUME NEW n \in 1 .. Len(T) PROVE Follows(x, T[n], cap, e)
        <3>1. CASE n = 1
            BY <2>3, <2>6, <3>1
        <3>2. CASE n # 1
            <4>1. n \in 2 .. Len(T) /\ n - 1 \in 1 .. Len(R)
                BY <3>2, <2>4, <2>6
            <4> QED BY <4>1, <2>5, <2>6
        <3> QED BY <3>1, <3>2
    <2>8. Len(T) > 0
        BY <2>4, <2>6
    <2> QED BY <2>6, <2>7, <2>8 DEF T
<1>8. \/ T = <<x>> \/ T = <<p>>
      \/ T = <<v>> /\ Admissible(x.f, e, sha) /\ Includes(e.tested, x.f.fix) /\ e.outcome = "passed"
      \/ T = <<f>> \o Redispatch(f, publish) /\ Admissible(x.f, e, sha) /\ Includes(e.tested, x.f.fix)
    BY DEF ApplyVerification
<1> QED BY <1>4, <1>5, <1>6, <1>7, <1>8

\* What _route and the sweep decide: a status that is not a verdict, and either no
\* issue or the one of the first fix cycle.
RouteStatuses == {"failed", "issue-open", "infra", "candidate", "held", "recorded"}
RouteOk(x, r, cap) ==
    /\ r.x \in WorldSet /\ r.x.f = x.f /\ r.x.s = x.s /\ Grown(x.g, r.x.g)
    /\ r.status \in RouteStatuses
    /\ \/ r.issue = 0 /\ r.cycles = 0
       \/ r.issue \in DOMAIN r.x.g /\ r.x.g[r.issue].n = 1 /\ r.cycles = 1
    /\ cap /\ x.g = <<>> => r.x.g = <<>> /\ r.issue = 0

LEMMA RouteSound ==
    ASSUME NEW x \in WorldSet, NEW kind, NEW may \in BOOLEAN, NEW failed \in BOOLEAN, NEW cap,
           cap => kind = "capability"
    PROVE  RouteOk(x, Route(x, kind, may, failed), cap)
<1> DEFINE known == IssueOf(x.g, 1)
           i == CHOOSE j \in known : TRUE
           y == [x EXCEPT !.g = CreateIssue(x.g, 1)]
           m == CHOOSE j \in IssueOf(y.g, 1) : TRUE
           c == [x EXCEPT !.c = "pending"]
           r == Route(x, kind, may, failed)
<1>1. x.g \in Seq(IssueSet) /\ Grown(x.g, x.g)
    BY DEF WorldSet, Grown
<1>2. CASE known # {}
    <2>1. r = Routed(x, IF x.g[i].fix # 0 THEN "failed" ELSE "issue-open", i, 1)
        BY <1>2 DEF Route
    <2>2. i \in DOMAIN x.g /\ x.g[i].n = 1
        <3>1. i \in known
            BY <1>2
        <3> HIDE DEF i
        <3> QED BY <3>1 DEF IssueOf
    <2>3. x.g # <<>>
        BY <2>2
    <2> HIDE DEF r, i
    <2> QED BY <1>1, <2>1, <2>2, <2>3 DEF r, RouteOk, Routed, RouteStatuses
<1>3. CASE known = {} /\ \/ r = Routed(x, "infra", 0, 0)
                         \/ r = Routed(x, "held", 0, 0)
                         \/ r = Routed(x, "recorded", 0, 0)
    <2> HIDE DEF r
    <2> QED BY <1>1, <1>3 DEF r, RouteOk, Routed, RouteStatuses
<1>4. CASE known = {} /\ r = Routed(c, "candidate", 0, 0)
    <2>1. c \in WorldSet /\ c.f = x.f /\ c.s = x.s /\ c.g = x.g
        BY DEF WorldSet, CandidateStates
    <2> HIDE DEF r, c
    <2> QED BY <1>1, <1>4, <2>1 DEF r, RouteOk, Routed, RouteStatuses
<1>5. CASE known = {} /\ kind # "capability" /\ r = Routed(y, "issue-open", m, 1)
    <2>1. Grown(x.g, CreateIssue(x.g, 1)) /\ IssueOf(CreateIssue(x.g, 1), 1) # {}
        <3>1. 1 \in 1 .. MaxFixCycles
            BY FindingsAssumption
        <3> QED BY <1>1, <3>1, CreateIssueGrows
    <2>2. CreateIssue(x.g, 1) \in Seq(IssueSet)
        BY <1>1, <2>1, GrownKeeps
    <2>3. y \in WorldSet /\ y.f = x.f /\ y.s = x.s /\ y.g = CreateIssue(x.g, 1)
        BY <2>2 DEF WorldSet
    <2>4. m \in IssueOf(y.g, 1)
        <3> HIDE DEF y
        <3> QED BY <2>1, <2>3
    <2>5. m \in DOMAIN y.g /\ y.g[m].n = 1
        <3> HIDE DEF m, y
        <3> QED BY <2>4 DEF IssueOf
    <2> HIDE DEF r, y, m
    <2> QED BY <1>5, <2>1, <2>3, <2>5 DEF r, RouteOk, Routed, RouteStatuses
<1>6. \/ known # {}
      \/ known = {} /\ \/ r = Routed(x, "infra", 0, 0)
                       \/ r = Routed(x, "held", 0, 0)
                       \/ r = Routed(x, "recorded", 0, 0)
      \/ known = {} /\ r = Routed(c, "candidate", 0, 0)
      \/ known = {} /\ kind # "capability" /\ r = Routed(y, "issue-open", m, 1)
    BY DEF Route
<1> QED BY <1>2, <1>3, <1>4, <1>5, <1>6

LEMMA SweptSound ==
    ASSUME NEW x \in WorldSet, NEW failed \in BOOLEAN, NEW cap, cap => x.f.kind = "capability"
    PROVE  RouteOk(x, Swept(x, failed), cap)
<1> DEFINE c == [x EXCEPT !.c = "pending"]
<1>1. Grown(x.g, x.g)
    BY DEF Grown
<1>2. CASE Swept(x, failed) = Routed(x, "infra", 0, 0)
    BY <1>1, <1>2 DEF RouteOk, Routed, RouteStatuses
<1>3. CASE Swept(x, failed) = Routed(c, "candidate", 0, 0)
    <2>1. c \in WorldSet /\ c.f = x.f /\ c.s = x.s /\ c.g = x.g
        BY DEF WorldSet, CandidateStates
    <2> HIDE DEF c
    <2> QED BY <1>1, <1>3, <2>1 DEF RouteOk, Routed, RouteStatuses
<1>4. CASE x.f.kind # "capability" /\ Swept(x, failed) = Route(x, "defect", TRUE, failed)
    BY <1>4, RouteSound
<1> QED BY <1>2, <1>3, <1>4 DEF Swept

\* Whatever becomes of a finding that was not routed yet, no fix of it was queued.
LEMMA Unrouted ==
    ASSUME NEW x \in WorldSet, NEW y \in WorldSet, NEW cap,
           x.f.status \in {"new", "recorded", "held"},
           y.f.status \notin {"verified", "fix-merged"},
           Grown(x.g, y.g), y.s = x.s, LinkedWorld(x) => LinkedWorld(y),
           cap /\ CapableWorld(x) => CapableWorld(y)
    PROVE  Follows(x, y, cap, None)
<1>1. ASSUME NEW fix, Spent(x, fix) PROVE FALSE
    BY <1>1 DEF Spent, Settled
<1> QED BY <1>1 DEF Follows

\* A route's fields link the finding to the issue the route names.
LEMMA FieldsLinked ==
    ASSUME NEW x \in WorldSet, NEW r, NEW cap, RouteOk(x, r, cap),
           NEW f \in FindingSet
    PROVE  /\ Fields(f, r) \in FindingSet
           /\ Fields(f, r).status = f.status /\ Fields(f, r).kind = f.kind
           /\ Fields(f, r).fix = f.fix
           /\ r.issue = 0 => Fields(f, r) = f
           /\ r.issue # 0 => /\ Fields(f, r).issue \in DOMAIN r.x.g
                             /\ r.x.g[Fields(f, r).issue].n = Fields(f, r).cycles
<1>1. CASE r.issue = 0
    BY <1>1 DEF Fields
<1>2. CASE r.issue # 0
    <2>1. r.issue \in DOMAIN r.x.g /\ r.x.g[r.issue].n = 1 /\ r.cycles = 1
        BY <1>2 DEF RouteOk
    <2>2. r.issue \in Nat
        <3>1. r.x.g \in Seq(IssueSet)
            BY DEF RouteOk, WorldSet
        <3> QED BY <2>1, <3>1
    <2>3. Fields(f, r) = [f EXCEPT !.issue = r.issue, !.cycles = r.cycles]
        BY <1>2 DEF Fields
    <2>4. Fields(f, r) \in FindingSet
        <3>1. \A i \in Nat : [f EXCEPT !.issue = i, !.cycles = 1] \in FindingSet
            BY DEF FindingSet
        <3> QED BY <2>1, <2>2, <2>3, <3>1
    <2>5. /\ Fields(f, r).status = f.status /\ Fields(f, r).kind = f.kind /\ Fields(f, r).fix = f.fix
          /\ Fields(f, r).issue = r.issue /\ Fields(f, r).cycles = 1
        BY <2>1, <2>3 DEF FindingSet
    <2> QED BY <1>2, <2>1, <2>4, <2>5
<1> QED BY <1>1, <1>2

-------------------------------------------------------------------------------
(* The handlers as steps of one key.                                         *)

KeyStep(k, y) ==
    /\ finding' = [finding EXCEPT ![k] = y.f] /\ gh' = [gh EXCEPT ![k] = y.g]
    /\ stash' = [stash EXCEPT ![k] = y.s] /\ candidate' = [candidate EXCEPT ![k] = y.c]

\* The poll dies, or goes on with one key less or to the end of the report.
PollStep(k) ==
    /\ sup' \in SupSet
    /\ \/ sup' = Start
       \/ sup'.at = sup.at /\ sup'.report = sup.report /\ sup'.todo = sup.todo \ {k}
       \/ sup.at = "findings" /\ sup'.at = "close" /\ sup'.report = sup.report

HandlerStep(k, e) ==
    /\ \E y : Follows(World(k), y, k \in Capabilities, e) /\ KeyStep(k, y)
    /\ PollStep(k)
    /\ UNCHANGED <<row, inbox, queue, main>>

LEMMA WorldType ==
    ASSUME TypeOK, NEW k \in Keys
    PROVE  /\ World(k) \in WorldSet
           /\ World(k).f = finding[k] /\ World(k).g = gh[k] /\ World(k).s = stash[k]
BY DEF TypeOK, World, WorldSet

LEMMA StartType == Start \in SupSet
BY DEF Start, SupSet, PollPlaces

\* A handler's trace is cut anywhere, and the poll then starts again.
LEMMA CommitStep ==
    ASSUME NEW k, NEW trace, NEW cost, NEW next, NEW e, Commit(k, trace, cost, next),
           \A n \in 1 .. Len(trace) : Follows(World(k), trace[n], k \in Capabilities, e)
    PROVE  /\ \E y : Follows(World(k), y, k \in Capabilities, e) /\ KeyStep(k, y)
           /\ sup' = Start \/ sup' = next
<1>1. PICK n \in 1 .. Len(trace) :
        /\ finding' = [finding EXCEPT ![k] = trace[n].f]
        /\ gh' = [gh EXCEPT ![k] = trace[n].g]
        /\ stash' = [stash EXCEPT ![k] = trace[n].s]
        /\ candidate' = [candidate EXCEPT ![k] = trace[n].c]
        /\ sup' = IF n < Len(trace) THEN Start ELSE next
    BY DEF Commit
<1>2. KeyStep(k, trace[n])
    BY <1>1 DEF KeyStep
<1> QED BY <1>1, <1>2

LEMMA KindType ==
    ASSUME NEW r \in ReportSet, NEW k \in Keys
    PROVE  /\ KindOf(r, k) \in {"defect", "infrastructure", "capability"}
           /\ k \in Capabilities => KindOf(r, k) = "capability"
BY DEF KindOf

LEMMA RouteFailedStep ==
    ASSUME TypeOK, NEW k \in Keys, NEW failed \in BOOLEAN, RouteFailed(k, failed)
    PROVE  HandlerStep(k, None)
<1> DEFINE trace == Redispatch(World(k), failed)
           next == [sup EXCEPT !.todo = @ \ {k},
                       !.spent = @ + (IF Last(trace).f.status = "redispatched" THEN 1 ELSE 0)]
<1>1. Commit(k, trace, Cost(failed), next)
    BY DEF RouteFailed
<1>2. World(k) \in WorldSet /\ World(k).f.status = "failed"
    <2>1. finding[k].status = "failed"
        BY DEF RouteFailed, FailedLeft
    <2> QED BY <2>1, WorldType
<1>3. \A n \in 1 .. Len(trace) : Follows(World(k), trace[n], k \in Capabilities, None)
    BY <1>2, RedispatchFollows
<1>4. next \in SupSet /\ next.at = sup.at /\ next.report = sup.report /\ next.todo = sup.todo \ {k}
    <2> DEFINE d == IF Last(trace).f.status = "redispatched" THEN 1 ELSE 0
    <2>1. sup \in SupSet
        BY DEF TypeOK
    <2>2. d \in Nat
        <3> HIDE DEF trace
        <3> QED OBVIOUS
    <2> HIDE DEF d
    <2>3. next = [sup EXCEPT !.todo = @ \ {k}, !.spent = @ + d]
        BY DEF d
    <2> HIDE DEF next
    <2>4. sup.todo \ {k} \in SUBSET Keys /\ sup.spent + d \in Nat
        BY <2>1, <2>2 DEF SupSet
    <2>5. next \in SupSet
        BY <2>1, <2>3, <2>4 DEF SupSet
    <2> QED BY <2>1, <2>3, <2>5 DEF SupSet
<1>5. UNCHANGED <<row, inbox, queue, main>>
    BY DEF RouteFailed
<1> HIDE DEF trace, next
<1>6. /\ \E y : Follows(World(k), y, k \in Capabilities, None) /\ KeyStep(k, y)
      /\ sup' = Start \/ sup' = next
    BY <1>1, <1>3, CommitStep
<1> QED BY <1>4, <1>5, <1>6, StartType DEF HandlerStep, PollStep

LEMMA RoutePendingStep ==
    ASSUME TypeOK, PollSound, CapabilitySound,
           NEW k \in Keys, NEW failed \in BOOLEAN, RoutePending(k, failed)
    PROVE  HandlerStep(k, None)
<1> DEFINE x == World(k)
           cap == k \in Capabilities
           route == Swept(x, failed)
           stays == (x.f.status = "recorded" /\ ~x.f.completed) \/ route.status = "recorded"
           made == route.x.g # x.g
           f == Fields(route.x.f, route)
           z == [route.x EXCEPT !.f = [Fields(@, route) EXCEPT !.status = route.status]]
           trace == IF stays THEN <<x>> ELSE <<route.x, z>>
           next == [sup EXCEPT !.todo = @ \ {k}, !.spent = @ + (IF made /\ ~stays THEN 1 ELSE 0)]
<1>1. Commit(k, trace, Cost(failed), next)
    BY DEF RoutePending
<1>2. x \in WorldSet /\ x.f = finding[k] /\ x.g = gh[k]
    BY WorldType
<1>3. x.f.status \in {"held", "recorded"}
    BY <1>2 DEF RoutePending, PollSound, FailedLeft
<1>4. cap => CapableWorld(x) /\ x.f.kind = "capability"
    BY <1>2, <1>3 DEF CapabilitySound, CapableWorld
<1> HIDE DEF x, cap
<1>5. RouteOk(x, route, cap)
    BY <1>2, <1>4, SweptSound
<1> HIDE DEF route
<1>6. Follows(x, x, cap, None)
    BY <1>2, <1>3, Unrouted DEF Grown
<1>7. Follows(x, route.x, cap, None)
    <2>1. /\ route.x \in WorldSet /\ route.x.f = x.f /\ route.x.s = x.s /\ Grown(x.g, route.x.g)
          /\ cap /\ x.g = <<>> => route.x.g = <<>>
        BY <1>5 DEF RouteOk
    <2>2. cap /\ CapableWorld(x) => route.x.g = x.g /\ route.x.f.kind = "capability"
        BY <2>1, <1>4 DEF CapableWorld
    <2> QED BY <1>2, <2>1, <2>2, KeepsCycle
<1>8. Follows(x, z, cap, None)
    <2>1. route.x \in WorldSet /\ route.x.f = x.f /\ route.x.s = x.s /\ Grown(x.g, route.x.g) /\ x.f \in FindingSet
        BY <1>2, <1>5 DEF RouteOk, WorldSet
    <2>2. /\ f \in FindingSet /\ f.kind = x.f.kind /\ f.fix = x.f.fix
          /\ route.issue = 0 => f = x.f
          /\ route.issue # 0 => f.issue \in DOMAIN route.x.g /\ route.x.g[f.issue].n = f.cycles
        BY <1>2, <1>5, <2>1, FieldsLinked
    <2>3. route.status \in RouteStatuses /\ (cap /\ x.g = <<>> => route.x.g = <<>> /\ route.issue = 0)
        BY <1>5 DEF RouteOk
    <2> HIDE DEF f
    <2>4. /\ z \in WorldSet /\ z.g = route.x.g /\ z.s = route.x.s
          /\ z.f = [f EXCEPT !.status = route.status]
        BY <2>1, <2>2, <2>3 DEF f, WorldSet, FindingSet, RouteStatuses, Statuses
    <2> HIDE DEF z
    <2>5. /\ z.f.status = route.status /\ z.f.kind = f.kind /\ z.f.issue = f.issue
          /\ z.f.cycles = f.cycles /\ z.f.fix = f.fix
        BY <2>2, <2>4 DEF FindingSet
    <2>6. LinkedWorld(x) => LinkedWorld(z)
        <3>1. CASE route.issue = 0
            <4>1. /\ DOMAIN x.g \subseteq DOMAIN z.g
                  /\ \A i \in DOMAIN x.g : z.g[i] = x.g[i]
                BY <1>2, <2>1, <2>4, GrownKeeps DEF WorldSet
            <4> QED BY <3>1, <4>1, <2>2, <2>5 DEF LinkedWorld
        <3>2. CASE route.issue # 0
            BY <3>2, <2>2, <2>4, <2>5 DEF LinkedWorld
        <3> QED BY <3>1, <3>2
    <2>7. cap /\ CapableWorld(x) => CapableWorld(z)
        BY <1>4, <2>2, <2>3, <2>4, <2>5 DEF CapableWorld
    <2>8. z.f.status \notin {"verified", "fix-merged"}
        BY <2>3, <2>5 DEF RouteStatuses
    <2>9. z.s = x.s /\ Grown(x.g, z.g)
        BY <2>1, <2>4
    <2>10. x.f.status \in {"new", "recorded", "held"} /\ z \in WorldSet /\ x \in WorldSet
        BY <1>2, <1>3, <2>4
    <2> QED BY <2>6, <2>7, <2>8, <2>9, <2>10, Unrouted
<1>9. \A n \in 1 .. Len(trace) : Follows(x, trace[n], cap, None)
    <2> HIDE DEF z
    <2> QED BY <1>6, <1>7, <1>8
<1>10. next \in SupSet /\ next.at = sup.at /\ next.report = sup.report /\ next.todo = sup.todo \ {k}
    <2> DEFINE d == IF made /\ ~stays THEN 1 ELSE 0
    <2>1. sup \in SupSet
        BY DEF TypeOK
    <2>2. d \in Nat
        <3> HIDE DEF made, stays
        <3> QED OBVIOUS
    <2> HIDE DEF d
    <2>3. next = [sup EXCEPT !.todo = @ \ {k}, !.spent = @ + d]
        BY DEF d
    <2> HIDE DEF next
    <2>4. sup.todo \ {k} \in SUBSET Keys /\ sup.spent + d \in Nat
        BY <2>1, <2>2 DEF SupSet
    <2>5. next \in SupSet
        BY <2>1, <2>3, <2>4 DEF SupSet
    <2> QED BY <2>1, <2>3, <2>5 DEF SupSet
<1>11. UNCHANGED <<row, inbox, queue, main>>
    BY DEF RoutePending
<1> HIDE DEF trace, next
<1>12. /\ \E y : Follows(World(k), y, k \in Capabilities, None) /\ KeyStep(k, y)
       /\ sup' = Start \/ sup' = next
    BY <1>1, <1>9, CommitStep DEF x, cap
<1> QED BY <1>10, <1>11, <1>12, StartType DEF HandlerStep, PollStep

\* A routed finding, with or without the fields of its route yet.
LEMMA RoutedWorld ==
    ASSUME NEW x \in WorldSet, NEW r, NEW cap, RouteOk(x, r, cap),
           x.f.status \in {"new", "recorded", "held"}, NEW f \in FindingSet,
           \/ f.issue = 0
           \/ f.issue = x.f.issue /\ f.cycles = x.f.cycles,
           f.fix = 0 \/ f.fix = x.f.fix, cap => f.kind = "capability",
           NEW y \in WorldSet, y.g = r.x.g, y.s = x.s,
           y.f.status \notin {"verified", "fix-merged"}, y.f.kind = f.kind, y.f.fix = f.fix,
           \/ y.f.issue = f.issue /\ y.f.cycles = f.cycles
           \/ y.f.issue = Fields(f, r).issue /\ y.f.cycles = Fields(f, r).cycles
    PROVE  Follows(x, y, cap, None)
<1>1. /\ Grown(x.g, y.g) /\ x.g \in Seq(IssueSet)
      /\ cap /\ x.g = <<>> => y.g = <<>> /\ r.issue = 0
    BY DEF RouteOk, WorldSet
<1>2. /\ DOMAIN x.g \subseteq DOMAIN y.g
      /\ \A i \in DOMAIN x.g : y.g[i] = x.g[i]
    BY <1>1, GrownKeeps
<1>3. /\ r.issue = 0 => Fields(f, r) = f
      /\ r.issue # 0 => Fields(f, r).issue \in DOMAIN y.g /\ y.g[Fields(f, r).issue].n = Fields(f, r).cycles
    BY FieldsLinked
<1>4. LinkedWorld(x) => LinkedWorld(y)
    <2>1. CASE y.f.issue = f.issue /\ y.f.cycles = f.cycles
        BY <2>1, <1>2 DEF LinkedWorld
    <2>2. CASE y.f.issue = Fields(f, r).issue /\ y.f.cycles = Fields(f, r).cycles
        <3>1. CASE r.issue = 0
            BY <3>1, <2>2, <1>2, <1>3 DEF LinkedWorld
        <3>2. CASE r.issue # 0
            BY <3>2, <2>2, <1>3 DEF LinkedWorld
        <3> QED BY <3>1, <3>2
    <2> QED BY <2>1, <2>2
<1>5. cap /\ CapableWorld(x) => CapableWorld(y)
    <2> SUFFICES ASSUME cap, CapableWorld(x) PROVE CapableWorld(y)
        OBVIOUS
    <2>1. x.g = <<>> /\ x.f.issue = 0 /\ x.f.fix = 0
        BY DEF CapableWorld
    <2>2. y.g = <<>> /\ r.issue = 0
        BY <1>1, <2>1
    <2>3. y.f.issue = 0 /\ y.f.fix = 0 /\ y.f.kind = "capability"
        BY <1>3, <2>1, <2>2
    <2> QED BY <2>2, <2>3 DEF CapableWorld
<1> QED BY <1>1, <1>4, <1>5, Unrouted

LEMMA IngestFindingStep ==
    ASSUME TypeOK, PollSound, CapabilitySound,
           NEW k \in Keys, NEW failed \in BOOLEAN, IngestFinding(k, failed)
    PROVE  HandlerStep(k, None)
<1> DEFINE r == sup.report
           x == World(k)
           cap == k \in Capabilities
           kind == KindOf(r, k)
           may == sup.created < MaxIssues /\ OpenCount < MaxOpen
           route == Route(x, kind, may, failed)
           made == route.x.g # x.g
           known == [x EXCEPT !.f.kind = kind, !.f.completed = Completed(r)]
           linked == [known EXCEPT !.g = route.x.g, !.c = route.x.c]
           rerouted == [linked EXCEPT !.f = Fields(@, route)]
           inserted == [route.x EXCEPT !.f = [NoFinding EXCEPT !.status = route.status, !.kind = kind,
                                                               !.completed = TRUE]]
           recorded == [known EXCEPT !.f.status = "recorded"]
           numbered == [inserted EXCEPT !.f = Fields(@, route)]
           settled == [rerouted EXCEPT !.f.status = route.status]
           reopened == [known EXCEPT !.f.status = "failed"]
           trace ==
               IF x.f.status = "new" /\ ~Completed(r) THEN <<recorded>>
               ELSE IF x.f.status = "new" THEN <<route.x, inserted, numbered>>
               ELSE IF Completed(r) /\ x.f.status \in {"recorded", "held"}
               THEN <<known, linked, rerouted, settled>>
               ELSE IF x.f.status = "verified" /\ kind = "defect" THEN <<known, reopened>>
               ELSE <<known>>
           routing == Completed(r) /\ x.f.status \in {"new", "recorded", "held"}
           next == [sup EXCEPT !.todo = @ \ {k},
                              !.created = @ + (IF routing /\ made THEN 1 ELSE 0),
                              !.spent = @ + (IF routing /\ made THEN 1 ELSE 0)]
<1>1. Commit(k, trace, Cost(failed), next) /\ sup.at = "findings" /\ UNCHANGED <<row, inbox, queue, main>>
    BY DEF IngestFinding
<1>2. x \in WorldSet
    BY WorldType
<1>3. /\ r \in ReportSet /\ Completed(r) \in BOOLEAN
      /\ kind \in {"defect", "infrastructure", "capability"} /\ (cap => kind = "capability")
    BY <1>1, KindType DEF PollSound, Completed
<1>4. may \in BOOLEAN
    OBVIOUS
<1>5. next \in SupSet /\ next.at = sup.at /\ next.report = sup.report /\ next.todo = sup.todo \ {k}
    <2> DEFINE d == IF routing /\ made THEN 1 ELSE 0
    <2>1. sup \in SupSet
        BY DEF TypeOK
    <2>2. d \in Nat
        <3> HIDE DEF routing, made
        <3> QED OBVIOUS
    <2> HIDE DEF d
    <2>3. next = [sup EXCEPT !.todo = @ \ {k}, !.created = @ + d, !.spent = @ + d]
        BY DEF d
    <2> HIDE DEF next
    <2>4. sup.todo \ {k} \in SUBSET Keys /\ sup.spent + d \in Nat /\ sup.created + d \in Nat
        BY <2>1, <2>2 DEF SupSet
    <2>5. next \in SupSet
        BY <2>1, <2>3, <2>4 DEF SupSet
    <2> QED BY <2>1, <2>3, <2>5 DEF SupSet
<1>6. \A n \in 1 .. Len(trace) : Follows(x, trace[n], cap, None)
    <2> DEFINE done == Completed(r)
    <2> HIDE DEF x, cap, kind, r, may, next, routing, made
    <2>1. RouteOk(x, route, cap)
        BY <1>2, <1>3, <1>4, RouteSound
    <2> HIDE DEF route, done
    <2>2. /\ x.f \in FindingSet /\ x.g \in Seq(IssueSet) /\ Grown(x.g, x.g) /\ done \in BOOLEAN
          /\ route.x \in WorldSet /\ route.x.f = x.f /\ route.x.s = x.s /\ Grown(x.g, route.x.g)
          /\ route.status \in RouteStatuses
        BY <1>2, <1>3, <2>1 DEF done, WorldSet, Grown, RouteOk
    <2>3. /\ known \in WorldSet /\ known.g = x.g /\ known.s = x.s /\ known.c = x.c
          /\ known.f = [x.f EXCEPT !.kind = kind, !.completed = done]
        <3>1. [x.f EXCEPT !.kind = kind, !.completed = done] \in FindingSet
            BY <1>3, <2>2 DEF FindingSet
        <3>2. known = [x EXCEPT !.f = [x.f EXCEPT !.kind = kind, !.completed = done]]
            BY <1>2 DEF WorldSet, FindingSet, done
        <3> HIDE DEF known
        <3> QED BY <1>2, <3>1, <3>2 DEF WorldSet
    <2> HIDE DEF known
    <2>4. /\ known.f \in FindingSet /\ known.f.kind = kind /\ known.f.status = x.f.status
          /\ known.f.issue = x.f.issue /\ known.f.cycles = x.f.cycles /\ known.f.fix = x.f.fix
        BY <2>2, <2>3 DEF FindingSet, WorldSet
    <2>5. Follows(x, known, cap, None)
        BY <1>2, <1>3, <2>2, <2>3, <2>4, KeepsCycle
    <2>6. ASSUME NEW st \in {"recorded", "failed"}, NEW y, y = [known EXCEPT !.f.status = st],
                 st = "recorded" => x.f.status = "new", st = "failed" => x.f.status = "verified"
          PROVE  Follows(x, y, cap, None)
        <3>1. y \in WorldSet /\ y.g = x.g /\ y.s = x.s /\ y.f = [known.f EXCEPT !.status = st]
            BY <2>3, <2>6 DEF WorldSet, FindingSet, Statuses
        <3>2. /\ y.f.status = st /\ y.f.kind = kind /\ y.f.issue = x.f.issue
              /\ y.f.cycles = x.f.cycles /\ y.f.fix = x.f.fix
            BY <2>4, <3>1 DEF FindingSet
        <3>3. \/ y.f.status \in {"failed", "unresolved"} /\ x.f.status # "fix-merged"
              \/ x.f.status \in {"new", "recorded", "held"} /\ y.f.status \notin {"verified", "fix-merged"}
            BY <2>6, <3>2
        <3> QED BY <1>2, <1>3, <2>2, <3>1, <3>2, <3>3, KeepsCycle
    <2>7. ASSUME x.f.status = "new"
          PROVE  Follows(x, route.x, cap, None) /\ Follows(x, inserted, cap, None) /\ Follows(x, numbered, cap, None)
        <3> DEFINE f == [NoFinding EXCEPT !.status = route.status, !.kind = kind, !.completed = TRUE]
        <3>1. /\ f \in FindingSet /\ f.issue = 0 /\ f.fix = 0 /\ f.kind = kind
              /\ f.status = route.status
            BY <1>3, <2>2 DEF NoFinding, FindingSet, RouteStatuses, Statuses
        <3>2. inserted \in WorldSet /\ inserted.f = f /\ inserted.g = route.x.g /\ inserted.s = x.s
            <4> HIDE DEF f
            <4>1. inserted = [route.x EXCEPT !.f = f]
                BY DEF f
            <4> HIDE DEF inserted
            <4> QED BY <2>2, <3>1, <4>1 DEF WorldSet
        <3> HIDE DEF inserted, f
        <3>3. /\ Fields(f, route) \in FindingSet /\ Fields(f, route).status = f.status
              /\ Fields(f, route).kind = f.kind /\ Fields(f, route).fix = f.fix
            BY <1>2, <2>1, <3>1, FieldsLinked
        <3>4. numbered \in WorldSet /\ numbered.f = Fields(f, route) /\ numbered.g = route.x.g /\ numbered.s = x.s
            BY <3>2, <3>3 DEF WorldSet
        <3> HIDE DEF numbered
        <3>5. Follows(x, inserted, cap, None)
            BY <1>2, <1>3, <2>1, <2>2, <2>7, <3>1, <3>2, RoutedWorld DEF RouteStatuses
        <3>6. Follows(x, numbered, cap, None)
            BY <1>2, <1>3, <2>1, <2>2, <2>7, <3>1, <3>3, <3>4, RoutedWorld DEF RouteStatuses
        <3>7. Follows(x, route.x, cap, None)
            <4>1. cap /\ CapableWorld(x) => route.x.g = x.g
                BY <2>1 DEF RouteOk, CapableWorld
            <4> QED BY <1>2, <2>2, <2>7, <4>1, KeepsCycle
        <3> QED BY <3>5, <3>6, <3>7
    <2>8. ASSUME x.f.status \in {"recorded", "held"}
          PROVE  Follows(x, linked, cap, None) /\ Follows(x, rerouted, cap, None) /\ Follows(x, settled, cap, None)
        <3> DEFINE f == known.f
                   h == Fields(f, route)
        <3>1. linked \in WorldSet /\ linked.f = f /\ linked.g = route.x.g /\ linked.s = x.s
            BY <2>2, <2>3 DEF WorldSet
        <3> HIDE DEF linked
        <3>2. /\ h \in FindingSet /\ h.status = f.status /\ h.kind = f.kind /\ h.fix = f.fix
            BY <1>2, <2>1, <2>4, FieldsLinked
        <3> HIDE DEF f, h
        <3>3. rerouted \in WorldSet /\ rerouted.f = h /\ rerouted.g = route.x.g /\ rerouted.s = x.s
            BY <3>1, <3>2 DEF h, WorldSet
        <3> HIDE DEF rerouted
        <3>4. /\ settled \in WorldSet /\ settled.g = route.x.g /\ settled.s = x.s
              /\ settled.f = [h EXCEPT !.status = route.status]
            BY <2>2, <3>3 DEF WorldSet, FindingSet, Statuses, RouteStatuses
        <3> HIDE DEF settled
        <3>5. /\ settled.f.status = route.status /\ settled.f.kind = h.kind /\ settled.f.fix = h.fix
              /\ settled.f.issue = h.issue /\ settled.f.cycles = h.cycles
            BY <3>2, <3>4 DEF FindingSet
        <3>6. /\ f \in FindingSet /\ f.issue = x.f.issue /\ f.cycles = x.f.cycles /\ f.fix = x.f.fix
              /\ f.kind = kind /\ f.status = x.f.status
            BY <2>4 DEF f
        <3>7. Follows(x, linked, cap, None)
            BY <1>2, <1>3, <2>1, <2>8, <3>1, <3>6, RoutedWorld
        <3>8. Follows(x, rerouted, cap, None)
            BY <1>2, <1>3, <2>1, <2>8, <3>2, <3>3, <3>6, RoutedWorld DEF h
        <3>9. Follows(x, settled, cap, None)
            <4>1. settled.f.status \notin {"verified", "fix-merged"}
                BY <2>2, <3>5 DEF RouteStatuses
            <4>2. settled.f.kind = f.kind /\ settled.f.fix = f.fix
                BY <3>2, <3>5
            <4>3. settled.f.issue = Fields(f, route).issue /\ settled.f.cycles = Fields(f, route).cycles
                BY <3>5 DEF h
            <4> QED BY <1>2, <1>3, <2>1, <2>8, <3>4, <3>6, <4>1, <4>2, <4>3, RoutedWorld
        <3> QED BY <3>7, <3>8, <3>9
    <2>9. x.f.status = "new" => Follows(x, recorded, cap, None)
        BY <2>6
    <2>10. x.f.status = "verified" => Follows(x, reopened, cap, None)
        BY <2>6
    <2> HIDE DEF linked, rerouted, inserted, numbered, settled, recorded, reopened
    <2> QED BY <2>5, <2>7, <2>8, <2>9, <2>10
<1>7. /\ \E y : Follows(World(k), y, k \in Capabilities, None) /\ KeyStep(k, y)
      /\ sup' = Start \/ sup' = next
    <2> HIDE DEF trace, next
    <2> QED BY <1>1, <1>6, CommitStep
<1> HIDE DEF next, trace
<1> QED BY <1>1, <1>5, <1>7, StartType DEF HandlerStep, PollStep

LEMMA IngestVerificationStep ==
    ASSUME TypeOK, PollSound, NEW lookup \in BOOLEAN, NEW publish \in BOOLEAN,
           IngestVerification(lookup, publish)
    PROVE  LET e == sup.report.verification
           IN  /\ sup.at = "findings" /\ e \in EntrySet /\ e # None /\ e.key \in Keys
               /\ HandlerStep(e.key, e)
<1> DEFINE e == sup.report.verification
           k == e.key
           trace == ApplyVerification(World(k), e, sup.report.sha, lookup, publish)
           next == [sup EXCEPT !.at = "close"]
<1>1. /\ Commit(k, trace, Cost(lookup \/ publish), next)
      /\ sup.at = "findings" /\ e # None /\ UNCHANGED <<row, inbox, queue, main>>
    BY DEF IngestVerification
<1>2. e \in EntrySet
    BY <1>1 DEF PollSound, ReportSet
<1>3. k \in Keys
    BY <1>2 DEF EntrySet, Keys
<1>4. next \in SupSet /\ next.at = "close" /\ next.report = sup.report
    BY DEF TypeOK, SupSet, PollPlaces
<1> HIDE DEF e, k, next
<1>5. \A n \in 1 .. Len(trace) : Follows(World(k), trace[n], k \in Capabilities, e)
    BY <1>1, <1>2, <1>3, WorldType, ApplyFollows
<1> HIDE DEF trace
<1>6. /\ \E y : Follows(World(k), y, k \in Capabilities, e) /\ KeyStep(k, y)
      /\ sup' = Start \/ sup' = next
    BY <1>1, <1>5, CommitStep
<1>7. HandlerStep(k, e)
    BY <1>1, <1>4, <1>6, StartType DEF HandlerStep, PollStep
<1> QED BY <1>1, <1>2, <1>3, <1>7 DEF e, k

LEMMA RetryVerificationStep ==
    ASSUME TypeOK, PollSound, NEW k \in Keys, NEW lookup \in BOOLEAN, NEW publish \in BOOLEAN,
           RetryVerification(k, lookup, publish)
    PROVE  /\ sup.at = "retry" /\ stash[k] \in EntrySet /\ stash[k] # None
           /\ HandlerStep(k, stash[k])
<1> DEFINE e == stash[k]
           x == World(k)
           cap == k \in Capabilities
           trace == ApplyVerification(x, e, e.tested, lookup, publish)
           last == [Last(trace) EXCEPT !.s = None]
           parked == lookup /\ Admissible(finding[k], e, e.tested)
           full == IF parked THEN trace ELSE Append(trace, last)
           next == [sup EXCEPT !.todo = @ \ {k}]
<1>1. /\ Commit(k, full, Cost(lookup \/ publish), next)
      /\ sup.at = "retry" /\ k \in sup.todo /\ UNCHANGED <<row, inbox, queue, main>>
    BY DEF RetryVerification
<1>2. e \in EntrySet /\ e # None
    BY <1>1 DEF PollSound, TypeOK
<1>3. next \in SupSet /\ next.at = sup.at /\ next.report = sup.report /\ next.todo = sup.todo \ {k}
    <2>1. sup \in SupSet
        BY DEF TypeOK
    <2>2. sup.todo \ {k} \in SUBSET Keys
        BY <2>1 DEF SupSet
    <2> QED BY <2>1, <2>2 DEF SupSet
<1>4. x \in WorldSet
    BY WorldType
<1> HIDE DEF e, x, next, parked, cap
<1>5. /\ trace \in Seq(WorldSet) /\ Len(trace) > 0
      /\ \A n \in 1 .. Len(trace) : Follows(x, trace[n], cap, e)
    BY <1>2, <1>4, ApplyFollows
<1> HIDE DEF trace
<1>6. last \in WorldSet /\ Follows(x, last, cap, e)
    <2> DEFINE z == Last(trace)
    <2>1. z = trace[Len(trace)] /\ Len(trace) \in 1 .. Len(trace)
        BY <1>5 DEF Last
    <2>2. z \in WorldSet /\ Follows(x, z, cap, e)
        BY <1>5, <2>1
    <2> HIDE DEF z
    <2>3. last \in WorldSet /\ last.f = z.f /\ last.g = z.g /\ last.s = None
        BY <2>2 DEF z, WorldSet
    <2> HIDE DEF last
    <2>4. /\ LinkedWorld(z) => LinkedWorld(last)
          /\ \A fix \in Nat : Spent(z, fix) => Spent(last, fix)
          /\ CapableWorld(z) => CapableWorld(last)
        BY <2>3 DEF LinkedWorld, Spent, CapableWorld
    <2> QED BY <2>2, <2>3, <2>4 DEF Follows
<1> HIDE DEF last
<1>7. \A n \in 1 .. Len(full) : Follows(x, full[n], cap, e)
    <2>1. CASE parked
        BY <2>1, <1>5
    <2>2. CASE ~parked
        <3>1. /\ Len(full) = Len(trace) + 1 /\ full[Len(full)] = last
              /\ \A n \in 1 .. Len(trace) : full[n] = trace[n]
            BY <2>2, <1>5, <1>6
        <3>2. \A n \in 1 .. Len(full) : n \in 1 .. Len(trace) \/ n = Len(full)
            BY <1>5, <3>1
        <3> HIDE DEF full
        <3> QED BY <3>1, <3>2, <1>5, <1>6
    <2> QED BY <2>1, <2>2
<1> HIDE DEF full
<1>8. /\ \E y : Follows(World(k), y, k \in Capabilities, e) /\ KeyStep(k, y)
      /\ sup' = Start \/ sup' = next
    BY <1>1, <1>7, CommitStep DEF x, cap
<1>9. HandlerStep(k, e)
    BY <1>1, <1>3, <1>8, StartType DEF HandlerStep, PollStep
<1> QED BY <1>1, <1>2, <1>9 DEF e

-------------------------------------------------------------------------------
(* The steps of the lane, as far as its run records go.                      *)

\* A record keeps what it is about; it gets its verdict once, after it began; a
\* verification that is new is of an item that is pending, and begins at once.
RunsStep ==
    /\ runs' \in Seq(RunSet) /\ Len(runs') <= MaxRuns /\ DOMAIN runs \subseteq DOMAIN runs'
    /\ \A i \in DOMAIN runs :
          /\ runs'[i].kind = runs[i].kind /\ runs'[i].item = runs[i].item /\ runs'[i].sha = runs[i].sha
          /\ runs'[i].status = "queued" => runs[i].status = "queued"
          /\ runs[i].kind = "qav" /\ runs[i].status = "queued" => runs'[i].status = "queued"
          /\ \/ runs'[i].verdict = runs[i].verdict
             \/ runs[i].verdict = None /\ runs'[i].status # "queued"
    /\ \A i \in DOMAIN runs' \ DOMAIN runs :
          /\ runs'[i].verdict = None
          /\ runs'[i].kind = "qav" => /\ runs'[i].item \in items
                                      /\ runs'[i].status # "queued" => i \in dirs' /\ runs'[i].sha \in staged

\* The same for steps that only queue and supersede assessments.
Requeued(rs, qs) ==
    /\ qs \in Seq(RunSet) /\ Len(qs) <= MaxRuns /\ DOMAIN rs \subseteq DOMAIN qs
    /\ \A i \in DOMAIN rs :
          \/ qs[i] = rs[i]
          \/ rs[i].kind = "qa" /\ qs[i] = [rs[i] EXCEPT !.status = "superseded"]
    /\ \A i \in DOMAIN qs \ DOMAIN rs : qs[i].kind = "qa" /\ qs[i].verdict = None

LEMMA RunFacts ==
    ASSUME TypeOK
    PROVE  /\ DOMAIN runs = 1 .. Len(runs) /\ Len(runs) \in Nat
           /\ \A i \in DOMAIN runs : /\ i \in 1 .. MaxRuns /\ runs[i] \in RunSet
                                     /\ runs[i].sha \in Nat /\ runs[i].kind \in {"qa", "qav"}
<1>1. runs \in Seq(RunSet) /\ Len(runs) <= MaxRuns /\ MaxRuns \in Nat
    BY QaAssumption DEF TypeOK
<1>2. DOMAIN runs = 1 .. Len(runs) /\ Len(runs) \in Nat
    BY <1>1
<1>3. \A i \in DOMAIN runs : i \in 1 .. MaxRuns /\ runs[i] \in RunSet
    BY <1>1, <1>2
<1> QED BY <1>2, <1>3 DEF RunSet

LEMMA EnqueueRequeues ==
    ASSUME NEW rs \in Seq(RunSet), Len(rs) <= MaxRuns, NEW sha \in Nat, NEW attempt \in Nat
    PROVE  Requeued(rs, Enqueue(rs, sha, attempt))
<1> DEFINE ss == [i \in DOMAIN rs |-> IF i \in Ids(rs, "qa", {"queued"})
                                      THEN [rs[i] EXCEPT !.status = "superseded"] ELSE rs[i]]
           r == Record("qa", sha, attempt, None, FALSE)
<1>1. CASE Enqueue(rs, sha, attempt) = rs
    BY <1>1 DEF Requeued
<1>2. CASE Enqueue(rs, sha, attempt) = Append(ss, r) /\ Len(rs) # MaxRuns
    <2>1. r \in RunSet /\ r.kind = "qa" /\ r.verdict = None
        BY DEF Record, RunSet, RunStatuses, ReportOutcomes
    <2>2. DOMAIN rs = 1 .. Len(rs) /\ Len(rs) \in Nat /\ MaxRuns \in Nat
        BY QaAssumption
    <2>3. ASSUME NEW i \in DOMAIN rs
          PROVE  /\ ss[i] \in RunSet
                 /\ \/ ss[i] = rs[i]
                    \/ rs[i].kind = "qa" /\ ss[i] = [rs[i] EXCEPT !.status = "superseded"]
        <3>1. rs[i] \in RunSet
            BY <2>2
        <3>2. [rs[i] EXCEPT !.status = "superseded"] \in RunSet
            BY <3>1 DEF RunSet, RunStatuses
        <3> QED BY <3>1, <3>2 DEF Ids
    <2>4. ss \in Seq(RunSet) /\ Len(ss) = Len(rs) /\ DOMAIN ss = DOMAIN rs
        BY <2>2, <2>3
    <2> HIDE DEF ss, r
    <2> DEFINE qs == Append(ss, r)
    <2>5. /\ qs \in Seq(RunSet) /\ Len(qs) = Len(rs) + 1
          /\ \A i \in 1 .. Len(rs) : qs[i] = ss[i]
          /\ qs[Len(qs)] = r
        BY <2>1, <2>2, <2>4
    <2> HIDE DEF qs
    <2>6. DOMAIN qs = 1 .. Len(qs) /\ Len(qs) <= MaxRuns
        <3>1. DOMAIN qs = 1 .. Len(qs)
            BY <2>5
        <3>2. Len(rs) + 1 <= MaxRuns
            <4>1. Len(rs) # MaxRuns /\ Len(rs) <= MaxRuns
                BY <1>2
            <4>2. \A a, b \in Nat : a <= b /\ a # b => a + 1 <= b
                OBVIOUS
            <4>3. Len(rs) \in Nat /\ MaxRuns \in Nat
                BY <2>2
            <4> QED BY <4>1, <4>2, <4>3
        <3> QED BY <3>1, <3>2, <2>5
    <2>7. \A i \in DOMAIN qs \ DOMAIN rs : i = Len(qs)
        BY <2>2, <2>5, <2>6
    <2>8. DOMAIN rs \subseteq DOMAIN qs
        BY <2>2, <2>5, <2>6
    <2>9. Requeued(rs, qs)
        BY <2>1, <2>2, <2>3, <2>5, <2>6, <2>7, <2>8 DEF Requeued
    <2> QED BY <1>2, <2>9 DEF qs
<1> QED BY <1>1, <1>2 DEF Enqueue

LEMMA MaybeRetryRequeues ==
    ASSUME TypeOK
    PROVE  Requeued(runs, MaybeRetry(runs))
<1> DEFINE ids == Ids(runs, "qa", {"finished"})
           i == Newest(ids)
           n == Attempts(runs, runs[i].sha)
<1>1. runs \in Seq(RunSet) /\ Len(runs) <= MaxRuns
    BY DEF TypeOK
<1>2. CASE MaybeRetry(runs) = runs
    BY <1>1, <1>2 DEF Requeued
<1>3. CASE i # 0 /\ MaybeRetry(runs) = Enqueue(runs, runs[i].sha, n + 1)
    <2>1. ids \subseteq DOMAIN runs
        BY DEF Ids
    <2>2. i \in ids
        <3>1. Len(runs) \in Nat /\ ids \in SUBSET (1 .. Len(runs))
            BY <2>1, RunFacts
        <3> HIDE DEF ids
        <3> QED BY <1>3, <3>1, NewestIn
    <2>3. runs[i].sha \in Nat
        <3> HIDE DEF i
        <3> QED BY <2>1, <2>2, RunFacts
    <2>4. n + 1 \in Nat
        <3>1. n \in Nat
            BY <1>1, AttemptsType
        <3> HIDE DEF n
        <3> QED BY <3>1
    <2> HIDE DEF i, n
    <2> QED BY <1>1, <1>3, <2>3, <2>4, EnqueueRequeues
<1> QED BY <1>2, <1>3 DEF MaybeRetry

LEMMA RequeuedStep ==
    ASSUME TypeOK, CycleSound, Requeued(runs, runs')
    PROVE  RunsStep
<1>1. runs' \in Seq(RunSet) /\ Len(runs') <= MaxRuns /\ DOMAIN runs \subseteq DOMAIN runs'
    BY DEF Requeued
<1>2. ASSUME NEW i \in DOMAIN runs
      PROVE  /\ runs'[i].kind = runs[i].kind /\ runs'[i].item = runs[i].item /\ runs'[i].sha = runs[i].sha
             /\ runs'[i].status = "queued" => runs[i].status = "queued"
             /\ runs[i].kind = "qav" /\ runs[i].status = "queued" => runs'[i].status = "queued"
             /\ runs'[i].verdict = runs[i].verdict
    <2>1. CASE runs'[i] = runs[i]
        BY <2>1
    <2>2. CASE runs[i].kind = "qa" /\ runs'[i] = [runs[i] EXCEPT !.status = "superseded"]
        <3>1. runs[i] \in RunSet
            BY RunFacts
        <3> QED BY <2>2, <3>1 DEF RunSet
    <2> QED BY <2>1, <2>2 DEF Requeued
<1>3. \A i \in DOMAIN runs' \ DOMAIN runs : runs'[i].kind = "qa" /\ runs'[i].verdict = None
    BY DEF Requeued
<1> QED BY <1>1, <1>2, <1>3 DEF RunsStep

\* What a step of the records keeps of CycleSound.
LEMMA RecordsSound ==
    ASSUME TypeOK, CycleSound, RunsStep
    PROVE  /\ \A i \in DOMAIN runs' : runs'[i].kind = "qav" => runs'[i].item \in ItemSet
           /\ \A i \in DOMAIN runs' : runs'[i].status = "queued" => runs'[i].verdict = None
<1>1. items \subseteq ItemSet
    BY DEF TypeOK
<1>2. ASSUME NEW i \in DOMAIN runs', i \in DOMAIN runs
      PROVE  /\ runs'[i].kind = "qav" => runs'[i].item \in ItemSet
             /\ runs'[i].status = "queued" => runs'[i].verdict = None
    BY <1>2 DEF RunsStep, CycleSound
<1>3. ASSUME NEW i \in DOMAIN runs', i \notin DOMAIN runs
      PROVE  /\ runs'[i].kind = "qav" => runs'[i].item \in ItemSet
             /\ runs'[i].status = "queued" => runs'[i].verdict = None
    BY <1>1, <1>3 DEF RunsStep
<1> QED BY <1>2, <1>3

\* The lane's part of the state after a step.
LaneShape ==
    /\ runs \in Seq(RunSet) /\ Len(runs) <= MaxRuns
    /\ reports \in [1 .. MaxRuns -> ReportSet \union {None}] /\ lane \in LaneSet
    /\ CycleSound

\* A step of the records that leaves the cycle in its run, or out of any.
LEMMA CycleStays ==
    ASSUME TypeOK, CycleSound, RunsStep, lane' \in LaneSet,
           reports' \in [1 .. MaxRuns -> ReportSet \union {None}],
           \/ lane'.at \notin InRun
           \/ lane'.at \in InRun /\ lane.at \in InRun /\ lane'.run = lane.run,
           lane'.at \in {"run", "rig"} => lane.at \in {"run", "rig"} /\ runs' = runs,
           lane'.at \in {"stage", "finish", "end"} => lane'.report \in ReportSet
    PROVE  LaneShape'
<1>1. lane'.at \in InRun => lane'.run \in DOMAIN runs' /\ runs'[lane'.run].status # "queued"
    BY DEF CycleSound, RunsStep
<1>2. lane'.at \in {"run", "rig"} => runs'[lane'.run].verdict = None
    BY DEF CycleSound, InRun
<1>3. runs' \in Seq(RunSet) /\ Len(runs') <= MaxRuns
    BY DEF RunsStep
<1> QED BY <1>1, <1>2, <1>3, RecordsSound DEF LaneShape, CycleSound

LEMMA SameRuns ==
    ASSUME TypeOK, runs' = runs
    PROVE  RunsStep
BY DEF RunsStep, TypeOK

\* A change of one record, of its progress only.
LEMMA OneRun ==
    ASSUME TypeOK, NEW i \in DOMAIN runs, NEW r \in RunSet, runs' = [runs EXCEPT ![i] = r],
           r.kind = runs[i].kind, r.item = runs[i].item, r.sha = runs[i].sha,
           r.status # "queued", runs[i].kind = "qav" => runs[i].status # "queued",
           r.verdict = runs[i].verdict \/ runs[i].verdict = None
    PROVE  RunsStep
<1>1. runs \in Seq(RunSet) /\ Len(runs) <= MaxRuns
    BY DEF TypeOK
<1>2. runs' \in Seq(RunSet) /\ Len(runs') = Len(runs) /\ DOMAIN runs' = DOMAIN runs
    BY <1>1
<1>3. runs'[i] = r /\ \A j \in DOMAIN runs : j # i => runs'[j] = runs[j]
    BY <1>1
<1>4. ASSUME NEW j \in DOMAIN runs
      PROVE  /\ runs'[j].kind = runs[j].kind /\ runs'[j].item = runs[j].item /\ runs'[j].sha = runs[j].sha
             /\ runs'[j].status = "queued" => runs[j].status = "queued"
             /\ runs[j].kind = "qav" /\ runs[j].status = "queued" => runs'[j].status = "queued"
             /\ \/ runs'[j].verdict = runs[j].verdict
                \/ runs[j].verdict = None /\ runs'[j].status # "queued"
    <2>1. CASE j = i
        BY <2>1, <1>3
    <2>2. CASE j # i
        BY <2>2, <1>3
    <2> QED BY <2>1, <2>2
<1>5. Len(runs') <= MaxRuns
    BY <1>1, <1>2
<1> QED BY <1>2, <1>4, <1>5 DEF RunsStep

LEMMA EntryType ==
    ASSUME TypeOK, CycleSound, NEW i \in DOMAIN runs, NEW shown \in VerdictSet
    PROVE  /\ Entry(i, shown) \in EntrySet \union {None}
           /\ runs[i].kind = "qav" => /\ Entry(i, shown).key = runs[i].item.key
                                      /\ Entry(i, shown).fix = runs[i].item.fix
                                      /\ Entry(i, shown).tested = runs[i].sha
                                      /\ Entry(i, shown).outcome = shown.outcome
                                      /\ Entry(i, shown).evidence = shown.evidence
           /\ runs[i].kind # "qav" => Entry(i, shown) = None
<1>1. runs[i] \in RunSet /\ runs[i].kind \in {"qa", "qav"} /\ runs[i].sha \in Nat
    BY RunFacts
<1>2. CASE runs[i].kind = "qa"
    BY <1>2 DEF Entry
<1>3. CASE runs[i].kind = "qav"
    <2>1. runs[i].item \in ItemSet
        BY <1>3 DEF CycleSound
    <2>2. runs[i].item.key \in Scenarios /\ runs[i].item.fix \in Nat /\ runs[i].contained \in BOOLEAN
        BY <2>1, <1>1 DEF ItemSet, RunSet
    <2>3. Entry(i, shown) =
            [key |-> runs[i].item.key, case |-> runs[i].item.key, fix |-> runs[i].item.fix,
             tested |-> runs[i].sha, contained |-> runs[i].contained,
             outcome |-> shown.outcome, evidence |-> shown.evidence]
        BY <1>3 DEF Entry
    <2>4. shown.outcome \in Outcomes /\ shown.evidence \in BOOLEAN
        BY DEF VerdictSet
    <2> QED BY <1>1, <1>3, <2>2, <2>3, <2>4 DEF EntrySet
<1> QED BY <1>1, <1>2, <1>3

LEMMA NoVerdictType == NoVerdict \in VerdictSet /\ NoVerdict.outcome = "inconclusive"
BY DEF NoVerdict, Proof, VerdictSet, Outcomes

LEMMA ReportType ==
    ASSUME TypeOK, NEW i \in DOMAIN runs, NEW outcome \in ReportOutcomes,
           NEW cases \in [Scenarios -> Outcomes \union {"absent"}], NEW e \in EntrySet \union {None}
    PROVE  /\ Report(i, outcome, cases, e) \in ReportSet
           /\ Report(i, outcome, cases, e).verification = e
<1>1. runs[i].kind \in {"qa", "qav"} /\ runs[i].sha \in Nat /\ i \in 1 .. MaxRuns
    BY RunFacts
<1> QED BY <1>1 DEF Report, ReportSet

LEMMA NoCasesType == NoCases \in [Scenarios -> Outcomes \union {"absent"}]
BY DEF NoCases

LEMMA CycleStartStep ==
    ASSUME TypeOK, CycleSound, NEW left, NEW died \in BOOLEAN, CycleStart(left, died)
    PROVE  RunsStep /\ LaneShape'
<1> DEFINE dead == {i \in DOMAIN runs : runs[i].status = "running"}
<1>1. runs \in Seq(RunSet) /\ Len(runs) <= MaxRuns
    BY DEF TypeOK
<1>2. runs' = [i \in DOMAIN runs |-> IF i \in dead
                 THEN [runs[i] EXCEPT !.status = "interrupted", !.outcome = "interrupted", !.report = ~died]
                 ELSE runs[i]]
    BY DEF CycleStart
<1>3. ASSUME NEW i \in DOMAIN runs
      PROVE  /\ runs'[i] \in RunSet
             /\ runs'[i].kind = runs[i].kind /\ runs'[i].item = runs[i].item /\ runs'[i].sha = runs[i].sha
             /\ runs'[i].verdict = runs[i].verdict
             /\ runs'[i].status = "queued" <=> runs[i].status = "queued"
    <2>1. runs[i] \in RunSet
        BY RunFacts
    <2>2. CASE i \notin dead
        <3>1. runs'[i] = runs[i]
            BY <1>2, <2>2
        <3> QED BY <2>1, <3>1
    <2>3. CASE i \in dead
        <3>1. runs'[i] = [runs[i] EXCEPT !.status = "interrupted", !.outcome = "interrupted", !.report = ~died]
            BY <1>2, <2>3
        <3>2. runs[i].status = "running"
            BY <2>3
        <3>3. runs'[i] \in RunSet
            BY <2>1, <3>1 DEF RunSet, RunStatuses, ReportOutcomes
        <3> QED BY <2>1, <3>1, <3>2, <3>3 DEF RunSet
    <2> QED BY <2>2, <2>3
<1>4. runs' \in Seq(RunSet) /\ Len(runs') = Len(runs) /\ DOMAIN runs' = DOMAIN runs
    <2>1. DOMAIN runs = 1 .. Len(runs) /\ Len(runs) \in Nat
        BY RunFacts
    <2> HIDE DEF dead
    <2>2. DOMAIN runs' = DOMAIN runs
        BY <1>2
    <2>3. runs' \in [1 .. Len(runs) -> RunSet]
        BY <1>2, <1>3, <2>1
    <2> QED BY <2>1, <2>2, <2>3
<1>5. RunsStep
    <2>1. Len(runs') <= MaxRuns
        BY <1>1, <1>4
    <2> QED BY <1>3, <1>4, <2>1 DEF RunsStep
<1>6. reports' \in [1 .. MaxRuns -> ReportSet \union {None}]
    <2>1. reports \in [1 .. MaxRuns -> ReportSet \union {None}]
        BY DEF TypeOK
    <2>2. CASE died
        BY <2>1, <2>2 DEF CycleStart
    <2>3. CASE ~died
        <3>1. reports' = [i \in 1 .. MaxRuns |-> IF i \in dead THEN Interrupted(i) ELSE reports[i]]
            BY <2>3 DEF CycleStart
        <3>2. ASSUME NEW i \in dead PROVE Interrupted(i) \in ReportSet
            BY ReportType, NoCasesType DEF Interrupted, ReportOutcomes
        <3> HIDE DEF dead
        <3> QED BY <2>1, <3>1, <3>2
    <2> QED BY <2>2, <2>3
<1>7. lane' \in LaneSet /\ lane'.at \in {"idle", "reclaim"}
    <2>1. lane \in LaneSet /\ lane.at = "idle"
        BY DEF CycleStart, TypeOK
    <2>2. CASE died
        BY <2>1, <2>2 DEF CycleStart
    <2>3. CASE ~died
        <3>1. lane' = [lane EXCEPT !.at = "reclaim"]
            BY <2>3 DEF CycleStart
        <3> QED BY <2>1, <3>1 DEF LaneSet, CyclePlaces
    <2> QED BY <2>2, <2>3
<1>8. lane'.at \notin InRun
    BY <1>7 DEF InRun
<1> QED BY <1>5, <1>6, <1>7, <1>8, CycleStays

LEMMA TargetType ==
    ASSUME TypeOK
    PROVE  TargetSha(runs) \in Nat
<1> DEFINE a == Ids(runs, "qa", {"queued"})
           b == {i \in Ids(runs, "qa", {"queued", "running", "finished", "interrupted"}) :
                    runs[i].outcome # "blocked"}
           q == Newest(a)
           l == Newest(b)
           i == IF q # 0 THEN q ELSE l
<1>1. a \in SUBSET (1 .. Len(runs)) /\ b \in SUBSET (1 .. Len(runs)) /\ Len(runs) \in Nat
    BY RunFacts DEF Ids
<1>2. TargetSha(runs) = IF i = 0 THEN 0 ELSE runs[i].sha
    BY DEF TargetSha, LastAttempted
<1>3. (q # 0 => q \in DOMAIN runs) /\ (l # 0 => l \in DOMAIN runs)
    <2> HIDE DEF a, b
    <2> QED BY <1>1, NewestIn, RunFacts
<1> HIDE DEF q, l
<1>4. i # 0 => i \in DOMAIN runs
    BY <1>3
<1> HIDE DEF i
<1> QED BY <1>2, <1>4, RunFacts

\* A cycle that enters a run.
LEMMA CycleBegins ==
    ASSUME TypeOK, CycleSound, RunsStep, reports' = reports, NEW i \in DOMAIN runs',
           lane' = [lane EXCEPT !.at = "run", !.run = i],
           runs'[i].status # "queued", runs'[i].verdict = None
    PROVE  LaneShape'
<1>1. lane \in LaneSet /\ i \in Nat
    BY DEF TypeOK, RunsStep
<1>2. lane' \in LaneSet /\ lane'.at = "run" /\ lane'.run = i
    BY <1>1 DEF LaneSet, CyclePlaces
<1>3. reports' \in [1 .. MaxRuns -> ReportSet \union {None}]
    BY DEF TypeOK
<1>4. runs' \in Seq(RunSet) /\ Len(runs') <= MaxRuns
    BY DEF RunsStep
<1> QED BY <1>2, <1>3, <1>4, RecordsSound DEF LaneShape, CycleSound

LEMMA IdleType == Idle \in LaneSet /\ Idle.at = "idle"
BY DEF Idle, LaneSet, CyclePlaces

\* A step that ends the cycle.
LEMMA CycleEnds ==
    ASSUME TypeOK, CycleSound, RunsStep, reports' = reports, lane' = Idle
    PROVE  LaneShape'
<1>1. lane' \in LaneSet /\ lane'.at \notin InRun /\ lane'.at = "idle"
    BY IdleType DEF InRun
<1>2. reports' \in [1 .. MaxRuns -> ReportSet \union {None}]
    BY DEF TypeOK
<1> QED BY <1>1, <1>2, CycleStays

LEMMA DispatchVerificationStep ==
    ASSUME TypeOK, CycleSound, NEW item \in items, NEW egress \in BOOLEAN,
           DispatchVerification(item, egress)
    PROVE  RunsStep /\ LaneShape'
<1> DEFINE target == TargetSha(runs)
           contained == Includes(target, item.fix)
           r == Record("qav", target, 1, item, contained)
           b == [r EXCEPT !.status = "running"]
           rs == Append(runs, r)
           m == Len(runs) + 1
           w == IF egress THEN b ELSE r
<1>1. /\ runs' = IF egress THEN Begin(rs, Len(rs)) ELSE rs
      /\ dirs' = IF egress THEN dirs \union {Len(rs)} ELSE dirs
      /\ lane' = IF egress THEN [lane EXCEPT !.at = "run", !.run = Len(rs)] ELSE Idle
      /\ Len(runs) < MaxRuns /\ reports' = reports /\ target \in staged
    BY DEF DispatchVerification, Due
<1>2. target \in Nat /\ item \in ItemSet /\ contained \in BOOLEAN
    BY TargetType DEF TypeOK, Includes
<1>3. runs \in Seq(RunSet) /\ Len(runs) \in Nat /\ DOMAIN runs = 1 .. Len(runs) /\ MaxRuns \in Nat
    BY RunFacts, QaAssumption DEF TypeOK
<1> HIDE DEF target, contained
<1>4. /\ r \in RunSet /\ r.kind = "qav" /\ r.item = item /\ r.sha = target /\ r.verdict = None
      /\ r.status = "queued"
    BY <1>2 DEF Record, RunSet, RunStatuses, ReportOutcomes
<1> HIDE DEF r
<1>5. /\ b \in RunSet /\ b.kind = "qav" /\ b.item = item /\ b.sha = target /\ b.verdict = None
      /\ b.status = "running"
    BY <1>4 DEF RunSet, RunStatuses
<1>6. rs \in Seq(RunSet) /\ Len(rs) = m /\ rs[m] = r /\ DOMAIN rs = 1 .. m /\ \A i \in 1 .. Len(runs) : rs[i] = runs[i]
    BY <1>3, <1>4
<1>7. /\ runs' \in Seq(RunSet) /\ Len(runs') = m /\ runs'[m] = w /\ DOMAIN runs' = 1 .. m
      /\ \A i \in 1 .. Len(runs) : runs'[i] = runs[i]
    <2>1. CASE ~egress
        BY <1>1, <1>6, <2>1
    <2>2. CASE egress
        <3>1. runs' = [rs EXCEPT ![m] = [rs[m] EXCEPT !.status = "running"]]
            BY <1>1, <1>6, <2>2 DEF Begin
        <3>2. runs' = [rs EXCEPT ![m] = b]
            BY <1>6, <3>1
        <3>3. m \in 1 .. m /\ \A i \in 1 .. Len(runs) : i \in 1 .. m /\ i # m
            BY <1>3
        <3> HIDE DEF rs, b, m
        <3> QED BY <1>5, <1>6, <2>2, <3>2, <3>3
    <2> QED BY <2>1, <2>2
<1>8. w \in RunSet /\ w.kind = "qav" /\ w.item = item /\ w.sha = target /\ w.verdict = None
    BY <1>4, <1>5
<1>9. /\ \A i \in DOMAIN runs' \ DOMAIN runs : i = m
      /\ m \in DOMAIN runs' /\ DOMAIN runs \subseteq DOMAIN runs' /\ Len(runs') <= MaxRuns
    BY <1>1, <1>3, <1>7
<1>10. w.status # "queued" => m \in dirs' /\ w.sha \in staged
    BY <1>1, <1>4, <1>6, <1>8
<1> HIDE DEF w, m, rs
<1>11. RunsStep
    BY <1>3, <1>7, <1>8, <1>9, <1>10 DEF RunsStep
<1>12. CASE egress
    <2>1. lane' = [lane EXCEPT !.at = "run", !.run = m]
        BY <1>1, <1>6, <1>12
    <2>2. runs'[m].status # "queued" /\ runs'[m].verdict = None
        BY <1>5, <1>7, <1>12 DEF w
    <2> QED BY <1>1, <1>9, <1>11, <2>1, <2>2, CycleBegins
<1>13. CASE ~egress
    BY <1>1, <1>11, <1>13, CycleEnds
<1> QED BY <1>11, <1>12, <1>13

LEMMA DispatchAssessmentStep ==
    ASSUME TypeOK, CycleSound, NEW egress \in BOOLEAN, DispatchAssessment(egress)
    PROVE  RunsStep /\ LaneShape'
<1> DEFINE ids == Ids(runs, "qa", {"queued"})
           i == Newest(ids)
           r == [runs[i] EXCEPT !.status = "running"]
<1>1. reports' = reports
    BY DEF DispatchAssessment
<1>2. CASE lane' = Idle /\ runs' = runs
    BY <1>1, <1>2, SameRuns, CycleEnds
<1>3. CASE /\ i # 0 /\ runs' = Begin(runs, i)
           /\ lane' = [lane EXCEPT !.at = "run", !.run = i]
    <2>1. i \in ids
        <3>1. ids \in SUBSET (1 .. Len(runs)) /\ Len(runs) \in Nat
            BY RunFacts DEF Ids
        <3> HIDE DEF ids
        <3> QED BY <1>3, <3>1, NewestIn
    <2>2. i \in DOMAIN runs /\ runs[i].kind = "qa" /\ runs[i].status = "queued"
        <3> HIDE DEF i
        <3> QED BY <2>1 DEF Ids
    <2>3. runs[i] \in RunSet /\ runs[i].verdict = None
        BY <2>2, RunFacts DEF CycleSound
    <2> HIDE DEF i
    <2>4. /\ r \in RunSet /\ r.kind = runs[i].kind /\ r.item = runs[i].item /\ r.sha = runs[i].sha
          /\ r.status = "running" /\ r.verdict = runs[i].verdict
        BY <2>3 DEF RunSet, RunStatuses
    <2>5. runs' = [runs EXCEPT ![i] = r]
        BY <1>3 DEF Begin
    <2> HIDE DEF r
    <2>6. RunsStep
        BY <2>2, <2>4, <2>5, OneRun
    <2>7. i \in DOMAIN runs' /\ runs'[i] = r
        BY <2>2, <2>5
    <2> QED BY <1>1, <1>3, <2>3, <2>4, <2>6, <2>7, CycleBegins
<1> QED BY <1>2, <1>3 DEF DispatchAssessment

LEMMA ReclaimStep ==
    ASSUME TypeOK, CycleSound, Reclaim
    PROVE  RunsStep /\ LaneShape'
<1>1. RunsStep
    BY MaybeRetryRequeues, RequeuedStep DEF Reclaim
<1>2. lane' \in LaneSet /\ lane'.at = "dispatch" /\ lane'.at \notin InRun
    BY DEF Reclaim, TypeOK, LaneSet, CyclePlaces, InRun
<1>3. reports' \in [1 .. MaxRuns -> ReportSet \union {None}]
    BY DEF Reclaim, TypeOK
<1> QED BY <1>1, <1>2, <1>3, CycleStays

\* A run that has its report.
LEMMA WriteStep ==
    ASSUME TypeOK, CycleSound, RunsStep, reports' = reports, lane.at \in {"run", "rig"},
           NEW r \in ReportSet, Write(r)
    PROVE  LaneShape'
<1>1. lane' \in LaneSet /\ lane'.at = "stage" /\ lane'.run = lane.run /\ lane'.report = r
    BY DEF Write, TypeOK, LaneSet, CyclePlaces
<1>2. reports' \in [1 .. MaxRuns -> ReportSet \union {None}]
    BY DEF TypeOK
<1>3. lane'.at \in InRun /\ lane.at \in InRun
    BY <1>1 DEF InRun
<1> QED BY <1>1, <1>2, <1>3, CycleStays

LEMMA RunBlockedStep ==
    ASSUME TypeOK, CycleSound, NEW fault, RunBlocked(fault)
    PROVE  /\ RunsStep /\ LaneShape'
           /\ lane'.report.verification = Entry(lane.run, NoVerdict)
<1> DEFINE i == lane.run
           e == Entry(i, NoVerdict)
           r == Report(i, "blocked", NoCases, e)
<1>1. lane.at = "run" /\ Write(r) /\ runs' = runs /\ reports' = reports
    BY DEF RunBlocked
<1>2. i \in DOMAIN runs
    BY <1>1 DEF CycleSound, InRun
<1>3. e \in EntrySet \union {None}
    BY <1>2, EntryType, NoVerdictType
<1>4. r \in ReportSet /\ r.verification = e
    <2> HIDE DEF e
    <2> QED BY <1>2, <1>3, ReportType, NoCasesType DEF ReportOutcomes
<1>5. RunsStep
    BY <1>1, SameRuns
<1> HIDE DEF r
<1>6. LaneShape'
    BY <1>1, <1>4, <1>5, WriteStep
<1>7. lane'.report = r
    BY <1>1 DEF Write, TypeOK, LaneSet
<1> QED BY <1>4, <1>5, <1>6, <1>7

LEMMA RunErrorStep ==
    ASSUME TypeOK, CycleSound, NEW stuck, RunError(stuck)
    PROVE  /\ RunsStep /\ LaneShape'
           /\ lane'.report.verification = Entry(lane.run, NoVerdict)
<1> DEFINE i == lane.run
           e == Entry(i, NoVerdict)
           r == Report(i, "inconclusive", NoCases, e)
<1>1. lane.at \in {"run", "rig"} /\ Write(r) /\ runs' = runs /\ reports' = reports
    BY DEF RunError
<1>2. i \in DOMAIN runs
    BY <1>1 DEF CycleSound, InRun
<1>3. e \in EntrySet \union {None}
    BY <1>2, EntryType, NoVerdictType
<1>4. r \in ReportSet /\ r.verification = e
    <2> HIDE DEF e
    <2> QED BY <1>2, <1>3, ReportType, NoCasesType DEF ReportOutcomes, Outcomes
<1>5. RunsStep
    BY <1>1, SameRuns
<1> HIDE DEF r
<1>6. LaneShape'
    BY <1>1, <1>4, <1>5, WriteStep
<1>7. lane'.report = r
    BY <1>1 DEF Write, TypeOK, LaneSet
<1> QED BY <1>4, <1>5, <1>6, <1>7

LEMMA StartRigStep ==
    ASSUME TypeOK, CycleSound, StartRig
    PROVE  RunsStep /\ LaneShape'
<1>1. /\ lane.at = "run" /\ lane' \in LaneSet /\ lane'.at = "rig" /\ lane'.run = lane.run
      /\ runs' = runs /\ reports' = reports
    BY DEF StartRig, TypeOK, LaneSet, CyclePlaces
<1>2. reports' \in [1 .. MaxRuns -> ReportSet \union {None}]
    BY <1>1 DEF TypeOK
<1>3. lane'.at \in InRun /\ lane.at \in InRun
    BY <1>1 DEF InRun
<1> QED BY <1>1, <1>2, <1>3, SameRuns, CycleStays

\* The verdict of a replay: what its report certifies, its record has.
LEMMA JudgeStep ==
    ASSUME TypeOK, CycleSound, NEW cases \in [Scenarios -> Outcomes],
           NEW evidence \in BOOLEAN, NEW stuck, Judge(cases, evidence, stuck)
    PROVE  RunsStep /\ LaneShape' /\ Backed(runs', lane'.report.verification)
<1> DEFINE i == lane.run
           key == runs[i].item.key
           replayed == [NoCases EXCEPT ![key] = cases[key]]
           v == Verdict(cases[key])
           b == [runs[i] EXCEPT !.verdict = Proof(cases[key], evidence)]
<1>1. lane.at = "rig" /\ reports' = reports
    BY DEF Judge
<1>2. i \in DOMAIN runs /\ runs[i].status # "queued" /\ runs[i].verdict = None
    BY <1>1 DEF CycleSound, InRun
<1>3. runs[i] \in RunSet /\ runs[i].kind \in {"qa", "qav"}
    BY <1>2, RunFacts
<1>4. CASE runs[i].kind = "qa"
    <2> DEFINE r == Report(i, Overall(cases), cases, None)
    <2>1. Write(r) /\ runs' = runs
        BY <1>4 DEF Judge
    <2>2. r \in ReportSet /\ r.verification = None
        <3>1. Overall(cases) \in ReportOutcomes
            BY DEF Overall, ReportOutcomes, Outcomes
        <3>2. cases \in [Scenarios -> Outcomes \union {"absent"}]
            OBVIOUS
        <3> QED BY <1>2, <3>1, <3>2, ReportType
    <2>3. RunsStep
        BY <2>1, SameRuns
    <2> HIDE DEF r
    <2>4. LaneShape'
        BY <1>1, <2>1, <2>2, <2>3, WriteStep
    <2>5. lane'.report = r
        BY <2>1 DEF Write, TypeOK, LaneSet
    <2> QED BY <2>2, <2>3, <2>4, <2>5 DEF Backed
<1>5. CASE runs[i].kind = "qav"
    <2> DEFINE e == Entry(i, Proof(v, evidence))
               r == Report(i, v, replayed, e)
    <2>1. Write(r) /\ runs' = [runs EXCEPT ![i].verdict = Proof(cases[key], evidence)]
        BY <1>5 DEF Judge
    <2>2. runs[i].item \in ItemSet
        BY <1>2, <1>5 DEF CycleSound
    <2>3. key \in Scenarios /\ cases[key] \in Outcomes
        BY <2>2 DEF ItemSet
    <2>4. v \in Outcomes /\ (v \in Conclusive => cases[key] = v)
        BY <2>3 DEF Verdict, Outcomes, Conclusive
    <2>5. replayed \in [Scenarios -> Outcomes \union {"absent"}]
        BY <2>3, NoCasesType
    <2> HIDE DEF v, replayed
    <2>6. /\ e \in EntrySet \union {None} /\ e.key = key /\ e.fix = runs[i].item.fix
          /\ e.tested = runs[i].sha /\ e.outcome = v /\ e.evidence = evidence
        <3>1. /\ Proof(v, evidence) \in VerdictSet
              /\ Proof(v, evidence).outcome = v /\ Proof(v, evidence).evidence = evidence
            BY <2>4 DEF Proof, VerdictSet
        <3> QED BY <1>2, <1>5, <3>1, EntryType
    <2> HIDE DEF e
    <2>7. r \in ReportSet /\ r.verification = e
        BY <1>2, <2>4, <2>5, <2>6, ReportType DEF ReportOutcomes
    <2> HIDE DEF r
    <2>8. /\ b \in RunSet /\ b.kind = runs[i].kind /\ b.item = runs[i].item /\ b.sha = runs[i].sha
          /\ b.status = runs[i].status /\ b.verdict = Proof(cases[key], evidence)
        <3>1. Proof(cases[key], evidence) \in VerdictSet
            BY <2>3 DEF Proof, VerdictSet
        <3> HIDE DEF key
        <3> QED BY <1>3, <3>1 DEF RunSet
    <2>9. runs' = [runs EXCEPT ![i] = b]
        BY <2>1
    <2> HIDE DEF b
    <2>10. RunsStep
        BY <1>2, <2>8, <2>9, OneRun
    <2>11. LaneShape'
        BY <1>1, <2>1, <2>7, <2>10, WriteStep
    <2>12. lane'.report = r
        BY <2>1 DEF Write, TypeOK, LaneSet
    <2>13. i \in DOMAIN runs' /\ runs'[i] = b
        BY <1>2, <2>9
    <2>14. runs[i].item = [key |-> key, fix |-> runs[i].item.fix]
        BY <2>2 DEF ItemSet
    <2>15. e.outcome \in Conclusive /\ e.evidence =>
              Replayed(runs', e.key, e.fix, e.tested, e.outcome)
        <3> HIDE DEF i, key
        <3> QED BY <1>5, <2>4, <2>6, <2>8, <2>13, <2>14 DEF Replayed
    <2> QED BY <2>7, <2>10, <2>11, <2>12, <2>15 DEF Backed
<1> QED BY <1>3, <1>4, <1>5

LEMMA StageReportStep ==
    ASSUME TypeOK, CycleSound, StageReport
    PROVE  RunsStep /\ LaneShape'
<1>1. /\ lane.at = "stage" /\ lane' \in LaneSet /\ lane'.at = "finish" /\ lane'.run = lane.run
      /\ lane'.report = lane.report /\ runs' = runs
    BY DEF StageReport, TypeOK, LaneSet, CyclePlaces
<1>2. lane.report \in ReportSet
    BY <1>1 DEF CycleSound
<1>3. reports' \in [1 .. MaxRuns -> ReportSet \union {None}]
    BY <1>2 DEF TypeOK, StageReport
<1>4. lane'.at \in InRun /\ lane.at \in InRun
    BY <1>1 DEF InRun
<1> QED BY <1>1, <1>2, <1>3, <1>4, SameRuns, CycleStays

LEMMA FinishRunStep ==
    ASSUME TypeOK, CycleSound, FinishRun
    PROVE  RunsStep /\ LaneShape'
<1> DEFINE i == lane.run
           b == [runs[i] EXCEPT !.status = "finished", !.report = TRUE, !.outcome = lane.report.outcome]
<1>1. /\ lane.at = "finish" /\ lane' \in LaneSet /\ lane'.at = "end" /\ lane'.run = lane.run
      /\ lane'.report = lane.report /\ reports' = reports /\ runs' = [runs EXCEPT ![i] = b]
    BY DEF FinishRun, TypeOK, LaneSet, CyclePlaces
<1>2. lane.report \in ReportSet /\ i \in DOMAIN runs /\ runs[i].status # "queued"
    BY <1>1 DEF CycleSound, InRun
<1>3. lane.report.outcome \in ReportOutcomes /\ runs[i] \in RunSet
    BY <1>2, RunFacts DEF ReportSet
<1>4. /\ b \in RunSet /\ b.kind = runs[i].kind /\ b.item = runs[i].item /\ b.sha = runs[i].sha
      /\ b.status = "finished" /\ b.verdict = runs[i].verdict
    <2> HIDE DEF i
    <2> QED BY <1>3 DEF RunSet, RunStatuses
<1> HIDE DEF b
<1>5. RunsStep
    BY <1>1, <1>2, <1>4, OneRun
<1>6. reports' \in [1 .. MaxRuns -> ReportSet \union {None}]
    BY <1>1 DEF TypeOK
<1>7. lane'.at \in InRun /\ lane.at \in InRun
    BY <1>1 DEF InRun
<1> QED BY <1>1, <1>2, <1>5, <1>6, <1>7, CycleStays

\* Every step of the lane, and the relay's new revision.
LEMMA LaneStep ==
    ASSUME TypeOK, CycleSound, LaneNext \/ PushRevision
    PROVE  RunsStep /\ LaneShape'
<1>1. ASSUME NEW left, NEW died \in BOOLEAN, CycleStart(left, died) PROVE RunsStep /\ LaneShape'
    BY <1>1, CycleStartStep
<1>2. ASSUME Reclaim PROVE RunsStep /\ LaneShape'
    BY <1>2, ReclaimStep
<1>3. ASSUME \/ CycleBlocked
             \/ \E fault \in BOOLEAN : EndRun(fault)
             \/ LaneCrash
      PROVE  RunsStep /\ LaneShape'
    <2>1. runs' = runs /\ reports' = reports /\ lane' = Idle
        BY <1>3 DEF CycleBlocked, EndRun, LaneCrash
    <2> QED BY <2>1, SameRuns, CycleEnds
<1>4. ASSUME NEW egress \in BOOLEAN, DispatchAssessment(egress) PROVE RunsStep /\ LaneShape'
    BY <1>4, DispatchAssessmentStep
<1>5. ASSUME NEW egress \in BOOLEAN, NEW item \in items, DispatchVerification(item, egress)
      PROVE  RunsStep /\ LaneShape'
    BY <1>5, DispatchVerificationStep
<1>6. ASSUME NEW fault \in BOOLEAN, RunBlocked(fault) PROVE RunsStep /\ LaneShape'
    BY <1>6, RunBlockedStep
<1>7. ASSUME StartRig PROVE RunsStep /\ LaneShape'
    BY <1>7, StartRigStep
<1>8. ASSUME NEW fault \in BOOLEAN, RunError(fault) PROVE RunsStep /\ LaneShape'
    BY <1>8, RunErrorStep
<1>9. ASSUME StageReport PROVE RunsStep /\ LaneShape'
    BY <1>9, StageReportStep
<1>10. ASSUME FinishRun PROVE RunsStep /\ LaneShape'
    BY <1>10, FinishRunStep
<1>11. ASSUME NEW cases \in [Scenarios -> Outcomes], NEW evidence \in BOOLEAN, NEW stuck \in BOOLEAN,
              Judge(cases, evidence, stuck)
       PROVE  RunsStep /\ LaneShape'
    BY <1>11, JudgeStep
<1>12. ASSUME PushRevision PROVE RunsStep /\ LaneShape'
    <2>1. runs \in Seq(RunSet) /\ Len(runs) <= MaxRuns /\ main \in Nat
        BY DEF TypeOK
    <2>2. Requeued(runs, runs')
        BY <1>12, <2>1, EnqueueRequeues DEF PushRevision
    <2>3. RunsStep
        BY <2>2, RequeuedStep
    <2>4. lane' = lane /\ reports' = reports
        BY <1>12 DEF PushRevision
    <2>5. CASE lane.at \notin {"run", "rig"}
        BY <2>3, <2>4, <2>5, CycleStays DEF TypeOK, CycleSound
    <2>6. CASE lane.at \in {"run", "rig"}
        <3>1. /\ lane'.run \in DOMAIN runs /\ runs[lane'.run].status # "queued" /\ runs[lane'.run].verdict = None
            BY <2>4, <2>6 DEF CycleSound, InRun
        <3>2. runs'[lane'.run] = runs[lane'.run] \/ runs'[lane'.run] = [runs[lane'.run] EXCEPT !.status = "superseded"]
            BY <2>2, <3>1 DEF Requeued
        <3>3. runs'[lane'.run].verdict = None
            <4>1. runs[lane'.run] \in RunSet
                BY <3>1, RunFacts
            <4> QED BY <3>1, <3>2, <4>1 DEF RunSet
        <3>4. lane'.run \in DOMAIN runs' /\ runs'[lane'.run].status # "queued"
            BY <2>3, <3>1 DEF RunsStep
        <3>5. runs' \in Seq(RunSet) /\ Len(runs') <= MaxRuns
            BY <2>3 DEF RunsStep
        <3> QED BY <2>3, <2>4, <2>6, <3>3, <3>4, <3>5, RecordsSound DEF LaneShape, CycleSound, TypeOK
    <2> QED BY <2>3, <2>5, <2>6
<1> QED BY <1>1, <1>2, <1>3, <1>4, <1>5, <1>6, <1>7, <1>8, <1>9, <1>10, <1>11, <1>12 DEF LaneNext

-------------------------------------------------------------------------------
(* The shape is an invariant.                                                *)

\* The inbox has a first file.
LEMMA FirstIn ==
    ASSUME NEW files \in SUBSET ReportSet, files # {}
    PROVE  First(files) \in files
<1> DEFINE Best(r) == \A q \in files : IF r.kind = q.kind THEN r.id <= q.id ELSE r.kind = "qa"
           lead == IF \E q \in files : q.kind = "qa" THEN "qa" ELSE "qav"
           T == {r.id : r \in {q \in files : q.kind = lead}}
<1>1. \A q \in files : q.kind \in {"qa", "qav"} /\ q.id \in Nat
    BY QaAssumption DEF ReportSet
<1>2. (\E q \in files : q.kind = lead) /\ \A q \in files : q.kind = lead \/ lead = "qa"
    BY <1>1
<1>3. T \in SUBSET Nat /\ T # {}
    <2> HIDE DEF lead
    <2> QED BY <1>1, <1>2
<1>4. PICK m \in T : \A y \in T : m <= y
    <2> HIDE DEF T
    <2> QED BY <1>3, NatMin
<1>5. PICK r \in files : r.kind = lead /\ r.id = m
    OBVIOUS
<1>6. Best(r)
    <2> SUFFICES ASSUME NEW q \in files
                 PROVE  IF r.kind = q.kind THEN r.id <= q.id ELSE r.kind = "qa"
        OBVIOUS
    <2>1. CASE q.kind = lead
        <3>1. q.id \in T
            BY <2>1
        <3> HIDE DEF T, lead
        <3> QED BY <1>4, <1>5, <2>1, <3>1
    <2>2. CASE q.kind # lead
        <3> HIDE DEF lead, T
        <3> QED BY <1>2, <1>5, <2>2
    <2> QED BY <2>1, <2>2
<1>7. \E z \in files : Best(z)
    BY <1>6
<1>8. First(files) = CHOOSE z \in files : Best(z)
    BY DEF First
<1> HIDE DEF Best
<1> QED BY <1>7, <1>8

Handlers ==
    \/ \E k \in Keys, failed \in BOOLEAN :
          IngestFinding(k, failed) \/ RouteFailed(k, failed) \/ RoutePending(k, failed)
    \/ \E lookup, publish \in BOOLEAN :
          \/ IngestVerification(lookup, publish)
          \/ \E k \in Keys : RetryVerification(k, lookup, publish)

\* A handler changes one key, and the entry it is given is the report's or the
\* stashed one of that key.
LEMMA HandlersStep ==
    ASSUME TypeOK, PollSound, CapabilitySound, Handlers
    PROVE  \E k \in Keys, e \in EntrySet \union {None} :
              /\ HandlerStep(k, e)
              /\ \/ e = None
                 \/ sup.at = "findings" /\ e = sup.report.verification /\ e.key = k
                 \/ e = stash[k]
<1>1. ASSUME NEW k \in Keys, NEW failed \in BOOLEAN,
             IngestFinding(k, failed) \/ RouteFailed(k, failed) \/ RoutePending(k, failed)
      PROVE  HandlerStep(k, None)
    BY <1>1, IngestFindingStep, RouteFailedStep, RoutePendingStep
<1>2. ASSUME NEW lookup \in BOOLEAN, NEW publish \in BOOLEAN, IngestVerification(lookup, publish)
      PROVE  LET e == sup.report.verification
             IN  sup.at = "findings" /\ e \in EntrySet /\ e.key \in Keys /\ HandlerStep(e.key, e)
    BY <1>2, IngestVerificationStep
<1>3. ASSUME NEW k \in Keys, NEW lookup \in BOOLEAN, NEW publish \in BOOLEAN,
             RetryVerification(k, lookup, publish)
      PROVE  stash[k] \in EntrySet /\ HandlerStep(k, stash[k])
    BY <1>3, RetryVerificationStep
<1>4. None \in EntrySet \union {None}
    OBVIOUS
<1>5. CASE \E k \in Keys, failed \in BOOLEAN :
              IngestFinding(k, failed) \/ RouteFailed(k, failed) \/ RoutePending(k, failed)
    BY <1>1, <1>4, <1>5
<1>6. CASE \E lookup, publish \in BOOLEAN : IngestVerification(lookup, publish)
    BY <1>2, <1>6
<1>7. CASE \E lookup, publish \in BOOLEAN, k \in Keys : RetryVerification(k, lookup, publish)
    BY <1>3, <1>7
<1> QED BY <1>5, <1>6, <1>7 DEF Handlers

\* The values of the keys after a handler's step.
LEMMA KeyStepWorlds ==
    ASSUME TypeOK, NEW k \in Keys, NEW y \in WorldSet, KeyStep(k, y)
    PROVE  /\ finding' \in [Keys -> FindingSet] /\ gh' \in [Keys -> Seq(IssueSet)]
           /\ stash' \in [Keys -> EntrySet \union {None}] /\ candidate' \in [Keys -> CandidateStates]
           /\ finding'[k] = y.f /\ gh'[k] = y.g /\ stash'[k] = y.s
           /\ \A j \in Keys : j # k => finding'[j] = finding[j] /\ gh'[j] = gh[j] /\ stash'[j] = stash[j]
BY DEF TypeOK, KeyStep, WorldSet

\* The parts of the shape the supervisor owns.
SupShape == /\ main \in Nat
            /\ finding \in [Keys -> FindingSet] /\ gh \in [Keys -> Seq(IssueSet)]
            /\ stash \in [Keys -> EntrySet \union {None}] /\ candidate \in [Keys -> CandidateStates]
            /\ inbox \subseteq ReportSet /\ queue \subseteq ItemSet /\ sup \in SupSet
            /\ PollSound /\ CapabilitySound /\ LinkSound

LEMMA HandlersShape ==
    ASSUME TypeOK, PollSound, CapabilitySound, LinkSound, Handlers
    PROVE  SupShape'
<1>1. PICK k \in Keys, e \in EntrySet \union {None} : HandlerStep(k, e)
    BY HandlersStep
<1>2. PICK y : Follows(World(k), y, k \in Capabilities, e) /\ KeyStep(k, y)
    BY <1>1 DEF HandlerStep
<1>3. y \in WorldSet
    BY <1>2 DEF Follows
<1>4. /\ finding' \in [Keys -> FindingSet] /\ gh' \in [Keys -> Seq(IssueSet)]
      /\ stash' \in [Keys -> EntrySet \union {None}] /\ candidate' \in [Keys -> CandidateStates]
      /\ finding'[k] = y.f /\ gh'[k] = y.g /\ stash'[k] = y.s
      /\ \A j \in Keys : j # k => finding'[j] = finding[j] /\ gh'[j] = gh[j] /\ stash'[j] = stash[j]
    BY <1>2, <1>3, KeyStepWorlds
<1>5. PollStep(k) /\ inbox' = inbox /\ queue' = queue /\ main' = main
    BY <1>1 DEF HandlerStep
<1>6. PollSound'
    <2>1. CASE sup' = Start
        BY <2>1 DEF PollSound, Start
    <2>2. CASE sup'.at = sup.at /\ sup'.report = sup.report /\ sup'.todo = sup.todo \ {k}
        <3>1. sup.todo \subseteq Keys
            BY DEF TypeOK, SupSet
        <3> QED BY <1>4, <2>2, <3>1 DEF PollSound
    <2>3. CASE sup.at = "findings" /\ sup'.at = "close" /\ sup'.report = sup.report
        BY <2>3 DEF PollSound
    <2> QED BY <1>5, <2>1, <2>2, <2>3 DEF PollStep
<1>7. CapabilitySound'
    <2> SUFFICES ASSUME NEW j \in Capabilities
                 PROVE  /\ gh'[j] = <<>> /\ finding'[j].issue = 0 /\ finding'[j].fix = 0
                        /\ finding'[j].status # "new" => finding'[j].kind = "capability"
        BY DEF CapabilitySound
    <2>1. j \in Keys
        BY DEF Keys
    <2>2. CASE j # k
        BY <1>4, <2>1, <2>2 DEF CapabilitySound
    <2>3. CASE j = k
        <3>1. CapableWorld(World(k))
            BY <2>1, <2>3, WorldType DEF CapabilitySound, CapableWorld
        <3>2. CapableWorld(y)
            BY <1>2, <2>3, <3>1 DEF Follows
        <3> QED BY <1>4, <2>3, <3>2 DEF CapableWorld
    <2> QED BY <2>2, <2>3
<1>8. LinkSound'
    <2> SUFFICES ASSUME NEW j \in Keys
                 PROVE  finding'[j].issue # 0 =>
                          finding'[j].issue \in DOMAIN gh'[j] /\ gh'[j][finding'[j].issue].n = finding'[j].cycles
        BY DEF LinkSound, LinkedWorld, World
    <2>1. CASE j # k
        BY <1>4, <2>1, WorldType, ZenonT(40) DEF LinkSound, LinkedWorld
    <2>2. CASE j = k
        <3>1. LinkedWorld(y)
            BY <1>2 DEF LinkSound, Follows
        <3> QED BY <1>4, <2>2, <3>1 DEF LinkedWorld
    <2> QED BY <2>1, <2>2
<1>9. sup' \in SupSet
    BY <1>5 DEF PollStep
<1> QED BY <1>4, <1>5, <1>6, <1>7, <1>8, <1>9 DEF SupShape, TypeOK

LEMMA TakeReportShape ==
    ASSUME TypeOK, PollSound, CapabilitySound, LinkSound, TakeReport
    PROVE  SupShape' /\ First(inbox) \in inbox
<1> DEFINE r == First(inbox)
<1>1. inbox # {} /\ inbox \subseteq ReportSet /\ sup \in SupSet /\ sup.at = "inbox"
    BY DEF TakeReport, TypeOK
<1>2. r \in inbox /\ r \in ReportSet
    BY <1>1, FirstIn
<1>3. UNCHANGED <<finding, gh, stash, candidate, queue, main>>
    BY DEF TakeReport
<1>4. CapabilitySound' /\ LinkSound'
    BY <1>3 DEF CapabilitySound, LinkSound, LinkedWorld, World
<1>5. CASE inbox' = inbox \ {r} /\ sup' = sup
    <2>1. PollSound'
        BY <1>1, <1>5 DEF PollSound
    <2> QED BY <1>1, <1>2, <1>3, <1>4, <1>5, <2>1 DEF SupShape, TypeOK
<1>6. CASE inbox' = inbox /\ sup' = [sup EXCEPT !.at = "findings", !.report = r,
                                               !.todo = FindingsOf(r), !.created = 0]
    <2>1. FindingsOf(r) \in SUBSET Keys
        BY DEF FindingsOf, Keys
    <2> HIDE DEF r
    <2>2. sup' \in SupSet /\ sup'.at = "findings" /\ sup'.report = r
        BY <1>1, <1>2, <1>6, <2>1 DEF SupSet, PollPlaces
    <2>3. PollSound'
        BY <1>2, <2>2 DEF PollSound
    <2> QED BY <1>1, <1>2, <1>3, <1>4, <1>6, <2>2, <2>3 DEF r, SupShape, TypeOK
<1> QED BY <1>5, <1>6 DEF TakeReport

LEMMA SyncShape ==
    ASSUME TypeOK, PollSound, CapabilitySound, LinkSound, SyncCandidates
    PROVE  /\ SupShape'
           /\ \A k \in Keys : \/ finding'[k] = finding[k]
                              \/ /\ finding[k].status = "candidate"
                                 /\ finding'[k].status \in {"accepted", "deferred", "rejected"}
                                 /\ finding'[k].fix = finding[k].fix
<1> DEFINE decided == {k \in Keys : finding[k].status = "candidate" /\ candidate[k] \in Dispositions}
           synced == [k \in Keys |-> IF k \in decided THEN [finding[k] EXCEPT !.status = candidate[k]]
                                     ELSE finding[k]]
           todo == {k \in Keys : synced[k].status \in {"failed", "held", "recorded"}}
<1>1. finding' = synced /\ sup' = [sup EXCEPT !.at = "route", !.todo = todo]
      /\ UNCHANGED <<gh, stash, candidate, inbox, queue, main>>
    BY DEF SyncCandidates
<1>2. ASSUME NEW k \in Keys
      PROVE  /\ finding'[k] \in FindingSet
             /\ \/ finding'[k] = finding[k]
                \/ /\ finding[k].status = "candidate"
                   /\ finding'[k].status \in {"accepted", "deferred", "rejected"}
                   /\ finding'[k].fix = finding[k].fix
             /\ finding'[k].kind = finding[k].kind /\ finding'[k].issue = finding[k].issue
             /\ finding'[k].fix = finding[k].fix /\ finding'[k].cycles = finding[k].cycles
             /\ finding[k].status = "new" => finding'[k].status = "new"
    <2>1. finding[k] \in FindingSet
        BY DEF TypeOK
    <2>2. CASE k \notin decided
        BY <1>1, <2>1, <2>2
    <2>3. CASE k \in decided
        <3>1. candidate[k] \in {"accepted", "deferred", "rejected"} /\ finding[k].status = "candidate"
            BY <2>3, FindingsAssumption
        <3>2. finding'[k] = [finding[k] EXCEPT !.status = candidate[k]]
            BY <1>1, <2>3
        <3>3. finding'[k] \in FindingSet
            BY <2>1, <3>1, <3>2 DEF FindingSet, Statuses
        <3> QED BY <2>1, <3>1, <3>2, <3>3 DEF FindingSet
    <2> QED BY <2>2, <2>3
<1>3. finding' \in [Keys -> FindingSet]
    <2>1. finding' = [k \in Keys |-> finding'[k]]
        BY <1>1
    <2> QED BY <1>2, <2>1
<1>4. todo \in SUBSET Keys /\ \A k \in todo : finding'[k].status \in {"failed", "held", "recorded"}
    BY <1>1
<1> HIDE DEF todo, synced
<1>5. sup' \in SupSet /\ sup'.at = "route" /\ sup'.todo = todo
    BY <1>1, <1>4 DEF TypeOK, SupSet, PollPlaces
<1>6. PollSound'
    BY <1>4, <1>5 DEF PollSound
<1>7. CapabilitySound'
    <2> SUFFICES ASSUME NEW k \in Capabilities
                 PROVE  /\ gh'[k] = <<>> /\ finding'[k].issue = 0 /\ finding'[k].fix = 0
                        /\ finding'[k].status # "new" => finding'[k].kind = "capability"
        BY DEF CapabilitySound
    <2>1. k \in Keys
        BY DEF Keys
    <2> QED BY <1>1, <1>2, <2>1 DEF CapabilitySound
<1>8. LinkSound'
    BY <1>1, <1>2 DEF LinkSound, LinkedWorld, World
<1> QED BY <1>1, <1>2, <1>3, <1>5, <1>6, <1>7, <1>8 DEF SupShape, TypeOK

LEMMA ReconcileShape ==
    ASSUME TypeOK, PollSound, CapabilitySound, LinkSound, NEW lost, ReconcileMerged(lost)
    PROVE  /\ SupShape'
           /\ \A k \in Keys :
                 \/ finding'[k] = finding[k]
                 \/ /\ finding[k].status \in {"issue-open", "redispatched"}
                    /\ finding[k].issue # 0 /\ finding'[k].issue = finding[k].issue
                    /\ finding'[k].cycles = finding[k].cycles
                    /\ gh[k][finding[k].issue].fix # 0
                    /\ finding'[k].status = "fix-merged" /\ finding'[k].fix = gh[k][finding[k].issue].fix
<1> DEFINE fixed == {k \in Keys \ lost :
                       /\ finding[k].status \in {"issue-open", "redispatched"} /\ finding[k].issue # 0
                       /\ gh[k][finding[k].issue].fix # 0}
           todo == {k \in Keys : stash[k] # None}
<1>1. /\ finding' = [k \in Keys |-> IF k \in fixed
                        THEN [finding[k] EXCEPT !.status = "fix-merged",
                                                !.fix = gh[k][finding[k].issue].fix]
                        ELSE finding[k]]
      /\ sup' = [sup EXCEPT !.at = "retry", !.todo = todo]
      /\ UNCHANGED <<gh, stash, candidate, inbox, queue, main>>
    BY DEF ReconcileMerged
<1>2. ASSUME NEW k \in Keys
      PROVE  /\ finding'[k] \in FindingSet
             /\ \/ finding'[k] = finding[k]
                \/ /\ finding[k].status \in {"issue-open", "redispatched"}
                   /\ finding[k].issue # 0 /\ finding'[k].issue = finding[k].issue
                   /\ finding'[k].cycles = finding[k].cycles
                   /\ gh[k][finding[k].issue].fix # 0
                   /\ finding'[k].status = "fix-merged" /\ finding'[k].fix = gh[k][finding[k].issue].fix
             /\ finding'[k].issue = finding[k].issue /\ finding'[k].cycles = finding[k].cycles
    <2>1. finding[k] \in FindingSet /\ gh[k] \in Seq(IssueSet)
        BY DEF TypeOK
    <2>2. CASE k \notin fixed
        BY <1>1, <2>1, <2>2
    <2>3. CASE k \in fixed
        <3>1. /\ finding[k].status \in {"issue-open", "redispatched"} /\ finding[k].issue # 0
              /\ gh[k][finding[k].issue].fix # 0
            BY <2>3
        <3>2. finding[k].issue \in DOMAIN gh[k]
            BY <3>1, WorldType DEF LinkSound, LinkedWorld
        <3>3. gh[k][finding[k].issue] \in IssueSet
            BY <2>1, <3>2
        <3>4. gh[k][finding[k].issue].fix \in Nat
            BY <3>3 DEF IssueSet
        <3>5. finding'[k] = [finding[k] EXCEPT !.status = "fix-merged", !.fix = gh[k][finding[k].issue].fix]
            BY <1>1, <2>3
        <3>6. finding'[k] \in FindingSet
            BY <2>1, <3>4, <3>5 DEF FindingSet, Statuses
        <3> QED BY <2>1, <3>1, <3>5, <3>6 DEF FindingSet
    <2> QED BY <2>2, <2>3
<1>3. finding' \in [Keys -> FindingSet]
    <2>1. finding' = [k \in Keys |-> finding'[k]]
        BY <1>1
    <2> QED BY <1>2, <2>1
<1>4. sup' \in SupSet /\ sup'.at = "retry" /\ sup'.todo = todo
    BY <1>1 DEF TypeOK, SupSet, PollPlaces
<1>5. PollSound'
    BY <1>1, <1>4 DEF PollSound
<1>6. CapabilitySound'
    <2> SUFFICES ASSUME NEW k \in Capabilities
                 PROVE  finding'[k] = finding[k] /\ gh' = gh
        BY DEF CapabilitySound
    <2>1. k \in Keys /\ finding[k].issue = 0
        BY DEF Keys, CapabilitySound
    <2> QED BY <1>1, <1>2, <2>1
<1>7. LinkSound'
    <2> SUFFICES ASSUME NEW j \in Keys, finding'[j].issue # 0
                 PROVE  /\ finding'[j].issue \in DOMAIN gh'[j]
                        /\ gh'[j][finding'[j].issue].n = finding'[j].cycles
        BY DEF LinkSound, LinkedWorld, World
    <2>1. finding'[j].issue = finding[j].issue /\ finding'[j].cycles = finding[j].cycles
        BY <1>2
    <2>2. finding[j].issue \in DOMAIN gh[j] /\ gh[j][finding[j].issue].n = finding[j].cycles
        BY <2>1, WorldType DEF LinkSound, LinkedWorld
    <2> QED BY <1>1, <2>1, <2>2
<1> QED BY <1>1, <1>2, <1>3, <1>4, <1>5, <1>6, <1>7 DEF SupShape, TypeOK

LEMMA MergeFixShape ==
    ASSUME TypeOK, PollSound, CapabilitySound, LinkSound,
           NEW k \in Keys, NEW i \in DOMAIN gh[k], MergeFix(k, i)
    PROVE  /\ SupShape' /\ main' = main + 1 /\ gh[k][i].fix = 0
           /\ finding' = finding /\ stash' = stash /\ queue' = queue /\ inbox' = inbox /\ sup' = sup
           /\ \A j \in Keys : /\ DOMAIN gh'[j] = DOMAIN gh[j]
                              /\ \A m \in DOMAIN gh[j] :
                                    /\ gh'[j][m].n = gh[j][m].n
                                    /\ \/ gh'[j][m] = gh[j][m]
                                       \/ j = k /\ m = i /\ gh'[j][m].fix = main + 1
<1>1. /\ gh[k][i].fix = 0 /\ main' = main + 1 /\ main \in Nat
      /\ UNCHANGED <<finding, stash, candidate, inbox, queue, sup>>
    BY DEF MergeFix, TypeOK
<1> DEFINE q == [gh[k][i] EXCEPT !.fix = main + 1]
<1>2. gh' = [gh EXCEPT ![k] = [gh[k] EXCEPT ![i] = q]]
    BY <1>1 DEF MergeFix
<1>3. gh[k] \in Seq(IssueSet) /\ gh \in [Keys -> Seq(IssueSet)] /\ gh[k][i] \in IssueSet
    BY DEF TypeOK
<1>4. q \in IssueSet /\ q.n = gh[k][i].n /\ q.fix = main + 1
    <2>1. main + 1 \in Nat
        BY <1>1
    <2> DEFINE v == main + 1
               p == gh[k][i]
    <2> HIDE DEF v, p
    <2>2. [p EXCEPT !.fix = v] \in IssueSet /\ [p EXCEPT !.fix = v].n = p.n /\ [p EXCEPT !.fix = v].fix = v
        BY <1>3, <2>1 DEF v, p, IssueSet
    <2> QED BY <2>2 DEF v, p
<1> HIDE DEF q
<1>5. [gh[k] EXCEPT ![i] = q] \in Seq(IssueSet)
    BY <1>3, <1>4
<1>6. gh' \in [Keys -> Seq(IssueSet)]
    BY <1>2, <1>3, <1>5
<1>7. ASSUME NEW j \in Keys
      PROVE  /\ DOMAIN gh'[j] = DOMAIN gh[j]
             /\ \A m \in DOMAIN gh[j] : /\ gh'[j][m].n = gh[j][m].n
                                        /\ \/ gh'[j][m] = gh[j][m]
                                           \/ j = k /\ m = i /\ gh'[j][m].fix = main + 1
    <2>1. CASE j # k
        BY <1>2, <1>3, <2>1
    <2>2. CASE j = k
        <3>1. gh'[j] = [gh[k] EXCEPT ![i] = q]
            BY <1>2, <1>3, <2>2
        <3>2. DOMAIN gh'[j] = DOMAIN gh[j]
            BY <2>2, <3>1
        <3>3. ASSUME NEW m \in DOMAIN gh[j], m # i PROVE gh'[j][m] = gh[j][m]
            BY <2>2, <3>1, <3>3
        <3>4. gh'[j][i] = q
            BY <2>2, <3>1
        <3> QED BY <1>4, <2>2, <3>2, <3>3, <3>4
    <2> QED BY <2>1, <2>2
<1>8. CapabilitySound'
    <2> SUFFICES ASSUME NEW j \in Capabilities PROVE gh'[j] = gh[j]
        BY <1>1 DEF CapabilitySound
    <2>1. j # k
        BY DEF CapabilitySound
    <2>2. j \in Keys
        BY DEF Keys
    <2> QED BY <1>2, <1>3, <2>1, <2>2
<1>9. LinkSound'
    <2> SUFFICES ASSUME NEW j \in Keys, finding[j].issue # 0
                 PROVE  finding[j].issue \in DOMAIN gh'[j] /\ gh'[j][finding[j].issue].n = finding[j].cycles
        BY <1>1 DEF LinkSound, LinkedWorld, World
    <2>1. finding[j].issue \in DOMAIN gh[j] /\ gh[j][finding[j].issue].n = finding[j].cycles
        BY WorldType DEF LinkSound, LinkedWorld
    <2> QED BY <1>7, <2>1
<1>10. PollSound'
    BY <1>1 DEF PollSound
<1> QED BY <1>1, <1>6, <1>7, <1>8, <1>9, <1>10 DEF SupShape, TypeOK

LEMMA WriteQueueShape ==
    ASSUME TypeOK, PollSound, CapabilitySound, LinkSound, WriteQueue
    PROVE  /\ SupShape' /\ UNCHANGED <<finding, gh, stash, inbox, main>>
           /\ \A a \in ItemSet : a \in queue' <=> Current(a) /\ a.fix # 0
<1> DEFINE waiting == {j \in Keys : finding[j].status = "fix-merged" /\ finding[j].fix # 0}
<1>1. /\ queue' = {[key |-> k, fix |-> finding[k].fix] : k \in waiting}
      /\ sup' = Start /\ UNCHANGED <<finding, gh, stash, candidate, inbox, main>>
    BY DEF WriteQueue
<1>2. ASSUME NEW k \in waiting PROVE k \in Scenarios /\ finding[k].fix \in Nat
    BY DEF Keys, CapabilitySound, TypeOK, FindingSet
<1>3. queue' \subseteq ItemSet
    <2> HIDE DEF waiting
    <2> QED BY <1>1, <1>2 DEF ItemSet
<1>4. ASSUME NEW a \in ItemSet PROVE a \in queue' <=> Current(a) /\ a.fix # 0
    <2>1. a.key \in Keys /\ a = [key |-> a.key, fix |-> a.fix]
        BY DEF ItemSet, Keys
    <2>2. ASSUME a \in queue' PROVE Current(a) /\ a.fix # 0
        <3>1. PICK k \in waiting : a = [key |-> k, fix |-> finding[k].fix]
            BY <1>1, <2>2
        <3>2. a.key = k /\ a.fix = finding[k].fix
            BY <3>1
        <3> QED BY <3>2 DEF Current
    <2>3. ASSUME Current(a), a.fix # 0 PROVE a \in queue'
        <3>1. a.key \in waiting /\ a.fix = finding[a.key].fix
            BY <2>1, <2>3 DEF Current
        <3> HIDE DEF waiting
        <3> QED BY <1>1, <2>1, <3>1
    <2> QED BY <2>2, <2>3
<1>5. PollSound' /\ CapabilitySound' /\ LinkSound'
    BY <1>1 DEF PollSound, Start, CapabilitySound, LinkSound, LinkedWorld, World
<1> QED BY <1>1, <1>3, <1>4, <1>5, StartType DEF SupShape, TypeOK

\* The steps of the supervisor that change no finding and no issue.
LEMMA QuietShape ==
    ASSUME TypeOK, PollSound, CapabilitySound, LinkSound,
           \/ \E died \in BOOLEAN : CloseReport(died)
           \/ SupervisorCrash
           \/ \E k \in Keys, d \in Dispositions : Decide(k, d)
    PROVE  /\ SupShape' /\ UNCHANGED <<finding, gh, stash, queue, main>> /\ inbox' \subseteq inbox
           /\ sup' = sup \/ sup'.at = "inbox"
<1>1. UNCHANGED <<finding, gh, stash, queue, main>>
    BY DEF CloseReport, SupervisorCrash, Decide
<1>2. inbox' \subseteq inbox /\ inbox \subseteq ReportSet
    BY DEF CloseReport, SupervisorCrash, Decide, TypeOK
<1>3. candidate' \in [Keys -> CandidateStates]
    <2>1. CASE candidate' = candidate
        BY <2>1 DEF TypeOK
    <2>2. CASE \E k \in Keys, d \in Dispositions : Decide(k, d)
        <3>1. PICK k \in Keys, d \in Dispositions : candidate' = [candidate EXCEPT ![k] = d]
            BY <2>2 DEF Decide
        <3>2. d \in CandidateStates
            BY FindingsAssumption DEF CandidateStates
        <3> QED BY <3>1, <3>2 DEF TypeOK
    <2> QED BY <2>1, <2>2 DEF CloseReport, SupervisorCrash
<1>4. sup' \in SupSet /\ (sup' = sup \/ sup'.at = "inbox")
    <2>1. sup \in SupSet
        BY DEF TypeOK
    <2>2. CASE sup' = sup
        BY <2>1, <2>2
    <2>3. CASE sup' = Start
        BY <2>3, StartType DEF Start
    <2>4. CASE sup' = [sup EXCEPT !.at = "inbox", !.report = None]
        BY <2>1, <2>4 DEF SupSet, PollPlaces
    <2> QED BY <2>2, <2>3, <2>4 DEF CloseReport, SupervisorCrash, Decide
<1>5. PollSound'
    BY <1>1, <1>4 DEF PollSound
<1>6. CapabilitySound' /\ LinkSound'
    BY <1>1 DEF CapabilitySound, LinkSound, LinkedWorld, World
<1> QED BY <1>1, <1>2, <1>3, <1>4, <1>5, <1>6 DEF SupShape, TypeOK

LEMMA FindingsShape ==
    ASSUME TypeOK, PollSound, CapabilitySound, LinkSound, FindingsNext
    PROVE  SupShape'
<1>1. ASSUME NEW k \in Keys, NEW i \in DOMAIN gh[k], MergeFix(k, i) PROVE SupShape'
    BY <1>1, MergeFixShape
<1>2. ASSUME NEW lost, ReconcileMerged(lost) PROVE SupShape'
    BY <1>2, ReconcileShape
<1> QED BY <1>1, <1>2, HandlersShape, TakeReportShape, SyncShape, WriteQueueShape, QuietShape
        DEF FindingsNext, Poll, Handlers

\* The steps of Next, by what they leave alone.
FindingsPart == FindingsNext /\ UNCHANGED <<runs, reports, items, staged, dirs, pins, own, rig, lane>>
LanePart == /\ LaneNext \/ PushRevision
            /\ UNCHANGED <<main, finding, gh, stash, candidate, inbox, queue, sup, items>>
PullPart == /\ \E i \in 1 .. MaxRuns : reports[i] # None /\ inbox' = inbox \union {reports[i]}
            /\ UNCHANGED <<main, finding, gh, stash, candidate, queue, sup, runs, reports, items,
                           staged, dirs, pins, own, rig, lane>>
QueuePart == /\ items' = queue
             /\ UNCHANGED <<main, finding, gh, stash, candidate, inbox, queue, sup, runs, reports,
                            staged, dirs, pins, own, rig, lane>>
StutterPart == UNCHANGED <<main, finding, gh, stash, candidate, inbox, queue, sup, runs, reports, items,
                           staged, dirs, pins, own, rig, lane>>

LEMMA NextParts ==
    ASSUME [Next]_vars
    PROVE  FindingsPart \/ LanePart \/ PullPart \/ QueuePart \/ StutterPart
<1>1. ASSUME LaneNext, UNCHANGED findingVars PROVE LanePart
    <2>1. UNCHANGED <<finding, gh, stash, candidate, inbox, queue, sup>>
        BY <1>1 DEF findingVars
    <2>2. UNCHANGED <<main, items>>
        BY <1>1 DEF LaneNext, CycleStart, Reclaim, CycleBlocked, DispatchAssessment, DispatchVerification,
                    RunBlocked, EndRun, StartRig, RunError, StageReport, FinishRun, LaneCrash, Judge
    <2> QED BY <1>1, <2>1, <2>2 DEF LanePart
<1>2. ASSUME FindingsNext, UNCHANGED laneVars PROVE FindingsPart
    BY <1>2 DEF FindingsPart, laneVars
<1>3. ASSUME NEW i \in 1 .. MaxRuns, Pull(i) PROVE PullPart
    BY <1>3 DEF Pull, PullPart, laneVars
<1>4. ASSUME PushQueue PROVE QueuePart
    BY <1>4 DEF PushQueue, QueuePart, findingVars
<1>5. ASSUME PushRevision PROVE LanePart
    BY <1>5 DEF PushRevision, LanePart, findingVars
<1>6. ASSUME UNCHANGED vars PROVE StutterPart
    BY <1>6 DEF StutterPart, vars, findingVars, laneVars
<1> QED BY <1>1, <1>2, <1>3, <1>4, <1>5, <1>6 DEF Next

LEMMA ShapeInit ==
    ASSUME Init
    PROVE  ShapeInv
<1> USE DEF Init, FindingsInit, LaneInit
<1>1. finding \in [Keys -> FindingSet]
    BY DEF NoFinding, FindingSet, Statuses
<1>2. /\ main \in Nat /\ gh \in [Keys -> Seq(IssueSet)] /\ stash \in [Keys -> EntrySet \union {None}]
      /\ candidate \in [Keys -> CandidateStates]
    BY DEF CandidateStates
<1>3. /\ runs \in Seq(RunSet) /\ Len(runs) <= MaxRuns /\ DOMAIN runs = {}
      /\ reports \in [1 .. MaxRuns -> ReportSet \union {None}]
    BY QaAssumption
<1>4. TypeOK
    BY <1>1, <1>2, <1>3, StartType, IdleType DEF TypeOK
<1>5. PollSound /\ CycleSound
    BY <1>3, IdleType DEF PollSound, Start, CycleSound, InRun
<1>6. CapabilitySound
    BY DEF CapabilitySound, Keys, NoFinding
<1>7. LinkSound
    BY DEF LinkSound, LinkedWorld, World, NoFinding
<1> QED BY <1>4, <1>5, <1>6, <1>7 DEF ShapeInv

LEMMA ShapeNext ==
    ASSUME ShapeInv, [Next]_vars
    PROVE  ShapeInv'
<1>1. TypeOK /\ PollSound /\ CycleSound /\ CapabilitySound /\ LinkSound
    BY DEF ShapeInv
<1>2. CASE FindingsPart
    <2>1. SupShape'
        BY <1>1, <1>2, FindingsShape DEF FindingsPart
    <2>2. CycleSound'
        BY <1>1, <1>2 DEF FindingsPart, CycleSound
    <2> QED BY <1>1, <1>2, <2>1, <2>2 DEF FindingsPart, ShapeInv, SupShape, TypeOK
<1>3. CASE LanePart
    <2>1. LaneShape'
        BY <1>1, <1>3, LaneStep DEF LanePart
    <2>2. PollSound' /\ CapabilitySound' /\ LinkSound'
        BY <1>1, <1>3 DEF LanePart, PollSound, CapabilitySound, LinkSound, LinkedWorld, World
    <2> QED BY <1>1, <1>3, <2>1, <2>2 DEF LanePart, ShapeInv, LaneShape, TypeOK
<1>4. CASE PullPart \/ QueuePart \/ StutterPart
    <2>1. /\ UNCHANGED <<main, finding, gh, stash, candidate, queue, sup, runs, reports, lane>>
          /\ inbox' \subseteq ReportSet /\ items' \subseteq ItemSet
        BY <1>1, <1>4 DEF PullPart, QueuePart, StutterPart, TypeOK
    <2>2. PollSound' /\ CapabilitySound' /\ LinkSound' /\ CycleSound'
        BY <1>1, <2>1 DEF PollSound, CapabilitySound, LinkSound, LinkedWorld, World, CycleSound
    <2> QED BY <1>1, <2>1, <2>2 DEF ShapeInv, TypeOK
<1> QED BY <1>2, <1>3, <1>4, NextParts

\* Every step keeps the shape of the chain's state.
THEOREM ShapeIsKept == Spec => []ShapeInv
<1>1. Init => ShapeInv
    BY ShapeInit
<1>2. ShapeInv /\ [Next]_vars => ShapeInv'
    BY ShapeNext
<1> QED BY <1>1, <1>2, PTL DEF Spec

-------------------------------------------------------------------------------
(* One rig.                                                                  *)

LEMMA RigLane ==
    ASSUME TypeOK, RigInv, LaneNext \/ PushRevision
    PROVE  RigInv'
<1>1. PICK x : rig \subseteq {x}
    BY DEF RigInv
<1>2. lane \in LaneSet
    BY DEF TypeOK
<1>3. ASSUME rig' \subseteq rig, lane'.at # "run" PROVE RigInv'
    BY <1>1, <1>3 DEF RigInv
<1>4. ASSUME NEW left \in SUBSET rig, NEW died \in BOOLEAN, CycleStart(left, died) PROVE RigInv'
    <2>1. rig' \subseteq rig
        BY <1>4 DEF CycleStart
    <2>2. lane'.at # "run"
        BY <1>2, <1>4 DEF CycleStart, LaneSet
    <2> QED BY <1>3, <2>1, <2>2
<1>5. ASSUME \/ Reclaim \/ CycleBlocked \/ StageReport \/ FinishRun \/ LaneCrash
             \/ \E fault \in BOOLEAN : RunBlocked(fault) \/ EndRun(fault) \/ RunError(fault)
             \/ \E cases \in [Scenarios -> Outcomes], evidence, stuck \in BOOLEAN :
                   Judge(cases, evidence, stuck)
      PROVE  RigInv'
    <2>1. rig' \subseteq rig
        BY <1>5 DEF Reclaim, CycleBlocked, RunError, StageReport, FinishRun, LaneCrash, RunBlocked,
                    EndRun, Judge, Torn
    <2>2. lane'.at # "run"
        BY <1>2, <1>5, IdleType DEF Reclaim, CycleBlocked, RunError, StageReport, FinishRun, LaneCrash,
              RunBlocked, EndRun, Judge, Write, LaneSet
    <2> QED BY <1>3, <2>1, <2>2
<1>6. ASSUME NEW egress \in BOOLEAN,
             DispatchAssessment(egress) \/ \E item \in items : DispatchVerification(item, egress)
      PROVE  RigInv'
    <2>1. rig = {} /\ rig' = rig
        BY <1>6 DEF DispatchAssessment, DispatchVerification, OwnershipBlock
    <2> QED BY <2>1 DEF RigInv
<1>7. ASSUME StartRig PROVE RigInv'
    <2>1. rig = {} /\ rig' = {lane.run}
        BY <1>7 DEF StartRig, RigInv
    <2>2. lane'.at = "rig"
        BY <1>2, <1>7 DEF StartRig, LaneSet
    <2> QED BY <2>1, <2>2 DEF RigInv
<1>8. ASSUME PushRevision PROVE RigInv'
    BY <1>8 DEF PushRevision, RigInv
<1> QED BY <1>4, <1>5, <1>6, <1>7, <1>8 DEF LaneNext

LEMMA RigKept == Spec => []RigInv
<1>1. Init => RigInv
    BY IdleType DEF Init, LaneInit, RigInv
<1>2. ShapeInv /\ RigInv /\ [Next]_vars => RigInv'
    <2> SUFFICES ASSUME TypeOK, RigInv, [Next]_vars PROVE RigInv'
        BY DEF ShapeInv
    <2>1. CASE LanePart
        BY <2>1, RigLane DEF LanePart
    <2>2. CASE FindingsPart \/ PullPart \/ QueuePart \/ StutterPart
        BY <2>2 DEF FindingsPart, PullPart, QueuePart, StutterPart, RigInv
    <2> QED BY <2>1, <2>2, NextParts
<1> QED BY <1>1, <1>2, ShapeIsKept, PTL DEF Spec

\* ownership_block refuses a run while anything of another is on the host: whatever
\* docker leaves behind and whenever a cycle dies, the host never has two rigs.
THEOREM HostHasOneRig == Spec => []OneRig
<1>1. RigInv => OneRig
    <2> SUFFICES ASSUME RigInv PROVE Cardinality(rig) <= 1
        BY DEF OneRig
    <2>1. PICK x : rig \subseteq {x}
        BY DEF RigInv
    <2>2. rig = {} \/ rig = {x}
        BY <2>1
    <2>3. Cardinality({}) = 0 /\ Cardinality({x}) = 1
        BY FS_EmptySet, FS_Singleton
    <2> QED BY <2>2, <2>3
<1> QED BY <1>1, RigKept, PTL

-------------------------------------------------------------------------------
(* One issue per cycle.                                                      *)

\* Issues change when a handler creates one and when a fix of one is merged.
LEMMA MarkersNext ==
    ASSUME ShapeInv, MarkersInv, [Next]_vars
    PROVE  MarkersInv'
<1>1. TypeOK /\ PollSound /\ CapabilitySound /\ LinkSound
    BY DEF ShapeInv
<1>2. CASE gh' = gh
    BY <1>2 DEF MarkersInv
<1>3. CASE Handlers
    <2>1. PICK k \in Keys, e \in EntrySet \union {None} : HandlerStep(k, e)
        BY <1>1, <1>3, HandlersStep
    <2>2. PICK y : Follows(World(k), y, k \in Capabilities, e) /\ KeyStep(k, y)
        BY <2>1 DEF HandlerStep
    <2>3. y \in WorldSet /\ Grown(gh[k], y.g) /\ gh[k] \in Seq(IssueSet)
        BY <1>1, <2>2, WorldType DEF Follows, TypeOK
    <2>4. gh'[k] = y.g /\ \A j \in Keys : j # k => gh'[j] = gh[j]
        BY <1>1, <2>2, <2>3, KeyStepWorlds
    <2>5. /\ \A i \in DOMAIN gh[k] : y.g[i] = gh[k][i]
          /\ \A i \in DOMAIN y.g : i \in DOMAIN gh[k] \/ \A j \in DOMAIN gh[k] : gh[k][j].n # y.g[i].n
          /\ \A i, j \in DOMAIN y.g : i \notin DOMAIN gh[k] /\ j \notin DOMAIN gh[k] => i = j
        BY <2>3, GrownKeeps
    <2>6. \A i, j \in DOMAIN y.g : y.g[i].n = y.g[j].n => i = j
        BY <2>5 DEF MarkersInv
    <2> QED BY <2>4, <2>6 DEF MarkersInv
<1>4. ASSUME NEW k \in Keys, NEW i \in DOMAIN gh[k], MergeFix(k, i) PROVE MarkersInv'
    <2>1. \A j \in Keys : /\ DOMAIN gh'[j] = DOMAIN gh[j]
                          /\ \A m \in DOMAIN gh[j] : gh'[j][m].n = gh[j][m].n
        BY <1>1, <1>4, MergeFixShape
    <2> QED BY <2>1 DEF MarkersInv
<1>5. CASE FindingsPart
    BY <1>2, <1>3, <1>4, <1>5
       DEF FindingsPart, FindingsNext, Poll, Handlers, TakeReport, SyncCandidates, WriteQueue, CloseReport,
           ReconcileMerged, SupervisorCrash, Decide
<1>6. CASE LanePart \/ PullPart \/ QueuePart \/ StutterPart
    BY <1>2, <1>6 DEF LanePart, PullPart, QueuePart, StutterPart
<1> QED BY <1>5, <1>6, NextParts

\* create_issue looks for its marker first, so however often a handler dies between
\* GitHub and the database, a key has one issue per cycle and at most max_fix_cycles.
THEOREM IssuesAreOnePerCycle == Spec => []OneIssuePerCycle
<1>1. Init => MarkersInv
    BY DEF Init, FindingsInit, MarkersInv
<1>2. ShapeInv /\ MarkersInv => OneIssuePerCycle
    <2> SUFFICES ASSUME TypeOK, MarkersInv, NEW k \in Keys PROVE Len(gh[k]) <= MaxFixCycles
        BY DEF ShapeInv, OneIssuePerCycle, MarkersInv
    <2> DEFINE g == gh[k]
               S == 1 .. Len(g)
               T == 1 .. MaxFixCycles
               f == [i \in S |-> g[i].n]
    <2>1. g \in Seq(IssueSet) /\ Len(g) \in Nat /\ MaxFixCycles \in Nat /\ DOMAIN g = S
        BY FindingsAssumption DEF TypeOK
    <2>2. f \in [S -> T]
        <3>1. \A i \in S : g[i] \in IssueSet
            BY <2>1
        <3> HIDE DEF g
        <3> QED BY <3>1 DEF IssueSet
    <2>3. /\ IsFiniteSet(S) /\ Cardinality(S) = IF 1 > Len(g) THEN 0 ELSE Len(g) - 1 + 1
          /\ IsFiniteSet(T) /\ Cardinality(T) = IF 1 > MaxFixCycles THEN 0 ELSE MaxFixCycles - 1 + 1
        <3> HIDE DEF g
        <3> QED BY <2>1, FS_Interval
    <2>4. Cardinality(S) = Len(g) /\ Cardinality(T) = MaxFixCycles
        BY <2>1, <2>3
    <2>5. ~(Cardinality(T) < Cardinality(S))
        <3> SUFFICES ASSUME Cardinality(T) < Cardinality(S) PROVE FALSE
            OBVIOUS
        <3>1. PICK a, b \in S : a # b /\ f[a] = f[b]
            <4> HIDE DEF f, S, T
            <4> QED BY <2>2, <2>3, FS_PigeonHole
        <3>2. g[a].n = g[b].n /\ a \in DOMAIN g /\ b \in DOMAIN g
            BY <2>1, <3>1
        <3> QED BY <3>1, <3>2 DEF MarkersInv
    <2> HIDE DEF S, T, g
    <2>6. ~(MaxFixCycles < Len(g))
        BY <2>4, <2>5
    <2> QED BY <2>1, <2>6 DEF g
<1>3. ShapeInv /\ MarkersInv /\ [Next]_vars => MarkersInv'
    BY MarkersNext
<1> QED BY <1>1, <1>2, <1>3, ShapeIsKept, PTL DEF Spec


-------------------------------------------------------------------------------
(* Certification.                                                            *)

Certified(rs, k, f) ==
    f.status = "verified" => \E sha : Replayed(rs, k, f.fix, sha, "passed") /\ Includes(sha, f.fix)

\* A verdict is not taken back.
LEMMA ReplayedKept ==
    ASSUME RunsStep
    PROVE  /\ \A k, fix, sha : \A v \in Conclusive :
                  Replayed(runs, k, fix, sha, v) => Replayed(runs', k, fix, sha, v)
           /\ \A e : Backed(runs, e) => Backed(runs', e)
           /\ \A k, f : Certified(runs, k, f) => Certified(runs', k, f)
<1>1. ASSUME NEW k, NEW fix, NEW sha, NEW v \in Conclusive, Replayed(runs, k, fix, sha, v)
      PROVE  Replayed(runs', k, fix, sha, v)
    <2>1. PICK i \in DOMAIN runs : /\ runs[i].kind = "qav" /\ runs[i].verdict = Proof(v, TRUE)
                                   /\ runs[i].item = [key |-> k, fix |-> fix] /\ runs[i].sha = sha
        BY <1>1 DEF Replayed
    <2>2. runs[i].verdict # None
        <3>1. Proof(v, TRUE) \in [outcome : {"passed", "failed", "inconclusive"}, evidence : BOOLEAN]
            BY DEF Proof, Conclusive
        <3> QED BY <2>1, <3>1, QaAssumption
    <2>3. /\ i \in DOMAIN runs' /\ runs'[i].kind = runs[i].kind /\ runs'[i].item = runs[i].item
          /\ runs'[i].sha = runs[i].sha /\ runs'[i].verdict = runs[i].verdict
        BY <2>2 DEF RunsStep
    <2> QED BY <2>1, <2>3 DEF Replayed
<1>2. \A k, fix, sha : \A v \in Conclusive :
          Replayed(runs, k, fix, sha, v) => Replayed(runs', k, fix, sha, v)
    BY <1>1
<1>3. \A e : Backed(runs, e) => Backed(runs', e)
    BY <1>2 DEF Backed
<1>4. \A k, f : Certified(runs, k, f) => Certified(runs', k, f)
    BY <1>2 DEF Certified, Conclusive
<1> QED BY <1>2, <1>3, <1>4

LEMMA CertifiedMeans ==
    CertifiedByReplay <=> \A k \in Keys : Certified(runs, k, finding[k])
BY DEF CertifiedByReplay, Certified, Replayed

\* A run that ended without a verdict certifies nothing.
LEMMA InconclusiveBacked ==
    ASSUME TypeOK, CycleSound, NEW i \in DOMAIN runs, NEW rs
    PROVE  Backed(rs, Entry(i, NoVerdict))
<1>1. Entry(i, NoVerdict) = None \/ Entry(i, NoVerdict).outcome = "inconclusive"
    <2>1. runs[i].kind = "qav" \/ runs[i].kind # "qav"
        OBVIOUS
    <2> QED BY <2>1, NoVerdictType, EntryType
<1> QED BY <1>1 DEF Backed, Conclusive

LEMMA ReportsLane ==
    ASSUME TypeOK, CycleSound, ReportsInv, LaneNext \/ PushRevision
    PROVE  ReportsInv'
<1>1. RunsStep
    BY LaneStep
<1>2. lane \in LaneSet
    BY DEF TypeOK
<1>3. ASSUME NEW e, Backed(runs, e) PROVE Backed(runs', e)
    BY <1>1, <1>3, ReplayedKept
<1>4. ASSUME NEW i \in 1 .. MaxRuns, reports[i] # None PROVE Backed(runs', reports[i].verification)
    BY <1>3, <1>4 DEF ReportsInv
<1>5. ASSUME reports' = reports, lane'.at # "stage" PROVE ReportsInv'
    BY <1>4, <1>5 DEF ReportsInv
<1>6. ASSUME reports' = reports, Backed(runs', lane'.report.verification) PROVE ReportsInv'
    BY <1>4, <1>6 DEF ReportsInv
<1>7. ASSUME NEW left, NEW died \in BOOLEAN, CycleStart(left, died) PROVE ReportsInv'
    <2>1. lane'.at # "stage"
        BY <1>2, <1>7 DEF CycleStart, LaneSet
    <2>2. CASE died
        BY <1>5, <1>7, <2>1, <2>2 DEF CycleStart
    <2>3. CASE ~died
        <3> DEFINE dead == {i \in DOMAIN runs : runs[i].status = "running"}
        <3>1. reports' = [i \in 1 .. MaxRuns |-> IF i \in dead THEN Interrupted(i) ELSE reports[i]]
            BY <1>7, <2>3 DEF CycleStart
        <3>2. \A i : Interrupted(i).verification = None
            BY DEF Interrupted, Report
        <3> HIDE DEF dead
        <3>3. ASSUME NEW i \in 1 .. MaxRuns, reports'[i] # None
              PROVE  Backed(runs', reports'[i].verification)
            <4>1. CASE i \in dead
                BY <3>1, <3>2, <4>1 DEF Backed
            <4>2. CASE i \notin dead
                BY <1>4, <3>1, <3>3, <4>2
            <4> QED BY <4>1, <4>2
        <3> QED BY <2>1, <3>3 DEF ReportsInv
    <2> QED BY <2>2, <2>3
<1>8. ASSUME \/ Reclaim \/ CycleBlocked \/ StartRig \/ FinishRun \/ LaneCrash
             \/ \E fault \in BOOLEAN : EndRun(fault)
             \/ \E egress \in BOOLEAN : DispatchAssessment(egress)
                                        \/ \E item \in items : DispatchVerification(item, egress)
      PROVE  ReportsInv'
    <2>1. reports' = reports
        BY <1>8 DEF Reclaim, CycleBlocked, StartRig, FinishRun, LaneCrash, EndRun, DispatchAssessment,
                    DispatchVerification
    <2>2. lane'.at # "stage"
        BY <1>2, <1>8, IdleType DEF Reclaim, CycleBlocked, StartRig, FinishRun, LaneCrash, EndRun,
                    DispatchAssessment, DispatchVerification, LaneSet
    <2> QED BY <1>5, <2>1, <2>2
<1>9. ASSUME \E fault \in BOOLEAN : RunError(fault) \/ RunBlocked(fault) PROVE ReportsInv'
    <2>1. lane'.report.verification = Entry(lane.run, NoVerdict) /\ reports' = reports
        BY <1>9, RunErrorStep, RunBlockedStep DEF RunError, RunBlocked
    <2>2. lane.run \in DOMAIN runs
        BY <1>9 DEF RunError, RunBlocked, CycleSound, InRun
    <2> QED BY <1>6, <2>1, <2>2, InconclusiveBacked
<1>10. ASSUME NEW cases \in [Scenarios -> Outcomes], NEW evidence \in BOOLEAN, NEW stuck \in BOOLEAN,
              Judge(cases, evidence, stuck)
       PROVE  ReportsInv'
    <2>1. reports' = reports
        BY <1>10 DEF Judge
    <2> QED BY <1>6, <1>10, <2>1, JudgeStep
<1>11. ASSUME StageReport PROVE ReportsInv'
    <2>1. /\ reports' = [reports EXCEPT ![lane.run] = lane.report] /\ lane.at = "stage"
          /\ reports \in [1 .. MaxRuns -> ReportSet \union {None}]
        BY <1>11 DEF StageReport, TypeOK
    <2>2. lane'.at = "finish"
        BY <1>2, <1>11 DEF StageReport, LaneSet
    <2>3. Backed(runs', lane.report.verification)
        BY <1>3, <2>1 DEF ReportsInv
    <2>4. ASSUME NEW i \in 1 .. MaxRuns, reports'[i] # None
          PROVE  Backed(runs', reports'[i].verification)
        <3>1. reports'[i] = lane.report \/ reports'[i] = reports[i]
            BY <2>1
        <3> QED BY <1>4, <2>3, <2>4, <3>1
    <2> QED BY <2>2, <2>4 DEF ReportsInv
<1>12. ASSUME PushRevision PROVE ReportsInv'
    <2>1. reports' = reports /\ lane' = lane
        BY <1>12 DEF PushRevision
    <2> QED BY <1>3, <1>4, <2>1 DEF ReportsInv
<1> QED BY <1>7, <1>8, <1>9, <1>10, <1>11, <1>12 DEF LaneNext

\* A handler verifies a finding only by an entry of its key that a run backs.
LEMMA CertifiedHandlers ==
    ASSUME ShapeInv, HeldInv, CertifiedByReplay, Handlers, runs' = runs
    PROVE  HeldInv' /\ CertifiedByReplay'
<1>1. TypeOK /\ PollSound /\ CapabilitySound
    BY DEF ShapeInv
<1>2. PICK k \in Keys, e \in EntrySet \union {None} :
              /\ HandlerStep(k, e)
              /\ \/ e = None
                 \/ sup.at = "findings" /\ e = sup.report.verification /\ e.key = k
                 \/ e = stash[k]
    BY <1>1, HandlersStep
<1>3. PICK y : Follows(World(k), y, k \in Capabilities, e) /\ KeyStep(k, y)
    BY <1>2 DEF HandlerStep
<1>4. e # None => e.key = k /\ Backed(runs, e)
    BY <1>2 DEF HeldInv
<1>5. y \in WorldSet
    BY <1>3 DEF Follows
<1>6. /\ finding'[k] = y.f /\ stash'[k] = y.s
      /\ \A j \in Keys : j # k => finding'[j] = finding[j] /\ stash'[j] = stash[j]
    BY <1>1, <1>3, <1>5, KeyStepWorlds
<1>7. World(k).f = finding[k] /\ World(k).s = stash[k]
    BY <1>1, WorldType
<1>8. Certified(runs, k, y.f)
    <2> SUFFICES ASSUME y.f.status = "verified"
                 PROVE  \E sha : Replayed(runs, k, y.f.fix, sha, "passed") /\ Includes(sha, y.f.fix)
        BY DEF Certified
    <2>1. y.f.fix = finding[k].fix /\ (finding[k].status = "verified" \/ Certifies(e, finding[k].fix))
        BY <1>3, <1>7 DEF Follows
    <2>2. CASE finding[k].status = "verified"
        BY <2>1, <2>2, CertifiedMeans DEF Certified
    <2>3. CASE Certifies(e, finding[k].fix)
        BY <1>4, <2>1, <2>3 DEF Certifies, Backed, Conclusive
    <2> QED BY <2>1, <2>2, <2>3
<1>9. CertifiedByReplay'
    <2>1. \A j \in Keys : Certified(runs, j, finding'[j])
        BY <1>6, <1>8, CertifiedMeans
    <2> QED BY <2>1 DEF CertifiedByReplay, Certified, Replayed
<1>10. \A j \in Keys : stash'[j] # None => stash'[j].key = j /\ Backed(runs, stash'[j])
    <2>1. y.s \in {stash[k], e, None}
        BY <1>3, <1>7 DEF Follows
    <2>2. y.s # None => y.s.key = k /\ Backed(runs, y.s)
        BY <1>4, <2>1 DEF HeldInv
    <2> QED BY <1>6, <2>2 DEF HeldInv
<1>11. sup'.at \in {"findings", "close"} => Backed(runs, sup'.report.verification)
    BY <1>2 DEF HandlerStep, PollStep, Start, HeldInv
<1>12. inbox' = inbox
    BY <1>2 DEF HandlerStep
<1> QED BY <1>9, <1>10, <1>11, <1>12 DEF HeldInv

LEMMA CertifiedFindings ==
    ASSUME ShapeInv, HeldInv, CertifiedByReplay, FindingsNext, runs' = runs
    PROVE  HeldInv' /\ CertifiedByReplay'
<1>1. TypeOK /\ PollSound /\ CapabilitySound /\ LinkSound
    BY DEF ShapeInv
<1>2. ASSUME \A k \in Keys : finding'[k] = finding[k] \/ finding'[k].status # "verified"
      PROVE  CertifiedByReplay'
    BY <1>2 DEF CertifiedByReplay
<1>3. ASSUME inbox' \subseteq inbox, stash' = stash,
             sup' = sup \/ sup'.at \notin {"findings", "close"}
      PROVE  HeldInv'
    BY <1>3 DEF HeldInv
<1>4. ASSUME TakeReport PROVE HeldInv' /\ CertifiedByReplay'
    <2>1. finding' = finding /\ stash' = stash /\ inbox' \subseteq inbox
        BY <1>4 DEF TakeReport
    <2>2. First(inbox) \in inbox /\ sup \in SupSet
        BY <1>1, <1>4, TakeReportShape DEF TypeOK
    <2>3. sup' = sup \/ sup'.report = First(inbox)
        BY <1>4, <2>2 DEF TakeReport, SupSet
    <2>4. HeldInv'
        BY <2>1, <2>2, <2>3 DEF HeldInv
    <2> QED BY <1>2, <2>1, <2>4
<1>5. ASSUME SyncCandidates PROVE HeldInv' /\ CertifiedByReplay'
    <2>1. \A k \in Keys : finding'[k] = finding[k] \/ finding'[k].status # "verified"
        BY <1>1, <1>5, SyncShape
    <2>2. inbox' \subseteq inbox /\ stash' = stash
        BY <1>5 DEF SyncCandidates
    <2>3. sup'.at \notin {"findings", "close"}
        BY <1>1, <1>5 DEF SyncCandidates, TypeOK, SupSet
    <2> QED BY <1>2, <1>3, <2>1, <2>2, <2>3
<1>6. ASSUME NEW lost, ReconcileMerged(lost) PROVE HeldInv' /\ CertifiedByReplay'
    <2>1. \A k \in Keys : finding'[k] = finding[k] \/ finding'[k].status # "verified"
        BY <1>1, <1>6, ReconcileShape
    <2>2. inbox' \subseteq inbox /\ stash' = stash
        BY <1>6 DEF ReconcileMerged
    <2>3. sup'.at \notin {"findings", "close"}
        BY <1>1, <1>6 DEF ReconcileMerged, TypeOK, SupSet
    <2> QED BY <1>2, <1>3, <2>1, <2>2, <2>3
<1>7. ASSUME WriteQueue PROVE HeldInv' /\ CertifiedByReplay'
    <2>1. finding' = finding /\ inbox' = inbox /\ stash' = stash /\ sup' = Start
        BY <1>7 DEF WriteQueue
    <2>2. sup'.at \notin {"findings", "close"}
        BY <2>1 DEF Start
    <2> QED BY <1>2, <1>3, <2>1, <2>2
<1>8. ASSUME \/ \E died \in BOOLEAN : CloseReport(died)
             \/ SupervisorCrash
             \/ \E k \in Keys, d \in Dispositions : Decide(k, d)
      PROVE  HeldInv' /\ CertifiedByReplay'
    <2>1. /\ finding' = finding /\ inbox' \subseteq inbox /\ stash' = stash
          /\ sup' = sup \/ sup'.at = "inbox"
        BY <1>1, <1>8, QuietShape
    <2> QED BY <1>2, <1>3, <2>1
<1>9. ASSUME NEW k \in Keys, NEW i \in DOMAIN gh[k], MergeFix(k, i) PROVE HeldInv' /\ CertifiedByReplay'
    <2>1. finding' = finding /\ inbox' = inbox /\ stash' = stash /\ sup' = sup
        BY <1>9 DEF MergeFix
    <2> QED BY <1>2, <1>3, <2>1
<1>10. ASSUME Handlers PROVE HeldInv' /\ CertifiedByReplay'
    BY <1>10, CertifiedHandlers
<1> QED BY <1>4, <1>5, <1>6, <1>7, <1>8, <1>9, <1>10 DEF FindingsNext, Poll, Handlers

LEMMA CertifiedNext ==
    ASSUME ShapeInv, ReportsInv, HeldInv, CertifiedByReplay, [Next]_vars
    PROVE  ReportsInv' /\ HeldInv' /\ CertifiedByReplay'
<1>1. TypeOK /\ CycleSound
    BY DEF ShapeInv
<1>2. CASE FindingsPart
    <2>1. runs' = runs /\ reports' = reports /\ lane' = lane /\ FindingsNext
        BY <1>2 DEF FindingsPart
    <2>2. ReportsInv'
        BY <2>1 DEF ReportsInv
    <2> QED BY <2>1, <2>2, CertifiedFindings
<1>3. CASE LanePart
    <2>1. UNCHANGED <<finding, stash, inbox, sup>> /\ (LaneNext \/ PushRevision)
        BY <1>3 DEF LanePart
    <2>2. /\ \A e : Backed(runs, e) => Backed(runs', e)
          /\ \A k, f : Certified(runs, k, f) => Certified(runs', k, f)
        BY <1>1, <2>1, LaneStep, ReplayedKept
    <2>3. HeldInv'
        BY <2>1, <2>2 DEF HeldInv
    <2>4. \A k \in Keys : Certified(runs', k, finding'[k])
        BY <2>1, <2>2, CertifiedMeans
    <2>5. CertifiedByReplay'
        BY <2>4 DEF CertifiedByReplay, Certified, Replayed
    <2> QED BY <1>1, <2>1, <2>3, <2>5, ReportsLane
<1>4. CASE PullPart
    <2>1. /\ UNCHANGED <<finding, stash, sup, runs, reports, lane>>
          /\ \A r \in inbox' : r \in inbox \/ \E i \in 1 .. MaxRuns : reports[i] # None /\ r = reports[i]
        BY <1>4 DEF PullPart
    <2>2. \A r \in inbox' : Backed(runs, r.verification)
        BY <2>1 DEF HeldInv, ReportsInv
    <2> QED BY <2>1, <2>2 DEF ReportsInv, HeldInv, CertifiedByReplay
<1>5. CASE QueuePart \/ StutterPart
    BY <1>5 DEF QueuePart, StutterPart, ReportsInv, HeldInv, CertifiedByReplay
<1> QED BY <1>2, <1>3, <1>4, <1>5, NextParts

\* However a report is delayed, repeated or parked on its way, and wherever a cycle or
\* a handler dies: a verified finding has a run of its own case that passed on a
\* revision with the fix it was waiting for.
THEOREM VerifiedWasReplayed == Spec => []CertifiedByReplay
<1>1. Init => ReportsInv /\ HeldInv /\ CertifiedByReplay
    BY DEF Init, FindingsInit, LaneInit, Idle, Start, NoFinding, ReportsInv, HeldInv, CertifiedByReplay
<1>2. ShapeInv /\ ReportsInv /\ HeldInv /\ CertifiedByReplay /\ [Next]_vars
        => ReportsInv' /\ HeldInv' /\ CertifiedByReplay'
    BY CertifiedNext
<1> QED BY <1>1, <1>2, ShapeIsKept, PTL DEF Spec

\* A finding stops waiting for its fix only in a handler given a conclusive entry.
LEMMA PendingFindings ==
    ASSUME ShapeInv, HeldInv, FindingsNext, NEW k \in Keys, NEW fix \in Revisions,
           Awaits(k, fix), ~Awaits(k, fix)'
    PROVE  \E e \in EntrySet : /\ e.key = k /\ Concludes(e, fix) /\ Backed(runs, e)
<1>1. TypeOK /\ PollSound /\ CapabilitySound /\ LinkSound
    BY DEF ShapeInv
<1>2. finding[k].status = "fix-merged" /\ finding[k].fix = fix /\ finding'[k] # finding[k]
    BY DEF Awaits
<1>3. ~(TakeReport \/ WriteQueue)
    BY <1>2 DEF TakeReport, WriteQueue
<1>4. ~SyncCandidates
    BY <1>1, <1>2, SyncShape
<1>5. ASSUME NEW lost, ReconcileMerged(lost) PROVE FALSE
    BY <1>2, <1>5 DEF ReconcileMerged
<1>6. ~(\/ \E died \in BOOLEAN : CloseReport(died)
        \/ SupervisorCrash
        \/ \E j \in Keys, d \in Dispositions : Decide(j, d))
    BY <1>1, <1>2, QuietShape
<1>7. ASSUME NEW j \in Keys, NEW i \in DOMAIN gh[j], MergeFix(j, i) PROVE FALSE
    BY <1>2, <1>7 DEF MergeFix
<1>8. Handlers
    BY <1>3, <1>4, <1>5, <1>6, <1>7 DEF FindingsNext, Poll, Handlers
<1>9. PICK j \in Keys, e \in EntrySet \union {None} :
              /\ HandlerStep(j, e)
              /\ \/ e = None
                 \/ sup.at = "findings" /\ e = sup.report.verification /\ e.key = j
                 \/ e = stash[j]
    BY <1>1, <1>8, HandlersStep
<1>10. PICK y : Follows(World(j), y, j \in Capabilities, e) /\ KeyStep(j, y)
    BY <1>9 DEF HandlerStep
<1>11. y \in WorldSet
    BY <1>10 DEF Follows
<1>12. /\ finding'[j] = y.f
       /\ \A l \in Keys : l # j => finding'[l] = finding[l]
    BY <1>1, <1>10, <1>11, KeyStepWorlds
<1>13. k = j /\ World(k).f = finding[k] /\ finding'[k] = y.f
    BY <1>1, <1>2, <1>12, WorldType
<1>14. y.f.status # "fix-merged"
    BY <1>2, <1>10, <1>13 DEF Follows, Awaits
<1>15. Concludes(e, fix)
    BY <1>2, <1>10, <1>13, <1>14 DEF Follows
<1>16. e # None /\ e.key = k /\ Backed(runs, e)
    BY <1>9, <1>13, <1>15 DEF HeldInv, Concludes
<1> QED BY <1>9, <1>15, <1>16

\* Anything less stays pending: however entries are delayed, repeated, parked or
\* without evidence, a finding stops waiting for its fix only by what a run of its own
\* case has shown, with evidence, on a revision with the fix.
THEOREM OnlyVerdictsSettle == Spec => LessStaysPending
<1>1. Init => ReportsInv /\ HeldInv /\ CertifiedByReplay
    BY DEF Init, FindingsInit, LaneInit, Idle, Start, NoFinding, ReportsInv, HeldInv, CertifiedByReplay
<1>2. ShapeInv /\ ReportsInv /\ HeldInv /\ CertifiedByReplay /\ [Next]_vars
        => ReportsInv' /\ HeldInv' /\ CertifiedByReplay'
    BY CertifiedNext
<1>3. ShapeInv /\ HeldInv /\ [Next]_vars => [PendingStep]_vars
    <2> SUFFICES ASSUME ShapeInv, HeldInv, [Next]_vars, NEW k \in Keys, NEW fix \in Revisions,
                        Awaits(k, fix), ~Awaits(k, fix)'
                 PROVE  \E i \in DOMAIN runs :
                            /\ runs[i].kind = "qav" /\ runs[i].item = [key |-> k, fix |-> fix]
                            /\ runs[i].verdict \in {Proof("passed", TRUE), Proof("failed", TRUE)}
                            /\ Includes(runs[i].sha, fix)
        BY DEF PendingStep
    <2>1. CASE FindingsPart
        <3>1. PICK e \in EntrySet : e.key = k /\ Concludes(e, fix) /\ Backed(runs, e)
            BY <2>1, PendingFindings DEF FindingsPart
        <3>2. e.outcome \in Conclusive /\ Replayed(runs, k, fix, e.tested, e.outcome) /\ Includes(e.tested, fix)
            BY <3>1 DEF Concludes, Backed
        <3> QED BY <3>2 DEF Replayed, Conclusive
    <2>2. CASE LanePart \/ PullPart \/ QueuePart \/ StutterPart
        BY <2>2 DEF LanePart, PullPart, QueuePart, StutterPart, Awaits
    <2> QED BY <2>1, <2>2, NextParts
<1> QED BY <1>1, <1>2, <1>3, ShapeIsKept, PTL DEF Spec, LessStaysPending

-------------------------------------------------------------------------------
(* Evidence: the fixes and the queue.                                        *)

LEMMA FixNext ==
    ASSUME ShapeInv, FixInv, [Next]_vars
    PROVE  FixInv'
<1>1. TypeOK /\ PollSound /\ CapabilitySound /\ LinkSound /\ main \in Nat
    BY DEF ShapeInv, TypeOK
<1>2. ASSUME gh' = gh, main' = main,
             \A k \in Keys : finding'[k] = finding[k] \/ finding'[k].status # "fix-merged"
      PROVE  FixInv'
    BY <1>2 DEF FixInv
<1>3. CASE Handlers
    <2>1. PICK k \in Keys, e \in EntrySet \union {None} : HandlerStep(k, e)
        BY <1>1, <1>3, HandlersStep
    <2>2. PICK y : Follows(World(k), y, k \in Capabilities, e) /\ KeyStep(k, y)
        BY <2>1 DEF HandlerStep
    <2>3. y \in WorldSet /\ Grown(gh[k], y.g) /\ gh[k] \in Seq(IssueSet) /\ main' = main
        BY <1>1, <2>1, <2>2, WorldType DEF Follows, TypeOK, HandlerStep
    <2>4. /\ finding'[k] = y.f /\ gh'[k] = y.g
          /\ \A j \in Keys : j # k => finding'[j] = finding[j] /\ gh'[j] = gh[j]
        BY <1>1, <2>2, <2>3, KeyStepWorlds
    <2>5. /\ \A i \in DOMAIN gh[k] : y.g[i] = gh[k][i]
          /\ \A i \in DOMAIN y.g : i \in DOMAIN gh[k] \/ y.g[i].fix = 0
        BY <2>3, GrownKeeps
    <2>6. y.f.status = "fix-merged" =>
              finding[k].status = "fix-merged" /\ y.f.issue = finding[k].issue /\ y.f.fix = finding[k].fix
        BY <1>1, <2>2, WorldType DEF Follows
    <2>7. finding[k].issue # 0 => finding[k].issue \in DOMAIN gh[k]
        BY <1>1, WorldType DEF LinkSound, LinkedWorld
    <2>8. /\ y.f.status = "fix-merged" =>
               y.f.issue # 0 /\ y.f.fix # 0 /\ y.g[y.f.issue].fix = y.f.fix
          /\ \A i \in DOMAIN y.g : y.g[i].fix <= main
          /\ \A i, j \in DOMAIN y.g : y.g[i].fix = y.g[j].fix /\ y.g[i].fix # 0 => i = j
        BY <1>1, <2>5, <2>6, <2>7 DEF FixInv
    <2> QED BY <2>3, <2>4, <2>8 DEF FixInv
<1>4. ASSUME NEW k \in Keys, NEW i \in DOMAIN gh[k], MergeFix(k, i) PROVE FixInv'
    <2>1. /\ main' = main + 1 /\ gh[k][i].fix = 0 /\ finding' = finding
          /\ \A j \in Keys : /\ DOMAIN gh'[j] = DOMAIN gh[j]
                             /\ \A m \in DOMAIN gh[j] : \/ gh'[j][m] = gh[j][m]
                                                        \/ j = k /\ m = i /\ gh'[j][m].fix = main + 1
        BY <1>1, <1>4, MergeFixShape
    <2>2. ASSUME NEW j \in Keys, NEW m \in DOMAIN gh[j] PROVE gh[j][m].fix \in Nat
        <3>1. gh[j] \in Seq(IssueSet)
            BY <1>1 DEF TypeOK
        <3>2. gh[j][m] \in IssueSet
            BY <3>1
        <3> QED BY <3>2 DEF IssueSet
    <2>3. ASSUME NEW j \in Keys, NEW m \in DOMAIN gh'[j] PROVE gh'[j][m].fix <= main'
        BY <1>1, <2>1, <2>2 DEF FixInv
    <2>4. ASSUME NEW j \in Keys, NEW m \in DOMAIN gh'[j], NEW n \in DOMAIN gh'[j],
                 gh'[j][m].fix = gh'[j][n].fix, gh'[j][m].fix # 0
          PROVE  m = n
        <3>1. \A l \in DOMAIN gh[j] : gh[j][l].fix # main + 1
            BY <1>1, <2>2 DEF FixInv
        <3>2. CASE gh'[j][m].fix = main + 1
            <4>1. m \in DOMAIN gh[j] /\ gh'[j][m] # gh[j][m]
                BY <2>1, <3>1, <3>2
            <4>2. n \in DOMAIN gh[j] /\ gh'[j][n] # gh[j][n]
                BY <2>1, <2>4, <3>1, <3>2
            <4> QED BY <2>1, <4>1, <4>2
        <3>3. CASE gh'[j][m].fix # main + 1
            BY <2>1, <2>4, <3>3 DEF FixInv
        <3> QED BY <3>2, <3>3
    <2>5. ASSUME NEW j \in Keys, finding[j].status = "fix-merged"
          PROVE  gh'[j][finding[j].issue].fix = finding[j].fix
        <3>1. finding[j].issue \in DOMAIN gh[j] /\ gh[j][finding[j].issue].fix = finding[j].fix
            BY <1>1, <2>5, WorldType DEF FixInv, LinkSound, LinkedWorld
        <3>2. gh[j][finding[j].issue].fix # 0
            BY <2>5, <3>1 DEF FixInv
        <3> QED BY <2>1, <3>1, <3>2
    <2> QED BY <2>1, <2>3, <2>4, <2>5 DEF FixInv
<1>5. ASSUME NEW lost, ReconcileMerged(lost) PROVE FixInv'
    <2>1. gh' = gh /\ main' = main
        BY <1>5 DEF ReconcileMerged
    <2>2. \A k \in Keys :
                 \/ finding'[k] = finding[k]
                 \/ /\ finding'[k].issue # 0 /\ gh[k][finding'[k].issue].fix # 0
                    /\ finding'[k].fix = gh[k][finding'[k].issue].fix
        BY <1>1, <1>5, ReconcileShape
    <2> QED BY <2>1, <2>2 DEF FixInv
<1>6. ASSUME SyncCandidates PROVE FixInv'
    <2>1. gh' = gh /\ main' = main
        BY <1>6 DEF SyncCandidates
    <2>2. \A k \in Keys : finding'[k] = finding[k] \/ finding'[k].status # "fix-merged"
        BY <1>1, <1>6, SyncShape
    <2> QED BY <1>2, <2>1, <2>2
<1>7. ASSUME UNCHANGED <<finding, gh, main>> PROVE FixInv'
    BY <1>2, <1>7
<1>8. CASE FindingsPart
    BY <1>3, <1>4, <1>5, <1>6, <1>7, <1>8
       DEF FindingsPart, FindingsNext, Poll, Handlers, TakeReport, WriteQueue, CloseReport,
           SupervisorCrash, Decide
<1>9. CASE LanePart \/ PullPart \/ QueuePart \/ StutterPart
    BY <1>7, <1>9 DEF LanePart, PullPart, QueuePart, StutterPart
<1> QED BY <1>8, <1>9, NextParts

\* A step that leaves the queue alone: what was spent stays spent, and a finding
\* that comes to wait for a fix did not wait for it before.
LEMMA SeenKept ==
    ASSUME TypeOK, SeenSpent, SeenOff, queue' = queue, \A a \in ItemSet : Seen(a)' => Seen(a),
           \A k \in Keys : \A fix \in Nat : fix # 0 /\ Spent(World(k), fix) =>
              /\ Spent([f |-> finding'[k], g |-> gh'[k]], fix)
              /\ finding'[k].status = "fix-merged" /\ finding'[k].fix = fix =>
                    finding[k].status = "fix-merged" /\ finding[k].fix = fix
    PROVE  SeenSpent' /\ SeenOff'
<1>1. ASSUME NEW a \in ItemSet, Seen(a)'
      PROVE  /\ a.fix # 0 /\ Spent([f |-> finding'[a.key], g |-> gh'[a.key]], a.fix)
             /\ a \notin queue => ~(finding'[a.key].status = "fix-merged" /\ finding'[a.key].fix = a.fix)
    <2>1. a.key \in Keys /\ a.fix \in Nat
        BY DEF ItemSet, Keys
    <2>2. Seen(a)
        BY <1>1
    <2>3. a.fix # 0 /\ Spent(World(a.key), a.fix)
        BY <2>2 DEF SeenSpent
    <2>4. a \notin queue => ~(finding[a.key].status = "fix-merged" /\ finding[a.key].fix = a.fix)
        BY <2>2 DEF SeenOff, Current
    <2> QED BY <2>1, <2>3, <2>4
<1>2. SeenSpent'
    BY <1>1 DEF SeenSpent, Spent, World
<1>3. SeenOff'
    BY <1>1 DEF SeenOff, Current
<1> QED BY <1>2, <1>3

\* A step that changes neither a finding, an issue nor the queue.
LEMMA QueueStays ==
    ASSUME TypeOK, QueueInv, UNCHANGED <<finding, gh, queue>>, \A a \in ItemSet : Seen(a)' => Seen(a)
    PROVE  SeenSpent' /\ SeenOff'
<1>1. \A k \in Keys : \A fix \in Nat : Spent(World(k), fix) => Spent([f |-> finding'[k], g |-> gh'[k]], fix)
    BY DEF Spent, World
<1> QED BY <1>1, SeenKept DEF QueueInv

LEMMA QueueFindings ==
    ASSUME ShapeInv, FixInv, QueueInv, FindingsNext, runs' = runs, items' = items
    PROVE  QueueInv'
<1>1. TypeOK /\ PollSound /\ CapabilitySound /\ LinkSound /\ CycleSound
    BY DEF ShapeInv
<1>2. ASSUME queue' = queue, SeenSpent' /\ SeenOff' PROVE QueueInv'
    BY <1>2 DEF QueueInv, QueuedKnown
<1>3. queue' = queue => \A a \in ItemSet : Seen(a)' => Seen(a)
    BY DEF Seen
<1>4. ASSUME UNCHANGED <<finding, gh, queue>> PROVE QueueInv'
    BY <1>1, <1>2, <1>3, <1>4, QueueStays
<1>5. ASSUME Handlers PROVE QueueInv'
    <2>1. PICK k \in Keys, e \in EntrySet \union {None} : HandlerStep(k, e)
        BY <1>1, <1>5, HandlersStep
    <2>2. PICK y : Follows(World(k), y, k \in Capabilities, e) /\ KeyStep(k, y)
        BY <2>1 DEF HandlerStep
    <2>3. y \in WorldSet /\ queue' = queue
        BY <2>1, <2>2 DEF Follows, HandlerStep
    <2>4. /\ finding'[k] = y.f /\ gh'[k] = y.g
          /\ \A j \in Keys : j # k => finding'[j] = finding[j] /\ gh'[j] = gh[j]
        BY <1>1, <2>2, <2>3, KeyStepWorlds
    <2>5. ASSUME NEW j \in Keys, NEW fix \in Nat, fix # 0, Spent(World(j), fix)
          PROVE  /\ Spent([f |-> finding'[j], g |-> gh'[j]], fix)
                 /\ finding'[j].status = "fix-merged" /\ finding'[j].fix = fix =>
                       finding[j].status = "fix-merged" /\ finding[j].fix = fix
        <3>1. CASE j # k
            <4>1. finding'[j] = finding[j] /\ gh'[j] = gh[j]
                BY <2>4, <3>1
            <4>2. Spent([f |-> finding[j], g |-> gh[j]], fix)
                BY <2>5 DEF Spent, World
            <4> QED BY <4>1, <4>2
        <3>2. CASE j = k
            <4>1. Spent(y, fix) /\ (y.f.status = "fix-merged" =>
                      finding[k].status = "fix-merged" /\ y.f.fix = finding[k].fix)
                BY <1>1, <2>2, <2>5, <3>2, WorldType DEF Follows
            <4>2. Spent([f |-> y.f, g |-> y.g], fix)
                BY <4>1 DEF Spent
            <4> QED BY <2>4, <3>2, <4>1, <4>2
        <3> QED BY <3>1, <3>2
    <2> QED BY <1>1, <1>2, <1>3, <2>3, <2>5, SeenKept DEF QueueInv
<1>6. ASSUME SyncCandidates PROVE QueueInv'
    <2>1. gh' = gh /\ queue' = queue
        BY <1>6 DEF SyncCandidates
    <2>2. \A k \in Keys : finding'[k] = finding[k] \/ finding[k].status = "candidate"
        BY <1>1, <1>6, SyncShape
    <2>3. ASSUME NEW j \in Keys, NEW fix \in Nat, fix # 0, Spent(World(j), fix)
          PROVE  /\ Spent([f |-> finding'[j], g |-> gh'[j]], fix) /\ finding'[j] = finding[j]
        <3>1. finding[j].status # "candidate"
            BY <2>3 DEF Spent, Settled, World
        <3>2. finding'[j] = finding[j] /\ gh'[j] = gh[j]
            BY <2>1, <2>2, <3>1
        <3>3. Spent([f |-> finding[j], g |-> gh[j]], fix)
            BY <2>3 DEF Spent, World
        <3> QED BY <3>2, <3>3
    <2> QED BY <1>1, <1>2, <1>3, <2>1, <2>3, SeenKept DEF QueueInv
<1>7. ASSUME NEW lost, ReconcileMerged(lost) PROVE QueueInv'
    <2>1. gh' = gh /\ queue' = queue
        BY <1>7 DEF ReconcileMerged
    <2>2. \A k \in Keys :
                 \/ finding'[k] = finding[k]
                 \/ /\ finding[k].status \in {"issue-open", "redispatched"}
                    /\ finding[k].issue # 0 /\ finding'[k].cycles = finding[k].cycles
                    /\ finding'[k].status = "fix-merged" /\ finding'[k].fix = gh[k][finding[k].issue].fix
        BY <1>1, <1>7, ReconcileShape
    <2>3. ASSUME NEW k \in Keys, NEW fix \in Nat, fix # 0, Spent(World(k), fix)
          PROVE  /\ Spent([f |-> finding'[k], g |-> gh'[k]], fix)
                 /\ finding'[k].status = "fix-merged" /\ finding'[k].fix = fix =>
                       finding[k].status = "fix-merged" /\ finding[k].fix = fix
        <3>1. /\ finding[k].status \in Settled \union {"redispatched"}
              /\ \E j \in DOMAIN gh[k] :
                    /\ gh[k][j].fix = fix /\ gh[k][j].n <= finding[k].cycles
                    /\ gh[k][j].n = finding[k].cycles => finding[k].status \in Settled /\ finding[k].fix = fix
            BY <2>3 DEF Spent, World
        <3>2. CASE finding'[k] = finding[k]
            BY <2>1, <3>1, <3>2 DEF Spent
        <3>3. CASE finding'[k] # finding[k]
            <4>1. /\ finding[k].status = "redispatched" /\ finding[k].status \notin Settled
                  /\ finding[k].issue # 0 /\ finding'[k].cycles = finding[k].cycles
                  /\ finding'[k].status = "fix-merged" /\ finding'[k].fix = gh[k][finding[k].issue].fix
                BY <2>2, <3>1, <3>3 DEF Settled
            <4>2. PICK j \in DOMAIN gh[k] : /\ gh[k][j].fix = fix /\ gh[k][j].n <= finding[k].cycles
                                            /\ gh[k][j].n # finding[k].cycles
                BY <3>1, <4>1
            <4>3. Spent([f |-> finding'[k], g |-> gh'[k]], fix)
                BY <2>1, <4>1, <4>2 DEF Spent, Settled
            <4>4. finding[k].issue \in DOMAIN gh[k] /\ gh[k][finding[k].issue].n = finding[k].cycles
                BY <1>1, <4>1, WorldType DEF LinkSound, LinkedWorld
            <4>5. finding'[k].fix # fix
                BY <2>3, <4>1, <4>2, <4>4 DEF FixInv
            <4> QED BY <4>3, <4>5
        <3> QED BY <3>2, <3>3
    <2> QED BY <1>1, <1>2, <1>3, <2>1, <2>3, SeenKept DEF QueueInv
<1>8. ASSUME NEW k \in Keys, NEW i \in DOMAIN gh[k], MergeFix(k, i) PROVE QueueInv'
    <2>1. /\ gh[k][i].fix = 0 /\ finding' = finding /\ queue' = queue
          /\ \A j \in Keys : /\ DOMAIN gh'[j] = DOMAIN gh[j]
                             /\ \A m \in DOMAIN gh[j] : gh'[j][m] = gh[j][m] \/ (j = k /\ m = i)
        BY <1>1, <1>8, MergeFixShape
    <2>2. ASSUME NEW j \in Keys, NEW fix \in Nat, fix # 0, Spent(World(j), fix)
          PROVE  Spent([f |-> finding'[j], g |-> gh'[j]], fix)
        <3>1. /\ finding[j].status \in Settled \union {"redispatched"}
              /\ \E m \in DOMAIN gh[j] :
                    /\ gh[j][m].fix = fix /\ gh[j][m].n <= finding[j].cycles
                    /\ gh[j][m].n = finding[j].cycles => finding[j].status \in Settled /\ finding[j].fix = fix
            BY <2>2 DEF Spent, World
        <3>2. \A m \in DOMAIN gh[j] : gh[j][m].fix = fix => m \in DOMAIN gh'[j] /\ gh'[j][m] = gh[j][m]
            BY <2>1, <2>2
        <3> QED BY <2>1, <3>1, <3>2 DEF Spent
    <2> QED BY <1>1, <1>2, <1>3, <2>1, <2>2, SeenKept DEF QueueInv
<1>9. ASSUME WriteQueue PROVE QueueInv'
    <2>1. /\ UNCHANGED <<finding, gh>>
          /\ \A a \in ItemSet : a \in queue' <=> Current(a) /\ a.fix # 0
        BY <1>1, <1>9, WriteQueueShape
    <2>2. ASSUME NEW a \in ItemSet, Seen(a)'
          PROVE  a.fix # 0 /\ Spent(World(a.key), a.fix)
        <3>1. Seen(a) \/ a \in queue'
            BY <2>2 DEF Seen
        <3>2. CASE Seen(a)
            BY <3>2 DEF QueueInv, SeenSpent
        <3>3. CASE a \in queue'
            <4>1. Current(a) /\ a.fix # 0 /\ a.key \in Keys
                BY <2>1, <3>3 DEF ItemSet, Keys
            <4>2. /\ finding[a.key].issue # 0 /\ gh[a.key][finding[a.key].issue].fix = a.fix
                  /\ finding[a.key].status = "fix-merged" /\ finding[a.key].fix = a.fix
                BY <4>1 DEF FixInv, Current
            <4>3. /\ finding[a.key].issue \in DOMAIN gh[a.key]
                  /\ gh[a.key][finding[a.key].issue].n = finding[a.key].cycles
                BY <1>1, <4>1, <4>2, WorldType DEF LinkSound, LinkedWorld
            <4>4. finding[a.key].cycles <= finding[a.key].cycles
                <5>1. finding[a.key].cycles \in Nat
                    BY <1>1, <4>1 DEF TypeOK, FindingSet
                <5> QED BY <5>1
            <4> QED BY <4>1, <4>2, <4>3, <4>4 DEF Spent, World, Settled
        <3> QED BY <3>1, <3>2, <3>3
    <2>3. SeenSpent'
        BY <2>1, <2>2 DEF SeenSpent, Spent, World
    <2>4. SeenOff'
        <3> SUFFICES ASSUME NEW a \in ItemSet, Seen(a)', a \notin queue' PROVE ~Current(a)
            BY <2>1 DEF SeenOff, Current
        <3> QED BY <2>1, <2>2
    <2>5. QueuedKnown'
        <3> SUFFICES ASSUME NEW i \in DOMAIN runs, runs[i].kind = "qav", runs[i].item \notin items
                     PROVE  runs[i].item \notin queue'
            BY DEF QueuedKnown
        <3>1. runs[i].item \in ItemSet /\ Seen(runs[i].item) /\ runs[i].item \notin queue
            BY <1>1 DEF CycleSound, Seen, QueueInv, QueuedKnown
        <3>2. ~Current(runs[i].item)
            BY <3>1 DEF QueueInv, SeenOff
        <3> QED BY <2>1, <3>1, <3>2
    <2> QED BY <2>3, <2>4, <2>5 DEF QueueInv
<1> QED BY <1>4, <1>5, <1>6, <1>7, <1>8, <1>9
        DEF FindingsNext, Poll, Handlers, TakeReport, CloseReport, SupervisorCrash, Decide

\* A new run is of an item the lane sees, which the queue has had.
LEMMA QueueNext ==
    ASSUME ShapeInv, FixInv, QueueInv, [Next]_vars
    PROVE  QueueInv'
<1>1. TypeOK /\ CycleSound
    BY DEF ShapeInv
<1>2. CASE FindingsPart
    BY <1>2, QueueFindings DEF FindingsPart
<1>3. CASE LanePart
    <2>1. RunsStep /\ items' = items /\ UNCHANGED <<finding, gh, queue>>
        BY <1>1, <1>3, LaneStep DEF LanePart
    <2>2. \A i \in DOMAIN runs' : runs'[i].kind = "qav" =>
             \/ i \in DOMAIN runs /\ runs[i].kind = "qav" /\ runs'[i].item = runs[i].item
             \/ runs'[i].item \in items
        BY <2>1 DEF RunsStep
    <2>3. \A a \in ItemSet : Seen(a)' => Seen(a)
        BY <2>1, <2>2 DEF Seen
    <2>4. QueuedKnown'
        BY <2>1, <2>2 DEF QueueInv, QueuedKnown
    <2> QED BY <1>1, <2>1, <2>3, <2>4, QueueStays DEF QueueInv
<1>4. CASE PullPart \/ StutterPart
    BY <1>4 DEF PullPart, StutterPart, QueueInv, SeenSpent, SeenOff, QueuedKnown, Seen, Spent, World, Current
<1>5. CASE QueuePart
    <2>1. items' = queue /\ UNCHANGED <<finding, gh, queue, runs>>
        BY <1>5 DEF QueuePart
    <2>2. \A a \in ItemSet : Seen(a)' => Seen(a)
        BY <2>1 DEF Seen
    <2>3. QueuedKnown'
        BY <2>1 DEF QueuedKnown
    <2> QED BY <1>1, <2>1, <2>2, <2>3, QueueStays DEF QueueInv
<1> QED BY <1>2, <1>3, <1>4, <1>5, NextParts

-------------------------------------------------------------------------------
(* Evidence: the storage of the lane.                                        *)

\* sync_preserves leaves every pin it wants, and none of another's is taken away.
LEMMA RepinKeeps ==
    ASSUME NEW set, NEW had, NEW want, had \subseteq set
    PROVE  want \subseteq Repin(set, had, want)
BY DEF Repin

LEMMA PinsLane ==
    ASSUME TypeOK, CycleSound, PinsInv, LaneNext \/ PushRevision, items' = items
    PROVE  PinsInv'
<1>1. lane \in LaneSet
    BY DEF TypeOK
<1>2. ASSUME pins' = pins, own' = own, lane'.at # "reclaim" PROVE PinsInv'
    BY <1>2 DEF PinsInv
<1>3. ASSUME NEW left, NEW died \in BOOLEAN, CycleStart(left, died) PROVE PinsInv'
    <2>1. CASE died
        <3>1. pins' = pins /\ own' = own /\ lane' = lane /\ lane.at = "idle"
            BY <1>3, <2>1 DEF CycleStart
        <3> QED BY <1>2, <3>1
    <2>2. CASE ~died
        <3> DEFINE want == Wanted(runs')
        <3>1. /\ pins' = [runs |-> Repin(pins.runs, own.runs, want.runs),
                          shas |-> Repin(pins.shas, own.shas, want.shas)]
              /\ own' = want
            BY <1>3, <2>2 DEF CycleStart
        <3>2. \A i \in DOMAIN runs' : runs'[i].kind = "qav" /\ runs'[i].item \in items =>
                  i \in want.runs /\ runs'[i].sha \in want.shas
            BY DEF Wanted
        <3> HIDE DEF want
        <3>3. want.runs \subseteq pins'.runs /\ want.shas \subseteq pins'.shas
            BY <3>1, RepinKeeps DEF PinsInv
        <3> QED BY <3>1, <3>2, <3>3 DEF PinsInv
    <2> QED BY <2>1, <2>2
<1>4. ASSUME \/ Reclaim \/ CycleBlocked \/ StartRig \/ StageReport \/ FinishRun \/ LaneCrash
             \/ \E fault \in BOOLEAN : RunBlocked(fault) \/ EndRun(fault) \/ RunError(fault)
             \/ \E egress \in BOOLEAN : DispatchAssessment(egress)
                                        \/ \E item \in items : DispatchVerification(item, egress)
             \/ \E cases \in [Scenarios -> Outcomes], evidence, stuck \in BOOLEAN :
                   Judge(cases, evidence, stuck)
      PROVE  PinsInv'
    <2>1. pins' = pins /\ own' = own
        BY <1>4 DEF Reclaim, CycleBlocked, StartRig, RunError, StageReport, FinishRun, LaneCrash, RunBlocked,
                    EndRun, DispatchAssessment, DispatchVerification, Judge
    <2>2. lane'.at # "reclaim"
        BY <1>1, <1>4, IdleType DEF Reclaim, CycleBlocked, StartRig, RunError, StageReport, FinishRun, LaneCrash,
                    RunBlocked, EndRun, DispatchAssessment, DispatchVerification, Judge, Write, LaneSet
    <2> QED BY <1>2, <2>1, <2>2
<1>5. ASSUME PushRevision PROVE PinsInv'
    <2>1. pins' = pins /\ own' = own /\ lane' = lane /\ runs' = Enqueue(runs, main, 1)
        BY <1>5 DEF PushRevision
    <2>2. Requeued(runs, runs')
        BY <2>1, EnqueueRequeues DEF TypeOK
    <2>3. \A i \in DOMAIN runs' : runs'[i].kind = "qav" =>
             i \in DOMAIN runs /\ runs[i].kind = "qav" /\ runs'[i].item = runs[i].item /\ runs'[i].sha = runs[i].sha
        <3>1. RunsStep
            BY <2>2, RequeuedStep
        <3> QED BY <2>2, <3>1 DEF Requeued, RunsStep
    <2> QED BY <2>1, <2>3 DEF PinsInv
<1> QED BY <1>3, <1>4, <1>5 DEF LaneNext

\* reclaim spares the pins; nothing else takes a directory or a source away.
LEMMA StorageLane ==
    ASSUME TypeOK, CycleSound, PinsInv, LaneNext \/ PushRevision
    PROVE  \A i \in DOMAIN runs : runs[i].kind = "qav" /\ runs[i].item \in items =>
              /\ i \in dirs => i \in dirs'
              /\ runs[i].sha \in staged => runs[i].sha \in staged'
<1>1. CASE Reclaim
    <2>1. dirs' = dirs \intersect KeptRuns /\ staged' = staged \intersect KeptShas /\ lane.at = "reclaim"
        BY <1>1 DEF Reclaim
    <2>2. pins.runs \subseteq KeptRuns /\ pins.shas \subseteq KeptShas
        BY DEF KeptRuns, KeptShas
    <2> QED BY <2>1, <2>2 DEF PinsInv
<1>2. CASE ~Reclaim
    <2>1. dirs \subseteq dirs' /\ staged \subseteq staged'
        BY <1>2 DEF LaneNext, PushRevision, CycleStart, CycleBlocked, DispatchAssessment, DispatchVerification,
                    RunBlocked, EndRun, StartRig, RunError, StageReport, FinishRun, LaneCrash, Judge
    <2> QED BY <2>1
<1> QED BY <1>1, <1>2

\* A revision a new verification runs on stays staged in that step.
LEMMA NewRunStored ==
    ASSUME TypeOK, CycleSound, LaneNext \/ PushRevision, NEW i \in DOMAIN runs' \ DOMAIN runs,
           runs'[i].kind = "qav", runs'[i].status # "queued"
    PROVE  i \in dirs' /\ runs'[i].sha \in staged'
<1>1. i \in dirs' /\ runs'[i].sha \in staged
    BY LaneStep DEF RunsStep
<1>2. ~Reclaim
    <2> SUFFICES ASSUME Reclaim PROVE FALSE
        OBVIOUS
    <2>1. Requeued(runs, runs')
        BY MaybeRetryRequeues DEF Reclaim
    <2> QED BY <2>1 DEF Requeued
<1>3. staged \subseteq staged'
    BY <1>2 DEF LaneNext, PushRevision, CycleStart, CycleBlocked, DispatchAssessment, DispatchVerification,
                RunBlocked, EndRun, StartRig, RunError, StageReport, FinishRun, LaneCrash, Judge
<1> QED BY <1>1, <1>3

LEMMA EvidenceNext ==
    ASSUME ShapeInv, QueueInv, PinsInv, PendingEvidenceKept, [Next]_vars
    PROVE  PinsInv' /\ PendingEvidenceKept'
<1>1. TypeOK /\ CycleSound
    BY DEF ShapeInv
<1>2. CASE LanePart
    <2>1. RunsStep /\ items' = items /\ (LaneNext \/ PushRevision)
        BY <1>1, <1>2, LaneStep DEF LanePart
    <2>2. PinsInv'
        BY <1>1, <2>1, PinsLane
    <2>3. ASSUME NEW i \in DOMAIN runs', runs'[i].kind = "qav", runs'[i].status # "queued",
                 runs'[i].item \in items
          PROVE  i \in dirs' /\ runs'[i].sha \in staged'
        <3>1. CASE i \in DOMAIN runs
            <4>1. /\ runs[i].kind = "qav" /\ runs[i].status # "queued" /\ runs[i].item \in items
                  /\ runs'[i].sha = runs[i].sha
                BY <2>1, <2>3, <3>1 DEF RunsStep
            <4>2. i \in dirs /\ runs[i].sha \in staged
                BY <3>1, <4>1 DEF PendingEvidenceKept
            <4> QED BY <1>1, <2>1, <3>1, <4>1, <4>2, StorageLane
        <3>2. CASE i \notin DOMAIN runs
            BY <1>1, <2>1, <2>3, <3>2, NewRunStored
        <3> QED BY <3>1, <3>2
    <2> QED BY <2>1, <2>2, <2>3 DEF PendingEvidenceKept
<1>3. CASE QueuePart
    <2>1. items' = queue /\ UNCHANGED <<runs, staged, dirs, pins, own, lane>>
        BY <1>3 DEF QueuePart
    <2>2. \A i \in DOMAIN runs : runs[i].kind = "qav" /\ runs[i].item \in items' => runs[i].item \in items
        BY <2>1 DEF QueueInv, QueuedKnown
    <2> QED BY <2>1, <2>2 DEF PinsInv, PendingEvidenceKept
<1>4. CASE FindingsPart \/ PullPart \/ StutterPart
    BY <1>4 DEF FindingsPart, PullPart, StutterPart, PinsInv, PendingEvidenceKept
<1> QED BY <1>2, <1>3, <1>4, NextParts

\* The queue never brings back an item it has dropped, and an item is never pushed
\* after its evidence lost its pin: what the next cycle reclaims is no evidence of a
\* verification the lane still sees pending, whenever the relay pushes the queue.
THEOREM EvidenceIsKept == Spec => []PendingEvidenceKept
<1> DEFINE Inv == FixInv /\ QueueInv /\ PinsInv /\ PendingEvidenceKept
<1>1. Init => Inv
    <2> SUFFICES ASSUME Init PROVE Inv
        OBVIOUS
    <2>1. FixInv
        BY DEF Init, FindingsInit, NoFinding, FixInv
    <2>2. DOMAIN runs = {} /\ \A a : ~Seen(a)
        BY DEF Init, FindingsInit, LaneInit, Seen
    <2>3. QueueInv
        BY <2>2 DEF QueueInv, SeenSpent, SeenOff, QueuedKnown
    <2>4. PinsInv /\ PendingEvidenceKept
        BY <2>2 DEF Init, LaneInit, Idle, NoPins, PinsInv, PendingEvidenceKept
    <2> QED BY <2>1, <2>3, <2>4
<1>2. ShapeInv /\ Inv /\ [Next]_vars => Inv'
    BY FixNext, QueueNext, EvidenceNext
<1>3. Inv => PendingEvidenceKept
    OBVIOUS
<1> HIDE DEF Inv
<1> QED BY <1>1, <1>2, <1>3, ShapeIsKept, PTL DEF Spec
================================================================================
