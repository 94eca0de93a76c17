---------------------------- MODULE AgentPoolProofs ----------------------------
(***************************************************************************)
(* Proofs about the agent pool's supervisor: its workers, checkouts, leases *)
(* and agents, for any issues, workers and bounds.                           *)
(*                                                                          *)
(* A handler is the sequence of the worlds its commits produce, and the     *)
(* supervisor may die after any of them.  The argument has one predicate    *)
(* for a world a crash may leave behind (DownInv), one for a world the      *)
(* supervisor has between two handlers (UpInv), and one for a world inside  *)
(* a handler of issue i (Phase): DownInv, UpInv for the other issues, and   *)
(* no agent that runs for i.  Every commit but a spawn touches issue i only *)
(* (Touch) and keeps Phase; a spawn ends it, and the process record that    *)
(* follows restores UpInv.  What git holds is not read by the argument.     *)
(***************************************************************************)
EXTENDS AgentPool, TLAPS, WellFoundedInduction

Keys == Issues \X Nat \X Nat
Statuses == {"none", "working", "pr-open", "blocked", "done"}
States == {"none", "running", "stopping", "lost", "ok", "failed", "killed"}
Jobs == [status : Statuses, worker : Workers \union {None}, clone : Workers \union {None},
         branch : (Issues \X Nat) \union {None}, attempt : Nat, repairs : Nat]
InvocationRecords == [issue : Issues \union {None}, key : Keys \union {<<>>},
                      clone : Workers \union {None}, state : States]

\* The settings and records the argument reads.  What a world holds besides
\* (the checkouts, the recovery records, the pull requests) may be anything.
Core == {"job", "process", "launch", "lease", "inv", "listed"}

Shaped(x) ==
    /\ Core \subseteq DOMAIN x
    /\ x.job \in [Issues -> Jobs]
    /\ x.process \in [Issues -> Invocations \union {0}]
    /\ x.launch \in [Issues -> Keys \union {<<>>}]
    /\ x.lease \subseteq Issues
    /\ x.inv \in [Invocations -> InvocationRecords]

Running(x) == {k \in Invocations : x.inv[k].state = "running"}
LiveStatus == {"working", "pr-open"}

\* The parts of DownInv.
Distinct(x) ==
    \A i \in Issues : x.job[i].status \in LiveStatus =>
        /\ x.job[i].clone \in {None, x.job[i].worker}
        /\ \A j \in Issues : x.job[j].status \in LiveStatus /\ x.job[i].worker = x.job[j].worker => i = j

OneWriter(x) ==
    \A k, m \in Live(x) : x.inv[k].clone = x.inv[m].clone => k = m

\* A process record names an invocation of its issue.
Processes(x) ==
    \A i \in Issues : x.process[i] # 0 => x.process[i] \in Spawned(x) /\ x.inv[x.process[i]].issue = i

\* An intent is one of its issue's.
Intents(x) ==
    \A i \in Issues : x.launch[i] # <<>> => x.launch[i][1] = i

\* Attempts and repairs only grow: a job's key is never behind (a, r).
Behind(x, a, r, i) ==
    \A k \in Spawned(x) : x.inv[k].issue = i =>
        x.inv[k].key[2] < a \/ (x.inv[k].key[2] = a /\ x.inv[k].key[3] <= r)

\* Every invocation was launched under a key of its issue, no later than the
\* job's key now; a job never reserved has none.
Launched(x) ==
    /\ \A k \in Spawned(x) : /\ x.inv[k].issue \in Issues
                             /\ x.inv[k].key \in Keys
                             /\ x.inv[k].key[1] = x.inv[k].issue
                             /\ x.job[x.inv[k].issue].status # "none"
    /\ \A i \in Issues : Behind(x, x.job[i].attempt, x.job[i].repairs, i)

UniqueKeys(x) == \A k, m \in Spawned(x) : x.inv[k].key = x.inv[m].key => k = m

\* An agent that runs is counted by a lease, unless its issue vanished.
Leased(x) ==
    \A k \in Running(x) : x.inv[k].issue \in x.lease \/ x.inv[k].issue \notin x.listed

DownInv(x) ==
    /\ Shaped(x) /\ Distinct(x) /\ OneWriter(x) /\ Processes(x) /\ Intents(x)
    /\ Launched(x) /\ UniqueKeys(x) /\ Leased(x)

\* The agents that run for an issue are its process, and leases are working jobs'.
AgentOwned(x, k) ==
    \/ x.job[x.inv[k].issue].status = "working" /\ x.process[x.inv[k].issue] = k
    \/ x.inv[k].issue \notin x.listed

UpInv(x) ==
    /\ \A k \in Running(x) : AgentOwned(x, k)
    /\ \A i \in x.lease : x.job[i].status = "working"

\* Inside a handler of issue i.
Phase(x, i) ==
    /\ DownInv(x)
    /\ \A k \in Running(x) : x.inv[k].issue # i => AgentOwned(x, k)
    /\ \A j \in x.lease : j # i => x.job[j].status = "working"
    /\ \A k \in Running(x) : x.inv[k].issue = i => i \notin x.listed

\* Every invocation of i was launched under an earlier key.
Fresh(x, i) ==
    \A k \in Spawned(x) : x.inv[k].issue = i =>
        \/ x.inv[k].key[2] < x.job[i].attempt
        \/ x.inv[k].key[2] = x.job[i].attempt /\ x.inv[k].key[3] < x.job[i].repairs

\* What a job's row may become: never unreserved, its key no smaller, and while
\* live alone on its worker.
NotBehind(old, new) ==
    old.attempt < new.attempt \/ (old.attempt = new.attempt /\ old.repairs <= new.repairs)

RowStep(x, new, i) ==
    /\ new.status = "none" => x.job[i].status = "none"
    /\ x.job[i].status = "none" \/ NotBehind(x.job[i], new)
    /\ new.status \in LiveStatus =>
          /\ new.clone \in {None, new.worker}
          /\ \A j \in Issues \ {i} : x.job[j].status \in LiveStatus => x.job[j].worker # new.worker

\* y is x with a commit about issue i only, and no spawn.
Touch(x, y, i) ==
    /\ Shaped(y) /\ y.inv = x.inv /\ y.listed = x.listed
    /\ \A j \in Issues \ {i} :
          /\ y.job[j] = x.job[j] /\ y.process[j] = x.process[j] /\ y.launch[j] = x.launch[j]
          /\ j \in y.lease <=> j \in x.lease
    /\ y.process[i] \in {x.process[i], 0}
    /\ y.launch[i] = x.launch[i] \/ (y.launch[i] \in Keys /\ y.launch[i][1] = i)
    /\ RowStep(x, y.job[i], i)

\* y agrees with x on all the argument reads.
Kept(x, y) ==
    /\ Core \subseteq DOMAIN y
    /\ y.job = x.job /\ y.process = x.process /\ y.launch = x.launch
    /\ y.lease = x.lease /\ y.inv = x.inv /\ y.listed = x.listed

\* A sequence of worlds a crash may leave behind.
Safe(s) == \E S : s \in Seq(S) /\ s # <<>> /\ \A x \in S : DownInv(x)

-------------------------------------------------------------------------------
(* Sequences of worlds.                                                      *)

LEMMA SafeBy ==
    ASSUME NEW s, NEW S, s \in Seq(S), s # <<>>, \A x \in S : DownInv(x)
    PROVE  Safe(s)
BY DEF Safe

LEMMA SafeOne ==
    ASSUME NEW x, DownInv(x)
    PROVE  Safe(<<x>>) /\ Last(<<x>>) = x
<1> DEFINE S == {x}
<1>1. <<x>> \in Seq(S) /\ <<x>> # <<>> /\ \A world \in S : DownInv(world)
  OBVIOUS
<1>2. Safe(<<x>>)
  <2> HIDE DEF S
  <2> QED BY <1>1, SafeBy
<1>3. Len(<<x>>) = 1 /\ <<x>>[1] = x
  OBVIOUS
<1> QED BY <1>2, <1>3 DEF Last

LEMMA SafeConcat ==
    ASSUME NEW s, NEW t, Safe(s), Safe(t)
    PROVE  Safe(s \o t) /\ Last(s \o t) = Last(t)
<1>1. PICK S : s \in Seq(S) /\ s # <<>> /\ \A x \in S : DownInv(x)
  BY DEF Safe
<1>2. PICK T : t \in Seq(T) /\ t # <<>> /\ \A x \in T : DownInv(x)
  BY DEF Safe
<1>3. s \in Seq(S \union T) /\ t \in Seq(S \union T) /\ \A x \in S \union T : DownInv(x)
  <2> HIDE DEF DownInv
  <2> QED BY <1>1, <1>2
<1>4. Len(s) \in Nat /\ Len(t) \in Nat /\ Len(t) # 0
  BY <1>1, <1>2
<1>5. s \o t \in Seq(S \union T) /\ Len(s \o t) = Len(s) + Len(t)
  BY <1>3
<1>6. (s \o t)[Len(s) + Len(t)] = t[Len(t)]
  BY <1>3, <1>4
<1>7. s \o t # <<>>
  BY <1>4, <1>5
<1> QED BY <1>3, <1>5, <1>6, <1>7 DEF Safe, Last

LEMMA SafeEmpty ==
    ASSUME NEW s, Safe(s)
    PROVE  s \o <<>> = s
<1>1. PICK S : s \in Seq(S)
  BY DEF Safe
<1> QED BY <1>1

LEMMA SafePair ==
    ASSUME NEW x, NEW y, DownInv(x), DownInv(y)
    PROVE  Safe(<<x, y>>) /\ Last(<<x, y>>) = y
<1> DEFINE S == {x, y}
<1>1. <<x, y>> \in Seq(S) /\ <<x, y>> # <<>> /\ \A world \in S : DownInv(world)
  OBVIOUS
<1>2. Safe(<<x, y>>)
  <2> HIDE DEF S
  <2> QED BY <1>1, SafeBy
<1>3. Len(<<x, y>>) = 2 /\ <<x, y>>[2] = y
  OBVIOUS
<1> QED BY <1>2, <1>3 DEF Last

LEMMA SafeThree ==
    ASSUME NEW x, NEW y, NEW z, DownInv(x), DownInv(y), DownInv(z)
    PROVE  Safe(<<x, y, z>>) /\ Last(<<x, y, z>>) = z
<1> DEFINE S == {x, y, z}
<1>1. <<x, y, z>> \in Seq(S) /\ <<x, y, z>> # <<>> /\ \A world \in S : DownInv(world)
  OBVIOUS
<1>2. Safe(<<x, y, z>>)
  <2> HIDE DEF S
  <2> QED BY <1>1, SafeBy
<1>3. Len(<<x, y, z>>) = 3 /\ <<x, y, z>>[3] = z
  OBVIOUS
<1> QED BY <1>2, <1>3 DEF Last

LEMMA SafeFour ==
    ASSUME NEW x, NEW y, NEW z, NEW u, DownInv(x), DownInv(y), DownInv(z), DownInv(u)
    PROVE  Safe(<<x, y, z, u>>) /\ Last(<<x, y, z, u>>) = u
<1> DEFINE S == {x, y, z, u}
<1>1. <<x, y, z, u>> \in Seq(S) /\ <<x, y, z, u>> # <<>> /\ \A world \in S : DownInv(world)
  OBVIOUS
<1>2. Safe(<<x, y, z, u>>)
  <2> HIDE DEF S
  <2> QED BY <1>1, SafeBy
<1>3. Len(<<x, y, z, u>>) = 4 /\ <<x, y, z, u>>[4] = u
  OBVIOUS
<1> QED BY <1>2, <1>3 DEF Last

LEMMA SafeFive ==
    ASSUME NEW x, NEW y, NEW z, NEW u, NEW v,
           DownInv(x), DownInv(y), DownInv(z), DownInv(u), DownInv(v)
    PROVE  Safe(<<x, y, z, u, v>>) /\ Last(<<x, y, z, u, v>>) = v
<1> DEFINE S == {x, y, z, u, v}
<1>1. <<x, y, z, u, v>> \in Seq(S) /\ <<x, y, z, u, v>> # <<>> /\ \A world \in S : DownInv(world)
  OBVIOUS
<1>2. Safe(<<x, y, z, u, v>>)
  <2> HIDE DEF S
  <2> QED BY <1>1, SafeBy
<1>3. Len(<<x, y, z, u, v>>) = 5 /\ <<x, y, z, u, v>>[5] = v
  OBVIOUS
<1> QED BY <1>2, <1>3 DEF Last

\* What a handler leaves: a crash may leave any world of its trace, and the
\* supervisor goes on from the last.
LEMMA PerformKeeps ==
    ASSUME NEW trace, NEW fault, Safe(trace), UpInv(Last(trace)), Perform(trace, fault)
    PROVE  DownInv(w') /\ (up' => UpInv(w'))
<1>1. PICK S : trace \in Seq(S) /\ \A x \in S : DownInv(x)
  BY DEF Safe
<1>2. PICK n \in 1 .. Len(trace) : w' = trace[n] /\ up' = (n = Len(trace))
  BY DEF Perform
<1>3. trace[n] \in S
  BY <1>1
<1>4. DownInv(w')
  BY <1>1, <1>2, <1>3
<1>5. ASSUME up' PROVE UpInv(w')
  BY <1>2, <1>5 DEF Last
<1> QED BY <1>4, <1>5

-------------------------------------------------------------------------------
(* Commits about one issue.                                                  *)

LEMMA TouchKeeps ==
    ASSUME NEW x, NEW y, NEW i \in Issues, Phase(x, i), Touch(x, y, i)
    PROVE  Phase(y, i)
<1> USE DEF Phase, Touch
<1>1. Shaped(x) /\ Shaped(y) /\ y.inv = x.inv /\ y.listed = x.listed
  BY DEF DownInv
<1>2. Live(y) = Live(x) /\ Spawned(y) = Spawned(x) /\ Running(y) = Running(x)
  BY <1>1 DEF Live, Spawned, Running
<1>3. RowStep(x, y.job[i], i) /\ x.job[i] \in Jobs /\ y.job[i] \in Jobs
  BY <1>1 DEF Shaped
<1>a. \A j \in Issues : j # i => y.job[j] = x.job[j]
  OBVIOUS
<1>4. Distinct(y)
  <2>1. Distinct(x)
    BY DEF DownInv
  <2> HIDE DEF Phase, Touch
  <2> SUFFICES ASSUME NEW j \in Issues, y.job[j].status \in LiveStatus
               PROVE  /\ y.job[j].clone \in {None, y.job[j].worker}
                      /\ \A m \in Issues : y.job[m].status \in LiveStatus /\ y.job[j].worker = y.job[m].worker => j = m
    BY DEF Distinct
  <2>2. CASE j = i
    BY <2>1, <2>2, <1>3, <1>a DEF Distinct, RowStep
  <2>3. CASE j # i
    BY <2>1, <2>3, <1>3, <1>a DEF Distinct, RowStep
  <2> QED BY <2>2, <2>3
<1>5. OneWriter(y)
  BY <1>1, <1>2 DEF DownInv, OneWriter
<1>6. Processes(y)
  <2>1. Processes(x) /\ y.process[i] \in {x.process[i], 0} /\ \A j \in Issues : j # i => y.process[j] = x.process[j]
    BY DEF DownInv
  <2> HIDE DEF Phase, Touch
  <2> QED BY <1>1, <1>2, <2>1 DEF Processes
<1>7. Intents(y)
  <2>1. Intents(x)
    BY DEF DownInv
  <2> QED BY <1>1, <2>1 DEF Intents
<1>8. Launched(y)
  <2>1. Launched(x)
    BY DEF DownInv
  <2> HIDE DEF Phase, Touch
  <2>2. ASSUME NEW k \in Spawned(y)
        PROVE  /\ y.inv[k].issue \in Issues
               /\ y.inv[k].key \in Keys
               /\ y.inv[k].key[1] = y.inv[k].issue
               /\ y.job[y.inv[k].issue].status # "none"
    BY <1>1, <1>2, <1>3, <1>a, <2>1 DEF Launched, RowStep
  <2>3. ASSUME NEW j \in Issues PROVE Behind(y, y.job[j].attempt, y.job[j].repairs, j)
    <3>1. Behind(x, x.job[j].attempt, x.job[j].repairs, j)
      BY <2>1 DEF Launched
    <3>2. CASE j # i
      BY <3>1, <3>2, <1>1, <1>2, <1>a DEF Behind
    <3>3. CASE j = i
      <4> SUFFICES ASSUME NEW k \in Spawned(x), x.inv[k].issue = i
                   PROVE  \/ x.inv[k].key[2] < y.job[i].attempt
                          \/ x.inv[k].key[2] = y.job[i].attempt /\ x.inv[k].key[3] <= y.job[i].repairs
        BY <1>1, <1>2, <3>3 DEF Behind
      <4>1. x.inv[k].key \in Keys /\ x.job[i].status # "none"
        BY <2>1 DEF Launched
      <4>2. x.inv[k].key[2] \in Nat /\ x.inv[k].key[3] \in Nat
        BY <4>1 DEF Keys
      <4>3. \/ x.inv[k].key[2] < x.job[i].attempt
            \/ x.inv[k].key[2] = x.job[i].attempt /\ x.inv[k].key[3] <= x.job[i].repairs
        BY <3>1, <3>3 DEF Behind
      <4>4. NotBehind(x.job[i], y.job[i])
        BY <4>1, <1>3 DEF RowStep
      <4>5. /\ x.job[i].attempt \in Nat /\ x.job[i].repairs \in Nat
            /\ y.job[i].attempt \in Nat /\ y.job[i].repairs \in Nat
        BY <1>3 DEF Jobs
      <4> QED BY <4>2, <4>3, <4>4, <4>5 DEF NotBehind
    <3> QED BY <3>2, <3>3
  <2> QED BY <2>2, <2>3 DEF Launched
<1>9. UniqueKeys(y)
  BY <1>1, <1>2 DEF DownInv, UniqueKeys
<1>10. Leased(y)
  <2> SUFFICES ASSUME NEW k \in Running(y) PROVE y.inv[k].issue \in y.lease \/ y.inv[k].issue \notin y.listed
    BY DEF Leased
  <2>1. x.inv[k].issue \in Issues
    BY <1>1, <1>2 DEF DownInv, Launched, Running, Spawned
  <2>2. x.inv[k].issue \in x.lease \/ x.inv[k].issue \notin x.listed
    BY <1>2 DEF DownInv, Leased
  <2>3. CASE x.inv[k].issue = i
    BY <2>3, <1>1, <1>2
  <2>4. CASE x.inv[k].issue # i
    BY <2>1, <2>2, <2>4, <1>1
  <2> QED BY <2>3, <2>4
<1>11. \A k \in Running(y) : y.inv[k].issue # i => AgentOwned(y, k)
  <2> SUFFICES ASSUME NEW k \in Running(y), y.inv[k].issue # i PROVE AgentOwned(y, k)
    OBVIOUS
  <2>1. x.inv[k].issue \in Issues
    BY <1>1, <1>2 DEF DownInv, Launched, Running, Spawned
  <2>2. AgentOwned(x, k)
    BY <1>1, <1>2
  <2> QED BY <2>1, <2>2, <1>1 DEF AgentOwned
<1>12. \A j \in y.lease : j # i => y.job[j].status = "working"
  BY <1>1 DEF Shaped
<1>13. \A k \in Running(y) : y.inv[k].issue = i => i \notin y.listed
  BY <1>1, <1>2
<1> QED BY <1>1, <1>4, <1>5, <1>6, <1>7, <1>8, <1>9, <1>10, <1>11, <1>12, <1>13 DEF DownInv

\* A commit that leaves the row's key alone leaves Fresh alone.
LEMMA TouchFresh ==
    ASSUME NEW x, NEW y, NEW i \in Issues, Touch(x, y, i), Fresh(x, i),
           y.job[i].attempt = x.job[i].attempt, y.job[i].repairs = x.job[i].repairs
    PROVE  Fresh(y, i)
<1>1. y.inv = x.inv /\ Spawned(y) = Spawned(x)
  BY DEF Touch, Spawned
<1> QED BY <1>1 DEF Fresh

LEMMA SameRow ==
    ASSUME NEW x, NEW i \in Issues, Phase(x, i)
    PROVE  RowStep(x, x.job[i], i)
<1>1. Shaped(x) /\ Distinct(x)
  BY DEF Phase, DownInv
<1>2. NotBehind(x.job[i], x.job[i])
  BY <1>1 DEF NotBehind, Shaped, Jobs
<1> QED BY <1>1, <1>2 DEF RowStep, Distinct

LEMMA KeptTouch ==
    ASSUME NEW x, NEW y, NEW i \in Issues, Phase(x, i), Kept(x, y)
    PROVE  Touch(x, y, i)
<1>1. Shaped(x) /\ RowStep(x, x.job[i], i)
  BY SameRow DEF Phase, DownInv
<1>2. Shaped(y)
  BY <1>1 DEF Kept, Shaped
<1> QED BY <1>1, <1>2 DEF Kept, Touch

\* What Kept keeps.
LEMMA KeptKeeps ==
    ASSUME NEW x, NEW y, NEW i \in Issues, Phase(x, i), Kept(x, y)
    PROVE  Phase(y, i) /\ (Fresh(x, i) => Fresh(y, i))
<1>1. Touch(x, y, i) /\ y.job = x.job
  BY KeptTouch DEF Kept
<1> QED BY <1>1, TouchKeeps, TouchFresh

\* Between two handlers, an issue without a running agent of its own may be taken up.
LEMMA Begin ==
    ASSUME NEW x, NEW i \in Issues, DownInv(x), UpInv(x),
           \A k \in Running(x) : AgentOwned(x, k) /\ x.inv[k].issue = i => i \notin x.listed
    PROVE  Phase(x, i)
BY DEF Phase, UpInv

\* A handler may end where a lease of its issue is a working job's.
LEMMA Sealed ==
    ASSUME NEW x, NEW i \in Issues, Phase(x, i), i \in x.lease => x.job[i].status = "working"
    PROVE  DownInv(x) /\ UpInv(x)
BY DEF Phase, UpInv, AgentOwned

-------------------------------------------------------------------------------
(* The operators the handlers are built from.                                *)

LEMMA LeaseTouch ==
    ASSUME NEW x, NEW i \in Issues, Phase(x, i), NEW L, L \subseteq Issues,
           \A j \in Issues \ {i} : j \in L <=> j \in x.lease
    PROVE  LET y == [x EXCEPT !.lease = L]
           IN  Touch(x, y, i) /\ y.job = x.job /\ y.lease = L
<1> DEFINE y == [x EXCEPT !.lease = L]
<1>1. Shaped(x) /\ RowStep(x, x.job[i], i)
  BY SameRow DEF Phase, DownInv
<1>2. /\ Core \subseteq DOMAIN y /\ y.job = x.job /\ y.process = x.process /\ y.launch = x.launch
      /\ y.lease = L /\ y.inv = x.inv /\ y.listed = x.listed
  BY <1>1 DEF Shaped, Core
<1>3. Shaped(y)
  BY <1>1, <1>2 DEF Shaped
<1> HIDE DEF y
<1>4. Touch(x, y, i)
  BY <1>1, <1>2, <1>3 DEF Touch
<1> QED BY <1>2, <1>4 DEF y

\* admit_worker grants a lease.
LEMMA GrantKeeps ==
    ASSUME NEW x, NEW i \in Issues, Phase(x, i)
    PROVE  LET y == [x EXCEPT !.lease = @ \union {i}]
           IN  Phase(y, i) /\ y.job = x.job /\ i \in y.lease /\ (Fresh(x, i) => Fresh(y, i))
<1> DEFINE L == x.lease \union {i}
           y == [x EXCEPT !.lease = L]
<1>1. L \subseteq Issues /\ \A j \in Issues \ {i} : j \in L <=> j \in x.lease
  BY DEF Phase, DownInv, Shaped
<1>2. Touch(x, y, i) /\ y.job = x.job /\ y.lease = L
  <2> HIDE DEF L
  <2> QED BY <1>1, LeaseTouch
<1>3. i \in L
  OBVIOUS
<1>4. y = [x EXCEPT !.lease = @ \union {i}]
  BY DEF Phase, DownInv, Shaped, Core
<1> HIDE DEF y, L
<1>5. Phase(y, i) /\ (Fresh(x, i) => Fresh(y, i))
  BY <1>2, TouchKeeps, TouchFresh
<1> QED BY <1>2, <1>3, <1>4, <1>5

LEMMA ReleaseKeeps ==
    ASSUME NEW x, NEW i \in Issues, Phase(x, i)
    PROVE  /\ Phase(Release(x, i), i) /\ Release(x, i).job = x.job
           /\ i \notin Release(x, i).lease
<1> DEFINE L == x.lease \ {i}
           y == [x EXCEPT !.lease = L]
<1>1. L \subseteq Issues /\ \A j \in Issues \ {i} : j \in L <=> j \in x.lease
  BY DEF Phase, DownInv, Shaped
<1>2. Touch(x, y, i) /\ y.job = x.job /\ y.lease = L
  <2> HIDE DEF L
  <2> QED BY <1>1, LeaseTouch
<1>3. i \notin L
  OBVIOUS
<1>4. y = Release(x, i)
  BY DEF Phase, DownInv, Shaped, Core, Release
<1> HIDE DEF y, L
<1>5. Phase(y, i)
  BY <1>2, TouchKeeps
<1> QED BY <1>2, <1>3, <1>4, <1>5

\* A new row.
LEMMA RowKeeps ==
    ASSUME NEW x, NEW i \in Issues, Phase(x, i), NEW r \in Jobs, RowStep(x, r, i)
    PROVE  LET y == [x EXCEPT !.job[i] = r]
           IN  Phase(y, i) /\ y.job = [x.job EXCEPT ![i] = r] /\ y.job[i] = r /\ y.lease = x.lease
                /\ y.inv = x.inv
<1> DEFINE J == [x.job EXCEPT ![i] = r]
           y == [x EXCEPT !.job = J]
<1>1. Shaped(x)
  BY DEF Phase, DownInv
<1>2. J \in [Issues -> Jobs] /\ J[i] = r /\ \A j \in Issues \ {i} : J[j] = x.job[j]
  BY <1>1 DEF Shaped
<1>3. /\ Core \subseteq DOMAIN y /\ y.job = J /\ y.process = x.process /\ y.launch = x.launch
      /\ y.lease = x.lease /\ y.inv = x.inv /\ y.listed = x.listed
  <2> HIDE DEF J
  <2> QED BY <1>1 DEF Shaped, Core
<1>4. y = [x EXCEPT !.job[i] = r]
  BY <1>1 DEF Shaped, Core
<1> HIDE DEF J, y
<1>5. Shaped(y)
  BY <1>1, <1>2, <1>3 DEF Shaped
<1>6. Touch(x, y, i)
  BY <1>1, <1>2, <1>3, <1>5 DEF Touch
<1>7. Phase(y, i)
  BY <1>6, TouchKeeps
<1> QED BY <1>2, <1>3, <1>4, <1>7 DEF J

\* A row's new status: a job that is not live may not become live.
LEMMA StatusKeeps ==
    ASSUME NEW x, NEW i \in Issues, Phase(x, i), NEW v \in {"pr-open", "blocked", "done"},
           v = "pr-open" => x.job[i].status \in LiveStatus
    PROVE  LET y == [x EXCEPT !.job[i].status = v]
           IN  Phase(y, i) /\ y.lease = x.lease /\ y.job[i].status = v
<1> DEFINE r == [x.job[i] EXCEPT !.status = v]
<1>1. Shaped(x) /\ x.job[i] \in Jobs /\ Distinct(x)
  BY DEF Phase, DownInv, Shaped
<1>2. /\ r \in Jobs /\ r.status = v /\ r.attempt = x.job[i].attempt /\ r.repairs = x.job[i].repairs
      /\ r.worker = x.job[i].worker /\ r.clone = x.job[i].clone
  BY <1>1 DEF Jobs, Statuses
<1>3. x.job[i].attempt \in Nat /\ x.job[i].repairs \in Nat
  BY <1>1 DEF Jobs
<1>4. [x EXCEPT !.job[i].status = v] = [x EXCEPT !.job[i] = r]
  BY <1>1 DEF Shaped, Core
<1> HIDE DEF r
<1>5. RowStep(x, r, i)
  <2>1. NotBehind(x.job[i], r) /\ r.status # "none"
    BY <1>2, <1>3 DEF NotBehind
  <2>2. ASSUME r.status \in LiveStatus
        PROVE  /\ r.clone \in {None, r.worker}
               /\ \A j \in Issues \ {i} : x.job[j].status \in LiveStatus => x.job[j].worker # r.worker
    <3>1. x.job[i].status \in LiveStatus
      BY <1>2, <2>2 DEF LiveStatus
    <3> QED BY <1>1, <1>2, <3>1 DEF Distinct
  <2> QED BY <2>1, <2>2 DEF RowStep
<1> QED BY <1>2, <1>4, <1>5, RowKeeps

LEMMA BlockedKeeps ==
    ASSUME NEW x, NEW i \in Issues, Phase(x, i)
    PROVE  LET y == [x EXCEPT !.job[i].status = "blocked"]
           IN  Phase(y, i) /\ y.lease = x.lease /\ y.job[i].status = "blocked"
BY StatusKeeps

\* The process record is cleared.
LEMMA ClearKeeps ==
    ASSUME NEW x, NEW i \in Issues, Phase(x, i)
    PROVE  LET y == [x EXCEPT !.process[i] = 0]
           IN  Phase(y, i) /\ y.job = x.job /\ y.lease = x.lease
<1> DEFINE P == [x.process EXCEPT ![i] = 0]
           y == [x EXCEPT !.process = P]
<1>1. Shaped(x) /\ RowStep(x, x.job[i], i)
  BY SameRow DEF Phase, DownInv
<1>2. P \in [Issues -> Invocations \union {0}] /\ P[i] = 0 /\ \A j \in Issues \ {i} : P[j] = x.process[j]
  BY <1>1 DEF Shaped
<1>3. /\ Core \subseteq DOMAIN y /\ y.job = x.job /\ y.process = P /\ y.launch = x.launch
      /\ y.lease = x.lease /\ y.inv = x.inv /\ y.listed = x.listed
  <2> HIDE DEF P
  <2> QED BY <1>1 DEF Shaped, Core
<1>4. y = [x EXCEPT !.process[i] = 0]
  BY <1>1 DEF Shaped, Core
<1> HIDE DEF P, y
<1>5. Shaped(y)
  BY <1>1, <1>2, <1>3 DEF Shaped
<1>6. Touch(x, y, i)
  BY <1>1, <1>2, <1>3, <1>5 DEF Touch
<1>7. Phase(y, i)
  BY <1>6, TouchKeeps
<1> QED BY <1>3, <1>4, <1>7

\* The intent of a launch is recorded.
LEMMA IntentKeeps ==
    ASSUME NEW x, NEW i \in Issues, Phase(x, i)
    PROVE  LET y == [x EXCEPT !.launch[i] = Key(x, i)]
           IN  /\ Phase(y, i) /\ y.job = x.job /\ y.lease = x.lease /\ y.inv = x.inv
               /\ (Fresh(x, i) => Fresh(y, i))
<1> DEFINE K == Key(x, i)
           P == [x.launch EXCEPT ![i] = K]
           y == [x EXCEPT !.launch = P]
<1>1. Shaped(x) /\ RowStep(x, x.job[i], i)
  BY SameRow DEF Phase, DownInv
<1>2. K \in Keys /\ K[1] = i
  BY <1>1 DEF Key, Keys, Shaped, Jobs
<1>4. y = [x EXCEPT !.launch[i] = Key(x, i)]
  BY <1>1 DEF Shaped, Core
<1> HIDE DEF K
<1>3. P \in [Issues -> Keys \union {<<>>}] /\ P[i] = K /\ \A j \in Issues \ {i} : P[j] = x.launch[j]
  BY <1>1, <1>2 DEF Shaped
<1>5. /\ Core \subseteq DOMAIN y /\ y.job = x.job /\ y.process = x.process /\ y.launch = P
      /\ y.lease = x.lease /\ y.inv = x.inv /\ y.listed = x.listed
  <2> HIDE DEF P
  <2> QED BY <1>1 DEF Shaped, Core
<1> HIDE DEF P, y
<1>6. Shaped(y)
  BY <1>1, <1>3, <1>5 DEF Shaped
<1>7. Touch(x, y, i)
  BY <1>1, <1>2, <1>3, <1>5, <1>6 DEF Touch
<1>8. Phase(y, i) /\ (Fresh(x, i) => Fresh(y, i))
  BY <1>5, <1>7, TouchKeeps, TouchFresh
<1> QED BY <1>4, <1>5, <1>8

\* Git and the recovery records are not read by the argument.
LEMMA CommitWipKept ==
    ASSUME NEW x, NEW b, Core \subseteq DOMAIN x
    PROVE  Kept(x, CommitWip(x, b))
BY DEF Kept, Core, CommitWip

LEMMA KeptTransitive ==
    ASSUME NEW x, NEW y, NEW z, Kept(x, y), Kept(y, z)
    PROVE  Kept(x, z)
BY DEF Kept

LEMMA PrepareCloneKept ==
    ASSUME NEW x, NEW c, Core \subseteq DOMAIN x
    PROVE  Kept(x, Quarantined(x, c)) /\ Kept(x, PrepareClone(x, c))
<1>1. Kept(x, Quarantined(x, c))
  BY DEF Kept, Core, Quarantined
<1>2. Kept(Quarantined(x, c), PrepareClone(x, c))
  BY <1>1 DEF Kept, Core, PrepareClone
<1> QED BY <1>1, <1>2, KeptTransitive

LEMMA OnBranchKept ==
    ASSUME NEW x, NEW c, NEW b, NEW content, Core \subseteq DOMAIN x
    PROVE  Kept(x, OnBranch(x, c, b, content))
BY DEF Kept, Core, OnBranch

LEMMA CaptureKept ==
    ASSUME NEW x, NEW i, NEW fault, Core \subseteq DOMAIN x
    PROVE  \E y, z : CaptureRecovery(x, i, fault) = <<y, z>> /\ Kept(x, y) /\ Kept(x, z)
<1> DEFINE b == x.job[i].branch
           blind == b = None \/ fault = "probe"
           y == IF blind \/ fault = "commit" THEN x ELSE CommitWip(x, b)
           head == IF blind THEN {} ELSE FirstHead(y, i, b)
           left == \/ \E k \in Live(y) : y.inv[k].issue = i
                   \/ b # None /\ \E c \in Workers : y.clone[c].branch = b /\ Dirty(y.clone[c])
           z == [y EXCEPT !.recovery[i] =
                   [@ EXCEPT !.work = Survey(x, i, head, fault), !.branch = b,
                             !.clone = x.job[i].clone, !.head = head,
                             !.first = IF blind THEN None ELSE FirstSource(y, i, b),
                             !.sources = IF blind THEN {} ELSE Sources(y, b),
                             !.moved = ~blind /\ Moved(y, b) # {}],
                          !.unrecorded = IF left THEN @ \union {i} ELSE @ \ {i}]
<1>1. CaptureRecovery(x, i, fault) = <<y, z>>
  BY DEF CaptureRecovery
<1>2. Kept(x, y)
  <2>1. Kept(x, CommitWip(x, b)) /\ Kept(x, x)
    BY CommitWipKept DEF Kept
  <2> QED BY <2>1
<1> HIDE DEF y, left, head, blind, b
<1>3. Kept(y, z)
  BY <1>2 DEF Kept, Core
<1> QED BY <1>1, <1>2, <1>3, KeptTransitive

-------------------------------------------------------------------------------
(* Blocking and launching.                                                   *)

\* block leaves a blocked job, without a lease, that no agent works for.
LEMMA BlockRuns ==
    ASSUME NEW x, NEW i \in Issues, NEW fault, Phase(x, i)
    PROVE  /\ Safe(Block(x, i, fault)) /\ UpInv(Last(Block(x, i, fault)))
           /\ Phase(Last(Block(x, i, fault)), i)
<1>1. Core \subseteq DOMAIN x
  BY DEF Phase, DownInv, Shaped
<1>2. PICK y, z : CaptureRecovery(x, i, fault) = <<y, z>> /\ Kept(x, y) /\ Kept(x, z)
  BY <1>1, CaptureKept
<1>3. Phase(y, i) /\ Phase(z, i)
  BY <1>2, KeptKeeps
<1> DEFINE a == Release(z, i)
           b == [a EXCEPT !.job[i].status = "blocked"]
           d == [b EXCEPT !.process[i] = 0]
<1>4. Block(x, i, fault) = <<y, z>> \o <<a, b, d>>
  BY <1>2 DEF Block
<1>5. Phase(a, i) /\ i \notin a.lease
  BY <1>3, ReleaseKeeps
<1> HIDE DEF a
<1>6. Phase(b, i) /\ b.lease = a.lease
  BY <1>5, BlockedKeeps
<1> HIDE DEF b
<1>7. Phase(d, i) /\ d.lease = b.lease
  BY <1>6, ClearKeeps
<1> HIDE DEF d
<1>8. Safe(<<y, z>>)
  BY <1>3, SafePair DEF Phase
<1>9. Safe(<<a, b, d>>) /\ Last(<<a, b, d>>) = d
  BY <1>5, <1>6, <1>7, SafeThree DEF Phase
<1>10. Safe(Block(x, i, fault)) /\ Last(Block(x, i, fault)) = d
  BY <1>4, <1>8, <1>9, SafeConcat
<1>11. UpInv(d)
  BY <1>5, <1>6, <1>7, Sealed
<1> QED BY <1>7, <1>10, <1>11

LEMMA NatMin ==
    ASSUME NEW T \in SUBSET Nat, T # {}
    PROVE  \E n \in T : \A m \in T : n <= m
<1> DEFINE Less == {ss \in Nat \X Nat : ss[1] < ss[2]}
<1>1. IsWellFoundedOn(Less, Nat)
  BY NatLessThanWellFounded, Zenon DEF OpToRel
<1> HIDE DEF Less
<1>2. PICK n \in T : \A m \in T : ~(<<m, n>> \in Less)
  BY <1>1, WFMin
<1>3. ASSUME NEW m \in T PROVE n <= m
  <2>1. m < n => <<m, n>> \in Less
    BY DEF Less
  <2> QED BY <2>1, <1>2
<1> QED BY <1>3

\* While the bound is not reached, there is a next invocation.
LEMMA NextInvocationIn ==
    ASSUME NEW x, Spawned(x) # Invocations
    PROVE  NextInvocation(x) \in Invocations \ Spawned(x)
<1> DEFINE T == Invocations \ Spawned(x)
<1>1. T \in SUBSET Nat /\ T # {}
  BY PoolAssumption DEF Spawned, Invocations
<1> HIDE DEF T
<1>2. PICK n \in T : \A m \in T : n <= m
  BY <1>1, NatMin
<1>3. \A j \in Invocations : j < n => j \in Spawned(x)
  BY <1>1, <1>2, PoolAssumption DEF T, Invocations
<1>4. \E k \in Invocations \ Spawned(x) : \A j \in Invocations : j < k => j \in Spawned(x)
  BY <1>2, <1>3 DEF T
<1> QED BY <1>4 DEF NextInvocation

\* Runtime.spawn and the record of its process.
Spawns(x, e, f, i, k, c) ==
    /\ e = [x EXCEPT !.inv[k] = [issue |-> i, key |-> Key(x, i), clone |-> c, state |-> "running"],
                     !.unrecorded = @ \union {i}]
    /\ f = [e EXCEPT !.process[i] = k]

LEMMA SpawnRuns ==
    ASSUME NEW x, NEW i \in Issues, NEW k \in Invocations \ Spawned(x),
           NEW c \in Workers \union {None},
           Phase(x, i), Fresh(x, i), i \in x.lease, x.job[i].status = "working", ~Owned(x, c)
    PROVE  \A e, f : Spawns(x, e, f, i, k, c) =>
                        DownInv(e) /\ DownInv(f) /\ UpInv(f) /\ f.lease = x.lease
<1> DEFINE r == [issue |-> i, key |-> Key(x, i), clone |-> c, state |-> "running"]
           N == [x.inv EXCEPT ![k] = r]
           e == [x EXCEPT !.inv = N, !.unrecorded = @ \union {i}]
           P == [x.process EXCEPT ![i] = k]
           f == [e EXCEPT !.process = P]
<1>1. /\ Shaped(x) /\ Distinct(x) /\ OneWriter(x) /\ Processes(x) /\ Intents(x)
      /\ Launched(x) /\ UniqueKeys(x) /\ Leased(x)
  BY DEF Phase, DownInv
<1>2. Key(x, i) \in Keys /\ Key(x, i)[1] = i /\ Key(x, i)[2] = x.job[i].attempt
      /\ Key(x, i)[3] = x.job[i].repairs /\ x.job[i].attempt \in Nat /\ x.job[i].repairs \in Nat
  BY <1>1 DEF Key, Keys, Shaped, Jobs
<1>3. r \in InvocationRecords /\ r.issue = i /\ r.key = Key(x, i) /\ r.clone = c /\ r.state = "running"
  BY <1>2 DEF InvocationRecords, States
<1>a. [x EXCEPT !.inv[k] = r, !.unrecorded = @ \union {i}] = e
  BY <1>1 DEF Shaped, Core
<1> HIDE DEF r
<1>4. N \in [Invocations -> InvocationRecords] /\ N[k] = r /\ \A m \in Invocations : m # k => N[m] = x.inv[m]
  BY <1>1, <1>3 DEF Shaped
<1>5. /\ Core \subseteq DOMAIN e /\ e.job = x.job /\ e.process = x.process /\ e.launch = x.launch
      /\ e.lease = x.lease /\ e.inv = N /\ e.listed = x.listed
  <2> HIDE DEF N
  <2> QED BY <1>1 DEF Shaped, Core
<1>b. [e EXCEPT !.process[i] = k] = f
  BY <1>5 DEF Core
<1> HIDE DEF N, e
<1>6. P \in [Issues -> Invocations \union {0}] /\ P[i] = k /\ \A j \in Issues : j # i => P[j] = x.process[j]
  BY <1>1 DEF Shaped
<1>7. /\ Core \subseteq DOMAIN f /\ f.job = x.job /\ f.process = P /\ f.launch = x.launch
      /\ f.lease = x.lease /\ f.inv = N /\ f.listed = x.listed
  <2> HIDE DEF P
  <2> QED BY <1>5 DEF Core
<1> HIDE DEF P, f
<1>8. k \in Invocations /\ k \notin Live(x) /\ k \notin Running(x) /\ k \notin Spawned(x) /\ k # 0
  BY DEF Spawned, Live, Running, Invocations
<1>9. ASSUME NEW y, y.inv = N
      PROVE  /\ Live(y) = Live(x) \union {k} /\ Spawned(y) = Spawned(x) \union {k}
             /\ Running(y) = Running(x) \union {k}
  BY <1>9, <1>3, <1>4 DEF Live, Spawned, Running
<1>10. ASSUME NEW y, y.inv = N, y.job = x.job, y.launch = x.launch, y.lease = x.lease,
              y.listed = x.listed, Core \subseteq DOMAIN y,
              y.process = x.process \/ y.process = P
       PROVE  DownInv(y)
  <2>0. /\ Live(y) = Live(x) \union {k} /\ Spawned(y) = Spawned(x) \union {k}
        /\ Running(y) = Running(x) \union {k}
    BY <1>9, <1>10
  <2>1. Shaped(y)
    BY <1>10, <1>1, <1>4, <1>6 DEF Shaped
  <2>2. Distinct(y) /\ Intents(y)
    BY <1>10, <1>1 DEF Distinct, Intents
  <2>3. OneWriter(y)
    <3> SUFFICES ASSUME NEW m \in Live(y), NEW n \in Live(y), y.inv[m].clone = y.inv[n].clone PROVE m = n
      BY DEF OneWriter
    <3>1. m \in Invocations /\ n \in Invocations
      BY DEF Live
    <3>2. \A q \in Live(x) : x.inv[q].clone # c
      BY DEF Owned
    <3> QED BY <2>0, <3>1, <3>2, <1>1, <1>3, <1>4, <1>8, <1>10 DEF OneWriter
  <2>4. Processes(y)
    <3> SUFFICES ASSUME NEW j \in Issues, y.process[j] # 0
                 PROVE  y.process[j] \in Spawned(y) /\ y.inv[y.process[j]].issue = j
      BY DEF Processes
    <3>1. CASE y.process[j] = x.process[j]
      <4>1. x.process[j] \in Spawned(x) /\ x.inv[x.process[j]].issue = j
        BY <1>1, <3>1 DEF Processes
      <4>2. x.process[j] \in Invocations
        BY <4>1 DEF Spawned
      <4> QED BY <4>1, <4>2, <2>0, <3>1, <1>4, <1>8, <1>10
    <3>2. CASE j = i /\ y.process[j] = k
      BY <3>2, <2>0, <1>3, <1>4, <1>10
    <3> QED BY <3>1, <3>2, <1>6, <1>10
  <2>5. Launched(y)
    <3>1. ASSUME NEW m \in Spawned(y)
          PROVE  /\ y.inv[m].issue \in Issues /\ y.inv[m].key \in Keys
                 /\ y.inv[m].key[1] = y.inv[m].issue /\ y.job[y.inv[m].issue].status # "none"
      <4>1. CASE m = k
        BY <4>1, <1>2, <1>3, <1>4, <1>10
      <4>2. CASE m # k
        <5>1. m \in Spawned(x) /\ m \in Invocations
          BY <2>0, <4>2, <3>1 DEF Spawned
        <5> QED BY <5>1, <4>2, <1>1, <1>4, <1>10 DEF Launched
      <4> QED BY <4>1, <4>2
    <3>2. ASSUME NEW j \in Issues PROVE Behind(y, y.job[j].attempt, y.job[j].repairs, j)
      <4> SUFFICES ASSUME NEW m \in Spawned(y), y.inv[m].issue = j
                   PROVE  \/ y.inv[m].key[2] < y.job[j].attempt
                          \/ y.inv[m].key[2] = y.job[j].attempt /\ y.inv[m].key[3] <= y.job[j].repairs
        BY DEF Behind
      <4>1. CASE m = k
        BY <4>1, <1>2, <1>3, <1>4, <1>10
      <4>2. CASE m # k
        <5>1. m \in Spawned(x) /\ m \in Invocations
          BY <2>0, <4>2 DEF Spawned
        <5>2. Behind(x, x.job[j].attempt, x.job[j].repairs, j) /\ y.inv[m] = x.inv[m]
          BY <5>1, <4>2, <1>1, <1>4, <1>10 DEF Launched
        <5> QED BY <5>1, <5>2, <1>10 DEF Behind
      <4> QED BY <4>1, <4>2
    <3> QED BY <3>1, <3>2 DEF Launched
  <2>6. UniqueKeys(y)
    <3>1. ASSUME NEW m \in Spawned(x) PROVE x.inv[m].key # Key(x, i)
      <4>1. /\ x.inv[m].key \in Keys /\ x.inv[m].key[1] = x.inv[m].issue
        BY <1>1 DEF Launched
      <4>2. x.inv[m].key[2] \in Nat /\ x.inv[m].key[3] \in Nat
        BY <4>1 DEF Keys
      <4>3. CASE x.inv[m].issue # i
        BY <4>1, <4>3, <1>2
      <4>4. CASE x.inv[m].issue = i
        <5>1. \/ x.inv[m].key[2] < x.job[i].attempt
              \/ x.inv[m].key[2] = x.job[i].attempt /\ x.inv[m].key[3] < x.job[i].repairs
          BY <4>4 DEF Fresh
        <5> QED BY <5>1, <4>2, <1>2
      <4> QED BY <4>3, <4>4
    <3> SUFFICES ASSUME NEW m \in Spawned(y), NEW n \in Spawned(y), y.inv[m].key = y.inv[n].key PROVE m = n
      BY DEF UniqueKeys
    <3>2. m \in Invocations /\ n \in Invocations
      BY DEF Spawned
    <3> QED BY <2>0, <3>1, <3>2, <1>1, <1>3, <1>4, <1>8, <1>10 DEF UniqueKeys
  <2>7. Leased(y)
    <3> SUFFICES ASSUME NEW m \in Running(y) PROVE y.inv[m].issue \in y.lease \/ y.inv[m].issue \notin y.listed
      BY DEF Leased
    <3>1. CASE m = k
      BY <3>1, <1>3, <1>4, <1>10
    <3>2. CASE m # k
      <4>1. m \in Running(x) /\ m \in Invocations
        BY <2>0, <3>2 DEF Running
      <4> QED BY <4>1, <3>2, <1>1, <1>4, <1>10 DEF Leased
    <3> QED BY <3>1, <3>2
  <2> QED BY <2>1, <2>2, <2>3, <2>4, <2>5, <2>6, <2>7 DEF DownInv
<1>11. DownInv(e) /\ DownInv(f)
  BY <1>5, <1>7, <1>10
<1>12. UpInv(f)
  <2>1. ASSUME NEW m \in Running(f) PROVE AgentOwned(f, m)
    <3>1. CASE m = k
      BY <3>1, <1>3, <1>4, <1>6, <1>7 DEF AgentOwned
    <3>2. CASE m # k
      <4>1. m \in Running(x) /\ m \in Invocations /\ m \in Spawned(x)
        BY <1>7, <1>9, <2>1, <3>2 DEF Running, Spawned
      <4>2. f.inv[m] = x.inv[m] /\ x.inv[m].issue \in Issues
        BY <4>1, <3>2, <1>1, <1>4, <1>7 DEF Launched
      <4>3. CASE x.inv[m].issue = i
        BY <4>1, <4>2, <4>3, <1>7 DEF Phase, AgentOwned
      <4>4. CASE x.inv[m].issue # i
        <5>1. AgentOwned(x, m)
          BY <4>1, <4>4 DEF Phase
        <5> QED BY <5>1, <4>2, <4>4, <1>6, <1>7 DEF AgentOwned
      <4> QED BY <4>3, <4>4
    <3> QED BY <3>1, <3>2
  <2>2. \A j \in f.lease : f.job[j].status = "working"
    BY <1>7 DEF Phase
  <2> QED BY <2>1, <2>2 DEF UpInv
<1>13. f.lease = x.lease
  BY <1>7
<1>14. /\ [x EXCEPT !.inv[k] = [issue |-> i, key |-> Key(x, i), clone |-> c, state |-> "running"],
                     !.unrecorded = @ \union {i}] = e
       /\ [e EXCEPT !.process[i] = k] = f
  BY <1>a, <1>b DEF r
<1> QED BY <1>11, <1>12, <1>13, <1>14 DEF Spawns

\* How a launch ends: an agent runs and is its job's process, or the lease is
\* released and nothing was spawned.
Ends(s, i) ==
    /\ Safe(s)
    /\ \/ i \in Last(s).lease /\ UpInv(Last(s))
       \/ i \notin Last(s).lease /\ Phase(Last(s), i)

LEMMA LaunchFromRuns ==
    ASSUME NEW x, NEW i \in Issues, NEW fault, NEW c \in {x.job[i].clone, x.job[i].worker},
           Phase(x, i), Fresh(x, i), i \in x.lease, x.job[i].status \in LiveStatus
    PROVE  Ends(LaunchFrom(x, i, c, fault), i)
<1> DEFINE br == BranchOf(x, i)
           row == [x.job[i] EXCEPT !.branch = br, !.clone = c, !.status = "working"]
           b == [x EXCEPT !.job[i] = [@ EXCEPT !.branch = BranchOf(x, i), !.clone = c,
                                               !.status = "working"]]
           d == [b EXCEPT !.launch[i] = Key(x, i)]
           k == NextInvocation(x)
           e == [d EXCEPT !.inv[k] = [issue |-> i, key |-> Key(x, i), clone |-> c, state |-> "running"],
                          !.unrecorded = @ \union {i}]
           f == [e EXCEPT !.process[i] = k]
           fails == fault = "spawn" \/ Spawned(x) = Invocations \/ SpawnRefused(x, i, c)
<1>0. LaunchFrom(x, i, c, fault) =
         IF fails THEN <<x, b, d, Release(d, i)>> ELSE <<x, b, d, e, f>>
  BY DEF LaunchFrom
<1>1. Shaped(x) /\ Distinct(x) /\ x.job[i] \in Jobs
  BY DEF Phase, DownInv, Shaped
<1>2. c \in Workers \union {None}
  BY <1>1 DEF Jobs
<1>3. br \in (Issues \X Nat) \union {None}
  BY <1>1 DEF Jobs, BranchOf
<1>p. b = [x EXCEPT !.job[i] = row]
  BY <1>1 DEF Shaped, Core
<1> HIDE DEF br
<1>6. /\ row \in Jobs /\ row.status = "working" /\ row.clone = c /\ row.worker = x.job[i].worker
      /\ row.attempt = x.job[i].attempt /\ row.repairs = x.job[i].repairs
  BY <1>1, <1>2, <1>3 DEF Jobs, Statuses
<1> HIDE DEF row, b
<1>7. RowStep(x, row, i)
  <2>1. x.job[i].attempt \in Nat /\ x.job[i].repairs \in Nat
    BY <1>1 DEF Jobs
  <2>2. NotBehind(x.job[i], row)
    BY <1>6, <2>1 DEF NotBehind
  <2>3. row.clone \in {None, row.worker}
    BY <1>1, <1>6 DEF Distinct
  <2>4. \A j \in Issues \ {i} : x.job[j].status \in LiveStatus => x.job[j].worker # row.worker
    BY <1>1, <1>6 DEF Distinct
  <2> QED BY <2>2, <2>3, <2>4, <1>6 DEF RowStep
<1>8. Phase(b, i) /\ b.job[i] = row /\ b.lease = x.lease /\ b.inv = x.inv
  BY <1>6, <1>7, <1>p, RowKeeps
<1>9. Fresh(b, i) /\ Key(b, i) = Key(x, i)
  <2>1. Spawned(b) = Spawned(x)
    BY <1>8 DEF Spawned
  <2> QED BY <2>1, <1>6, <1>8 DEF Fresh, Key
<1>10. Phase(d, i) /\ d.job = b.job /\ d.lease = b.lease /\ d.inv = b.inv /\ Fresh(d, i)
  BY <1>8, <1>9, IntentKeeps
<1>11. Key(d, i) = Key(x, i)
  <2> HIDE DEF d
  <2> QED BY <1>9, <1>10 DEF Key
<1> HIDE DEF d
<1>13. /\ i \in d.lease /\ d.job[i].status = "working" /\ d.inv = x.inv
       /\ Spawned(d) = Spawned(x) /\ (Owned(d, c) <=> Owned(x, c))
  BY <1>6, <1>8, <1>10 DEF Spawned, Owned, Live
<1>14. ASSUME ~fails
       PROVE  DownInv(e) /\ DownInv(f) /\ UpInv(f) /\ f.lease = d.lease
  <2>1. k \in Invocations \ Spawned(d)
    BY <1>13, <1>14, NextInvocationIn
  <2> HIDE DEF k
  <2>2. e = [d EXCEPT !.inv[k] = [issue |-> i, key |-> Key(d, i), clone |-> c, state |-> "running"],
                      !.unrecorded = @ \union {i}]
    BY <1>11
  <2>3. f = [e EXCEPT !.process[i] = k]
    OBVIOUS
  <2> HIDE DEF e, f
  <2>4. ~Owned(d, c)
    BY <1>13, <1>14 DEF SpawnRefused
  <2>5. c \in Workers \union {None} /\ Phase(d, i) /\ Fresh(d, i) /\ i \in d.lease /\ d.job[i].status = "working"
    BY <1>2, <1>10, <1>13
  <2>6. Spawns(d, e, f, i, k, c)
    BY <2>2, <2>3 DEF Spawns
  <2> QED BY <2>1, <2>4, <2>5, <2>6, SpawnRuns
<1>16. Phase(Release(d, i), i) /\ i \notin Release(d, i).lease
  BY <1>10, ReleaseKeeps
<1>17. DownInv(x) /\ DownInv(b) /\ DownInv(d) /\ DownInv(Release(d, i))
  BY <1>8, <1>10, <1>16 DEF Phase
<1>19. Ends(<<x, b, d, Release(d, i)>>, i)
  BY <1>16, <1>17, SafeFour DEF Ends
<1>20. ASSUME ~fails
       PROVE  Ends(<<x, b, d, e, f>>, i)
  <2>1. DownInv(e) /\ DownInv(f) /\ UpInv(f) /\ i \in f.lease
    BY <1>13, <1>14, <1>20
  <2> HIDE DEF e, f
  <2>2. Safe(<<x, b, d, e, f>>) /\ Last(<<x, b, d, e, f>>) = f
    BY <1>17, <2>1, SafeFive
  <2> QED BY <2>1, <2>2 DEF Ends
<1> HIDE DEF e, f, fails
<1> QED BY <1>0, <1>19, <1>20

LEMMA RelaunchRuns ==
    ASSUME NEW x, NEW i \in Issues, NEW fault,
           Phase(x, i), Fresh(x, i), i \in x.lease, x.job[i].status \in LiveStatus
    PROVE  Ends(Relaunch(x, i, fault), i)
BY LaunchFromRuns DEF Relaunch

LEMMA EndsAfter ==
    ASSUME NEW x, NEW i, NEW s, DownInv(x), Ends(s, i)
    PROVE  Ends(<<x>> \o s, i)
<1>1. Safe(<<x>>)
  BY SafeOne
<1>2. Safe(<<x>> \o s) /\ Last(<<x>> \o s) = Last(s)
  BY <1>1, SafeConcat DEF Ends
<1> QED BY <1>2 DEF Ends

LEMMA LaunchRuns ==
    ASSUME NEW x, NEW i \in Issues, NEW fault,
           Phase(x, i), Fresh(x, i), i \in x.lease, x.job[i].status \in LiveStatus
    PROVE  Ends(Launch(x, i, fault), i)
<1> DEFINE c == x.job[i].worker
           b == BranchOf(x, i)
           p == Quarantined(x, c)
           q == OnBranch(p, c, b, {Main})
<1>1. \/ Launch(x, i, fault) = <<Release(x, i)>>
      \/ Launch(x, i, fault) = <<p, Release(p, i)>>
      \/ Launch(x, i, fault) = <<p>> \o LaunchFrom(q, i, c, fault)
  BY DEF Launch
<1>2. Core \subseteq DOMAIN x
  BY DEF Phase, DownInv, Shaped
<1>3. Kept(x, p)
  BY <1>2, PrepareCloneKept
<1> HIDE DEF p, b
<1>4. Kept(p, q)
  BY <1>3, OnBranchKept DEF Kept
<1> HIDE DEF q
<1>5. Phase(p, i)
  BY <1>3, KeptKeeps
<1>6. Phase(q, i) /\ Fresh(q, i) /\ i \in q.lease /\ q.job = x.job
  BY <1>3, <1>4, KeptTransitive, KeptKeeps DEF Kept
<1>7. Ends(LaunchFrom(q, i, c, fault), i)
  BY <1>6, LaunchFromRuns
<1>8. Ends(<<p>> \o LaunchFrom(q, i, c, fault), i)
  BY <1>5, <1>7, EndsAfter DEF Phase
<1>9. /\ Phase(Release(x, i), i) /\ i \notin Release(x, i).lease
      /\ Phase(Release(p, i), i) /\ i \notin Release(p, i).lease
  BY <1>5, ReleaseKeeps
<1>10. Ends(<<Release(x, i)>>, i)
  BY <1>9, SafeOne DEF Ends, Phase
<1>11. Ends(<<p, Release(p, i)>>, i)
  BY <1>5, <1>9, SafePair DEF Ends, Phase
<1> QED BY <1>1, <1>8, <1>10, <1>11

-------------------------------------------------------------------------------
(* Repairs and retries.                                                      *)

LEMMA EndsUp ==
    ASSUME NEW s, NEW i \in Issues, Ends(s, i)
    PROVE  Safe(s) /\ UpInv(Last(s))
BY Sealed DEF Ends

\* A larger key is fresh.
LEMMA LaterIsFresh ==
    ASSUME NEW x, NEW y, NEW i \in Issues, Phase(x, i), y.inv = x.inv, y.job[i] \in Jobs,
           \/ x.job[i].status = "none"
           \/ x.job[i].attempt < y.job[i].attempt
           \/ x.job[i].attempt = y.job[i].attempt /\ x.job[i].repairs < y.job[i].repairs
    PROVE  Fresh(y, i)
<1>1. Shaped(x) /\ Launched(x) /\ x.job[i] \in Jobs
  BY DEF Phase, DownInv, Shaped
<1>2. Spawned(y) = Spawned(x)
  BY DEF Spawned
<1> SUFFICES ASSUME NEW k \in Spawned(x), x.inv[k].issue = i
             PROVE  \/ x.inv[k].key[2] < y.job[i].attempt
                    \/ x.inv[k].key[2] = y.job[i].attempt /\ x.inv[k].key[3] < y.job[i].repairs
  BY <1>2 DEF Fresh
<1>3. x.inv[k].key \in Keys /\ x.job[i].status # "none"
  BY <1>1 DEF Launched
<1>4. x.inv[k].key[2] \in Nat /\ x.inv[k].key[3] \in Nat
  BY <1>3 DEF Keys
<1>5. \/ x.inv[k].key[2] < x.job[i].attempt
      \/ x.inv[k].key[2] = x.job[i].attempt /\ x.inv[k].key[3] <= x.job[i].repairs
  BY <1>1 DEF Launched, Behind
<1>6. /\ x.job[i].attempt \in Nat /\ x.job[i].repairs \in Nat
      /\ y.job[i].attempt \in Nat /\ y.job[i].repairs \in Nat
  BY <1>1 DEF Jobs
<1> QED BY <1>3, <1>4, <1>5, <1>6

\* repair ends with an agent at work, without one, or with a blocked job.
LEMMA RepairRuns ==
    ASSUME NEW x, NEW i \in Issues, NEW fault, Phase(x, i), x.job[i].status \in LiveStatus
    PROVE  Safe(Repair(x, i, fault)) /\ UpInv(Last(Repair(x, i, fault)))
<1> DEFINE a == [x EXCEPT !.lease = @ \union {i}]
           row == [a.job[i] EXCEPT !.repairs = a.job[i].repairs + 1, !.status = "working"]
           b == [a EXCEPT !.job[i].repairs = @ + 1, !.job[i].status = "working"]
           d == [a EXCEPT !.job[i].status = "blocked"]
           e == Release(d, i)
<1>0. Repair(x, i, fault) =
        IF x.job[i].repairs < MaxRepairs THEN <<a, b>> \o Relaunch(b, i, fault)
        ELSE <<a, d, e>> \o Block(e, i, "none")
  BY DEF Repair
<1>1. Phase(a, i) /\ a.job = x.job /\ i \in a.lease
  BY GrantKeeps
<1> HIDE DEF a
<1>2. Shaped(a) /\ Distinct(a) /\ a.job[i] \in Jobs /\ a.job[i].status \in LiveStatus
  BY <1>1 DEF Phase, DownInv, Shaped
<1>3. a.job[i].attempt \in Nat /\ a.job[i].repairs \in Nat
  BY <1>2 DEF Jobs
<1>4. b = [a EXCEPT !.job[i] = row]
  BY <1>2 DEF Shaped, Core
<1>5. /\ row \in Jobs /\ row.status = "working" /\ row.clone = a.job[i].clone
      /\ row.worker = a.job[i].worker
      /\ row.attempt = a.job[i].attempt /\ row.repairs = a.job[i].repairs + 1
  <2>1. a.job[i].repairs + 1 \in Nat
    BY <1>3
  <2> DEFINE more == a.job[i].repairs + 1
             old == a.job[i]
  <2>2. more \in Nat /\ old \in Jobs
    BY <1>2, <2>1
  <2>3. row = [old EXCEPT !.repairs = more, !.status = "working"]
    OBVIOUS
  <2> HIDE DEF more, old, row
  <2>4. /\ row \in Jobs /\ row.status = "working" /\ row.clone = old.clone
        /\ row.worker = old.worker /\ row.attempt = old.attempt /\ row.repairs = more
    BY <2>2, <2>3 DEF Jobs, Statuses
  <2> QED BY <2>4 DEF old, more
<1> HIDE DEF b, row
<1>6. RowStep(a, row, i)
  <2>1. NotBehind(a.job[i], row)
    BY <1>3, <1>5 DEF NotBehind
  <2>2. row.clone \in {None, row.worker}
    BY <1>2, <1>5 DEF Distinct
  <2>3. \A j \in Issues \ {i} : a.job[j].status \in LiveStatus => a.job[j].worker # row.worker
    BY <1>2, <1>5 DEF Distinct
  <2> QED BY <2>1, <2>2, <2>3, <1>5 DEF RowStep
<1>7. Phase(b, i) /\ b.job[i] = row /\ b.lease = a.lease /\ b.inv = a.inv
  BY <1>1, <1>4, <1>5, <1>6, RowKeeps
<1>8. Fresh(b, i)
  BY <1>1, <1>3, <1>5, <1>7, LaterIsFresh
<1>9. CASE x.job[i].repairs < MaxRepairs
  <2>1. Ends(Relaunch(b, i, fault), i)
    BY <1>1, <1>5, <1>7, <1>8, RelaunchRuns DEF LiveStatus
  <2>2. Safe(Relaunch(b, i, fault)) /\ UpInv(Last(Relaunch(b, i, fault)))
    BY <2>1, EndsUp
  <2>3. Safe(<<a, b>>)
    BY <1>1, <1>7, SafePair DEF Phase
  <2> QED BY <1>0, <1>9, <2>2, <2>3, SafeConcat
<1>10. CASE ~(x.job[i].repairs < MaxRepairs)
  <2>1. Phase(d, i)
    BY <1>1, BlockedKeeps
  <2> HIDE DEF d
  <2>2. Phase(e, i)
    BY <2>1, ReleaseKeeps
  <2> HIDE DEF e
  <2>3. Safe(<<a, d, e>>)
    BY <1>1, <2>1, <2>2, SafeThree DEF Phase
  <2>4. Safe(Block(e, i, "none")) /\ UpInv(Last(Block(e, i, "none")))
    BY <2>2, BlockRuns
  <2> QED BY <1>0, <1>10, <2>3, <2>4, SafeConcat
<1> QED BY <1>9, <1>10

\* A restore changes checkouts and branches only, in at most three commits.
OnlyGit(x, s) ==
    \E y, z, u : /\ Kept(x, y) /\ Kept(x, z) /\ Kept(x, u)
                /\ s \in {<<>>, <<y>>, <<y, z>>, <<y, z, u>>}

LEMMA RestoreKept ==
    ASSUME NEW x, NEW i, NEW b, NEW c, Core \subseteq DOMAIN x,
           NEW r, r = RestorePreserved(x, i, b, c) \/ r = FreshStart(x, b, c)
    PROVE  OnlyGit(x, r.steps)
<1> SUFFICES \E y, z, u : /\ Kept(x, y) /\ Kept(x, z) /\ Kept(x, u)
                         /\ r.steps \in {<<>>, <<y>>, <<y, z>>, <<y, z, u>>}
  BY DEF OnlyGit
<1>1. \A ok, s : Result(ok, s).steps = s
  BY DEF Result
<1>2. Kept(x, x)
  BY DEF Kept
<1>3. ASSUME NEW y, Kept(x, y), NEW d, NEW v PROVE Kept(x, OnBranch(y, d, b, v))
  BY <1>3, OnBranchKept, KeptTransitive DEF Kept
<1> DEFINE p == PrepareClone(x, c)
<1>4. Kept(x, p)
  BY PrepareCloneKept
<1> HIDE DEF p
<1>5. CASE \E ok : r = Result(ok, <<x>>) \/ r = Result(ok, <<p>>)
  BY <1>1, <1>2, <1>4, <1>5
<1>6. CASE \E v : r = Result(TRUE, <<OnBranch(x, c, b, v)>>)
  BY <1>1, <1>2, <1>3, <1>6
<1>7. CASE \E ok, v : r = Result(ok, <<p, OnBranch(p, c, b, v)>>)
  <2>1. PICK v : r.steps = <<p, OnBranch(p, c, b, v)>>
    BY <1>1, <1>7
  <2>2. Kept(x, OnBranch(p, c, b, v))
    BY <1>3, <1>4
  <2> QED BY <1>4, <2>1, <2>2
<1>8. CASE \E v, u : r = Result(TRUE, <<p, OnBranch(p, c, b, v), OnBranch(OnBranch(p, c, b, v), c, b, u)>>)
  <2>1. PICK v, u : r.steps = <<p, OnBranch(p, c, b, v), OnBranch(OnBranch(p, c, b, v), c, b, u)>>
    BY <1>1, <1>8
  <2>2. Kept(x, OnBranch(p, c, b, v))
    BY <1>3, <1>4
  <2>3. Kept(x, OnBranch(OnBranch(p, c, b, v), c, b, u))
    BY <1>3, <2>2
  <2> QED BY <1>4, <2>1, <2>2, <2>3
<1>9. CASE r = RestoreHere(x, i, b, c)
  <2>1. \/ r = Result(FALSE, <<x>>)
        \/ \E v : r = Result(TRUE, <<OnBranch(x, c, b, v)>>)
    BY <1>9 DEF RestoreHere
  <2> QED BY <1>5, <1>6, <2>1
<1>10. CASE r = RestoreThere(x, i, b, c)
  <2> DEFINE found == Fetched(p, i, b)
             f == OnBranch(p, c, b, found)
             head == IF x.recovery[i].head = {} THEN found ELSE x.recovery[i].head
  <2>1. \/ r = Result(FALSE, <<x>>) \/ r = Result(FALSE, <<p>>) \/ r = Result(FALSE, <<p, f>>)
        \/ r = Result(TRUE, <<p, f, OnBranch(f, c, b, head)>>)
    BY <1>10 DEF RestoreThere, p
  <2> HIDE DEF found, head
  <2> QED BY <1>5, <1>7, <1>8, <2>1
<1>11. CASE r = FreshStart(x, b, c)
  <2>1. \/ r = Result(FALSE, <<x>>) \/ r = Result(FALSE, <<p>>)
        \/ r = Result(TRUE, <<p, OnBranch(p, c, b, {Main})>>)
    BY <1>11 DEF FreshStart, p
  <2> QED BY <1>5, <1>7, <2>1
<1> QED BY <1>9, <1>10, <1>11 DEF RestorePreserved

\* git may fail after any of a restore's commits, and before the first.
LEMMA ShortPrefixes ==
    ASSUME NEW y, NEW z, NEW u
    PROVE  /\ SubSeq(<<y>>, 1, 0) = <<>> /\ SubSeq(<<y, z>>, 1, 0) = <<>>
           /\ SubSeq(<<y, z, u>>, 1, 0) = <<>>
           /\ SubSeq(<<y, z>>, 1, 1) = <<y>> /\ SubSeq(<<y, z, u>>, 1, 1) = <<y>>
           /\ SubSeq(<<y, z, u>>, 1, 2) = <<y, z>>
<1> DEFINE S == {y, z, u}
<1>1. <<y>> \in Seq(S) /\ <<y, z>> \in Seq(S) /\ <<y, z, u>> \in Seq(S)
  OBVIOUS
<1>2. /\ <<y, z>>[1] = y /\ <<y, z, u>>[1] = y /\ <<y, z, u>>[2] = z
      /\ Len(<<y>>) = 1 /\ Len(<<y, z>>) = 2 /\ Len(<<y, z, u>>) = 3
  OBVIOUS
<1>3. ASSUME NEW s \in Seq(S), NEW n \in 0 .. Len(s)
      PROVE  SubSeq(s, 1, n) \in Seq(S) /\ Len(SubSeq(s, 1, n)) = n
             /\ \A j \in 1 .. n : SubSeq(s, 1, n)[j] = s[j]
  OBVIOUS
<1>4. <<>> \in Seq(S) /\ Len(<<>>) = 0
  OBVIOUS
<1>5. ASSUME NEW s \in Seq(S), NEW t \in Seq(S), Len(s) = Len(t), \A j \in 1 .. Len(s) : s[j] = t[j]
      PROVE  s = t
  BY <1>5
<1> HIDE DEF S
<1>6. \A s \in Seq(S) : SubSeq(s, 1, 0) = <<>>
  BY <1>3, <1>4, <1>5
<1>7. ASSUME NEW s \in Seq(S), 1 <= Len(s), s[1] = y
      PROVE  SubSeq(s, 1, 1) = <<y>>
  <2> DEFINE t == SubSeq(s, 1, 1)
  <2>1. 1 \in 0 .. Len(s)
    BY <1>7
  <2>2. t \in Seq(S) /\ Len(t) = 1 /\ t[1] = s[1]
    BY <1>3, <2>1
  <2>3. <<y>> \in Seq(S) /\ Len(<<y>>) = 1 /\ <<y>>[1] = y
    BY <1>1
  <2> HIDE DEF t
  <2>4. t = <<y>>
    BY <1>5, <1>7, <2>2, <2>3
  <2> QED BY <2>4 DEF t
<1>8. SubSeq(<<y, z, u>>, 1, 2) = <<y, z>>
  <2> DEFINE s == <<y, z, u>>
             t == SubSeq(s, 1, 2)
             v == <<y, z>>
  <2>1. s \in Seq(S) /\ 2 \in 0 .. Len(s) /\ s[1] = y /\ s[2] = z
    BY <1>1, <1>2
  <2>2. v \in Seq(S) /\ Len(v) = 2 /\ v[1] = y /\ v[2] = z
    BY <1>1, <1>2
  <2> HIDE DEF s, v
  <2>3. t \in Seq(S) /\ Len(t) = 2 /\ t[1] = s[1] /\ t[2] = s[2]
    BY <1>3, <2>1
  <2> HIDE DEF t
  <2>4. Len(t) = Len(v) /\ \A j \in 1 .. Len(t) : t[j] = v[j]
    <3> SUFFICES ASSUME NEW j \in 1 .. 2 PROVE t[j] = v[j]
      BY <2>2, <2>3
    <3>1. j = 1 \/ j = 2
      OBVIOUS
    <3> QED BY <2>1, <2>2, <2>3, <3>1
  <2>5. t = v
    BY ONLY <1>5, <2>2, <2>3, <2>4
  <2> QED BY <2>5 DEF t, s, v
<1>9. SubSeq(<<y, z>>, 1, 1) = <<y>> /\ SubSeq(<<y, z, u>>, 1, 1) = <<y>>
  <2>1. 1 <= Len(<<y, z>>) /\ 1 <= Len(<<y, z, u>>)
    BY <1>2
  <2> QED BY <1>1, <1>2, <1>7, <2>1
<1> QED BY <1>1, <1>6, <1>8, <1>9

LEMMA CutKept ==
    ASSUME NEW x, NEW r, NEW n \in 0 .. MaxSteps, OnlyGit(x, r.steps)
    PROVE  OnlyGit(x, Cut(r, n).steps)
<1>1. PICK y, z, u : /\ Kept(x, y) /\ Kept(x, z) /\ Kept(x, u)
                     /\ r.steps \in {<<>>, <<y>>, <<y, z>>, <<y, z, u>>}
  BY DEF OnlyGit
<1>2. Cut(r, n).steps = r.steps \/ (n < Len(r.steps) /\ Cut(r, n).steps = SubSeq(r.steps, 1, n))
  <2>1. Len(r.steps) \in Nat
    BY <1>1
  <2> QED BY <2>1 DEF Cut, Result, MaxSteps
<1>3. CASE n < Len(r.steps) /\ Cut(r, n).steps = SubSeq(r.steps, 1, n)
  <2>1. Len(<<>>) = 0 /\ Len(<<y>>) = 1 /\ Len(<<y, z>>) = 2 /\ Len(<<y, z, u>>) = 3
    OBVIOUS
  <2>2. \/ r.steps = <<y>> /\ n = 0
        \/ r.steps = <<y, z>> /\ n \in {0, 1}
        \/ r.steps = <<y, z, u>> /\ n \in {0, 1, 2}
    <3>1. CASE r.steps = <<>>
      BY <1>3, <2>1, <3>1 DEF MaxSteps
    <3>2. CASE r.steps = <<y>>
      BY <1>3, <2>1, <3>2 DEF MaxSteps
    <3>3. CASE r.steps = <<y, z>>
      BY <1>3, <2>1, <3>3 DEF MaxSteps
    <3>4. CASE r.steps = <<y, z, u>>
      BY <1>3, <2>1, <3>4 DEF MaxSteps
    <3> QED BY <1>1, <3>1, <3>2, <3>3, <3>4
  <2>3. Cut(r, n).steps \in {<<>>, <<y>>, <<y, z>>}
    BY <1>3, <2>2, ShortPrefixes
  <2> QED BY <1>1, <2>3 DEF OnlyGit
<1> QED BY <1>2, <1>3

\* A handler's first two commits, and the restore's behind them.
LEMMA KeptSteps ==
    ASSUME NEW a, NEW b, NEW i \in Issues, Phase(b, i), DownInv(a), NEW s, OnlyGit(b, s)
    PROVE  Safe(<<a, b>> \o s) /\ Kept(b, Last(<<a, b>> \o s))
<1>1. PICK y, z, u : /\ Kept(b, y) /\ Kept(b, z) /\ Kept(b, u)
                     /\ s \in {<<>>, <<y>>, <<y, z>>, <<y, z, u>>}
  BY DEF OnlyGit
<1>2. DownInv(y) /\ DownInv(z) /\ DownInv(u) /\ DownInv(b)
  BY <1>1, KeptKeeps DEF Phase
<1>3. Safe(<<a, b>>) /\ Last(<<a, b>>) = b /\ Kept(b, b)
  <2>1. Kept(b, b)
    BY DEF Phase, DownInv, Shaped, Kept
  <2> QED BY <1>2, <2>1, SafePair
<1>4. CASE s = <<>>
  BY <1>3, <1>4, SafeEmpty
<1>5. CASE s # <<>>
  <2>1. Safe(s) /\ Kept(b, Last(s))
    BY <1>1, <1>2, <1>5, SafeOne, SafePair, SafeThree
  <2> QED BY <1>3, <2>1, SafeConcat
<1> QED BY <1>4, <1>5

-------------------------------------------------------------------------------
(* The handlers.                                                             *)

LEMMA KeptWorld ==
    ASSUME NEW x, NEW y, Kept(x, y), DownInv(x)
    PROVE  DownInv(y) /\ (UpInv(x) => UpInv(y))
<1>1. Live(y) = Live(x) /\ Spawned(y) = Spawned(x) /\ Running(y) = Running(x)
  BY DEF Kept, Live, Spawned, Running
<1>2. Shaped(y)
  BY DEF Kept, DownInv, Shaped
<1>3. Distinct(y) /\ OneWriter(y) /\ Processes(y) /\ Intents(y)
  BY <1>1 DEF Kept, DownInv, Distinct, OneWriter, Processes, Intents
<1>4. Launched(y)
  BY <1>1 DEF Kept, DownInv, Launched, Behind
<1>5. UniqueKeys(y) /\ Leased(y)
  BY <1>1 DEF Kept, DownInv, UniqueKeys, Leased
<1>6. UpInv(x) => UpInv(y)
  BY <1>1 DEF Kept, UpInv, AgentOwned
<1> QED BY <1>2, <1>3, <1>4, <1>5, <1>6 DEF DownInv

\* A blocked job that recover_job takes up: restored or not, launched or not.
LEMMA RecoverRuns ==
    ASSUME NEW i \in Issues, NEW c \in Workers, NEW git \in 0 .. MaxSteps, NEW fault,
           Phase(w, i), w.job[i].status = "blocked"
    PROVE  Safe(RecoverJob(i, c, git, fault)) /\ UpInv(Last(RecoverJob(i, c, git, fault)))
<1> DEFINE rec == w.recovery[i]
           br == IF rec.branch # None THEN rec.branch ELSE BranchOf(w, i)
           granted == [w EXCEPT !.lease = @ \union {i}]
           a == [w EXCEPT !.lease = @ \union {i},
                          !.outdated = @ \union ({i} \intersect w.unrecorded)]
           named == [a EXCEPT !.recovery[i].branch = br]
           whole == IF rec.work = "yes" THEN RestorePreserved(named, i, br, c)
                    ELSE FreshStart(named, br, c)
           restored == Cut(whole, git)
           head == <<a, named>> \o restored.steps
           z == Last(head)
           e == Release(z, i)
           failed == [e EXCEPT !.recovery[i].attempts = @ + 1,
                               !.retry[i] = @ /\ rec.attempts + 1 < MaxRecoveries]
           b == [z EXCEPT !.job[i] = [@ EXCEPT !.worker = c, !.clone = c]]
           taken == \E j \in LiveJobs(w) : w.job[j].worker = c
           d == [b EXCEPT !.job[i].status = "working", !.job[i].attempt = @ + 1, !.job[i].repairs = 0]
           launch == Relaunch(d, i, fault)
           cleared == [Last(launch) EXCEPT !.retry[i] = FALSE]
<1>0. RecoverJob(i, c, git, fault) =
        IF ~restored.ok THEN head \o <<e, failed>>
        ELSE IF taken THEN head \o <<b, Release(b, i)>>
        ELSE head \o <<b, d>> \o launch \o
             IF Raised(launch, i) THEN <<>> ELSE <<cleared>>
  BY DEF RecoverJob
<1>1. Phase(a, i) /\ a.job = w.job /\ i \in a.lease
  <2>1. Phase(granted, i) /\ granted.job = w.job /\ i \in granted.lease
    BY GrantKeeps
  <2>2. a = [granted EXCEPT !.outdated = @ \union ({i} \intersect w.unrecorded)]
    OBVIOUS
  <2> HIDE DEF a, granted
  <2>3. Kept(granted, a)
    BY <2>1, <2>2 DEF Kept, Core, Phase, DownInv, Shaped
  <2> QED BY <2>1, <2>3, KeptKeeps DEF Kept
<1> HIDE DEF granted, a
<1>2. Core \subseteq DOMAIN a
  BY <1>1 DEF Phase, DownInv, Shaped
<1> HIDE DEF br, rec
<1>3. Kept(a, named)
  BY <1>2 DEF Kept, Core
<1> HIDE DEF named
<1>4. Phase(named, i) /\ named.job = w.job /\ i \in named.lease /\ Core \subseteq DOMAIN named
  BY <1>1, <1>3, KeptKeeps DEF Kept
<1>5. OnlyGit(named, whole.steps)
  <2>1. whole = RestorePreserved(named, i, br, c) \/ whole = FreshStart(named, br, c)
    OBVIOUS
  <2> HIDE DEF whole
  <2> QED BY <1>4, <2>1, RestoreKept
<1> HIDE DEF whole
<1>6. OnlyGit(named, restored.steps)
  BY <1>5, CutKept
<1> HIDE DEF restored
<1>7. Safe(head) /\ Kept(named, z)
  BY <1>1, <1>4, <1>6, KeptSteps DEF Phase
<1> HIDE DEF head
<1>8. Phase(z, i) /\ z.job = w.job /\ i \in z.lease
  <2> HIDE DEF z
  <2> QED BY <1>4, <1>7, KeptKeeps DEF Kept
<1> HIDE DEF z
<1>9. RecoverJob(i, c, git, fault) =
        IF ~restored.ok THEN head \o <<e, failed>>
        ELSE IF taken THEN head \o <<b, Release(b, i)>>
        ELSE ((head \o <<b, d>>) \o launch) \o IF Raised(launch, i) THEN <<>> ELSE <<cleared>>
  <2> HIDE DEF failed, d, launch, cleared, taken, e, b
  <2> QED BY <1>0
<1>7a. e = Release(z, i) /\ b = [z EXCEPT !.job[i] = [@ EXCEPT !.worker = c, !.clone = c]]
  <2> HIDE DEF failed, d, launch, cleared, taken
  <2> QED OBVIOUS
<1> HIDE DEF e, b
<1>10. ASSUME NEW t, Safe(t), UpInv(Last(t))
       PROVE  Safe(head \o t) /\ UpInv(Last(head \o t))
  BY <1>7, <1>10, SafeConcat
<1>11. Safe(<<e, failed>>) /\ UpInv(Last(<<e, failed>>))
  <2>1. Phase(e, i) /\ i \notin e.lease
    BY <1>8, <1>7a, ReleaseKeeps
  <2>2. DownInv(e) /\ UpInv(e)
    BY <2>1, Sealed
  <2>3. Kept(e, failed)
    BY <2>2 DEF DownInv, Shaped, Kept, Core
  <2> HIDE DEF failed
  <2>4. DownInv(failed) /\ UpInv(failed)
    BY <2>2, <2>3, KeptWorld
  <2> QED BY <2>2, <2>4, SafePair
<1> DEFINE row == [z.job[i] EXCEPT !.worker = c, !.clone = c]
<1>12. Shaped(z) /\ z.job[i] \in Jobs /\ z.job[i].status = "blocked"
  BY <1>8 DEF Phase, DownInv, Shaped
<1>13. z.job[i].attempt \in Nat /\ z.job[i].repairs \in Nat
  BY <1>12 DEF Jobs
<1>14. b = [z EXCEPT !.job[i] = row]
  BY <1>7a, <1>12 DEF Shaped, Core
<1>15. /\ row \in Jobs /\ row.status = "blocked" /\ row.worker = c /\ row.clone = c
       /\ row.attempt = z.job[i].attempt /\ row.repairs = z.job[i].repairs
  BY <1>12 DEF Jobs
<1> HIDE DEF row
<1>16. RowStep(z, row, i)
  BY <1>13, <1>15 DEF RowStep, NotBehind, LiveStatus
<1>17. /\ Phase(b, i) /\ b.job[i] = row /\ b.lease = z.lease /\ b.inv = z.inv
       /\ b.job = [z.job EXCEPT ![i] = row]
  BY <1>8, <1>14, <1>15, <1>16, RowKeeps
<1>18. Safe(<<b, Release(b, i)>>) /\ UpInv(Last(<<b, Release(b, i)>>))
  <2>1. Phase(Release(b, i), i) /\ i \notin Release(b, i).lease
    BY <1>17, ReleaseKeeps
  <2>2. DownInv(b) /\ DownInv(Release(b, i)) /\ UpInv(Release(b, i))
    BY <2>1, <1>17, Sealed DEF Phase
  <2> QED BY <2>2, SafePair
<1>19. ASSUME ~taken
       PROVE  /\ Safe((head \o <<b, d>>) \o launch)
              /\ Ends(launch, i) /\ Last((head \o <<b, d>>) \o launch) = Last(launch)
  <2> DEFINE old == b.job[i]
             more == old.attempt + 1
             again == [old EXCEPT !.status = "working", !.attempt = more, !.repairs = 0]
  <2>1. Shaped(b) /\ old \in Jobs /\ old.attempt \in Nat /\ more \in Nat /\ old.worker = c /\ old.clone = c
    BY <1>13, <1>15, <1>17 DEF Phase, DownInv
  <2>5. d = [b EXCEPT !.job[i] = again]
    BY <2>1 DEF Shaped, Core
  <2>4. /\ again \in Jobs /\ again.status = "working" /\ again.worker = c /\ again.clone = c
        /\ again.attempt = more /\ again.repairs = 0
    <3> HIDE DEF old, more
    <3> QED BY <2>1 DEF Jobs, Statuses
  <2> HIDE DEF d, again
  <2>6. b.job[i].attempt < again.attempt /\ b.job[i].status # "none"
    BY <2>1, <2>4, <1>15, <1>17
  <2>7. RowStep(b, again, i)
    <3>1. ASSUME NEW j \in Issues \ {i}, b.job[j].status \in LiveStatus PROVE b.job[j].worker # c
      <4>1. b.job[j] = w.job[j]
        BY <1>8, <1>12, <1>17 DEF Shaped
      <4>2. j \in LiveJobs(w)
        BY <4>1, <3>1 DEF LiveJobs, LiveStatus
      <4> QED BY <4>1, <4>2, <1>19
    <3> QED BY <3>1, <2>4, <2>6 DEF RowStep, NotBehind
  <2>8. Phase(d, i) /\ d.job[i] = again /\ d.lease = b.lease /\ d.inv = b.inv
    BY <1>17, <2>4, <2>5, <2>7, RowKeeps
  <2>9. Fresh(d, i)
    BY <1>17, <2>4, <2>6, <2>8, LaterIsFresh
  <2>10. Ends(launch, i)
    BY <1>8, <1>17, <2>4, <2>8, <2>9, RelaunchRuns DEF LiveStatus
  <2>11. Safe(<<b, d>>)
    BY <1>17, <2>8, SafePair DEF Phase
  <2>12. Safe(head \o <<b, d>>)
    BY <1>7, <2>11, SafeConcat
  <2> HIDE DEF launch
  <2> QED BY <2>10, <2>12, SafeConcat DEF Ends
<1>20. ASSUME ~taken
       PROVE  LET all == ((head \o <<b, d>>) \o launch) \o IF Raised(launch, i) THEN <<>> ELSE <<cleared>>
              IN  Safe(all) /\ UpInv(Last(all))
  <2> DEFINE t == (head \o <<b, d>>) \o launch
  <2>1. Safe(t) /\ Ends(launch, i) /\ Last(t) = Last(launch)
    BY <1>19, <1>20
  <2>2. UpInv(Last(launch)) /\ DownInv(Last(launch))
    <3>1. UpInv(Last(launch)) /\ Safe(launch)
      <4> HIDE DEF launch
      <4> QED BY <2>1, EndsUp
    <3>2. PICK S : launch \in Seq(S) /\ launch # <<>> /\ \A x \in S : DownInv(x)
      BY <3>1 DEF Safe
    <3>3. Last(launch) \in S
      <4> HIDE DEF launch
      <4> QED BY <3>2 DEF Last
    <3> QED BY <3>1, <3>2, <3>3
  <2> HIDE DEF t, launch
  <2>3. CASE Raised(launch, i)
    BY <2>1, <2>2, <2>3, SafeEmpty DEF t
  <2>4. CASE ~Raised(launch, i)
    <3>1. Kept(Last(launch), cleared)
      BY <2>2 DEF DownInv, Shaped, Kept, Core
    <3> HIDE DEF cleared
    <3>2. DownInv(cleared) /\ UpInv(cleared)
      BY <2>2, <3>1, KeptWorld
    <3>3. Safe(<<cleared>>) /\ Last(<<cleared>>) = cleared
      BY <3>2, SafeOne
    <3>4. Safe(t \o <<cleared>>) /\ Last(t \o <<cleared>>) = cleared
      BY <2>1, <3>3, SafeConcat
    <3> QED BY <2>4, <3>2, <3>4 DEF t
  <2> QED BY <2>3, <2>4
<1> HIDE DEF failed, d, launch, cleared, taken
<1>21. CASE ~restored.ok
  BY <1>9, <1>10, <1>11, <1>21
<1>22. CASE restored.ok /\ taken
  BY <1>9, <1>10, <1>18, <1>22
<1>23. CASE restored.ok /\ ~taken
  BY <1>9, <1>20, <1>23
<1> QED BY ONLY <1>21, <1>22, <1>23

-------------------------------------------------------------------------------
(* Every step.                                                               *)

\* What holds of every reachable state.
PoolInv == DownInv(w) /\ (up => UpInv(w))

LEMMA Idle ==
    ASSUME NEW i \in Issues, PoolInv, up,
           \/ w.job[i].status # "working"
           \/ i \notin w.listed
           \/ w.process[i] = 0
           \/ Receipt(i) \in {"ok", "failed", "killed", "lost"}
    PROVE  Phase(w, i)
<1>1. DownInv(w) /\ UpInv(w)
  BY DEF PoolInv
<1>2. ASSUME NEW k \in Running(w), AgentOwned(w, k), w.inv[k].issue = i PROVE i \notin w.listed
  <2>1. k # 0 /\ w.inv[k].state = "running"
    BY <1>2, PoolAssumption DEF Running, Invocations
  <2> QED BY <1>2, <2>1 DEF AgentOwned, Receipt
<1> QED BY <1>1, <1>2, Begin

LEMMA DispatchStep ==
    ASSUME NEW i \in Issues, NEW c \in Workers, NEW fault, PoolInv, Dispatch(i, c, fault)
    PROVE  PoolInv'
<1> DEFINE a == [w EXCEPT !.lease = @ \union {i}]
           row == [NoJob EXCEPT !.status = "working", !.worker = c, !.attempt = 1]
           b == [a EXCEPT !.job[i] = row]
           launch == Launch(b, i, fault)
           tail == IF Raised(launch, i) THEN Block(Last(launch), i, "none") ELSE <<>>
           trace == (<<a, b>> \o launch) \o tail
<1>1. /\ up /\ w.job[i].status = "none" /\ c \in FreeWorkers(w)
      /\ Perform(trace, fault # "none")
  BY DEF Dispatch
<1>2. Phase(w, i)
  BY <1>1, Idle
<1>3. Phase(a, i) /\ a.job = w.job /\ i \in a.lease
  BY <1>2, GrantKeeps
<1> HIDE DEF a
<1>4. /\ row \in Jobs /\ row.status = "working" /\ row.worker = c /\ row.clone = None
  BY DEF NoJob, Jobs, Statuses
<1> HIDE DEF row
<1>5. RowStep(a, row, i)
  <2>1. ASSUME NEW j \in Issues \ {i}, a.job[j].status \in LiveStatus PROVE a.job[j].worker # c
    BY <1>1, <1>3, <2>1 DEF FreeWorkers, LiveJobs, LiveStatus
  <2> QED BY <1>1, <1>3, <1>4, <2>1 DEF RowStep
<1>6. Phase(b, i) /\ b.job[i] = row /\ b.lease = a.lease /\ b.inv = a.inv
  BY <1>3, <1>4, <1>5, RowKeeps
<1> HIDE DEF b
<1>7. Fresh(b, i)
  BY <1>1, <1>3, <1>4, <1>6, LaterIsFresh
<1>8. Ends(launch, i)
  BY <1>3, <1>4, <1>6, <1>7, LaunchRuns DEF LiveStatus
<1> HIDE DEF launch
<1>9. Safe(<<a, b>>)
  BY <1>3, <1>6, SafePair DEF Phase
<1> DEFINE t == <<a, b>> \o launch
<1>10. Safe(t) /\ Last(t) = Last(launch)
  BY <1>8, <1>9, SafeConcat DEF Ends
<1> HIDE DEF t
<1>11. Safe(t \o tail) /\ UpInv(Last(t \o tail))
  <2>1. CASE Raised(launch, i)
    <3>1. Phase(Last(launch), i)
      BY <1>8, <2>1 DEF Raised, Ends
    <3>2. Safe(tail) /\ UpInv(Last(tail))
      BY <2>1, <3>1, BlockRuns
    <3> HIDE DEF tail
    <3> QED BY <1>10, <3>2, SafeConcat
  <2>2. CASE ~Raised(launch, i)
    <3>1. tail = <<>>
      BY <2>2
    <3> HIDE DEF tail
    <3>2. UpInv(Last(launch))
      BY <1>8, EndsUp
    <3> QED BY <1>10, <3>1, <3>2, SafeEmpty
  <2> QED BY <2>1, <2>2
<1>12. trace = t \o tail
  BY DEF t
<1> HIDE DEF trace, tail
<1> QED BY <1>1, <1>11, <1>12, PerformKeeps DEF PoolInv

LEMMA ReconcileMissingStep ==
    ASSUME NEW i \in Issues, NEW survey, PoolInv, ReconcileMissing(i, survey)
    PROVE  PoolInv'
<1> DEFINE x == [w EXCEPT !.parked = IF i \in w.listed THEN @ \union {<<i, w.job[i].attempt>>} ELSE @]
<1>1. up /\ (i \notin w.listed \/ w.process[i] = 0) /\ Perform(Block(x, i, survey), survey # "none")
  BY DEF ReconcileMissing
<1>2. Phase(w, i)
  BY <1>1, Idle
<1>3. Kept(w, x)
  BY <1>2 DEF Phase, DownInv, Shaped, Kept, Core
<1> HIDE DEF x
<1>4. Phase(x, i)
  BY <1>2, <1>3, KeptKeeps
<1> QED BY <1>1, <1>4, BlockRuns, PerformKeeps DEF PoolInv

LEMMA ReconcileFailedStep ==
    ASSUME NEW i \in Issues, NEW survey, PoolInv, ReconcileFailed(i, survey)
    PROVE  PoolInv'
<1> DEFINE a == Release(w, i)
           r == IF Receipt(i) = "killed" THEN <<a>> \o Requeue(a, i) ELSE <<a>>
<1>1. /\ up /\ Receipt(i) \in {"failed", "killed", "lost"}
      /\ Perform(r \o Block(Last(r), i, survey), survey # "none")
  BY DEF ReconcileFailed
<1>2. Phase(w, i)
  BY <1>1, Idle
<1>3. Phase(a, i)
  BY <1>2, ReleaseKeeps
<1> HIDE DEF a
<1>4. Safe(<<a>>) /\ Last(<<a>>) = a
  BY <1>3, SafeOne DEF Phase
<1>5. Safe(r) /\ Phase(Last(r), i)
  <2>1. CASE r = <<a>>
    BY <1>3, <1>4, <2>1
  <2>2. CASE r # <<a>>
    <3> DEFINE b == [a EXCEPT !.recovery[i].requeues = @ + 1]
               d == [b EXCEPT !.retry[i] = TRUE]
    <3>1. r = <<a>> \o <<b, d>>
      BY <1>4, <2>2, SafeEmpty DEF Requeue
    <3>2. Kept(a, b)
      BY <1>3 DEF Phase, DownInv, Shaped, Kept, Core
    <3> HIDE DEF b
    <3>3. Kept(b, d)
      BY <3>2 DEF Kept, Core
    <3> HIDE DEF d, r
    <3>4. Phase(b, i) /\ Phase(d, i)
      BY <1>3, <3>2, <3>3, KeptKeeps
    <3>5. Safe(<<b, d>>) /\ Last(<<b, d>>) = d
      BY <3>4, SafePair DEF Phase
    <3> QED BY <1>4, <3>1, <3>4, <3>5, SafeConcat
  <2> QED BY <2>1, <2>2
<1> HIDE DEF r
<1>6. Safe(Block(Last(r), i, survey)) /\ UpInv(Last(Block(Last(r), i, survey)))
  BY <1>5, BlockRuns
<1>7. /\ Safe(r \o Block(Last(r), i, survey))
      /\ UpInv(Last(r \o Block(Last(r), i, survey)))
  BY <1>5, <1>6, SafeConcat
<1> QED BY <1>1, <1>7, PerformKeeps DEF PoolInv

LEMMA RepairStep ==
    ASSUME NEW i \in Issues, NEW fault, PoolInv, up,
           \/ w.job[i].status = "working" /\ Receipt(i) = "ok"
           \/ w.job[i].status = "pr-open",
           Perform(Repair(w, i, fault), fault # "none")
    PROVE  PoolInv'
<1>1. Phase(w, i) /\ w.job[i].status \in LiveStatus
  BY Idle DEF LiveStatus
<1> QED BY <1>1, RepairRuns, PerformKeeps DEF PoolInv

LEMMA PublishRuns ==
    ASSUME NEW i \in Issues, PoolInv, up, w.job[i].status = "working", Receipt(i) = "ok"
    PROVE  /\ Safe(Publish(i)) /\ UpInv(Last(Publish(i)))
           /\ \A n \in 1 .. 3 : Kept(w, Publish(i)[n])
<1> DEFINE c == w.job[i].clone
           a == [w EXCEPT !.clone[c] = Committed(@, w.job[i].branch)]
           b == [a EXCEPT !.remote[w.job[i].branch] = w.clone[c].tree]
           d == [b EXCEPT !.pr[i] = IF @ = "none" THEN "open" ELSE @]
           e == [d EXCEPT !.job[i].status = "pr-open"]
           f == [e EXCEPT !.process[i] = 0]
           g == Release(f, i)
<1>1. Publish(i) = <<a, b, d, e, f, g>>
  BY DEF Publish
<1>2. Phase(w, i)
  BY Idle
<1>3. Kept(w, a)
  BY <1>2 DEF Phase, DownInv, Shaped, Kept, Core
<1> HIDE DEF a
<1>4. Kept(a, b)
  BY <1>3 DEF Kept, Core
<1> HIDE DEF b
<1>5. Kept(b, d)
  BY <1>4 DEF Kept, Core
<1> HIDE DEF d
<1>6. Kept(w, b) /\ Kept(w, d)
  BY <1>3, <1>4, <1>5, KeptTransitive
<1>7. Phase(a, i) /\ Phase(b, i) /\ Phase(d, i)
  BY <1>2, <1>3, <1>6, KeptKeeps
<1>8. d.job[i].status \in LiveStatus
  BY <1>6 DEF Kept, LiveStatus
<1>9. Phase(e, i)
  BY <1>7, <1>8, StatusKeeps
<1> HIDE DEF e
<1>10. Phase(f, i)
  BY <1>9, ClearKeeps
<1> HIDE DEF f
<1>11. Phase(g, i) /\ i \notin g.lease
  BY <1>10, ReleaseKeeps
<1> HIDE DEF g
<1>12. UpInv(g)
  BY <1>11, Sealed
<1> DEFINE S == {a, b, d, e, f, g}
<1>13. <<a, b, d, e, f, g>> \in Seq(S) /\ <<a, b, d, e, f, g>> # <<>> /\ \A x \in S : DownInv(x)
  BY <1>7, <1>9, <1>10, <1>11 DEF Phase
<1> HIDE DEF S
<1>14. Safe(<<a, b, d, e, f, g>>)
  BY <1>13, SafeBy
<1>15. Last(<<a, b, d, e, f, g>>) = g
  BY DEF Last
<1>16. \A n \in 1 .. 3 : Kept(w, <<a, b, d, e, f, g>>[n])
  BY <1>3, <1>6
<1> QED BY <1>1, <1>12, <1>14, <1>15, <1>16

\* Agents that end or are being stopped.
LEMMA FewerAgents ==
    ASSUME NEW x, NEW y, DownInv(x), Core \subseteq DOMAIN y,
           y.job = x.job, y.process = x.process, y.launch = x.launch,
           y.lease = x.lease, y.listed = x.listed,
           y.inv \in [Invocations -> InvocationRecords],
           \A k \in Invocations :
              /\ y.inv[k].issue = x.inv[k].issue /\ y.inv[k].key = x.inv[k].key
              /\ y.inv[k].clone = x.inv[k].clone
              /\ y.inv[k].state = "none" <=> x.inv[k].state = "none"
              /\ y.inv[k].state \in {"running", "stopping", "lost"} => x.inv[k].state \in {"running", "stopping", "lost"}
              /\ y.inv[k].state = "running" => x.inv[k].state = "running"
    PROVE  DownInv(y) /\ (UpInv(x) => UpInv(y))
<1>1. Live(y) \subseteq Live(x) /\ Spawned(y) = Spawned(x) /\ Running(y) \subseteq Running(x)
  BY DEF Live, Spawned, Running
<1>2. Spawned(x) \subseteq Invocations /\ Running(x) \subseteq Invocations /\ Live(x) \subseteq Invocations
  BY DEF Live, Spawned, Running
<1>3. Shaped(y)
  BY DEF DownInv, Shaped
<1>4. Distinct(y) /\ Intents(y)
  BY DEF DownInv, Distinct, Intents
<1>5. OneWriter(y)
  BY <1>1, <1>2 DEF DownInv, OneWriter
<1>6. Processes(y)
  BY <1>1, <1>2 DEF DownInv, Processes
<1>7. Launched(y)
  BY <1>1, <1>2 DEF DownInv, Launched, Behind
<1>8. UniqueKeys(y)
  BY <1>1, <1>2 DEF DownInv, UniqueKeys
<1>9. Leased(y)
  BY <1>1, <1>2 DEF DownInv, Leased
<1>10. UpInv(x) => UpInv(y)
  BY <1>1, <1>2 DEF UpInv, AgentOwned
<1> QED BY <1>3, <1>4, <1>5, <1>6, <1>7, <1>8, <1>9, <1>10 DEF DownInv

\* recover_processes and reconcile: after a restart the supervisor knows every
\* agent that runs, whatever commit the crash came after.
LEMMA RecoveredUp ==
    ASSUME NEW x, DownInv(x)
    PROVE  DownInv(Recovered(x)) /\ UpInv(Recovered(x))
<1> DEFINE working == {i \in Issues : x.job[i].status = "working"}
           known == {x.process[i] : i \in working}
           adopted(i) == {k \in Spawned(x) \ known :
                             /\ i \in working /\ x.process[i] = 0 /\ x.inv[k].key = x.launch[i]}
           orphans == {k \in Live(x) \ known :
                          x.inv[k].state # "lost" /\ \A i \in Issues : k \notin adopted(i)}
           P == [i \in Issues |->
                   IF adopted(i) # {} THEN CHOOSE k \in adopted(i) : TRUE ELSE x.process[i]]
           N == [k \in Invocations |->
                   IF k \in orphans THEN [x.inv[k] EXCEPT !.state = "stopping"] ELSE x.inv[k]]
           L == x.lease \intersect working
           y == Recovered(x)
           z == [x EXCEPT !.inv = N]
<1>1. /\ Shaped(x) /\ Processes(x) /\ Intents(x) /\ Launched(x) /\ UniqueKeys(x) /\ Leased(x)
  BY DEF DownInv
<1>2. y = [x EXCEPT !.process = P, !.inv = N, !.integrity = @ \/ orphans # {}, !.lease = L]
  BY <1>1 DEF Recovered, Shaped, Core
<1>3. ASSUME NEW i \in Issues, NEW k \in adopted(i)
      PROVE  /\ x.inv[k].issue = i /\ k \in Spawned(x) /\ k \in Invocations
             /\ adopted(i) = {k} /\ i \in working /\ x.process[i] = 0
  <2>1. k \in Spawned(x) /\ i \in working /\ x.process[i] = 0 /\ x.inv[k].key = x.launch[i]
    BY <1>3
  <2>2. x.inv[k].key \in Keys /\ x.inv[k].key[1] = x.inv[k].issue
    BY <1>1, <2>1 DEF Launched
  <2>3. <<>> \notin Keys
    BY DEF Keys
  <2>4. x.inv[k].issue = i
    BY <1>1, <2>1, <2>2, <2>3 DEF Intents
  <2>5. ASSUME NEW m \in adopted(i) PROVE m = k
    BY <1>1, <2>1, <2>5 DEF UniqueKeys
  <2>6. k \in Invocations
    BY <2>1 DEF Spawned
  <2> HIDE DEF adopted, working
  <2> QED BY <2>1, <2>4, <2>5, <2>6, <1>3
<1>4. /\ orphans \subseteq Live(x) /\ Live(x) \subseteq Invocations
      /\ \A k \in orphans : x.inv[k].state \in {"running", "stopping"}
  BY DEF Live
<1>5. \A i \in Issues : P[i] = IF adopted(i) # {} THEN CHOOSE k \in adopted(i) : TRUE ELSE x.process[i]
  <2> HIDE DEF adopted, working, known, orphans, N, L, y
  <2> QED OBVIOUS
<1>6. ASSUME NEW i \in Issues
      PROVE  P[i] \in Invocations \union {0} /\ (P[i] # 0 => P[i] \in Spawned(x) /\ x.inv[P[i]].issue = i)
  <2>1. CASE adopted(i) = {}
    <3> HIDE DEF adopted, P
    <3>1. P[i] = x.process[i]
      BY <1>5, <2>1
    <3> QED BY <1>1, <3>1 DEF Shaped, Processes
  <2>2. CASE adopted(i) # {}
    <3>1. P[i] \in adopted(i)
      <4> HIDE DEF adopted, P
      <4> QED BY <1>5, <2>2
    <3> HIDE DEF P
    <3> QED BY <1>3, <3>1
  <2> HIDE DEF adopted, P
  <2> QED BY <2>1, <2>2
<1>7. P \in [Issues -> Invocations \union {0}]
  <2> HIDE DEF adopted
  <2>1. \A i \in Issues : P[i] \in Invocations \union {0}
    BY <1>6
  <2> QED BY <2>1
<1>8. N \in [Invocations -> InvocationRecords]
  <2> SUFFICES ASSUME NEW k \in Invocations
               PROVE  (IF k \in orphans THEN [x.inv[k] EXCEPT !.state = "stopping"] ELSE x.inv[k]) \in InvocationRecords
    OBVIOUS
  <2>1. x.inv[k] \in InvocationRecords
    BY <1>1 DEF Shaped
  <2>2. [x.inv[k] EXCEPT !.state = "stopping"] \in InvocationRecords
    BY <2>1 DEF InvocationRecords, States
  <2> QED BY <2>1, <2>2
<1>9. ASSUME NEW k \in Invocations
      PROVE  /\ N[k].issue = x.inv[k].issue /\ N[k].key = x.inv[k].key /\ N[k].clone = x.inv[k].clone
             /\ k \in orphans => N[k].state = "stopping"
             /\ k \notin orphans => N[k].state = x.inv[k].state
  <2>1. x.inv[k] \in InvocationRecords
    BY <1>1 DEF Shaped
  <2>2. N[k] = IF k \in orphans THEN [x.inv[k] EXCEPT !.state = "stopping"] ELSE x.inv[k]
    OBVIOUS
  <2> HIDE DEF N, orphans
  <2> QED BY <2>1, <2>2 DEF InvocationRecords
<1>10. L \subseteq Issues /\ L \subseteq x.lease /\ \A i \in Issues : x.job[i].status = "working" /\ i \in x.lease => i \in L
  BY DEF L
<1>11. \A i \in L : x.job[i].status = "working"
  <2> HIDE DEF adopted, known, orphans, P, N, y, working
  <2> QED BY DEF working
<1>12. ASSUME NEW k \in Running(x), k \notin orphans
       PROVE  /\ x.inv[k].issue \in Issues
              /\ x.job[x.inv[k].issue].status = "working" /\ P[x.inv[k].issue] = k
  <2>1. k \in Live(x) /\ k \in Invocations /\ x.inv[k].state # "lost"
    BY DEF Running, Live
  <2>2. CASE k \in known
    <3>1. PICK i \in working : k = x.process[i]
      BY <2>2
    <3>2. i \in Issues /\ x.job[i].status = "working"
      BY <3>1
    <3>3. k # 0
      BY <2>1, PoolAssumption DEF Invocations
    <3>4. x.inv[k].issue = i
      BY <1>1, <3>1, <3>2, <3>3 DEF Processes
    <3>5. adopted(i) = {}
      BY <3>1, <3>3
    <3>6. P[i] = x.process[i]
      <4> HIDE DEF adopted, P
      <4> QED BY <1>5, <3>2, <3>5
    <3> QED BY <3>1, <3>2, <3>4, <3>6
  <2>3. CASE k \notin known
    <3>1. PICK i \in Issues : k \in adopted(i)
      BY <2>1, <2>3, <1>12
    <3>2. x.inv[k].issue = i /\ adopted(i) = {k} /\ i \in working
      BY <1>3, <3>1
    <3>3. P[i] = k
      <4> HIDE DEF adopted, P
      <4> QED BY <1>5, <3>2
    <3>4. x.job[i].status = "working"
      BY <3>2
    <3> QED BY <3>2, <3>3, <3>4
  <2> QED BY <2>2, <2>3
<1> HIDE DEF P, N, L, orphans, adopted, known, working, y
<1>13. /\ Core \subseteq DOMAIN z /\ z.job = x.job /\ z.process = x.process /\ z.launch = x.launch
       /\ z.lease = x.lease /\ z.inv = N /\ z.listed = x.listed
  BY <1>1 DEF Shaped, Core
<1>14. /\ Core \subseteq DOMAIN y /\ y.job = x.job /\ y.process = P /\ y.launch = x.launch
       /\ y.lease = L /\ y.inv = N /\ y.listed = x.listed
  BY <1>1, <1>2 DEF Shaped, Core
<1> HIDE DEF z
<1>16. DownInv(z)
  BY <1>4, <1>8, <1>9, <1>13, FewerAgents
<1>17. Live(y) = Live(z) /\ Spawned(y) = Spawned(z) /\ Running(y) = Running(z) /\ Spawned(z) = Spawned(x)
  BY <1>4, <1>9, <1>13, <1>14 DEF Live, Spawned, Running
<1>18. ASSUME NEW k \in Running(y) PROVE k \in Running(x) /\ k \notin orphans /\ k \in Invocations
  BY <1>9, <1>14 DEF Running
<1>19. ASSUME NEW k \in Running(y) PROVE AgentOwned(y, k) /\ y.inv[k].issue = x.inv[k].issue /\ k \in Running(x)
  <2>1. /\ x.inv[k].issue \in Issues
        /\ x.job[x.inv[k].issue].status = "working" /\ P[x.inv[k].issue] = k
    BY <1>12, <1>18
  <2>2. y.inv[k].issue = x.inv[k].issue
    BY <1>9, <1>14, <1>18
  <2> QED BY <1>14, <1>18, <2>1, <2>2 DEF AgentOwned
<1>20. UpInv(y)
  BY <1>11, <1>14, <1>19 DEF UpInv
<1>21. Shaped(y)
  BY <1>1, <1>7, <1>8, <1>10, <1>14 DEF Shaped
<1>22. Distinct(y) /\ OneWriter(y) /\ Intents(y) /\ UniqueKeys(y)
  BY <1>13, <1>14, <1>16, <1>17 DEF DownInv, Distinct, OneWriter, Intents, UniqueKeys
<1>23. Launched(y)
  BY <1>13, <1>14, <1>16, <1>17 DEF DownInv, Launched, Behind
<1>24. Processes(y)
  <2> SUFFICES ASSUME NEW i \in Issues, P[i] # 0 PROVE P[i] \in Spawned(y) /\ N[P[i]].issue = i
    BY <1>14 DEF Processes
  <2>1. P[i] \in Spawned(x) /\ x.inv[P[i]].issue = i
    BY <1>6
  <2>2. P[i] \in Invocations
    BY <2>1 DEF Spawned
  <2> QED BY <1>9, <1>17, <2>1, <2>2
<1>25. Leased(y)
  <2> SUFFICES ASSUME NEW k \in Running(y), y.inv[k].issue \in y.listed PROVE y.inv[k].issue \in y.lease
    BY DEF Leased
  <2>1. k \in Running(x) /\ k \notin orphans /\ y.inv[k].issue = x.inv[k].issue
    BY <1>18, <1>19
  <2>2. x.inv[k].issue \in Issues /\ x.job[x.inv[k].issue].status = "working"
    BY <1>12, <2>1
  <2>3. x.inv[k].issue \in x.lease
    BY <1>1, <1>14, <2>1 DEF Leased
  <2> QED BY <1>10, <1>14, <2>1, <2>2, <2>3
<1> QED BY <1>20, <1>21, <1>22, <1>23, <1>24, <1>25 DEF DownInv, y

LEMMA KeptStep ==
    ASSUME PoolInv, Kept(w, w'), up' = up
    PROVE  PoolInv'
BY KeptWorld DEF PoolInv

\* An agent that ends, or whose runner is lost.
LEMMA StateStep ==
    ASSUME NEW k \in Live(w), NEW receipt \in {"ok", "failed", "killed", "lost"}, PoolInv,
           w' = [w EXCEPT !.inv[k].state = receipt], up' = up
    PROVE  PoolInv'
<1>1. k \in Invocations
  BY DEF Live
<1>2. DownInv(w) /\ Shaped(w)
  BY DEF PoolInv, DownInv
<1> DEFINE r == [w.inv[k] EXCEPT !.state = receipt]
           N == [w.inv EXCEPT ![k] = r]
<1>3. w.inv[k] \in InvocationRecords /\ w.inv[k].state \in {"running", "stopping", "lost"}
  BY <1>1, <1>2 DEF Shaped, Live
<1>4. /\ r \in InvocationRecords /\ r.issue = w.inv[k].issue /\ r.key = w.inv[k].key
      /\ r.clone = w.inv[k].clone /\ r.state = receipt
  BY <1>1, <1>3 DEF InvocationRecords, States
<1>5. w' = [w EXCEPT !.inv = N]
  BY <1>1, <1>2 DEF Shaped, Core
<1> HIDE DEF r
<1>6. N \in [Invocations -> InvocationRecords] /\ N[k] = r /\ \A m \in Invocations : m # k => N[m] = w.inv[m]
  BY <1>1, <1>2, <1>4 DEF Shaped
<1> HIDE DEF N
<1>7. /\ Core \subseteq DOMAIN w' /\ w'.job = w.job /\ w'.process = w.process
      /\ w'.launch = w.launch /\ w'.lease = w.lease /\ w'.inv = N /\ w'.listed = w.listed
  BY <1>2, <1>5 DEF Shaped, Core
<1>8. ASSUME NEW m \in Invocations
      PROVE  /\ N[m].issue = w.inv[m].issue /\ N[m].key = w.inv[m].key /\ N[m].clone = w.inv[m].clone
             /\ N[m].state = "none" <=> w.inv[m].state = "none"
             /\ N[m].state \in {"running", "stopping", "lost"} => w.inv[m].state \in {"running", "stopping", "lost"}
             /\ N[m].state = "running" => w.inv[m].state = "running"
  <2>1. CASE m = k
    BY <1>1, <1>3, <1>4, <1>6, <2>1
  <2>2. CASE m # k
    BY <1>6, <2>2
  <2> QED BY <2>1, <2>2
<1>9. DownInv(w') /\ (UpInv(w) => UpInv(w'))
  BY ONLY <1>2, <1>6, <1>7, <1>8, FewerAgents
<1> QED BY <1>1, <1>9 DEF PoolInv

LEMMA ExitStep ==
    ASSUME NEW k \in Invocations, NEW receipt, PoolInv, Exit(k, receipt)
    PROVE  PoolInv'
BY StateStep DEF Exit

LEMMA LoseRunnerStep ==
    ASSUME NEW k \in Invocations, PoolInv, LoseRunner(k)
    PROVE  PoolInv'
<1>1. k \in Live(w)
  BY DEF LoseRunner, Live
<1> QED BY <1>1, StateStep DEF LoseRunner

LEMMA StopStep ==
    ASSUME PoolInv, Stop
    PROVE  PoolInv'
<1> DEFINE ours == {w.process[i] : i \in {j \in Issues : w.job[j].status = "working"}}
           N == [k \in Invocations |->
                    IF k \in ours /\ w.inv[k].state = "running"
                    THEN [w.inv[k] EXCEPT !.state = "stopping"] ELSE w.inv[k]]
<1>1. DownInv(w) /\ Shaped(w)
  BY DEF PoolInv, DownInv
<1>2. ~up' /\ w' = [w EXCEPT !.inv = N]
  BY <1>1 DEF Stop, Shaped, Core
<1> HIDE DEF ours
<1>3. ASSUME NEW k \in Invocations
      PROVE  /\ N[k] \in InvocationRecords
             /\ N[k].issue = w.inv[k].issue /\ N[k].key = w.inv[k].key /\ N[k].clone = w.inv[k].clone
             /\ N[k].state = "none" <=> w.inv[k].state = "none"
             /\ N[k].state \in {"running", "stopping", "lost"} => w.inv[k].state \in {"running", "stopping", "lost"}
             /\ N[k].state = "running" => w.inv[k].state = "running"
  <2> DEFINE r == [w.inv[k] EXCEPT !.state = "stopping"]
  <2>1. w.inv[k] \in InvocationRecords
    BY <1>1 DEF Shaped
  <2>2. /\ r \in InvocationRecords /\ r.issue = w.inv[k].issue /\ r.key = w.inv[k].key
        /\ r.clone = w.inv[k].clone /\ r.state = "stopping"
    BY <2>1 DEF InvocationRecords, States
  <2>3. N[k] = w.inv[k] \/ (N[k] = r /\ w.inv[k].state = "running")
    OBVIOUS
  <2> HIDE DEF N, r
  <2> QED BY <2>1, <2>2, <2>3
<1>4. N \in [Invocations -> InvocationRecords]
  <2>1. N = [k \in Invocations |-> N[k]]
    OBVIOUS
  <2> HIDE DEF N
  <2> QED BY <1>3, <2>1
<1> HIDE DEF N
<1>5. /\ Core \subseteq DOMAIN w' /\ w'.job = w.job /\ w'.process = w.process
      /\ w'.launch = w.launch /\ w'.lease = w.lease /\ w'.inv = N /\ w'.listed = w.listed
  BY <1>1, <1>2 DEF Shaped, Core
<1>6. DownInv(w')
  BY <1>1, <1>3, <1>4, <1>5, FewerAgents
<1> QED BY <1>2, <1>6 DEF PoolInv

\* An issue that disappears from the inventory.
LEMMA FewerIssues ==
    ASSUME NEW x, NEW y, DownInv(x), Core \subseteq DOMAIN y, y.job = x.job, y.process = x.process,
           y.launch = x.launch, y.lease = x.lease, y.inv = x.inv, y.listed \subseteq x.listed
    PROVE  DownInv(y) /\ (UpInv(x) => UpInv(y))
<1>1. Live(y) = Live(x) /\ Spawned(y) = Spawned(x) /\ Running(y) = Running(x)
  BY DEF Live, Spawned, Running
<1>2. Shaped(y)
  BY DEF DownInv, Shaped
<1>3. Distinct(y) /\ OneWriter(y) /\ Processes(y) /\ Intents(y) /\ UniqueKeys(y)
  BY <1>1 DEF DownInv, Distinct, OneWriter, Processes, Intents, UniqueKeys
<1>4. Launched(y)
  BY <1>1 DEF DownInv, Launched, Behind
<1>5. Leased(y)
  BY <1>1 DEF DownInv, Leased
<1>6. UpInv(x) => UpInv(y)
  BY <1>1 DEF UpInv, AgentOwned
<1> QED BY <1>2, <1>3, <1>4, <1>5, <1>6 DEF DownInv

LEMMA UnlistedStep ==
    ASSUME NEW i \in Issues, PoolInv, w' = [w EXCEPT !.listed = @ \ {i}], up' = up
    PROVE  PoolInv'
<1>1. DownInv(w) /\ Shaped(w)
  BY DEF PoolInv, DownInv
<1>2. /\ Core \subseteq DOMAIN w' /\ w'.job = w.job /\ w'.process = w.process
      /\ w'.launch = w.launch /\ w'.lease = w.lease /\ w'.inv = w.inv
      /\ w'.listed \subseteq w.listed
  BY <1>1 DEF Shaped, Core
<1>3. DownInv(w') /\ (UpInv(w) => UpInv(w'))
  BY <1>1, <1>2, FewerIssues
<1> QED BY <1>3 DEF PoolInv

LEMMA OutsideStep ==
    ASSUME NEW i \in Issues, PoolInv, Outside(i)
    PROVE  PoolInv'
<1>1. up' = up /\ Core \subseteq DOMAIN w
  BY DEF Outside, PoolInv, DownInv, Shaped
<1>2. CASE w' = [w EXCEPT !.retry[i] = TRUE, !.parked = {p \in @ : p[1] # i}]
  <2>1. Kept(w, w')
    BY <1>1, <1>2 DEF Kept, Core
  <2> QED BY <1>1, <2>1, KeptStep
<1>3. CASE \/ w' = [w EXCEPT !.paused = ~@]
           \/ w' = [w EXCEPT !.integrity = FALSE, !.paused = FALSE]
           \/ w' = [w EXCEPT !.pr[i] = "closed"]
  <2>1. Kept(w, w')
    BY <1>1, <1>3 DEF Kept, Core
  <2> QED BY <1>1, <2>1, KeptStep
<1>4. CASE w' = [w EXCEPT !.listed = @ \ {i}]
  BY <1>1, <1>4, UnlistedStep
<1> QED BY <1>2, <1>3, <1>4 DEF Outside

LEMMA CompleteStep ==
    ASSUME NEW i \in Issues, PoolInv, Complete(i)
    PROVE  PoolInv'
<1> DEFINE x == [w EXCEPT !.job[i].status = "done"]
           y == [w EXCEPT !.job[i].status = "done", !.retry[i] = FALSE, !.recovery[i] = NoRecovery]
<1>1. up /\ w.job[i].status = "pr-open" /\ Perform(<<y>>, FALSE)
  BY DEF Complete
<1>2. Phase(w, i)
  BY <1>1, Idle
<1>3. Phase(x, i) /\ x.lease = w.lease
  <2> HIDE DEF y
  <2>1. LET t == [w EXCEPT !.job[i].status = "done"]
        IN  Phase(t, i) /\ t.lease = w.lease /\ t.job[i].status = "done"
    BY ONLY <1>2, StatusKeeps, i \in Issues, "done" \in {"pr-open", "blocked", "done"}, "done" # "pr-open"
  <2> QED BY ONLY <2>1
<1>4. i \notin w.lease
  BY <1>1 DEF PoolInv, UpInv
<1>5. DownInv(x) /\ UpInv(x)
  BY <1>3, <1>4, Sealed
<1>6. y = [x EXCEPT !.retry[i] = FALSE, !.recovery[i] = NoRecovery]
  OBVIOUS
<1> HIDE DEF x, y
<1>7. Kept(x, y)
  BY <1>5, <1>6 DEF DownInv, Shaped, Kept, Core
<1>8. DownInv(y) /\ UpInv(y)
  BY <1>5, <1>7, KeptWorld
<1> QED BY <1>1, <1>8, SafeOne, PerformKeeps DEF PoolInv

LEMMA IntegrateMergeStep ==
    ASSUME NEW i \in Issues, PoolInv, IntegrateMerge(i)
    PROVE  PoolInv'
<1> DEFINE y == [w EXCEPT !.pr[i] = "merged"]
<1>1. up /\ Perform(<<y>>, FALSE)
  BY DEF IntegrateMerge
<1>2. DownInv(w) /\ UpInv(w)
  BY <1>1 DEF PoolInv
<1>3. Kept(w, y)
  BY <1>2 DEF DownInv, Shaped, Kept, Core
<1> HIDE DEF y
<1>4. DownInv(y) /\ UpInv(y)
  BY <1>2, <1>3, KeptWorld
<1> QED BY <1>1, <1>4, SafeOne, PerformKeeps DEF PoolInv

LEMMA RetrySurveyStep ==
    ASSUME NEW i \in Issues, PoolInv, RetrySurvey(i)
    PROVE  PoolInv'
<1>1. up /\ Perform(CaptureRecovery(w, i, "none"), FALSE)
  BY DEF RetrySurvey
<1>2. DownInv(w) /\ UpInv(w) /\ Core \subseteq DOMAIN w
  BY <1>1 DEF PoolInv, DownInv, Shaped
<1>3. PICK y, z : CaptureRecovery(w, i, "none") = <<y, z>> /\ Kept(w, y) /\ Kept(w, z)
  BY <1>2, CaptureKept
<1>4. DownInv(y) /\ DownInv(z) /\ UpInv(z)
  BY <1>2, <1>3, KeptWorld
<1>5. Safe(<<y, z>>) /\ UpInv(Last(<<y, z>>))
  BY <1>4, SafePair
<1> QED BY <1>1, <1>3, <1>5, PerformKeeps DEF PoolInv

LEMMA ReconcileStep ==
    ASSUME NEW i \in Issues, PoolInv, Reconcile(i)
    PROVE  PoolInv'
<1>1. ASSUME NEW survey \in Surveys, ReconcileMissing(i, survey) PROVE PoolInv'
  BY <1>1, ReconcileMissingStep
<1>2. ASSUME NEW survey \in Surveys, ReconcileFailed(i, survey) PROVE PoolInv'
  BY <1>2, ReconcileFailedStep
<1>3. CASE ReconcileSucceeded(i)
  <2>1. /\ up /\ w.job[i].status = "working" /\ Receipt(i) = "ok" /\ Perform(Publish(i), FALSE)
    BY <1>3 DEF ReconcileSucceeded
  <2> QED BY <2>1, PublishRuns, PerformKeeps DEF PoolInv
<1>4. ASSUME NEW fault \in Relaunches, PublishFailed(i, fault) PROVE PoolInv'
  BY <1>4, RepairStep DEF PublishFailed
<1> QED BY <1>1, <1>2, <1>3, <1>4 DEF Reconcile

LEMMA SuperviseStep ==
    ASSUME NEW i \in Issues, PoolInv, Supervise(i)
    PROVE  PoolInv'
<1>1. ASSUME NEW c \in Workers, NEW fault \in Faults, Dispatch(i, c, fault) PROVE PoolInv'
  BY <1>1, DispatchStep
<1>2. ASSUME NEW survey \in Surveys, IntegrateClosed(i, survey) PROVE PoolInv'
  <2>1. up /\ w.job[i].status = "pr-open" /\ Perform(Block(w, i, survey), survey # "none")
    BY <1>2 DEF IntegrateClosed
  <2>2. Phase(w, i)
    BY <2>1, Idle
  <2> QED BY <2>1, <2>2, BlockRuns, PerformKeeps DEF PoolInv
<1>3. CASE Complete(i)
  BY <1>3, CompleteStep
<1>4. CASE IntegrateMerge(i)
  BY <1>4, IntegrateMergeStep
<1>5. CASE RetrySurvey(i)
  BY <1>5, RetrySurveyStep
<1>6. ASSUME NEW fault \in Relaunches, IntegrateRepair(i, fault) PROVE PoolInv'
  BY <1>6, RepairStep DEF IntegrateRepair
<1>7. ASSUME NEW c \in Workers, NEW git \in 0 .. MaxSteps, NEW fault \in Relaunches, Retry(i, c, git, fault)
      PROVE  PoolInv'
  <2>1. /\ up /\ w.job[i].status = "blocked"
        /\ Perform(RecoverJob(i, c, git, fault), git < MaxSteps \/ fault # "none")
    BY <1>7 DEF Retry
  <2>2. Phase(w, i)
    BY <2>1, Idle
  <2> QED BY <2>1, <2>2, RecoverRuns, PerformKeeps DEF PoolInv
<1> QED BY <1>1, <1>2, <1>3, <1>4, <1>5, <1>6, <1>7 DEF Supervise

LEMMA PublishDeferredStep ==
    ASSUME NEW i \in Issues, PoolInv, PublishDeferred(i)
    PROVE  PoolInv'
<1>1. /\ up /\ w.job[i].status = "working" /\ Receipt(i) = "ok" /\ up' = up
      /\ \E n \in 1 .. 3 : w' = Publish(i)[n]
  BY DEF PublishDeferred
<1>2. Kept(w, w')
  BY <1>1, PublishRuns
<1> QED BY <1>1, <1>2, KeptStep

LEMMA EditStep ==
    ASSUME NEW k \in Invocations, PoolInv, Edit(k)
    PROVE  PoolInv'
<1>1. Kept(w, w') /\ up' = up
  BY DEF Edit, PoolInv, DownInv, Shaped, Kept, Core
<1> QED BY <1>1, KeptStep

LEMMA CloseIssueStep ==
    ASSUME NEW i \in Issues, PoolInv, CloseIssue(i)
    PROVE  PoolInv'
<1>1. Kept(w, w') /\ up' = up
  BY DEF CloseIssue, PoolInv, DownInv, Shaped, Kept, Core
<1> QED BY <1>1, KeptStep

LEMMA PoolStep ==
    ASSUME PoolInv, [Next]_vars
    PROVE  PoolInv'
<1>1. ASSUME NEW i \in Issues,
             Reconcile(i) \/ Supervise(i) \/ PublishDeferred(i) \/ CloseIssue(i) \/ Outside(i)
      PROVE  PoolInv'
  BY <1>1, ReconcileStep, SuperviseStep, PublishDeferredStep, CloseIssueStep, OutsideStep
<1>2. ASSUME NEW k \in Invocations,
             Edit(k) \/ LoseRunner(k) \/ \E r \in {"ok", "failed", "killed"} : Exit(k, r)
      PROVE  PoolInv'
  BY <1>2, EditStep, LoseRunnerStep, ExitStep
<1>3. CASE Restart
  BY <1>3, RecoveredUp DEF Restart, PoolInv
<1>4. CASE Crash
  BY <1>4 DEF Crash, PoolInv
<1>5. CASE Stop
  BY <1>5, StopStep
<1>6. CASE UNCHANGED vars
  BY <1>6 DEF vars, PoolInv
<1> QED BY <1>1, <1>2, <1>3, <1>4, <1>5, <1>6 DEF Next

LEMMA PoolInit ==
    ASSUME Init
    PROVE  PoolInv
<1>1. /\ w.job = [i \in Issues |-> NoJob] /\ w.process = [i \in Issues |-> 0]
      /\ w.launch = [i \in Issues |-> <<>>] /\ w.lease = {}
      /\ w.inv = [k \in Invocations |-> NoInvocation]
      /\ Core \subseteq DOMAIN w
  BY DEF Init, Core
<1>2. NoJob \in Jobs /\ NoJob.status = "none"
  BY DEF NoJob, Jobs, Statuses
<1>3. NoInvocation \in InvocationRecords /\ NoInvocation.state = "none"
  BY DEF NoInvocation, InvocationRecords, States
<1>4. Live(w) = {} /\ Spawned(w) = {} /\ Running(w) = {}
  BY <1>1, <1>3 DEF Live, Spawned, Running
<1>5. Shaped(w)
  BY <1>1, <1>2, <1>3 DEF Shaped
<1>6. Distinct(w)
  BY <1>1, <1>2 DEF Distinct, LiveStatus
<1>7. OneWriter(w) /\ Processes(w) /\ Intents(w) /\ UniqueKeys(w) /\ Leased(w)
  BY <1>1, <1>4 DEF OneWriter, Processes, Intents, UniqueKeys, Leased
<1>8. Launched(w)
  BY <1>4 DEF Launched, Behind
<1>9. UpInv(w)
  BY <1>1, <1>4 DEF UpInv
<1> QED BY <1>5, <1>6, <1>7, <1>8, <1>9 DEF PoolInv, DownInv

-------------------------------------------------------------------------------
(* The theorems.                                                             *)

\* Every reachable state is one a restart can recover from, and while the
\* supervisor runs it knows every agent (supervisor.py: launch, block, repair,
\* recover_job, recover_processes).
THEOREM PoolIsSound == Spec => []PoolInv
<1>1. Init => PoolInv
  BY PoolInit
<1>2. PoolInv /\ [Next]_vars => PoolInv'
  BY PoolStep
<1> QED BY <1>1, <1>2, PTL DEF Spec

\* A crash after any commit of a launch leaves no agent the restarted supervisor
\* does not know: launch records its intent before it spawns, and
\* recover_processes adopts the invocation under that key or stops it.
THEOREM NoAgentIsLost == Spec => []LiveIsOwned
<1>1. PoolInv => LiveIsOwned
  BY DEF PoolInv, UpInv, AgentOwned, LiveIsOwned, Running
<1> QED BY <1>1, PoolIsSound, PTL

\* Runtime.spawn's refusal of an owned checkout keeps two agents apart, across
\* crashes, retries and repairs.
THEOREM OneAgentEdits == Spec => []OneWriterPerClone
<1>1. PoolInv => OneWriterPerClone
  BY DEF PoolInv, DownInv, OneWriter, OneWriterPerClone
<1> QED BY <1>1, PoolIsSound, PTL

\* free_workers and state.retry never give a live job's worker to another job.
THEOREM WorkersAreDistinct == Spec => []WorkersDistinct
<1>1. PoolInv => WorkersDistinct
  BY DEF PoolInv, DownInv, Distinct, WorkersDistinct, LiveJobs, LiveStatus
<1> QED BY <1>1, PoolIsSound, PTL

\* Leases and agents agree between two handlers: every path of launch, block,
\* repair and recover_job releases the lease it took or leaves an agent under it,
\* and reconcile drops at a restart what a crash left.
THEOREM LeasesAreAgents == Spec => []LeasesMatchAgents
<1>1. PoolInv => LeasesMatchAgents
  BY DEF PoolInv, UpInv, DownInv, Leased, Running, LeasesMatchAgents
<1> QED BY <1>1, PoolIsSound, PTL

================================================================================
