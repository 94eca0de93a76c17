----------------------------- MODULE AdmissionProofs -----------------------------
(***************************************************************************)
(* Proofs about Admission for every configuration the loader accepts, any    *)
(* number of owners, models, groups and invocations and an unbounded clock.  *)
(*                                                                          *)
(* The argument: AdmissionInv is inductive.  A step does one of three things  *)
(* to a group (GroupStep): it leaves mode and date of congestion alone, dates *)
(* the congestion now, or makes the group normal; and every lease is dated    *)
(* no later than now.  So new feedback outranks every lease that is held, and *)
(* only a lease granted while the group probes can lift it: of those          *)
(* reserve grants one.                                                        *)
(***************************************************************************)
EXTENDS Admission, TLAPS

RowSound(g, row) ==
    /\ row \in GroupRow
    /\ Minimum[g] <= row.target /\ row.target <= Ceiling[g]
    /\ None <= row.cooldown /\ row.congestedAt <= now

\* What a step does to a group's mode and date of congestion.
Kept(g) == group'[g].mode = group[g].mode /\ group'[g].congestedAt = group[g].congestedAt
Hit(g) == group'[g].congestedAt = now
Recovered(g) == group'[g].mode = "normal"

\* What a step that grants nothing does to a lease.
LeaseKept(o) ==
    /\ lease'[o].held = lease[o].held /\ lease'[o].grps = lease[o].grps
    /\ lease'[o].probe = lease[o].probe /\ lease'[o].granted = lease[o].granted

-------------------------------------------------------------------------------
(* Receipts and rows.                                                        *)

\* classify's delay is a natural number, for any hint in the transcript.
LEMMA DelayType == \A r \in Receipts : RetryAfter(r) \in Nat /\ Classify(r) \in Categories
  <1> SUFFICES ASSUME NEW r \in Receipts
               PROVE  RetryAfter(r) \in Nat /\ Classify(r) \in Categories
    OBVIOUS
  <1>1. r \in Receipt /\ HintCeiling \in Nat
    BY ConfigAssumption
  <1>2. r.hint \in Nat
    BY <1>1 DEF Receipt
  <1>3. Clamp(r.hint, HintCeiling) \in Nat
    BY <1>1, <1>2 DEF Clamp, MinOf
  <1>4. Classify(r) \in Categories
    BY DEF Classify, Categories
  <1> QED
    BY <1>3, <1>4 DEF RetryAfter

\* NULL precedes every date.
LEMMA NoneType == None \in Int /\ None <= 0
  BY DEF None

\* A row with columns replaced by values of their types is a row.
LEMMA GrownType ==
    ASSUME NEW r \in GroupRow, NEW t \in Nat, NEW w \in Nat, NEW d \in Int, NEW u \in Nat
    PROVE  [r EXCEPT !.target = t, !.windowStart = w, !.useful = u, !.loaded = d] \in GroupRow
  BY DEF GroupRow

LEMMA PenalisedType ==
    ASSUME NEW r \in GroupRow, NEW t \in Nat, NEW c \in Int, NEW w \in Nat, NEW d \in Int, NEW u \in Nat, NEW a \in Int
    PROVE  [r EXCEPT !.target = t, !.mode = "probing", !.cooldown = c, !.windowStart = w,
                    !.congestedAt = a, !.useful = u, !.loaded = d] \in GroupRow
  BY DEF GroupRow

LEMMA ExtendedType ==
    ASSUME NEW r \in GroupRow, NEW c \in Int, NEW n \in Nat, NEW a \in Int
    PROVE  [r EXCEPT !.cooldown = c, !.len = n, !.congestedAt = a] \in GroupRow
  BY DEF GroupRow

LEMMA BlockedType ==
    ASSUME NEW r \in GroupRow, NEW c \in Int, NEW a \in Int
    PROVE  [r EXCEPT !.mode = "blocked", !.cooldown = c, !.congestedAt = a] \in GroupRow
  BY DEF GroupRow

LEMMA LiftedType ==
    ASSUME NEW r \in GroupRow, NEW c \in Int, NEW n \in Nat, NEW a \in Int
    PROVE  [r EXCEPT !.mode = "normal", !.cooldown = c, !.len = n, !.congestedAt = a] \in GroupRow
  BY DEF GroupRow

LEMMA RearmedType ==
    ASSUME NEW r \in GroupRow, NEW c \in Int
    PROVE  [r EXCEPT !.cooldown = c] \in GroupRow
  BY DEF GroupRow

LEMMA ResetType ==
    ASSUME NEW r \in GroupRow, NEW c \in Int, NEW n \in Nat, NEW w \in Nat, NEW d \in Int, NEW u \in Nat, NEW a \in Int
    PROVE  [r EXCEPT !.mode = "normal", !.cooldown = c, !.len = n, !.windowStart = w,
                    !.congestedAt = a, !.useful = u, !.loaded = d] \in GroupRow
  BY DEF GroupRow

LEMMA LoadedType ==
    ASSUME NEW r \in GroupRow, NEW d \in Int
    PROVE  [r EXCEPT !.loaded = d] \in GroupRow
  BY DEF GroupRow

LEMMA UsefulType ==
    ASSUME NEW r \in GroupRow, NEW u \in Nat
    PROVE  [r EXCEPT !.useful = u] \in GroupRow
  BY DEF GroupRow

\* The values a sound row and the configuration have.
LEMMA RowValues ==
    ASSUME TypeOK, NEW g \in Groups, Dated(g)
    PROVE  /\ group[g] \in GroupRow /\ now \in Nat /\ now \in Int
           /\ group[g].target \in Nat /\ group[g].cooldown \in Int /\ group[g].len \in Nat
           /\ group[g].useful \in Nat /\ group[g].congestedAt \in Int
           /\ group[g].mode \in {"normal", "probing", "blocked"}
           /\ Minimum[g] \in Nat /\ Ceiling[g] \in Nat /\ 1 <= Minimum[g]
           /\ Minimum[g] <= Ceiling[g]
           /\ Minimum[g] <= group[g].target /\ group[g].target <= Ceiling[g]
           /\ Cooldown \in Nat /\ MaxCooldown \in Nat
           /\ None \in Int /\ None <= 0 /\ None <= group[g].cooldown
           /\ group[g].congestedAt <= now
  <1>1. group[g] \in GroupRow /\ now \in Nat
        /\ Minimum[g] <= group[g].target /\ group[g].target <= Ceiling[g]
    BY DEF TypeOK
  <1>2. /\ group[g].target \in Nat /\ group[g].cooldown \in Int /\ group[g].len \in Nat
        /\ group[g].useful \in Nat /\ group[g].congestedAt \in Int
        /\ group[g].mode \in {"normal", "probing", "blocked"}
    BY <1>1 DEF GroupRow
  <1>3. Minimum[g] \in Nat /\ Ceiling[g] \in Nat /\ 1 <= Minimum[g]
        /\ Cooldown \in Nat /\ MaxCooldown \in Nat
    BY ConfigAssumption
  <1> QED
    BY <1>1, <1>2, <1>3, NoneType DEF Dated

\* A group that earned a slot grows within its ceiling.
LEMMA GrownSound ==
    ASSUME TypeOK, NEW g \in Groups, Dated(g)
    PROVE  /\ RowSound(g, Grown(g))
           /\ Grown(g).mode = group[g].mode /\ Grown(g).congestedAt = group[g].congestedAt
           /\ Grown(g).cooldown = group[g].cooldown /\ group[g].target <= Grown(g).target
  <1>1. CASE Earned(g)
    <2> DEFINE t == MinOf(Ceiling[g], group[g].target + 1)
    <2>1. Grown(g) = [group[g] EXCEPT !.target = t, !.windowStart = now, !.useful = 0, !.loaded = None]
      BY <1>1 DEF Grown
    <2>2. t \in Nat /\ group[g].target <= t /\ t <= Ceiling[g]
      BY RowValues DEF MinOf
    <2>3. group[g] \in GroupRow /\ now \in Nat /\ now \in Int /\ None \in Int /\ 0 \in Nat /\ Cooldown \in Nat
      BY RowValues
    <2> HIDE DEF t
    <2>4. [group[g] EXCEPT !.target = t, !.windowStart = now, !.useful = 0, !.loaded = None] \in GroupRow
      BY <2>2, <2>3, GrownType, Zenon
    <2>5. /\ Grown(g).target = t /\ Grown(g).mode = group[g].mode
          /\ Grown(g).congestedAt = group[g].congestedAt /\ Grown(g).cooldown = group[g].cooldown
      BY <2>1, RowValues DEF GroupRow
    <2> QED
      BY <2>1, <2>2, <2>4, <2>5, RowValues DEF RowSound
  <1>2. CASE ~Earned(g)
    <2>1. Grown(g) = group[g]
      BY <1>2 DEF Grown
    <2> QED
      BY <2>1, RowValues DEF RowSound
  <1> QED
    BY <1>1, <1>2

\* The feedback of a receipt leaves a sound row, dates congestion and a block
\* now, and reopens a group only for a probe that nothing outranks.
LEMMA FeedbackSound ==
    ASSUME TypeOK, NEW g \in Groups, Dated(g), NEW o \in Owners,
           NEW category \in Categories, NEW delay \in Nat, NEW jitter \in Nat,
           NEW row, row = Feedback(g, lease[o], category, delay, jitter)
    PROVE  /\ RowSound(g, row)
           /\ category \in {"rate", "endpoint", "auth", "credits"} => row.congestedAt = now
           /\ \/ row.mode = group[g].mode /\ row.congestedAt = group[g].congestedAt
              \/ row.congestedAt = now
              \/ row.mode = "normal"
           /\ row.mode = "normal" /\ group[g].mode # "normal" =>
                lease[o].probe /\ ~Outranked(group[g], lease[o])
  <1> DEFINE l == lease[o]
  <1>0. group[g] \in GroupRow /\ now \in Nat /\ now \in Int /\ None \in Int /\ 0 \in Nat /\ Cooldown \in Nat
    BY RowValues
  <1>1. CASE category \in {"rate", "endpoint"} /\ group[g].mode = "normal"
    <2> DEFINE t == MaxOf(Minimum[g], (group[g].target + 1) \div 2)
               c == now + (IF delay = 0 THEN group[g].len ELSE delay) + jitter
    <2>1. row = Penalised(g, delay, jitter)
      BY <1>1 DEF Feedback
    <2>2. row = [group[g] EXCEPT !.target = t, !.mode = "probing", !.cooldown = c, !.windowStart = now,
                                 !.congestedAt = now, !.useful = 0, !.loaded = None]
      BY <2>1 DEF Penalised
    <2>3. t \in Nat /\ Minimum[g] <= t /\ t <= Ceiling[g] /\ c \in Int /\ None <= c
      BY RowValues DEF MaxOf
    <2> HIDE DEF t, c
    <2>4. [group[g] EXCEPT !.target = t, !.mode = "probing", !.cooldown = c, !.windowStart = now,
                           !.congestedAt = now, !.useful = 0, !.loaded = None] \in GroupRow
      BY <1>0, <2>3, PenalisedType, Zenon
    <2>5. row.target = t /\ row.cooldown = c /\ row.mode = "probing" /\ row.congestedAt = now
      BY <2>2, RowValues DEF GroupRow
    <2> QED
      BY <1>1, <2>2, <2>3, <2>4, <2>5, RowValues DEF RowSound
  <1>2. CASE category \in {"rate", "endpoint"} /\ group[g].mode # "normal"
    <2> DEFINE c == MaxOf(group[g].cooldown, now + (IF delay = 0 THEN group[g].len ELSE delay) + jitter)
               n == IF l.probe THEN MinOf(MaxCooldown, 2 * MaxOf(group[g].len, Cooldown)) ELSE group[g].len
    <2>1. row = Extended(g, delay, jitter, l.probe)
      BY <1>2 DEF Feedback
    <2>2. row = [group[g] EXCEPT !.cooldown = c, !.len = n, !.congestedAt = now]
      BY <2>1 DEF Extended
    <2>3. c \in Int /\ None <= c /\ n \in Nat
      BY RowValues DEF MaxOf, MinOf
    <2> HIDE DEF c, n
    <2>4. [group[g] EXCEPT !.cooldown = c, !.len = n, !.congestedAt = now] \in GroupRow
      BY <1>0, <2>3, ExtendedType, Zenon
    <2>5. /\ row.target = group[g].target /\ row.cooldown = c /\ row.mode = group[g].mode
          /\ row.congestedAt = now
      BY <2>2, RowValues DEF GroupRow
    <2> QED
      BY <1>2, <2>2, <2>3, <2>4, <2>5, RowValues DEF RowSound
  <1>3. CASE category \in {"auth", "credits"}
    <2>1. row = Blocked(g)
      BY <1>3 DEF Feedback
    <2>2. Blocked(g) \in GroupRow
      BY <1>0, BlockedType, Zenon DEF Blocked
    <2>3. /\ row.target = group[g].target /\ row.cooldown = None /\ row.mode = "blocked"
          /\ row.congestedAt = now
      BY <2>1, RowValues DEF GroupRow, Blocked
    <2> QED
      BY <1>3, <2>1, <2>2, <2>3, RowValues DEF RowSound
  <1>4. CASE category = "success" /\ l.probe /\ ~Outranked(group[g], l)
    <2>1. row = Lifted(g)
      BY <1>4 DEF Feedback
    <2>2. Lifted(g) \in GroupRow
      BY <1>0, LiftedType, ZenonT(60) DEF Lifted
    <2>3. /\ row.target = group[g].target /\ row.cooldown = None /\ row.mode = "normal"
          /\ row.congestedAt = None
      BY <2>1, RowValues DEF GroupRow, Lifted
    <2>4. RowSound(g, row)
      BY <2>1, <2>2, <2>3, RowValues DEF RowSound
    <2> QED
      BY <1>4, <2>3, <2>4
  <1>5. CASE category = "failure" /\ l.probe /\ group[g].mode = "probing"
    <2> DEFINE c == MaxOf(group[g].cooldown, now + group[g].len + jitter)
    <2>1. row = Rearmed(g, jitter)
      BY <1>5 DEF Feedback
    <2>2. row = [group[g] EXCEPT !.cooldown = c]
      BY <2>1 DEF Rearmed
    <2>3. c \in Int /\ None <= c
      BY RowValues DEF MaxOf
    <2> HIDE DEF c
    <2>4. row \in GroupRow
      BY <1>0, <2>2, <2>3, RearmedType, Zenon
    <2>5. /\ row.target = group[g].target /\ row.cooldown = c /\ row.mode = group[g].mode
          /\ row.congestedAt = group[g].congestedAt
      BY <2>2, RowValues DEF GroupRow
    <2> QED
      BY <1>5, <2>3, <2>4, <2>5, RowValues DEF RowSound
  <1>6. CASE /\ category \notin {"rate", "endpoint", "auth", "credits"}
             /\ ~(category = "success" /\ l.probe /\ ~Outranked(group[g], l))
             /\ ~(category = "failure" /\ l.probe /\ group[g].mode = "probing")
    <2>1. row = group[g]
      BY <1>6 DEF Feedback
    <2> QED
      BY <1>6, <2>1, RowValues DEF RowSound
  <1> QED
    BY <1>1, <1>2, <1>3, <1>4, <1>5, <1>6

-------------------------------------------------------------------------------
(* Steps.                                                                    *)

GroupStep(g) == Kept(g) \/ Hit(g) \/ Recovered(g)
GroupsSound == group' \in [Groups -> GroupRow] /\ \A g \in Groups : RowSound(g, group'[g])

\* A lease the step drops, grants, or keeps while feedback may overtake it.
Granted(o) == lease'[o].held /\ lease'[o].granted = now /\ lease'[o].overtaken = {}
LeaseStep(o) ==
    \/ lease'[o] = NoLease
    \/ Granted(o)
    \/ /\ LeaseKept(o)
       /\ ~lease[o].held => lease'[o].overtaken = {}
       /\ \A g \in lease'[o].overtaken : g \in lease[o].overtaken \/ Hit(g)

\* Feedback recorded since a grant goes on outranking the lease.
LEMMA LeaseSoundStep ==
    ASSUME AdmissionInv, lease' \in [Owners -> LeaseRow], now' \in Nat, now <= now',
           \A g \in Groups : GroupStep(g), NEW o \in Owners, LeaseStep(o)
    PROVE  LeaseSound(o)'
  <1>0. now \in Nat /\ lease[o] \in LeaseRow /\ lease'[o] \in LeaseRow /\ LeaseSound(o)
        /\ None \in Int /\ None <= 0 /\ \A n \in Nat : n # None
    BY DEF AdmissionInv, TypeOK, None
  <1>1. CASE lease'[o] = NoLease
    BY <1>0, <1>1 DEF LeaseSound, NoLease
  <1>2. CASE Granted(o)
    BY <1>0, <1>2 DEF Granted, LeaseSound
  <1>3. CASE lease'[o] # NoLease /\ ~Granted(o)
    <2>1. /\ LeaseKept(o)
          /\ ~lease[o].held => lease'[o].overtaken = {}
          /\ \A g \in lease'[o].overtaken : g \in lease[o].overtaken \/ Hit(g)
      BY <1>3 DEF LeaseStep
    <2>2. lease[o].granted \in Int /\ lease[o].granted <= now /\ lease'[o].granted = lease[o].granted
          /\ lease'[o].overtaken \subseteq Groups
      BY <1>0, <2>1 DEF LeaseSound, LeaseRow, LeaseKept
    <2>3. ASSUME NEW g \in lease'[o].overtaken
          PROVE  group'[g].mode = "normal" \/ Outranked(group'[g], lease'[o])
      <3>1. g \in Groups /\ GroupStep(g)
        BY <2>2
      <3>2. CASE Hit(g)
        BY <1>0, <2>2, <3>2 DEF Hit, Outranked
      <3>3. CASE Recovered(g)
        BY <3>3 DEF Recovered
      <3>4. CASE Kept(g) /\ ~Hit(g)
        <4>1. group[g].mode = "normal" \/ Outranked(group[g], lease[o])
          BY <1>0, <2>1, <2>3, <3>4 DEF LeaseSound
        <4> QED
          BY <2>2, <3>4, <4>1 DEF Kept, Outranked
      <3> QED
        BY <3>1, <3>2, <3>3, <3>4 DEF GroupStep
    <2>4. lease'[o].granted <= now'
      BY <1>0, <2>2
    <2>5. ~lease'[o].held => lease'[o].grps = {} /\ ~lease'[o].probe /\ lease'[o].overtaken = {}
      BY <1>0, <2>1 DEF LeaseSound, LeaseKept
    <2> QED
      BY <2>3, <2>4, <2>5 DEF LeaseSound
  <1> QED
    BY <1>1, <1>2, <1>3

\* The parts of the invariant together.
LEMMA InvStep ==
    ASSUME AdmissionInv, GroupsSound, \A g \in Groups : GroupStep(g),
           \A o \in Owners : LeaseStep(o),
           now' \in Nat, now <= now', spawned' \in 0 .. MaxInvocations, resets' \in Nat,
           lease' \in [Owners -> LeaseRow], outcome' \in [Invocations -> OutcomeRow],
           process' \in [Owners -> 0 .. MaxInvocations], congested' \in [Groups -> Int]
    PROVE  AdmissionInv'
  <1>1. TypeOK'
    BY DEF TypeOK, GroupsSound, RowSound
  <1>2. ASSUME NEW g \in Groups PROVE Dated(g)'
    <2>1. RowSound(g, group'[g]) /\ now \in Nat
      BY DEF GroupsSound, AdmissionInv, TypeOK
    <2>2. group'[g].congestedAt \in Int /\ group'[g].congestedAt <= now /\ None <= group'[g].cooldown
      BY <2>1 DEF RowSound, GroupRow
    <2> QED
      BY <2>1, <2>2 DEF Dated
  <1>3. \A o \in Owners : LeaseSound(o)'
    BY LeaseSoundStep
  <1> QED
    BY <1>1, <1>2, <1>3 DEF AdmissionInv

\* Rows that a step leaves alone.
LEMMA SameGroups ==
    ASSUME AdmissionInv, group' = group
    PROVE  GroupsSound /\ \A g \in Groups : GroupStep(g)
  <1>1. \A g \in Groups : Kept(g)
    BY DEF Kept
  <1>2. \A g \in Groups : RowSound(g, group[g])
    BY DEF AdmissionInv, TypeOK, Dated, RowSound
  <1> QED
    BY <1>1, <1>2 DEF GroupStep, GroupsSound, AdmissionInv, TypeOK

LEMMA SameLeases ==
    ASSUME AdmissionInv, lease' = lease
    PROVE  lease' \in [Owners -> LeaseRow] /\ \A o \in Owners : LeaseStep(o)
  BY DEF AdmissionInv, TypeOK, LeaseSound, LeaseStep, LeaseKept

LEMMA NoLeaseType == NoLease \in LeaseRow
  BY NoneType DEF NoLease, LeaseRow

\* Leases that a step drops.
LEMMA DroppedLeases ==
    ASSUME AdmissionInv, NEW S \in SUBSET Owners,
           lease' = [o \in Owners |-> IF o \in S THEN NoLease ELSE lease[o]]
    PROVE  lease' \in [Owners -> LeaseRow] /\ \A o \in Owners : LeaseStep(o)
  <1>1. lease \in [Owners -> LeaseRow]
    BY DEF AdmissionInv, TypeOK
  <1>2. ASSUME NEW o \in Owners PROVE LeaseStep(o)
    BY <1>1 DEF AdmissionInv, LeaseSound, LeaseStep, LeaseKept
  <1> QED
    BY <1>1, <1>2, NoLeaseType

\* reserve.
LEMMA DeniedInv ==
    ASSUME AdmissionInv, NEW o \in Owners, NEW m \in Models, ReserveDenied(o, m)
    PROVE  AdmissionInv'
  <1>1. PICK g \in GroupsOf[m] : group' = [group EXCEPT ![g].loaded = now]
    BY DEF ReserveDenied
  <1>2. g \in Groups /\ TypeOK /\ Dated(g)
    BY ConfigAssumption DEF AdmissionInv
  <1>3. group \in [Groups -> GroupRow] /\ group'[g] = [group[g] EXCEPT !.loaded = now]
        /\ \A h \in Groups \ {g} : group'[h] = group[h]
    BY <1>1, <1>2 DEF TypeOK
  <1>4. group[g] \in GroupRow /\ now \in Int
    BY <1>2, RowValues
  <1>5. [group[g] EXCEPT !.loaded = now] \in GroupRow
    BY <1>4, LoadedType, Zenon
  <1>6. /\ group'[g].target = group[g].target /\ group'[g].mode = group[g].mode
        /\ group'[g].cooldown = group[g].cooldown /\ group'[g].congestedAt = group[g].congestedAt
    BY <1>3, <1>4 DEF GroupRow
  <1>7. \A h \in Groups : RowSound(h, group[h])
    BY DEF AdmissionInv, TypeOK, Dated, RowSound
  <1>8. RowSound(g, group'[g])
    BY <1>2, <1>3, <1>5, <1>6, <1>7 DEF RowSound
  <1>9. GroupsSound
    <2>1. group' \in [Groups -> GroupRow]
      BY <1>1, <1>3, <1>5
    <2> QED
      BY <2>1, <1>3, <1>7, <1>8 DEF GroupsSound
  <1>10. \A h \in Groups : GroupStep(h)
    BY <1>3, <1>6 DEF GroupStep, Kept
  <1> QED
    BY <1>2, <1>9, <1>10, SameLeases, InvStep DEF ReserveDenied, TypeOK

LEMMA GrantedInv ==
    ASSUME AdmissionInv, NEW o \in Owners, NEW m \in Models, ReserveGranted(o, m)
    PROVE  AdmissionInv'
  <1>1. TypeOK /\ GroupsOf[m] \in SUBSET Groups
    BY ConfigAssumption DEF AdmissionInv
  <1>2. group' = [g \in Groups |-> IF g \in GroupsOf[m] THEN Grown(g) ELSE group[g]]
    BY DEF ReserveGranted
  <1>3. ASSUME NEW g \in Groups PROVE RowSound(g, group'[g]) /\ GroupStep(g)
    <2>1. CASE g \in GroupsOf[m]
      BY <1>1, <1>2, <2>1, GrownSound DEF AdmissionInv, GroupStep, Kept
    <2>2. CASE g \notin GroupsOf[m]
      BY <1>1, <1>2, <2>2 DEF AdmissionInv, TypeOK, Dated, RowSound, GroupStep, Kept
    <2> QED
      BY <2>1, <2>2
  <1>4. GroupsSound
    BY <1>2, <1>3 DEF GroupsSound, RowSound
  <1> DEFINE l == [held |-> TRUE, grps |-> GroupsOf[m], granted |-> now, overtaken |-> {},
                   probe |-> \E g \in GroupsOf[m] : group[g].mode = "probing"]
  <1>5. lease' = [lease EXCEPT ![o] = l]
    BY DEF ReserveGranted
  <1>6. l \in LeaseRow
    BY <1>1 DEF LeaseRow, TypeOK
  <1>7. l.held = TRUE /\ l.granted = now /\ l.overtaken = {}
    OBVIOUS
  <1> HIDE DEF l
  <1>8. lease' \in [Owners -> LeaseRow]
    BY <1>1, <1>5, <1>6 DEF TypeOK
  <1>9. ASSUME NEW p \in Owners PROVE LeaseStep(p)
    <2>1. CASE p = o
      BY <1>1, <1>5, <1>7, <2>1 DEF LeaseStep, Granted, TypeOK
    <2>2. CASE p # o
      BY <1>1, <1>5, <2>2 DEF AdmissionInv, LeaseSound, LeaseStep, LeaseKept, TypeOK
    <2> QED
      BY <2>1, <2>2
  <1> QED
    BY <1>1, <1>3, <1>4, <1>8, <1>9, InvStep DEF ReserveGranted, TypeOK

\* The steps that leave the groups alone.
LEMMA QuietInv ==
    ASSUME AdmissionInv, NEW o \in Owners, Launch(o) \/ FinishRepeated(o) \/ Release(o)
    PROVE  AdmissionInv'
  <1>1. TypeOK /\ group' = group /\ now' = now
    BY DEF AdmissionInv, Launch, FinishRepeated, Release
  <1>2. CASE Launch(o)
    <2>1. spawned + 1 \in 0 .. MaxInvocations
      BY <1>1, <1>2, ConfigAssumption DEF Launch, TypeOK
    <2>2. spawned' \in 0 .. MaxInvocations /\ process' \in [Owners -> 0 .. MaxInvocations]
      BY <1>1, <1>2, <2>1 DEF Launch, TypeOK
    <2>3. lease' = lease /\ outcome' = outcome /\ resets' = resets /\ congested' = congested
      BY <1>2 DEF Launch
    <2> QED
      BY <1>1, <2>2, <2>3, SameGroups, SameLeases, InvStep DEF TypeOK
  <1>3. CASE FinishRepeated(o) \/ Release(o)
    <2>1. lease' = [p \in Owners |-> IF p \in {o} THEN NoLease ELSE lease[p]]
      BY <1>1, <1>3 DEF FinishRepeated, Release, TypeOK
    <2>2. lease' \in [Owners -> LeaseRow] /\ \A p \in Owners : LeaseStep(p)
      <3>1. {o} \in SUBSET Owners
        OBVIOUS
      <3> QED
        BY <2>1, <3>1, DroppedLeases
    <2> QED
      BY <1>1, <1>3, <2>2, SameGroups, InvStep DEF FinishRepeated, Release, TypeOK
  <1> QED
    BY <1>2, <1>3

\* A restarted supervisor and the clock.
LEMMA RestartInv ==
    ASSUME AdmissionInv, NEW owners \in SUBSET Owners, Restart(owners)
    PROVE  AdmissionInv'
  <1>1. TypeOK /\ group' = group
    BY DEF AdmissionInv, Restart
  <1>2. lease' = [o \in Owners |-> IF o \in Owners \ owners THEN NoLease ELSE lease[o]]
    BY DEF Restart
  <1>3. lease' \in [Owners -> LeaseRow] /\ \A o \in Owners : LeaseStep(o)
    <2>1. Owners \ owners \in SUBSET Owners
      OBVIOUS
    <2> QED
      BY <1>2, <2>1, DroppedLeases
  <1> QED
    BY <1>1, <1>2, <1>3, SameGroups, InvStep DEF Restart, TypeOK

LEMMA TickInv ==
    ASSUME AdmissionInv, Tick \/ UNCHANGED vars
    PROVE  AdmissionInv'
  <1>1. TypeOK /\ group' = group /\ lease' = lease /\ now' \in Nat /\ now <= now'
    BY DEF AdmissionInv, TypeOK, Tick, vars
  <1> QED
    BY <1>1, SameGroups, SameLeases, InvStep DEF Tick, TypeOK, vars

\* useful and reset.
LEMMA UsefulInv ==
    ASSUME AdmissionInv, NEW o \in Owners, Useful(o)
    PROVE  AdmissionInv'
  <1>1. PICK i \in Invocations :
          /\ outcome' = [outcome EXCEPT ![i].useful = TRUE]
          /\ group' = [g \in Groups |-> IF g \in outcome[i].grps
                                        THEN [group[g] EXCEPT !.useful = @ + 1] ELSE group[g]]
          /\ UNCHANGED <<now, lease, process, spawned, resets, congested>>
    BY DEF Useful
  <1>2. TypeOK
    BY DEF AdmissionInv
  <1>3. ASSUME NEW g \in Groups PROVE RowSound(g, group'[g]) /\ GroupStep(g)
    <2>1. CASE g \in outcome[i].grps
      <3> DEFINE u == group[g].useful + 1
      <3>1. Dated(g) /\ group'[g] = [group[g] EXCEPT !.useful = u]
        BY <1>1, <2>1 DEF AdmissionInv
      <3>2. u \in Nat /\ group[g] \in GroupRow
        BY <1>2, <3>1, RowValues
      <3> HIDE DEF u
      <3>3. [group[g] EXCEPT !.useful = u] \in GroupRow
        BY <3>2, UsefulType, Zenon
      <3>4. /\ group'[g].target = group[g].target /\ group'[g].mode = group[g].mode
            /\ group'[g].cooldown = group[g].cooldown /\ group'[g].congestedAt = group[g].congestedAt
        BY <3>1, <3>2 DEF GroupRow
      <3> QED
        BY <1>2, <3>1, <3>3, <3>4, RowValues DEF RowSound, GroupStep, Kept
    <2>2. CASE g \notin outcome[i].grps
      BY <1>1, <1>2, <2>2 DEF AdmissionInv, TypeOK, Dated, RowSound, GroupStep, Kept
    <2> QED
      BY <2>1, <2>2
  <1>4. GroupsSound
    BY <1>1, <1>3 DEF GroupsSound, RowSound
  <1>5. outcome' \in [Invocations -> OutcomeRow]
    BY <1>1, <1>2 DEF TypeOK, OutcomeRow
  <1>6. spawned' \in 0 .. MaxInvocations /\ resets' \in Nat /\ now' \in Nat /\ now <= now'
        /\ process' \in [Owners -> 0 .. MaxInvocations] /\ congested' \in [Groups -> Int]
        /\ lease' = lease
    BY <1>1, <1>2 DEF TypeOK
  <1> QED
    BY <1>3, <1>4, <1>5, <1>6, SameLeases, InvStep

LEMMA ResetInv ==
    ASSUME AdmissionInv, NEW g \in Groups, Reset(g)
    PROVE  AdmissionInv'
  <1> DEFINE row == [group[g] EXCEPT !.mode = "normal", !.cooldown = None, !.len = Cooldown,
                        !.windowStart = now, !.congestedAt = None, !.useful = 0, !.loaded = None]
  <1>1. TypeOK /\ Dated(g) /\ group' = [group EXCEPT ![g] = row]
    BY DEF AdmissionInv, Reset
  <1>2. group[g] \in GroupRow /\ now \in Nat /\ None \in Int /\ Cooldown \in Nat /\ 0 \in Nat
    BY <1>1, RowValues
  <1>3. row \in GroupRow
    BY <1>2, ResetType, Zenon
  <1>4. row.target = group[g].target /\ row.mode = "normal" /\ row.cooldown = None
        /\ row.congestedAt = None
    BY <1>2 DEF GroupRow
  <1> HIDE DEF row
  <1>5. RowSound(g, row)
    BY <1>1, <1>3, <1>4, RowValues DEF RowSound
  <1>6. ASSUME NEW h \in Groups PROVE RowSound(h, group'[h]) /\ GroupStep(h)
    <2>1. CASE h = g
      BY <1>1, <1>4, <1>5, <2>1 DEF TypeOK, GroupStep, Recovered
    <2>2. CASE h # g
      BY <1>1, <2>2 DEF AdmissionInv, TypeOK, Dated, RowSound, GroupStep, Kept
    <2> QED
      BY <2>1, <2>2
  <1>7. GroupsSound
    BY <1>1, <1>3, <1>6 DEF GroupsSound, TypeOK
  <1>8. congested' \in [Groups -> Int] /\ resets' \in Nat
    BY <1>1, <1>2 DEF Reset, TypeOK
  <1> QED
    BY <1>1, <1>6, <1>7, <1>8, SameLeases, InvStep DEF Reset, TypeOK

\* finish: every group of the lease takes the receipt's feedback, and a lease
\* of another owner is overtaken exactly where congestion or a block is dated.
LEMMA FinishGroups ==
    ASSUME AdmissionInv, NEW o \in Owners, NEW m \in Models, NEW r \in Receipts, NEW jitter \in 0 .. MaxJitter,
           FinishFirst(o, m, r, jitter)
    PROVE  /\ GroupsSound /\ \A g \in Groups : GroupStep(g)
           /\ Classify(r) \in {"rate", "endpoint", "auth", "credits"} =>
                \A g \in Charged(o, m) : Hit(g)
           /\ \A g \in Groups : Recovered(g) /\ group[g].mode # "normal" =>
                g \in lease[o].grps /\ lease[o].probe /\ ~Outranked(group[g], lease[o])
  <1>1. TypeOK /\ RetryAfter(r) \in Nat /\ Classify(r) \in Categories /\ jitter \in Nat
        /\ Charged(o, m) \subseteq Groups /\ LeaseSound(o)
    BY DelayType, ConfigAssumption DEF AdmissionInv, TypeOK, LeaseRow, Charged
  <1>2. group' = [g \in Groups |-> IF g \in Charged(o, m)
                    THEN Feedback(g, lease[o], Classify(r), RetryAfter(r), jitter) ELSE group[g]]
    BY DEF FinishFirst
  <1>3. ASSUME NEW g \in Groups
        PROVE  /\ RowSound(g, group'[g]) /\ GroupStep(g)
               /\ g \in Charged(o, m) /\ Classify(r) \in {"rate", "endpoint", "auth", "credits"} => Hit(g)
               /\ Recovered(g) /\ group[g].mode # "normal" =>
                    g \in lease[o].grps /\ lease[o].probe /\ ~Outranked(group[g], lease[o])
    <2>0. Dated(g)
      BY DEF AdmissionInv
    <2>1. CASE g \in Charged(o, m)
      <3>1. group'[g] = Feedback(g, lease[o], Classify(r), RetryAfter(r), jitter)
        BY <1>2, <2>1
      <3>2. /\ RowSound(g, group'[g])
            /\ Classify(r) \in {"rate", "endpoint", "auth", "credits"} => group'[g].congestedAt = now
            /\ \/ group'[g].mode = group[g].mode /\ group'[g].congestedAt = group[g].congestedAt
               \/ group'[g].congestedAt = now
               \/ group'[g].mode = "normal"
            /\ group'[g].mode = "normal" /\ group[g].mode # "normal" =>
                 lease[o].probe /\ ~Outranked(group[g], lease[o])
        BY <1>1, <2>0, <3>1, FeedbackSound
      <3> QED
        BY <1>1, <2>1, <3>2 DEF GroupStep, Kept, Hit, Recovered, Charged, LeaseSound
    <2>2. CASE g \notin Charged(o, m)
      BY <1>1, <1>2, <2>0, <2>2 DEF TypeOK, Dated, RowSound, GroupStep, Kept, Recovered
    <2> QED
      BY <2>1, <2>2
  <1>4. GroupsSound
    BY <1>2, <1>3 DEF GroupsSound, RowSound
  <1> QED
    BY <1>1, <1>3, <1>4

LEMMA FinishLeases ==
    ASSUME AdmissionInv, NEW o \in Owners, NEW m \in Models, NEW r \in Receipts, NEW jitter \in 0 .. MaxJitter,
           FinishFirst(o, m, r, jitter)
    PROVE  lease' \in [Owners -> LeaseRow] /\ \A p \in Owners : LeaseStep(p)
  <1> DEFINE hit == IF Classify(r) \in {"rate", "endpoint", "auth", "credits"} THEN Charged(o, m) ELSE {}
  <1>1. lease \in [Owners -> LeaseRow]
    BY DEF AdmissionInv, TypeOK
  <1>2. lease' = [p \in Owners |->
              CASE p = o -> NoLease
                [] p # o /\ lease[p].held ->
                     [lease[p] EXCEPT !.overtaken = @ \union (hit \intersect lease[p].grps)]
                [] OTHER -> lease[p]]
    BY DEF FinishFirst
  <1>3. \A g \in hit : Hit(g)
    BY FinishGroups
  <1> HIDE DEF hit
  <1>4. ASSUME NEW p \in Owners PROVE lease'[p] \in LeaseRow /\ LeaseStep(p)
    <2>1. CASE p = o
      BY <1>2, <2>1, NoLeaseType DEF LeaseStep
    <2>2. CASE p # o /\ lease[p].held
      <3>1. lease'[p] = [lease[p] EXCEPT !.overtaken = @ \union (hit \intersect lease[p].grps)]
        BY <1>2, <2>2
      <3>2. PICK l \in LeaseRow : l = lease[p]
        BY <1>1
      <3>3. lease'[p] = [l EXCEPT !.overtaken = l.overtaken \union (hit \intersect l.grps)]
        BY <3>1, <3>2
      <3>4. l.overtaken \union (hit \intersect l.grps) \in SUBSET Groups
        BY DEF LeaseRow
      <3>5. /\ lease'[p] \in LeaseRow /\ lease'[p].held = l.held /\ lease'[p].grps = l.grps
            /\ lease'[p].probe = l.probe /\ lease'[p].granted = l.granted
            /\ lease'[p].overtaken = l.overtaken \union (hit \intersect l.grps)
        BY <3>3, <3>4 DEF LeaseRow
      <3> QED
        BY <1>3, <2>2, <3>2, <3>5 DEF LeaseStep, LeaseKept
    <2>3. CASE p # o /\ ~lease[p].held
      BY <1>1, <1>2, <2>3 DEF AdmissionInv, LeaseSound, LeaseStep, LeaseKept
    <2> QED
      BY <2>1, <2>2, <2>3
  <1> QED
    BY <1>2, <1>4

LEMMA FinishInv ==
    ASSUME AdmissionInv, NEW o \in Owners, NEW m \in Models, NEW r \in Receipts, NEW jitter \in 0 .. MaxJitter,
           FinishFirst(o, m, r, jitter)
    PROVE  AdmissionInv'
  <1> DEFINE row == [known |-> TRUE, owner |-> o, grps |-> Charged(o, m),
                     clean |-> Classify(r) = "success", useful |-> FALSE]
  <1>1. TypeOK /\ now' = now
    BY DEF AdmissionInv, FinishFirst
  <1>2. outcome' = [outcome EXCEPT ![process[o]] = row]
    BY DEF FinishFirst
  <1>3. row \in OutcomeRow
    BY <1>1, ConfigAssumption DEF OutcomeRow, TypeOK, LeaseRow, Charged
  <1> HIDE DEF row
  <1>4. outcome' \in [Invocations -> OutcomeRow]
    BY <1>1, <1>2, <1>3 DEF TypeOK
  <1>5. congested' \in [Groups -> Int]
    BY <1>1 DEF FinishFirst, TypeOK
  <1>6. GroupsSound /\ \A g \in Groups : GroupStep(g)
    BY FinishGroups
  <1>7. lease' \in [Owners -> LeaseRow] /\ \A p \in Owners : LeaseStep(p)
    BY FinishLeases
  <1>8. now' \in Nat /\ now <= now' /\ spawned' \in 0 .. MaxInvocations /\ resets' \in Nat
        /\ process' \in [Owners -> 0 .. MaxInvocations]
    BY <1>1 DEF FinishFirst, TypeOK
  <1> QED
    BY <1>4, <1>5, <1>6, <1>7, <1>8, InvStep

-------------------------------------------------------------------------------
(* The invariant.                                                            *)

LEMMA InitInv == Init => AdmissionInv
  <1> SUFFICES ASSUME Init PROVE AdmissionInv
    OBVIOUS
  <1> DEFINE row(g) == [target |-> Initial[g], mode |-> "normal", cooldown |-> None, len |-> Cooldown,
                        windowStart |-> 0, loaded |-> None, useful |-> 0, congestedAt |-> None]
  <1>1. None \in Int /\ None <= 0 /\ 0 \in Nat
    BY NoneType
  <1>2. ASSUME NEW g \in Groups
        PROVE  row(g) \in GroupRow /\ Minimum[g] <= Initial[g] /\ Initial[g] <= Ceiling[g]
    BY <1>1, ConfigAssumption DEF GroupRow
  <1>3. group = [g \in Groups |-> row(g)]
    BY DEF Init
  <1>4. group \in [Groups -> GroupRow]
    BY <1>2, <1>3
  <1>5. NoOutcome \in OutcomeRow
    BY DEF NoOutcome, OutcomeRow
  <1>6. TypeOK
    BY <1>1, <1>2, <1>3, <1>4, <1>5, NoLeaseType, ConfigAssumption DEF Init, TypeOK
  <1>7. \A g \in Groups : Dated(g)
    BY <1>1, <1>3 DEF Init, Dated
  <1>8. \A o \in Owners : LeaseSound(o)
    BY <1>1 DEF Init, LeaseSound, NoLease
  <1> QED
    BY <1>6, <1>7, <1>8 DEF AdmissionInv

LEMMA NextInv == AdmissionInv /\ [Next]_vars => AdmissionInv'
  BY DeniedInv, GrantedInv, QuietInv, UsefulInv, FinishInv, ResetInv, RestartInv, TickInv DEF Next

\* Rows and leases stay sound: targets between floor and ceiling, no date after
\* the clock, and feedback since a grant outranks the lease until recovery.
THEOREM AdmissionSound == Spec => []AdmissionInv
  BY InitInv, NextInv, PTL DEF Spec

-------------------------------------------------------------------------------
(* One lifting probe.                                                        *)

\* A step that grants no lease cannot make a second probe able to lift.
LEMMA ProbeStep ==
    ASSUME AdmissionInv, OneLiftingProbe, \A g \in Groups : GroupStep(g),
           \A o \in Owners : ~lease'[o].held \/ LeaseKept(o)
    PROVE  OneLiftingProbe'
  <1> SUFFICES ASSUME NEW g \in Groups, group'[g].mode = "probing",
                      NEW o \in ActiveProbes(g)', NEW p \in ActiveProbes(g)',
                      ~Outranked(group'[g], lease'[o]), ~Outranked(group'[g], lease'[p])
               PROVE  o = p
    BY DEF OneLiftingProbe
  <1>1. /\ o \in Owners /\ lease'[o].held /\ g \in lease'[o].grps /\ lease'[o].probe
        /\ p \in Owners /\ lease'[p].held /\ g \in lease'[p].grps /\ lease'[p].probe
    BY DEF ActiveProbes, Active, Held
  <1>2. LeaseKept(o) /\ LeaseKept(p)
    BY <1>1
  <1>3. now \in Nat /\ None \notin Nat /\ lease[o].granted \in Int /\ lease[o].granted <= now
    BY <1>1 DEF AdmissionInv, TypeOK, LeaseSound, LeaseRow, None
  <1>4. ~Hit(g)
    BY <1>2, <1>3 DEF Hit, Outranked, LeaseKept
  <1>5. Kept(g)
    BY <1>4 DEF GroupStep, Recovered
  <1>6. o \in ActiveProbes(g) /\ p \in ActiveProbes(g)
    BY <1>1, <1>2 DEF ActiveProbes, Active, Held, LeaseKept
  <1>7. ~Outranked(group[g], lease[o]) /\ ~Outranked(group[g], lease[p]) /\ group[g].mode = "probing"
    BY <1>2, <1>5 DEF Kept, LeaseKept, Outranked
  <1> QED
    BY <1>6, <1>7 DEF OneLiftingProbe

\* reserve grants a lease on a probing group only when no probe is out on it.
LEMMA ProbeGranted ==
    ASSUME AdmissionInv, OneLiftingProbe, NEW o \in Owners, NEW m \in Models, ReserveGranted(o, m)
    PROVE  OneLiftingProbe'
  <1>1. TypeOK /\ GroupsOf[m] \in SUBSET Groups
    BY ConfigAssumption DEF AdmissionInv
  <1>2. ASSUME NEW g \in Groups PROVE Kept(g)
    <2>1. group'[g] = IF g \in GroupsOf[m] THEN Grown(g) ELSE group[g]
      BY DEF ReserveGranted
    <2> QED
      BY <1>1, <2>1, GrownSound DEF AdmissionInv, Kept
  <1>3. \A p \in Owners \ {o} : lease'[p] = lease[p]
    BY <1>1 DEF ReserveGranted, TypeOK
  <1>4. lease'[o].grps = GroupsOf[m]
    BY <1>1 DEF ReserveGranted, TypeOK
  <1>5. \A g \in GroupsOf[m] : group[g].mode = "probing" => ActiveProbes(g) = {}
    BY DEF ReserveGranted, Denied
  <1> SUFFICES ASSUME NEW g \in Groups, group'[g].mode = "probing",
                      NEW p \in ActiveProbes(g)', NEW q \in ActiveProbes(g)',
                      ~Outranked(group'[g], lease'[p]), ~Outranked(group'[g], lease'[q])
               PROVE  p = q
    BY DEF OneLiftingProbe
  <1>6. /\ p \in Owners /\ lease'[p].held /\ g \in lease'[p].grps /\ lease'[p].probe
        /\ q \in Owners /\ lease'[q].held /\ g \in lease'[q].grps /\ lease'[q].probe
    BY DEF ActiveProbes, Active, Held
  <1>7. group[g].mode = "probing"
    BY <1>2 DEF Kept
  <1>8. (p # o => p \in ActiveProbes(g)) /\ (q # o => q \in ActiveProbes(g))
    BY <1>3, <1>6 DEF ActiveProbes, Active, Held
  <1>9. CASE p = o \/ q = o
    BY <1>4, <1>5, <1>6, <1>7, <1>8, <1>9
  <1>10. CASE p # o /\ q # o
    BY <1>2, <1>3, <1>6, <1>7, <1>8, <1>10 DEF OneLiftingProbe, Kept, Outranked
  <1> QED
    BY <1>9, <1>10

\* Every other step leaves each group in one of the three ways and each lease
\* dropped or as it was.
LEMMA OtherSteps ==
    ASSUME AdmissionInv, [Next]_vars,
           ~\E o \in Owners, m \in Models : ReserveGranted(o, m)
    PROVE  /\ \A g \in Groups : GroupStep(g)
           /\ \A o \in Owners : ~lease'[o].held \/ LeaseKept(o)
  <1>0. TypeOK /\ \A g \in Groups : Dated(g)
    BY DEF AdmissionInv
  <1>1. ASSUME NEW o \in Owners, NEW m \in Models, ReserveDenied(o, m)
        PROVE  (\A g \in Groups : GroupStep(g)) /\ lease' = lease
    <2>1. PICK h \in GroupsOf[m] : group' = [group EXCEPT ![h].loaded = now]
      BY <1>1 DEF ReserveDenied
    <2>2. ASSUME NEW g \in Groups PROVE Kept(g)
      <3>1. group[g] \in GroupRow
            /\ group'[g] = IF g = h THEN [group[g] EXCEPT !.loaded = now] ELSE group[g]
        BY <1>0, <2>1 DEF TypeOK
      <3> QED
        BY <3>1 DEF Kept, GroupRow
    <2> QED
      BY <1>1, <2>2 DEF GroupStep, ReserveDenied
  <1>2. ASSUME NEW o \in Owners, Launch(o) \/ FinishRepeated(o) \/ Release(o)
        PROVE  group' = group /\ \A p \in Owners : ~lease'[p].held \/ LeaseKept(p)
    BY <1>0, <1>2 DEF Launch, FinishRepeated, Release, TypeOK, LeaseKept, NoLease
  <1>3. ASSUME NEW o \in Owners, Useful(o)
        PROVE  (\A g \in Groups : GroupStep(g)) /\ lease' = lease
    <2>1. PICK i \in Invocations :
            /\ group' = [g \in Groups |-> IF g \in outcome[i].grps
                                          THEN [group[g] EXCEPT !.useful = @ + 1] ELSE group[g]]
            /\ lease' = lease
      BY <1>3 DEF Useful
    <2>2. ASSUME NEW g \in Groups PROVE Kept(g)
      <3>1. group[g] \in GroupRow
            /\ group'[g] = IF g \in outcome[i].grps THEN [group[g] EXCEPT !.useful = @ + 1] ELSE group[g]
        BY <1>0, <2>1 DEF TypeOK
      <3> QED
        BY <3>1 DEF Kept, GroupRow
    <2> QED
      BY <2>1, <2>2 DEF GroupStep
  <1>4. ASSUME NEW o \in Owners, NEW m \in Models, NEW r \in Receipts, NEW jitter \in 0 .. MaxJitter,
               FinishFirst(o, m, r, jitter)
        PROVE  /\ \A g \in Groups : GroupStep(g)
               /\ \A p \in Owners : ~lease'[p].held \/ LeaseKept(p)
    <2>1. \A p \in Owners : lease'[p] = NoLease \/ LeaseKept(p)
      <3>1. ASSUME NEW p \in Owners, p # o, lease[p].held PROVE LeaseKept(p)
        <4>1. PICK S : lease'[p] = [lease[p] EXCEPT !.overtaken = S]
          BY <1>4, <3>1 DEF FinishFirst
        <4>2. lease[p] \in LeaseRow
          BY <1>0 DEF TypeOK
        <4> QED
          BY <4>1, <4>2 DEF LeaseKept, LeaseRow
      <3>2. ASSUME NEW p \in Owners, p # o, ~lease[p].held PROVE LeaseKept(p)
        BY <1>4, <3>2 DEF FinishFirst, LeaseKept
      <3>3. lease'[o] = NoLease
        BY <1>4 DEF FinishFirst
      <3> QED
        BY <3>1, <3>2, <3>3
    <2> QED
      BY <1>4, <2>1, FinishGroups DEF NoLease
  <1>5. ASSUME NEW h \in Groups, Reset(h)
        PROVE  (\A g \in Groups : GroupStep(g)) /\ lease' = lease
    <2>1. group[h] \in GroupRow /\ group'[h].mode = "normal" /\ \A g \in Groups \ {h} : group'[g] = group[g]
      BY <1>0, <1>5 DEF Reset, TypeOK, GroupRow
    <2> QED
      BY <1>5, <2>1 DEF Reset, GroupStep, Kept, Recovered
  <1>6. ASSUME NEW owners \in SUBSET Owners, Restart(owners)
        PROVE  group' = group /\ \A p \in Owners : ~lease'[p].held \/ LeaseKept(p)
    BY <1>6 DEF Restart, LeaseKept, NoLease
  <1>7. CASE Tick \/ UNCHANGED vars
    BY <1>7 DEF Tick, vars, GroupStep, Kept, LeaseKept
  <1>8. group' = group => \A g \in Groups : GroupStep(g)
    BY DEF GroupStep, Kept
  <1>9. lease' = lease => \A o \in Owners : LeaseKept(o)
    BY DEF LeaseKept
  <1> QED
    BY <1>1, <1>2, <1>3, <1>4, <1>5, <1>6, <1>7, <1>8, <1>9 DEF Next

LEMMA NextProbe == AdmissionInv /\ OneLiftingProbe /\ [Next]_vars => OneLiftingProbe'
  BY ProbeGranted, ProbeStep, OtherSteps

\* Recovery reopens with a single probe: at most one lease can lift a probing
\* group, for any overlap of groups and any interleaving of reports.
THEOREM SingleProbe == Spec => []OneLiftingProbe
  <1>1. Init => OneLiftingProbe
    BY DEF Init, OneLiftingProbe
  <1> QED
    BY <1>1, InitInv, NextInv, NextProbe, PTL DEF Spec

-------------------------------------------------------------------------------
(* What a step may do.                                                       *)

\* A group's row in a step that reports nothing for the first time: no column a
\* penalty touches gets worse, and only a reset changes the mode.
Spared(g) ==
    /\ group[g].target <= group'[g].target /\ group'[g].cooldown <= group[g].cooldown
    /\ group'[g].mode = group[g].mode \/ (group'[g].mode = "normal" /\ lease' = lease /\ outcome' = outcome)

LEMMA SparedSteps ==
    ASSUME AdmissionInv, [Next]_vars,
           ~\E o \in Owners, m \in Models, r \in Receipts, jitter \in 0 .. MaxJitter : FinishFirst(o, m, r, jitter)
    PROVE  \A g \in Groups : Spared(g)
  <1>0. TypeOK /\ \A g \in Groups : Dated(g)
    BY DEF AdmissionInv
  <1>1. \A g \in Groups : group[g] \in GroupRow /\ group[g].target \in Int /\ group[g].cooldown \in Int
                         /\ None <= group[g].cooldown
    BY <1>0, RowValues
  <1>2. group' = group => \A g \in Groups : Spared(g)
    BY <1>1 DEF Spared
  <1>3. ASSUME NEW o \in Owners, NEW m \in Models, ReserveDenied(o, m)
        PROVE  \A g \in Groups : Spared(g)
    <2>1. PICK h \in GroupsOf[m] : group' = [group EXCEPT ![h].loaded = now]
      BY <1>3 DEF ReserveDenied
    <2>2. ASSUME NEW g \in Groups PROVE Spared(g)
      <3>1. group'[g] = IF g = h THEN [group[g] EXCEPT !.loaded = now] ELSE group[g]
        BY <1>0, <2>1 DEF TypeOK
      <3>2. /\ group'[g].target = group[g].target /\ group'[g].cooldown = group[g].cooldown
            /\ group'[g].mode = group[g].mode
        BY <1>1, <3>1 DEF GroupRow
      <3> QED
        BY <1>1, <3>2 DEF Spared
    <2> QED
      BY <2>2
  <1>4. ASSUME NEW o \in Owners, NEW m \in Models, ReserveGranted(o, m)
        PROVE  \A g \in Groups : Spared(g)
    <2>1. ASSUME NEW g \in Groups PROVE Spared(g)
      <3>1. group'[g] = IF g \in GroupsOf[m] THEN Grown(g) ELSE group[g]
        BY <1>4 DEF ReserveGranted
      <3> QED
        BY <1>0, <1>1, <3>1, GrownSound DEF Spared
    <2> QED
      BY <2>1
  <1>5. ASSUME NEW o \in Owners, Useful(o)
        PROVE  \A g \in Groups : Spared(g)
    <2>1. PICK i \in Invocations :
            group' = [g \in Groups |-> IF g \in outcome[i].grps
                                      THEN [group[g] EXCEPT !.useful = @ + 1] ELSE group[g]]
      BY <1>5 DEF Useful
    <2>2. ASSUME NEW g \in Groups PROVE Spared(g)
      <3>1. group'[g] = IF g \in outcome[i].grps THEN [group[g] EXCEPT !.useful = @ + 1] ELSE group[g]
        BY <2>1
      <3>2. /\ group'[g].target = group[g].target /\ group'[g].cooldown = group[g].cooldown
            /\ group'[g].mode = group[g].mode
        BY <1>1, <3>1 DEF GroupRow
      <3> QED
        BY <1>1, <3>2 DEF Spared
    <2> QED
      BY <2>2
  <1>6. ASSUME NEW h \in Groups, Reset(h)
        PROVE  \A g \in Groups : Spared(g)
    <2>1. /\ group'[h].target = group[h].target /\ group'[h].cooldown = None /\ group'[h].mode = "normal"
          /\ lease' = lease /\ outcome' = outcome /\ \A g \in Groups \ {h} : group'[g] = group[g]
      BY <1>0, <1>1, <1>6 DEF Reset, TypeOK, GroupRow
    <2> QED
      BY <1>1, <2>1 DEF Spared
  <1>7. (\E o \in Owners : Launch(o) \/ FinishRepeated(o) \/ Release(o))
        \/ (\E owners \in SUBSET Owners : Restart(owners)) \/ Tick \/ UNCHANGED vars => group' = group
    BY DEF Launch, FinishRepeated, Release, Restart, Tick, vars
  <1> QED
    BY <1>2, <1>3, <1>4, <1>5, <1>6, <1>7 DEF Next

LEMMA LiftLemma == AdmissionInv /\ [Next]_vars => LiftStep
  <1> SUFFICES ASSUME AdmissionInv, [Next]_vars, NEW g \in Groups,
                      group[g].mode # "normal", group'[g].mode = "normal"
               PROVE  \/ lease' = lease /\ outcome' = outcome
                      \/ /\ group[g].mode = "probing"
                         /\ \E o \in Owners : /\ lease[o].held /\ ~lease'[o].held
                                              /\ g \in lease[o].grps /\ lease[o].probe
                                              /\ g \notin lease[o].overtaken
    BY DEF LiftStep
  <1>1. CASE ~\E o \in Owners, m \in Models, r \in Receipts, jitter \in 0 .. MaxJitter : FinishFirst(o, m, r, jitter)
    BY <1>1, SparedSteps DEF Spared
  <1>2. ASSUME NEW o \in Owners, NEW m \in Models, NEW r \in Receipts, NEW jitter \in 0 .. MaxJitter,
               FinishFirst(o, m, r, jitter)
        PROVE  /\ group[g].mode = "probing"
               /\ lease[o].held /\ ~lease'[o].held /\ g \in lease[o].grps /\ lease[o].probe
               /\ g \notin lease[o].overtaken
    <2>1. g \in lease[o].grps /\ lease[o].probe /\ ~Outranked(group[g], lease[o])
      BY <1>2, FinishGroups DEF Recovered
    <2>2. group[g].mode \in {"normal", "probing", "blocked"}
      BY RowValues DEF AdmissionInv
    <2>3. group[g].mode = "probing"
      BY <2>1, <2>2 DEF Outranked
    <2>4. LeaseSound(o)
      BY DEF AdmissionInv
    <2>5. lease[o].held /\ g \notin lease[o].overtaken
      BY <2>1, <2>4 DEF LeaseSound
    <2>6. lease'[o] = NoLease
      BY <1>2 DEF FinishFirst
    <2> QED
      BY <2>1, <2>3, <2>5, <2>6 DEF NoLease
  <1> QED
    BY <1>1, <1>2

LEMMA PenaltyLemma == AdmissionInv /\ [Next]_vars => PenaltyStep
  <1> SUFFICES ASSUME AdmissionInv, [Next]_vars, NEW g \in Groups,
                      \/ group'[g].target < group[g].target
                      \/ group'[g].cooldown > group[g].cooldown
                      \/ group'[g].mode = "blocked" /\ group[g].mode # "blocked"
               PROVE  \E i \in Invocations : ~outcome[i].known /\ outcome'[i].known
    BY DEF PenaltyStep
  <1>0. TypeOK /\ TypeOK'
    BY NextInv DEF AdmissionInv
  <1>1. CASE ~\E o \in Owners, m \in Models, r \in Receipts, jitter \in 0 .. MaxJitter : FinishFirst(o, m, r, jitter)
    <2>1. group[g] \in GroupRow /\ group'[g] \in GroupRow
      BY <1>0 DEF TypeOK
    <2>2. group[g].target \in Int /\ group[g].cooldown \in Int
          /\ group'[g].target \in Int /\ group'[g].cooldown \in Int
      BY <2>1 DEF GroupRow
    <2> QED
      BY <1>1, <2>2, SparedSteps DEF Spared
  <1>2. ASSUME NEW o \in Owners, NEW m \in Models, NEW r \in Receipts, NEW jitter \in 0 .. MaxJitter,
               FinishFirst(o, m, r, jitter)
        PROVE  \E i \in Invocations : ~outcome[i].known /\ outcome'[i].known
    <2>1. process[o] \in Invocations /\ ~outcome[process[o]].known
      BY <1>0, <1>2, ConfigAssumption DEF FinishFirst, Repeated, Reported, TypeOK, Invocations
    <2>2. outcome'[process[o]].known
      BY <1>0, <1>2, <2>1 DEF FinishFirst, TypeOK
    <2> QED
      BY <2>1, <2>2
  <1> QED
    BY <1>1, <1>2

\* Without an operator, a group returns to normal only by a probe granted after
\* the last provider feedback on it, and never from a block.
THEOREM LiftIsCausal == Spec => ProbeLiftsOwnEpisode
  <1>1. AdmissionInv /\ [Next]_vars => [LiftStep]_vars
    BY LiftLemma
  <1> QED
    BY <1>1, AdmissionSound, PTL DEF Spec, ProbeLiftsOwnEpisode

\* A report repeated after a crash or a retry spends no second penalty.
THEOREM PenaltyIsSpentOnce == Spec => PenaltyOncePerInvocation
  <1>1. AdmissionInv /\ [Next]_vars => [PenaltyStep]_vars
    BY PenaltyLemma
  <1> QED
    BY <1>1, AdmissionSound, PTL DEF Spec, PenaltyOncePerInvocation
================================================================================
