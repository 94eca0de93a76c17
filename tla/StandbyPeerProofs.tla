------------------------- MODULE StandbyPeerProofs -------------------------
(***************************************************************************)
(* For every failover budget, with and without revision, and whatever the  *)
(* source, the field and the operator answer: a peer's gate, its marks of  *)
(* earlier losses and its convergence proof agree with its role.           *)
(***************************************************************************)
EXTENDS StandbyPeer, TLAPS

-----------------------------------------------------------------------------
(* Each of Peer's methods preserves PeerSound.                             *)

\* A peer, as started: a standby, or an active one with its startup grant
\* answered.
LEMMA BornSound ==
    /\ PeerSound(BornStandby)
    /\ \A x \in Answers : PeerSound(Activate(BornActive, x))
  <1>1. /\ BornActive \in Peers /\ BornActive.role = "active"
        /\ ~BornActive.startupPending /\ ~BornActive.converged /\ ~BornActive.yielded
    BY DEF BornActive, Peers, Roles, Syncs
  <1>2. PeerSound(BornStandby)
    <2>1. /\ BornStandby \in Peers /\ BornStandby.role = "standby"
          /\ ~BornStandby.gate /\ ~BornStandby.startupPending /\ ~BornStandby.converged
      BY DEF BornStandby, BornActive, Peers, Roles, Syncs
    <2> QED BY <2>1 DEF PeerSound, GateSound, OwnerSound, StartupOwed, ProofSound,
            OwnsField
  <1>3. PeerSound(OpenGate(BornActive))
    BY <1>1 DEF OpenGate, PeerSound, Peers, Roles, Syncs, GateSound, OwnerSound,
       StartupOwed, ProofSound, OwnsField
  <1>4. ASSUME NEW q \in Peers, ~q.startupPending, ~q.yielded
        PROVE  /\ PeerSound(StandDown(q))
               /\ PeerSound([StandDown(q) EXCEPT !.startupPending = TRUE])
    BY <1>4, ZenonT(40) DEF StandDown, Relinquish, PeerSound, Peers, Roles, Syncs, GateSound,
       OwnerSound, StartupOwed, ProofSound, OwnsField
  <1>5. /\ [BornActive EXCEPT !.fieldClaim = "held"] \in Peers
        /\ ~[BornActive EXCEPT !.fieldClaim = "held"].startupPending
        /\ ~[BornActive EXCEPT !.fieldClaim = "held"].yielded
    BY <1>1 DEF Peers
  <1>6. PeerSound(StandDown([BornActive EXCEPT !.fieldClaim = "held"]))
    BY <1>4, <1>5
  <1>7. PeerSound([StandDown(BornActive) EXCEPT !.startupPending = TRUE])
    BY <1>1, <1>4
  <1> QED BY <1>2, <1>3, <1>6, <1>7, Zenon DEF Answers, Activate

\* A granted claim leaves a clean owner with an open gate.
LEMMA TakeSound ==
    ASSUME NEW p, PeerSound(p), ~p.startupPending
    PROVE  PeerSound(Take(p))
  BY DEF PeerSound, Peers, Roles, Syncs, GateSound, OwnerSound, StartupOwed,
         ProofSound, OwnsField, Take, OpenGate

\* A demotion closes the gate and voids the proof.
LEMMA DemoteSound ==
    ASSUME NEW p, PeerSound(p), OwnsField(p), NEW origin
    PROVE  PeerSound(DemoteInner(p, origin))
  <1>1. (origin = "request") = TRUE \/ (origin = "request") = FALSE
    <2>1. CASE origin = "request"
      BY <2>1
    <2>2. CASE origin # "request"
      BY <2>2
    <2> QED BY <2>1, <2>2
  <1>2. ASSUME NEW y \in BOOLEAN
        PROVE  PeerSound([Relinquish(p) EXCEPT !.yielded = y, !.role = "demoting"])
    BY ZenonT(40) DEF PeerSound, Peers, Roles, Syncs, GateSound, OwnerSound, StartupOwed,
           ProofSound, OwnsField, Relinquish
  <1> QED BY <1>1, <1>2, Zenon DEF DemoteInner

\* Counting a miss stays in the counter's range.
LEMMA BumpNat == \A n \in Nat : Bump(n) \in Nat
  BY BudgetAssumption DEF Bump

\* A standby's verdict on its line: no update of it touches the gate, the
\* role or the marks of earlier losses.
StandbyStep(p, q) == /\ PeerSound(q)
                     /\ ~OwnsField(q)
                     /\ q.startupPending = p.startupPending

\* The verdict of an apply from a line that owns the field.
LEMMA ProvenSound ==
    ASSUME NEW p, PeerSound(p), ~OwnsField(p), NEW ck
    PROVE  StandbyStep(p, [Proven(p, ck) EXCEPT !.aligned = TRUE, !.staged = FALSE])
  <1> USE DEF PeerSound, Peers, Roles, Syncs, GateSound, OwnerSound, StartupOwed,
              ProofSound, OwnsField, StandbyStep
  <1>1. CASE Comparison(p, ck) = "mismatch"
    <2>1. Proven(p, ck) = [p EXCEPT !.sync = "diverged", !.converged = FALSE]
      BY <1>1 DEF Proven
    <2> QED BY <2>1
  <1>2. CASE /\ Comparison(p, ck) # "mismatch"
             /\ Comparison(p, ck) = "match" \/ p.sync # "diverged"
    <2>1. Proven(p, ck) = [p EXCEPT !.sync = "tracking", !.converged = TRUE]
      BY <1>2 DEF Proven
    <2> QED BY <2>1
  <1>3. CASE /\ Comparison(p, ck) # "mismatch"
             /\ ~(Comparison(p, ck) = "match" \/ p.sync # "diverged")
    <2>1. Proven(p, ck) = p
      BY <1>3 DEF Proven
    <2> QED BY <2>1
  <1> QED BY <1>1, <1>2, <1>3

\* An applied, refused or reinitialized checkpoint.
LEMMA TransferSound ==
    ASSUME NEW p, PeerSound(p), ~OwnsField(p), NEW ck
    PROVE  StandbyStep(p, Transfer(p, ck))
  <1> DEFINE q == Count(p, ck)
  <1>1. StandbyStep(p, q) /\ q.foreign = p.foreign
    BY BumpNat DEF PeerSound, Peers, Roles, Syncs, GateSound, OwnerSound,
       StartupOwed, ProofSound, OwnsField, StandbyStep, Count
  <1> HIDE DEF q
  <1>4. StandbyStep(p, [Proven(q, ck) EXCEPT !.aligned = TRUE, !.staged = FALSE])
    <2>1. PeerSound(q) /\ ~OwnsField(q) /\ q.startupPending = p.startupPending
      BY <1>1 DEF StandbyStep
    <2>2. StandbyStep(q, [Proven(q, ck) EXCEPT !.aligned = TRUE, !.staged = FALSE])
      BY <2>1, ProvenSound
    <2> QED BY <2>1, <2>2 DEF StandbyStep
  <1> USE DEF PeerSound, Peers, Roles, Syncs, GateSound, OwnerSound, StartupOwed,
              ProofSound, OwnsField, StandbyStep
  <1>2. StandbyStep(p, [q EXCEPT !.sync = "degraded", !.converged = FALSE])
    BY <1>1
  <1>3. \A s \in {"reinitialized", "usurped", "orphaned"} :
            StandbyStep(p, [q EXCEPT !.sync = s, !.converged = TRUE,
                                     !.aligned = TRUE, !.staged = FALSE])
    BY <1>1
  <1> HIDE DEF StandbyStep
  <1> QED BY <1>2, <1>3, <1>4, Zenon DEF Transfer, q

\* A missed pull.
LEMMA MissSound ==
    ASSUME NEW p, PeerSound(p), ~OwnsField(p)
    PROVE  StandbyStep(p, NoteTransferFailed(p))
  <1> DEFINE n == Bump(p.misses)
             c == p.converged /\ ~(Budget # 0 /\ n > Budget)
             y == IF p.sync = "diverged" \/ LineUnowned(p) THEN p.sync ELSE "degraded"
  <1>1. n \in Nat /\ c \in BOOLEAN /\ y \in Syncs
    BY BumpNat DEF PeerSound, Peers, Syncs
  <1>2. c => /\ p.converged
             /\ y \notin {"diverged", "unsynchronized"}
    BY DEF PeerSound, ProofSound, LineUnowned
  <1>3. NoteTransferFailed(p) = [p EXCEPT !.misses = n, !.converged = c, !.sync = y]
    BY DEF NoteTransferFailed
  <1> HIDE DEF n, c, y
  <1>4. StandbyStep(p, [p EXCEPT !.misses = n, !.converged = c, !.sync = y])
    BY <1>1, <1>2 DEF StandbyStep, PeerSound, Peers, Roles, GateSound, OwnerSound,
       StartupOwed, ProofSound, OwnsField
  <1> QED BY <1>3, <1>4

\* A pull that produced a checkpoint.
LEMMA ServedSound ==
    ASSUME NEW p, PeerSound(p), ~OwnsField(p), NEW ck
    PROVE  StandbyStep(p, Served(p, ck))
  <1> DEFINE f == p.fencingLost /\ ck.owns # "yes"
             q == [p EXCEPT !.fencingLost = f]
  <1>1. f \in BOOLEAN
    BY DEF PeerSound, Peers
  <1> HIDE DEF f
  <1>2. StandbyStep(p, q)
    BY <1>1 DEF StandbyStep, PeerSound, Peers, Roles, Syncs, GateSound, OwnerSound,
       StartupOwed, ProofSound, OwnsField
  <1>3. Served(p, ck) = Transfer(q, ck)
    BY DEF Served, f
  <1> HIDE DEF q
  <1>4. StandbyStep(q, Transfer(q, ck))
    BY <1>2, TransferSound DEF StandbyStep
  <1> QED BY <1>2, <1>3, <1>4 DEF StandbyStep

\* The orphan cycle's re-arm records a sighting and nothing else.
LEMMA EnsuredSound ==
    ASSUME NEW p, PeerSound(p), NEW granted \in BOOLEAN
    PROVE  /\ PeerSound(Ensured(p, granted))
           /\ OwnsField(Ensured(p, granted)) <=> OwnsField(p)
           /\ Ensured(p, granted).startupPending = p.startupPending
  <1> DEFINE q == [p EXCEPT !.fieldClaim = "held"]
  <1>1. PeerSound(q) /\ (OwnsField(q) <=> OwnsField(p))
        /\ q.startupPending = p.startupPending
    BY DEF PeerSound, Peers, Roles, Syncs, GateSound, OwnerSound, StartupOwed,
           ProofSound, OwnsField
  <1>2. Ensured(p, granted) \in {p, q}
    BY DEF Ensured
  <1> HIDE DEF q
  <1> QED BY <1>1, <1>2

\* The promotion boundary's pull.
LEMMA FinalSyncSound ==
    ASSUME NEW p, PeerSound(p), ~OwnsField(p), NEW ck
    PROVE  StandbyStep(p, FinalSync(p, ck))
  <1> DEFINE q == [p EXCEPT !.staged = FALSE]
             m == Transfer(q, ck)
             g == p.staged /\ (ck.restarted => ck.transfer = "refused")
  <1>1. StandbyStep(p, q) /\ q.aligned = p.aligned
    BY DEF StandbyStep, PeerSound, Peers, Roles, Syncs, GateSound, OwnerSound,
       StartupOwed, ProofSound, OwnsField
  <1>2. g \in BOOLEAN
    BY DEF PeerSound, Peers
  <1> HIDE DEF q, g
  <1>3. StandbyStep(q, m)
    BY <1>1, TransferSound DEF StandbyStep
  <1>4. p.aligned => m.aligned
    <2> DEFINE k == Count(q, ck)
    <2>1. k \in Peers /\ k.aligned = q.aligned
      BY <1>1, BumpNat DEF Count, StandbyStep, PeerSound, Peers
    <2> HIDE DEF k
    <2>2. Proven(k, ck) \in {k, [k EXCEPT !.sync = "diverged", !.converged = FALSE],
                             [k EXCEPT !.sync = "tracking", !.converged = TRUE]}
      BY Zenon DEF Proven
    <2>3. Proven(k, ck) \in Peers
      BY <2>1, <2>2 DEF Peers, Syncs
    <2> QED BY <1>1, <2>1, <2>3 DEF Transfer, Peers, k
  <1>5. FinalSync(p, ck) = [m EXCEPT !.sync = p.sync, !.converged = p.converged,
                                     !.staged = g]
    BY DEF FinalSync, q, g
  <1> HIDE DEF m
  <1>6. ASSUME NEW y \in Syncs, NEW c \in BOOLEAN,
               c => m.aligned /\ y \notin {"diverged", "unsynchronized"}
        PROVE  StandbyStep(m, [m EXCEPT !.sync = y, !.converged = c, !.staged = g])
    BY <1>2, <1>3, <1>6 DEF StandbyStep, PeerSound, Peers, Roles,
       GateSound, OwnerSound, StartupOwed, ProofSound, OwnsField
  <1>7. /\ p.sync \in Syncs /\ p.converged \in BOOLEAN
        /\ p.converged => m.aligned /\ p.sync \notin {"diverged", "unsynchronized"}
    BY <1>4 DEF PeerSound, Peers, ProofSound
  <1>8. StandbyStep(m, [m EXCEPT !.sync = p.sync, !.converged = p.converged,
                                 !.staged = g])
    BY <1>6, <1>7
  <1> QED BY <1>1, <1>3, <1>5, <1>8 DEF StandbyStep

\* The foreign-writer diagnosis touches a standby's verdict only.
LEMMA DiagnosedSound ==
    ASSUME NEW p, PeerSound(p), NEW writer \in BOOLEAN
    PROVE  /\ PeerSound(NoteForeignWriter(p, writer))
           /\ OwnsField(NoteForeignWriter(p, writer)) <=> OwnsField(p)
  <1> DEFINE f == writer /\ LineUnowned(p)
             y == IF LineUnowned(p) THEN IF f THEN "usurped" ELSE "orphaned"
                  ELSE p.sync
             q == [p EXCEPT !.foreign = f, !.sync = y]
  <1>1. CASE OwnsField(p)
    BY <1>1 DEF NoteForeignWriter
  <1>2. CASE ~OwnsField(p)
    <2>1. f \in BOOLEAN /\ y \in Syncs
          /\ (p.sync \notin {"diverged", "unsynchronized"}
                  => y \notin {"diverged", "unsynchronized"})
      BY DEF PeerSound, Peers, Syncs, LineUnowned
    <2>2. NoteForeignWriter(p, writer) = q
      BY <1>2 DEF NoteForeignWriter
    <2> HIDE DEF f, y
    <2>3. PeerSound(q) /\ ~OwnsField(q)
      BY <1>2, <2>1 DEF PeerSound, Peers, Roles, GateSound, OwnerSound, StartupOwed,
         ProofSound, OwnsField
    <2> QED BY <1>2, <2>2, <2>3
  <1> QED BY <1>1, <1>2

\* The scan's probe.
LEMMA ProbedSound ==
    ASSUME NEW p, PeerSound(p), NEW seen \in Sightings
    PROVE  PeerSound(Probed(p, seen)) /\ Probed(p, seen).role = p.role
           /\ Probed(p, seen).yielded = p.yielded
  <1>1. CASE seen = "silent"
    BY <1>1 DEF Probed
  <1>2. CASE seen # "silent"
    <2>1. seen \in {"held", "unclaimed"} /\ Probed(p, seen) = [p EXCEPT !.fieldClaim = seen]
      BY <1>2 DEF Probed, Sightings
    <2> QED BY <2>1 DEF PeerSound, Peers, Roles, Syncs, GateSound, OwnerSound,
            StartupOwed, ProofSound, OwnsField
  <1> QED BY <1>1, <1>2

\* A fenced owner demotes within its scan.
LEMMA FencedSound ==
    ASSUME NEW p, PeerSound(p), OwnsField(p)
    PROVE  PeerSound(FencedOut(p))
  <1>1. ASSUME NEW y \in BOOLEAN
        PROVE  PeerSound([Relinquish([p EXCEPT !.fencingLost = TRUE])
                              EXCEPT !.yielded = y, !.role = "demoting"])
    BY ZenonT(40) DEF PeerSound, Peers, Roles, Syncs, GateSound, OwnerSound, StartupOwed,
           ProofSound, OwnsField, Relinquish
  <1>2. ("fenced" = "request") = FALSE
    OBVIOUS
  <1> QED BY <1>1, <1>2, Zenon DEF FencedOut, DemoteInner

\* The scan settles a transitional role.
LEMMA SettledSound ==
    ASSUME NEW p, PeerSound(p)
    PROVE  /\ PeerSound(Settled(p)) /\ (OwnsField(Settled(p)) <=> OwnsField(p))
           /\ Settled(p).yielded = p.yielded
  <1> DEFINE y == IF p.role = "promoting" THEN "active"
                  ELSE IF p.role = "demoting" THEN "standby" ELSE p.role
  <1>1. /\ y \in Roles /\ (y \in {"active", "promoting"} <=> OwnsField(p))
        /\ p.role = "standby" => y = "standby"
    BY DEF PeerSound, Peers, Roles, OwnsField
  <1>2. Settled(p) = [p EXCEPT !.role = y]
    BY DEF Settled
  <1> HIDE DEF y
  <1>3. /\ PeerSound([p EXCEPT !.role = y])
        /\ OwnsField([p EXCEPT !.role = y]) <=> OwnsField(p)
        /\ [p EXCEPT !.role = y].yielded = p.yielded
    BY <1>1 DEF PeerSound, Peers, Syncs, GateSound, OwnerSound, StartupOwed,
       ProofSound, OwnsField
  <1> QED BY <1>2, <1>3

\* The claim hook the scan asks: a reclaim is never a yielded peer's.
LEMMA HookedSound ==
    ASSUME NEW p, PeerSound(p), NEW seen, NEW answer
    PROVE  /\ PeerSound(Hooked(p, seen, answer))
           /\ OwnsField(Hooked(p, seen, answer)) /\ ~OwnsField(p) => ~p.yielded
  <1>1. CASE ReclaimAsked(p, seen) /\ answer = "granted"
    <2>1. ~p.startupPending /\ ~p.yielded
      BY <1>1 DEF ReclaimAsked, PeerSound, StartupOwed, Peers
    <2>2. PeerSound([Take(p) EXCEPT !.fieldClaim = "held"])
      BY <2>1, TakeSound DEF PeerSound, Peers, Roles, Syncs, GateSound, OwnerSound,
         StartupOwed, ProofSound, OwnsField
    <2> QED BY <1>1, <2>1, <2>2 DEF Hooked
  <1>2. CASE /\ ~(ReclaimAsked(p, seen) /\ answer = "granted")
             /\ StartupAsked(p, seen) /\ answer = "granted"
    <2>1. p.startupPending /\ ~p.yielded
      BY <1>2 DEF StartupAsked, PeerSound, StartupOwed
    <2>2. PeerSound([Take(p) EXCEPT !.fieldClaim = "held", !.startupPending = FALSE])
      BY DEF Take, OpenGate, PeerSound, Peers, Roles, Syncs, GateSound, OwnerSound,
         StartupOwed, ProofSound, OwnsField
    <2> QED BY <1>2, <2>1, <2>2 DEF Hooked
  <1>3. CASE /\ ~(ReclaimAsked(p, seen) /\ answer = "granted")
             /\ ~(StartupAsked(p, seen) /\ answer = "granted")
             /\ StartupAsked(p, seen) /\ answer = "refused"
    <2> DEFINE q == [p EXCEPT !.fieldClaim = "held", !.startupPending = FALSE]
    <2>1. PeerSound(q) /\ (OwnsField(q) <=> OwnsField(p))
      BY DEF PeerSound, Peers, Roles, Syncs, GateSound, OwnerSound,
         StartupOwed, ProofSound, OwnsField
    <2>2. Hooked(p, seen, answer) = q
      BY <1>3, Zenon DEF Hooked
    <2> HIDE DEF q
    <2> QED BY <2>1, <2>2
  <1>4. CASE /\ ~(ReclaimAsked(p, seen) /\ answer = "granted")
             /\ ~(StartupAsked(p, seen) /\ answer = "granted")
             /\ ~(StartupAsked(p, seen) /\ answer = "refused")
    BY <1>4, Zenon DEF Hooked
  <1> QED BY <1>1, <1>2, <1>3, <1>4

\* The scan's last step.
LEMMA ClosedSound ==
    ASSUME NEW p, PeerSound(p), NEW seen
    PROVE  PeerSound(Closed(p, seen)) /\ Closed(p, seen).role = p.role
  <1> DEFINE f == seen # "silent" /\ p.fieldClaim = "unclaimed"
             g == ~OwnsField(p) /\ p.aligned
  <1>1. f \in BOOLEAN /\ g \in BOOLEAN
    BY DEF PeerSound, Peers
  <1> HIDE DEF f, g
  <1>2. /\ PeerSound([p EXCEPT !.freeSeen = f, !.staged = g])
        /\ [p EXCEPT !.freeSeen = f, !.staged = g].role = p.role
    BY <1>1, ZenonT(40) DEF PeerSound, Peers, Roles, Syncs, GateSound, OwnerSound, StartupOwed,
       ProofSound, OwnsField
  <1> QED BY <1>2 DEF Closed, f, g

-----------------------------------------------------------------------------
(* Every step of the scan thread and of the HTTP threads preserves PeerInv. *)

\* The grants `taken` records are typed.
LEMMA GrantTyped ==
    ASSUME NEW p, NEW via \in {"request", "failover"}
    PROVE  Grant(via, ClaimKind(p)) \in
               [via : {"none", "request", "failover", "reclaim", "startup"},
                kind : {"none", "claim", "unlessHeld", "reclaim"}]
  BY DEF Grant, ClaimKind

\* A failover attempted on a sound standby, granted or refused.
LEMMA FailoverInv ==
    ASSUME PeerInv, NEW p, PeerSound(p), NEW skewed, NEW granted,
           Failover(p, skewed, granted)
    PROVE  /\ PeerSound(peer') /\ attempted' \in BOOLEAN
           /\ taken' \in [via : {"none", "request", "failover", "reclaim", "startup"},
                          kind : {"none", "claim", "unlessHeld", "reclaim"}]
           /\ OwnsField(peer') /\ ~OwnsField(p) => taken'.via = "failover"
  <1>1. CASE MaySelfPromote(p) /\ ~BasisRefuses(p, skewed) /\ granted
    <2>1. peer' = Take(p) /\ taken' = Grant("failover", ClaimKind(p)) /\ attempted' = TRUE
      BY <1>1 DEF Failover
    <2>2. PeerSound(Take(p))
      BY <1>1, TakeSound DEF MaySelfPromote
    <2> QED BY <2>1, <2>2, GrantTyped DEF Grant
  <1>2. CASE ~(MaySelfPromote(p) /\ ~BasisRefuses(p, skewed) /\ granted)
    BY <1>2 DEF Failover, PeerInv, TypeOK
  <1> QED BY <1>1, <1>2

\* A tracking cycle without a boundary to act on.
LEMMA NoFailoverInv ==
    ASSUME PeerInv, NEW p, PeerSound(p), NoFailover(p)
    PROVE  /\ PeerSound(peer') /\ attempted' \in BOOLEAN
           /\ taken' \in [via : {"none", "request", "failover", "reclaim", "startup"},
                          kind : {"none", "claim", "unlessHeld", "reclaim"}]
           /\ peer' = p
  BY DEF NoFailover, PeerInv, TypeOK

\* A granted, refused or failed promotion request.
LEMMA PromotedInv ==
    ASSUME PeerInv, NEW p, PeerSound(p), NEW skewed, NEW granted,
           Promoted(p, skewed, granted)
    PROVE  /\ PeerSound(peer')
           /\ taken' \in [via : {"none", "request", "failover", "reclaim", "startup"},
                          kind : {"none", "claim", "unlessHeld", "reclaim"}]
           /\ OwnsField(peer') /\ ~OwnsField(p) => taken'.via = "request"
  <1>1. CASE MayPromote(p) /\ ~BasisRefuses(p, skewed) /\ granted
    <2>1. peer' = Take(p) /\ taken' = Grant("request", ClaimKind(p))
      BY <1>1 DEF Promoted
    <2>2. PeerSound(Take(p))
      BY <1>1, TakeSound DEF MayPromote
    <2> QED BY <2>1, <2>2, GrantTyped DEF Grant
  <1>2. CASE ~(MayPromote(p) /\ ~BasisRefuses(p, skewed) /\ granted)
    BY <1>2 DEF Promoted, PeerInv, TypeOK
  <1> QED BY <1>1, <1>2

\* What every step does to ownership: an owner that a yielded standby becomes
\* was asked for by a request or a failover.
YieldStep == peer.yielded /\ OwnsField(peer)' => taken'.via \in {"request", "failover"}

\* A yielded peer is not an owner.
LEMMA YieldedStands == PeerInv /\ peer.yielded => ~OwnsField(peer)
  BY DEF PeerInv, PeerSound, OwnerSound

\* A pull that produced a checkpoint.
LEMMA TrackServedInv ==
    ASSUME PeerInv, NEW ck \in Pulls, NEW ensured \in BOOLEAN, NEW skewed \in BOOLEAN,
           NEW granted \in BOOLEAN, TrackServed(ck, ensured, skewed, granted)
    PROVE  PeerInv' /\ YieldStep
  <1> DEFINE p == Served(peer, ck)
             q == IF ck.owns = "no" /\ ck.transfer # "refused"
                  THEN Ensured(p, ensured) ELSE p
  <1>1. PeerSound(p) /\ ~OwnsField(p)
    BY ServedSound DEF PeerInv, TrackServed, StandbyStep
  <1> HIDE DEF p
  <1>2. PeerSound(q) /\ ~OwnsField(q)
    BY <1>1, EnsuredSound
  <1>3. Failover(q, skewed, granted) \/ NoFailover(q)
    BY Zenon DEF TrackServed, p
  <1> HIDE DEF q
  <1>4. /\ PeerSound(peer') /\ attempted' \in BOOLEAN
        /\ taken' \in [via : {"none", "request", "failover", "reclaim", "startup"},
                       kind : {"none", "claim", "unlessHeld", "reclaim"}]
        /\ OwnsField(peer') => taken'.via = "failover"
    BY <1>2, <1>3, FailoverInv, NoFailoverInv
  <1>5. line' \in {"none", "yes", "no", "unknown"} /\ cycle' = "diagnose"
    BY DEF TrackServed, PeerInv, TypeOK, Pulls, Checkpoints
  <1> QED BY <1>4, <1>5 DEF PeerInv, TypeOK, PeerSound, YieldStep, OwnsField

\* A pull that produced nothing.
LEMMA TrackMissedInv ==
    ASSUME PeerInv, NEW skewed \in BOOLEAN, NEW granted \in BOOLEAN,
           TrackMissed(skewed, granted)
    PROVE  PeerInv' /\ YieldStep
  <1> DEFINE p == NoteTransferFailed(peer)
  <1>1. PeerSound(p) /\ ~OwnsField(p)
    BY MissSound DEF PeerInv, TrackMissed, StandbyStep
  <1>2. Failover(p, skewed, granted) \/ NoFailover(p)
    BY Zenon DEF TrackMissed
  <1> HIDE DEF p
  <1>3. /\ PeerSound(peer') /\ attempted' \in BOOLEAN
        /\ taken' \in [via : {"none", "request", "failover", "reclaim", "startup"},
                       kind : {"none", "claim", "unlessHeld", "reclaim"}]
        /\ OwnsField(peer') => taken'.via = "failover"
    BY <1>1, <1>2, FailoverInv, NoFailoverInv
  <1> QED BY <1>3 DEF TrackMissed, PeerInv, TypeOK, PeerSound, YieldStep, OwnsField

\* A scan whose write was fenced, and one that was not.
LEMMA ScanInv ==
    ASSUME PeerInv, NEW seen \in Sightings, NEW answer \in Answers,
           ScanFenced(seen) \/ Scan(seen, answer)
    PROVE  PeerInv' /\ YieldStep
  <1> DEFINE o == Probed(peer, seen)
  <1>1. PeerSound(o) /\ o.role = peer.role /\ o.yielded = peer.yielded
    BY ProbedSound DEF PeerInv
  <1> HIDE DEF o
  <1>2. CASE ScanFenced(seen)
    <2>1. PeerSound(peer')
      BY <1>1, <1>2, FencedSound DEF ScanFenced, OwnsField, o
    <2>2. ~peer.yielded
      BY <1>2, YieldedStands DEF ScanFenced
    <2> QED BY <1>2, <2>1, <2>2 DEF ScanFenced, PeerInv, TypeOK, PeerSound, YieldStep
  <1>3. CASE Scan(seen, answer)
    <2> DEFINE p == Settled(o)
               q == Hooked(p, seen, answer)
               k == Closed(q, seen)
    <2>0. peer' = k
      BY <1>3 DEF Scan, o
    <2>1. /\ PeerSound(p) /\ (OwnsField(p) <=> OwnsField(peer))
          /\ p.yielded = peer.yielded
      BY <1>1, SettledSound DEF OwnsField
    <2>9. taken' = IF OwnsField(q) /\ ~OwnsField(p) THEN ScanVia(p) ELSE taken
      BY <1>3 DEF Scan, o
    <2> HIDE DEF p
    <2>2. PeerSound(q) /\ (OwnsField(q) /\ ~OwnsField(p) => ~p.yielded)
      BY <2>1, HookedSound
    <2> HIDE DEF q
    <2>3. PeerSound(k) /\ k.role = q.role
      BY <2>2, ClosedSound
    <2> HIDE DEF k
    <2>4. OwnsField(peer') <=> OwnsField(q)
      BY <2>0, <2>3 DEF OwnsField
    <2>5. taken' \in [via : {"none", "request", "failover", "reclaim", "startup"},
                      kind : {"none", "claim", "unlessHeld", "reclaim"}]
      BY <2>9 DEF ScanVia, Grant, PeerInv, TypeOK
    <2>6. PeerInv'
      BY <1>3, <2>0, <2>3, <2>5 DEF Scan, PeerInv, TypeOK, PeerSound
    <2>7. YieldStep
      BY <2>1, <2>2, <2>4, YieldedStands DEF YieldStep, OwnsField
    <2> QED BY <2>6, <2>7
  <1> QED BY <1>2, <1>3

\* The diagnosis, and a cycle that tracks nothing.
LEMMA QuietInv ==
    ASSUME PeerInv, TrackNothing \/ (\E writer \in BOOLEAN : Diagnose(writer))
    PROVE  PeerInv' /\ YieldStep
  <1>1. CASE TrackNothing
    BY <1>1, YieldedStands
    DEF TrackNothing, PeerInv, TypeOK, PeerSound, YieldStep, OwnsField
  <1>2. ASSUME NEW writer \in BOOLEAN, Diagnose(writer) PROVE PeerInv' /\ YieldStep
    <2>1. PeerSound(peer') /\ (OwnsField(peer') <=> OwnsField(peer))
      BY <1>2, DiagnosedSound DEF Diagnose, PeerInv
    <2> QED BY <1>2, <2>1, YieldedStands
            DEF Diagnose, PeerInv, TypeOK, PeerSound, YieldStep, OwnsField
  <1> QED BY <1>1, <1>2

\* The switchover requests.
LEMMA SwitchoverInv ==
    ASSUME PeerInv, NEW ck \in Pulls, NEW skewed \in BOOLEAN, NEW granted \in BOOLEAN,
           Promote(skewed, granted) \/ PromoteSynced(ck, skewed, granted) \/ Demote
    PROVE  PeerInv' /\ YieldStep
  <1>1. CASE Promote(skewed, granted)
    <2>1. /\ PeerSound(peer')
          /\ taken' \in [via : {"none", "request", "failover", "reclaim", "startup"},
                         kind : {"none", "claim", "unlessHeld", "reclaim"}]
          /\ OwnsField(peer') /\ ~OwnsField(peer) => taken'.via = "request"
      BY <1>1, PromotedInv DEF Promote, PeerInv
    <2> QED BY <1>1, <2>1, YieldedStands
            DEF Promote, PeerInv, TypeOK, PeerSound, YieldStep, OwnsField
  <1>2. CASE PromoteSynced(ck, skewed, granted)
    <2> DEFINE p == FinalSync(peer, ck)
    <2>1. PeerSound(p) /\ ~OwnsField(p)
      BY <1>2, FinalSyncSound DEF PromoteSynced, PeerInv, StandbyStep
    <2>2. Promoted(p, skewed, granted)
      BY <1>2 DEF PromoteSynced
    <2> HIDE DEF p
    <2>3. /\ PeerSound(peer')
          /\ taken' \in [via : {"none", "request", "failover", "reclaim", "startup"},
                         kind : {"none", "claim", "unlessHeld", "reclaim"}]
          /\ OwnsField(peer') /\ ~OwnsField(p) => taken'.via = "request"
      BY <2>1, <2>2, PromotedInv
    <2>4. attempted' \in BOOLEAN
      BY <1>2 DEF PromoteSynced, PeerInv, TypeOK
    <2> QED BY <1>2, <2>1, <2>3, <2>4
            DEF PromoteSynced, PeerInv, TypeOK, PeerSound, YieldStep, OwnsField
  <1>3. CASE Demote
    <2>1. PeerSound(peer')
      BY <1>3, DemoteSound DEF Demote, PeerInv
    <2>2. ~peer.yielded
      BY <1>3, YieldedStands DEF Demote
    <2> QED BY <1>3, <2>1, <2>2 DEF Demote, PeerInv, TypeOK, PeerSound, YieldStep
  <1> QED BY <1>1, <1>2, <1>3

\* A peer as started satisfies the invariant.
LEMMA InitPeer == Init => PeerInv
  <1> SUFFICES ASSUME Init PROVE PeerInv
    OBVIOUS
  <1>1. PeerSound(peer)
    BY BornSound DEF Init
  <1> QED BY <1>1 DEF Init, PeerInv, TypeOK, PeerSound, Grant

\* Every step preserves the invariant and leaves a yielded peer aside.
LEMMA NextPeer == PeerInv /\ Next => PeerInv' /\ YieldStep
  <1> SUFFICES ASSUME PeerInv, Next PROVE PeerInv' /\ YieldStep
    OBVIOUS
  <1>2. "error" \in Answers
    BY DEF Answers
  <1>3. CASE \E ck \in Pulls, ensured, skewed, granted \in BOOLEAN :
                 TrackServed(ck, ensured, skewed, granted)
    BY <1>3, TrackServedInv
  <1>4. CASE \E skewed, granted \in BOOLEAN : TrackMissed(skewed, granted)
    BY <1>4, TrackMissedInv
  <1>5. CASE TrackNothing \/ \E writer \in BOOLEAN : Diagnose(writer)
    BY <1>5, QuietInv
  <1>6. CASE \E seen \in Sightings : ScanFenced(seen)
    BY <1>2, <1>6, ScanInv
  <1>7. CASE \E seen \in Sightings, x \in Answers : Scan(seen, x)
    BY <1>7, ScanInv
  <1>8. CASE \/ \E skewed, granted \in BOOLEAN : Promote(skewed, granted)
             \/ \E ck \in Pulls, skewed, granted \in BOOLEAN :
                   PromoteSynced(ck, skewed, granted)
             \/ Demote
    <2>1. [owns |-> "yes", transfer |-> "refused", restarted |-> FALSE,
           compared |-> "none"] \in Pulls
      BY DEF Pulls, Checkpoints
    <2> QED BY <1>8, <2>1, SwitchoverInv
  <1> QED BY <1>3, <1>4, <1>5, <1>6, <1>7, <1>8 DEF Next

\* For every failover budget and whatever the source, the field and the
\* operator do: gate, loss marks and convergence proof agree with the role.
THEOREM PeerIsSound == Spec => []PeerInv
  <1>1. PeerInv /\ UNCHANGED vars => PeerInv'
    BY DEF PeerInv, TypeOK, PeerSound, vars
  <1> QED BY <1>1, InitPeer, NextPeer, PTL DEF Spec

\* The gate follows the role: the peer writes only while it owns the field.
COROLLARY GateIsSound == Spec => []GateFollowsRole
  <1>1. PeerInv => GateFollowsRole
    BY DEF PeerInv, PeerSound, GateFollowsRole
  <1> QED BY <1>1, PeerIsSound, PTL

\* An owner carries no mark of an earlier loss of the field.
COROLLARY OwnerIsSound == Spec => []OwnerIsClean
  <1>1. PeerInv => OwnerIsClean
    BY DEF PeerInv, PeerSound, OwnerIsClean
  <1> QED BY <1>1, PeerIsSound, PTL

\* A self-promotion never stands on a diverged or never-aligned image.
COROLLARY ProofIsHonest == Spec => []ProofHonest
  <1>1. PeerInv => ProofHonest
    BY DEF PeerInv, PeerSound, ProofHonest
  <1> QED BY <1>1, PeerIsSound, PTL

\* The operator's switch stands: no reclaim and no startup grant ever returns
\* the field to a peer that handed it over.
THEOREM YieldIsKept == Spec => YieldedStaysAside
  <1>1. PeerInv /\ [Next]_vars
            => [peer.yielded /\ OwnsField(peer)'
                    => taken'.via \in {"request", "failover"}]_vars
    BY NextPeer DEF YieldStep
  <1> QED BY <1>1, PeerIsSound, PTL DEF Spec, YieldedStaysAside

-----------------------------------------------------------------------------
(* A line without an owner.                                                *)

\* What a standby knows of a line that reported no owner: nobody holds the
\* field, a foreign writer does, or the line's checkpoints were refused since.
Unheard(p) == \/ p.sync = "orphaned" /\ ~p.foreign
              \/ p.sync = "usurped" /\ p.foreign
              \/ p.sync = "degraded" /\ ~p.converged

LineSound == line = "no" /\ ~OwnsField(peer) => Unheard(peer)

\* What a step may do: the claim it asks for on such a line defers.
DeferStep ==
    (/\ line = "no" /\ ~peer.foreign
     /\ ~OwnsField(peer) /\ OwnsField(peer)'
     /\ taken'.via \in {"request", "failover"})
        => taken'.kind = "unlessHeld" \/ line' # "no"

\* A pull from a line that reports no owner, and a refused one.
LEMMA TransferLine ==
    ASSUME NEW p \in Peers, NEW ck, ck.transfer # "reinitialized"
    PROVE  /\ ck.transfer = "refused" =>
                 Transfer(p, ck).sync = "degraded" /\ ~Transfer(p, ck).converged
           /\ ck.transfer # "refused" /\ ck.owns = "no" =>
                 /\ Transfer(p, ck).sync = (IF p.foreign THEN "usurped" ELSE "orphaned")
                 /\ Transfer(p, ck).foreign = p.foreign
  <1> DEFINE q == Count(p, ck)
  <1>1. q \in Peers /\ q.foreign = p.foreign
    BY BumpNat DEF Count, Peers
  <1> HIDE DEF q
  <1>2. CASE ck.transfer = "refused"
    <2>1. Transfer(p, ck) = [q EXCEPT !.sync = "degraded", !.converged = FALSE]
      BY <1>2 DEF Transfer, q
    <2> QED BY <1>1, <1>2, <2>1 DEF Peers
  <1>3. CASE ck.transfer # "refused" /\ ck.owns = "no"
    <2> DEFINE y == IF p.foreign THEN "usurped" ELSE "orphaned"
    <2>1. Transfer(p, ck) = [q EXCEPT !.sync = y, !.converged = TRUE, !.aligned = TRUE,
                                      !.staged = FALSE]
      BY <1>3 DEF Transfer, q
    <2> HIDE DEF y
    <2>2. Transfer(p, ck).sync = y /\ Transfer(p, ck).foreign = p.foreign
      BY <1>1, <2>1 DEF Peers
    <2> QED BY <1>3, <2>2 DEF y
  <1>4. CASE ck.transfer # "refused" /\ ck.owns # "no"
    BY <1>4
  <1> QED BY <1>2, <1>3, <1>4

LEMMA ServedLine ==
    ASSUME NEW p, PeerSound(p), NEW ck, ck.transfer # "reinitialized"
    PROVE  /\ ck.transfer = "refused" =>
                 Served(p, ck).sync = "degraded" /\ ~Served(p, ck).converged
           /\ ck.transfer # "refused" /\ ck.owns = "no" =>
                 /\ Served(p, ck).sync = (IF p.foreign THEN "usurped" ELSE "orphaned")
                 /\ Served(p, ck).foreign = p.foreign
  <1> DEFINE f == p.fencingLost /\ ck.owns # "yes"
             q == [p EXCEPT !.fencingLost = f]
  <1>1. f \in BOOLEAN
    BY DEF PeerSound, Peers
  <1> HIDE DEF f
  <1>2. q \in Peers /\ q.foreign = p.foreign
    BY <1>1 DEF PeerSound, Peers
  <1>3. Served(p, ck) = Transfer(q, ck)
    BY DEF Served, f
  <1> HIDE DEF q
  <1> QED BY <1>2, <1>3, TransferLine

\* The promotion boundary's pull leaves the verdict on the line as it was.
LEMMA FinalSyncLine ==
    ASSUME NEW p, PeerSound(p), ~OwnsField(p), NEW ck
    PROVE  /\ FinalSync(p, ck).sync = p.sync /\ FinalSync(p, ck).converged = p.converged
           /\ FinalSync(p, ck).foreign = p.foreign
  <1> DEFINE q == [p EXCEPT !.staged = FALSE]
             k == Count(q, ck)
             m == Transfer(q, ck)
             g == p.staged /\ (ck.restarted => ck.transfer = "refused")
  <1>1. q \in Peers /\ q.foreign = p.foreign
    BY DEF PeerSound, Peers
  <1>2. k \in Peers /\ k.foreign = p.foreign
    <2> HIDE DEF q
    <2> QED BY <1>1, BumpNat DEF Count, Peers
  <1>3. m \in {[k EXCEPT !.sync = "degraded", !.converged = FALSE],
               [k EXCEPT !.sync = "reinitialized", !.converged = TRUE, !.aligned = TRUE,
                         !.staged = FALSE],
               [k EXCEPT !.sync = "usurped", !.converged = TRUE, !.aligned = TRUE,
                         !.staged = FALSE],
               [k EXCEPT !.sync = "orphaned", !.converged = TRUE, !.aligned = TRUE,
                         !.staged = FALSE],
               [Proven(k, ck) EXCEPT !.aligned = TRUE, !.staged = FALSE]}
    BY Zenon DEF Transfer
  <1> HIDE DEF q, k, m, g
  <1>4. Proven(k, ck) \in {k, [k EXCEPT !.sync = "diverged", !.converged = FALSE],
                           [k EXCEPT !.sync = "tracking", !.converged = TRUE]}
    BY Zenon DEF Proven
  <1>5. Proven(k, ck) \in Peers /\ Proven(k, ck).foreign = p.foreign
    BY <1>2, <1>4 DEF Peers, Syncs
  <1>6. m \in Peers /\ m.foreign = p.foreign
    <2>1. \A s \in Syncs, c \in BOOLEAN :
             LET r == [k EXCEPT !.sync = s, !.converged = c]
             IN  r \in Peers /\ r.foreign = p.foreign
      BY <1>2 DEF Peers
    <2>2. \A r \in Peers : /\ [r EXCEPT !.aligned = TRUE, !.staged = FALSE] \in Peers
                           /\ [r EXCEPT !.aligned = TRUE, !.staged = FALSE].foreign = r.foreign
      BY DEF Peers
    <2>3. \A s \in Syncs :
             LET r == [k EXCEPT !.sync = s, !.converged = TRUE, !.aligned = TRUE, !.staged = FALSE]
             IN  r \in Peers /\ r.foreign = p.foreign
      BY <1>2 DEF Peers
    <2>4. {"degraded", "reinitialized", "usurped", "orphaned"} \subseteq Syncs
      BY DEF Syncs
    <2> QED BY <1>3, <1>5, <2>1, <2>2, <2>3, <2>4
  <1>7. FinalSync(p, ck) = [m EXCEPT !.sync = p.sync, !.converged = p.converged, !.staged = g]
    BY DEF FinalSync, q, m, g
  <1> QED BY <1>6, <1>7 DEF Peers

\* A promotion of a peer that knows its line is unowned asks for the field
\* conditionally; one that was not granted leaves the peer as it was.
LEMMA TakenDefers ==
    ASSUME NEW p, NEW via, PeerSound(p), ~OwnsField(p),
           \/ peer' = p
           \/ Promotable(p) /\ peer' = Take(p) /\ taken' = Grant(via, ClaimKind(p))
    PROVE  /\ ~OwnsField(peer') => peer' = p
           /\ OwnsField(peer') /\ Unheard(p) /\ ~p.foreign => taken'.kind = "unlessHeld"
  <1>1. CASE peer' = p
    BY <1>1
  <1>2. CASE Promotable(p) /\ peer' = Take(p) /\ taken' = Grant(via, ClaimKind(p))
    <2>1. OwnsField(Take(p))
      BY DEF Take, OpenGate, OwnsField, PeerSound, Peers
    <2>2. Unheard(p) /\ ~p.foreign => p.sync = "orphaned"
      BY <1>2 DEF Unheard, Promotable
    <2>3. p.sync = "orphaned" => taken'.kind = "unlessHeld"
      BY <1>2 DEF ClaimKind, Grant
    <2> QED BY <1>2, <2>1, <2>2, <2>3
  <1> QED BY <1>1, <1>2

\* A self-promotion stands on a standing proof, which no refused line leaves.
LEMMA FailoverDefers ==
    ASSUME NEW p, NEW skewed, NEW granted, PeerSound(p), ~OwnsField(p),
           Failover(p, skewed, granted) \/ NoFailover(p)
    PROVE  /\ ~OwnsField(peer') => peer' = p
           /\ OwnsField(peer') /\ Unheard(p) /\ ~p.foreign => taken'.kind = "unlessHeld"
  <1>1. CASE peer' = p
    BY <1>1
  <1>2. CASE MaySelfPromote(p) /\ peer' = Take(p) /\ taken' = Grant("failover", ClaimKind(p))
    <2>1. CASE Promotable(p)
      BY <1>2, <2>1, TakenDefers
    <2>2. CASE ~Promotable(p)
      <3>1. ~(Unheard(p) /\ ~p.foreign)
        BY <1>2, <2>2 DEF Unheard, Promotable, MaySelfPromote
      <3>2. OwnsField(Take(p))
        BY DEF Take, OpenGate, OwnsField, PeerSound, Peers
      <3> QED BY <1>2, <3>1, <3>2
    <2> QED BY <2>1, <2>2
  <1> QED BY <1>1, <1>2 DEF Failover, NoFailover

LEMMA TrackServedLine ==
    ASSUME PeerInv, ~Revised, NEW ck \in Pulls, NEW ensured \in BOOLEAN,
           NEW skewed \in BOOLEAN, NEW granted \in BOOLEAN,
           TrackServed(ck, ensured, skewed, granted)
    PROVE  LineSound' /\ DeferStep
  <1> DEFINE p == Served(peer, ck)
             q == IF ck.owns = "no" /\ ck.transfer # "refused"
                  THEN Ensured(p, ensured) ELSE p
  <1>1. PeerSound(p) /\ ~OwnsField(p) /\ PeerSound(peer)
    BY ServedSound DEF PeerInv, TrackServed, StandbyStep
  <1>2. ck.transfer # "reinitialized"
    BY DEF Pulls
  <1>3. /\ ck.transfer = "refused" => p.sync = "degraded" /\ ~p.converged
        /\ ck.transfer # "refused" /\ ck.owns = "no" =>
              p.sync = (IF peer.foreign THEN "usurped" ELSE "orphaned") /\ p.foreign = peer.foreign
    BY <1>1, <1>2, ServedLine
  <1>4. Failover(q, skewed, granted) \/ NoFailover(q)
    BY Zenon DEF TrackServed
  <1>5. line' = IF ck.transfer = "refused" THEN line ELSE ck.owns
    BY DEF TrackServed
  <1>6. ck.transfer = "refused" => NoFailover(q)
    BY Zenon DEF TrackServed
  <1> HIDE DEF p
  <1>7. /\ PeerSound(q) /\ ~OwnsField(q) /\ q.sync = p.sync /\ q.converged = p.converged
        /\ q.foreign = p.foreign
    <2>1. Ensured(p, ensured) \in {p, [p EXCEPT !.fieldClaim = "held"]}
      BY DEF Ensured
    <2>2. /\ Ensured(p, ensured).sync = p.sync /\ Ensured(p, ensured).foreign = p.foreign
          /\ Ensured(p, ensured).converged = p.converged
      BY <1>1, <2>1 DEF PeerSound, Peers
    <2> QED BY <1>1, <2>2, EnsuredSound
  <1> HIDE DEF q
  <1>8. /\ ~OwnsField(peer') => peer' = q
        /\ OwnsField(peer') /\ Unheard(q) /\ ~q.foreign => taken'.kind = "unlessHeld"
    BY <1>4, <1>7, FailoverDefers
  <1>9. CASE ck.transfer = "refused"
    <2>1. peer' = q /\ Unheard(q)
      BY <1>3, <1>6, <1>7, <1>9 DEF NoFailover, Unheard
    <2> QED BY <1>7, <2>1 DEF LineSound, DeferStep, Unheard, OwnsField
  <1>10. CASE ck.transfer # "refused" /\ ck.owns = "no"
    <2>1. Unheard(q) /\ q.foreign = peer.foreign
      BY <1>3, <1>7, <1>10 DEF Unheard
    <2> QED BY <1>8, <2>1 DEF LineSound, DeferStep, Unheard, OwnsField
  <1>11. CASE ck.transfer # "refused" /\ ck.owns # "no"
    BY <1>5, <1>11 DEF LineSound, DeferStep
  <1> QED BY <1>9, <1>10, <1>11

LEMMA TrackMissedLine ==
    ASSUME PeerInv, LineSound, NEW skewed \in BOOLEAN, NEW granted \in BOOLEAN,
           TrackMissed(skewed, granted)
    PROVE  LineSound' /\ DeferStep
  <1> DEFINE p == NoteTransferFailed(peer)
  <1>1. PeerSound(p) /\ ~OwnsField(p) /\ peer \in Peers
    BY MissSound DEF PeerInv, PeerSound, TrackMissed, StandbyStep
  <1>2. Failover(p, skewed, granted) \/ NoFailover(p)
    BY Zenon DEF TrackMissed
  <1>3. line' = line /\ ~OwnsField(peer)
    BY DEF TrackMissed
  <1>4. (Unheard(peer) => Unheard(p)) /\ p.foreign = peer.foreign
    BY <1>1 DEF NoteTransferFailed, Unheard, LineUnowned, Peers
  <1> HIDE DEF p
  <1>5. /\ ~OwnsField(peer') => peer' = p
        /\ OwnsField(peer') /\ Unheard(p) /\ ~p.foreign => taken'.kind = "unlessHeld"
    BY <1>1, <1>2, FailoverDefers
  <1> QED BY <1>3, <1>4, <1>5 DEF LineSound, DeferStep, Unheard, OwnsField

LEMMA ScanLine ==
    ASSUME PeerInv, LineSound, NEW seen \in Sightings, NEW answer \in Answers,
           ScanFenced(seen) \/ Scan(seen, answer)
    PROVE  LineSound' /\ DeferStep
  <1>1. CASE ScanFenced(seen)
    BY <1>1 DEF ScanFenced, LineSound, DeferStep
  <1>2. CASE Scan(seen, answer)
    <2> DEFINE o == Probed(peer, seen)
               p == Settled(o)
               q == Hooked(p, seen, answer)
               k == Closed(q, seen)
    <2>1. /\ peer' = k /\ line' = line
          /\ taken' = IF OwnsField(q) /\ ~OwnsField(p) THEN ScanVia(p) ELSE taken
      BY <1>2 DEF Scan
    <2>2. /\ PeerSound(o) /\ (OwnsField(o) <=> OwnsField(peer)) /\ o.sync = peer.sync
          /\ o.foreign = peer.foreign /\ o.converged = peer.converged
      <3>1. PeerSound(o) /\ o.role = peer.role
        BY ProbedSound DEF PeerInv
      <3>2. o = peer \/ o = [peer EXCEPT !.fieldClaim = seen]
        BY DEF Probed
      <3> HIDE DEF o
      <3> QED BY <3>1, <3>2 DEF PeerInv, PeerSound, Peers, OwnsField
    <2> HIDE DEF o
    <2>3. /\ PeerSound(p) /\ (OwnsField(p) <=> OwnsField(peer)) /\ p.sync = peer.sync
          /\ p.foreign = peer.foreign /\ p.converged = peer.converged
      <3>1. PeerSound(p) /\ (OwnsField(p) <=> OwnsField(o))
        BY <2>2, SettledSound
      <3>2. p.sync = o.sync /\ p.foreign = o.foreign /\ p.converged = o.converged
        BY <2>2 DEF Settled, PeerSound, Peers
      <3> HIDE DEF p
      <3> QED BY <2>2, <3>1, <3>2
    <2> HIDE DEF p
    <2>4. /\ PeerSound(q)
          /\ ~OwnsField(q) => q.sync = p.sync /\ q.foreign = p.foreign /\ q.converged = p.converged
      <3>1. PeerSound(q)
        BY <2>3, HookedSound
      <3>2. q \in {[Take(p) EXCEPT !.fieldClaim = "held"],
                   [Take(p) EXCEPT !.fieldClaim = "held", !.startupPending = FALSE],
                   [p EXCEPT !.fieldClaim = "held", !.startupPending = FALSE], p}
        BY Zenon DEF Hooked
      <3> HIDE DEF q
      <3>3. /\ OwnsField([Take(p) EXCEPT !.fieldClaim = "held"])
            /\ OwnsField([Take(p) EXCEPT !.fieldClaim = "held", !.startupPending = FALSE])
        BY <2>3 DEF Take, OpenGate, OwnsField, PeerSound, Peers
      <3> QED BY <2>3, <3>1, <3>2, <3>3 DEF PeerSound, Peers
    <2> HIDE DEF q
    <2>5. /\ OwnsField(k) <=> OwnsField(q)
          /\ k.sync = q.sync /\ k.foreign = q.foreign /\ k.converged = q.converged
      BY <2>4 DEF Closed, OwnsField, PeerSound, Peers
    <2> HIDE DEF k
    <2>6. OwnsField(peer') /\ ~OwnsField(peer) => taken'.via \in {"startup", "reclaim"}
      BY <2>1, <2>3, <2>5 DEF ScanVia, Grant, OwnsField
    <2>7. DeferStep
      BY <2>6 DEF DeferStep, OwnsField
    <2>8. ASSUME line' = "no", ~OwnsField(peer') PROVE Unheard(peer')
      <3>1. (~OwnsField(q) /\ Unheard(peer)) \/ OwnsField(peer)
        BY <2>1, <2>5, <2>8 DEF LineSound, OwnsField
      <3>2. ~OwnsField(peer)
        <4>1. OwnsField(p) => OwnsField(q)
          BY <2>3, <2>4 DEF Hooked, ReclaimAsked, StartupAsked, OwnsField, PeerSound,
             Peers, StartupOwed, q
        <4> QED BY <2>1, <2>3, <2>5, <2>8, <4>1 DEF OwnsField
      <3> QED BY <2>1, <2>3, <2>4, <2>5, <3>1, <3>2 DEF Unheard
    <2>9. LineSound'
      BY <2>8 DEF LineSound, Unheard, OwnsField
    <2> QED BY <2>7, <2>9
  <1> QED BY <1>1, <1>2

LEMMA QuietLine ==
    ASSUME PeerInv, LineSound, TrackNothing \/ \E writer \in BOOLEAN : Diagnose(writer)
    PROVE  LineSound' /\ DeferStep
  <1>1. CASE TrackNothing
    BY <1>1 DEF TrackNothing, LineSound, DeferStep, Unheard, OwnsField
  <1>2. ASSUME NEW writer \in BOOLEAN, Diagnose(writer) PROVE LineSound' /\ DeferStep
    <2> DEFINE p == NoteForeignWriter(peer, writer)
    <2>1. peer' = p /\ line' = line /\ peer \in Peers
      BY <1>2 DEF Diagnose, PeerInv, PeerSound
    <2>2. OwnsField(p) <=> OwnsField(peer)
      BY DiagnosedSound DEF PeerInv
    <2>3. ~OwnsField(peer) /\ Unheard(peer) => Unheard(p)
      BY <2>1 DEF NoteForeignWriter, Unheard, LineUnowned, Peers
    <2> HIDE DEF p
    <2> QED BY <2>1, <2>2, <2>3 DEF LineSound, DeferStep, Unheard, OwnsField
  <1> QED BY <1>1, <1>2

LEMMA SwitchoverLine ==
    ASSUME PeerInv, LineSound, NEW ck \in Pulls, NEW skewed \in BOOLEAN,
           NEW granted \in BOOLEAN,
           Promote(skewed, granted) \/ PromoteSynced(ck, skewed, granted) \/ Demote
    PROVE  LineSound' /\ DeferStep
  <1>1. ASSUME NEW p, PeerSound(p), ~OwnsField(p), ~OwnsField(peer), line' = line,
               Promoted(p, skewed, granted), p.sync = peer.sync, p.foreign = peer.foreign,
               p.converged = peer.converged
        PROVE  LineSound' /\ DeferStep
    <2>1. \/ peer' = p
          \/ Promotable(p) /\ peer' = Take(p) /\ taken' = Grant("request", ClaimKind(p))
      BY <1>1 DEF Promoted, MayPromote
    <2>2. /\ ~OwnsField(peer') => peer' = p
          /\ OwnsField(peer') /\ Unheard(p) /\ ~p.foreign => taken'.kind = "unlessHeld"
      BY <1>1, <2>1, TakenDefers
    <2>3. Unheard(p) <=> Unheard(peer)
      BY <1>1 DEF Unheard
    <2> QED BY <1>1, <2>2, <2>3 DEF LineSound, DeferStep, Unheard, OwnsField
  <1>2. CASE Promote(skewed, granted) /\ ~OwnsField(peer)
    BY <1>1, <1>2 DEF Promote, PeerInv
  <1>3. CASE Promote(skewed, granted) /\ OwnsField(peer)
    <2>1. peer' = peer
      BY <1>3 DEF Promote, Promoted, MayPromote
    <2> QED BY <1>3, <2>1 DEF Promote, LineSound, DeferStep, Unheard, OwnsField
  <1>4. CASE PromoteSynced(ck, skewed, granted)
    <2>1. PeerSound(FinalSync(peer, ck)) /\ ~OwnsField(FinalSync(peer, ck))
      BY <1>4, FinalSyncSound DEF PromoteSynced, PeerInv, StandbyStep
    <2>2. /\ FinalSync(peer, ck).sync = peer.sync /\ FinalSync(peer, ck).foreign = peer.foreign
          /\ FinalSync(peer, ck).converged = peer.converged
      BY <1>4, FinalSyncLine DEF PromoteSynced, PeerInv
    <2> QED BY <1>1, <1>4, <2>1, <2>2 DEF PromoteSynced
  <1>5. CASE Demote
    BY <1>5 DEF Demote, LineSound, DeferStep
  <1> QED BY <1>2, <1>3, <1>4, <1>5

LEMMA NextLine ==
    ASSUME PeerInv, LineSound, ~Revised, Next
    PROVE  LineSound' /\ DeferStep
  <1>1. "error" \in Answers
    BY DEF Answers
  <1>2. [owns |-> "yes", transfer |-> "refused", restarted |-> FALSE,
         compared |-> "none"] \in Pulls
    BY DEF Pulls, Checkpoints
  <1>3. CASE \E ck \in Pulls, ensured, skewed, granted \in BOOLEAN :
                 TrackServed(ck, ensured, skewed, granted)
    BY <1>3, TrackServedLine
  <1>4. CASE \E skewed, granted \in BOOLEAN : TrackMissed(skewed, granted)
    BY <1>4, TrackMissedLine
  <1>5. CASE TrackNothing \/ \E writer \in BOOLEAN : Diagnose(writer)
    BY <1>5, QuietLine
  <1>6. CASE \/ \E seen \in Sightings : ScanFenced(seen)
             \/ \E seen \in Sightings, x \in Answers : Scan(seen, x)
    BY <1>1, <1>6, ScanLine
  <1>7. CASE \/ \E skewed, granted \in BOOLEAN : Promote(skewed, granted)
             \/ \E ck \in Pulls, skewed, granted \in BOOLEAN :
                   PromoteSynced(ck, skewed, granted)
             \/ Demote
    BY <1>2, <1>7, SwitchoverLine
  <1> QED BY <1>3, <1>4, <1>5, <1>6, <1>7 DEF Next

\* A peer without a revised model that knows its line is unowned never takes the
\* field from a live holder (with_field_orphan_claim); with one it may, because a
\* reinitialized peer claims outright.
THEOREM UnownedDefers ==
    ASSUME ~Revised
    PROVE  Spec => UnownedLineDefers
  <1>1. Init => LineSound
    BY DEF Init, LineSound
  <1>2. PeerInv /\ LineSound /\ [Next]_vars => LineSound' /\ [DeferStep]_vars
    <2> SUFFICES ASSUME PeerInv, LineSound, [Next]_vars PROVE LineSound' /\ [DeferStep]_vars
      OBVIOUS
    <2>1. CASE Next
      BY <2>1, NextLine
    <2>2. CASE UNCHANGED vars
      BY <2>2 DEF vars, LineSound, Unheard, OwnsField
    <2> QED BY <2>1, <2>2
  <1>3. [DeferStep]_vars =>
            [(/\ line = "no" /\ ~peer.foreign
              /\ ~OwnsField(peer) /\ OwnsField(peer)'
              /\ taken'.via \in {"request", "failover"})
                => taken'.kind = "unlessHeld" \/ line' # "no"]_vars
    BY DEF DeferStep, OwnsField
  <1> QED BY <1>1, <1>2, <1>3, PeerIsSound, PTL DEF Spec, UnownedLineDefers
=============================================================================
