---------------------------- MODULE StandbyPeer ----------------------------
(***************************************************************************)
(* One controller's peer in an arbitrary environment: every cycle of       *)
(* tracked_cycle (track, diagnose the writer, scan), the switchover        *)
(* requests of the monitor's HTTP threads between any two of its steps,    *)
(* and any answer from the source, the field and its claim hooks.          *)
(* (crates/dcs-runtime/src/peer.rs, crates/dcs-monitor/src/lib.rs)         *)
(***************************************************************************)
EXTENDS Peer

CONSTANT Revised  \* with_revision: a foreign-model checkpoint reinitializes

ASSUME RevisedAssumption == Revised \in BOOLEAN

VARIABLES peer,
          cycle,      \* the scan thread's next step
          attempted,  \* a self-promotion was attempted in this run of misses
          line,       \* who served the last checkpoint that landed
          taken       \* the last grant: what asked for it, and which claim

vars == <<peer, cycle, attempted, line, taken>>

Answers == {"granted", "refused", "error"}

\* What a pull can bring: an image is compared with the one the last scan
\* staged, from the same stream.
Pulls ==
    {ck \in Checkpoints :
        /\ Revised \/ ck.transfer # "reinitialized"
        /\ ck.compared # "none" => peer.staged /\ ~ck.restarted
                                  /\ ck.transfer = "applied"}

Sightings == {"held", "unclaimed", "silent"}

Grant(via, kind) == [via |-> via, kind |-> kind]

Init ==
    /\ peer \in {BornStandby} \cup {Activate(BornActive, x) : x \in Answers}
    /\ cycle = "track"
    /\ attempted = FALSE
    /\ line = "none"
    /\ taken = Grant("none", "none")

-----------------------------------------------------------------------------
(* The scan thread                                                         *)

\* self_promote on the peer a pull left; the field grants the claim, or it
\* refuses or does not answer.
Failover(p, skewed, granted) ==
    /\ attempted' = TRUE
    /\ IF MaySelfPromote(p) /\ ~BasisRefuses(p, skewed) /\ granted
       THEN peer' = Take(p) /\ taken' = Grant("failover", ClaimKind(p))
       ELSE peer' = p /\ taken' = taken

\* track_once without a boundary to act on.
NoFailover(p) ==
    /\ peer' = p
    /\ taken' = taken
    /\ attempted' = (attempted /\ p.misses # 0)

\* A pull that produced a checkpoint.
TrackServed(ck, ensured, skewed, granted) ==
    LET p == Served(peer, ck)
        q == IF ck.owns = "no" /\ ck.transfer # "refused"
             THEN Ensured(p, ensured) ELSE p IN
    /\ cycle = "track"
    /\ ~OwnsField(peer)
    /\ IF ck.owns = "no" /\ ck.transfer # "refused" /\ FailoverDue(q)
       THEN Failover(q, skewed, granted) ELSE NoFailover(q)
    /\ line' = IF ck.transfer = "refused" THEN line ELSE ck.owns
    /\ cycle' = "diagnose"

\* A pull that produced nothing.
TrackMissed(skewed, granted) ==
    LET p == NoteTransferFailed(peer) IN
    /\ cycle = "track"
    /\ ~OwnsField(peer)
    /\ IF FailoverDue(p) THEN Failover(p, skewed, granted) ELSE NoFailover(p)
    /\ cycle' = "diagnose"
    /\ UNCHANGED line

\* No source is configured or verified, or the peer owns the field.
TrackNothing ==
    /\ cycle = "track"
    /\ cycle' = "scan"
    /\ UNCHANGED <<peer, attempted, line, taken>>

\* track_cycle's last step, under a lock of its own.
Diagnose(writer) ==
    /\ cycle = "diagnose"
    /\ peer' = NoteForeignWriter(peer, writer)
    /\ cycle' = "scan"
    /\ UNCHANGED <<attempted, line, taken>>

\* Peer::scan whose field write the claim fenced.
ScanFenced(seen) ==
    /\ cycle = "scan"
    /\ OwnsField(peer)
    /\ peer' = FencedOut(Probed(peer, seen))
    /\ cycle' = "track"
    /\ attempted' = FALSE
    /\ line' = "none"
    /\ UNCHANGED taken

ScanVia(p) == IF p.startupPending THEN Grant("startup", "unlessHeld")
              ELSE Grant("reclaim", "reclaim")

Scan(seen, answer) ==
    LET p == Settled(Probed(peer, seen))
        q == Hooked(p, seen, answer) IN
    /\ cycle = "scan"
    /\ peer' = Closed(q, seen)
    /\ taken' = IF OwnsField(q) /\ ~OwnsField(p) THEN ScanVia(p) ELSE taken
    /\ cycle' = "track"
    /\ UNCHANGED <<attempted, line>>

-----------------------------------------------------------------------------
(* The monitor's HTTP threads                                              *)

Promoted(p, skewed, granted) ==
    IF MayPromote(p) /\ ~BasisRefuses(p, skewed) /\ granted
    THEN peer' = Take(p) /\ taken' = Grant("request", ClaimKind(p))
    ELSE peer' = p /\ taken' = taken

\* switchover(promote): the final pull, fetched before the lock, then the
\* promotion; a failed or stale pull changes nothing.
Promote(skewed, granted) ==
    /\ Promoted(peer, skewed, granted)
    /\ UNCHANGED <<cycle, attempted, line>>

PromoteSynced(ck, skewed, granted) ==
    LET p == FinalSync(peer, ck) IN
    /\ ~OwnsField(peer)
    /\ Promoted(p, skewed, granted)
    /\ attempted' = (attempted /\ p.misses # 0)
    /\ UNCHANGED <<cycle, line>>

Demote ==
    /\ OwnsField(peer)
    /\ peer' = DemoteInner(peer, "request")
    /\ attempted' = FALSE
    /\ line' = "none"
    /\ UNCHANGED <<cycle, taken>>

-----------------------------------------------------------------------------
Next ==
    \/ \E ck \in Pulls, ensured, skewed, granted \in BOOLEAN :
          TrackServed(ck, ensured, skewed, granted)
    \/ \E skewed, granted \in BOOLEAN : TrackMissed(skewed, granted)
    \/ TrackNothing
    \/ \E writer \in BOOLEAN : Diagnose(writer)
    \/ \E seen \in Sightings : ScanFenced(seen)
    \/ \E seen \in Sightings, x \in Answers : Scan(seen, x)
    \/ \E skewed, granted \in BOOLEAN : Promote(skewed, granted)
    \/ \E ck \in Pulls, skewed, granted \in BOOLEAN :
          PromoteSynced(ck, skewed, granted)
    \/ Demote

Spec == Init /\ [][Next]_vars

-----------------------------------------------------------------------------
(* Properties                                                              *)

TypeOK ==
    /\ peer \in Peers
    /\ cycle \in {"track", "diagnose", "scan"}
    /\ attempted \in BOOLEAN
    /\ line \in {"none", "yes", "no", "unknown"}
    /\ taken \in [via : {"none", "request", "failover", "reclaim", "startup"},
                  kind : {"none", "claim", "unlessHeld", "reclaim"}]

\* The gate is open exactly while the peer owns the field, whichever of the
\* six ways ownership was gained or lost.
GateFollowsRole == GateSound(peer)

\* A peer that owns the field carries no mark of an earlier loss: a left-over
\* fencing loss, hand-off or pending startup would steer its next demotion's
\* recovery.
OwnerIsClean == OwnerSound(peer)

\* The convergence proof a failover stands on is never that of a diverged or
\* never-aligned peer, also after a boundary pull restored it.
ProofHonest == ProofSound(peer)

\* The inductive invariant: the three above, and that a startup grant still
\* owed belongs to a standby that never owned the field.
PeerInv == TypeOK /\ PeerSound(peer)

\* A peer that handed the field over on request gets it back by a request or
\* a failover only: its own reclaim never undoes the operator's switch.
YieldedStaysAside ==
    [][peer.yielded /\ OwnsField(peer)' => taken'.via \in {"request", "failover"}]_vars

\* A peer whose line reports no field owner, and whose field names no foreign
\* writer, asks for the field conditionally: a live controller it lost track
\* of keeps it (with_field_orphan_claim).
UnownedLineDefers ==
    [][(/\ line = "no" /\ ~peer.foreign
        /\ ~OwnsField(peer) /\ OwnsField(peer)'
        /\ taken'.via \in {"request", "failover"})
          => taken'.kind = "unlessHeld" \/ line' # "no"]_vars

\* The budget-th miss is always the boundary: no armed peer counts past its
\* budget without having attempted the promotion.
BudgetBoundaryAttempted ==
    (Budget # 0 /\ ~OwnsField(peer) /\ peer.misses > Budget) => attempted
=============================================================================
